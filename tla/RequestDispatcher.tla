------------------------- MODULE RequestDispatcher -------------------------
(***************************************************************************)
(* What util::RequestDispatcher promises to everybody who posts a          *)
(* Runnable: it is executed, not nested, in the order of posting, and it   *)
(* is destroyed exactly once.  A dispatcher that is being destroyed may    *)
(* stop executing; what is left is then destroyed, still in order.         *)
(***************************************************************************)
EXTENDS Sequences, Integers

CONSTANT Tasks          \* the Runnables that can be posted

VARIABLES
    posted,             \* every Runnable handed to postNewRunnable(), oldest first
    ran,                \* those whose run() was called, in order
    destroyed,          \* those that were deleted, in order
    discarding          \* the dispatcher executes no more, it only deletes

vars == <<posted, ran, destroyed, discarding>>

Elements(s) == {s[i] : i \in DOMAIN s}

TypeOK ==
    /\ posted \in Seq(Tasks)
    /\ ran \in Seq(Tasks)
    /\ destroyed \in Seq(Tasks)
    /\ discarding \in BOOLEAN

Init ==
    /\ posted = <<>>
    /\ ran = <<>>
    /\ destroyed = <<>>
    /\ discarding = FALSE

(* Ownership of a Runnable moves to the dispatcher, so it is posted once. *)
Post(t) ==
    /\ t \notin Elements(posted)
    /\ posted' = Append(posted, t)
    /\ UNCHANGED <<ran, destroyed, discarding>>

(* The oldest Runnable is executed; not nested: its predecessor is gone. *)
Run ==
    /\ ~discarding
    /\ Len(ran) = Len(destroyed)
    /\ Len(destroyed) < Len(posted)
    /\ ran' = Append(ran, posted[Len(destroyed) + 1])
    /\ UNCHANGED <<posted, destroyed, discarding>>

(* The executed Runnable is deleted before the next one is looked at. *)
Destroy ==
    /\ ~discarding
    /\ Len(ran) = Len(destroyed) + 1
    /\ destroyed' = Append(destroyed, posted[Len(destroyed) + 1])
    /\ UNCHANGED <<posted, ran, discarding>>

Shutdown ==
    /\ ~discarding
    /\ Len(ran) = Len(destroyed)
    /\ discarding' = TRUE
    /\ UNCHANGED <<posted, ran, destroyed>>

(* The oldest Runnable is deleted without being executed; its destructor *)
(* may post one more.                                                     *)
Discard(new) ==
    /\ discarding
    /\ Len(destroyed) < Len(posted)
    /\ destroyed' = Append(destroyed, posted[Len(destroyed) + 1])
    /\ posted' = posted \o new
    /\ UNCHANGED <<ran, discarding>>

(* What a destructor posts: nothing, or one fresh Runnable. *)
Fresh == {<<>>} \cup {<<t>> : t \in Tasks \ Elements(posted)}

Next ==
    \/ \E t \in Tasks : Post(t)
    \/ Run
    \/ Destroy
    \/ Shutdown
    \/ \E new \in Fresh : Discard(new)

Spec == Init /\ [][Next]_vars

=============================================================================
