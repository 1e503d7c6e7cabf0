------------------------------ MODULE FileTree ------------------------------
(***************************************************************************)
(* What a content-addressed file store promises its users: a tree of files *)
(* and directories that changes by one operation at a time and survives    *)
(* restarts, and snapshots that no operation on the tree changes.  The     *)
(* tree can be damaged: it is unreadable, and lost unless it is changed.   *)
(***************************************************************************)
EXTENDS Naturals, Sequences

CONSTANTS Paths, Data, Tags

VARIABLES files, unreadable, snaps

vars == <<files, unreadable, snaps>>

None == "none"
Directory == "dir"
Absent == [p \in Paths |-> "absent"]
Nothing == [p \in Paths |-> None]

Init ==
    /\ files = Nothing /\ unreadable = FALSE
    /\ snaps = [t \in Tags |-> Absent]

\* The directory that has p exists.
HasParent(p) == Len(p) = 1 \/ files[SubSeq(p, 1, Len(p) - 1)] = Directory

Put(p, x) ==
    /\ HasParent(p) /\ files[p] # Directory
    /\ files' = [files EXCEPT ![p] = x]
    /\ unreadable' = FALSE /\ UNCHANGED snaps

MakeDirectory(p) ==
    /\ HasParent(p) /\ files[p] = None
    /\ files' = [files EXCEPT ![p] = Directory]
    /\ unreadable' = FALSE /\ UNCHANGED snaps

\* A directory must be empty.
Delete(p) ==
    /\ \A q \in Paths : files[q] # None /\ Len(q) > Len(p) => SubSeq(q, 1, Len(p)) # p
    /\ files' = [files EXCEPT ![p] = None]
    /\ unreadable' = FALSE /\ UNCHANGED snaps

\* A snapshot that is taken of an unreadable tree is empty.
TakeSnapshot(t) ==
    /\ snaps' = [snaps EXCEPT ![t] = IF unreadable THEN Nothing ELSE files]
    /\ UNCHANGED <<files, unreadable>>

CopySnapshot(t, u) == snaps' = [snaps EXCEPT ![u] = snaps[t]] /\ UNCHANGED <<files, unreadable>>
DropSnapshot(t) == snaps' = [snaps EXCEPT ![t] = Absent] /\ UNCHANGED <<files, unreadable>>

ChangeFiles ==
    \E p \in Paths : MakeDirectory(p) \/ Delete(p) \/ \E x \in Data : Put(p, x)

ChangeSnapshots ==
    \E t \in Tags : TakeSnapshot(t) \/ DropSnapshot(t) \/ \E u \in Tags : CopySnapshot(t, u)

Next == ChangeFiles \/ ChangeSnapshots

SameFiles == UNCHANGED <<files, unreadable>>
SameSnapshots == UNCHANGED snaps

\* The tree becomes unreadable, or is lost; a snapshot is lost.
DamageFiles ==
    \/ unreadable' = TRUE /\ files' = files
    \/ unreadable' = FALSE /\ files' = Nothing
DamageSnapshot == \E t \in Tags : snaps' = [snaps EXCEPT ![t] = Absent]
Damage == (SameFiles \/ DamageFiles) /\ (SameSnapshots \/ DamageSnapshot)

Spec == Init /\ [][Next \/ Damage]_vars
=============================================================================
