--------------------------- MODULE ScriptSideProofs ---------------------------
(***************************************************************************)
(* Proofs about ScriptInterface, first part: the inductive invariant, and  *)
(* that the steps of the game thread, ScriptSide's, preserve it.           *)
(*                                                                         *)
(* It is about who continues whom.  There is at most one token: a process  *)
(* that runs, or a request that makes one run.  As long as there is one,   *)
(* the innermost Control is not told to end, and its event loop waits for  *)
(* the process.                                                            *)
(***************************************************************************)
EXTENDS ScriptInterface, ListLemmas

\* Who waits, and for which group
WaitEntry(c, g) == [waitId |-> c, pgid |-> g]
Waits(ws, c, g) == Has(ws, WaitEntry(c, g))
WaitsOf(c) == [waitId : {c}, pgid : Processes]

\* Requests by what they mean for process p
AsksOf(p) == { To(op, p) : op \in Asks }
ContinuesOf(p) == { To(op, p) : op \in Continues }
HandsOf(p) == ContinuesOf(p) \cup Takes(p)
Detach(p) == To("detachProcess", p)
Uses(p) == {Detach(p)} \cup { Join(p, q) : q \in Processes \cup {None} }
FramesOf(p) == { f \in Frames : f.link = p }

\* Tokens: a process that runs, asks, is about to continue, or is interrupted
UserTokens == UNION { AsksOf(p) : p \in Processes }
ScriptTokens ==
    (UNION { ForTask(c) : c \in Controls }) \cup (UNION { ContinuesOf(p) : p \in Processes })
Running == IF NoneRunning(state) THEN 0 ELSE 1
Interrupted == IF m_interruptedProcesses = {} THEN 0 ELSE 1
Tokens == Running + Number(toUser, UserTokens) + Number(toScript, ScriptTokens) + Interrupted
OneToken ==
    /\ Tokens <= 1
    /\ \A p, q \in Processes : state[p] = "Running" /\ state[q] = "Running" => p = q
    /\ \A p, q \in m_interruptedProcesses : p = q

\* The process that has the token is waited for by the innermost Control.
HasToken(p) ==
    \/ state[p] = "Running"
    \/ p \in m_interruptedProcesses
    \/ Number(toUser, AsksOf(p)) > 0
    \/ Number(toScript, ContinuesOf(p)) > 0
Attached ==
    /\ Tokens > 0 => TopControl \notin ended
    /\ \A p \in Processes : HasToken(p) => Waits(m_waits, TopControl, group[p])
    /\ \A c \in Controls : Number(toScript, ForTask(c)) > 0 => c = TopControl

\* Event loops: the screen's or the last, or one that another Control opened while it waited,
Base(ls, i) == i = 1 /\ ls[i].loop \in {"screen", "null"}
Opened(ls, i) ==
    /\ i > 2 /\ IsOwn(ls[i]) /\ ls[i].loop \notin {"screen", "null"}
    /\ IsOwn(ls[i-2]) /\ ls[i].parent = ls[i-2].id /\ ls[i-1] = Wait(ls[i-2].id)
    /\ ls[i].loop = "console" => ls[i-2].loop \in {"screen", "dialog"}
\* one that waits; and on top, one for a key that will not wait, or a question.
WaitsAbove(ls, i) == i > 1 /\ IsOwn(ls[i-1]) /\ ls[i] = Wait(ls[i-1].id)
OnTop(ls, i, stopped) ==
    /\ i > 2 /\ i = Len(ls)
    /\ IsOwn(ls[i-2]) /\ ls[i-1] = Wait(ls[i-2].id)
    /\ ls[i] = Ask \/ (ls[i] = ls[i-1] /\ ls[i-2].id \in stopped)
Plain(ls, i) == Base(ls, i) \/ Opened(ls, i) \/ WaitsAbove(ls, i)
Ids(ls, last) ==
    /\ \A i \in Owns(ls) : ls[i].id \in 1..last
    /\ \A i, j \in Owns(ls) : i < j => ls[i].id < ls[j].id
Stacked(ls, stopped, last) ==
    /\ \A i \in DOMAIN ls : Plain(ls, i) \/ OnTop(ls, i, stopped)
    /\ Ids(ls, last)
Stack ==
    /\ Stacked(loops, m_stopped, lastId)
    /\ \A i \in DOMAIN loops : loops[i].loop = "ask" => m_interruptedProcesses # {}

\* What a Control ends with
Output(i, o) ==
    \/ o.link = None /\ o.target = "none" /\ loops[i].loop # "screen"
    \/ o.link = None /\ o.target = "key" /\ loops[i].loop = "keymap"
         /\ i = Len(loops) /\ tasks < MaxTasks
    \/ /\ o.link # None /\ o.target \in {"screen", "exit"}
       /\ loops[i].loop \in {"screen", "console", "dialog"}
    \/ o.link # None /\ o.target = "none" /\ loops[i].loop = "dialog"
    \/ o.link # None /\ o.target # "key" /\ loops[i].loop = "keymap"
         /\ Waits(m_waits, loops[i].id, group[o.link])
Outputs ==
    /\ \A c \in Controls : c \notin ended => m_outputState[c] = NoOutput
    /\ \A c \in ended : c <= lastId
    /\ \A i \in Owns(loops) : loops[i].id \in ended =>
         loops[i].id = TopControl /\ Output(i, m_outputState[loops[i].id])

\* A dialog holds the process that opened it, and its parent waits for that one; what
\* play() has left is nobody else's.
Dialogs == \A i \in DOMAIN loops :
    IF loops[i].loop = "dialog"
    THEN loops[i].link # None /\ Waits(m_waits, loops[i].parent, group[loops[i].link])
    ELSE loops[i].link = None \/ loops[i].loop = "null"

\* The parent's wait ends before that of the keymap.
ParentFirst(c, k) ==
    \/ \E g \in Processes : Precedes(m_waits, WaitEntry(c, g), WaitEntry(k, g))
    \/ \E p \in Processes : /\ Number(toScript, {ContinueWait(k, p)}) > 0
                            /\ Number(toScript, {Detach(p)}) = 0
                            /\ Waits(m_waits, c, group[p])
    \/ c \in m_stopped
    \/ Precedes(toUser, Complete(c), Complete(k))
Keymaps == \A i \in DOMAIN loops :
    loops[i].loop = "keymap" => ParentFirst(loops[i].parent, loops[i].id)

\* A process that is detached or joined waits, and is not continued before that.
Users == \A p \in Processes : Number(toScript, Uses(p)) > 0 => state[p] = "Waiting"
Later == \A p \in Processes : AllBefore(toScript, Uses(p), HandsOf(p))
Detaches == \A p \in Processes : Number(toScript, {Detach(p)}) > 0 =>
    /\ ~HasToken(p)
    /\ \A i \in DOMAIN loops : loops[i].link # p \/ loops[i].loop = "null"
    /\ \A i \in Owns(loops) : loops[i].loop = "keymap" => m_outputState[loops[i].id].link # p

\* Of a group, one process is active; a process that is new is alone in its group.
Active(s) == s \in {"Running", "Waiting"}
Groups ==
    /\ \A p, q \in Processes :
         Active(state[p]) /\ Active(state[q]) /\ group[p] = group[q] => p = q
    /\ \A r \in Processes : state[r] = "new" =>
         group[r] = r /\ \A q \in Processes : group[q] = r => q = r

\* An interrupt is a request, its confirmation or a question.
ConfirmRequest == {[op |-> "confirmInterrupt"]}
Confirmation == {[op |-> "onInterruptConfirm"]}
Interruptions == { To("onProcessInterrupted", p) : p \in Processes }
Interrupts ==
    /\ Number(toScript, ConfirmRequest) + Number(toUser, Confirmation) + Number(loops, {Ask})
         = IF m_interrupting THEN 1 ELSE 0
    /\ m_stopSignal <=> Number(toScript, ConfirmRequest) = 1
    /\ m_interruptedProcesses # {} => m_interrupting
    /\ m_stopSignal \/ Followed(toUser, Interruptions, Confirmation)

\* Bounds: each Control, or one that will be needed, had its callout.
ToShow == { To(op, p) : op \in Callouts, p \in Processes }
Executes == { Execute(c) : c \in Controls }
NewOnes == { p \in Processes : state[p] = "new" }
Credits ==
    /\ lastId + Number(toUser, ToShow)
         + (IF m_outputState[TopControl].target \in {"screen", "exit"} THEN 1 ELSE 0) <= calls + 1
    /\ calls <= MaxCalls
News == tasks <= MaxTasks

\* No script goes to the screen where it is: a screen would continue, without waiting, what
\* was detached for a console.
Elsewhere == "own" \notin Targets

IInv ==
    /\ OneEndPerWait /\ OneHand
    /\ OneToken /\ Attached /\ Stack /\ Outputs /\ Dialogs /\ Keymaps
    /\ Users /\ Later /\ Detaches /\ Groups /\ Interrupts /\ Credits /\ News
    /\ Elsewhere

\* When reset() is to come, play() has returned and its hook is over.
Resetting == \A i \in DOMAIN toScript : toScript[i].op = "reset" =>
    /\ i = Len(toScript) /\ Len(loops) = 1 /\ loops[1].loop = "null" /\ loops[1].link = None
    /\ Tokens = 0
SInv == IInv /\ Resetting

-----------------------------------------------------------------------------
(* Which request is in which set.                                          *)
LEMMA Bounds ==
    /\ MaxTasks \in Nat /\ MaxCalls \in Nat /\ MaxBreaks \in Nat
    /\ Processes \subseteq Nat \ {0} /\ Controls \subseteq Nat \ {0}
    /\ None \notin Processes /\ None \notin Controls /\ 1 \in Controls
    /\ Controls = 1..MaxCalls + 1 /\ Processes = 1..MaxTasks
<1>1. MaxTasks \in Nat /\ MaxCalls \in Nat /\ MaxBreaks \in Nat
  BY BoundsAssumption
<1>. QED
  BY <1>1 DEF Processes, Controls, None

LEMMA ExecuteClass ==
    ASSUME NEW c \in Controls
    PROVE  /\ Execute(c) \in ToScript
           /\ Execute(c) \in ScriptTokens /\ Execute(c) \in Executes
           /\ Execute(c) \notin ConfirmRequest
           /\ \A d \in Controls : Execute(c) \in ForTask(d) <=> c = d
           /\ \A d \in Controls, p \in Processes : Execute(c) \notin {ContinueWait(d, p)}
           /\ \A p \in Processes :
                /\ Execute(c) \notin ContinuesOf(p) /\ Execute(c) \notin HandsOf(p)
                /\ Execute(c) \notin {Detach(p)} /\ Execute(c) \notin Uses(p)
<1>1. /\ \A d \in Controls : Execute(c) \in ForTask(d) <=> c = d
      /\ \A d \in Controls, p \in Processes : Execute(c) # ContinueWait(d, p)
  BY DEF ForTask, Execute, ContinueWait
<1>2. \A op, p : Execute(c) # To(op, p) \/ op = "executeTaskWait"
  BY DEF Execute, To
<1>3. \A p, q : Execute(c) # Join(p, q)
  BY DEF Execute, Join
<1>4. Execute(c) \notin ConfirmRequest
  BY DEF Execute, ConfirmRequest
<1>5. /\ Execute(c) \in ScriptTokens /\ Execute(c) \in Executes /\ Execute(c) \in ToScript
  BY <1>1 DEF ScriptTokens, Executes, ToScript
<1>6. ASSUME NEW p \in Processes
      PROVE  /\ Execute(c) \notin ContinuesOf(p) /\ Execute(c) \notin HandsOf(p)
             /\ Execute(c) \notin {Detach(p)} /\ Execute(c) \notin Uses(p)
  BY <1>1, <1>2, <1>3 DEF ContinuesOf, HandsOf, Continues, Takes, Reset, Detach, Uses
<1>. QED
  BY <1>1, <1>4, <1>5, <1>6

LEMMA ContinueWaitClass ==
    ASSUME NEW c \in Controls, NEW q \in Processes
    PROVE  /\ ContinueWait(c, q) \in ToScript
           /\ ContinueWait(c, q) \in ScriptTokens /\ ContinueWait(c, q) \notin Executes
           /\ ContinueWait(c, q) \notin ConfirmRequest
           /\ \A d \in Controls : ContinueWait(c, q) \in ForTask(d) <=> c = d
           /\ \A d \in Controls, p \in Processes :
                ContinueWait(c, q) \in {ContinueWait(d, p)} <=> c = d /\ q = p
           /\ \A p \in Processes :
                /\ ContinueWait(c, q) \notin ContinuesOf(p)
                /\ ContinueWait(c, q) \in HandsOf(p) <=> p = q
                /\ ContinueWait(c, q) \notin {Detach(p)} /\ ContinueWait(c, q) \notin Uses(p)
<1>1. /\ \A d \in Controls, p \in Processes : ContinueWait(c, q) = ContinueWait(d, p) <=> c = d /\ q = p
      /\ \A d \in Controls : ContinueWait(c, q) # Execute(d)
  BY DEF ContinueWait, Execute
<1>2. \A op, p : ContinueWait(c, q) # To(op, p) \/ op = "continueProcessWait"
  BY DEF ContinueWait, To
<1>3. \A p, r : ContinueWait(c, q) # Join(p, r)
  BY DEF ContinueWait, Join
<1>4. ContinueWait(c, q) \notin ConfirmRequest
  BY DEF ContinueWait, ConfirmRequest
<1>5. \A d \in Controls : ContinueWait(c, q) \in ForTask(d) <=> c = d
  BY <1>1 DEF ForTask
<1>6. /\ ContinueWait(c, q) \in ScriptTokens /\ ContinueWait(c, q) \notin Executes
      /\ ContinueWait(c, q) \in ToScript
  BY <1>1, <1>5 DEF ScriptTokens, Executes, ToScript
<1>7. ASSUME NEW p \in Processes
      PROVE  /\ ContinueWait(c, q) \notin ContinuesOf(p)
             /\ ContinueWait(c, q) \in HandsOf(p) <=> p = q
             /\ ContinueWait(c, q) \notin {Detach(p)} /\ ContinueWait(c, q) \notin Uses(p)
  BY <1>1, <1>2, <1>3 DEF ContinuesOf, HandsOf, Continues, Takes, Reset, Detach, Uses
<1>. QED
  BY <1>1, <1>4, <1>5, <1>6, <1>7

LEMMA ContinueClass ==
    ASSUME NEW op \in Continues, NEW q \in Processes
    PROVE  /\ To(op, q) \in ToScript
           /\ To(op, q) \in ScriptTokens /\ To(op, q) \notin Executes
           /\ To(op, q) \notin ConfirmRequest
           /\ \A d \in Controls : To(op, q) \notin ForTask(d)
           /\ \A d \in Controls, p \in Processes : To(op, q) \notin {ContinueWait(d, p)}
           /\ \A p \in Processes :
                /\ To(op, q) \in ContinuesOf(p) <=> p = q
                /\ To(op, q) \in HandsOf(p) <=> p = q
                /\ To(op, q) \notin {Detach(p)} /\ To(op, q) \notin Uses(p)
<1>1. op \in {"continueProcess", "continueProcessWithFailure", "terminateProcessAndGroup"}
  BY DEF Continues
<1>2. /\ \A d, p : To(op, q) # ContinueWait(d, p)
      /\ \A d : To(op, q) # Execute(d)
      /\ \A p, r : To(op, q) # Join(p, r)
      /\ To(op, q) \notin ConfirmRequest
  BY <1>1 DEF To, ContinueWait, Execute, Join, ConfirmRequest
<1>3. \A o, p : To(op, q) = To(o, p) <=> o = op /\ p = q
  BY DEF To
<1>4. \A d \in Controls : To(op, q) \notin ForTask(d)
  BY <1>2 DEF ForTask
<1>5. \A p \in Processes : To(op, q) \in ContinuesOf(p) <=> p = q
  BY <1>3 DEF ContinuesOf
<1>6. ASSUME NEW p \in Processes
      PROVE  /\ To(op, q) \in HandsOf(p) <=> p = q
             /\ To(op, q) \notin {Detach(p)} /\ To(op, q) \notin Uses(p)
  BY <1>1, <1>2, <1>3, <1>5 DEF HandsOf, Takes, Reset, Detach, Uses
<1>7. /\ To(op, q) \in ScriptTokens /\ To(op, q) \notin Executes
  BY <1>2, <1>5 DEF ScriptTokens, Executes
<1>8. To(op, q) \in ToScript
  BY DEF ToScript
<1>. QED
  BY <1>2, <1>4, <1>5, <1>6, <1>7, <1>8

LEMMA DetachClass ==
    ASSUME NEW q \in Processes
    PROVE  /\ Detach(q) \in ToScript
           /\ Detach(q) \notin ScriptTokens /\ Detach(q) \notin Executes
           /\ Detach(q) \notin ConfirmRequest
           /\ \A d \in Controls : Detach(q) \notin ForTask(d)
           /\ \A d \in Controls, p \in Processes : Detach(q) \notin {ContinueWait(d, p)}
           /\ \A p \in Processes :
                /\ Detach(q) \notin ContinuesOf(p) /\ Detach(q) \notin HandsOf(p)
                /\ Detach(q) \in {Detach(p)} <=> p = q
                /\ Detach(q) \in Uses(p) <=> p = q
<1>2. /\ \A d, p : Detach(q) # ContinueWait(d, p)
      /\ \A d : Detach(q) # Execute(d)
      /\ \A p, r : Detach(q) # Join(p, r)
      /\ Detach(q) \notin ConfirmRequest
  BY DEF Detach, To, ContinueWait, Execute, Join, ConfirmRequest
<1>3. \A o, p : Detach(q) = To(o, p) <=> o = "detachProcess" /\ p = q
  BY DEF Detach, To
<1>4. \A d \in Controls : Detach(q) \notin ForTask(d)
  BY <1>2 DEF ForTask
<1>5. \A p \in Processes : Detach(q) \notin ContinuesOf(p)
  BY <1>3 DEF ContinuesOf, Continues
<1>6. ASSUME NEW p \in Processes
      PROVE  /\ Detach(q) \notin HandsOf(p)
             /\ Detach(q) \in {Detach(p)} <=> p = q
             /\ Detach(q) \in Uses(p) <=> p = q
  <2>1. Detach(q) = Detach(p) <=> p = q
    BY <1>3 DEF Detach
  <2>2. Detach(q) # Reset(p)
    BY <1>3 DEF Reset
  <2>. QED
    BY <1>2, <1>5, <2>1, <2>2 DEF HandsOf, Takes, Uses
<1>7. /\ Detach(q) \notin ScriptTokens /\ Detach(q) \notin Executes
  BY <1>2, <1>4, <1>5 DEF ScriptTokens, Executes
<1>8. Detach(q) \in ToScript
  BY DEF ToScript, Detach
<1>. QED
  BY <1>2, <1>4, <1>5, <1>6, <1>7, <1>8

LEMMA JoinClass ==
    ASSUME NEW q \in Processes, NEW r \in Processes \cup {None}
    PROVE  /\ Join(q, r) \in ToScript
           /\ Join(q, r) \notin ScriptTokens /\ Join(q, r) \notin Executes
           /\ Join(q, r) \notin ConfirmRequest
           /\ \A d \in Controls : Join(q, r) \notin ForTask(d)
           /\ \A d \in Controls, p \in Processes : Join(q, r) \notin {ContinueWait(d, p)}
           /\ \A p \in Processes :
                /\ Join(q, r) \notin ContinuesOf(p)
                /\ Join(q, r) \in HandsOf(p) <=> p = r
                /\ Join(q, r) \notin {Detach(p)}
                /\ Join(q, r) \in Uses(p) <=> p = q
<1>2. /\ \A d, p : Join(q, r) # ContinueWait(d, p)
      /\ \A d : Join(q, r) # Execute(d)
      /\ \A o, p : Join(q, r) # To(o, p)
      /\ Join(q, r) \notin ConfirmRequest
  BY DEF To, ContinueWait, Execute, Join, ConfirmRequest
<1>3. \A p, t : Join(q, r) = Join(p, t) <=> p = q /\ t = r
  BY DEF Join
<1>4. \A d \in Controls : Join(q, r) \notin ForTask(d)
  BY <1>2 DEF ForTask
<1>5. \A p \in Processes : Join(q, r) \notin ContinuesOf(p) /\ Join(q, r) # Detach(p)
  BY <1>2 DEF ContinuesOf, Detach
<1>6. ASSUME NEW p \in Processes
      PROVE  /\ Join(q, r) \in HandsOf(p) <=> p = r
             /\ Join(q, r) \in Uses(p) <=> p = q
  <2>1. Join(q, r) \in Takes(p) <=> p = r
    BY <1>2, <1>3 DEF Takes, Reset
  <2>2. Join(q, r) \in { Join(p, t) : t \in Processes \cup {None} } <=> p = q
    BY <1>3
  <2>. QED
    BY <1>5, <2>1, <2>2 DEF HandsOf, Uses
<1>7. /\ Join(q, r) \notin ScriptTokens /\ Join(q, r) \notin Executes
  BY <1>2, <1>4, <1>5 DEF ScriptTokens, Executes
<1>8. Join(q, r) \in ToScript
  BY DEF ToScript
<1>. QED
  BY <1>2, <1>4, <1>5, <1>6, <1>7, <1>8

LEMMA ResetClass ==
    ASSUME NEW q \in Processes \cup {None}
    PROVE  /\ Reset(q) \in ToScript
           /\ Reset(q) \notin ScriptTokens /\ Reset(q) \notin Executes
           /\ Reset(q) \notin ConfirmRequest
           /\ \A d \in Controls : Reset(q) \notin ForTask(d)
           /\ \A d \in Controls, p \in Processes : Reset(q) \notin {ContinueWait(d, p)}
           /\ \A p \in Processes :
                /\ Reset(q) \notin ContinuesOf(p)
                /\ Reset(q) \in HandsOf(p) <=> p = q
                /\ Reset(q) \notin {Detach(p)} /\ Reset(q) \notin Uses(p)
<1>2. /\ \A d, p : Reset(q) # ContinueWait(d, p)
      /\ \A d : Reset(q) # Execute(d)
      /\ \A p, r : Reset(q) # Join(p, r)
      /\ Reset(q) \notin ConfirmRequest
  BY DEF Reset, To, ContinueWait, Execute, Join, ConfirmRequest
<1>3. \A o, p : Reset(q) = To(o, p) <=> o = "reset" /\ p = q
  BY DEF Reset, To
<1>4. \A d \in Controls : Reset(q) \notin ForTask(d)
  BY <1>2 DEF ForTask
<1>5. \A p \in Processes : Reset(q) \notin ContinuesOf(p)
  BY <1>3 DEF ContinuesOf, Continues
<1>6. ASSUME NEW p \in Processes
      PROVE  /\ Reset(q) \in HandsOf(p) <=> p = q
             /\ Reset(q) \notin {Detach(p)} /\ Reset(q) \notin Uses(p)
  <2>1. Reset(q) = Reset(p) <=> p = q
    BY <1>3 DEF Reset
  <2>2. Reset(q) \in Takes(p) <=> p = q
    BY <1>2, <2>1 DEF Takes
  <2>3. Reset(q) # Detach(p)
    BY <1>3 DEF Detach
  <2>. QED
    BY <1>2, <1>5, <2>2, <2>3 DEF HandsOf, Uses
<1>7. /\ Reset(q) \notin ScriptTokens /\ Reset(q) \notin Executes
  BY <1>2, <1>4, <1>5 DEF ScriptTokens, Executes
<1>8. Reset(q) \in ToScript
  BY DEF ToScript
<1>. QED
  BY <1>2, <1>4, <1>5, <1>6, <1>7, <1>8

\* To continue no process, and to confirm an interrupt
LEMMA OtherClass ==
    /\ \A m \in {To("continueProcess", None), [op |-> "confirmInterrupt"]} :
         /\ m \in ToScript
         /\ m \notin ScriptTokens /\ m \notin Executes
         /\ \A d \in Controls : m \notin ForTask(d)
         /\ \A d \in Controls, p \in Processes : m \notin {ContinueWait(d, p)}
         /\ \A p \in Processes :
              /\ m \notin ContinuesOf(p) /\ m \notin HandsOf(p)
              /\ m \notin {Detach(p)} /\ m \notin Uses(p)
    /\ To("continueProcess", None) \notin ConfirmRequest
    /\ [op |-> "confirmInterrupt"] \in ConfirmRequest
<1> DEFINE Ms == {To("continueProcess", None), [op |-> "confirmInterrupt"]}
<1>1. ASSUME NEW m \in Ms
      PROVE  /\ \A d, p : m # ContinueWait(d, p)
             /\ \A d : m # Execute(d)
             /\ \A p, r : m # Join(p, r)
             /\ \A o : \A p \in Processes : m # To(o, p)
  <2>1. CASE m = To("continueProcess", None)
    BY <2>1, Bounds DEF To, ContinueWait, Execute, Join
  <2>2. CASE m = [op |-> "confirmInterrupt"]
    BY <2>2 DEF To, ContinueWait, Execute, Join
  <2>. QED
    BY <2>1, <2>2
<1>2. /\ To("continueProcess", None) \notin ConfirmRequest
      /\ [op |-> "confirmInterrupt"] \in ConfirmRequest
  BY DEF To, ConfirmRequest
<1>3. ASSUME NEW m \in Ms
      PROVE  /\ m \in ToScript
             /\ m \notin ScriptTokens /\ m \notin Executes
             /\ \A d \in Controls : m \notin ForTask(d)
             /\ \A d \in Controls, p \in Processes : m \notin {ContinueWait(d, p)}
             /\ \A p \in Processes :
                  /\ m \notin ContinuesOf(p) /\ m \notin HandsOf(p)
                  /\ m \notin {Detach(p)} /\ m \notin Uses(p)
  <2>1. m \in ToScript
    BY DEF ToScript
  <2>2. \A d \in Controls : m \notin ForTask(d)
    BY <1>1 DEF ForTask
  <2>3. \A p \in Processes :
          /\ m \notin ContinuesOf(p) /\ m \notin Takes(p)
          /\ m \notin {Detach(p)} /\ m \notin Uses(p)
    BY <1>1 DEF ContinuesOf, Takes, Reset, Detach, Uses
  <2>4. m \notin ScriptTokens /\ m \notin Executes
    BY <1>1, <2>2, <2>3 DEF ScriptTokens, Executes
  <2>. QED
    BY <1>1, <2>1, <2>2, <2>3, <2>4 DEF HandsOf
<1>. QED
  BY <1>2, <1>3

LEMMA AskClass ==
    ASSUME NEW op \in Asks, NEW q \in Processes
    PROVE  /\ To(op, q) \in ToUser
           /\ To(op, q) \in UserTokens
           /\ To(op, q) \notin Confirmation
           /\ To(op, q) \in ToShow <=> op # "onProcessInterrupted"
           /\ To(op, q) \in Interruptions <=> op = "onProcessInterrupted"
           /\ \A c \in Controls : To(op, q) \notin {Complete(c)}
           /\ \A p \in Processes : To(op, q) \in AsksOf(p) <=> p = q
<1>1. /\ \A c : To(op, q) # Complete(c)
      /\ To(op, q) \notin Confirmation
  <2>1. op # "onTaskComplete" /\ op # "onInterruptConfirm"
    BY CalloutsAssumption DEF Asks
  <2>. QED
    BY <2>1 DEF To, Complete, Confirmation
<1>2. \A o, p : To(op, q) = To(o, p) <=> o = op /\ p = q
  BY DEF To
<1>3. "onProcessInterrupted" \notin Callouts
  BY CalloutsAssumption
<1>4. \A p \in Processes : To(op, q) \in AsksOf(p) <=> p = q
  BY <1>2 DEF AsksOf
<1>5. To(op, q) \in ToUser
  BY DEF ToUser
<1>6. /\ To(op, q) \in ToShow <=> op # "onProcessInterrupted"
      /\ To(op, q) \in Interruptions <=> op = "onProcessInterrupted"
  BY <1>2, <1>3 DEF ToShow, Interruptions, Asks
<1>. QED
  BY <1>1, <1>4, <1>5, <1>6 DEF UserTokens

LEMMA AnswerClass ==
    /\ \A m \in {[op |-> "call"], [op |-> "onInterruptConfirm"]} \cup { Complete(c) : c \in Controls } :
         /\ m \in ToUser /\ m \notin UserTokens /\ m \notin ToShow /\ m \notin Interruptions
         /\ \A p \in Processes : m \notin AsksOf(p)
    /\ [op |-> "call"] \notin Confirmation
    /\ [op |-> "onInterruptConfirm"] \in Confirmation
    /\ \A c \in Controls : /\ Complete(c) \notin Confirmation
                           /\ [op |-> "call"] \notin {Complete(c)}
                           /\ [op |-> "onInterruptConfirm"] \notin {Complete(c)}
                           /\ \A d \in Controls : Complete(d) \in {Complete(c)} <=> c = d
<1>1. ASSUME NEW m \in {[op |-> "call"], [op |-> "onInterruptConfirm"]} \cup { Complete(c) : c \in Controls }
      PROVE  /\ m \in ToUser /\ m \notin UserTokens /\ m \notin ToShow /\ m \notin Interruptions
             /\ \A p \in Processes : m \notin AsksOf(p)
  <2>1. \A o : \A p \in Processes : o \in Asks => m # To(o, p)
    <3>1. \A o \in Asks : o \notin {"call", "onInterruptConfirm", "onTaskComplete"}
      BY CalloutsAssumption DEF Asks
    <3>2. m.op \in {"call", "onInterruptConfirm", "onTaskComplete"}
      BY DEF Complete
    <3>. QED
      BY <3>1, <3>2 DEF To
  <2>2. m \in ToUser
    BY DEF ToUser
  <2>3. \A p \in Processes : m \notin AsksOf(p)
    BY <2>1 DEF AsksOf
  <2>. QED
    BY <2>1, <2>2, <2>3 DEF UserTokens, ToShow, Interruptions, Asks
<1>2. /\ [op |-> "call"] \notin Confirmation
      /\ [op |-> "onInterruptConfirm"] \in Confirmation
      /\ \A c \in Controls : /\ Complete(c) \notin Confirmation
                             /\ [op |-> "call"] \notin {Complete(c)}
                             /\ [op |-> "onInterruptConfirm"] \notin {Complete(c)}
                             /\ \A d \in Controls : Complete(d) \in {Complete(c)} <=> c = d
  BY DEF Confirmation, Complete
<1>. QED
  BY <1>1, <1>2

\* A request by its name
LEMMA ScriptForms ==
    ASSUME NEW m \in ToScript
    PROVE  /\ m.op = "executeTaskWait" => m.id \in Controls /\ m = Execute(m.id)
           /\ m.op = "continueProcessWait" =>
                m.id \in Controls /\ m.link \in Processes /\ m = ContinueWait(m.id, m.link)
           /\ m.op = "continueProcess" =>
                m.link \in Processes \cup {None} /\ m = To("continueProcess", m.link)
           /\ m.op \in {"continueProcessWithFailure", "terminateProcessAndGroup"} =>
                m.link \in Processes /\ m = To(m.op, m.link)
           /\ m.op = "detachProcess" => m.link \in Processes /\ m = Detach(m.link)
           /\ m.op = "joinProcess" =>
                m.link \in Processes /\ m.other \in Processes \cup {None} /\ m = Join(m.link, m.other)
           /\ m.op = "reset" => m.link \in Processes \cup {None} /\ m = Reset(m.link)
           /\ m.op = "confirmInterrupt" => m = [op |-> "confirmInterrupt"]
<1>1. CASE m \in { Execute(c) : c \in Controls }
  BY <1>1 DEF Execute
<1>2. CASE m \in { ContinueWait(c, p) : c \in Controls, p \in Processes }
  BY <1>2 DEF ContinueWait
<1>3. CASE m \in { To(op, p) : op \in Continues \cup {"detachProcess"}, p \in Processes }
  BY <1>3 DEF To, Continues, Detach
<1>4. CASE m \in { Join(p, q) : p \in Processes, q \in Processes \cup {None} }
  BY <1>4 DEF Join
<1>5. CASE m = To("continueProcess", None)
  BY <1>5 DEF To
<1>6. CASE m = [op |-> "confirmInterrupt"]
  BY <1>6
<1>7. CASE m \in { Reset(p) : p \in Processes \cup {None} }
  BY <1>7 DEF Reset, To
<1>. QED
  BY <1>1, <1>2, <1>3, <1>4, <1>5, <1>6, <1>7 DEF ToScript

LEMMA UserForms ==
    ASSUME NEW m \in ToUser
    PROVE  /\ m.op \in Asks => m.link \in Processes /\ m = To(m.op, m.link)
           /\ m.op = "onTaskComplete" => m.id \in Controls /\ m = Complete(m.id)
           /\ m.op = "call" => m = [op |-> "call"]
           /\ m.op = "onInterruptConfirm" => m = [op |-> "onInterruptConfirm"]
           /\ m.op \in Asks \cup {"onTaskComplete", "call", "onInterruptConfirm"}
<1>0. \A o \in Asks : o \notin {"call", "onInterruptConfirm", "onTaskComplete"}
  BY CalloutsAssumption DEF Asks
<1>1. CASE m \in { To(op, p) : op \in Asks, p \in Processes }
  BY <1>0, <1>1 DEF To
<1>2. CASE m \in { Complete(c) : c \in Controls }
  BY <1>0, <1>2 DEF Complete
<1>3. CASE m = [op |-> "call"]
  BY <1>0, <1>3
<1>4. CASE m = [op |-> "onInterruptConfirm"]
  BY <1>0, <1>4
<1>. QED
  BY <1>1, <1>2, <1>3, <1>4 DEF ToUser

-----------------------------------------------------------------------------
(* Event loops as a list.                                                  *)

\* The innermost Control's own event loop, and the Control
At(ls) == Max(Owns(ls))
Innermost(ls) == ls[At(ls)].id
\* What the innermost Control does: it runs its own event loop, or waits.
Idle(ls) == At(ls) = Len(ls)
Once(ls) == At(ls) = Len(ls) - 1 /\ Last(ls) = Wait(Innermost(ls))
Twice(ls) == /\ At(ls) = Len(ls) - 2 /\ ls[Len(ls) - 1] = Wait(Innermost(ls))
             /\ Last(ls) = Wait(Innermost(ls))
Asking(ls) == /\ At(ls) = Len(ls) - 2 /\ ls[Len(ls) - 1] = Wait(Innermost(ls))
              /\ Last(ls) = Ask
AllPlain(ls) == \A i \in DOMAIN ls : Plain(ls, i)

LEMMA MaxIs ==
    ASSUME NEW S, S \subseteq Nat, NEW m \in S, \A x \in S : x <= m
    PROVE  Max(S) = m
<1>1. \A x \in S : (\A y \in S : x >= y) => x = m
  OBVIOUS
<1>2. \A y \in S : m >= y
  OBVIOUS
<1>. QED
  BY <1>1, <1>2 DEF Max

LEMMA OwnFrames ==
    /\ \A c : ~IsOwn(Wait(c)) /\ Wait(c) # Ask /\ Wait(c).id = c /\ Wait(c).loop = "wait"
    /\ \A c, d : Wait(c) = Wait(d) <=> c = d
    /\ ~IsOwn(Ask) /\ Ask.loop = "ask" /\ Ask.link = None
    /\ \A c : Wait(c).link = None
    /\ \A f : f.loop \in {"screen", "dialog", "console", "keymap", "null"} => IsOwn(f)
    /\ \A k, c, p, l : /\ Own(k, c, p, l).loop = k /\ Own(k, c, p, l).id = c
                       /\ Own(k, c, p, l).parent = p /\ Own(k, c, p, l).link = l
  BY DEF IsOwn, Wait, Ask, Own

LEMMA FrameTypes ==
    /\ \A c \in Controls : Wait(c) \in Frames
    /\ Ask \in Frames
    /\ \A k \in {"screen", "dialog", "console", "keymap", "null"}, c \in Controls,
          p \in Controls \cup {None}, l \in Processes \cup {None} : Own(k, c, p, l) \in Frames
    /\ \A f \in Frames : IsOwn(f) <=> f.loop \in {"screen", "dialog", "console", "keymap", "null"}
  BY DEF Wait, Ask, Own, Frames, IsOwn

LEMMA UniqueIds ==
    ASSUME NEW ls \in Seq(Frames), NEW last \in Nat, Ids(ls, last)
    PROVE  /\ \A i, j \in Owns(ls) : ls[i].id = ls[j].id => i = j
           /\ \A i \in Owns(ls) : Kind(ls, ls[i].id) = ls[i].loop
           /\ \A i \in Owns(ls) : i \in Nat /\ i >= 1 /\ i <= Len(ls) /\ ls[i] \in Frames
           /\ ControlsIn(ls) \subseteq 1..last
<1>1. Owns(ls) \subseteq DOMAIN ls /\ DOMAIN ls = 1..Len(ls) /\ Len(ls) \in Nat
  BY DEF Owns
<1>2. \A i \in Owns(ls) : i \in Nat /\ i >= 1 /\ i <= Len(ls) /\ ls[i] \in Frames
  BY <1>1
<1>3. ASSUME NEW i \in Owns(ls), NEW j \in Owns(ls), ls[i].id = ls[j].id PROVE i = j
  <2>1. /\ i < j => ls[i].id < ls[j].id
        /\ j < i => ls[j].id < ls[i].id
        /\ ls[i].id \in 1..last
    BY DEF Ids
  <2>. QED
    BY <1>2, <1>3, <2>1
<1>4. ASSUME NEW i \in Owns(ls) PROVE Kind(ls, ls[i].id) = ls[i].loop
  <2>1. \A f \in ToSet(ls) : IsOwn(f) /\ f.id = ls[i].id => f = ls[i]
    <3> SUFFICES ASSUME NEW f \in ToSet(ls), IsOwn(f), f.id = ls[i].id PROVE f = ls[i]
      OBVIOUS
    <3>1. PICK j \in DOMAIN ls : f = ls[j]
      BY DEF ToSet
    <3>2. j \in Owns(ls)
      BY <3>1 DEF Owns
    <3>. QED
      BY <1>3, <3>1, <3>2
  <2>2. ls[i] \in ToSet(ls) /\ IsOwn(ls[i])
    BY <1>1 DEF ToSet, Owns
  <2>. QED
    BY <2>1, <2>2 DEF Kind
<1>5. ControlsIn(ls) \subseteq 1..last
  BY DEF ControlsIn, Ids
<1>. QED
  BY <1>2, <1>3, <1>4, <1>5

\* The four things the innermost Control may do
LEMMA TopIs ==
    ASSUME NEW ls \in Seq(Frames), NEW stopped, NEW last \in Nat, ls # <<>>,
           Stacked(ls, stopped, last)
    PROVE  /\ At(ls) \in Owns(ls) /\ \A i \in Owns(ls) : i <= At(ls)
           /\ Innermost(ls) \in ControlsIn(ls)
           /\ Idle(ls) \/ Once(ls) \/ Asking(ls) \/ (Twice(ls) /\ Innermost(ls) \in stopped)
           /\ Idle(ls) <=> IsOwn(Last(ls))
           /\ AllPlain(ls) <=> Idle(ls) \/ Once(ls)
<1> DEFINE n == Len(ls)
           S == Owns(ls)
<1>1. /\ n \in Nat \ {0} /\ DOMAIN ls = 1..n /\ n \in DOMAIN ls /\ Last(ls) = ls[n]
      /\ S \subseteq 1..n /\ \A i \in 1..n : i \in S <=> IsOwn(ls[i])
  <2>1. n \in Nat \ {0} /\ DOMAIN ls = 1..n /\ n \in DOMAIN ls
    OBVIOUS
  <2>2. Last(ls) = ls[n]
    BY FrontLast
  <2>. QED
    BY <2>1, <2>2 DEF Owns
<1>2. Plain(ls, n) \/ OnTop(ls, n, stopped)
  BY <1>1 DEF Stacked
<1> HIDE DEF n, S
<1>3. ASSUME NEW m \in S, \A i \in S : i <= m
      PROVE  At(ls) = m /\ At(ls) \in S
  BY <1>1, <1>3, MaxIs DEF At, S
<1>4. CASE Base(ls, n) \/ Opened(ls, n)
  <2>1. n \in S
    BY <1>1, <1>4, OwnFrames DEF Base, Opened
  <2>2. At(ls) = n /\ \A i \in S : i <= n
    BY <1>1, <1>3, <2>1
  <2>3. AllPlain(ls)
    <3> SUFFICES ASSUME NEW i \in DOMAIN ls, OnTop(ls, i, stopped) PROVE Plain(ls, i)
      BY DEF AllPlain, Stacked
    <3>1. i = n /\ (ls[i] = Ask \/ ls[i] = Wait(ls[i-2].id))
      BY DEF OnTop, n
    <3>. QED
      BY <1>1, <2>1, <3>1, OwnFrames
  <2>. QED
    BY <1>1, <2>1, <2>2, <2>3 DEF Idle, n, S, Innermost, ControlsIn
<1>5. CASE WaitsAbove(ls, n)
  <2>1. n - 1 \in S /\ n \notin S /\ n > 1 /\ ls[n] = Wait(ls[n-1].id)
    BY <1>1, <1>5, OwnFrames DEF WaitsAbove
  <2>2. At(ls) = n - 1 /\ \A i \in S : i <= n - 1
    BY <1>1, <1>3, <2>1
  <2>3. AllPlain(ls)
    <3> SUFFICES ASSUME NEW i \in DOMAIN ls, OnTop(ls, i, stopped) PROVE Plain(ls, i)
      BY DEF AllPlain, Stacked
    <3>1. i = n /\ ls[i-1] = Wait(ls[i-2].id)
      BY DEF OnTop, n
    <3>. QED
      BY <1>1, <2>1, <3>1, OwnFrames
  <2>. QED
    BY <1>1, <2>1, <2>2, <2>3 DEF Idle, Once, n, S, Innermost, ControlsIn
<1>6. CASE OnTop(ls, n, stopped)
  <2>1. /\ n > 2 /\ n - 2 \in S /\ ls[n-1] = Wait(ls[n-2].id)
        /\ ls[n] = Ask \/ (ls[n] = ls[n-1] /\ ls[n-2].id \in stopped)
    BY <1>1, <1>6 DEF OnTop
  <2>2. n \notin S /\ n - 1 \notin S
    BY <1>1, <2>1, OwnFrames
  <2>3. At(ls) = n - 2 /\ \A i \in S : i <= n - 2
    BY <1>1, <1>3, <2>1, <2>2
  <2>4. ~Plain(ls, n)
    BY <1>1, <2>1, <2>2, OwnFrames DEF Plain, Base, Opened, WaitsAbove
  <2>5. ~Idle(ls) /\ ~Once(ls) /\ ~AllPlain(ls)
    <3>1. At(ls) # n /\ At(ls) # n - 1
      BY <1>1, <2>3
    <3>2. ~AllPlain(ls)
      BY <1>1, <2>4 DEF AllPlain
    <3>. QED
      BY <3>1, <3>2 DEF Idle, Once, n
  <2>6. Asking(ls) \/ (Twice(ls) /\ Innermost(ls) \in stopped)
    BY <1>1, <2>1, <2>3 DEF Asking, Twice, Innermost, n
  <2>. QED
    BY <1>1, <2>1, <2>2, <2>3, <2>5, <2>6 DEF n, S, Innermost, ControlsIn
<1>. QED
  BY <1>2, <1>4, <1>5, <1>6 DEF Plain

\* Below an event loop that waits there is that of the Control.
LEMMA WaitAt ==
    ASSUME NEW ls \in Seq(Frames), NEW stopped, NEW last \in Nat, ls # <<>>,
           Stacked(ls, stopped, last), NEW c, NEW i \in DOMAIN ls, ls[i] = Wait(c)
    PROVE  \E k \in Owns(ls) :
             /\ ls[k].id = c
             /\ k = i - 1 \/ (k = i - 2 /\ At(ls) = k /\ Twice(ls))
<1>1. DOMAIN ls = 1..Len(ls) /\ Len(ls) \in Nat /\ i \in Nat
  OBVIOUS
<1>2. Plain(ls, i) \/ OnTop(ls, i, stopped)
  BY DEF Stacked
<1>3. CASE Base(ls, i) \/ Opened(ls, i)
  BY <1>3, OwnFrames DEF Base, Opened
<1>4. CASE WaitsAbove(ls, i)
  <2>0. i > 1 /\ IsOwn(ls[i-1]) /\ Wait(c) = Wait(ls[i-1].id)
    BY <1>4 DEF WaitsAbove
  <2>1. i > 1 /\ IsOwn(ls[i-1]) /\ c = ls[i-1].id
    BY ONLY <2>0, OwnFrames
  <2>2. i - 1 \in Owns(ls)
    BY <1>1, <2>1 DEF Owns
  <2>. QED
    BY <2>1, <2>2
<1>5. CASE OnTop(ls, i, stopped)
  <2>1. /\ i > 2 /\ i = Len(ls) /\ IsOwn(ls[i-2]) /\ ls[i-1] = Wait(ls[i-2].id)
        /\ ls[i] = ls[i-1] /\ c = ls[i-2].id
    BY <1>5, OwnFrames DEF OnTop
  <2>0. Last(ls) = ls[Len(ls)]
    BY FrontLast
  <2>2. i - 2 \in Owns(ls) /\ Last(ls) = ls[i]
    BY <1>1, <2>0, <2>1 DEF Owns
  <2>3. i \notin Owns(ls) /\ i - 1 \notin Owns(ls)
    BY <2>1, OwnFrames DEF Owns
  <2>4. Owns(ls) \subseteq 1..i
    BY <1>1, <2>1 DEF Owns
  <2>5. \A k \in Owns(ls) : k <= i - 2
    BY <1>1, <2>3, <2>4
  <2>6. At(ls) = i - 2
    BY <2>2, <2>4, <2>5, MaxIs DEF At
  <2>7. Twice(ls)
    BY <2>1, <2>2, <2>6 DEF Twice, Innermost
  <2>. QED
    BY <2>1, <2>2, <2>6, <2>7
<1>. QED
  BY <1>2, <1>3, <1>4, <1>5 DEF Plain

LEMMA WaitCounts ==
    ASSUME NEW ls \in Seq(Frames), NEW stopped, NEW last \in Nat, ls # <<>>,
           Stacked(ls, stopped, last), NEW c
    PROVE  /\ Number(ls, {Wait(c)}) > 0 => c \in ControlsIn(ls)
           /\ ~Twice(ls) \/ c # Innermost(ls) => Number(ls, {Wait(c)}) <= 1
           /\ Idle(ls) /\ c = Innermost(ls) => Number(ls, {Wait(c)}) = 0
<1>0. /\ At(ls) \in Owns(ls) /\ \A i \in Owns(ls) : i <= At(ls)
      /\ \A i, j \in Owns(ls) : ls[i].id = ls[j].id => i = j
      /\ DOMAIN ls = 1..Len(ls) /\ Len(ls) \in Nat /\ Owns(ls) \subseteq DOMAIN ls
  BY TopIs, UniqueIds DEF Stacked, Owns
<1>1. ASSUME Number(ls, {Wait(c)}) > 0 PROVE c \in ControlsIn(ls)
  <2>0. /\ Number(ls, {Wait(c)}) \in Nat
        /\ Number(ls, {Wait(c)}) = 0 <=> \A i \in DOMAIN ls : ls[i] \notin {Wait(c)}
    BY NumberType
  <2>1. PICK i \in DOMAIN ls : ls[i] = Wait(c)
    BY <1>1, <2>0
  <2>. QED
    BY <2>1, WaitAt DEF ControlsIn
<1>2. ASSUME ~Twice(ls) \/ c # Innermost(ls) PROVE Number(ls, {Wait(c)}) <= 1
  <2>1. ASSUME NEW i \in DOMAIN ls, ls[i] = Wait(c)
        PROVE  \E k \in Owns(ls) : ls[k].id = c /\ k = i - 1
    <3>1. PICK k \in Owns(ls) : /\ ls[k].id = c
                                /\ k = i - 1 \/ (k = i - 2 /\ At(ls) = k /\ Twice(ls))
      BY <2>1, WaitAt
    <3>. QED
      BY <1>2, <3>1 DEF Innermost
  <2>2. ASSUME NEW i \in DOMAIN ls, NEW j \in DOMAIN ls, ls[i] = Wait(c), ls[j] = Wait(c)
        PROVE  i = j
    <3>1. PICK k \in Owns(ls) : ls[k].id = c /\ k = i - 1
      BY <2>1, <2>2
    <3>2. PICK l \in Owns(ls) : ls[l].id = c /\ l = j - 1
      BY <2>1, <2>2
    <3>. QED
      BY <1>0, <3>1, <3>2
  <2>. QED
    BY <2>2, NumberAtMostOne
<1>3. ASSUME Idle(ls), c = Innermost(ls) PROVE Number(ls, {Wait(c)}) = 0
  <2>1. ASSUME NEW i \in DOMAIN ls, ls[i] = Wait(c) PROVE FALSE
    <3>1. PICK k \in Owns(ls) : /\ ls[k].id = c
                                /\ k = i - 1 \/ (k = i - 2 /\ At(ls) = k /\ Twice(ls))
      BY <2>1, WaitAt
    <3>2. k = At(ls)
      BY <1>0, <1>3, <3>1 DEF Innermost
    <3>. QED
      BY <1>0, <1>3, <3>1, <3>2 DEF Idle
  <2>. QED
    BY <2>1, NumberType
<1>. QED
  BY <1>1, <1>2, <1>3

LEMMA OwnsAppend ==
    ASSUME NEW ls \in Seq(Frames), NEW f \in Frames
    PROVE  /\ Append(ls, f) \in Seq(Frames) /\ Append(ls, f) # <<>>
           /\ Len(Append(ls, f)) = Len(ls) + 1 /\ DOMAIN Append(ls, f) = 1..Len(ls) + 1
           /\ DOMAIN ls = 1..Len(ls) /\ Len(ls) \in Nat
           /\ \A i \in 1..Len(ls) : Append(ls, f)[i] = ls[i]
           /\ Append(ls, f)[Len(ls) + 1] = f /\ Last(Append(ls, f)) = f
           /\ IsOwn(f) => /\ Owns(Append(ls, f)) = Owns(ls) \cup {Len(ls) + 1}
                          /\ ControlsIn(Append(ls, f)) = ControlsIn(ls) \cup {f.id}
           /\ ~IsOwn(f) => /\ Owns(Append(ls, f)) = Owns(ls)
                           /\ ControlsIn(Append(ls, f)) = ControlsIn(ls)
<1> DEFINE ts == Append(ls, f)
<1>1. /\ ts \in Seq(Frames) /\ ts # <<>>
      /\ Len(ts) = Len(ls) + 1 /\ DOMAIN ts = 1..Len(ls) + 1
      /\ DOMAIN ls = 1..Len(ls) /\ Len(ls) \in Nat
      /\ \A i \in 1..Len(ls) : ts[i] = ls[i]
      /\ ts[Len(ls) + 1] = f
  OBVIOUS
<1>2. Last(ts) = f
  BY <1>1, FrontLast
<1> HIDE DEF ts
<1>3. \A i \in Owns(ls) : ts[i] = ls[i]
  BY <1>1 DEF Owns
<1>4. ASSUME IsOwn(f) PROVE Owns(ts) = Owns(ls) \cup {Len(ls) + 1}
  BY <1>1, <1>4 DEF Owns
<1>5. ASSUME ~IsOwn(f) PROVE Owns(ts) = Owns(ls)
  BY <1>1, <1>5 DEF Owns
<1>6. IsOwn(f) => ControlsIn(ts) = ControlsIn(ls) \cup {f.id}
  BY <1>1, <1>3, <1>4 DEF ControlsIn
<1>7. ~IsOwn(f) => ControlsIn(ts) = ControlsIn(ls)
  BY <1>1, <1>3, <1>5 DEF ControlsIn
<1>. QED
  BY <1>1, <1>2, <1>4, <1>5, <1>6, <1>7 DEF ts

\* Only the frame at the bottom is that of a screen, or of play()'s successor.
LEMMA Screens ==
    ASSUME NEW ls \in Seq(Frames), NEW stopped, NEW last \in Nat, ls # <<>>,
           Stacked(ls, stopped, last)
    PROVE  /\ Head(ls).loop \in {"screen", "null"} /\ ls[1].loop \in {"screen", "null"}
           /\ \A i \in DOMAIN ls : ls[i].loop \in {"screen", "null"} => i = 1
<1>1. 1 \in DOMAIN ls /\ Head(ls) = ls[1] /\ DOMAIN ls = 1..Len(ls) /\ Len(ls) \in Nat
  OBVIOUS
<1>2. ls[1].loop \in {"screen", "null"}
  BY <1>1 DEF Stacked, Plain, Base, Opened, WaitsAbove, OnTop
<1>3. ASSUME NEW i \in DOMAIN ls, ls[i].loop \in {"screen", "null"} PROVE i = 1
  <2>1. Plain(ls, i) \/ OnTop(ls, i, stopped)
    BY DEF Stacked
  <2>2. ls[i] # Ask /\ \A c : ls[i] # Wait(c)
    BY <1>3, OwnFrames
  <2>. QED
    BY <1>3, <2>1, <2>2 DEF Plain, Base, Opened, WaitsAbove, OnTop
<1>. QED
  BY <1>1, <1>2, <1>3

LEMMA AppendPlain ==
    ASSUME NEW ls \in Seq(Frames), NEW f \in Frames, AllPlain(ls)
    PROVE  \A i \in DOMAIN ls : Plain(Append(ls, f), i)
<1> DEFINE ts == Append(ls, f)
<1>1. /\ DOMAIN ls = 1..Len(ls) /\ Len(ls) \in Nat
      /\ \A i \in 1..Len(ls) : ts[i] = ls[i]
  BY OwnsAppend
<1> HIDE DEF ts
<1> SUFFICES ASSUME NEW i \in DOMAIN ls PROVE Plain(ts, i)
  BY DEF ts
<1>2. Plain(ls, i) /\ i \in 1..Len(ls) /\ ts[i] = ls[i]
  BY <1>1 DEF AllPlain
<1>3. i > 1 => i - 1 \in 1..Len(ls) /\ ts[i-1] = ls[i-1]
  BY <1>1
<1>4. i > 2 => i - 2 \in 1..Len(ls) /\ ts[i-2] = ls[i-2]
  BY <1>1
<1>5. CASE Base(ls, i)
  BY <1>2, <1>5 DEF Plain, Base
<1>6. CASE Opened(ls, i)
  <2>1. i > 2 /\ i > 1
    BY <1>1, <1>6 DEF Opened
  <2>. QED
    BY <1>2, <1>3, <1>4, <1>6, <2>1 DEF Plain, Opened
<1>7. CASE WaitsAbove(ls, i)
  <2>1. i > 1
    BY <1>7 DEF WaitsAbove
  <2>. QED
    BY <1>2, <1>3, <1>7, <2>1 DEF Plain, WaitsAbove
<1>. QED
  BY <1>2, <1>5, <1>6, <1>7 DEF Plain

\* The innermost Control starts to wait.
LEMMA PushWait ==
    ASSUME NEW ls \in Seq(Frames), NEW stopped, NEW last \in Controls, ls # <<>>,
           Stacked(ls, stopped, last), Idle(ls), NEW c, c = Innermost(ls)
    PROVE  /\ Wait(c) \in Frames /\ c \in Controls
           /\ Stacked(Append(ls, Wait(c)), stopped, last) /\ Once(Append(ls, Wait(c)))
           /\ Innermost(Append(ls, Wait(c))) = c
<1> DEFINE ts == Append(ls, Wait(c))
           n == Len(ls)
<1>0. last \in Nat
  BY Bounds
<1>1. /\ At(ls) = n /\ n \in Owns(ls) /\ c = ls[n].id /\ AllPlain(ls)
      /\ ControlsIn(ls) \subseteq 1..last /\ c \in ControlsIn(ls)
  <2>1. At(ls) \in Owns(ls) /\ AllPlain(ls) /\ Innermost(ls) \in ControlsIn(ls)
    BY <1>0, TopIs
  <2>2. ControlsIn(ls) \subseteq 1..last
    BY <1>0, UniqueIds DEF Stacked
  <2>. QED
    BY <2>1, <2>2 DEF Idle, Innermost
<1>2. c \in Controls /\ Wait(c) \in Frames
  <2>1. c \in Controls
    BY <1>1, Bounds
  <2>. QED
    BY <2>1, FrameTypes
<1>3. /\ ts \in Seq(Frames) /\ ts # <<>> /\ Len(ts) = n + 1 /\ DOMAIN ts = 1..n+1
      /\ DOMAIN ls = 1..n /\ n \in Nat
      /\ \A i \in 1..n : ts[i] = ls[i]
      /\ ts[n+1] = Wait(c) /\ Last(ts) = Wait(c)
      /\ Owns(ts) = Owns(ls)
  BY <1>2, OwnsAppend, OwnFrames
<1>4. \A i \in DOMAIN ls : Plain(ts, i)
  BY <1>1, <1>2, AppendPlain
<1> HIDE DEF ts, n
<1>5. n \in 1..n /\ (n+1) - 1 = n /\ n + 1 > 1 /\ IsOwn(ls[n])
  BY <1>1, <1>3 DEF Owns
<1>6. Plain(ts, n+1)
  BY <1>1, <1>3, <1>5 DEF Plain, WaitsAbove
<1>7. \A i \in DOMAIN ts : Plain(ts, i)
  BY <1>3, <1>4, <1>6
<1>8. \A i \in Owns(ls) : ts[i] = ls[i]
  BY <1>3 DEF Owns
<1>9. Ids(ts, last)
  BY <1>3, <1>8 DEF Ids, Stacked
<1>10. At(ts) = n
  BY <1>1, <1>3 DEF At
<1>11. Once(ts) /\ Innermost(ts) = c
  BY <1>1, <1>3, <1>5, <1>10 DEF Once, Innermost
<1>. QED
  BY <1>2, <1>7, <1>9, <1>11 DEF Stacked, ts

\* A Control that waits opens another one.
LEMMA PushControl ==
    ASSUME NEW ls \in Seq(Frames), NEW stopped, NEW last \in Nat, ls # <<>>,
           Stacked(ls, stopped, last), Once(ls),
           NEW f \in Frames, IsOwn(f), f.loop \notin {"screen", "null"}, f.id = last + 1, f.parent = Innermost(ls),
           f.loop = "console" => ls[At(ls)].loop \in {"screen", "dialog"}
    PROVE  /\ Stacked(Append(ls, f), stopped, last + 1) /\ Idle(Append(ls, f))
           /\ Innermost(Append(ls, f)) = last + 1
<1> DEFINE ts == Append(ls, f)
           n == Len(ls)
<1>1. At(ls) = n - 1 /\ n - 1 \in Owns(ls) /\ f.parent = ls[n-1].id /\ AllPlain(ls)
  <2>1. At(ls) \in Owns(ls) /\ AllPlain(ls)
    BY TopIs
  <2>. QED
    BY <2>1 DEF Once, Innermost
<1>2. ls[n] = Wait(ls[n-1].id)
  <2>1. Last(ls) = ls[n]
    BY FrontLast
  <2>. QED
    BY <1>1, <2>1 DEF Once, Innermost
<1>3. /\ ts \in Seq(Frames) /\ ts # <<>> /\ Len(ts) = n + 1 /\ DOMAIN ts = 1..n+1
      /\ DOMAIN ls = 1..n /\ n \in Nat
      /\ \A i \in 1..n : ts[i] = ls[i]
      /\ ts[n+1] = f /\ Last(ts) = f
      /\ Owns(ts) = Owns(ls) \cup {n + 1}
  BY OwnsAppend
<1>4. \A i \in DOMAIN ls : Plain(ts, i)
  BY <1>1, AppendPlain
<1> HIDE DEF ts, n
<1>5. /\ n - 1 \in 1..n /\ n \in 1..n /\ n + 1 > 2 /\ (n + 1) - 1 = n /\ (n + 1) - 2 = n - 1
      /\ IsOwn(ls[n-1])
  <2>1. n - 1 \in 1..n /\ IsOwn(ls[n-1])
    BY <1>1, <1>3 DEF Owns
  <2>. QED
    BY <1>3, <2>1
<1>6. Plain(ts, n+1)
  BY <1>1, <1>2, <1>3, <1>5 DEF Plain, Opened
<1>7. \A i \in DOMAIN ts : Plain(ts, i)
  BY <1>3, <1>4, <1>6
<1>8. \A i \in Owns(ls) : ts[i] = ls[i] /\ i \in 1..n
  BY <1>3 DEF Owns
<1>9. Ids(ts, last + 1)
  <2>1. \A i \in Owns(ts) : ts[i].id \in 1..last+1
    BY <1>3, <1>8 DEF Ids, Stacked
  <2>2. ASSUME NEW i \in Owns(ts), NEW j \in Owns(ts), i < j PROVE ts[i].id < ts[j].id
    <3>1. i \in Owns(ls)
      BY <1>3, <1>8, <2>2
    <3>2. ts[i].id \in 1..last
      BY <1>8, <3>1 DEF Ids, Stacked
    <3>3. CASE j \in Owns(ls)
      BY <1>8, <2>2, <3>1, <3>3 DEF Ids, Stacked
    <3>4. CASE j = n + 1
      BY <1>3, <3>2, <3>4
    <3>. QED
      BY <1>3, <3>3, <3>4
  <2>. QED
    BY <2>1, <2>2 DEF Ids
<1>10. At(ts) = n + 1
  <2>1. n + 1 \in Owns(ts) /\ Owns(ts) \subseteq Nat /\ \A i \in Owns(ts) : i <= n + 1
    BY <1>3, <1>8
  <2>. QED
    BY <2>1, MaxIs DEF At
<1>11. Idle(ts) /\ Innermost(ts) = last + 1
  BY <1>3, <1>10 DEF Idle, Innermost
<1>. QED
  BY <1>7, <1>9, <1>11 DEF Stacked, ts

\* A question, or an event loop that will not wait, on top
LEMMA PushTop ==
    ASSUME NEW ls \in Seq(Frames), NEW stopped, NEW last \in Nat, ls # <<>>,
           Stacked(ls, stopped, last), Once(ls), NEW f \in Frames,
           f = Ask \/ (f = Wait(Innermost(ls)) /\ Innermost(ls) \in stopped)
    PROVE  /\ Stacked(Append(ls, f), stopped, last)
           /\ Innermost(Append(ls, f)) = Innermost(ls)
<1> DEFINE ts == Append(ls, f)
           n == Len(ls)
<1>1. At(ls) = n - 1 /\ n - 1 \in Owns(ls) /\ AllPlain(ls)
  <2>1. At(ls) \in Owns(ls) /\ AllPlain(ls)
    BY TopIs
  <2>. QED
    BY <2>1 DEF Once
<1>2. ls[n] = Wait(ls[n-1].id) /\ Innermost(ls) = ls[n-1].id
  <2>1. Last(ls) = ls[n]
    BY FrontLast
  <2>. QED
    BY <1>1, <2>1 DEF Once, Innermost
<1>0. ~IsOwn(f)
  BY OwnFrames
<1>3. /\ ts \in Seq(Frames) /\ ts # <<>> /\ Len(ts) = n + 1 /\ DOMAIN ts = 1..n+1
      /\ DOMAIN ls = 1..n /\ n \in Nat
      /\ \A i \in 1..n : ts[i] = ls[i]
      /\ ts[n+1] = f
      /\ Owns(ts) = Owns(ls)
  BY <1>0, OwnsAppend
<1>4. \A i \in DOMAIN ls : Plain(ts, i)
  BY <1>1, AppendPlain
<1> HIDE DEF ts, n
<1>5. /\ n - 1 \in 1..n /\ n \in 1..n /\ n + 1 > 2 /\ (n + 1) - 1 = n /\ (n + 1) - 2 = n - 1
      /\ IsOwn(ls[n-1])
  <2>1. n - 1 \in 1..n /\ IsOwn(ls[n-1])
    BY <1>1, <1>3 DEF Owns
  <2>. QED
    BY <1>3, <2>1
<1>6. OnTop(ts, n+1, stopped)
  BY <1>1, <1>2, <1>3, <1>5 DEF OnTop
<1>7. \A i \in DOMAIN ts : Plain(ts, i) \/ OnTop(ts, i, stopped)
  BY <1>3, <1>4, <1>6
<1>8. \A i \in Owns(ls) : ts[i] = ls[i]
  BY <1>3 DEF Owns
<1>9. Ids(ts, last)
  BY <1>3, <1>8 DEF Ids, Stacked
<1>10. At(ts) = n - 1
  BY <1>1, <1>3 DEF At
<1>11. Innermost(ts) = Innermost(ls)
  BY <1>2, <1>3, <1>5, <1>10 DEF Innermost
<1>. QED
  BY <1>7, <1>9, <1>11 DEF Stacked, ts

\* An event loop ends.
LEMMA FrontPlain ==
    ASSUME NEW ls \in Seq(Frames), NEW stopped, NEW last \in Nat, ls # <<>>,
           Stacked(ls, stopped, last)
    PROVE  /\ \A x : Stacked(Front(ls), x, last)
           /\ \A i \in 1..Len(ls)-1 : Front(ls)[i] = ls[i]
           /\ Owns(Front(ls)) = Owns(ls) \ {Len(ls)}
<1> DEFINE ts == Front(ls)
           n == Len(ls)
<1>1. /\ ts \in Seq(Frames) /\ Len(ts) = n - 1 /\ DOMAIN ts = 1..n-1
      /\ \A i \in 1..n-1 : ts[i] = ls[i]
  BY FrontLast
<1>2. n \in Nat \ {0} /\ DOMAIN ls = 1..n
  OBVIOUS
<1> HIDE DEF ts, n
<1>3. ASSUME NEW i \in DOMAIN ts PROVE Plain(ts, i)
  <2>1. i \in DOMAIN ls /\ i # Len(ls) /\ i \in 1..n-1 /\ ts[i] = ls[i]
    BY <1>1, <1>2 DEF n
  <2>2. Plain(ls, i)
    BY <2>1 DEF Stacked, OnTop
  <2>3. i > 1 => i - 1 \in 1..n-1 /\ ts[i-1] = ls[i-1]
    BY <1>1, <1>2, <2>1
  <2>4. i > 2 => i - 2 \in 1..n-1 /\ ts[i-2] = ls[i-2]
    BY <1>1, <1>2, <2>1
  <2>5. CASE Base(ls, i)
    BY <2>1, <2>5 DEF Plain, Base
  <2>6. CASE Opened(ls, i)
    <3>1. i > 2 /\ i > 1
      BY <2>1, <2>6 DEF Opened
    <3>. QED
      BY <2>1, <2>3, <2>4, <2>6, <3>1 DEF Plain, Opened
  <2>7. CASE WaitsAbove(ls, i)
    <3>1. i > 1
      BY <2>7 DEF WaitsAbove
    <3>. QED
      BY <2>1, <2>3, <2>7, <3>1 DEF Plain, WaitsAbove
  <2>. QED
    BY <2>2, <2>5, <2>6, <2>7 DEF Plain
<1>4. Owns(ts) = Owns(ls) \ {n}
  BY <1>1, <1>2 DEF Owns
<1>5. \A i \in Owns(ts) : ts[i] = ls[i] /\ i \in Owns(ls)
  BY <1>1, <1>4 DEF Owns
<1>6. Ids(ts, last)
  <2>1. Ids(ls, last)
    BY DEF Stacked
  <2>. QED
    BY <1>5, <2>1 DEF Ids
<1>. QED
  BY <1>1, <1>3, <1>4, <1>6 DEF Stacked, ts, n

LEMMA PopTop ==
    ASSUME NEW ls \in Seq(Frames), NEW stopped, NEW last \in Nat, ls # <<>>,
           Stacked(ls, stopped, last), ~Idle(ls)
    PROVE  /\ Front(ls) # <<>> /\ Front(ls) \in Seq(Frames)
           /\ Owns(Front(ls)) = Owns(ls) /\ ControlsIn(Front(ls)) = ControlsIn(ls)
           /\ Innermost(Front(ls)) = Innermost(ls)
           /\ ~Once(ls) => Once(Front(ls))
<1> DEFINE ts == Front(ls)
           n == Len(ls)
<1>1. /\ ts \in Seq(Frames) /\ Len(ts) = n - 1 /\ DOMAIN ts = 1..n-1 /\ Last(ls) = ls[n]
  BY FrontLast
<1>2. /\ \A i \in 1..n-1 : ts[i] = ls[i]
      /\ Owns(ts) = Owns(ls) \ {n}
  BY FrontPlain
<1>3. /\ At(ls) \in Owns(ls) /\ At(ls) # n /\ ~IsOwn(ls[n])
      /\ Once(ls) \/ Twice(ls) \/ Asking(ls)
  <2>1. /\ At(ls) \in Owns(ls)
        /\ Idle(ls) \/ Once(ls) \/ Asking(ls) \/ (Twice(ls) /\ Innermost(ls) \in stopped)
        /\ Idle(ls) <=> IsOwn(Last(ls))
    BY TopIs
  <2>. QED
    BY <1>1, <2>1 DEF Idle
<1>4. n \in Nat \ {0} /\ DOMAIN ls = 1..n
  OBVIOUS
<1> HIDE DEF ts, n
<1>5. Owns(ts) = Owns(ls)
  BY <1>2, <1>3 DEF Owns
<1>6. Owns(ls) \subseteq 1..n-1
  BY <1>3, <1>4 DEF Owns
<1>7. /\ At(ts) = At(ls) /\ \A i \in Owns(ls) : ts[i] = ls[i]
      /\ Innermost(ts) = Innermost(ls)
  BY <1>2, <1>3, <1>5, <1>6 DEF At, Innermost
<1>8. ControlsIn(ts) = ControlsIn(ls)
  BY <1>5, <1>7 DEF ControlsIn
<1>9. ts # <<>>
  BY <1>1, <1>3, <1>4, <1>6
<1>10. ASSUME ~Once(ls) PROVE Once(ts)
  <2>1. At(ls) = n - 2 /\ ls[n-1] = Wait(Innermost(ls))
    BY <1>3, <1>10 DEF Twice, Asking, n
  <2>2. n - 1 \in 1..n-1
    BY <1>3, <1>4, <1>6, <2>1
  <2>3. Last(ts) = ts[Len(ts)]
    BY <1>1, <1>9, FrontLast
  <2>. QED
    BY <1>1, <1>2, <1>4, <1>7, <2>1, <2>2, <2>3 DEF Once
<1>. QED
  BY <1>1, <1>5, <1>7, <1>8, <1>9, <1>10 DEF ts

LEMMA PopControl ==
    ASSUME NEW ls \in Seq(Frames), NEW stopped, NEW last \in Nat, ls # <<>>,
           Stacked(ls, stopped, last), Idle(ls), Last(ls).loop \notin {"screen", "null"}
    PROVE  /\ Front(ls) # <<>> /\ Front(ls) \in Seq(Frames) /\ Once(Front(ls))
           /\ Innermost(Front(ls)) = Last(ls).parent
           /\ ControlsIn(Front(ls)) = ControlsIn(ls) \ {Last(ls).id}
           /\ Last(ls).id \in ControlsIn(ls) /\ Innermost(ls) = Last(ls).id
           /\ Last(ls).loop = "console" => Kind(Front(ls), Last(ls).parent) \in {"screen", "dialog"}
<1> DEFINE ts == Front(ls)
           n == Len(ls)
<1>1. /\ ts \in Seq(Frames) /\ Len(ts) = n - 1 /\ DOMAIN ts = 1..n-1 /\ Last(ls) = ls[n]
  BY FrontLast
<1>2. /\ \A i \in 1..n-1 : ts[i] = ls[i]
      /\ Owns(ts) = Owns(ls) \ {n}
      /\ Stacked(ts, stopped, last)
  BY FrontPlain
<1>3. n \in Owns(ls) /\ At(ls) = n /\ AllPlain(ls)
  <2>1. At(ls) \in Owns(ls) /\ AllPlain(ls)
    BY TopIs
  <2>. QED
    BY <2>1 DEF Idle
<1>4. n \in Nat \ {0} /\ DOMAIN ls = 1..n /\ n \in DOMAIN ls /\ IsOwn(ls[n])
  BY <1>3 DEF Owns
<1> HIDE DEF ts, n
<1>5. Opened(ls, n)
  <2>1. Base(ls, n) \/ Opened(ls, n) \/ WaitsAbove(ls, n)
    BY <1>3, <1>4 DEF AllPlain, Plain
  <2>2. ~Base(ls, n)
    BY <1>1 DEF Base
  <2>3. ~WaitsAbove(ls, n)
    BY <1>4, OwnFrames DEF WaitsAbove
  <2>. QED
    BY <2>1, <2>2, <2>3
<1>6. /\ n > 2 /\ IsOwn(ls[n-2]) /\ ls[n].parent = ls[n-2].id /\ ls[n-1] = Wait(ls[n-2].id)
      /\ ls[n].loop = "console" => ls[n-2].loop \in {"screen", "dialog"}
  BY <1>5 DEF Opened
<1>7. n - 2 \in Owns(ts) /\ n - 1 \in 1..n-1 /\ n - 2 \in 1..n-1
  BY <1>2, <1>4, <1>6 DEF Owns
<1>8. n - 1 \notin Owns(ts) /\ Owns(ts) \subseteq 1..n-1
  BY <1>1, <1>2, <1>6, <1>7, OwnFrames DEF Owns
<1>9. At(ts) = n - 2
  <2>1. Owns(ts) \subseteq Nat /\ \A i \in Owns(ts) : i <= n - 2
    BY <1>4, <1>8
  <2>. QED
    BY <1>7, <2>1, MaxIs DEF At
<1>10. ts # <<>>
  BY <1>1, <1>4, <1>6
<1>11. Last(ts) = ts[Len(ts)]
  BY <1>1, <1>10, FrontLast
<1>12. Innermost(ts) = ls[n].parent /\ Once(ts)
  BY <1>1, <1>2, <1>4, <1>6, <1>7, <1>9, <1>11 DEF Innermost, Once
<1>13. \A i, j \in Owns(ls) : ls[i].id = ls[j].id => i = j
  BY UniqueIds DEF Stacked
<1>14. \A i \in Owns(ts) : ts[i] = ls[i]
  BY <1>2, <1>8
<1>15. ControlsIn(ts) = ControlsIn(ls) \ {ls[n].id} /\ ls[n].id \in ControlsIn(ls)
  BY <1>2, <1>3, <1>13, <1>14 DEF ControlsIn
<1>16. Kind(ts, ts[n-2].id) = ts[n-2].loop
  BY <1>1, <1>2, <1>7, UniqueIds DEF Stacked
<1>17. ls[n].loop = "console" => Kind(ts, ls[n].parent) \in {"screen", "dialog"}
  BY <1>2, <1>6, <1>7, <1>16
<1>18. Innermost(ls) = ls[n].id
  BY <1>3 DEF Innermost
<1>. QED
  BY <1>1, <1>10, <1>12, <1>15, <1>17, <1>18 DEF ts

\* The first Control, or the only one
LEMMA FirstScreen ==
    ASSUME NEW stopped, NEW last \in Controls, NEW kind \in {"screen", "null"},
           NEW p \in Processes \cup {None}
    PROVE  LET ts == <<Own(kind, last, None, p)>> IN
           /\ ts \in Seq(Frames) /\ ts # <<>> /\ Len(ts) = 1
           /\ Stacked(ts, stopped, last) /\ Idle(ts) /\ Innermost(ts) = last
           /\ ControlsIn(ts) = {last} /\ Owns(ts) = {1}
<1> DEFINE ts == <<Own(kind, last, None, p)>>
<1>1. last \in Nat /\ last >= 1
  BY Bounds
<1>2. /\ ts[1].loop = kind /\ ts[1].id = last /\ IsOwn(ts[1]) /\ ts[1] \in Frames
  BY OwnFrames, FrameTypes
<1>3. DOMAIN ts = {1} /\ Len(ts) = 1 /\ ts # <<>> /\ ts \in Seq(Frames)
  BY <1>2
<1> HIDE DEF ts
<1>4. Owns(ts) = {1}
  BY <1>2, <1>3 DEF Owns
<1>5. At(ts) = 1
  BY <1>4, MaxIs DEF At
<1>6. ControlsIn(ts) = {last}
  BY <1>2, <1>4 DEF ControlsIn
<1>7. Stacked(ts, stopped, last)
  BY <1>1, <1>2, <1>3, <1>4 DEF Stacked, Plain, Base, Ids
<1>. QED
  BY <1>2, <1>3, <1>4, <1>5, <1>6, <1>7 DEF Idle, Innermost, ts

-----------------------------------------------------------------------------
(* Quantities, and what a step does to them.                               *)
LEMMA Singletons ==
    \A S, x : /\ Cardinality(S \cap {x}) = IF x \in S THEN 1 ELSE 0
              /\ IsFiniteSet(S \cap {x})
<1> SUFFICES ASSUME NEW S, NEW x
             PROVE  /\ Cardinality(S \cap {x}) = IF x \in S THEN 1 ELSE 0
                    /\ IsFiniteSet(S \cap {x})
  OBVIOUS
<1>1. CASE x \in S
  <2>1. S \cap {x} = {x}
    BY <1>1
  <2>. QED
    BY <1>1, <2>1, FS_Singleton
<1>2. CASE x \notin S
  <2>1. S \cap {x} = {}
    BY <1>2
  <2>. QED
    BY <1>2, <2>1, FS_EmptySet
<1>. QED
  BY <1>1, <1>2

\* How many of the Controls C end with process p
Ending(C, o, p) == Cardinality({ c \in C : o[c].link = p })

LEMMA EndingType ==
    ASSUME NEW C, IsFiniteSet(C), NEW o
    PROVE  \A p : /\ Ending(C, o, p) \in Nat
                  /\ Ending(C, o, p) = 0 <=> \A c \in C : o[c].link # p
<1> SUFFICES ASSUME NEW p
             PROVE  /\ Ending(C, o, p) \in Nat
                    /\ Ending(C, o, p) = 0 <=> \A c \in C : o[c].link # p
  OBVIOUS
<1> DEFINE S == { c \in C : o[c].link = p }
<1>1. IsFiniteSet(S)
  BY FS_Subset
<1>2. Cardinality(S) \in Nat /\ (Cardinality(S) = 0 <=> S = {})
  BY <1>1, FS_CardinalityType, FS_EmptySet
<1>. QED
  BY <1>2 DEF Ending

LEMMA EndingMore ==
    ASSUME NEW C, IsFiniteSet(C), NEW o, NEW c, c \notin C, NEW D, D = C \cup {c}
    PROVE  \A p : Ending(D, o, p) = Ending(C, o, p) + IF o[c].link = p THEN 1 ELSE 0
<1> SUFFICES ASSUME NEW p
             PROVE Ending(D, o, p) = Ending(C, o, p) + IF o[c].link = p THEN 1 ELSE 0
  OBVIOUS
<1> DEFINE S == { d \in C : o[d].link = p }
           T == { d \in D : o[d].link = p }
<1>1. IsFiniteSet(S) /\ c \notin S
  BY FS_Subset
<1>2. /\ Cardinality(S) \in Nat
      /\ Ending(C, o, p) = Cardinality(S) /\ Ending(D, o, p) = Cardinality(T)
  BY <1>1, FS_CardinalityType DEF Ending
<1>3. CASE o[c].link = p
  <2>1. T = S \cup {c}
    BY <1>3
  <2>2. Cardinality(S \cup {c}) = Cardinality(S) + 1
    BY <1>1, FS_AddElement
  <2>. QED
    BY <1>2, <1>3, <2>1, <2>2
<1>4. CASE o[c].link # p
  <2>1. T = S
    BY <1>4
  <2> HIDE DEF S, T
  <2>. QED
    BY <1>2, <1>4, <2>1
<1>. QED
  BY <1>3, <1>4

LEMMA EndingSame ==
    ASSUME NEW C, NEW o, NEW u, \A d \in C : u[d].link = o[d].link
    PROVE  \A p : Ending(C, u, p) = Ending(C, o, p)
<1> SUFFICES ASSUME NEW p PROVE Ending(C, u, p) = Ending(C, o, p)
  OBVIOUS
<1>1. { d \in C : u[d].link = p } = { d \in C : o[d].link = p }
  OBVIOUS
<1>. QED
  BY <1>1 DEF Ending

\* One Control ends with another process.
LEMMA EndingChanged ==
    ASSUME NEW C, IsFiniteSet(C), NEW o, NEW u, NEW c \in C,
           \A d \in C : d # c => u[d].link = o[d].link
    PROVE  \A p : Ending(C, u, p) + (IF o[c].link = p THEN 1 ELSE 0)
                    = Ending(C, o, p) + IF u[c].link = p THEN 1 ELSE 0
<1> DEFINE D == C \ {c}
<1>1. IsFiniteSet(D) /\ c \notin D
  BY FS_Subset
<1>0. D \cup {c} = C
  OBVIOUS
<1>2. \A p : Ending(D, u, p) = Ending(D, o, p)
  BY EndingSame
<1> HIDE DEF D
<1>3. \A p : Ending(C, o, p) = Ending(D, o, p) + IF o[c].link = p THEN 1 ELSE 0
  BY <1>0, <1>1, EndingMore
<1>4. \A p : Ending(C, u, p) = Ending(D, u, p) + IF u[c].link = p THEN 1 ELSE 0
  BY <1>0, <1>1, EndingMore
<1>5. \A p : Ending(D, o, p) \in Nat
  BY <1>1, EndingType
<1> SUFFICES ASSUME NEW p
             PROVE  Ending(C, u, p) + (IF o[c].link = p THEN 1 ELSE 0)
                      = Ending(C, o, p) + IF u[c].link = p THEN 1 ELSE 0
  OBVIOUS
<1>6. /\ Ending(C, o, p) = Ending(D, o, p) + IF o[c].link = p THEN 1 ELSE 0
      /\ Ending(C, u, p) = Ending(D, o, p) + IF u[c].link = p THEN 1 ELSE 0
      /\ Ending(D, o, p) \in Nat
  BY <1>0, <1>2, <1>3, <1>4, <1>5
<1>. QED
  BY <1>6

\* The hands of a process, and the ends of a wait, as sums
HandsSum(us, ss, ls, o, is, p) ==
    Number(us, AsksOf(p)) + Number(ss, HandsOf(p)) + Number(ls, FramesOf(p))
      + Ending(ControlsIn(ls), o, p) + (IF p \in is THEN 1 ELSE 0)
EndsSum(ss, ws, us, st, c) ==
    Number(ss, ForTask(c)) + Number(ws, WaitsOf(c)) + Number(us, {Complete(c)})
      + (IF c \in st THEN 1 ELSE 0)
Handed == \A p \in Processes :
    HandsSum(toUser, toScript, loops, m_outputState, m_interruptedProcesses, p)
      = IF state[p] = "Waiting" THEN 1 ELSE 0
Balance == \A c \in Controls :
    Number(loops, {Wait(c)}) = EndsSum(toScript, m_waits, toUser, m_stopped, c)

LEMMA HandedIs ==
    /\ OneHand <=> Handed
    /\ OneHand' <=> Handed'
<1>1. \A p : Hands(p) = HandsSum(toUser, toScript, loops, m_outputState, m_interruptedProcesses, p)
  BY Singletons DEF Hands, HandsSum, AsksOf, HandsOf, ContinuesOf, FramesOf, Ending
<1>2. \A p : Hands(p)' = HandsSum(toUser, toScript, loops, m_outputState, m_interruptedProcesses, p)'
  BY Singletons DEF Hands, HandsSum, AsksOf, HandsOf, ContinuesOf, FramesOf, Ending
<1>. QED
  BY <1>1, <1>2 DEF OneHand, Handed

LEMMA BalanceIs ==
    /\ OneEndPerWait <=> TypeOK /\ Balance
    /\ OneEndPerWait' <=> TypeOK' /\ Balance'
  BY Singletons DEF OneEndPerWait, Balance, EndsSum, WaitsOf

\* The hands of one process
LEMMA HandTypes ==
    ASSUME NEW us \in Seq(ToUser), NEW ss \in Seq(ToScript), NEW ls \in Seq(Frames),
           NEW last \in Nat, Ids(ls, last), NEW o, NEW p \in Processes
    PROVE  /\ Number(us, AsksOf(p)) \in Nat /\ Number(ss, HandsOf(p)) \in Nat
           /\ Number(ls, FramesOf(p)) \in Nat /\ Ending(ControlsIn(ls), o, p) \in Nat
           /\ Number(ss, ContinuesOf(p)) \in Nat /\ Number(ss, ContinuesOf(p)) <= Number(ss, HandsOf(p))
           /\ Number(ls, FramesOf(p)) = 0 <=> \A i \in DOMAIN ls : ls[i].link # p
           /\ Ending(ControlsIn(ls), o, p) = 0 <=> \A c \in ControlsIn(ls) : o[c].link # p
           /\ IsFiniteSet(ControlsIn(ls))
<1>1. IsFiniteSet(ControlsIn(ls))
  <2>1. ControlsIn(ls) \subseteq 1..last
    BY UniqueIds
  <2>2. IsFiniteSet(1..last)
    BY FS_Interval
  <2>. QED
    BY <2>1, <2>2, FS_Subset
<1>2. Number(us, AsksOf(p)) \in Nat
  BY NumberType
<1>3. Number(ss, HandsOf(p)) \in Nat /\ Number(ss, ContinuesOf(p)) \in Nat
  BY NumberType
<1>4. /\ Number(ls, FramesOf(p)) \in Nat
      /\ Number(ls, FramesOf(p)) = 0 <=> \A i \in DOMAIN ls : ls[i] \notin FramesOf(p)
  BY NumberType
<1>5. /\ Ending(ControlsIn(ls), o, p) \in Nat
      /\ Ending(ControlsIn(ls), o, p) = 0 <=> \A c \in ControlsIn(ls) : o[c].link # p
  BY <1>1, EndingType
<1>6. \A i \in DOMAIN ls : ls[i] \in FramesOf(p) <=> ls[i].link = p
  BY DEF FramesOf
<1>7. Number(ss, ContinuesOf(p)) <= Number(ss, HandsOf(p))
  BY NumberPart DEF HandsOf
<1>. QED
  BY <1>1, <1>2, <1>3, <1>4, <1>5, <1>6, <1>7

\* Lists of requests: the first is taken, or others are appended.
LEMMA Taken ==
    ASSUME NEW S, NEW s \in Seq(S), s # <<>>
    PROVE  /\ Head(s) \in S /\ Tail(s) \in Seq(S)
           /\ \A M : /\ Number(s, M) \in Nat /\ Number(Tail(s), M) \in Nat
                     /\ Number(s, M) = Number(Tail(s), M) + IF Head(s) \in M THEN 1 ELSE 0
           /\ \A A, B : AllBefore(s, A, B) => AllBefore(Tail(s), A, B)
           /\ \A A, B : AllBefore(s, A, B) /\ Head(s) \in B => Number(s, A) = 0
           /\ \A A, B : Followed(s, A, B) => Followed(Tail(s), A, B)
<1>1. Head(s) \in S /\ Tail(s) \in Seq(S)
  OBVIOUS
<1>2. \A M : Number(s, M) = Number(Tail(s), M) + IF Head(s) \in M THEN 1 ELSE 0
  BY NumberTail
<1>3. \A M : Number(s, M) \in Nat
  BY NumberType
<1>4. \A M : Number(Tail(s), M) \in Nat
  BY <1>1, NumberType
<1>5. \A A, B : AllBefore(s, A, B) => AllBefore(Tail(s), A, B)
  BY BeforeTail
<1>6. \A A, B : AllBefore(s, A, B) /\ Head(s) \in B => Number(s, A) = 0
  BY BeforeTail
<1>7. \A A, B : Followed(s, A, B) => Followed(Tail(s), A, B)
  BY FollowedTail
<1>. QED
  BY <1>1, <1>2, <1>3, <1>4, <1>5, <1>6, <1>7

LEMMA SentOne ==
    ASSUME NEW S, NEW s \in Seq(S), NEW m \in S
    PROVE  /\ s \o <<m>> = Append(s, m) /\ Append(s, m) \in Seq(S)
           /\ \A M : /\ Number(s, M) \in Nat /\ Number(Append(s, m), M) \in Nat
                     /\ Number(Append(s, m), M) = Number(s, M) + IF m \in M THEN 1 ELSE 0
           /\ \A A, B : AllBefore(s, A, B) /\ (m \notin A \/ (Number(s, B) = 0 /\ m \notin B))
                          => AllBefore(Append(s, m), A, B)
           /\ \A A, B : m \notin A /\ Followed(s, A, B) => Followed(Append(s, m), A, B)
           /\ \A A, B : m \notin A /\ m \in B => Followed(Append(s, m), A, B)
<1>1. s \o <<m>> = Append(s, m) /\ Append(s, m) \in Seq(S) /\ <<m>> \in Seq(S)
  OBVIOUS
<1>2. \A M : Number(Append(s, m), M) = Number(s, M) + IF m \in M THEN 1 ELSE 0
  BY NumberAppend
<1>3. \A M : Number(s, M) \in Nat
  BY NumberType
<1>4. \A M : Number(Append(s, m), M) \in Nat
  BY <1>1, NumberType
<1>5. ASSUME NEW A, NEW B, AllBefore(s, A, B), m \notin A \/ (Number(s, B) = 0 /\ m \notin B)
      PROVE  AllBefore(Append(s, m), A, B)
  <2>1. AllBefore(<<m>>, A, B)
    BY <1>5 DEF AllBefore
  <2>2. Number(<<m>>, A) = IF m \in A THEN 1 ELSE 0
    BY NumberOne
  <2>3. AllBefore(s \o <<m>>, A, B)
    BY <1>1, <1>5, <2>1, <2>2, BeforeConcat
  <2>. QED
    BY <1>1, <2>3
<1>6. ASSUME NEW A, NEW B, m \notin A, Followed(s, A, B) \/ m \in B
      PROVE  Followed(Append(s, m), A, B)
  <2>1. Followed(<<m>>, A, B)
    BY <1>6 DEF Followed
  <2>2. Followed(s, A, B) \/ \E i \in DOMAIN <<m>> : <<m>>[i] \in B
    BY <1>6
  <2>3. Followed(s \o <<m>>, A, B)
    BY <1>1, <2>1, <2>2, FollowedConcat
  <2>. QED
    BY <1>1, <2>3
<1>. QED
  BY <1>1, <1>2, <1>3, <1>4, <1>5, <1>6

-----------------------------------------------------------------------------
(* The game thread.                                                        *)
LEMMA TopControlIs ==
    TopControl = Innermost(loops) /\ TopControl' = Innermost(loops')
  BY DEF TopControl, Innermost, At

LEMMA WaitEntries ==
    /\ \A c, d, g, h : WaitEntry(c, g) = WaitEntry(d, h) <=> c = d /\ g = h
    /\ \A c \in Controls, g \in Processes :
         /\ WaitEntry(c, g) \in WaitsFor(Processes)
         /\ \A d \in Controls : WaitEntry(c, g) \in WaitsOf(d) <=> c = d
         /\ \A h : WaitEntry(c, g) \in WaitsFor({h}) <=> g = h
         /\ \A h : WaitEntry(c, g) \in WaitsFor(Processes \ {h}) <=> g # h
    /\ \A w \in WaitsFor(Processes) :
         w.waitId \in Controls /\ w.pgid \in Processes /\ w = WaitEntry(w.waitId, w.pgid)
  BY DEF WaitEntry, WaitsFor, WaitsOf

\* A group is finished: those who wait for it are told so, in their order.
LEMMA CompleteFacts ==
    ASSUME TypeOK, NEW g \in Processes, CompleteWaits(g)
    PROVE  /\ m_waits' \in Seq(WaitsFor(Processes)) /\ toUser' \in Seq(ToUser)
           /\ \A M : (\A c \in Controls : Complete(c) \notin M) => Number(toUser', M) = Number(toUser, M)
           /\ \A c \in Controls : Number(m_waits', WaitsOf(c)) + Number(toUser', {Complete(c)})
                                    = Number(m_waits, WaitsOf(c)) + Number(toUser, {Complete(c)})
           /\ \A c \in Controls, h \in Processes \ {g} : Waits(m_waits, c, h) => Waits(m_waits', c, h)
           /\ \A c, k \in Controls, h \in Processes :
                Precedes(m_waits, WaitEntry(c, h), WaitEntry(k, h)) =>
                  \/ Precedes(m_waits', WaitEntry(c, h), WaitEntry(k, h))
                  \/ Precedes(toUser', Complete(c), Complete(k))
           /\ \A x, y : Precedes(toUser, x, y) => Precedes(toUser', x, y)
           /\ \A A, B : Followed(toUser, A, B) /\ (\A c \in Controls : Complete(c) \notin A) =>
                Followed(toUser', A, B)
<1> DEFINE ws == m_waits
           mine == Kept(ws, WaitsFor({g}))
           told == [i \in DOMAIN mine |-> Complete(mine[i].waitId)]
<1>1. /\ ws \in Seq(WaitsFor(Processes)) /\ toUser \in Seq(ToUser)
      /\ m_waits' = Kept(ws, WaitsFor(Processes \ {g})) /\ toUser' = toUser \o told
  BY DEF TypeOK, CompleteWaits
<1>2. /\ mine \in Seq(WaitsFor(Processes) \cap WaitsFor({g}))
      /\ m_waits' \in Seq(WaitsFor(Processes) \cap WaitsFor(Processes \ {g}))
  BY <1>1, KeptFacts
<1>3. m_waits' \in Seq(WaitsFor(Processes))
  BY <1>2
<1>0. /\ \A M : Number(mine, M) = Number(ws, WaitsFor({g}) \cap M)
      /\ \A M : Number(m_waits', M) = Number(ws, WaitsFor(Processes \ {g}) \cap M)
  <2>1. \A K, M : Number(Kept(ws, K), M) = Number(ws, K \cap M)
    BY <1>1, NumberKept
  <2>. QED
    BY <1>1, <2>1
<1> HIDE DEF mine, ws
<1>4. DOMAIN mine = 1..Len(mine) /\ Len(mine) \in Nat
  BY <1>2
<1>5. \A i \in DOMAIN mine : /\ mine[i].waitId \in Controls /\ mine[i].pgid = g
                             /\ mine[i] = WaitEntry(mine[i].waitId, g)
  BY <1>2, <1>4 DEF WaitsFor, WaitEntry
<1>6. /\ DOMAIN told = 1..Len(mine) /\ \A i \in DOMAIN told : told[i] = Complete(mine[i].waitId)
      /\ \A i \in DOMAIN told : told[i] \in ToUser
  BY <1>4, <1>5, AnswerClass
<1>7. told \in Seq(ToUser)
  BY <1>4, <1>6
<1> HIDE DEF told
<1>8. toUser' \in Seq(ToUser)
  BY <1>1, <1>7
<1>9. \A M : Number(toUser', M) = Number(toUser, M) + Number(told, M)
  BY <1>1, <1>7, NumberConcat
<1>10. ASSUME NEW M, \A c \in Controls : Complete(c) \notin M
       PROVE  Number(toUser', M) = Number(toUser, M)
  <2>1. \A i \in DOMAIN told : told[i] \notin M
    BY <1>4, <1>5, <1>6, <1>10
  <2>2. Number(told, M) = 0
    BY <1>7, <2>1, NumberType
  <2>3. Number(toUser, M) \in Nat
    BY <1>1, NumberType
  <2>. QED
    BY <1>9, <2>2, <2>3
<1>11. ASSUME NEW c \in Controls
       PROVE  Number(m_waits', WaitsOf(c)) + Number(toUser', {Complete(c)})
                = Number(m_waits, WaitsOf(c)) + Number(toUser, {Complete(c)})
  <2>1. Number(told, {Complete(c)}) = Number(mine, WaitsOf(c))
    <3>1. \A i \in DOMAIN mine : mine[i] \in WaitsOf(c) <=> told[i] \in {Complete(c)}
      <4> SUFFICES ASSUME NEW i \in DOMAIN mine
                   PROVE  mine[i] \in WaitsOf(c) <=> told[i] \in {Complete(c)}
        OBVIOUS
      <4>1. mine[i].waitId \in Controls /\ mine[i] = WaitEntry(mine[i].waitId, g)
        BY <1>5
      <4>2. mine[i] \in WaitsOf(c) <=> mine[i].waitId = c
        BY <4>1, WaitEntries
      <4>3. told[i] \in {Complete(c)} <=> mine[i].waitId = c
        BY <1>4, <1>6, <4>1, AnswerClass
      <4>. QED
        BY <4>2, <4>3
    <3>2. DOMAIN told = DOMAIN mine
      BY <1>4, <1>6
    <3>. QED
      BY <1>2, <3>1, <3>2, NumberSame
  <2>2. Number(mine, WaitsOf(c)) = Number(ws, WaitsFor({g}) \cap WaitsOf(c))
    BY <1>0
  <2>3. Number(m_waits', WaitsOf(c)) = Number(ws, WaitsFor(Processes \ {g}) \cap WaitsOf(c))
    BY <1>0
  <2>4. Number(ws, (WaitsFor({g}) \cap WaitsOf(c)) \cup (WaitsFor(Processes \ {g}) \cap WaitsOf(c)))
          = Number(ws, WaitsFor({g}) \cap WaitsOf(c)) + Number(ws, WaitsFor(Processes \ {g}) \cap WaitsOf(c))
    <3>1. (WaitsFor({g}) \cap WaitsOf(c)) \cap (WaitsFor(Processes \ {g}) \cap WaitsOf(c)) = {}
      BY DEF WaitsFor
    <3>2. \A M, N : M \cap N = {} => Number(ws, M \cup N) = Number(ws, M) + Number(ws, N)
      BY <1>1, NumberUnion
    <3>. QED
      BY <3>1, <3>2
  <2>5. (WaitsFor({g}) \cap WaitsOf(c)) \cup (WaitsFor(Processes \ {g}) \cap WaitsOf(c)) = WaitsOf(c)
    BY DEF WaitsFor, WaitsOf
  <2>6. /\ Number(toUser, {Complete(c)}) \in Nat
        /\ Number(ws, WaitsFor({g}) \cap WaitsOf(c)) \in Nat
        /\ Number(ws, WaitsFor(Processes \ {g}) \cap WaitsOf(c)) \in Nat
    BY <1>1, NumberType
  <2>7. Number(toUser', {Complete(c)}) = Number(toUser, {Complete(c)}) + Number(told, {Complete(c)})
    BY <1>9
  <2>8. Number(ws, WaitsOf(c)) = Number(ws, WaitsFor({g}) \cap WaitsOf(c))
                                   + Number(ws, WaitsFor(Processes \ {g}) \cap WaitsOf(c))
    BY <2>4, <2>5
  <2>. QED
    BY <2>1, <2>2, <2>3, <2>6, <2>7, <2>8 DEF ws
<1>12. ASSUME NEW c \in Controls, NEW h \in Processes \ {g}, Waits(m_waits, c, h) PROVE Waits(m_waits', c, h)
  <2>1. WaitEntry(c, h) \in WaitsFor(Processes \ {g})
    BY WaitEntries
  <2>2. Has(ws, WaitEntry(c, h))
    BY <1>12 DEF ws, Waits
  <2>3. Has(m_waits', WaitEntry(c, h))
    BY <1>1, <2>1, <2>2, HasKept
  <2>. QED
    BY <2>3 DEF Waits
<1>13. ASSUME NEW c \in Controls, NEW k \in Controls, NEW h \in Processes,
              Precedes(m_waits, WaitEntry(c, h), WaitEntry(k, h))
       PROVE  \/ Precedes(m_waits', WaitEntry(c, h), WaitEntry(k, h))
              \/ Precedes(toUser', Complete(c), Complete(k))
  <2>0. Precedes(ws, WaitEntry(c, h), WaitEntry(k, h))
    BY <1>13 DEF ws
  <2>1. CASE h # g
    <3>1. WaitEntry(c, h) \in WaitsFor(Processes \ {g}) /\ WaitEntry(k, h) \in WaitsFor(Processes \ {g})
      BY <2>1, WaitEntries
    <3>2. Precedes(m_waits', WaitEntry(c, h), WaitEntry(k, h))
      BY <1>1, <2>0, <3>1, PrecedesKept
    <3>. QED
      BY <3>2
  <2>2. CASE h = g
    <3>1. WaitEntry(c, h) \in WaitsFor({g}) /\ WaitEntry(k, h) \in WaitsFor({g})
      BY <2>2, WaitEntries
    <3>2. Precedes(mine, WaitEntry(c, h), WaitEntry(k, h))
      BY <1>1, <2>0, <3>1, PrecedesKept DEF mine
    <3>3. PICK i \in DOMAIN mine, j \in DOMAIN mine :
            i < j /\ mine[i] = WaitEntry(c, h) /\ mine[j] = WaitEntry(k, h)
      BY <3>2 DEF Precedes
    <3>4. told[i] = Complete(c) /\ told[j] = Complete(k) /\ i \in DOMAIN told /\ j \in DOMAIN told
      <4>1. mine[i].waitId = c /\ mine[j].waitId = k
        BY <3>3 DEF WaitEntry
      <4>. QED
        BY <1>4, <1>6, <4>1
    <3>5. Precedes(told, Complete(c), Complete(k))
      BY <3>3, <3>4 DEF Precedes
    <3>6. Precedes(toUser', Complete(c), Complete(k))
      BY <1>1, <1>7, <3>5, PrecedesConcat
    <3>. QED
      BY <3>6
  <2>. QED
    BY <2>1, <2>2
<1>14. ASSUME NEW x, NEW y, Precedes(toUser, x, y) PROVE Precedes(toUser', x, y)
  BY <1>1, <1>7, <1>14, PrecedesConcat
<1>15. ASSUME NEW A, NEW B, Followed(toUser, A, B), \A c \in Controls : Complete(c) \notin A
       PROVE  Followed(toUser', A, B)
  <2>1. \A i \in DOMAIN told : told[i] \notin A
    BY <1>4, <1>5, <1>6, <1>15
  <2>2. Followed(told, A, B)
    BY <2>1, FollowedNone
  <2>. QED
    BY <1>1, <1>7, <1>15, <2>2, FollowedConcat
<1>. QED
  BY <1>3, <1>8, <1>10, <1>11, <1>12, <1>13, <1>14, <1>15

\* What the invariant says of types and hands
LEMMA Facts ==
    ASSUME IInv
    PROVE  /\ TypeOK /\ Handed /\ Balance
           /\ loops \in Seq(Frames) /\ loops # <<>> /\ DOMAIN loops = 1..Len(loops) /\ Len(loops) \in Nat
           /\ toScript \in Seq(ToScript) /\ toUser \in Seq(ToUser)
           /\ m_waits \in Seq(WaitsFor(Processes))
           /\ lastId \in Controls /\ lastId \in Nat
           /\ Stacked(loops, m_stopped, lastId) /\ Ids(loops, lastId)
           /\ \A M : /\ Number(toScript, M) \in Nat /\ Number(toUser, M) \in Nat
                     /\ Number(m_waits, M) \in Nat /\ Number(loops, M) \in Nat
           /\ ControlsIn(loops) \subseteq Controls /\ IsFiniteSet(ControlsIn(loops))
<1>1. TypeOK /\ Handed /\ Balance
  BY BalanceIs, HandedIs DEF IInv
<1>2. /\ loops \in Seq(Frames) /\ loops # <<>>
      /\ toScript \in Seq(ToScript) /\ toUser \in Seq(ToUser)
      /\ m_waits \in Seq(WaitsFor(Processes)) /\ lastId \in Controls
  BY <1>1 DEF TypeOK
<1>3. lastId \in Nat /\ 1..lastId \subseteq Controls
  BY <1>2, Bounds
<1>4. Stacked(loops, m_stopped, lastId) /\ Ids(loops, lastId)
  BY DEF IInv, Stack, Stacked
<1>5. /\ \A M : Number(toScript, M) \in Nat
      /\ \A M : Number(toUser, M) \in Nat
      /\ \A M : Number(m_waits, M) \in Nat
      /\ \A M : Number(loops, M) \in Nat
  BY <1>2, NumberType
<1>6. ControlsIn(loops) \subseteq 1..lastId
  BY <1>2, <1>3, <1>4, UniqueIds
<1>7. IsFiniteSet(ControlsIn(loops))
  <2>1. IsFiniteSet(1..lastId)
    BY <1>3, FS_Interval
  <2>. QED
    BY <1>6, <2>1, FS_Subset
<1>. QED
  BY <1>1, <1>2, <1>3, <1>4, <1>5, <1>6, <1>7

\* One hand of a process excludes all others.
LEMMA InHand ==
    ASSUME IInv, NEW p \in Processes
    PROVE  LET u == Number(toUser, AsksOf(p))
               s == Number(toScript, HandsOf(p))
               f == Number(loops, FramesOf(p))
               o == Ending(ControlsIn(loops), m_outputState, p)
               i == IF p \in m_interruptedProcesses THEN 1 ELSE 0
           IN  /\ {u, s, f, o} \subseteq Nat /\ u + s + f + o + i = IF state[p] = "Waiting" THEN 1 ELSE 0
               /\ Number(toScript, ContinuesOf(p)) <= s
               /\ f = 0 <=> \A j \in DOMAIN loops : loops[j].link # p
               /\ o = 0 <=> \A c \in ControlsIn(loops) : m_outputState[c].link # p
               /\ o = 0 <=> \A j \in Owns(loops) : m_outputState[loops[j].id].link # p
<1>1. /\ Number(toUser, AsksOf(p)) \in Nat /\ Number(toScript, HandsOf(p)) \in Nat
      /\ Number(loops, FramesOf(p)) \in Nat /\ Ending(ControlsIn(loops), m_outputState, p) \in Nat
      /\ Number(toScript, ContinuesOf(p)) <= Number(toScript, HandsOf(p))
      /\ Number(loops, FramesOf(p)) = 0 <=> \A i \in DOMAIN loops : loops[i].link # p
      /\ Ending(ControlsIn(loops), m_outputState, p) = 0
           <=> \A c \in ControlsIn(loops) : m_outputState[c].link # p
  BY Facts, HandTypes
<1>2. HandsSum(toUser, toScript, loops, m_outputState, m_interruptedProcesses, p)
        = IF state[p] = "Waiting" THEN 1 ELSE 0
  BY Facts DEF Handed
<1>3. (\A c \in ControlsIn(loops) : m_outputState[c].link # p)
        <=> \A j \in Owns(loops) : m_outputState[loops[j].id].link # p
  BY DEF ControlsIn
<1>. QED
  BY <1>1, <1>2, <1>3 DEF HandsSum

\* Who has a token waits for the user interface, or runs.
LEMMA TokenFacts ==
    ASSUME IInv, NEW p \in Processes
    PROVE  /\ HasToken(p) => state[p] = "Running" \/ state[p] = "Waiting"
           /\ HasToken(p) => \A j \in DOMAIN loops : loops[j].link # p
           /\ HasToken(p) => \A j \in Owns(loops) : m_outputState[loops[j].id].link # p
           /\ \A j \in DOMAIN loops : loops[j].link = p => state[p] = "Waiting"
           /\ \A j \in Owns(loops) : m_outputState[loops[j].id].link = p => state[p] = "Waiting"
           /\ Number(toScript, HandsOf(p)) > 0 => state[p] = "Waiting"
<1> DEFINE u == Number(toUser, AsksOf(p))
           s == Number(toScript, HandsOf(p))
           t == Number(toScript, ContinuesOf(p))
           f == Number(loops, FramesOf(p))
           o == Ending(ControlsIn(loops), m_outputState, p)
           i == IF p \in m_interruptedProcesses THEN 1 ELSE 0
<1>1. /\ u \in Nat /\ s \in Nat /\ f \in Nat /\ o \in Nat /\ t \in Nat /\ t <= s
      /\ u + s + f + o + i = IF state[p] = "Waiting" THEN 1 ELSE 0
      /\ f = 0 <=> \A j \in DOMAIN loops : loops[j].link # p
      /\ o = 0 <=> \A j \in Owns(loops) : m_outputState[loops[j].id].link # p
  BY InHand, Facts
<1>2. HasToken(p) <=> state[p] = "Running" \/ i = 1 \/ u > 0 \/ t > 0
  BY DEF HasToken
<1> HIDE DEF u, s, t, f, o
<1>3. i \in Nat /\ i <= 1
  OBVIOUS
<1> HIDE DEF i
<1>4. HasToken(p) => state[p] = "Running" \/ state[p] = "Waiting"
  BY <1>1, <1>2, <1>3
<1>5. HasToken(p) => f = 0 /\ o = 0
  <2>1. CASE state[p] = "Running"
    BY <1>1, <1>3, <2>1
  <2>2. CASE i = 1 \/ u > 0 \/ t > 0
    BY <1>1, <1>3, <2>2
  <2>. QED
    BY <1>2, <2>1, <2>2
<1>6. (f > 0 \/ o > 0 \/ s > 0) => state[p] = "Waiting"
  BY <1>1, <1>3
<1>7. /\ f # 0 => f > 0
      /\ o # 0 => o > 0
  BY <1>1
<1>8. \A j \in DOMAIN loops : loops[j].link = p => state[p] = "Waiting"
  BY <1>1, <1>6, <1>7
<1>9. \A j \in Owns(loops) : m_outputState[loops[j].id].link = p => state[p] = "Waiting"
  BY <1>1, <1>6, <1>7
<1>. QED
  BY <1>1, <1>4, <1>5, <1>6, <1>8, <1>9 DEF s

LEMMA Parents ==
    ASSUME IInv, NEW i \in DOMAIN loops, loops[i].loop \in {"dialog", "console", "keymap"}
    PROVE  /\ loops[i].parent \in ControlsIn(loops) /\ loops[i].id \in ControlsIn(loops)
           /\ i \in Owns(loops) /\ i > 2 /\ i - 2 \in Owns(loops) /\ loops[i-2].id = loops[i].parent
           /\ loops[i-1] = Wait(loops[i].parent)
<1>1. Plain(loops, i) \/ OnTop(loops, i, m_stopped)
  BY Facts DEF Stacked
<1>2. loops[i].loop \notin {"screen", "null"} /\ loops[i].loop # "wait" /\ loops[i].loop # "ask" /\ IsOwn(loops[i])
  BY OwnFrames
<1>3. ~Base(loops, i) /\ ~WaitsAbove(loops, i)
  BY <1>2, OwnFrames DEF Base, WaitsAbove
<1>4. ~OnTop(loops, i, m_stopped)
  <2>1. ASSUME OnTop(loops, i, m_stopped) PROVE loops[i] = Ask \/ loops[i] = Wait(loops[i-2].id)
    BY <2>1 DEF OnTop
  <2>. QED
    BY <1>2, <2>1, OwnFrames
<1>5. Opened(loops, i)
  BY <1>1, <1>3, <1>4 DEF Plain
<1>6. i > 2 /\ IsOwn(loops[i-2]) /\ loops[i-2].id = loops[i].parent /\ loops[i-1] = Wait(loops[i].parent)
  BY <1>5 DEF Opened
<1>7. i \in DOMAIN loops /\ i - 2 \in DOMAIN loops
  BY <1>6, Facts
<1>. QED
  BY <1>2, <1>6, <1>7 DEF Owns, ControlsIn

LEMMA TokenTypes ==
    /\ TypeOK => Tokens \in Nat
    /\ TypeOK' => Tokens' \in Nat
<1>1. \A s \in Seq(ToScript) : Number(s, ScriptTokens) \in Nat
  BY NumberType
<1>2. \A s \in Seq(ToUser) : Number(s, UserTokens) \in Nat
  BY NumberType
<1>3. /\ TypeOK => toScript \in Seq(ToScript) /\ toUser \in Seq(ToUser)
      /\ TypeOK' => toScript' \in Seq(ToScript) /\ toUser' \in Seq(ToUser)
  BY DEF TypeOK
<1>. QED
  BY <1>1, <1>2, <1>3 DEF Tokens, Running, Interrupted

\* A step of the game thread that is about process q, or about none
Keeps(p) ==
    /\ group'[p] = group[p]
    /\ \A c \in Controls : Waits(m_waits, c, group[p]) => Waits(m_waits', c, group'[p])
Received == toScript' = toScript \/ (toScript # <<>> /\ toScript' = Tail(toScript))
KeepsOrder ==
    /\ \A c, k \in Controls, h \in Processes :
         Precedes(m_waits, WaitEntry(c, h), WaitEntry(k, h)) =>
           \/ Precedes(m_waits', WaitEntry(c, h), WaitEntry(k, h))
           \/ Precedes(toUser', Complete(c), Complete(k))
    /\ \A c, k \in Controls :
         Precedes(toUser, Complete(c), Complete(k)) => Precedes(toUser', Complete(c), Complete(k))
Unheld(q) ==
    /\ \A i \in DOMAIN loops : loops[i].link # q \/ loops[i].loop = "null"
    /\ \A i \in Owns(loops) : loops[i].loop = "keymap" => m_outputState[loops[i].id].link # q
About(q) ==
    /\ UNCHANGED <<user, interrupt, tasks, breaks, lastId>>
    /\ Received /\ KeepsOrder
    /\ \A p \in Processes \ {q} : state[p] = "Waiting" => state'[p] = "Waiting" /\ Keeps(p)
    /\ q \in Processes =>
         /\ Unheld(q)
         /\ Number(toScript', Uses(q)) = 0 \/ (state'[q] = "Waiting" /\ ~HasToken(q)')
         /\ Number(toScript', HandsOf(q)) = 0 \/ Number(toScript, {Detach(q)}) > 0
    /\ \A k \in Controls, p \in Processes :
         toScript' # toScript /\ Head(toScript) = ContinueWait(k, p) =>
           p = q /\ m_waits' = Append(m_waits, WaitEntry(k, group[q]))
    /\ Tokens' <= Tokens
    /\ \A p, r \in Processes : state'[p] = "Running" /\ state'[r] = "Running" => p = r
    /\ \A p \in Processes : HasToken(p)' =>
         /\ Waits(m_waits', TopControl, group'[p])
         /\ p # q /\ state[p] = "Waiting" => HasToken(p)

LEMMA GameStep ==
    ASSUME IInv, TypeOK', NEW q \in Processes \cup {None}, About(q)
    PROVE  /\ OneToken' /\ Attached' /\ Stack' /\ Outputs' /\ Dialogs' /\ Keymaps'
           /\ Users' /\ Later' /\ Detaches'
<1>0. /\ TypeOK /\ OneToken /\ Attached /\ Stack /\ Outputs /\ Dialogs /\ Keymaps
      /\ Users /\ Later /\ Detaches
  BY Facts DEF IInv
<1>1. /\ loops' = loops /\ m_stopped' = m_stopped /\ ended' = ended /\ m_outputState' = m_outputState
      /\ m_interruptedProcesses' = m_interruptedProcesses /\ m_interrupting' = m_interrupting
      /\ tasks' = tasks /\ lastId' = lastId
  BY DEF About, user, interrupt
<1>2. /\ Received /\ KeepsOrder
      /\ \A p \in Processes \ {q} : state[p] = "Waiting" => state'[p] = "Waiting" /\ Keeps(p)
      /\ q \in Processes =>
           /\ Unheld(q)
           /\ Number(toScript', Uses(q)) = 0 \/ (state'[q] = "Waiting" /\ ~HasToken(q)')
           /\ Number(toScript', HandsOf(q)) = 0 \/ Number(toScript, {Detach(q)}) > 0
  BY DEF About
<1>3. /\ Tokens' <= Tokens
      /\ \A p, r \in Processes : state'[p] = "Running" /\ state'[r] = "Running" => p = r
      /\ \A p \in Processes : HasToken(p)' =>
           /\ Waits(m_waits', TopControl, group'[p])
           /\ p # q /\ state[p] = "Waiting" => HasToken(p)
  BY DEF About
<1>4. TopControl' = TopControl
  BY <1>1, TopControlIs
<1>5. \A M : /\ Number(toScript', M) \in Nat /\ Number(toScript, M) \in Nat
             /\ Number(toScript', M) <= Number(toScript, M)
  <2>1. CASE toScript' = toScript
    BY <2>1, Facts
  <2>2. CASE toScript # <<>> /\ toScript' = Tail(toScript)
    <3>1. \A M : /\ Number(toScript, M) \in Nat /\ Number(Tail(toScript), M) \in Nat
                 /\ Number(toScript, M) = Number(Tail(toScript), M) + IF Head(toScript) \in M THEN 1 ELSE 0
      BY <2>2, Facts, Taken
    <3>. QED
      BY <2>2, <3>1
  <2>. QED
    BY <1>2, <2>1, <2>2 DEF Received
<1>6. \A p \in Processes : /\ \A j \in DOMAIN loops : loops[j].link = p => state[p] = "Waiting"
                           /\ \A j \in Owns(loops) : m_outputState[loops[j].id].link = p => state[p] = "Waiting"
                           /\ Number(toScript, HandsOf(p)) > 0 => state[p] = "Waiting"
  BY TokenFacts
<1>7. OneToken'
  <2>1. Tokens' <= 1
    <3>1. Tokens' \in Nat /\ Tokens \in Nat
      BY <1>0, TokenTypes
    <3>. QED
      BY <1>0, <1>3, <3>1 DEF OneToken
  <2>. QED
    BY <1>0, <1>1, <1>3, <2>1 DEF OneToken
<1>8. Attached'
  <2>1. Tokens' \in Nat /\ Tokens \in Nat
    BY <1>0, TokenTypes
  <2>2. Tokens' > 0 => TopControl' \notin ended'
    BY <1>0, <1>1, <1>3, <1>4, <2>1 DEF Attached
  <2>3. \A c \in Controls : Number(toScript', ForTask(c)) > 0 => c = TopControl'
    BY <1>0, <1>4, <1>5 DEF Attached
  <2>. QED
    <3>1. \A p \in Processes : HasToken(p)' => Waits(m_waits', TopControl', group'[p])
      BY <1>3, <1>4
    <3>. QED
      BY <2>2, <2>3, <3>1 DEF Attached
<1>9. Stack'
  BY <1>0, <1>1 DEF Stack
<1>10. Outputs'
  <2>1. ASSUME NEW i \in Owns(loops), Output(i, m_outputState[loops[i].id]), loops[i].id \in ended
        PROVE  Output(i, m_outputState[loops[i].id])'
    <3> DEFINE o == m_outputState[loops[i].id]
    <3>1. CASE o.link # None /\ o.target # "key" /\ loops[i].loop = "keymap" /\ Waits(m_waits, loops[i].id, group[o.link])
      <4>1. loops[i].id \in Controls
        BY Facts DEF ControlsIn
      <4>2. o.link \in Processes
        BY <1>0, <3>1, <4>1 DEF TypeOK
      <4>3. state[o.link] = "Waiting" /\ o.link # q
        BY <1>2, <1>6, <3>1, <4>2 DEF Unheld
      <4>4. Keeps(o.link)
        BY <1>2, <4>2, <4>3
      <4>5. Waits(m_waits', loops[i].id, group'[o.link])
        BY <1>1, <3>1, <4>1, <4>4 DEF Keeps, Waits
      <4>. QED
        BY <1>1, <3>1, <4>5 DEF Output
    <3>2. CASE ~(o.link # None /\ o.target # "key" /\ loops[i].loop = "keymap" /\ Waits(m_waits, loops[i].id, group[o.link]))
      BY <1>1, <2>1, <3>2 DEF Output
    <3>. QED
      BY <3>1, <3>2
  <2>. QED
    BY <1>0, <1>1, <1>4, <2>1 DEF Outputs
<1>11. Dialogs'
  <2>1. ASSUME NEW i \in DOMAIN loops, loops[i].loop = "dialog", Waits(m_waits, loops[i].parent, group[loops[i].link]),
               loops[i].link # None
        PROVE  Waits(m_waits', loops[i].parent, group'[loops[i].link])
    <3>1. loops[i].parent \in Controls
      BY <2>1, Parents, Facts
    <3>2. loops[i].link \in Processes
      <4>1. loops[i] \in Frames
        BY Facts
      <4>. QED
        BY <2>1, <4>1 DEF Frames
    <3>3. state[loops[i].link] = "Waiting" /\ loops[i].link # q
      BY <1>2, <1>6, <2>1, <3>2 DEF Unheld
    <3>4. Keeps(loops[i].link)
      BY <1>2, <3>2, <3>3
    <3>. QED
      BY <1>1, <2>1, <3>1, <3>4 DEF Keeps, Waits
  <2>. QED
    BY <1>0, <1>1, <2>1 DEF Dialogs
<1>12. Keymaps'
  <2>0. ASSUME NEW c \in Controls, NEW k \in Controls, ParentFirst(c, k) PROVE ParentFirst(c, k)'
    <3>2. CASE \E g \in Processes : Precedes(m_waits, WaitEntry(c, g), WaitEntry(k, g))
      BY <1>2, <3>2 DEF KeepsOrder, ParentFirst, WaitEntry
    <3>3. CASE \E p \in Processes : /\ Number(toScript, {ContinueWait(k, p)}) > 0
                                    /\ Number(toScript, {Detach(p)}) = 0
                                    /\ Waits(m_waits, c, group[p])
      <4>1. PICK p \in Processes : /\ Number(toScript, {ContinueWait(k, p)}) > 0
                                   /\ Number(toScript, {Detach(p)}) = 0
                                   /\ Waits(m_waits, c, group[p])
        BY <3>3
      <4>2. Number(toScript, HandsOf(p)) > 0
        <5>1. {ContinueWait(k, p)} \subseteq HandsOf(p)
          BY ContinueWaitClass
        <5>2. Number(toScript, {ContinueWait(k, p)}) <= Number(toScript, HandsOf(p))
          BY <5>1, Facts, NumberPart
        <5>. QED
          BY <1>5, <4>1, <5>2
      <4>3. state[p] = "Waiting"
        BY <1>6, <4>2
      <4>4. CASE Number(toScript', {ContinueWait(k, p)}) > 0
        <5>1. p # q
          <6>1. ASSUME p = q PROVE FALSE
            <7>1. Number(toScript', HandsOf(p)) = 0
              BY <1>2, <1>5, <4>1, <6>1
            <7>2. {ContinueWait(k, p)} \subseteq HandsOf(p)
              BY ContinueWaitClass
            <7>3. toScript' \in Seq(ToScript)
              BY DEF TypeOK
            <7>4. Number(toScript', {ContinueWait(k, p)}) <= Number(toScript', HandsOf(p))
              BY <7>2, <7>3, NumberPart
            <7>. QED
              BY <1>5, <4>4, <7>1, <7>4
          <6>. QED
            BY <6>1
        <5>2. Keeps(p)
          BY <1>2, <4>3, <5>1
        <5>3. Number(toScript', {Detach(p)}) = 0
          BY <1>5, <4>1
        <5>4. Waits(m_waits', c, group'[p])
          BY <4>1, <5>2 DEF Keeps, Waits
        <5>. QED
          BY <4>4, <5>3, <5>4 DEF ParentFirst
      <4>5. CASE ~(Number(toScript', {ContinueWait(k, p)}) > 0)
        <5>1. toScript' # toScript /\ toScript # <<>> /\ toScript' = Tail(toScript)
          BY <1>2, <4>1, <4>5 DEF Received
        <5>2. Number(toScript, {ContinueWait(k, p)}) = Number(toScript', {ContinueWait(k, p)})
                + IF Head(toScript) \in {ContinueWait(k, p)} THEN 1 ELSE 0
          BY <5>1, Facts, NumberTail
        <5>3. Head(toScript) = ContinueWait(k, p)
          BY <1>5, <4>1, <4>5, <5>2
        <5>4. m_waits' = Append(m_waits, WaitEntry(k, group[p]))
          BY <5>1, <5>3 DEF About
        <5>5. group[p] \in Processes /\ WaitEntry(k, group[p]) \in WaitsFor(Processes)
          BY <1>0, WaitEntries DEF TypeOK
        <5>6. /\ \E j \in DOMAIN m_waits : m_waits[j] = WaitEntry(c, group[p])
              /\ m_waits' = m_waits \o <<WaitEntry(k, group[p])>>
              /\ <<WaitEntry(k, group[p])>> \in Seq(WaitsFor(Processes))
              /\ \E j \in DOMAIN <<WaitEntry(k, group[p])>> :
                   <<WaitEntry(k, group[p])>>[j] = WaitEntry(k, group[p])
          <6>1. \E j \in DOMAIN m_waits : m_waits[j] = WaitEntry(c, group[p])
            BY <4>1 DEF Has, Waits
          <6>2. m_waits \o <<WaitEntry(k, group[p])>> = Append(m_waits, WaitEntry(k, group[p]))
            BY <5>5, Facts, SentOne
          <6>3. m_waits' = m_waits \o <<WaitEntry(k, group[p])>>
            BY <5>4, <6>2
          <6>4. <<WaitEntry(k, group[p])>> \in Seq(WaitsFor(Processes)) /\ 1 \in DOMAIN <<WaitEntry(k, group[p])>>
            BY <5>5
          <6>. QED
            BY <6>1, <6>3, <6>4
        <5>7. Precedes(m_waits', WaitEntry(c, group[p]), WaitEntry(k, group[p]))
          BY <5>6, Facts, PrecedesConcat
        <5>. QED
          BY <5>5, <5>7 DEF ParentFirst, WaitEntry
      <4>. QED
        BY <4>4, <4>5
    <3>4. CASE c \in m_stopped
      BY <1>1, <3>4 DEF ParentFirst
    <3>5. CASE Precedes(toUser, Complete(c), Complete(k))
      <4>1. Precedes(toUser', Complete(c), Complete(k))
        BY <1>2, <3>5 DEF KeepsOrder
      <4>. QED
        BY <4>1 DEF ParentFirst, Complete
    <3>. QED
      BY <2>0, <3>2, <3>3, <3>4, <3>5 DEF ParentFirst
  <2> SUFFICES ASSUME NEW i \in DOMAIN loops, loops[i].loop = "keymap"
               PROVE  ParentFirst(loops[i].parent, loops[i].id)'
    BY <1>1 DEF Keymaps
  <2>1. ParentFirst(loops[i].parent, loops[i].id)
    BY <1>0 DEF Keymaps
  <2>2. loops[i].parent \in Controls /\ loops[i].id \in Controls
    BY Parents, Facts
  <2>3. PICK c \in Controls, k \in Controls : c = loops[i].parent /\ k = loops[i].id
    BY <2>2
  <2>4. ParentFirst(c, k)'
    BY <2>0, <2>1, <2>3
  <2>. QED
    BY <1>1, <2>3, <2>4 DEF ParentFirst, Complete, WaitEntry
<1>13. Users'
  <2> SUFFICES ASSUME NEW p \in Processes, Number(toScript', Uses(p)) > 0 PROVE state'[p] = "Waiting"
    BY DEF Users
  <2>1. state[p] = "Waiting"
    BY <1>0, <1>5 DEF Users
  <2>2. CASE p = q
    BY <1>2, <1>5, <2>2
  <2>3. CASE p # q
    BY <1>2, <2>1, <2>3
  <2>. QED
    BY <2>2, <2>3
<1>14. Later'
  <2>1. CASE toScript' = toScript
    BY <1>0, <2>1 DEF Later
  <2>2. CASE toScript # <<>> /\ toScript' = Tail(toScript)
    <3>1. \A A, B : AllBefore(toScript, A, B) => AllBefore(Tail(toScript), A, B)
      BY <2>2, Facts, Taken
    <3>. QED
      BY <1>0, <2>2, <3>1 DEF Later
  <2>. QED
    BY <1>2, <2>1, <2>2 DEF Received
<1>15. Detaches'
  <2> SUFFICES ASSUME NEW p \in Processes, Number(toScript', {Detach(p)}) > 0
               PROVE  ~HasToken(p)'
    <3>1. \A p \in Processes : Number(toScript', {Detach(p)}) > 0 => Number(toScript, {Detach(p)}) > 0
      BY <1>5
    <3>. QED
      BY <1>0, <1>1, <3>1 DEF Detaches
  <2>1. {Detach(p)} \subseteq Uses(p)
    BY DEF Uses
  <2>2. Number(toScript', {Detach(p)}) <= Number(toScript', Uses(p))
    <3>1. toScript' \in Seq(ToScript)
      BY DEF TypeOK
    <3>. QED
      BY <2>1, <3>1, NumberPart
  <2>3. Number(toScript', Uses(p)) > 0 /\ Number(toScript, Uses(p)) > 0 /\ Number(toScript, {Detach(p)}) > 0
    BY <1>5, <2>2
  <2>4. state[p] = "Waiting" /\ ~HasToken(p)
    BY <1>0, <2>3 DEF Users, Detaches
  <2>5. CASE p = q
    BY <1>2, <2>3, <2>5
  <2>6. CASE p # q
    BY <1>3, <2>4, <2>6
  <2>. QED
    BY <2>5, <2>6
<1>. QED
  BY <1>7, <1>8, <1>9, <1>10, <1>11, <1>12, <1>13, <1>14, <1>15


-----------------------------------------------------------------------------
(* Where the token is.                                                     *)
LEMMA TokenSets ==
    /\ \A p \in Processes : AsksOf(p) \subseteq UserTokens /\ ContinuesOf(p) \subseteq ScriptTokens
    /\ \A c \in Controls : ForTask(c) \subseteq ScriptTokens
  BY DEF UserTokens, ScriptTokens

LEMMA TokenParts ==
    ASSUME IInv
    PROVE  /\ Running \in {0, 1} /\ Interrupted \in {0, 1}
           /\ Running + Number(toUser, UserTokens) + Number(toScript, ScriptTokens) + Interrupted <= 1
           /\ Running = 0 <=> NoneRunning(state)
           /\ Interrupted = 0 <=> m_interruptedProcesses = {}
           /\ \A p \in Processes : /\ Number(toUser, AsksOf(p)) <= Number(toUser, UserTokens)
                                   /\ Number(toScript, ContinuesOf(p)) <= Number(toScript, ScriptTokens)
           /\ \A c \in Controls : Number(toScript, ForTask(c)) <= Number(toScript, ScriptTokens)
<1>1. Running + Number(toUser, UserTokens) + Number(toScript, ScriptTokens) + Interrupted <= 1
  BY DEF IInv, OneToken, Tokens
<1>2. /\ Running \in {0, 1} /\ Interrupted \in {0, 1}
      /\ Running = 0 <=> NoneRunning(state)
      /\ Interrupted = 0 <=> m_interruptedProcesses = {}
  BY DEF Running, Interrupted
<1>3. /\ \A M, N : M \subseteq N => Number(toUser, M) <= Number(toUser, N)
      /\ \A M, N : M \subseteq N => Number(toScript, M) <= Number(toScript, N)
  <2>1. \A M, N : M \subseteq N => Number(toUser, M) <= Number(toUser, N)
    BY Facts, NumberPart
  <2>2. \A M, N : M \subseteq N => Number(toScript, M) <= Number(toScript, N)
    BY Facts, NumberPart
  <2>. QED
    BY <2>1, <2>2
<1>. QED
  BY <1>1, <1>2, <1>3, TokenSets

\* A process that runs is the only one with a token.
LEMMA AloneRunning ==
    ASSUME IInv, NEW x \in Processes, state[x] = "Running"
    PROVE  /\ Number(toUser, UserTokens) = 0 /\ Number(toScript, ScriptTokens) = 0
           /\ m_interruptedProcesses = {} /\ Tokens = 1
           /\ \A p \in Processes : /\ Number(toUser, AsksOf(p)) = 0
                                   /\ Number(toScript, ContinuesOf(p)) = 0
                                   /\ state[p] = "Running" => p = x
           /\ HasToken(x)
<1>1. ~NoneRunning(state)
  BY DEF NoneRunning
<1>2. Running = 1
  BY <1>1, TokenParts
<1>3. /\ Number(toUser, UserTokens) \in Nat /\ Number(toScript, ScriptTokens) \in Nat
      /\ \A p \in Processes : Number(toUser, AsksOf(p)) \in Nat /\ Number(toScript, ContinuesOf(p)) \in Nat
  BY Facts
<1>4. Number(toUser, UserTokens) = 0 /\ Number(toScript, ScriptTokens) = 0 /\ Interrupted = 0
  BY <1>2, <1>3, TokenParts
<1>5. \A p \in Processes : Number(toUser, AsksOf(p)) = 0 /\ Number(toScript, ContinuesOf(p)) = 0
  BY <1>3, <1>4, TokenParts
<1>6. \A p \in Processes : state[p] = "Running" => p = x
  BY DEF IInv, OneToken
<1>7. Tokens = 1
  BY <1>2, <1>4 DEF Tokens
<1>. QED
  BY <1>4, <1>5, <1>6, <1>7, TokenParts DEF HasToken

\* The next request is the token.
LEMMA AloneRequest ==
    ASSUME IInv, toScript # <<>>, Head(toScript) \in ScriptTokens
    PROVE  /\ NoneRunning(state) /\ m_interruptedProcesses = {} /\ Tokens = 1
           /\ Number(toUser, UserTokens) = 0 /\ Number(Tail(toScript), ScriptTokens) = 0
           /\ \A p \in Processes : /\ Number(toUser, AsksOf(p)) = 0
                                   /\ Number(Tail(toScript), ContinuesOf(p)) = 0
<1>1. /\ \A M : /\ Number(toScript, M) \in Nat /\ Number(Tail(toScript), M) \in Nat
                /\ Number(toScript, M) = Number(Tail(toScript), M) + IF Head(toScript) \in M THEN 1 ELSE 0
      /\ Tail(toScript) \in Seq(ToScript)
  BY Facts, Taken
<1>2. Number(toScript, ScriptTokens) = Number(Tail(toScript), ScriptTokens) + 1
  BY <1>1
<1>3. /\ Number(toUser, UserTokens) \in Nat /\ Number(Tail(toScript), ScriptTokens) \in Nat
      /\ \A p \in Processes : Number(toUser, AsksOf(p)) \in Nat
  BY <1>1, Facts
<1>4. /\ Running = 0 /\ Interrupted = 0 /\ Number(toUser, UserTokens) = 0
      /\ Number(Tail(toScript), ScriptTokens) = 0
  BY <1>2, <1>3, TokenParts
<1>5. Tokens = 1
  BY <1>2, <1>4 DEF Tokens
<1>6. \A p \in Processes : Number(toUser, AsksOf(p)) = 0
  BY <1>3, <1>4, TokenParts
<1>7. ASSUME NEW p \in Processes PROVE Number(Tail(toScript), ContinuesOf(p)) = 0
  <2>1. Number(Tail(toScript), ContinuesOf(p)) <= Number(Tail(toScript), ScriptTokens)
    BY <1>1, TokenSets, NumberPart
  <2>. QED
    BY <1>1, <1>4, <2>1
<1>. QED
  BY <1>4, <1>5, <1>6, <1>7, TokenParts

\* The next request continues, joins or terminates process p.
LEMMA HandAtHead ==
    ASSUME IInv, toScript # <<>>, NEW p \in Processes, Head(toScript) \in HandsOf(p)
    PROVE  /\ state[p] = "Waiting" /\ Alive(p)
           /\ Number(toUser, AsksOf(p)) = 0 /\ Number(Tail(toScript), HandsOf(p)) = 0
           /\ p \notin m_interruptedProcesses /\ Unheld(p)
           /\ Number(toScript, HandsOf(p)) = 1
           /\ Number(toScript, Uses(p)) = 0 /\ Number(Tail(toScript), Uses(p)) = 0
<1>1. /\ \A M : /\ Number(toScript, M) \in Nat /\ Number(Tail(toScript), M) \in Nat
                /\ Number(toScript, M) = Number(Tail(toScript), M) + IF Head(toScript) \in M THEN 1 ELSE 0
      /\ \A A, B : AllBefore(toScript, A, B) /\ Head(toScript) \in B => Number(toScript, A) = 0
  <2>1. \A M : /\ Number(toScript, M) \in Nat /\ Number(Tail(toScript), M) \in Nat
               /\ Number(toScript, M) = Number(Tail(toScript), M) + IF Head(toScript) \in M THEN 1 ELSE 0
    BY Facts, Taken
  <2>2. \A A, B : AllBefore(toScript, A, B) /\ Head(toScript) \in B => Number(toScript, A) = 0
    BY Facts, Taken
  <2>. QED
    BY <2>1, <2>2
<1>2. Number(toScript, HandsOf(p)) = Number(Tail(toScript), HandsOf(p)) + 1
  BY <1>1
<1>3. /\ Number(Tail(toScript), HandsOf(p)) \in Nat /\ Number(toUser, AsksOf(p)) \in Nat
      /\ Number(toScript, HandsOf(p)) \in Nat
  BY <1>1, Facts
<1>4. state[p] = "Waiting"
  BY <1>2, <1>3, TokenFacts
<1> DEFINE u == Number(toUser, AsksOf(p))
           s == Number(toScript, HandsOf(p))
           f == Number(loops, FramesOf(p))
           o == Ending(ControlsIn(loops), m_outputState, p)
           i == IF p \in m_interruptedProcesses THEN 1 ELSE 0
<1>5. /\ u \in Nat /\ s \in Nat /\ f \in Nat /\ o \in Nat
      /\ u + s + f + o + i = 1
      /\ f = 0 <=> \A j \in DOMAIN loops : loops[j].link # p
      /\ o = 0 <=> \A j \in Owns(loops) : m_outputState[loops[j].id].link # p
  BY <1>4, InHand
<1>6. i \in Nat /\ (i = 0 <=> p \notin m_interruptedProcesses)
  OBVIOUS
<1>7. s >= 1
  BY <1>2, <1>3
<1> HIDE DEF u, s, f, o, i
<1>8. u = 0 /\ f = 0 /\ o = 0 /\ i = 0 /\ s = 1
  BY <1>5, <1>6, <1>7
<1>9. Number(Tail(toScript), HandsOf(p)) = 0
  BY <1>2, <1>3, <1>8 DEF s
<1>10. Number(toScript, Uses(p)) = 0
  <2>1. AllBefore(toScript, Uses(p), HandsOf(p))
    BY DEF IInv, Later
  <2>. QED
    BY <1>1, <2>1
<1>11. Number(Tail(toScript), Uses(p)) = 0
  BY <1>1, <1>10
<1>. QED
  BY <1>4, <1>5, <1>6, <1>8, <1>9, <1>10, <1>11 DEF Alive, Unheld, u, s

\* A process without hands: nobody holds or detaches it.
LEMMA NotWaiting ==
    ASSUME IInv, NEW p \in Processes, state[p] # "Waiting"
    PROVE  Unheld(p) /\ Number(toScript, Uses(p)) = 0 /\ Number(toScript, HandsOf(p)) = 0
<1>1. Number(toScript, Uses(p)) \in Nat /\ Number(toScript, HandsOf(p)) \in Nat
  BY Facts
<1>2. Unheld(p)
  BY TokenFacts DEF Unheld
<1>3. ~(Number(toScript, Uses(p)) > 0) /\ ~(Number(toScript, HandsOf(p)) > 0)
  BY TokenFacts DEF IInv, Users
<1>. QED
  BY <1>1, <1>2, <1>3

\* Nothing is asked of the user interface that concerns a token, an interrupt or a Control.
UserSame ==
    /\ Number(toUser', Confirmation) = Number(toUser, Confirmation)
    /\ Number(toUser', ToShow) = Number(toUser, ToShow)
    /\ Number(toUser', UserTokens) = Number(toUser, UserTokens)
    /\ \A p \in Processes : Number(toUser', AsksOf(p)) = Number(toUser, AsksOf(p))
    /\ Followed(toUser, Interruptions, Confirmation) => Followed(toUser', Interruptions, Confirmation)

LEMMA UserSameWhen ==
    ASSUME IInv,
           \/ toUser' = toUser
           \/ toUser' = Append(toUser, [op |-> "call"])
           \/ \E c \in Controls : toUser' = Append(toUser, Complete(c))
           \/ \E g \in Processes : CompleteWaits(g)
    PROVE  /\ toUser' \in Seq(ToUser) /\ UserSame
           /\ \A x, y : Precedes(toUser, x, y) => Precedes(toUser', x, y)
<1>1. CASE toUser' = toUser
  BY <1>1, Facts DEF UserSame
<1>2. ASSUME NEW m \in {[op |-> "call"]} \cup { Complete(c) : c \in Controls }, toUser' = Append(toUser, m)
      PROVE  /\ toUser' \in Seq(ToUser) /\ UserSame
             /\ \A x, y : Precedes(toUser, x, y) => Precedes(toUser', x, y)
  <2>1. /\ m \in ToUser /\ m \notin UserTokens /\ m \notin ToShow /\ m \notin Interruptions
        /\ m \notin Confirmation
        /\ \A p \in Processes : m \notin AsksOf(p)
    BY AnswerClass
  <2>2. toUser' \in Seq(ToUser) /\ toUser \o <<m>> = toUser' /\ <<m>> \in Seq(ToUser)
    BY <1>2, <2>1, Facts, SentOne
  <2>3. \A M : Number(toUser', M) = Number(toUser, M) + IF m \in M THEN 1 ELSE 0
    BY <1>2, <2>1, Facts, SentOne
  <2>4. \A M : m \notin M => Number(toUser', M) = Number(toUser, M)
    BY <2>3, Facts
  <2>5. \A A, B : m \notin A /\ Followed(toUser, A, B) => Followed(toUser', A, B)
    BY <1>2, <2>1, Facts, SentOne
  <2>6. \A x, y : Precedes(toUser, x, y) => Precedes(toUser', x, y)
    BY <2>2, Facts, PrecedesConcat
  <2>. QED
    BY <2>1, <2>2, <2>4, <2>5, <2>6 DEF UserSame
<1>3. ASSUME NEW g \in Processes, CompleteWaits(g)
      PROVE  /\ toUser' \in Seq(ToUser) /\ UserSame
             /\ \A x, y : Precedes(toUser, x, y) => Precedes(toUser', x, y)
  <2>1. /\ toUser' \in Seq(ToUser)
        /\ \A M : (\A c \in Controls : Complete(c) \notin M) => Number(toUser', M) = Number(toUser, M)
        /\ \A x, y : Precedes(toUser, x, y) => Precedes(toUser', x, y)
        /\ \A A, B : Followed(toUser, A, B) /\ (\A c \in Controls : Complete(c) \notin A) =>
             Followed(toUser', A, B)
    BY <1>3, CompleteFacts, Facts
  <2>2. \A c \in Controls :
          /\ Complete(c) \notin UserTokens /\ Complete(c) \notin ToShow /\ Complete(c) \notin Interruptions
          /\ Complete(c) \notin Confirmation
          /\ \A p \in Processes : Complete(c) \notin AsksOf(p)
    BY AnswerClass
  <2>. QED
    BY <2>1, <2>2 DEF UserSame
<1>. QED
  BY <1>1, <1>2, <1>3

\* What a step of the game thread leaves as it is
LEMMA GameRest ==
    ASSUME IInv, UserSame,
           UNCHANGED <<user, interrupt, tasks, calls, breaks, lastId, m_stopSignal>>,
           Number(toScript', ConfirmRequest) = Number(toScript, ConfirmRequest)
    PROVE  Interrupts' /\ Credits'
<1>1. /\ loops' = loops /\ m_outputState' = m_outputState /\ m_interrupting' = m_interrupting
      /\ m_interruptedProcesses' = m_interruptedProcesses /\ m_stopSignal' = m_stopSignal
      /\ calls' = calls /\ lastId' = lastId
  BY DEF user, interrupt
<1>2. TopControl' = TopControl
  BY <1>1, TopControlIs
<1>3. Interrupts'
  BY <1>1 DEF IInv, Interrupts, UserSame
<1>4. Credits'
  BY <1>1, <1>2 DEF IInv, Credits, UserSame
<1>. QED
  BY <1>3, <1>4

LEMMA NewsKept ==
    ASSUME IInv, tasks' = tasks
    PROVE  News'
BY DEF IInv, News

LEMMA HandedKept ==
    ASSUME IInv, UNCHANGED <<user, interrupt>>, UserSame,
           \A p \in Processes : Number(toScript', HandsOf(p)) + (IF state[p] = "Waiting" THEN 1 ELSE 0)
                                  = Number(toScript, HandsOf(p)) + (IF state'[p] = "Waiting" THEN 1 ELSE 0),
           \A p \in Processes : Number(toScript', HandsOf(p)) \in Nat
    PROVE  Handed'
<1>1. /\ loops' = loops /\ m_outputState' = m_outputState
      /\ m_interruptedProcesses' = m_interruptedProcesses
  BY DEF user, interrupt
<1> SUFFICES ASSUME NEW p \in Processes
             PROVE  Number(toUser', AsksOf(p)) + Number(toScript', HandsOf(p)) + Number(loops, FramesOf(p))
                      + Ending(ControlsIn(loops), m_outputState, p)
                      + (IF p \in m_interruptedProcesses THEN 1 ELSE 0)
                    = IF state'[p] = "Waiting" THEN 1 ELSE 0
  BY <1>1 DEF Handed, HandsSum
<1>2. /\ Number(toUser, AsksOf(p)) \in Nat /\ Number(toScript, HandsOf(p)) \in Nat
      /\ Number(loops, FramesOf(p)) \in Nat
      /\ Ending(ControlsIn(loops), m_outputState, p) \in Nat
      /\ Number(toUser, AsksOf(p)) + Number(toScript, HandsOf(p)) + Number(loops, FramesOf(p))
                      + Ending(ControlsIn(loops), m_outputState, p)
                      + (IF p \in m_interruptedProcesses THEN 1 ELSE 0)
                    = IF state[p] = "Waiting" THEN 1 ELSE 0
  BY InHand
<1>3. Number(toUser', AsksOf(p)) = Number(toUser, AsksOf(p))
  BY DEF UserSame
<1>. QED
  BY <1>2, <1>3

LEMMA BalanceKept ==
    ASSUME IInv, UNCHANGED user,
           \A c \in Controls :
             /\ Number(toScript', ForTask(c)) + Number(m_waits', WaitsOf(c)) + Number(toUser', {Complete(c)})
                  = Number(toScript, ForTask(c)) + Number(m_waits, WaitsOf(c)) + Number(toUser, {Complete(c)})
    PROVE  Balance'
<1>1. loops' = loops /\ m_stopped' = m_stopped
  BY DEF user
<1>. QED
  BY <1>1, Facts DEF Balance, EndsSum

\* Those who waited for a group are told.
LEMMA BalanceMoved ==
    ASSUME IInv, UNCHANGED user, m_waits' \in Seq(WaitsFor(Processes)), toUser' \in Seq(ToUser),
           \A c \in Controls : Number(toScript', ForTask(c)) = Number(toScript, ForTask(c)),
           \A c \in Controls : Number(m_waits', WaitsOf(c)) + Number(toUser', {Complete(c)})
                                  = Number(m_waits, WaitsOf(c)) + Number(toUser, {Complete(c)})
    PROVE  Balance'
<1>1. ASSUME NEW d \in Controls
      PROVE  Number(toScript', ForTask(d)) + Number(m_waits', WaitsOf(d)) + Number(toUser', {Complete(d)})
              = Number(toScript, ForTask(d)) + Number(m_waits, WaitsOf(d)) + Number(toUser, {Complete(d)})
  <2>1. Number(toScript', ForTask(d)) = Number(toScript, ForTask(d)) /\ Number(toScript, ForTask(d)) \in Nat
    BY Facts
  <2>2. Number(m_waits', WaitsOf(d)) \in Nat
    BY NumberType
  <2>3. Number(toUser', {Complete(d)}) \in Nat
    BY NumberType
  <2>4. Number(m_waits, WaitsOf(d)) \in Nat /\ Number(toUser, {Complete(d)}) \in Nat
    BY Facts
  <2>5. Number(m_waits', WaitsOf(d)) + Number(toUser', {Complete(d)})
                                  = Number(m_waits, WaitsOf(d)) + Number(toUser, {Complete(d)})
    OBVIOUS
  <2> DEFINE a == Number(m_waits', WaitsOf(d))
             b == Number(toUser', {Complete(d)})
             e == Number(m_waits, WaitsOf(d))
             f == Number(toUser, {Complete(d)})
             h == Number(toScript, ForTask(d))
  <2>6. a \in Nat /\ b \in Nat /\ e \in Nat /\ f \in Nat /\ h \in Nat /\ a + b = e + f
    BY <2>1, <2>2, <2>3, <2>4, <2>5
  <2> HIDE DEF a, b, e, f, h
  <2>7. h + a + b = h + e + f
    BY <2>6
  <2>. QED
    BY <2>1, <2>7 DEF a, b, e, f, h
<1>. QED
  BY <1>1, BalanceKept

LEMMA HandedAsked ==
    ASSUME IInv, UNCHANGED <<user, interrupt>>,
           \A p \in Processes : Number(toScript', HandsOf(p)) = Number(toScript, HandsOf(p)),
           \A p \in Processes : Number(toUser', AsksOf(p)) + (IF state[p] = "Waiting" THEN 1 ELSE 0)
                                  = Number(toUser, AsksOf(p)) + (IF state'[p] = "Waiting" THEN 1 ELSE 0),
           \A p \in Processes : Number(toUser', AsksOf(p)) \in Nat
    PROVE  Handed'
<1>1. /\ loops' = loops /\ m_outputState' = m_outputState
      /\ m_interruptedProcesses' = m_interruptedProcesses
  BY DEF user, interrupt
<1> SUFFICES ASSUME NEW p \in Processes
             PROVE  Number(toUser', AsksOf(p)) + Number(toScript, HandsOf(p)) + Number(loops, FramesOf(p))
                      + Ending(ControlsIn(loops), m_outputState, p)
                      + (IF p \in m_interruptedProcesses THEN 1 ELSE 0)
                    = IF state'[p] = "Waiting" THEN 1 ELSE 0
  BY <1>1 DEF Handed, HandsSum
<1>2. /\ Number(toUser, AsksOf(p)) \in Nat /\ Number(toScript, HandsOf(p)) \in Nat
      /\ Number(loops, FramesOf(p)) \in Nat
      /\ Ending(ControlsIn(loops), m_outputState, p) \in Nat
      /\ Number(toUser, AsksOf(p)) + Number(toScript, HandsOf(p)) + Number(loops, FramesOf(p))
                      + Ending(ControlsIn(loops), m_outputState, p)
                      + (IF p \in m_interruptedProcesses THEN 1 ELSE 0)
                    = IF state[p] = "Waiting" THEN 1 ELSE 0
  BY InHand
<1>. QED
  BY <1>2

-----------------------------------------------------------------------------
(* Steps of the game thread.                                               *)
States == {"new", "Runnable", "Running", "Waiting", "ended", "gone"}
GameTyped ==
    /\ state' \in [Processes -> States] /\ group' \in [Processes -> Processes]
    /\ m_waits' \in Seq(WaitsFor(Processes)) /\ toUser' \in Seq(ToUser)
    /\ calling' \in BOOLEAN /\ m_stopSignal' \in BOOLEAN /\ calls' \in Nat

LEMMA GameClose ==
    ASSUME IInv, GameTyped, NEW q \in Processes \cup {None}, About(q),
           Balance', Handed', Groups', Interrupts', Credits', News'
    PROVE  IInv'
<1>1. /\ loops' = loops /\ m_stopped' = m_stopped /\ ended' = ended /\ m_outputState' = m_outputState
      /\ m_interrupting' = m_interrupting /\ m_interruptedProcesses' = m_interruptedProcesses
      /\ tasks' = tasks /\ breaks' = breaks /\ lastId' = lastId
  BY DEF About, user, interrupt
<1>2. toScript' \in Seq(ToScript)
  <2>1. toScript' = toScript \/ (toScript # <<>> /\ toScript' = Tail(toScript))
    BY DEF About, Received
  <2>2. toScript \in Seq(ToScript)
    BY Facts
  <2>. QED
    BY <2>1, <2>2
<1>3. TypeOK'
  BY <1>1, <1>2, Facts DEF TypeOK, GameTyped, States
<1>4. OneEndPerWait' /\ OneHand'
  BY <1>3, BalanceIs, HandedIs
<1>5. /\ OneToken' /\ Attached' /\ Stack' /\ Outputs' /\ Dialogs' /\ Keymaps'
      /\ Users' /\ Later' /\ Detaches'
  BY <1>3, GameStep
<1>. QED
  BY <1>4, <1>5 DEF IInv

LEMMA StateTypes ==
    ASSUME IInv
    PROVE  /\ state \in [Processes -> States] /\ group \in [Processes -> Processes]
           /\ m_waits \in Seq(WaitsFor(Processes)) /\ toUser \in Seq(ToUser)
           /\ calling \in BOOLEAN /\ m_stopSignal \in BOOLEAN /\ m_interrupting \in BOOLEAN
           /\ calls \in Nat /\ tasks \in Nat /\ breaks \in Nat
  BY Facts DEF TypeOK, States

\* A request is received.
LEMMA Receiving ==
    ASSUME IInv, NEW op, Receives(op)
    PROVE  /\ Request \in ToScript /\ Request = Head(toScript) /\ Request.op = op
           /\ toScript # <<>> /\ toScript' = Tail(toScript) /\ Received /\ NoneRunning(state)
           /\ toScript' # toScript /\ toScript' \in Seq(ToScript)
           /\ \A M : /\ Number(toScript, M) \in Nat /\ Number(toScript', M) \in Nat
                     /\ Number(toScript, M) = Number(toScript', M) + IF Request \in M THEN 1 ELSE 0
<1>1. /\ toScript # <<>> /\ toScript' = Tail(toScript) /\ NoneRunning(state)
      /\ Request = Head(toScript) /\ Request.op = op
  BY DEF Receives, Request
<1>2. /\ Head(toScript) \in ToScript /\ Tail(toScript) \in Seq(ToScript)
  BY <1>1, Facts, Taken
<1>3. \A M : /\ Number(toScript, M) \in Nat /\ Number(Tail(toScript), M) \in Nat
             /\ Number(toScript, M) = Number(Tail(toScript), M) + IF Head(toScript) \in M THEN 1 ELSE 0
  BY <1>1, Facts, Taken
<1>4. Tail(toScript) # toScript
  <2>1. toScript \in Seq(ToScript)
    BY Facts
  <2>. QED
    BY <1>1, <2>1
<1>. QED
  BY <1>1, <1>2, <1>3, <1>4 DEF Received

\* A request that makes a process run is received; it runs, or another one.
LEMMA TokenTaken ==
    ASSUME IInv, toScript # <<>>, toScript' = Tail(toScript), Head(toScript) \in ScriptTokens,
           UserSame, UNCHANGED interrupt,
           \A p, r \in Processes : state'[p] = "Running" /\ state'[r] = "Running" => p = r
    PROVE  /\ Tokens' <= Tokens
           /\ \A p \in Processes : HasToken(p)' => state'[p] = "Running"
<1>1. /\ m_interruptedProcesses = {} /\ Tokens = 1
      /\ Number(toUser, UserTokens) = 0 /\ Number(Tail(toScript), ScriptTokens) = 0
      /\ \A p \in Processes : /\ Number(toUser, AsksOf(p)) = 0
                              /\ Number(Tail(toScript), ContinuesOf(p)) = 0
  BY AloneRequest
<1>2. /\ m_interruptedProcesses' = {} /\ Number(toUser', UserTokens) = 0
      /\ Number(toScript', ScriptTokens) = 0
      /\ \A p \in Processes : /\ Number(toUser', AsksOf(p)) = 0
                              /\ Number(toScript', ContinuesOf(p)) = 0
  BY <1>1 DEF UserSame, interrupt
<1>3. Tokens' <= 1
  BY <1>2 DEF Tokens, Running, Interrupted
<1>. QED
  BY <1>1, <1>2, <1>3 DEF HasToken

\* A process that ran runs no more; another one runs.
LEMMA RunTaken ==
    ASSUME IInv, NEW x \in Processes, state[x] = "Running", toScript' = toScript,
           UserSame, UNCHANGED interrupt
    PROVE  /\ Tokens' <= Tokens
           /\ \A p \in Processes : HasToken(p)' => state'[p] = "Running"
<1>1. /\ m_interruptedProcesses = {} /\ Tokens = 1
      /\ Number(toUser, UserTokens) = 0 /\ Number(toScript, ScriptTokens) = 0
      /\ \A p \in Processes : /\ Number(toUser, AsksOf(p)) = 0
                              /\ Number(toScript, ContinuesOf(p)) = 0
  BY AloneRunning
<1>2. /\ m_interruptedProcesses' = {} /\ Number(toUser', UserTokens) = 0
      /\ Number(toScript', ScriptTokens) = 0
      /\ \A p \in Processes : /\ Number(toUser', AsksOf(p)) = 0
                              /\ Number(toScript', ContinuesOf(p)) = 0
  BY <1>1 DEF UserSame, interrupt
<1>3. Tokens' <= 1
  BY <1>2 DEF Tokens, Running, Interrupted
<1>. QED
  BY <1>1, <1>2, <1>3 DEF HasToken

\* The process that ran asks the user interface for something.
LEMMA RunAsks ==
    ASSUME IInv, NEW x \in Processes, state[x] = "Running", toScript' = toScript, UNCHANGED interrupt,
           NEW op \in Asks, toUser' = Append(toUser, To(op, x)), NoneRunning(state')
    PROVE  /\ Tokens' <= Tokens
           /\ \A p \in Processes : HasToken(p)' => p = x
<1>1. /\ m_interruptedProcesses = {} /\ Tokens = 1
      /\ Number(toUser, UserTokens) = 0 /\ Number(toScript, ScriptTokens) = 0
      /\ \A p \in Processes : /\ Number(toUser, AsksOf(p)) = 0
                              /\ Number(toScript, ContinuesOf(p)) = 0
  BY AloneRunning
<1>2. /\ To(op, x) \in ToUser
      /\ \A p \in Processes : To(op, x) \in AsksOf(p) <=> p = x
  BY AskClass
<1>3. \A M : Number(toUser', M) = Number(toUser, M) + IF To(op, x) \in M THEN 1 ELSE 0
  BY <1>2, Facts, SentOne
<1>4. Number(toUser', UserTokens) <= 1
  <2>1. Number(toUser', UserTokens) = 0 + IF To(op, x) \in UserTokens THEN 1 ELSE 0
    BY <1>1, <1>3
  <2>. QED
    BY <2>1
<1>5. \A p \in Processes : p # x => Number(toUser', AsksOf(p)) = 0
  BY <1>1, <1>2, <1>3
<1>6. Running' = 0 /\ Interrupted' = 0 /\ Number(toScript', ScriptTokens) = 0
  BY <1>1 DEF Running, Interrupted, interrupt
<1>7. Number(toUser', UserTokens) \in Nat
  <2>1. Append(toUser, To(op, x)) \in Seq(ToUser)
    BY <1>2, Facts, SentOne
  <2>. QED
    BY <2>1, NumberType
<1>8. Tokens' <= 1
  <2>1. Tokens' = Running' + Number(toUser', UserTokens) + Number(toScript', ScriptTokens) + Interrupted'
    BY DEF Tokens
  <2>. QED
    BY <1>4, <1>6, <1>7, <2>1
<1>9. \A p \in Processes : HasToken(p)' => p = x
  <2> SUFFICES ASSUME NEW p \in Processes, p # x PROVE ~HasToken(p)'
    OBVIOUS
  <2>1. Number(toUser', AsksOf(p)) = 0 /\ Number(toScript', ContinuesOf(p)) = 0
    BY <1>1, <1>5
  <2>. QED
    BY <1>1, <2>1 DEF HasToken, NoneRunning, interrupt
<1>. QED
  BY <1>1, <1>8, <1>9

\* The order of waits remains when waits are appended, and when a group is finished.
LEMMA KeepsOrderWhen ==
    ASSUME IInv,
           \/ /\ m_waits' = m_waits \/ \E w \in WaitsFor(Processes) : m_waits' = Append(m_waits, w)
              /\ \A x, y : Precedes(toUser, x, y) => Precedes(toUser', x, y)
           \/ \E g \in Processes : CompleteWaits(g)
    PROVE  KeepsOrder
<1>1. ASSUME \A x, y : Precedes(toUser, x, y) => Precedes(toUser', x, y), m_waits' = m_waits
      PROVE  KeepsOrder
  BY <1>1 DEF KeepsOrder
<1>2. ASSUME \A x, y : Precedes(toUser, x, y) => Precedes(toUser', x, y),
             NEW w \in WaitsFor(Processes), m_waits' = Append(m_waits, w)
      PROVE  KeepsOrder
  <2>0. m_waits \o <<w>> = Append(m_waits, w)
    BY Facts, SentOne
  <2>1. m_waits' = m_waits \o <<w>> /\ <<w>> \in Seq(WaitsFor(Processes))
    BY <1>2, <2>0
  <2>2. \A x, y : Precedes(m_waits, x, y) => Precedes(m_waits', x, y)
    BY <2>1, Facts, PrecedesConcat
  <2>. QED
    BY <1>2, <2>2 DEF KeepsOrder
<1>3. ASSUME NEW g \in Processes, CompleteWaits(g) PROVE KeepsOrder
  <2>1. /\ \A c, k \in Controls, h \in Processes :
             Precedes(m_waits, WaitEntry(c, h), WaitEntry(k, h)) =>
               \/ Precedes(m_waits', WaitEntry(c, h), WaitEntry(k, h))
               \/ Precedes(toUser', Complete(c), Complete(k))
        /\ \A x, y : Precedes(toUser, x, y) => Precedes(toUser', x, y)
    BY <1>3, CompleteFacts, Facts
  <2>. QED
    BY <2>1 DEF KeepsOrder
<1>. QED
  BY <1>1, <1>2, <1>3

LEMMA WaitAppended ==
    ASSUME IInv, NEW d \in Controls, NEW g \in Processes, m_waits' = Append(m_waits, WaitEntry(d, g))
    PROVE  /\ m_waits' \in Seq(WaitsFor(Processes)) /\ WaitEntry(d, g) \in WaitsFor(Processes)
           /\ \A c, h : Waits(m_waits', c, h) <=> Waits(m_waits, c, h) \/ (c = d /\ h = g)
           /\ \A c \in Controls : Number(m_waits', WaitsOf(c)) = Number(m_waits, WaitsOf(c)) + IF c = d THEN 1 ELSE 0
<1>1. WaitEntry(d, g) \in WaitsFor(Processes)
  BY WaitEntries
<1>2. m_waits' \in Seq(WaitsFor(Processes))
  BY <1>1, Facts, SentOne
<1>3. \A x : Has(m_waits', x) <=> Has(m_waits, x) \/ x = WaitEntry(d, g)
  BY <1>1, Facts, HasAppend
<1>4. \A M : Number(m_waits', M) = Number(m_waits, M) + IF WaitEntry(d, g) \in M THEN 1 ELSE 0
  BY <1>1, Facts, SentOne
<1>5. \A c, h : Waits(m_waits', c, h) <=> Waits(m_waits, c, h) \/ (c = d /\ h = g)
  BY <1>3, WaitEntries DEF Waits
<1>6. \A c \in Controls : WaitEntry(d, g) \in WaitsOf(c) <=> c = d
  BY WaitEntries
<1>. QED
  BY <1>1, <1>2, <1>4, <1>5, <1>6

\* The groups stay, and no process becomes active.
LEMMA GroupsKept ==
    ASSUME IInv, group' = group,
           \A p \in Processes : state'[p] = "new" <=> state[p] = "new",
           \A p \in Processes : Active(state'[p]) => Active(state[p])
    PROVE  Groups'
  BY DEF IInv, Groups

\* The command makes a process.
LEMMA NewProcess ==
    ASSUME IInv, Receives("executeTaskWait")
    PROVE  LET r == Min(NewOnes) IN
           /\ Request.id \in Controls /\ Request = Execute(Request.id) /\ Request.id = TopControl
           /\ NewOnes # {} => r \in Processes /\ state[r] = "new"
<1>1. /\ Request \in ToScript /\ Request.op = "executeTaskWait"
      /\ \A M : /\ Number(toScript, M) \in Nat /\ Number(toScript', M) \in Nat
                /\ Number(toScript, M) = Number(toScript', M) + IF Request \in M THEN 1 ELSE 0
  BY Receiving
<1>2. Request.id \in Controls /\ Request = Execute(Request.id)
  BY <1>1, ScriptForms
<1>3. Request \in Executes /\ Request \in ForTask(Request.id)
  BY <1>2, ExecuteClass
<1>4. Request.id = TopControl
  <2>1. Number(toScript, ForTask(Request.id)) > 0
    BY <1>1, <1>3
  <2>. QED
    BY <1>2, <2>1 DEF IInv, Attached
<1>5. ASSUME NewOnes # {} PROVE Min(NewOnes) \in NewOnes
  <2>1. MaxTasks \in Nat /\ NewOnes \subseteq 1..MaxTasks
    BY Bounds DEF NewOnes
  <2>2. \E x \in NewOnes : \A y \in NewOnes : x <= y
    BY <1>5, <2>1, Extremes
  <2>. QED
    BY <2>2 DEF Min
<1>. QED
  BY <1>2, <1>4, <1>5 DEF NewOnes

LEMMA ExecuteTaskWaitKeeps ==
    ASSUME IInv, ExecuteTaskWait
    PROVE  IInv'
<1>c. PICK c, r : c = Request.id /\ r = Min(NewOnes)
  OBVIOUS
<1>0. /\ Receives("executeTaskWait")
      /\ UNCHANGED <<group, calling, m_stopSignal, user, interrupt, bounds>>
  BY DEF ExecuteTaskWait
<1>1. /\ c \in Controls /\ Request = Execute(c) /\ c = TopControl
      /\ NewOnes # {} => r \in Processes /\ state[r] = "new"
  BY <1>0, <1>c, NewProcess
<1>2. /\ Request = Head(toScript) /\ toScript # <<>> /\ toScript' = Tail(toScript) /\ Received
      /\ NoneRunning(state)
      /\ \A M : /\ Number(toScript, M) \in Nat /\ Number(toScript', M) \in Nat
                /\ Number(toScript, M) = Number(toScript', M) + IF Request \in M THEN 1 ELSE 0
  BY <1>0, Receiving
<1>3. \/ /\ NewOnes # {} /\ state' = [state EXCEPT ![r] = "Running"]
         /\ m_waits' = Append(m_waits, WaitEntry(c, group[r])) /\ toUser' = toUser
      \/ toUser' = Append(toUser, Complete(c)) /\ state' = state /\ m_waits' = m_waits
  BY <1>c DEF ExecuteTaskWait, WaitEntry, NewOnes
<1>4. /\ Request \in ScriptTokens /\ Request \in Executes /\ Request \notin ConfirmRequest
      /\ \A d \in Controls : Request \in ForTask(d) <=> c = d
      /\ \A d \in Controls, p \in Processes : Request # ContinueWait(d, p)
      /\ \A p \in Processes : Request \notin HandsOf(p) /\ Request \notin Uses(p)
  BY <1>1, ExecuteClass
<1>5. /\ Number(toScript', ConfirmRequest) = Number(toScript, ConfirmRequest)
      /\ Number(toScript', Executes) + 1 = Number(toScript, Executes)
      /\ \A d \in Controls : Number(toScript, ForTask(d)) = Number(toScript', ForTask(d)) + IF c = d THEN 1 ELSE 0
      /\ \A p \in Processes : Number(toScript', HandsOf(p)) = Number(toScript, HandsOf(p))
                              /\ Number(toScript', Uses(p)) = Number(toScript, Uses(p))
  BY <1>2, <1>4
<1>6. /\ UNCHANGED interrupt /\ UNCHANGED user
      /\ UNCHANGED <<user, interrupt, tasks, breaks, lastId>>
      /\ UNCHANGED <<user, interrupt, tasks, calls, breaks, lastId, m_stopSignal>>
      /\ group' = group /\ calling' = calling /\ m_stopSignal' = m_stopSignal /\ calls' = calls
      /\ tasks' = tasks
  BY <1>0 DEF bounds, user, interrupt
<1>7. CASE /\ NewOnes # {} /\ state' = [state EXCEPT ![r] = "Running"]
           /\ m_waits' = Append(m_waits, WaitEntry(c, group[r])) /\ toUser' = toUser
  <2>0. /\ r \in Processes /\ state[r] = "new"
        /\ group[r] \in Processes /\ state \in [Processes -> States] /\ state' \in [Processes -> States]
        /\ \A p \in Processes : state'[p] = IF p = r THEN "Running" ELSE state[p]
    BY <1>1, <1>7, StateTypes DEF States
  <2>1. /\ m_waits' \in Seq(WaitsFor(Processes)) /\ WaitEntry(c, group[r]) \in WaitsFor(Processes)
        /\ \A d, h : Waits(m_waits', d, h) <=> Waits(m_waits, d, h) \/ (d = c /\ h = group[r])
        /\ \A d \in Controls : Number(m_waits', WaitsOf(d)) = Number(m_waits, WaitsOf(d)) + IF d = c THEN 1 ELSE 0
    BY <1>1, <1>7, <2>0, WaitAppended
  <2>2. toUser' \in Seq(ToUser) /\ UserSame
    BY <1>7, UserSameWhen
  <2>3. GameTyped
    BY <1>6, <2>0, <2>1, <2>2, StateTypes DEF GameTyped
  <2>4. \A p \in Processes : state'[p] = "Running" => p = r
    BY <1>2, <2>0 DEF NoneRunning
  <2>5. /\ Tokens' <= Tokens
        /\ \A p \in Processes : HasToken(p)' => state'[p] = "Running"
    BY <1>2, <1>4, <1>6, <2>2, <2>4, TokenTaken
  <2>6. KeepsOrder
    BY <1>7, <2>1, KeepsOrderWhen
  <2>7. Unheld(r) /\ Number(toScript', Uses(r)) = 0 /\ Number(toScript', HandsOf(r)) = 0
    BY <1>1, <1>5, <2>0, NotWaiting
  <2>8. \A p \in Processes \ {r} : state[p] = "Waiting" => state'[p] = "Waiting" /\ Keeps(p)
    BY <1>6, <2>0, <2>1 DEF Keeps
  <2>9. \A p \in Processes : HasToken(p)' =>
          /\ Waits(m_waits', TopControl, group'[p])
          /\ p # r /\ state[p] = "Waiting" => HasToken(p)
    BY <1>1, <1>6, <2>1, <2>4, <2>5
  <2>10. About(r)
    BY <1>2, <1>4, <1>6, <2>0, <2>4, <2>5, <2>6, <2>7, <2>8, <2>9 DEF About
  <2>11. Balance'
    <3>1. ASSUME NEW d \in Controls
          PROVE  Number(toScript', ForTask(d)) + Number(m_waits', WaitsOf(d)) + Number(toUser', {Complete(d)})
                  = Number(toScript, ForTask(d)) + Number(m_waits, WaitsOf(d)) + Number(toUser, {Complete(d)})
      <4>1. /\ Number(m_waits, WaitsOf(d)) \in Nat /\ Number(toUser, {Complete(d)}) \in Nat
            /\ Number(toScript', ForTask(d)) \in Nat /\ Number(toScript, ForTask(d)) \in Nat
        BY <1>2, Facts
      <4>. QED
        BY <1>5, <1>7, <2>1, <4>1
    <3>. QED
      BY <1>6, <3>1, BalanceKept
  <2>12. Handed'
    <3>1. \A p \in Processes : Number(toScript', HandsOf(p)) + (IF state[p] = "Waiting" THEN 1 ELSE 0)
                                  = Number(toScript, HandsOf(p)) + (IF state'[p] = "Waiting" THEN 1 ELSE 0)
      BY <1>1, <1>5, <2>0
    <3>. QED
      BY <1>2, <1>6, <2>2, <3>1, HandedKept
  <2>13. Groups'
    <3>1. Groups
      BY DEF IInv
    <3>. QED
      BY <1>1, <1>6, <2>0, <3>1 DEF Groups, Active
  <2>14. Interrupts' /\ Credits'
    BY <1>5, <1>6, <2>2, GameRest
  <2>15. News'
    BY <1>6, NewsKept
  <2>. QED
    BY <1>1, <2>0, <2>3, <2>10, <2>11, <2>12, <2>13, <2>14, <2>15, GameClose
<1>8. CASE toUser' = Append(toUser, Complete(c)) /\ state' = state /\ m_waits' = m_waits
  <2>2. toUser' \in Seq(ToUser) /\ UserSame /\ \A x, y : Precedes(toUser, x, y) => Precedes(toUser', x, y)
    BY <1>1, <1>8, UserSameWhen
  <2>3. GameTyped
    BY <1>6, <1>8, <2>2, StateTypes DEF GameTyped
  <2>4. \A p \in Processes : state'[p] # "Running"
    BY <1>2, <1>8 DEF NoneRunning
  <2>5. /\ Tokens' <= Tokens
        /\ \A p \in Processes : HasToken(p)' => state'[p] = "Running"
    BY <1>2, <1>4, <1>6, <2>2, <2>4, TokenTaken
  <2>6. KeepsOrder
    BY <1>8, <2>2, KeepsOrderWhen
  <2>8. \A p \in Processes : state[p] = "Waiting" => state'[p] = "Waiting" /\ Keeps(p)
    BY <1>6, <1>8 DEF Keeps
  <2>10. About(None)
    BY <1>2, <1>4, <1>6, <2>4, <2>5, <2>6, <2>8, Bounds DEF About
  <2>11. Balance'
    <3>0. Complete(c) \in ToUser
      BY <1>1, AnswerClass
    <3>1. \A d \in Controls : Number(toUser', {Complete(d)}) = Number(toUser, {Complete(d)}) + IF d = c THEN 1 ELSE 0
      <4>1. \A M : Number(toUser', M) = Number(toUser, M) + IF Complete(c) \in M THEN 1 ELSE 0
        BY <1>8, <3>0, Facts, SentOne
      <4>2. \A d \in Controls : Complete(c) \in {Complete(d)} <=> d = c
        BY <1>1, AnswerClass
      <4>. QED
        BY <4>1, <4>2
    <3>2. ASSUME NEW d \in Controls
          PROVE  Number(toScript', ForTask(d)) + Number(m_waits', WaitsOf(d)) + Number(toUser', {Complete(d)})
                  = Number(toScript, ForTask(d)) + Number(m_waits, WaitsOf(d)) + Number(toUser, {Complete(d)})
      <4>1. /\ Number(m_waits, WaitsOf(d)) \in Nat /\ Number(toUser, {Complete(d)}) \in Nat
            /\ Number(toScript', ForTask(d)) \in Nat /\ Number(toScript, ForTask(d)) \in Nat
        BY <1>2, Facts
      <4>. QED
        BY <1>5, <1>8, <3>1, <4>1
    <3>. QED
      BY <1>6, <3>2, BalanceKept
  <2>12. Handed'
    <3>1. \A p \in Processes : Number(toScript', HandsOf(p)) + (IF state[p] = "Waiting" THEN 1 ELSE 0)
                                  = Number(toScript, HandsOf(p)) + (IF state'[p] = "Waiting" THEN 1 ELSE 0)
      BY <1>5, <1>8
    <3>. QED
      BY <1>2, <1>6, <2>2, <3>1, HandedKept
  <2>13. Groups'
    BY <1>6, <1>8, GroupsKept
  <2>14. Interrupts' /\ Credits'
    BY <1>5, <1>6, <2>2, GameRest
  <2>15. News'
    BY <1>6, <1>8, NewsKept
  <2>. QED
    BY <2>3, <2>10, <2>11, <2>12, <2>13, <2>14, <2>15, GameClose
<1>. QED
  BY <1>3, <1>7, <1>8

\* A process that waited runs.
LEMMA Runs1 ==
    ASSUME IInv, NEW q \in Processes, state[q] = "Waiting"
    PROVE  /\ Clean(Continued(state, q)) = Continued(state, q)
           /\ Continued(state, q) \in [Processes -> States]
           /\ \A p \in Processes : Continued(state, q)[p] = IF p = q THEN "Running" ELSE state[p]
<1> DEFINE s == Continued(state, q)
<1>1. /\ s \in [Processes -> States]
      /\ \A p \in Processes : s[p] = IF p = q THEN "Running" ELSE state[p]
  BY StateTypes DEF Continued, States
<1>2. ~NoneRunning(s)
  BY <1>1 DEF NoneRunning
<1> HIDE DEF s
<1>3. Clean(s) = s
  <2>1. Clean(s) = [p \in Processes |-> s[p]]
    BY <1>2 DEF Clean
  <2>. QED
    BY <1>1, <2>1
<1>. QED
  BY <1>1, <1>3 DEF s

\* Continuing a process with a request
LEMMA ContinueKeeps ==
    ASSUME IInv, NEW op, Receives(op), NEW q \in Processes,
           Request \in HandsOf(q), Request \in ScriptTokens,
           Request \notin ConfirmRequest, Request \notin Executes,
           \A p \in Processes : Request \in HandsOf(p) <=> p = q,
           UNCHANGED <<group, calling, m_stopSignal, user, interrupt, bounds>>,
           state' = Continued(state, q), toUser' = toUser,
           m_waits' \in Seq(WaitsFor(Processes)), KeepsOrder,
           \A c, h : Waits(m_waits, c, h) => Waits(m_waits', c, h),
           Waits(m_waits', TopControl, group[q]),
           \A c \in Controls : Number(toScript', ForTask(c)) + Number(m_waits', WaitsOf(c))
                                 = Number(toScript, ForTask(c)) + Number(m_waits, WaitsOf(c)),
           \A k \in Controls, p \in Processes : Request = ContinueWait(k, p) =>
             p = q /\ m_waits' = Append(m_waits, WaitEntry(k, group[q]))
    PROVE  IInv'
<1>1. /\ Request = Head(toScript) /\ toScript # <<>> /\ toScript' = Tail(toScript) /\ Received
      /\ NoneRunning(state)
      /\ \A M : /\ Number(toScript, M) \in Nat /\ Number(toScript', M) \in Nat
                /\ Number(toScript, M) = Number(toScript', M) + IF Request \in M THEN 1 ELSE 0
  BY Receiving
<1>2. /\ UNCHANGED interrupt /\ UNCHANGED user
      /\ UNCHANGED <<user, interrupt, tasks, breaks, lastId>>
      /\ UNCHANGED <<user, interrupt, tasks, calls, breaks, lastId, m_stopSignal>>
      /\ group' = group /\ calling' = calling /\ m_stopSignal' = m_stopSignal /\ calls' = calls
      /\ tasks' = tasks
  BY DEF bounds, user, interrupt
<1>3. /\ state[q] = "Waiting" /\ Unheld(q)
      /\ Number(toScript', HandsOf(q)) = 0 /\ Number(toScript', Uses(q)) = 0
  BY <1>1, HandAtHead
<1>4. /\ state' \in [Processes -> States]
      /\ \A p \in Processes : state'[p] = IF p = q THEN "Running" ELSE state[p]
  BY <1>3, Runs1
<1>5. toUser' \in Seq(ToUser) /\ UserSame
  BY UserSameWhen
<1>6. GameTyped
  BY <1>2, <1>4, <1>5, StateTypes DEF GameTyped
<1>7. \A p \in Processes : state'[p] = "Running" => p = q
  BY <1>1, <1>4 DEF NoneRunning
<1>8. /\ Tokens' <= Tokens
      /\ \A p \in Processes : HasToken(p)' => state'[p] = "Running"
  BY <1>1, <1>2, <1>5, <1>7, TokenTaken
<1>9. \A p \in Processes \ {q} : state[p] = "Waiting" => state'[p] = "Waiting" /\ Keeps(p)
  BY <1>2, <1>4 DEF Keeps
<1>10. \A p \in Processes : HasToken(p)' =>
         /\ Waits(m_waits', TopControl, group'[p])
         /\ p # q /\ state[p] = "Waiting" => HasToken(p)
  BY <1>2, <1>7, <1>8
<1>11. About(q)
  BY <1>1, <1>2, <1>3, <1>7, <1>8, <1>9, <1>10 DEF About
<1>12. Balance'
  <2>1. ASSUME NEW d \in Controls
        PROVE  Number(toScript', ForTask(d)) + Number(m_waits', WaitsOf(d)) + Number(toUser', {Complete(d)})
                = Number(toScript, ForTask(d)) + Number(m_waits, WaitsOf(d)) + Number(toUser, {Complete(d)})
    OBVIOUS
  <2>. QED
    BY <1>2, <2>1, BalanceKept
<1>13. Handed'
  <2>1. ASSUME NEW p \in Processes
        PROVE  Number(toScript', HandsOf(p)) + (IF state[p] = "Waiting" THEN 1 ELSE 0)
                 = Number(toScript, HandsOf(p)) + (IF state'[p] = "Waiting" THEN 1 ELSE 0)
    <3>1. /\ Number(toScript, HandsOf(p)) \in Nat /\ Number(toScript', HandsOf(p)) \in Nat
          /\ Number(toScript, HandsOf(p)) = Number(toScript', HandsOf(p)) + IF p = q THEN 1 ELSE 0
      BY <1>1
    <3>. QED
      BY <1>3, <1>4, <3>1
  <2>2. \A p \in Processes : Number(toScript', HandsOf(p)) \in Nat
    BY <1>1
  <2>. QED
    BY <1>2, <1>5, <2>1, <2>2, HandedKept
<1>14. Groups'
  BY <1>2, <1>3, <1>4, GroupsKept DEF Active
<1>15. Interrupts' /\ Credits'
  <2>1. Number(toScript', ConfirmRequest) = Number(toScript, ConfirmRequest)
    BY <1>1
  <2>. QED
    BY <1>2, <1>5, <2>1, GameRest
<1>16. News'
  BY <1>2, <1>3, <1>4, NewsKept
<1>. QED
  BY <1>6, <1>11, <1>12, <1>13, <1>14, <1>15, <1>16, GameClose

\* With a request that only continues it
LEMMA ContinueOne ==
    ASSUME IInv, NEW op \in Continues, Receives(op), NEW q \in Processes, Request = To(op, q),
           UNCHANGED <<group, calling, m_stopSignal, user, interrupt, bounds>>,
           state' = Continued(state, q), UNCHANGED <<m_waits, toUser>>
    PROVE  IInv'
<1>1. /\ Request \in ScriptTokens /\ Request \notin Executes /\ Request \notin ConfirmRequest
      /\ \A d \in Controls : Request \notin ForTask(d)
      /\ \A d \in Controls, p \in Processes : Request # ContinueWait(d, p)
      /\ \A p \in Processes : /\ Request \in ContinuesOf(p) <=> p = q
                              /\ Request \in HandsOf(p) <=> p = q
  BY ContinueClass
<1>2. /\ \A M : /\ Number(toScript, M) \in Nat /\ Number(toScript', M) \in Nat
                /\ Number(toScript, M) = Number(toScript', M) + IF Request \in M THEN 1 ELSE 0
  BY Receiving
<1>3. KeepsOrder
  BY KeepsOrderWhen
<1>4. Waits(m_waits, TopControl, group[q])
  <2>1. Number(toScript, ContinuesOf(q)) > 0
    BY <1>1, <1>2
  <2>. QED
    BY <2>1 DEF IInv, Attached, HasToken
<1>5. ASSUME NEW c \in Controls
      PROVE  Number(toScript', ForTask(c)) + Number(m_waits', WaitsOf(c))
               = Number(toScript, ForTask(c)) + Number(m_waits, WaitsOf(c))
  BY <1>1, <1>2
<1>6. m_waits' \in Seq(WaitsFor(Processes))
  BY StateTypes
<1>. QED
  BY <1>1, <1>3, <1>4, <1>5, <1>6, ContinueKeeps

LEMMA ContinueProcessWaitKeeps ==
    ASSUME IInv, ContinueProcessWait
    PROVE  IInv'
<1>0. PICK c, q : c = Request.id /\ q = Request.link
  OBVIOUS
<1>1. /\ Receives("continueProcessWait")
      /\ UNCHANGED <<group, calling, m_stopSignal, user, interrupt, bounds>>
  BY DEF ContinueProcessWait
<1>2. /\ Request = Head(toScript) /\ toScript # <<>> /\ Request \in ToScript
      /\ Request.op = "continueProcessWait" /\ toScript' = Tail(toScript)
      /\ \A M : /\ Number(toScript, M) \in Nat /\ Number(toScript', M) \in Nat
                /\ Number(toScript, M) = Number(toScript', M) + IF Request \in M THEN 1 ELSE 0
  BY <1>1, Receiving
<1>3. c \in Controls /\ q \in Processes /\ Request = ContinueWait(c, q)
  BY <1>0, <1>2, ScriptForms
<1>4. /\ Request \in ScriptTokens /\ Request \notin Executes /\ Request \notin ConfirmRequest
      /\ \A d \in Controls : Request \in ForTask(d) <=> c = d
      /\ \A d \in Controls, p \in Processes : Request = ContinueWait(d, p) <=> c = d /\ q = p
      /\ \A p \in Processes : Request \in HandsOf(p) <=> p = q
  BY <1>3, ContinueWaitClass
<1>5. state[q] = "Waiting" /\ Alive(q)
  BY <1>2, <1>3, <1>4, HandAtHead
<1>6. /\ state' = Clean(Continued(state, q)) /\ m_waits' = Append(m_waits, WaitEntry(c, group[q]))
      /\ toUser' = toUser
  BY <1>0, <1>5 DEF ContinueProcessWait, WaitEntry
<1>7. state' = Continued(state, q) /\ group[q] \in Processes
  BY <1>3, <1>5, <1>6, Runs1, StateTypes
<1>8. c = TopControl
  <2>1. Number(toScript, ForTask(c)) > 0
    BY <1>2, <1>3, <1>4
  <2>. QED
    BY <1>3, <2>1 DEF IInv, Attached
<1>9. /\ m_waits' \in Seq(WaitsFor(Processes)) /\ WaitEntry(c, group[q]) \in WaitsFor(Processes)
      /\ \A d, h : Waits(m_waits', d, h) <=> Waits(m_waits, d, h) \/ (d = c /\ h = group[q])
      /\ \A d \in Controls : Number(m_waits', WaitsOf(d)) = Number(m_waits, WaitsOf(d)) + IF d = c THEN 1 ELSE 0
  BY <1>3, <1>6, <1>7, WaitAppended
<1>10. KeepsOrder
  BY <1>6, <1>9, KeepsOrderWhen
<1>11. ASSUME NEW d \in Controls
       PROVE  Number(toScript', ForTask(d)) + Number(m_waits', WaitsOf(d))
                = Number(toScript, ForTask(d)) + Number(m_waits, WaitsOf(d))
  <2>1. /\ Number(toScript', ForTask(d)) \in Nat /\ Number(m_waits, WaitsOf(d)) \in Nat
        /\ Number(toScript, ForTask(d)) = Number(toScript', ForTask(d)) + IF c = d THEN 1 ELSE 0
    BY <1>2, <1>4, Facts
  <2>. QED
    BY <1>9, <2>1
<1>12. /\ \A d, h : Waits(m_waits, d, h) => Waits(m_waits', d, h)
       /\ Waits(m_waits', TopControl, group[q])
  BY <1>8, <1>9
<1>13. \A k \in Controls, p \in Processes : Request = ContinueWait(k, p) =>
         p = q /\ m_waits' = Append(m_waits, WaitEntry(k, group[q]))
  BY <1>4, <1>6
<1>. QED
  BY <1>1, <1>3, <1>4, <1>6, <1>7, <1>9, <1>10, <1>11, <1>12, <1>13, ContinueKeeps

\* A request that nobody is there for is received.
LEMMA IgnoredKeeps ==
    ASSUME IInv, NEW op, Receives(op),
           Request \notin ScriptTokens, Request \notin Executes, Request \notin ConfirmRequest,
           \A d \in Controls : Request \notin ForTask(d),
           \A d \in Controls, p \in Processes : Request # ContinueWait(d, p),
           \A p \in Processes : Request \notin ContinuesOf(p) /\ Request \notin HandsOf(p),
           UNCHANGED <<state, group, m_waits, calling, toUser, m_stopSignal, user, interrupt, bounds>>
    PROVE  IInv'
<1>1. /\ Request = Head(toScript) /\ Received /\ NoneRunning(state) /\ toScript' \in Seq(ToScript)
      /\ \A M : /\ Number(toScript, M) \in Nat /\ Number(toScript', M) \in Nat
                /\ Number(toScript, M) = Number(toScript', M) + IF Request \in M THEN 1 ELSE 0
  BY Receiving
<1>3. /\ Number(toScript', ScriptTokens) = Number(toScript, ScriptTokens)
      /\ Number(toScript', Executes) = Number(toScript, Executes)
      /\ Number(toScript', ConfirmRequest) = Number(toScript, ConfirmRequest)
      /\ \A d \in Controls : Number(toScript', ForTask(d)) = Number(toScript, ForTask(d))
      /\ \A p \in Processes : /\ Number(toScript', ContinuesOf(p)) = Number(toScript, ContinuesOf(p))
                              /\ Number(toScript', HandsOf(p)) = Number(toScript, HandsOf(p))
  BY <1>1
<1>4. /\ UNCHANGED interrupt /\ UNCHANGED user
      /\ UNCHANGED <<user, interrupt, tasks, breaks, lastId>>
      /\ UNCHANGED <<user, interrupt, tasks, calls, breaks, lastId, m_stopSignal>>
      /\ group' = group /\ calling' = calling /\ m_stopSignal' = m_stopSignal /\ calls' = calls
      /\ tasks' = tasks /\ state' = state /\ m_waits' = m_waits /\ toUser' = toUser
      /\ m_interruptedProcesses' = m_interruptedProcesses
  BY DEF bounds, user, interrupt
<1>5. toUser' \in Seq(ToUser) /\ UserSame
  BY <1>4, UserSameWhen
<1>6. GameTyped
  BY <1>4, StateTypes DEF GameTyped
<1>7. \A p \in Processes : HasToken(p)' <=> HasToken(p)
  BY <1>3, <1>4 DEF HasToken
<1>8. Tokens' <= Tokens
  <2>1. Running' = Running /\ Interrupted' = Interrupted
    BY <1>4 DEF Running, Interrupted
  <2>2. Tokens' = Tokens
    BY <1>3, <1>4, <2>1 DEF Tokens
  <2>. QED
    BY <2>2, TokenTypes, Facts
<1>9. KeepsOrder
  BY <1>4, KeepsOrderWhen
<1>10. \A p \in Processes : state[p] = "Waiting" => state'[p] = "Waiting" /\ Keeps(p)
  BY <1>4 DEF Keeps
<1>11. \A p \in Processes : HasToken(p)' => Waits(m_waits', TopControl, group'[p]) /\ HasToken(p)
  BY <1>4, <1>7 DEF IInv, Attached
<1>12. About(None)
  <2>1. None \notin Processes /\ \A p \in Processes : state'[p] # "Running"
    BY <1>1, <1>4, Bounds DEF NoneRunning
  <2>. QED
    BY <1>1, <1>4, <1>8, <1>9, <1>10, <1>11, <2>1 DEF About
<1>13. Balance'
  BY <1>3, <1>4, BalanceKept
<1>14. Handed'
  BY <1>1, <1>3, <1>4, <1>5, HandedKept
<1>15. Groups'
  BY <1>4, GroupsKept
<1>16. Interrupts' /\ Credits'
  BY <1>3, <1>4, <1>5, GameRest
<1>17. News'
  BY <1>4, NewsKept
<1>. QED
  BY <1>6, <1>12, <1>13, <1>14, <1>15, <1>16, <1>17, GameClose

LEMMA ContinueProcessKeeps ==
    ASSUME IInv, ContinueProcess
    PROVE  IInv'
<1>0. PICK q : q = Request.link
  OBVIOUS
<1>1. /\ Receives("continueProcess")
      /\ UNCHANGED <<group, m_waits, calling, m_stopSignal, toUser, user, interrupt, bounds>>
      /\ state' = IF Alive(q) THEN Clean(Continued(state, q)) ELSE state
  BY <1>0 DEF ContinueProcess
<1>2. /\ Request = Head(toScript) /\ toScript # <<>> /\ Request \in ToScript
      /\ Request.op = "continueProcess"
  BY <1>1, Receiving
<1>3. q \in Processes \cup {None} /\ Request = To("continueProcess", q)
  BY <1>0, <1>2, ScriptForms
<1>4. CASE q = None
  <2>1. ~Alive(q)
    BY <1>4, Bounds DEF Alive
  <2>2. Request \in {To("continueProcess", None), [op |-> "confirmInterrupt"]}
        /\ Request = To("continueProcess", None)
    BY <1>3, <1>4
  <2>3. /\ Request \notin ScriptTokens /\ Request \notin Executes /\ Request \notin ConfirmRequest
        /\ \A d \in Controls : Request \notin ForTask(d)
        /\ \A d \in Controls, p \in Processes : Request # ContinueWait(d, p)
        /\ \A p \in Processes : Request \notin ContinuesOf(p) /\ Request \notin HandsOf(p)
    BY <2>2, OtherClass
  <2>. QED
    BY <1>1, <2>1, <2>3, IgnoredKeeps
<1>5. CASE q \in Processes
  <2>1. "continueProcess" \in Continues
    BY DEF Continues
  <2>2. Request \in HandsOf(q)
    BY <1>3, <1>5, <2>1, ContinueClass
  <2>3. state[q] = "Waiting" /\ Alive(q)
    BY <1>2, <1>5, <2>2, HandAtHead
  <2>4. state' = Continued(state, q)
    BY <1>1, <1>5, <2>3, Runs1
  <2>. QED
    BY <1>1, <1>3, <1>5, <2>1, <2>4, ContinueOne
<1>. QED
  BY <1>3, <1>4, <1>5

\* Process x, which was the active one of its group, has ended: the next one runs,
\* and has those who waited for the group, or they are told.
Ended(s, x) ==
    /\ s \in [Processes -> States] /\ s[x] \in {"ended", "gone"}
    /\ \A p \in Processes \ {x} : s[p] = state[p] \/ (state[p] = "ended" /\ s[p] = "gone")

LEMMA GroupEnds ==
    ASSUME IInv, NEW x \in Processes, Active(state[x]), HasToken(x),
           \A p \in Processes : state[p] = "Running" => p = x,
           NEW s, Ended(s, x), StartGroup(s, group[x]), group' = group
    PROVE  /\ state' \in [Processes -> States] /\ m_waits' \in Seq(WaitsFor(Processes))
           /\ toUser' \in Seq(ToUser) /\ UserSame /\ KeepsOrder /\ Groups'
           /\ state'[x] # "Waiting" /\ state'[x] # "Running"
           /\ \A p \in Processes \ {x} : /\ state'[p] = "Waiting" <=> state[p] = "Waiting"
                                         /\ state[p] = "Waiting" => Keeps(p)
           /\ \A p, r \in Processes : state'[p] = "Running" /\ state'[r] = "Running" => p = r
           /\ \A p \in Processes : state'[p] = "Running" =>
                Waits(m_waits', TopControl, group[p]) /\ state[p] # "Waiting"
           /\ \A p \in Processes : state'[p] = "new" <=> state[p] = "new"
           /\ \A c \in Controls : Number(m_waits', WaitsOf(c)) + Number(toUser', {Complete(c)})
                                    = Number(m_waits, WaitsOf(c)) + Number(toUser, {Complete(c)})
<1> DEFINE g == group[x]
           next == { p \in Processes : s[p] = "Runnable" /\ group[p] = g }
<1>1. /\ s \in [Processes -> States] /\ s[x] \in {"ended", "gone"}
      /\ \A p \in Processes \ {x} : s[p] = state[p] \/ (state[p] = "ended" /\ s[p] = "gone")
      /\ g \in Processes
  BY StateTypes DEF Ended
<1>2. \/ /\ next # {} /\ state' = [s EXCEPT ![Min(next)] = "Running"]
         /\ m_waits' = m_waits /\ toUser' = toUser
      \/ next = {} /\ state' = s /\ CompleteWaits(g)
  BY DEF StartGroup
<1>3. Waits(m_waits, TopControl, g)
  BY DEF IInv, Attached
<1>4. \A p \in Processes \ {x} : Active(state[p]) => group[p] # g
  BY DEF IInv, Groups
<1>5. /\ \A p, q \in Processes :
           Active(state[p]) /\ Active(state[q]) /\ group[p] = group[q] => p = q
      /\ \A r \in Processes : state[r] = "new" =>
           group[r] = r /\ \A q \in Processes : group[q] = r => q = r
  BY DEF IInv, Groups
<1>6. state[x] # "new"
  BY DEF Active
<1>7. CASE /\ next # {} /\ state' = [s EXCEPT ![Min(next)] = "Running"]
           /\ m_waits' = m_waits /\ toUser' = toUser
  <2> DEFINE n == Min(next)
  <2>1. n \in next
    <3>1. MaxTasks \in Nat /\ next \subseteq 1..MaxTasks
      BY Bounds
    <3>2. \E a \in next : \A b \in next : a <= b
      BY <1>7, <3>1, Extremes
    <3>. QED
      BY <3>2 DEF Min
  <2>2. state' = [s EXCEPT ![n] = "Running"]
    BY <1>7
  <2>3. n \in Processes /\ s[n] = "Runnable" /\ group[n] = g
    BY <2>1
  <2> HIDE DEF n, next, g
  <2>4. n # x /\ state[n] = "Runnable"
    BY <1>1, <2>3 DEF States
  <2>5. /\ state' \in [Processes -> States]
        /\ \A p \in Processes : state'[p] = IF p = n THEN "Running" ELSE s[p]
    BY <1>1, <2>2, <2>3 DEF States
  <2>6. \A p \in Processes : state'[p] = "Running" => p = n
    BY <1>1, <2>5
  <2>7. \A p \in Processes \ {x} : state'[p] = "Waiting" <=> state[p] = "Waiting"
    BY <1>1, <2>4, <2>5
  <2>8. \A p \in Processes : state'[p] = "new" <=> state[p] = "new"
    BY <1>1, <1>6, <2>3, <2>4, <2>5
  <2>9. state'[x] \in {"ended", "gone"}
    BY <1>1, <2>4, <2>5
  <2>10. Groups'
    <3>1. \A p, q \in Processes :
            Active(state'[p]) /\ Active(state'[q]) /\ group[p] = group[q] => p = q
      <4> SUFFICES ASSUME NEW p \in Processes, NEW q \in Processes,
                          Active(state'[p]), Active(state'[q]), group[p] = group[q]
                   PROVE  p = q
        OBVIOUS
      <4>1. \A r \in Processes : Active(state'[r]) => r = n \/ (r # x /\ Active(state[r]))
        BY <1>1, <2>5, <2>9 DEF Active
      <4>2. CASE p = n \/ q = n
        BY <1>4, <2>3, <4>1, <4>2
      <4>3. CASE p # n /\ q # n
        BY <1>5, <4>1, <4>3
      <4>. QED
        BY <4>2, <4>3
    <3>. QED
      BY <1>5, <2>8, <3>1 DEF Groups
  <2>11. toUser' \in Seq(ToUser) /\ UserSame
    BY <1>7, UserSameWhen
  <2>12. KeepsOrder
    BY <1>7, KeepsOrderWhen
  <2>13. \A p \in Processes : Keeps(p)
    BY <1>7 DEF Keeps
  <2>14. \A p \in Processes : state'[p] = "Running" =>
           Waits(m_waits', TopControl, group[p]) /\ state[p] # "Waiting"
    BY <1>3, <1>7, <2>3, <2>4, <2>6
  <2>15. m_waits' \in Seq(WaitsFor(Processes))
    BY <1>7, StateTypes
  <2>. QED
    BY <1>7, <2>5, <2>6, <2>7, <2>8, <2>9, <2>10, <2>11, <2>12, <2>13, <2>14, <2>15
<1>8. CASE next = {} /\ state' = s /\ CompleteWaits(g)
  <2> HIDE DEF next, g
  <2>1. /\ m_waits' \in Seq(WaitsFor(Processes))
        /\ \A c \in Controls : Number(m_waits', WaitsOf(c)) + Number(toUser', {Complete(c)})
                                    = Number(m_waits, WaitsOf(c)) + Number(toUser, {Complete(c)})
        /\ \A c \in Controls, h \in Processes \ {g} : Waits(m_waits, c, h) => Waits(m_waits', c, h)
    BY <1>1, <1>8, CompleteFacts, Facts
  <2>2. toUser' \in Seq(ToUser) /\ UserSame
    BY <1>1, <1>8, UserSameWhen
  <2>3. KeepsOrder
    BY <1>1, <1>8, KeepsOrderWhen
  <2>4. \A p \in Processes \ {x} : state[p] = "Waiting" => Keeps(p)
    <3> SUFFICES ASSUME NEW p \in Processes \ {x}, state[p] = "Waiting" PROVE Keeps(p)
      OBVIOUS
    <3>1. group[p] \in Processes \ {g}
      BY <1>4, StateTypes DEF Active
    <3>. QED
      BY <2>1, <3>1 DEF Keeps
  <2>5. /\ \A p \in Processes : state'[p] # "Running"
        /\ \A p \in Processes \ {x} : state'[p] = "Waiting" <=> state[p] = "Waiting"
        /\ \A p \in Processes : state'[p] = "new" <=> state[p] = "new"
        /\ state'[x] \in {"ended", "gone"}
        /\ \A p \in Processes : Active(state'[p]) => Active(state[p])
    BY <1>1, <1>6, <1>8 DEF Active
  <2>6. Groups'
    BY <2>5, GroupsKept
  <2>. QED
    BY <1>1, <1>8, <2>1, <2>2, <2>3, <2>4, <2>5, <2>6
<1>. QED
  BY <1>2, <1>7, <1>8

LEMMA ContinueWithFailureKeeps ==
    ASSUME IInv, ContinueWithFailure
    PROVE  IInv'
<1> DEFINE op == "continueProcessWithFailure"
<1>0. PICK q : q = Request.link
  OBVIOUS
<1>1. /\ Receives(op)
      /\ UNCHANGED <<group, calling, m_stopSignal, user, interrupt, bounds>>
  BY DEF ContinueWithFailure
<1>2. /\ Request = Head(toScript) /\ toScript # <<>> /\ Request \in ToScript
      /\ Request.op = op /\ NoneRunning(state) /\ toScript' = Tail(toScript) /\ Received
      /\ \A M : /\ Number(toScript, M) \in Nat /\ Number(toScript', M) \in Nat
                /\ Number(toScript, M) = Number(toScript', M) + IF Request \in M THEN 1 ELSE 0
  BY <1>1, Receiving
<1>3. q \in Processes /\ Request = To(op, q)
  BY <1>0, <1>2, ScriptForms
<1>4. /\ op \in Continues
      /\ Request \in ScriptTokens /\ Request \notin Executes /\ Request \notin ConfirmRequest
      /\ \A d \in Controls : Request \notin ForTask(d)
      /\ \A d \in Controls, p \in Processes : Request # ContinueWait(d, p)
      /\ \A p \in Processes : /\ Request \in ContinuesOf(p) <=> p = q
                              /\ Request \in HandsOf(p) <=> p = q
  <2>1. op \in Continues
    BY DEF Continues
  <2>. QED
    BY <1>3, <2>1, ContinueClass
<1>5. /\ state[q] = "Waiting" /\ Unheld(q)
      /\ Number(toScript', HandsOf(q)) = 0 /\ Number(toScript', Uses(q)) = 0
  BY <1>2, <1>3, <1>4, HandAtHead
<1>6. \/ state' = Continued(state, q) /\ UNCHANGED <<m_waits, toUser>>
      \/ StartGroup([state EXCEPT ![q] = "ended"], group[q])
  BY <1>0, <1>5 DEF ContinueWithFailure
<1> HIDE DEF op
<1>7. CASE state' = Continued(state, q) /\ UNCHANGED <<m_waits, toUser>>
  BY <1>1, <1>3, <1>4, <1>7, ContinueOne
<1>8. CASE StartGroup([state EXCEPT ![q] = "ended"], group[q])
  <2> DEFINE s == [state EXCEPT ![q] = "ended"]
  <2>1. /\ UNCHANGED interrupt /\ UNCHANGED user
        /\ UNCHANGED <<user, interrupt, tasks, breaks, lastId>>
        /\ UNCHANGED <<user, interrupt, tasks, calls, breaks, lastId, m_stopSignal>>
        /\ group' = group /\ calling' = calling /\ m_stopSignal' = m_stopSignal /\ calls' = calls
        /\ tasks' = tasks
    BY <1>1 DEF bounds, user, interrupt
  <2>2. Ended(s, q)
    BY <1>3, StateTypes DEF Ended, States
  <2>3. HasToken(q) /\ Active(state[q]) /\ \A p \in Processes : state[p] = "Running" => p = q
    <3>1. Number(toScript, ContinuesOf(q)) > 0
      BY <1>2, <1>3, <1>4
    <3>. QED
      BY <1>2, <1>5, <3>1 DEF HasToken, Active, NoneRunning
  <2> HIDE DEF s
  <2>4. StartGroup(s, group[q])
    BY <1>8 DEF s
  <2>5. /\ state' \in [Processes -> States] /\ m_waits' \in Seq(WaitsFor(Processes))
        /\ toUser' \in Seq(ToUser) /\ UserSame /\ KeepsOrder /\ Groups'
        /\ state'[q] # "Waiting" /\ state'[q] # "Running"
        /\ \A p \in Processes \ {q} : /\ state'[p] = "Waiting" <=> state[p] = "Waiting"
                                      /\ state[p] = "Waiting" => Keeps(p)
        /\ \A p, r \in Processes : state'[p] = "Running" /\ state'[r] = "Running" => p = r
        /\ \A p \in Processes : state'[p] = "Running" =>
             Waits(m_waits', TopControl, group[p]) /\ state[p] # "Waiting"
        /\ \A p \in Processes : state'[p] = "new" <=> state[p] = "new"
        /\ \A c \in Controls : Number(m_waits', WaitsOf(c)) + Number(toUser', {Complete(c)})
                                    = Number(m_waits, WaitsOf(c)) + Number(toUser, {Complete(c)})
    BY <1>3, <2>1, <2>2, <2>3, <2>4, GroupEnds
  <2>6. GameTyped
    BY <2>1, <2>5, StateTypes DEF GameTyped
  <2>7. /\ Tokens' <= Tokens
        /\ \A p \in Processes : HasToken(p)' => state'[p] = "Running"
    BY <1>2, <1>4, <2>1, <2>5, TokenTaken
  <2>8. About(q)
    BY <1>2, <1>4, <1>5, <2>1, <2>5, <2>7 DEF About
  <2>9. Balance'
    <3>1. \A d \in Controls : Number(toScript', ForTask(d)) = Number(toScript, ForTask(d))
      BY <1>2, <1>4
    <3>. QED
      BY <2>1, <2>5, <3>1, BalanceMoved
  <2>10. Handed'
    <3>1. ASSUME NEW p \in Processes
          PROVE  Number(toScript', HandsOf(p)) + (IF state[p] = "Waiting" THEN 1 ELSE 0)
                   = Number(toScript, HandsOf(p)) + (IF state'[p] = "Waiting" THEN 1 ELSE 0)
      <4>1. /\ Number(toScript, HandsOf(p)) \in Nat /\ Number(toScript', HandsOf(p)) \in Nat
            /\ Number(toScript, HandsOf(p)) = Number(toScript', HandsOf(p)) + IF p = q THEN 1 ELSE 0
        BY <1>2, <1>4
      <4>. QED
        BY <1>5, <2>5, <4>1
    <3>2. \A p \in Processes : Number(toScript', HandsOf(p)) \in Nat
      BY <1>2
    <3>. QED
      BY <2>1, <2>5, <3>1, <3>2, HandedKept
  <2>11. Interrupts' /\ Credits'
    <3>1. Number(toScript', ConfirmRequest) = Number(toScript, ConfirmRequest)
      BY <1>2, <1>4
    <3>. QED
      BY <2>1, <2>5, <3>1, GameRest
  <2>12. News'
    BY <2>1, <2>5, NewsKept
  <2>. QED
    BY <1>3, <2>5, <2>6, <2>8, <2>9, <2>10, <2>11, <2>12, GameClose
<1>. QED
  BY <1>6, <1>7, <1>8

LEMMA TerminateKeeps ==
    ASSUME IInv, TerminateProcessAndGroup
    PROVE  IInv'
<1> DEFINE op == "terminateProcessAndGroup"
<1>0. PICK q, g : q = Request.link /\ g = group[q]
  OBVIOUS
<1>1. /\ Receives(op)
      /\ UNCHANGED <<group, calling, m_stopSignal, user, interrupt, bounds>>
      /\ state' = [p \in Processes |-> IF group[p] = g /\ Alive(p) THEN "ended" ELSE state[p]]
      /\ CompleteWaits(g)
  BY <1>0 DEF TerminateProcessAndGroup
<1>2. /\ Request = Head(toScript) /\ toScript # <<>> /\ Request \in ToScript
      /\ Request.op = op /\ NoneRunning(state) /\ toScript' = Tail(toScript) /\ Received
      /\ \A M : /\ Number(toScript, M) \in Nat /\ Number(toScript', M) \in Nat
                /\ Number(toScript, M) = Number(toScript', M) + IF Request \in M THEN 1 ELSE 0
  BY <1>1, Receiving
<1>3. q \in Processes /\ Request = To(op, q) /\ g \in Processes
  BY <1>0, <1>2, ScriptForms, StateTypes
<1>4. /\ Request \in ScriptTokens /\ Request \notin Executes /\ Request \notin ConfirmRequest
      /\ \A d \in Controls : Request \notin ForTask(d)
      /\ \A d \in Controls, p \in Processes : Request # ContinueWait(d, p)
      /\ \A p \in Processes : /\ Request \in ContinuesOf(p) <=> p = q
                              /\ Request \in HandsOf(p) <=> p = q
  <2>1. op \in Continues
    BY DEF Continues
  <2>. QED
    BY <1>3, <2>1, ContinueClass
<1>5. /\ state[q] = "Waiting" /\ Alive(q) /\ Unheld(q)
      /\ Number(toScript', HandsOf(q)) = 0 /\ Number(toScript', Uses(q)) = 0
  BY <1>2, <1>3, <1>4, HandAtHead
<1>6. \A p \in Processes \ {q} : Active(state[p]) => group[p] # g
  BY <1>0, <1>3, <1>5 DEF IInv, Groups, Active
<1> HIDE DEF op
<1>7. /\ UNCHANGED interrupt /\ UNCHANGED user
      /\ UNCHANGED <<user, interrupt, tasks, breaks, lastId>>
      /\ UNCHANGED <<user, interrupt, tasks, calls, breaks, lastId, m_stopSignal>>
      /\ group' = group /\ calling' = calling /\ m_stopSignal' = m_stopSignal /\ calls' = calls
      /\ tasks' = tasks
  BY <1>1 DEF bounds, user, interrupt
<1>8. /\ state' \in [Processes -> States]
      /\ \A p \in Processes : state'[p] = IF group[p] = g /\ Alive(p) THEN "ended" ELSE state[p]
      /\ state'[q] = "ended"
  BY <1>0, <1>1, <1>3, <1>5, StateTypes DEF States
<1>9. /\ m_waits' \in Seq(WaitsFor(Processes))
      /\ \A c \in Controls : Number(m_waits', WaitsOf(c)) + Number(toUser', {Complete(c)})
                                  = Number(m_waits, WaitsOf(c)) + Number(toUser, {Complete(c)})
      /\ \A c \in Controls, h \in Processes \ {g} : Waits(m_waits, c, h) => Waits(m_waits', c, h)
  BY <1>1, <1>3, CompleteFacts, Facts
<1>10. toUser' \in Seq(ToUser) /\ UserSame /\ KeepsOrder
  BY <1>1, <1>3, UserSameWhen, KeepsOrderWhen
<1>11. /\ \A p \in Processes : state'[p] # "Running"
       /\ \A p \in Processes \ {q} : state'[p] = "Waiting" <=> state[p] = "Waiting"
       /\ \A p \in Processes : state'[p] = "new" <=> state[p] = "new"
       /\ \A p \in Processes : Active(state'[p]) => Active(state[p])
  BY <1>2, <1>6, <1>8 DEF Active, Alive, NoneRunning
<1>12. \A p \in Processes \ {q} : state[p] = "Waiting" => Keeps(p)
  <2> SUFFICES ASSUME NEW p \in Processes \ {q}, state[p] = "Waiting" PROVE Keeps(p)
    OBVIOUS
  <2>1. group[p] \in Processes \ {g}
    BY <1>6, StateTypes DEF Active
  <2>. QED
    BY <1>7, <1>9, <2>1 DEF Keeps
<1>13. GameTyped
  BY <1>7, <1>8, <1>9, <1>10, StateTypes DEF GameTyped
<1>14. /\ Tokens' <= Tokens
       /\ \A p \in Processes : HasToken(p)' => state'[p] = "Running"
  BY <1>2, <1>4, <1>7, <1>10, <1>11, TokenTaken
<1>15. About(q)
  BY <1>2, <1>4, <1>5, <1>7, <1>10, <1>11, <1>12, <1>14 DEF About
<1>16. Balance'
  <2>1. \A d \in Controls : Number(toScript', ForTask(d)) = Number(toScript, ForTask(d))
    BY <1>2, <1>4
  <2>. QED
    BY <1>7, <1>9, <1>10, <2>1, BalanceMoved
<1>17. Handed'
  <2>1. ASSUME NEW p \in Processes
        PROVE  Number(toScript', HandsOf(p)) + (IF state[p] = "Waiting" THEN 1 ELSE 0)
                 = Number(toScript, HandsOf(p)) + (IF state'[p] = "Waiting" THEN 1 ELSE 0)
    <3>1. /\ Number(toScript, HandsOf(p)) \in Nat /\ Number(toScript', HandsOf(p)) \in Nat
          /\ Number(toScript, HandsOf(p)) = Number(toScript', HandsOf(p)) + IF p = q THEN 1 ELSE 0
      BY <1>2, <1>4
    <3>. QED
      BY <1>5, <1>8, <1>11, <3>1
  <2>2. \A p \in Processes : Number(toScript', HandsOf(p)) \in Nat
    BY <1>2
  <2>. QED
    BY <1>7, <1>10, <2>1, <2>2, HandedKept
<1>18. Groups'
  BY <1>7, <1>11, GroupsKept
<1>19. Interrupts' /\ Credits'
  <2>1. Number(toScript', ConfirmRequest) = Number(toScript, ConfirmRequest)
    BY <1>2, <1>4
  <2>. QED
    BY <1>7, <1>10, <2>1, GameRest
<1>20. News'
  BY <1>7, <1>11, NewsKept
<1>. QED
  BY <1>3, <1>13, <1>15, <1>16, <1>17, <1>18, <1>19, <1>20, GameClose

\* A request that is no token is received: the tokens remain.
LEMMA TokensRemain ==
    ASSUME IInv, toScript' \in Seq(ToScript), UserSame, UNCHANGED interrupt,
           NoneRunning(state), NoneRunning(state'),
           Number(toScript', ScriptTokens) = Number(toScript, ScriptTokens),
           \A p \in Processes : Number(toScript', ContinuesOf(p)) = Number(toScript, ContinuesOf(p))
    PROVE  /\ Tokens' <= Tokens
           /\ \A p \in Processes : HasToken(p)' <=> HasToken(p)
<1>1. m_interruptedProcesses' = m_interruptedProcesses
  BY DEF interrupt
<1>2. Running' = Running /\ Interrupted' = Interrupted
  BY <1>1 DEF Running, Interrupted
<1>3. Tokens' = Tokens
  BY <1>2 DEF Tokens, UserSame
<1>4. Tokens' <= Tokens
  BY <1>3, TokenTypes, Facts
<1>5. \A p \in Processes : HasToken(p)' <=> HasToken(p)
  BY <1>1 DEF HasToken, UserSame, NoneRunning
<1>. QED
  BY <1>4, <1>5

LEMMA DetachKeeps ==
    ASSUME IInv, DetachProcess
    PROVE  IInv'
<1>0. PICK q, g : q = Request.link /\ g = group[q]
  OBVIOUS
<1>1. /\ Receives("detachProcess")
      /\ UNCHANGED <<state, group, calling, m_stopSignal, user, interrupt, bounds>>
      /\ Alive(q) => CompleteWaits(g)
  BY <1>0 DEF DetachProcess
<1>2. /\ Request = Head(toScript) /\ toScript # <<>> /\ Request \in ToScript /\ Received
      /\ Request.op = "detachProcess" /\ NoneRunning(state) /\ toScript' \in Seq(ToScript)
      /\ \A M : /\ Number(toScript, M) \in Nat /\ Number(toScript', M) \in Nat
                /\ Number(toScript, M) = Number(toScript', M) + IF Request \in M THEN 1 ELSE 0
  BY <1>1, Receiving
<1>3. q \in Processes /\ Request = Detach(q) /\ g \in Processes
  BY <1>0, <1>2, ScriptForms, StateTypes
<1>4. /\ Request \notin ScriptTokens /\ Request \notin Executes /\ Request \notin ConfirmRequest
      /\ \A d \in Controls : Request \notin ForTask(d)
      /\ \A d \in Controls, p \in Processes : Request # ContinueWait(d, p)
      /\ \A p \in Processes : Request \notin ContinuesOf(p) /\ Request \notin HandsOf(p)
      /\ Request \in {Detach(q)} /\ Request \in Uses(q)
  BY <1>3, DetachClass
<1>5. Number(toScript, {Detach(q)}) > 0 /\ Number(toScript, Uses(q)) > 0
  BY <1>2, <1>4
<1>6. state[q] = "Waiting" /\ ~HasToken(q) /\ Unheld(q) /\ Alive(q)
  BY <1>3, <1>5 DEF IInv, Users, Detaches, Unheld, Alive
<1>7. CompleteWaits(g)
  BY <1>1, <1>6
<1>8. \A p \in Processes \ {q} : Active(state[p]) => group[p] # g
  BY <1>0, <1>3, <1>6 DEF IInv, Groups, Active
<1>9. /\ UNCHANGED interrupt /\ UNCHANGED user
      /\ UNCHANGED <<user, interrupt, tasks, breaks, lastId>>
      /\ UNCHANGED <<user, interrupt, tasks, calls, breaks, lastId, m_stopSignal>>
      /\ group' = group /\ calling' = calling /\ m_stopSignal' = m_stopSignal /\ calls' = calls
      /\ tasks' = tasks /\ state' = state
  BY <1>1 DEF bounds, user, interrupt
<1>10. /\ m_waits' \in Seq(WaitsFor(Processes))
       /\ \A c \in Controls : Number(m_waits', WaitsOf(c)) + Number(toUser', {Complete(c)})
                                   = Number(m_waits, WaitsOf(c)) + Number(toUser, {Complete(c)})
       /\ \A c \in Controls, h \in Processes \ {g} : Waits(m_waits, c, h) => Waits(m_waits', c, h)
  BY <1>3, <1>7, CompleteFacts, Facts
<1>11. toUser' \in Seq(ToUser) /\ UserSame /\ KeepsOrder
  BY <1>3, <1>7, UserSameWhen, KeepsOrderWhen
<1>12. /\ Number(toScript', ScriptTokens) = Number(toScript, ScriptTokens)
       /\ Number(toScript', Executes) = Number(toScript, Executes)
       /\ Number(toScript', ConfirmRequest) = Number(toScript, ConfirmRequest)
       /\ \A d \in Controls : Number(toScript', ForTask(d)) = Number(toScript, ForTask(d))
       /\ \A p \in Processes : /\ Number(toScript', ContinuesOf(p)) = Number(toScript, ContinuesOf(p))
                               /\ Number(toScript', HandsOf(p)) = Number(toScript, HandsOf(p))
  BY <1>2, <1>4
<1>13. /\ Tokens' <= Tokens
       /\ \A p \in Processes : HasToken(p)' <=> HasToken(p)
  BY <1>2, <1>9, <1>11, <1>12, TokensRemain
<1>14. TopControl \in Controls
  BY Facts, TopIs, TopControlIs
<1>15. ASSUME NEW p \in Processes, p # q, Active(state[p]) PROVE Keeps(p)
  <2>1. group[p] \in Processes \ {g}
    BY <1>8, <1>15, StateTypes
  <2>. QED
    BY <1>9, <1>10, <2>1 DEF Keeps
<1>16. ASSUME NEW p \in Processes, HasToken(p)' PROVE Waits(m_waits', TopControl, group'[p]) /\ HasToken(p)
  <2>1. HasToken(p) /\ p # q
    BY <1>6, <1>13, <1>16
  <2>2. Active(state[p]) /\ Waits(m_waits, TopControl, group[p])
    BY <2>1, TokenFacts DEF Active, IInv, Attached
  <2>3. Keeps(p)
    BY <1>15, <2>1, <2>2
  <2>. QED
    BY <1>14, <2>1, <2>2, <2>3 DEF Keeps
<1>17. About(q)
  <2>1. \A p \in Processes \ {q} : state[p] = "Waiting" => state'[p] = "Waiting" /\ Keeps(p)
    BY <1>9, <1>15 DEF Active
  <2>2. state'[q] = "Waiting" /\ ~HasToken(q)'
    BY <1>3, <1>6, <1>9, <1>13
  <2>3. \A p \in Processes : state'[p] # "Running"
    BY <1>2, <1>9 DEF NoneRunning
  <2>. QED
    BY <1>2, <1>4, <1>5, <1>6, <1>9, <1>11, <1>13, <1>16, <2>1, <2>2, <2>3 DEF About
<1>18. GameTyped
  BY <1>9, <1>10, <1>11, StateTypes DEF GameTyped
<1>19. Balance'
  BY <1>9, <1>10, <1>11, <1>12, BalanceMoved
<1>20. Handed'
  BY <1>2, <1>9, <1>11, <1>12, HandedKept
<1>21. Groups'
  BY <1>9, GroupsKept
<1>22. Interrupts' /\ Credits'
  BY <1>9, <1>11, <1>12, GameRest
<1>23. News'
  BY <1>9, NewsKept
<1>. QED
  BY <1>3, <1>17, <1>18, <1>19, <1>20, <1>21, <1>22, <1>23, GameClose

\* A process joins the one that has waited longer, and those who waited for it are told.
LEMMA JoinOne ==
    ASSUME IInv, JoinProcess, NEW x \in Processes, NEW r \in Processes, Request = Join(x, r)
    PROVE  IInv'
<1>0. PICK old : old = group[r]
  OBVIOUS
<1>a. Request.link = x /\ Request.other = r
  BY DEF Join
<1>1. /\ Receives("joinProcess")
      /\ UNCHANGED <<calling, m_stopSignal, user, interrupt, bounds>>
      /\ Alive(x) /\ Alive(r) =>
           /\ state' = IF state[r] = "ended" THEN state ELSE [state EXCEPT ![r] = "Runnable"]
           /\ group' = [p \in Processes |-> IF group[p] = old THEN group[x] ELSE group[p]]
           /\ CompleteWaits(old)
  BY <1>0, <1>a DEF JoinProcess
<1>2. /\ Request = Head(toScript) /\ toScript # <<>> /\ Received
      /\ NoneRunning(state) /\ toScript' = Tail(toScript) /\ toScript' \in Seq(ToScript)
      /\ \A M : /\ Number(toScript, M) \in Nat /\ Number(toScript', M) \in Nat
                /\ Number(toScript, M) = Number(toScript', M) + IF Request \in M THEN 1 ELSE 0
  BY <1>1, Receiving
<1>3. /\ Request \notin ScriptTokens /\ Request \notin Executes /\ Request \notin ConfirmRequest
      /\ \A d \in Controls : Request \notin ForTask(d)
      /\ \A d \in Controls, p \in Processes : Request # ContinueWait(d, p)
      /\ \A p \in Processes : Request \notin ContinuesOf(p)
      /\ \A p \in Processes : Request \in HandsOf(p) <=> p = r
      /\ Request \in Uses(x)
  BY JoinClass
<1>4. /\ state[r] = "Waiting" /\ Alive(r) /\ Unheld(r)
      /\ Number(toUser, AsksOf(r)) = 0 /\ r \notin m_interruptedProcesses
      /\ Number(toScript', HandsOf(r)) = 0 /\ Number(toScript', Uses(r)) = 0
      /\ Number(toScript, Uses(r)) = 0
  BY <1>2, <1>3, HandAtHead
<1>5. state[x] = "Waiting" /\ Alive(x) /\ x # r
  <2>1. Number(toScript, Uses(x)) > 0
    BY <1>2, <1>3
  <2>. QED
    BY <1>4, <2>1 DEF IInv, Users, Alive
<1>6. /\ state' = [state EXCEPT ![r] = "Runnable"] /\ CompleteWaits(old)
      /\ group' = [p \in Processes |-> IF group[p] = old THEN group[x] ELSE group[p]]
  BY <1>1, <1>4, <1>5
<1>7. old \in Processes /\ \A p \in Processes \ {r} : Active(state[p]) => group[p] # old
  BY <1>0, <1>4, StateTypes DEF IInv, Groups, Active
<1>8. /\ UNCHANGED interrupt /\ UNCHANGED user
      /\ UNCHANGED <<user, interrupt, tasks, breaks, lastId>>
      /\ UNCHANGED <<user, interrupt, tasks, calls, breaks, lastId, m_stopSignal>>
      /\ calling' = calling /\ m_stopSignal' = m_stopSignal /\ calls' = calls /\ tasks' = tasks
  BY <1>1 DEF bounds, user, interrupt
<1>9. /\ state' \in [Processes -> States] /\ group' \in [Processes -> Processes]
      /\ \A p \in Processes : state'[p] = IF p = r THEN "Runnable" ELSE state[p]
      /\ \A p \in Processes : group'[p] = IF group[p] = old THEN group[x] ELSE group[p]
  BY <1>6, StateTypes DEF States
<1>10. /\ m_waits' \in Seq(WaitsFor(Processes))
       /\ \A c \in Controls : Number(m_waits', WaitsOf(c)) + Number(toUser', {Complete(c)})
                                   = Number(m_waits, WaitsOf(c)) + Number(toUser, {Complete(c)})
       /\ \A c \in Controls, h \in Processes \ {old} : Waits(m_waits, c, h) => Waits(m_waits', c, h)
  BY <1>6, <1>7, CompleteFacts, Facts
<1>11. toUser' \in Seq(ToUser) /\ UserSame /\ KeepsOrder
  BY <1>6, <1>7, UserSameWhen, KeepsOrderWhen
<1>12. /\ Number(toScript', ScriptTokens) = Number(toScript, ScriptTokens)
       /\ Number(toScript', Executes) = Number(toScript, Executes)
       /\ Number(toScript', ConfirmRequest) = Number(toScript, ConfirmRequest)
       /\ \A d \in Controls : Number(toScript', ForTask(d)) = Number(toScript, ForTask(d))
       /\ \A p \in Processes : Number(toScript', ContinuesOf(p)) = Number(toScript, ContinuesOf(p))
  BY <1>2, <1>3
<1>26. \A p \in Processes : Number(toScript, HandsOf(p))
                             = Number(toScript', HandsOf(p)) + IF p = r THEN 1 ELSE 0
  BY <1>2, <1>3
<1>13. NoneRunning(state')
  BY <1>2, <1>9 DEF NoneRunning
<1>14. /\ Tokens' <= Tokens
       /\ \A p \in Processes : HasToken(p)' <=> HasToken(p)
  BY <1>2, <1>8, <1>11, <1>12, <1>13, TokensRemain
<1>15. ~HasToken(r)
  <2>1. Number(toScript', ContinuesOf(r)) <= Number(toScript', HandsOf(r))
    BY <1>2, NumberPart DEF HandsOf
  <2>2. Number(toScript, ContinuesOf(r)) \in Nat /\ Number(toScript, ContinuesOf(r)) <= 0
    BY <1>2, <1>4, <1>12, <2>1
  <2>. QED
    BY <1>4, <2>2 DEF HasToken
<1>16. ASSUME NEW p \in Processes, p # r, Active(state[p]) PROVE Keeps(p)
  <2>1. group[p] \in Processes \ {old} /\ group'[p] = group[p]
    BY <1>7, <1>9, <1>16, StateTypes
  <2>. QED
    BY <1>10, <2>1 DEF Keeps
<1>17. TopControl \in Controls
  BY Facts, TopIs, TopControlIs
<1>18. ASSUME NEW p \in Processes, HasToken(p)' PROVE Waits(m_waits', TopControl, group'[p]) /\ HasToken(p)
  <2>1. HasToken(p) /\ p # r
    BY <1>14, <1>15, <1>18
  <2>2. Active(state[p]) /\ Waits(m_waits, TopControl, group[p])
    BY <2>1, TokenFacts DEF Active, IInv, Attached
  <2>3. Keeps(p)
    BY <1>16, <2>1, <2>2
  <2>. QED
    BY <1>17, <2>1, <2>2, <2>3 DEF Keeps
<1>19. About(r)
  <2>1. \A p \in Processes \ {r} : state[p] = "Waiting" => state'[p] = "Waiting" /\ Keeps(p)
    BY <1>9, <1>16 DEF Active
  <2>2. \A p \in Processes : state'[p] # "Running"
    BY <1>13 DEF NoneRunning
  <2>. QED
    BY <1>2, <1>3, <1>4, <1>8, <1>11, <1>14, <1>18, <2>1, <2>2 DEF About
<1>20. GameTyped
  BY <1>8, <1>9, <1>10, <1>11, StateTypes DEF GameTyped
<1>21. Balance'
  BY <1>8, <1>10, <1>11, <1>12, BalanceMoved
<1>22. Handed'
  <2>1. ASSUME NEW p \in Processes
        PROVE  Number(toScript', HandsOf(p)) + (IF state[p] = "Waiting" THEN 1 ELSE 0)
                 = Number(toScript, HandsOf(p)) + (IF state'[p] = "Waiting" THEN 1 ELSE 0)
    <3>1. /\ Number(toScript, HandsOf(p)) \in Nat /\ Number(toScript', HandsOf(p)) \in Nat
          /\ Number(toScript, HandsOf(p)) = Number(toScript', HandsOf(p)) + IF p = r THEN 1 ELSE 0
      BY <1>2, <1>26
    <3>. QED
      BY <1>4, <1>9, <3>1
  <2>2. \A p \in Processes : Number(toScript', HandsOf(p)) \in Nat
    BY <1>2
  <2>. QED
    BY <1>8, <1>11, <2>1, <2>2, HandedKept
<1>23. Groups'
  <2>1. ASSUME NEW p \in Processes, NEW q \in Processes,
               Active(state'[p]), Active(state'[q]), group'[p] = group'[q]
        PROVE  p = q
    <3>1. /\ Active(state[p]) /\ p # r /\ group'[p] = group[p]
          /\ Active(state[q]) /\ q # r /\ group'[q] = group[q]
      BY <1>7, <1>9, <2>1 DEF Active
    <3>. QED
      BY <2>1, <3>1 DEF IInv, Groups
  <2>2. ASSUME NEW n \in Processes, state'[n] = "new"
        PROVE  group'[n] = n /\ \A q \in Processes : group'[q] = n => q = n
    <3>1. state[n] = "new" /\ n # r /\ n # x
      BY <1>4, <1>5, <1>9, <2>2
    <3>2. group[n] = n /\ \A q \in Processes : group[q] = n => q = n
      BY <3>1 DEF IInv, Groups
    <3>3. n # old /\ n # group[x]
      BY <1>0, <3>1, <3>2
    <3>. QED
      BY <1>9, <3>2, <3>3
  <2>. QED
    BY <2>1, <2>2 DEF Groups
<1>24. Interrupts' /\ Credits'
  BY <1>8, <1>11, <1>12, GameRest
<1>25. News'
  BY <1>8, NewsKept
<1>. QED
  BY <1>19, <1>20, <1>21, <1>22, <1>23, <1>24, <1>25, GameClose

LEMMA JoinKeeps ==
    ASSUME IInv, JoinProcess
    PROVE  IInv'
<1>1. Receives("joinProcess") /\ UNCHANGED <<calling, m_stopSignal, user, interrupt, bounds>>
  BY DEF JoinProcess
<1>2. Request \in ToScript /\ Request.op = "joinProcess"
  BY <1>1, Receiving
<1>3. PICK x \in Processes, r \in Processes \cup {None} :
        Request = Join(x, r) /\ Request.link = x /\ Request.other = r
  BY <1>2, ScriptForms
<1>4. CASE r \in Processes
  BY <1>3, <1>4, JoinOne
<1>5. CASE r = None
  <2>1. ~Alive(r)
    BY <1>5, Bounds DEF Alive
  <2>2. UNCHANGED <<state, group, m_waits, toUser>>
    BY <1>3, <2>1 DEF JoinProcess
  <2>3. /\ Request \notin ScriptTokens /\ Request \notin Executes /\ Request \notin ConfirmRequest
        /\ \A d \in Controls : Request \notin ForTask(d)
        /\ \A d \in Controls, p \in Processes : Request # ContinueWait(d, p)
        /\ \A p \in Processes : Request \notin ContinuesOf(p)
        /\ \A p \in Processes : Request \in HandsOf(p) <=> p = r
    BY <1>3, JoinClass
  <2>4. \A p \in Processes : Request \notin HandsOf(p)
    BY <1>5, <2>3, Bounds
  <2>5. UNCHANGED <<state, group, m_waits, calling, toUser, m_stopSignal, user, interrupt, bounds>>
    BY <1>1, <2>2
  <2>. QED
    BY <1>1, <2>3, <2>4, <2>5, IgnoredKeeps
<1>. QED
  BY <1>3, <1>4, <1>5

\* A request for the user interface is sent.
LEMMA Asked ==
    ASSUME IInv, NEW m \in ToUser, toUser' = Append(toUser, m)
    PROVE  /\ toUser' \in Seq(ToUser)
           /\ \A M : /\ Number(toUser, M) \in Nat /\ Number(toUser', M) \in Nat
                     /\ Number(toUser', M) = Number(toUser, M) + IF m \in M THEN 1 ELSE 0
           /\ \A A, B : m \notin A /\ Followed(toUser, A, B) => Followed(toUser', A, B)
           /\ \A A, B : m \notin A /\ m \in B => Followed(toUser', A, B)
           /\ \A x, y : Precedes(toUser, x, y) => Precedes(toUser', x, y)
<1>1. toUser \in Seq(ToUser) /\ <<m>> \in Seq(ToUser)
  BY Facts
<1>2. /\ toUser' = toUser \o <<m>> /\ toUser' \in Seq(ToUser)
      /\ \A M : /\ Number(toUser, M) \in Nat /\ Number(toUser', M) \in Nat
                /\ Number(toUser', M) = Number(toUser, M) + IF m \in M THEN 1 ELSE 0
  BY <1>1, SentOne
<1>3. /\ \A A, B : m \notin A /\ Followed(toUser, A, B) => Followed(toUser', A, B)
      /\ \A A, B : m \notin A /\ m \in B => Followed(toUser', A, B)
  BY <1>1, SentOne
<1>4. \A x, y : Precedes(toUser, x, y) => Precedes(toUser', x, y)
  <2>1. ASSUME NEW x, NEW y, Precedes(toUser, x, y) PROVE Precedes(toUser \o <<m>>, x, y)
    BY <1>1, <2>1, PrecedesConcat
  <2>. QED
    BY <1>2, <2>1
<1>. QED
  BY <1>2, <1>3, <1>4

LEMMA ConfirmKeeps ==
    ASSUME IInv, ConfirmInterrupt
    PROVE  IInv'
<1>0. PICK m : m = [op |-> "onInterruptConfirm"]
  OBVIOUS
<1>1. /\ Receives("confirmInterrupt")
      /\ UNCHANGED <<script, user, interrupt, bounds>>
      /\ m_stopSignal' = FALSE /\ toUser' = Append(toUser, m)
  BY <1>0 DEF ConfirmInterrupt
<1>2. /\ Request = Head(toScript) /\ toScript # <<>> /\ Request \in ToScript /\ Received
      /\ Request.op = "confirmInterrupt" /\ NoneRunning(state) /\ toScript' \in Seq(ToScript)
      /\ \A M : /\ Number(toScript, M) \in Nat /\ Number(toScript', M) \in Nat
                /\ Number(toScript, M) = Number(toScript', M) + IF Request \in M THEN 1 ELSE 0
  BY <1>1, Receiving
<1>3. /\ Request \notin ScriptTokens /\ Request \notin Executes /\ Request \in ConfirmRequest
      /\ \A d \in Controls : Request \notin ForTask(d)
      /\ \A d \in Controls, p \in Processes : Request # ContinueWait(d, p)
      /\ \A p \in Processes : Request \notin ContinuesOf(p) /\ Request \notin HandsOf(p)
  <2>1. Request = [op |-> "confirmInterrupt"]
    BY <1>2, ScriptForms
  <2>. QED
    BY <2>1, OtherClass
<1>4. /\ UNCHANGED interrupt /\ UNCHANGED user
      /\ UNCHANGED <<user, interrupt, tasks, breaks, lastId>>
      /\ group' = group /\ calling' = calling /\ calls' = calls
      /\ tasks' = tasks /\ state' = state /\ m_waits' = m_waits
      /\ loops' = loops /\ m_outputState' = m_outputState /\ lastId' = lastId
      /\ m_interruptedProcesses' = m_interruptedProcesses /\ m_interrupting' = m_interrupting
  BY <1>1 DEF bounds, user, interrupt, script
<1>5. /\ m \in ToUser /\ m \notin UserTokens /\ m \notin ToShow /\ m \notin Interruptions
      /\ m \in Confirmation /\ \A c \in Controls : m \notin {Complete(c)}
      /\ \A p \in Processes : m \notin AsksOf(p)
  BY <1>0, AnswerClass
<1>6. /\ toUser' \in Seq(ToUser)
      /\ \A M : /\ Number(toUser, M) \in Nat /\ Number(toUser', M) \in Nat
                /\ Number(toUser', M) = Number(toUser, M) + IF m \in M THEN 1 ELSE 0
      /\ \A A, B : m \notin A /\ m \in B => Followed(toUser', A, B)
      /\ \A x, y : Precedes(toUser, x, y) => Precedes(toUser', x, y)
  BY <1>1, <1>5, Asked
<1>7. /\ Number(toUser', UserTokens) = Number(toUser, UserTokens)
      /\ Number(toUser', ToShow) = Number(toUser, ToShow)
      /\ Number(toUser', Confirmation) = Number(toUser, Confirmation) + 1
  BY <1>5, <1>6
<1>22. /\ \A c \in Controls : Number(toUser', {Complete(c)}) = Number(toUser, {Complete(c)})
      /\ \A p \in Processes : Number(toUser', AsksOf(p)) = Number(toUser, AsksOf(p))
  BY <1>5, <1>6
<1>8. /\ Number(toScript', ScriptTokens) = Number(toScript, ScriptTokens)
      /\ Number(toScript', Executes) = Number(toScript, Executes)
      /\ Number(toScript, ConfirmRequest) = Number(toScript', ConfirmRequest) + 1
      /\ \A d \in Controls : Number(toScript', ForTask(d)) = Number(toScript, ForTask(d))
      /\ \A p \in Processes : /\ Number(toScript', ContinuesOf(p)) = Number(toScript, ContinuesOf(p))
                              /\ Number(toScript', HandsOf(p)) = Number(toScript, HandsOf(p))
  BY <1>2, <1>3
<1>9. GameTyped
  BY <1>1, <1>4, <1>6, StateTypes DEF GameTyped
<1>10. \A p \in Processes : HasToken(p)' <=> HasToken(p)
  BY <1>4, <1>22, <1>8 DEF HasToken
<1>11. Tokens' <= Tokens
  <2>1. Running' = Running /\ Interrupted' = Interrupted
    BY <1>4 DEF Running, Interrupted
  <2>2. Tokens' = Tokens
    BY <1>7, <1>8, <2>1 DEF Tokens
  <2>. QED
    BY <2>2, TokenTypes, Facts
<1>12. KeepsOrder
  BY <1>4, <1>6, KeepsOrderWhen
<1>13. \A p \in Processes : state[p] = "Waiting" => state'[p] = "Waiting" /\ Keeps(p)
  BY <1>4 DEF Keeps
<1>14. \A p \in Processes : HasToken(p)' => Waits(m_waits', TopControl, group'[p]) /\ HasToken(p)
  BY <1>4, <1>10 DEF IInv, Attached
<1>15. About(None)
  <2>1. None \notin Processes /\ \A p \in Processes : state'[p] # "Running"
    BY <1>2, <1>4, Bounds DEF NoneRunning
  <2>. QED
    BY <1>2, <1>3, <1>4, <1>11, <1>12, <1>13, <1>14, <2>1 DEF About
<1>16. Balance'
  BY <1>4, <1>22, <1>8, BalanceKept
<1>17. Handed'
  BY <1>4, <1>6, <1>22, <1>8, HandedAsked
<1>18. Groups'
  BY <1>4, GroupsKept
<1>19. Interrupts'
  <2>1. /\ Number(toScript, ConfirmRequest) + Number(toUser, Confirmation) + Number(loops, {Ask})
             = IF m_interrupting THEN 1 ELSE 0
        /\ m_interruptedProcesses # {} => m_interrupting
    BY DEF IInv, Interrupts
  <2>2. Number(loops, {Ask}) \in Nat
    BY Facts
  <2>3. /\ Number(toScript', ConfirmRequest) + Number(toUser', Confirmation) + Number(loops, {Ask})
             = IF m_interrupting THEN 1 ELSE 0
        /\ Number(toScript', ConfirmRequest) = 0
    BY <1>2, <1>6, <1>7, <1>8, <2>1, <2>2
  <2>4. Followed(toUser', Interruptions, Confirmation)
    BY <1>5, <1>6
  <2>. QED
    BY <1>1, <1>4, <2>1, <2>3, <2>4 DEF Interrupts
<1>20. Credits'
  <2>1. TopControl' = TopControl
    BY <1>4, TopControlIs
  <2>. QED
    BY <1>4, <1>7, <2>1 DEF IInv, Credits
<1>21. News'
  BY <1>4, NewsKept
<1>. QED
  BY <1>9, <1>15, <1>16, <1>17, <1>18, <1>19, <1>20, <1>21, GameClose

\* The process that runs waits for the user interface.
LEMMA AskingKeeps ==
    ASSUME IInv, NEW x \in Processes, state[x] = "Running",
           NEW op \in Asks, toUser' = Append(toUser, To(op, x)),
           state' = Clean([state EXCEPT ![x] = "Waiting"]),
           UNCHANGED <<group, m_waits, calling, m_stopSignal, toScript, user, interrupt>>,
           UNCHANGED <<tasks, breaks, lastId>>, calls' \in Nat, Interrupts', Credits'
    PROVE  IInv'
<1>0. PICK m : m = To(op, x)
  OBVIOUS
<1>1. /\ UNCHANGED interrupt /\ UNCHANGED user
      /\ UNCHANGED <<user, interrupt, tasks, breaks, lastId>>
      /\ group' = group /\ calling' = calling /\ tasks' = tasks /\ m_waits' = m_waits
      /\ toScript' = toScript /\ m_stopSignal' = m_stopSignal
  OBVIOUS
<1>2. /\ HasToken(x) /\ \A p \in Processes : state[p] = "Running" => p = x
      /\ \A p \in Processes : Number(toUser, AsksOf(p)) = 0
  BY AloneRunning
<1>3. Unheld(x) /\ Number(toScript, Uses(x)) = 0 /\ Number(toScript, HandsOf(x)) = 0
  BY NotWaiting
<1>4. /\ m \in ToUser /\ \A c \in Controls : m \notin {Complete(c)}
      /\ \A p \in Processes : m \in AsksOf(p) <=> p = x
  BY <1>0, AskClass
<1>5. /\ toUser' \in Seq(ToUser)
      /\ \A M : /\ Number(toUser, M) \in Nat /\ Number(toUser', M) \in Nat
                /\ Number(toUser', M) = Number(toUser, M) + IF m \in M THEN 1 ELSE 0
      /\ \A a, b : Precedes(toUser, a, b) => Precedes(toUser', a, b)
  BY <1>0, <1>4, Asked
<1>6. /\ \A c \in Controls : Number(toUser', {Complete(c)}) = Number(toUser, {Complete(c)})
      /\ \A p \in Processes : Number(toUser', AsksOf(p)) = Number(toUser, AsksOf(p)) + IF p = x THEN 1 ELSE 0
  BY <1>4, <1>5
<1>7. /\ state' \in [Processes -> States] /\ state'[x] = "Waiting"
      /\ \A p \in Processes \ {x} : state'[p] = state[p] \/ (state[p] = "ended" /\ state'[p] = "gone")
  BY StateTypes DEF Clean, States
<1>8. /\ NoneRunning(state')
      /\ \A p \in Processes : state'[p] = "new" <=> state[p] = "new"
      /\ \A p \in Processes \ {x} : state'[p] = "Waiting" <=> state[p] = "Waiting"
      /\ \A p \in Processes : Active(state'[p]) => Active(state[p])
  BY <1>2, <1>7 DEF NoneRunning, Active
<1>9. Tokens' <= Tokens /\ \A p \in Processes : HasToken(p)' => p = x
  BY <1>1, <1>8, RunAsks
<1>10. KeepsOrder
  BY <1>1, <1>5, KeepsOrderWhen
<1>11. Waits(m_waits', TopControl, group'[x])
  BY <1>1, <1>2 DEF IInv, Attached
<1>12. About(x)
  <2>1. \A p \in Processes \ {x} : state[p] = "Waiting" => state'[p] = "Waiting" /\ Keeps(p)
    BY <1>1, <1>8 DEF Keeps
  <2>2. \A p, r \in Processes : state'[p] = "Running" /\ state'[r] = "Running" => p = r
    BY <1>8 DEF NoneRunning
  <2>. QED
    BY <1>1, <1>3, <1>9, <1>10, <1>11, <2>1, <2>2 DEF About, Received
<1>13. GameTyped
  BY <1>1, <1>5, <1>7, StateTypes DEF GameTyped
<1>14. Balance'
  BY <1>1, <1>6, BalanceKept
<1>15. Handed'
  <2>1. ASSUME NEW p \in Processes
        PROVE  Number(toUser', AsksOf(p)) + (IF state[p] = "Waiting" THEN 1 ELSE 0)
                 = Number(toUser, AsksOf(p)) + (IF state'[p] = "Waiting" THEN 1 ELSE 0)
    <3>1. CASE p = x
      BY <1>2, <1>6, <1>7, <3>1
    <3>2. CASE p # x
      <4>1. state'[p] = "Waiting" <=> state[p] = "Waiting"
        BY <1>8, <3>2
      <4>2. Number(toUser', AsksOf(p)) = 0 /\ Number(toUser, AsksOf(p)) = 0
        BY <1>2, <1>6, <3>2
      <4>. QED
        BY <4>1, <4>2
    <3>. QED
      BY <3>1, <3>2
  <2>. QED
    BY <1>1, <1>5, <2>1, HandedAsked
<1>16. Groups'
  BY <1>1, <1>8, GroupsKept
<1>17. News'
  BY <1>1, <1>8, NewsKept
<1>. QED
  BY <1>12, <1>13, <1>14, <1>15, <1>16, <1>17, GameClose

LEMMA CheckKeeps ==
    ASSUME IInv, NEW x \in Processes, CheckProcess(x)
    PROVE  IInv'
<1>0. PICK m : m = To("onProcessInterrupted", x)
  OBVIOUS
<1>1. /\ state[x] = "Running" /\ m_stopSignal
      /\ state' = Clean([state EXCEPT ![x] = "Waiting"]) /\ toUser' = Append(toUser, m)
      /\ UNCHANGED <<group, m_waits, calling, m_stopSignal, toScript, user, interrupt>>
      /\ UNCHANGED <<tasks, breaks, lastId>> /\ calls' = calls
      /\ m_stopSignal' = m_stopSignal /\ toScript' = toScript
      /\ loops' = loops /\ m_outputState' = m_outputState /\ lastId' = lastId
      /\ m_interruptedProcesses' = m_interruptedProcesses /\ m_interrupting' = m_interrupting
  BY <1>0 DEF CheckProcess, Runs, bounds, user, interrupt
<1>2. "onProcessInterrupted" \in Asks /\ m \in ToUser /\ m \notin Confirmation /\ m \notin ToShow
  <2>1. "onProcessInterrupted" \in Asks
    BY DEF Asks
  <2>. QED
    BY <1>0, <2>1, AskClass
<1>3. /\ Number(toUser', Confirmation) = Number(toUser, Confirmation)
      /\ Number(toUser', ToShow) = Number(toUser, ToShow)
  <2>1. \A M : /\ Number(toUser, M) \in Nat
               /\ Number(toUser', M) = Number(toUser, M) + IF m \in M THEN 1 ELSE 0
    BY <1>1, <1>2, Asked
  <2>. QED
    BY <1>2, <2>1
<1>4. Interrupts'
  BY <1>1, <1>3 DEF IInv, Interrupts
<1>5. Credits'
  <2>1. TopControl' = TopControl
    BY <1>1, TopControlIs
  <2>. QED
    BY <1>1, <1>3, <2>1 DEF IInv, Credits
<1>6. calls' \in Nat
  BY <1>1, StateTypes
<1>. QED
  BY <1>0, <1>1, <1>2, <1>4, <1>5, <1>6, AskingKeeps

LEMMA PostKeeps ==
    ASSUME IInv, NEW x \in Processes, NEW callout \in Callouts, PostNewTask(x, callout)
    PROVE  IInv'
<1>0. PICK m : m = To(callout, x)
  OBVIOUS
<1>1. /\ state[x] = "Running" /\ calls < MaxCalls /\ calls' = calls + 1
      /\ state' = Clean([state EXCEPT ![x] = "Waiting"]) /\ toUser' = Append(toUser, m)
      /\ UNCHANGED <<group, m_waits, calling, m_stopSignal, toScript, user, interrupt>>
      /\ UNCHANGED <<tasks, breaks, lastId>>
      /\ m_stopSignal' = m_stopSignal /\ toScript' = toScript
      /\ loops' = loops /\ m_outputState' = m_outputState /\ lastId' = lastId
      /\ m_interruptedProcesses' = m_interruptedProcesses /\ m_interrupting' = m_interrupting
  BY <1>0 DEF PostNewTask, Runs, user, interrupt
<1>2. /\ callout \in Asks /\ callout # "onProcessInterrupted"
      /\ m \in ToUser /\ m \notin Confirmation /\ m \notin Interruptions
  <2>1. callout \in Asks /\ callout # "onProcessInterrupted"
    BY CalloutsAssumption DEF Asks
  <2>. QED
    BY <1>0, <2>1, AskClass
<1>3. /\ \A M : /\ Number(toUser, M) \in Nat
                /\ Number(toUser', M) = Number(toUser, M) + IF m \in M THEN 1 ELSE 0
      /\ \A A, B : m \notin A /\ Followed(toUser, A, B) => Followed(toUser', A, B)
  BY <1>1, <1>2, Asked
<1>4. Number(toUser', Confirmation) = Number(toUser, Confirmation)
  BY <1>2, <1>3
<1>5. Interrupts'
  BY <1>1, <1>2, <1>3, <1>4 DEF IInv, Interrupts
<1>6. Credits' /\ calls' \in Nat
  <2>1. TopControl' = TopControl
    BY <1>1, TopControlIs
  <2>2. /\ Number(toUser, ToShow) \in Nat /\ Number(toUser', ToShow) \in Nat
        /\ Number(toUser', ToShow) <= Number(toUser, ToShow) + 1
    BY <1>3, <1>2
  <2>3. /\ calls \in Nat /\ lastId \in Nat /\ MaxCalls \in Nat
        /\ lastId + Number(toUser, ToShow)
             + (IF m_outputState[TopControl].target \in {"screen", "exit"} THEN 1 ELSE 0) <= calls + 1
    BY StateTypes, Facts, Bounds DEF IInv, Credits
  <2>. QED
    BY <1>1, <2>1, <2>2, <2>3 DEF Credits
<1>. QED
  BY <1>0, <1>1, <1>2, <1>5, <1>6, AskingKeeps

LEMMA CallKeeps ==
    ASSUME IInv, NEW x \in Processes, Call(x)
    PROVE  IInv'
<1>1. /\ state[x] = "Running" /\ calls < MaxCalls /\ calls' = calls + 1 /\ calling' = TRUE
      /\ toUser' = Append(toUser, [op |-> "call"])
      /\ UNCHANGED interrupt /\ UNCHANGED user
      /\ UNCHANGED <<user, interrupt, tasks, breaks, lastId>>
      /\ state' = state /\ group' = group /\ m_waits' = m_waits /\ m_stopSignal' = m_stopSignal
      /\ toScript' = toScript /\ loops' = loops /\ m_outputState' = m_outputState
      /\ lastId' = lastId /\ tasks' = tasks
      /\ m_interruptedProcesses' = m_interruptedProcesses /\ m_interrupting' = m_interrupting
  BY DEF Call, Runs, user, interrupt
<1>2. /\ toUser' \in Seq(ToUser) /\ UserSame
      /\ \A a, b : Precedes(toUser, a, b) => Precedes(toUser', a, b)
  BY <1>1, UserSameWhen
<1>3. \A c \in Controls : Number(toUser', {Complete(c)}) = Number(toUser, {Complete(c)})
  <2>1. PICK m : m = [op |-> "call"]
    OBVIOUS
  <2>2. m \in ToUser /\ \A c \in Controls : m \notin {Complete(c)}
    BY <2>1, AnswerClass
  <2>3. \A M : /\ Number(toUser, M) \in Nat
               /\ Number(toUser', M) = Number(toUser, M) + IF m \in M THEN 1 ELSE 0
    BY <1>1, <2>1, <2>2, Asked
  <2>. QED
    BY <2>2, <2>3
<1>4. \A M : Number(toScript, M) \in Nat
  BY Facts
<1>5. GameTyped
  BY <1>1, <1>2, StateTypes DEF GameTyped
<1>6. \A p \in Processes : HasToken(p)' <=> HasToken(p)
  BY <1>1, <1>2 DEF HasToken, UserSame
<1>7. Tokens' <= Tokens
  <2>1. Running' = Running /\ Interrupted' = Interrupted
    BY <1>1 DEF Running, Interrupted
  <2>2. Tokens' = Tokens
    BY <1>1, <1>2, <2>1 DEF Tokens, UserSame
  <2>. QED
    BY <2>2, TokenTypes, Facts
<1>8. KeepsOrder
  BY <1>1, <1>2, KeepsOrderWhen
<1>9. About(None)
  <2>1. None \notin Processes
    BY Bounds
  <2>2. \A p, r \in Processes : state[p] = "Running" /\ state[r] = "Running" => p = r
    BY DEF IInv, OneToken
  <2>3. \A p \in Processes : HasToken(p)' => Waits(m_waits', TopControl, group'[p]) /\ HasToken(p)
    BY <1>1, <1>6 DEF IInv, Attached
  <2>. QED
    BY <1>1, <1>7, <1>8, <2>1, <2>2, <2>3 DEF About, Received, Keeps
<1>10. Balance'
  BY <1>1, <1>3, BalanceKept
<1>11. Handed'
  BY <1>1, <1>2, <1>4, HandedKept
<1>12. Groups'
  BY <1>1, GroupsKept
<1>13. Interrupts'
  BY <1>1, <1>2 DEF IInv, Interrupts, UserSame
<1>14. Credits'
  <2>1. TopControl' = TopControl
    BY <1>1, TopControlIs
  <2>2. /\ calls \in Nat /\ lastId \in Nat /\ MaxCalls \in Nat /\ Number(toUser, ToShow) \in Nat
        /\ lastId + Number(toUser, ToShow)
             + (IF m_outputState[TopControl].target \in {"screen", "exit"} THEN 1 ELSE 0) <= calls + 1
    BY StateTypes, Facts, Bounds DEF IInv, Credits
  <2>3. Number(toUser', ToShow) = Number(toUser, ToShow)
    BY <1>2 DEF UserSame
  <2>. QED
    BY <1>1, <2>1, <2>2, <2>3 DEF Credits
<1>15. News'
  BY <1>1, NewsKept
<1>. QED
  BY <1>5, <1>9, <1>10, <1>11, <1>12, <1>13, <1>14, <1>15, GameClose

LEMMA EndKeeps ==
    ASSUME IInv, NEW x \in Processes, EndProcess(x)
    PROVE  IInv'
<1> DEFINE s0 == [state EXCEPT ![x] = "ended"]
           next == { q \in Processes : s0[q] = "Runnable" /\ group[q] = group[x] }
<1>1. PICK s : s = IF next = {} THEN Clean(s0) ELSE s0
  OBVIOUS
<1>2. /\ state[x] = "Running" /\ StartGroup(s, group[x])
      /\ UNCHANGED interrupt /\ UNCHANGED user
      /\ UNCHANGED <<user, interrupt, tasks, breaks, lastId>>
      /\ UNCHANGED <<user, interrupt, tasks, calls, breaks, lastId, m_stopSignal>>
      /\ group' = group /\ calling' = calling /\ m_stopSignal' = m_stopSignal /\ calls' = calls
      /\ tasks' = tasks /\ toScript' = toScript
  BY <1>1 DEF EndProcess, Runs, bounds, user, interrupt
<1>3. Ended(s, x)
  BY <1>1, StateTypes DEF Ended, States, Clean
<1>4. HasToken(x) /\ \A p \in Processes : state[p] = "Running" => p = x
  BY <1>2, AloneRunning
<1>5. Unheld(x) /\ Number(toScript, Uses(x)) = 0 /\ Number(toScript, HandsOf(x)) = 0
  BY <1>2, NotWaiting
<1>6. Active(state[x])
  BY <1>2 DEF Active
<1>7. /\ state' \in [Processes -> States] /\ m_waits' \in Seq(WaitsFor(Processes))
      /\ toUser' \in Seq(ToUser) /\ UserSame /\ KeepsOrder /\ Groups'
      /\ state'[x] # "Waiting" /\ state'[x] # "Running"
      /\ \A p \in Processes \ {x} : /\ state'[p] = "Waiting" <=> state[p] = "Waiting"
                                    /\ state[p] = "Waiting" => Keeps(p)
      /\ \A p, r \in Processes : state'[p] = "Running" /\ state'[r] = "Running" => p = r
      /\ \A p \in Processes : state'[p] = "Running" =>
           Waits(m_waits', TopControl, group[p]) /\ state[p] # "Waiting"
      /\ \A p \in Processes : state'[p] = "new" <=> state[p] = "new"
      /\ \A c \in Controls : Number(m_waits', WaitsOf(c)) + Number(toUser', {Complete(c)})
                               = Number(m_waits, WaitsOf(c)) + Number(toUser, {Complete(c)})
  BY <1>2, <1>3, <1>4, <1>6, GroupEnds
<1>8. Tokens' <= Tokens /\ \A p \in Processes : HasToken(p)' => state'[p] = "Running"
  BY <1>2, <1>7, RunTaken
<1>9. \A M : Number(toScript, M) \in Nat
  BY Facts
<1>10. GameTyped
  BY <1>2, <1>7, StateTypes DEF GameTyped
<1>11. About(x)
  <2>1. \A p \in Processes : HasToken(p)' =>
          /\ Waits(m_waits', TopControl, group'[p])
          /\ p # x /\ state[p] = "Waiting" => HasToken(p)
    BY <1>2, <1>7, <1>8
  <2>. QED
    BY <1>2, <1>5, <1>7, <1>8, <2>1 DEF About, Received
<1>12. Balance'
  BY <1>2, <1>7, BalanceMoved
<1>13. Handed'
  <2>1. ASSUME NEW p \in Processes
        PROVE  Number(toScript', HandsOf(p)) + (IF state[p] = "Waiting" THEN 1 ELSE 0)
                 = Number(toScript, HandsOf(p)) + (IF state'[p] = "Waiting" THEN 1 ELSE 0)
    <3>1. state'[p] = "Waiting" <=> state[p] = "Waiting"
      BY <1>2, <1>7
    <3>. QED
      BY <1>2, <3>1
  <2>. QED
    BY <1>2, <1>7, <1>9, <2>1, HandedKept
<1>14. Interrupts' /\ Credits'
  BY <1>2, <1>7, GameRest
<1>15. News'
  BY <1>2, <1>7, NewsKept
<1>. QED
  BY <1>7, <1>10, <1>11, <1>12, <1>13, <1>14, <1>15, GameClose
-----------------------------------------------------------------------------
(* The game is closed.                                                     *)
LEMMA NoToken ==
    ASSUME IInv, Tokens = 0
    PROVE  /\ NoneRunning(state) /\ m_interruptedProcesses = {}
           /\ Number(toUser, UserTokens) = 0 /\ Number(toScript, ScriptTokens) = 0
           /\ \A p \in Processes : /\ ~HasToken(p) /\ state[p] # "Running"
                                   /\ Number(toUser, AsksOf(p)) = 0
           /\ toScript # <<>> => Head(toScript) \notin ScriptTokens
<1>1. /\ Number(toUser, UserTokens) \in Nat /\ Number(toScript, ScriptTokens) \in Nat
      /\ \A p \in Processes : Number(toUser, AsksOf(p)) \in Nat /\ Number(toScript, ContinuesOf(p)) \in Nat
  BY Facts
<1>2. Running = 0 /\ Interrupted = 0 /\ Number(toUser, UserTokens) = 0 /\ Number(toScript, ScriptTokens) = 0
  BY <1>1, TokenParts DEF Tokens
<1>3. NoneRunning(state) /\ m_interruptedProcesses = {}
  BY <1>2, TokenParts
<1>4. \A p \in Processes : Number(toUser, AsksOf(p)) = 0 /\ Number(toScript, ContinuesOf(p)) = 0
  BY <1>1, <1>2, TokenParts
<1>5. \A p \in Processes : ~HasToken(p) /\ state[p] # "Running"
  BY <1>3, <1>4 DEF HasToken, NoneRunning
<1>6. ASSUME toScript # <<>>, Head(toScript) \in ScriptTokens PROVE FALSE
  BY <1>2, <1>6, AloneRequest
<1>. QED
  BY <1>2, <1>3, <1>4, <1>5, <1>6

\* The process that play() left is the only one that waits.
LEMMA ResetFacts ==
    ASSUME SInv, Receives("reset")
    PROVE  /\ Request.link \in Processes \cup {None} /\ Request = Reset(Request.link)
           /\ toScript' = <<>> /\ Tokens = 0
           /\ Len(loops) = 1 /\ loops[1].loop = "null"
           /\ \A p \in Processes : state[p] = "Waiting" <=> p = Request.link
<1>0. IInv /\ Resetting
  BY DEF SInv
<1>1. /\ Request \in ToScript /\ Request = Head(toScript) /\ Request.op = "reset"
      /\ toScript # <<>> /\ toScript' = Tail(toScript)
      /\ \A M : /\ Number(toScript, M) \in Nat /\ Number(toScript', M) \in Nat
                /\ Number(toScript, M) = Number(toScript', M) + IF Request \in M THEN 1 ELSE 0
  BY <1>0, Receiving
<1>2. Request.link \in Processes \cup {None} /\ Request = Reset(Request.link)
  BY <1>1, ScriptForms
<1>3. toScript \in Seq(ToScript) /\ loops \in Seq(Frames) /\ Len(loops) \in Nat
  BY <1>0, Facts
<1>4. 1 \in DOMAIN toScript /\ toScript[1].op = "reset"
  BY <1>1, <1>3
<1>5. /\ 1 = Len(toScript) /\ Len(loops) = 1 /\ loops[1].loop = "null" /\ loops[1].link = None
      /\ Tokens = 0
  BY <1>0, <1>4 DEF Resetting
<1>6. toScript' = <<>>
  BY <1>1, <1>3, <1>5
<1>7. /\ DOMAIN loops = {1} /\ 1 \in Owns(loops) /\ Owns(loops) = {1}
  BY <1>3, <1>5 DEF Owns, IsOwn
<1>8. m_outputState[loops[1].id].link = None
  <2>1. loops[1].id \in Controls
    BY <1>0, <1>7, Facts DEF ControlsIn
  <2>2. CASE loops[1].id \in ended
    BY <1>0, <1>5, <1>7, <2>2 DEF IInv, Outputs, Output
  <2>3. CASE loops[1].id \notin ended
    BY <1>0, <2>1, <2>3 DEF IInv, Outputs, NoOutput
  <2>. QED
    BY <2>2, <2>3
<1>9. ASSUME NEW p \in Processes
      PROVE  state[p] = "Waiting" <=> p = Request.link
  <2> DEFINE u == Number(toUser, AsksOf(p))
             s == Number(toScript, HandsOf(p))
             f == Number(loops, FramesOf(p))
             o == Ending(ControlsIn(loops), m_outputState, p)
             i == IF p \in m_interruptedProcesses THEN 1 ELSE 0
  <2>1. /\ u \in Nat /\ s \in Nat /\ f \in Nat /\ o \in Nat
        /\ u + s + f + o + i = IF state[p] = "Waiting" THEN 1 ELSE 0
        /\ f = 0 <=> \A j \in DOMAIN loops : loops[j].link # p
        /\ o = 0 <=> \A j \in Owns(loops) : m_outputState[loops[j].id].link # p
    BY <1>0, InHand
  <2>2. p # None
    BY Bounds
  <2>3. u = 0 /\ i = 0
    BY <1>0, <1>5, NoToken
  <2>4. f = 0
    BY <1>5, <1>7, <2>1, <2>2
  <2>5. o = 0
    BY <1>7, <1>8, <2>1, <2>2
  <2>6. Request \in HandsOf(p) <=> p = Request.link
    BY <1>2, ResetClass
  <2>7. Number(toScript', HandsOf(p)) = 0
    BY <1>6, NumberEmpty
  <2>8. s = IF p = Request.link THEN 1 ELSE 0
    BY <1>1, <2>6, <2>7
  <2> HIDE DEF u, s, f, o, i
  <2>. QED
    BY <2>1, <2>3, <2>4, <2>5, <2>8
<1>. QED
  BY <1>2, <1>5, <1>6, <1>9

LEMMA ResetGameKeeps ==
    ASSUME SInv, ResetGame
    PROVE  IInv'
<1>0. IInv
  BY DEF SInv
<1>00. PICK x : x = Request.link
  OBVIOUS
<1>1. /\ Receives("reset")
      /\ state' = [p \in Processes |-> IF Alive(p) THEN "gone" ELSE state[p]]
      /\ UNCHANGED interrupt /\ UNCHANGED user
      /\ UNCHANGED <<user, interrupt, tasks, breaks, lastId>>
      /\ UNCHANGED <<user, interrupt, tasks, calls, breaks, lastId, m_stopSignal>>
      /\ group' = group /\ calling' = calling /\ m_stopSignal' = m_stopSignal /\ calls' = calls
      /\ tasks' = tasks /\ toUser' = toUser /\ m_waits' = m_waits
      /\ m_interruptedProcesses' = m_interruptedProcesses
  BY DEF ResetGame, bounds, user, interrupt
<1>2. /\ x \in Processes \cup {None} /\ Request = Reset(x)
      /\ toScript' = <<>> /\ Tokens = 0
      /\ Len(loops) = 1 /\ loops[1].loop = "null"
      /\ \A p \in Processes : state[p] = "Waiting" <=> p = x
  BY <1>00, <1>1, ResetFacts
<1>3. /\ Request = Head(toScript) /\ toScript # <<>> /\ Received /\ toScript' \in Seq(ToScript)
      /\ \A M : /\ Number(toScript, M) \in Nat /\ Number(toScript', M) \in Nat
                /\ Number(toScript, M) = Number(toScript', M) + IF Request \in M THEN 1 ELSE 0
      /\ \A M : Number(toScript', M) = 0
  BY <1>0, <1>1, <1>2, Receiving, NumberEmpty
<1>4. /\ Request \notin ConfirmRequest
      /\ \A d \in Controls : Request \notin ForTask(d)
      /\ \A d \in Controls, p \in Processes : Request # ContinueWait(d, p)
      /\ \A p \in Processes : Request \in HandsOf(p) <=> p = x
  BY <1>2, ResetClass
<1>5. /\ state \in [Processes -> States] /\ state' \in [Processes -> States]
      /\ \A p \in Processes : /\ state'[p] = "new" \/ state'[p] = "gone"
                              /\ state'[p] = "new" <=> state[p] = "new"
  BY <1>0, <1>1, StateTypes DEF States, Alive
<1>6. NoneRunning(state') /\ \A p \in Processes : ~Active(state'[p])
  BY <1>5 DEF NoneRunning, Active
<1>7. /\ m_interruptedProcesses = {} /\ Number(toUser, UserTokens) = 0
      /\ \A p \in Processes : Number(toUser, AsksOf(p)) = 0
  BY <1>0, <1>2, NoToken
<1>8. Tokens' <= Tokens
  <2>1. Running' = 0 /\ Interrupted' = 0
    BY <1>1, <1>6, <1>7 DEF Running, Interrupted
  <2>2. Number(toUser', UserTokens) = 0 /\ Number(toScript', ScriptTokens) = 0
    BY <1>1, <1>3, <1>7
  <2>3. Tokens' = 0
    BY <2>1, <2>2 DEF Tokens
  <2>. QED
    BY <1>2, <2>3
<1>9. \A p \in Processes : ~HasToken(p)'
  BY <1>1, <1>3, <1>5, <1>7 DEF HasToken
<1>10. toUser' \in Seq(ToUser) /\ UserSame /\ \A a, b : Precedes(toUser, a, b) => Precedes(toUser', a, b)
  BY <1>0, <1>1, UserSameWhen
<1>11. KeepsOrder
  BY <1>0, <1>1, <1>10, KeepsOrderWhen
<1>12. GameTyped
  BY <1>0, <1>1, <1>5, <1>10, StateTypes DEF GameTyped
<1>13. x \in Processes => Unheld(x)
  <2>1. \A i \in DOMAIN loops : i = 1 /\ loops[i].loop = "null"
    BY <1>0, <1>2, Facts
  <2>. QED
    BY <2>1 DEF Unheld, Owns
<1>14. About(x)
  <2>1. \A p \in Processes \ {x} : state[p] = "Waiting" => state'[p] = "Waiting" /\ Keeps(p)
    BY <1>2
  <2>2. x \in Processes =>
          /\ Unheld(x) /\ Number(toScript', Uses(x)) = 0 /\ Number(toScript', HandsOf(x)) = 0
    BY <1>3, <1>13
  <2>3. \A k \in Controls, p \in Processes : Head(toScript) # ContinueWait(k, p)
    BY <1>3, <1>4
  <2>4. \A p, r \in Processes : ~(state'[p] = "Running" /\ state'[r] = "Running")
    BY <1>5
  <2>. QED
    BY <1>1, <1>3, <1>8, <1>9, <1>11, <2>1, <2>2, <2>3, <2>4 DEF About
<1>15. Balance'
  BY <1>0, <1>1, <1>3, <1>4, BalanceKept
<1>16. Handed'
  <2>1. ASSUME NEW p \in Processes
        PROVE  Number(toScript', HandsOf(p)) + (IF state[p] = "Waiting" THEN 1 ELSE 0)
                 = Number(toScript, HandsOf(p)) + (IF state'[p] = "Waiting" THEN 1 ELSE 0)
    <3>1. Number(toScript', HandsOf(p)) = 0
      BY <1>3
    <3>2. Number(toScript, HandsOf(p)) = IF p = x THEN 1 ELSE 0
      BY <1>3, <1>4, <3>1
    <3>3. state'[p] # "Waiting"
      BY <1>5
    <3>. QED
      BY <1>2, <3>1, <3>2, <3>3
  <2>. QED
    BY <1>0, <1>1, <1>3, <1>10, <2>1, HandedKept
<1>17. Groups'
  BY <1>0, <1>1, <1>5, <1>6 DEF IInv, Groups
<1>18. Interrupts' /\ Credits'
  BY <1>0, <1>1, <1>3, <1>4, <1>10, GameRest
<1>19. News'
  BY <1>0, <1>1, NewsKept
<1>. QED
  BY <1>0, <1>2, <1>12, <1>14, <1>15, <1>16, <1>17, <1>18, <1>19, GameClose

\* What the game thread still has to do before reset() makes no process run.
LEMMA GameResets ==
    ASSUME SInv, GameThread
    PROVE  Resetting'
<1>0. IInv /\ Resetting
  BY DEF SInv
<1>1. /\ toScript' = toScript \/ (toScript # <<>> /\ toScript' = Tail(toScript))
      /\ loops' = loops /\ m_interruptedProcesses' = m_interruptedProcesses
  <2>1. UNCHANGED <<user, interrupt>>
    BY DEF GameThread, ExecuteTaskWait, ContinueProcessWait, ContinueProcess, ContinueWithFailure,
           JoinProcess, DetachProcess, TerminateProcessAndGroup, ConfirmInterrupt, ResetGame,
           CheckProcess, EndProcess, Call, PostNewTask
  <2>2. toScript' = toScript \/ (toScript # <<>> /\ toScript' = Tail(toScript))
    BY DEF GameThread, ExecuteTaskWait, ContinueProcessWait, ContinueProcess, ContinueWithFailure,
           JoinProcess, DetachProcess, TerminateProcessAndGroup, ConfirmInterrupt, ResetGame,
           CheckProcess, EndProcess, Call, PostNewTask, Receives
  <2>. QED
    BY <2>1, <2>2 DEF user, interrupt
<1>2. toScript \in Seq(ToScript)
  BY <1>0, Facts
<1>3. ASSUME NEW i \in DOMAIN toScript', toScript'[i].op = "reset"
      PROVE  \E j \in DOMAIN toScript : /\ toScript[j].op = "reset"
                                        /\ j = Len(toScript) => i = Len(toScript')
  <2>1. CASE toScript' = toScript
    BY <1>3, <2>1
  <2>2. CASE toScript # <<>> /\ toScript' = Tail(toScript)
    <3>1. Len(toScript') = Len(toScript) - 1 /\ toScript'[i] = toScript[i+1] /\ i + 1 \in DOMAIN toScript
      BY <1>2, <1>3, <2>2
    <3>. QED
      BY <1>2, <1>3, <3>1
  <2>. QED
    BY <1>1, <2>1, <2>2
<1>4. ASSUME NEW j \in DOMAIN toScript, toScript[j].op = "reset"
      PROVE  Tokens' = 0
  <2>1. Tokens = 0
    BY <1>0, <1>4 DEF Resetting
  <2>2. /\ NoneRunning(state) /\ m_interruptedProcesses = {}
        /\ Number(toUser, UserTokens) = 0 /\ Number(toScript, ScriptTokens) = 0
        /\ \A p \in Processes : state[p] # "Running"
        /\ toScript # <<>> => Head(toScript) \notin ScriptTokens
    BY <1>0, <2>1, NoToken
  <2>3. Number(toScript', ScriptTokens) = 0
    <3>1. CASE toScript' = toScript
      BY <2>2, <3>1
    <3>2. CASE toScript # <<>> /\ toScript' = Tail(toScript)
      <4>1. /\ Number(toScript, ScriptTokens) \in Nat /\ Number(Tail(toScript), ScriptTokens) \in Nat
            /\ Number(toScript, ScriptTokens) = Number(Tail(toScript), ScriptTokens)
                 + IF Head(toScript) \in ScriptTokens THEN 1 ELSE 0
        BY <1>2, <3>2, Taken
      <4>. QED
        BY <2>2, <3>2, <4>1
    <3>. QED
      BY <1>1, <3>1, <3>2
  <2>4. ASSUME NEW op, Receives(op)
        PROVE  Request \in ToScript /\ Request.op = op /\ Request \notin ScriptTokens
    BY <1>0, <2>2, <2>4, Receiving
  <2>5. ~ExecuteTaskWait /\ ~ContinueProcessWait /\ ~ContinueWithFailure /\ ~TerminateProcessAndGroup
    <3>1. \A c \in Controls : Execute(c) \in ScriptTokens
      BY ExecuteClass
    <3>2. \A c \in Controls, p \in Processes : ContinueWait(c, p) \in ScriptTokens
      BY ContinueWaitClass
    <3>3. \A op \in Continues, p \in Processes : To(op, p) \in ScriptTokens
      BY ContinueClass
    <3>4. ~ExecuteTaskWait
      BY <2>4, <3>1, ScriptForms DEF ExecuteTaskWait
    <3>5. ~ContinueProcessWait
      BY <2>4, <3>2, ScriptForms DEF ContinueProcessWait
    <3>6. ~ContinueWithFailure
      BY <2>4, <3>3, ScriptForms DEF ContinueWithFailure, Continues
    <3>7. ~TerminateProcessAndGroup
      BY <2>4, <3>3, ScriptForms DEF TerminateProcessAndGroup, Continues
    <3>. QED
      BY <3>4, <3>5, <3>6, <3>7
  <2>6. ContinueProcess => state' = state /\ toUser' = toUser
    <3>1. \A p \in Processes : To("continueProcess", p) \in ScriptTokens
      BY ContinueClass DEF Continues
    <3>2. ContinueProcess => Request.link \notin Processes
      BY <2>4, <3>1, ScriptForms DEF ContinueProcess
    <3>. QED
      BY <3>2 DEF ContinueProcess, Alive
  <2>7. \A p \in Processes : /\ ~CheckProcess(p) /\ ~EndProcess(p) /\ ~Call(p)
                             /\ \A callout \in Callouts : ~PostNewTask(p, callout)
    BY <2>2 DEF Runs, CheckProcess, EndProcess, Call, PostNewTask
  <2>8. NoneRunning(state')
    <3>1. JoinProcess => NoneRunning(state')
      <4>1. state \in [Processes -> States]
        BY <1>0, StateTypes
      <4>. QED
        BY <2>2, <4>1 DEF JoinProcess, NoneRunning
    <3>2. DetachProcess => state' = state
      BY DEF DetachProcess
    <3>3. ConfirmInterrupt => state' = state
      BY DEF ConfirmInterrupt, script
    <3>4. ResetGame => NoneRunning(state')
      BY <2>2 DEF ResetGame, NoneRunning
    <3>. QED
      BY <2>2, <2>5, <2>6, <2>7, <3>1, <3>2, <3>3, <3>4 DEF GameThread
  <2>9. Number(toUser', UserTokens) = 0
    <3>0. group \in [Processes -> Processes]
      BY <1>0, StateTypes
    <3>1. JoinProcess => toUser' = toUser \/ \E g \in Processes : CompleteWaits(g)
      BY <3>0 DEF JoinProcess, Alive
    <3>2. DetachProcess => toUser' = toUser \/ \E g \in Processes : CompleteWaits(g)
      BY <3>0 DEF DetachProcess, Alive
    <3>3. (toUser' = toUser \/ \E g \in Processes : CompleteWaits(g)) => UserSame
      BY <1>0, UserSameWhen
    <3>4. ConfirmInterrupt => Number(toUser', UserTokens) = 0
      <4>1. [op |-> "onInterruptConfirm"] \in ToUser /\ [op |-> "onInterruptConfirm"] \notin UserTokens
        BY AnswerClass
      <4>2. \A M : Number(Append(toUser, [op |-> "onInterruptConfirm"]), M)
                     = Number(toUser, M) + IF [op |-> "onInterruptConfirm"] \in M THEN 1 ELSE 0
        BY <1>0, <4>1, Facts, SentOne
      <4>. QED
        BY <2>2, <4>1, <4>2 DEF ConfirmInterrupt
    <3>5. ResetGame => toUser' = toUser
      BY DEF ResetGame
    <3>6. UserSame => Number(toUser', UserTokens) = 0
      BY <2>2 DEF UserSame
    <3>. QED
      BY <2>2, <2>5, <2>6, <2>7, <3>1, <3>2, <3>3, <3>4, <3>5, <3>6 DEF GameThread
  <2>. QED
    BY <1>1, <2>2, <2>3, <2>8, <2>9 DEF Tokens, Running, Interrupted
<1>. QED
  BY <1>0, <1>1, <1>3, <1>4 DEF Resetting
=============================================================================
