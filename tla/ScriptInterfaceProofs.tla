------------------------- MODULE ScriptInterfaceProofs -------------------------
(***************************************************************************)
(* Proofs about ScriptInterface, second part: the steps of the user        *)
(* interface thread, Controls opened and left among them, preserve the     *)
(* inductive invariant of ScriptSideProofs; so it holds, and with it the   *)
(* properties.                                                             *)
(***************************************************************************)
EXTENDS ScriptSideProofs

-----------------------------------------------------------------------------
(* The user interface thread.                                              *)

ScriptSame == state' = state /\ group' = group /\ m_waits' = m_waits /\ calls' = calls
OutputTypes == [link : Processes \cup {None}, target : Targets \cup {"none", "end", "console", "key"}]
UserTyped ==
    /\ toScript' \in Seq(ToScript) /\ toUser' \in Seq(ToUser)
    /\ loops' \in Seq(Frames) /\ loops' # <<>>
    /\ m_stopped' \subseteq Controls /\ ended' \subseteq Controls
    /\ m_outputState' \in [Controls -> OutputTypes]
    /\ m_interruptedProcesses' \subseteq Processes /\ lastId' \in Controls
    /\ calling' \in BOOLEAN /\ m_stopSignal' \in BOOLEAN /\ m_interrupting' \in BOOLEAN
    /\ tasks' \in Nat /\ breaks' \in Nat

LEMMA UserClose ==
    ASSUME IInv, ScriptSame, UserTyped,
           Balance', Handed', OneToken', Attached', Stack', Outputs', Dialogs', Keymaps',
           Users', Later', Detaches', Interrupts', Credits', News'
    PROVE  IInv'
<1>1. Head(loops').loop \in {"screen", "null"}
  <2>1. Stacked(loops', m_stopped', lastId') /\ lastId' \in Nat
    BY Bounds DEF Stack, UserTyped
  <2>. QED
    BY <2>1, Screens DEF UserTyped
<1>2. TypeOK'
  <2>1. tasks' <= MaxTasks
    BY DEF News
  <2>. QED
    BY <1>1, <2>1, Facts DEF TypeOK, ScriptSame, UserTyped, OutputTypes
<1>3. OneEndPerWait' /\ OneHand'
  BY <1>2, BalanceIs, HandedIs
<1>4. Groups'
  BY DEF IInv, Groups, ScriptSame
<1>. QED
  BY <1>3, <1>4 DEF IInv

\* What is unchanged has its type.
LEMMA UserTypes ==
    ASSUME IInv
    PROVE  /\ toScript \in Seq(ToScript) /\ toUser \in Seq(ToUser)
           /\ loops \in Seq(Frames) /\ loops # <<>>
           /\ m_stopped \subseteq Controls /\ ended \subseteq Controls
           /\ m_outputState \in [Controls -> OutputTypes]
           /\ m_interruptedProcesses \subseteq Processes /\ lastId \in Controls
           /\ calling \in BOOLEAN /\ m_stopSignal \in BOOLEAN /\ m_interrupting \in BOOLEAN
           /\ tasks \in Nat /\ breaks \in Nat
  BY Facts DEF TypeOK, OutputTypes

\* A list of two
LEMMA Pairs == \A x, y : Append(<<x>>, y) = <<x, y>> /\ <<x>> \o <<y>> = <<x, y>>
<1> SUFFICES ASSUME NEW x, NEW y
             PROVE  Append(<<x>>, y) = <<x, y>> /\ <<x>> \o <<y>> = <<x, y>>
  OBVIOUS
<1> DEFINE S == {x, y}
           s == Append(<<x>>, y)
           t == <<x, y>>
<1>0. <<x>> \in Seq(S) /\ y \in S
  OBVIOUS
<1>1. s \in Seq(S) /\ Len(s) = 2 /\ s[1] = x /\ s[2] = y
  BY <1>0
<1>2. t \in Seq(S) /\ Len(t) = 2 /\ t[1] = x /\ t[2] = y
  OBVIOUS
<1>3. \A i \in 1..2 : i = 1 \/ i = 2
  OBVIOUS
<1> HIDE DEF S, s, t
<1>4. Len(s) = Len(t) /\ \A i \in 1..Len(s) : s[i] = t[i]
  BY <1>1, <1>2, <1>3
<1>5. s = t
  BY <1>1, <1>2, <1>4, SeqEqual
<1>6. Append(<<x>>, y) = <<x>> \o <<y>>
  BY <1>0, AppendIsConcat
<1>. QED
  BY <1>5, <1>6 DEF s, t

\* No request, one or two
LEMMA Messages ==
    /\ <<>> \in Seq(ToScript) /\ \A M : Number(<<>>, M) = 0
    /\ \A x : /\ \A M : Number(<<x>>, M) = IF x \in M THEN 1 ELSE 0
              /\ x \in ToScript => <<x>> \in Seq(ToScript)
    /\ \A x, y \in ToScript :
         /\ <<x, y>> \in Seq(ToScript)
         /\ \A M : Number(<<x, y>>, M) = (IF x \in M THEN 1 ELSE 0) + (IF y \in M THEN 1 ELSE 0)
         /\ \A A, B : ~(y \in A /\ (x \in B \/ y \in B)) /\ ~(x \in A /\ x \in B) => AllBefore(<<x, y>>, A, B)
<1>1. <<>> \in Seq(ToScript) /\ \A M : Number(<<>>, M) = 0
  BY NumberEmpty
<1>2. \A x : /\ \A M : Number(<<x>>, M) = IF x \in M THEN 1 ELSE 0
             /\ x \in ToScript => <<x>> \in Seq(ToScript)
  BY NumberOne
<1>3. ASSUME NEW x \in ToScript, NEW y \in ToScript
      PROVE  /\ <<x, y>> \in Seq(ToScript)
             /\ \A M : Number(<<x, y>>, M) = (IF x \in M THEN 1 ELSE 0) + (IF y \in M THEN 1 ELSE 0)
             /\ \A A, B : ~(y \in A /\ (x \in B \/ y \in B)) /\ ~(x \in A /\ x \in B) => AllBefore(<<x, y>>, A, B)
  <2>0. <<x>> \in Seq(ToScript) /\ <<x, y>> \in Seq(ToScript)
    OBVIOUS
  <2>9. Append(<<x>>, y) = <<x, y>>
    BY Pairs
  <2>1. <<x>> \in Seq(ToScript) /\ Append(<<x>>, y) = <<x, y>>
    BY <2>0, <2>9
  <2>2. \A M : Number(Append(<<x>>, y), M) = Number(<<x>>, M) + IF y \in M THEN 1 ELSE 0
    BY <2>1, NumberAppend
  <2>3. \A M : Number(<<x, y>>, M) = (IF x \in M THEN 1 ELSE 0) + (IF y \in M THEN 1 ELSE 0)
    BY <1>2, <2>1, <2>2
  <2>4. \A A, B : ~(y \in A /\ (x \in B \/ y \in B)) /\ ~(x \in A /\ x \in B) => AllBefore(<<x, y>>, A, B)
    BY DEF AllBefore
  <2>. QED
    BY <2>1, <2>3, <2>4
<1>. QED
  BY <1>1, <1>2, <1>3

\* Requests are sent to the game thread.
LEMMA Sent ==
    ASSUME IInv, NEW ms \in Seq(ToScript), Send(ms)
    PROVE  /\ toScript' \in Seq(ToScript)
           /\ \A M : /\ Number(toScript, M) \in Nat /\ Number(toScript', M) \in Nat /\ Number(ms, M) \in Nat
                     /\ Number(toScript', M) = Number(toScript, M) + Number(ms, M)
<1>1. toScript \in Seq(ToScript) /\ toScript' = toScript \o ms
  BY Facts DEF Send
<1>2. toScript' \in Seq(ToScript)
  BY <1>1
<1>3. \A M : Number(toScript \o ms, M) = Number(toScript, M) + Number(ms, M)
  BY <1>1, NumberConcat
<1>4. /\ \A M : Number(toScript, M) \in Nat
      /\ \A M : Number(toScript', M) \in Nat
      /\ \A M : Number(ms, M) \in Nat
  BY <1>1, <1>2, NumberType
<1>. QED
  BY <1>1, <1>2, <1>3, <1>4

\* A process that is detached or joined waits, and is continued later.
LEMMA SentUses ==
    ASSUME IInv, ScriptSame, NEW ms \in Seq(ToScript), Send(ms),
           \A p \in Processes :
             \/ Number(ms, Uses(p)) = 0
             \/ /\ state[p] = "Waiting" /\ Number(toScript, HandsOf(p)) = 0
                /\ AllBefore(ms, Uses(p), HandsOf(p))
    PROVE  Users' /\ Later'
<1>1. /\ \A M : /\ Number(toScript, M) \in Nat /\ Number(ms, M) \in Nat
                /\ Number(toScript', M) = Number(toScript, M) + Number(ms, M)
      /\ toScript \in Seq(ToScript) /\ toScript' = toScript \o ms
  BY Sent, Facts DEF Send
<1>2. ASSUME NEW p \in Processes, Number(toScript', Uses(p)) > 0 PROVE state'[p] = "Waiting"
  <2>1. Number(toScript, Uses(p)) > 0 \/ Number(ms, Uses(p)) # 0
    BY <1>1, <1>2
  <2>. QED
    BY <2>1 DEF IInv, Users, ScriptSame
<1>3. ASSUME NEW p \in Processes PROVE AllBefore(toScript', Uses(p), HandsOf(p))
  <2>1. AllBefore(toScript, Uses(p), HandsOf(p))
    BY DEF IInv, Later
  <2>2. AllBefore(ms, Uses(p), HandsOf(p))
    <3>1. CASE Number(ms, Uses(p)) = 0
      <4>1. \A i \in DOMAIN ms : ms[i] \notin Uses(p)
        BY <3>1, NumberType
      <4>. QED
        BY <4>1 DEF AllBefore
    <3>. QED
      BY <3>1
  <2>3. AllBefore(toScript \o ms, Uses(p), HandsOf(p))
    BY <1>1, <2>1, <2>2, BeforeConcat
  <2>. QED
    BY <1>1, <2>3
<1>. QED
  BY <1>2, <1>3 DEF Users, Later

\* The parent's wait still ends first.
LEMMA SentFirst ==
    ASSUME IInv, ScriptSame, NEW ms \in Seq(ToScript), Send(ms),
           \A p \in Processes : Number(ms, {Detach(p)}) = 0 \/ Number(toScript, HandsOf(p)) = 0,
           NEW c \in Controls, NEW k \in Controls, ParentFirst(c, k),
           c \in m_stopped => c \in m_stopped',
           Precedes(toUser, Complete(c), Complete(k)) =>
             Precedes(toUser', Complete(c), Complete(k)) \/ c \in m_stopped'
    PROVE  ParentFirst(c, k)'
<1>1. \A M : /\ Number(toScript, M) \in Nat /\ Number(ms, M) \in Nat
             /\ Number(toScript', M) = Number(toScript, M) + Number(ms, M)
  BY Sent
<1>2. CASE \E p \in Processes : /\ Number(toScript, {ContinueWait(k, p)}) > 0
                                /\ Number(toScript, {Detach(p)}) = 0
                                /\ Waits(m_waits, c, group[p])
  <2>1. PICK p \in Processes : /\ Number(toScript, {ContinueWait(k, p)}) > 0
                               /\ Number(toScript, {Detach(p)}) = 0
                               /\ Waits(m_waits, c, group[p])
    BY <1>2
  <2>2. Number(toScript, {ContinueWait(k, p)}) <= Number(toScript, HandsOf(p))
    <3>1. {ContinueWait(k, p)} \subseteq HandsOf(p)
      BY ContinueWaitClass
    <3>. QED
      BY <3>1, Facts, NumberPart
  <2>3. Number(ms, {Detach(p)}) = 0
    BY <1>1, <2>1, <2>2
  <2>4. Number(toScript', {ContinueWait(k, p)}) > 0 /\ Number(toScript', {Detach(p)}) = 0
    BY <1>1, <2>1, <2>3
  <2>5. Waits(m_waits', c, group'[p])
    BY <2>1 DEF ScriptSame
  <2>. QED
    BY <2>4, <2>5 DEF ParentFirst
<1>3. CASE \E g \in Processes : Precedes(m_waits, WaitEntry(c, g), WaitEntry(k, g))
  BY <1>3 DEF ParentFirst, ScriptSame
<1>4. CASE c \in m_stopped \/ Precedes(toUser, Complete(c), Complete(k))
  BY <1>4 DEF ParentFirst
<1>. QED
  BY <1>2, <1>3, <1>4 DEF ParentFirst

\* A request to the user interface is taken.
LEMMA Handling ==
    ASSUME IInv, NEW op, Handles(op)
    PROVE  /\ ~Stops /\ toUser # <<>> /\ Head(toUser) \in ToUser /\ Head(toUser).op = op
           /\ toUser' = Tail(toUser) /\ toUser' \in Seq(ToUser)
           /\ \A M : /\ Number(toUser, M) \in Nat /\ Number(toUser', M) \in Nat
                     /\ Number(toUser, M) = Number(toUser', M) + IF Head(toUser) \in M THEN 1 ELSE 0
           /\ \A A, B : Followed(toUser, A, B) => Followed(toUser', A, B)
           /\ \A x, y : Precedes(toUser, x, y) /\ Head(toUser) # x => Precedes(toUser', x, y)
<1>1. /\ ~Stops /\ toUser # <<>> /\ Head(toUser).op = op /\ toUser' = Tail(toUser)
      /\ toUser \in Seq(ToUser)
  BY Facts DEF Handles
<1>2. /\ Head(toUser) \in ToUser /\ Tail(toUser) \in Seq(ToUser)
      /\ \A M : /\ Number(toUser, M) \in Nat /\ Number(Tail(toUser), M) \in Nat
                /\ Number(toUser, M) = Number(Tail(toUser), M) + IF Head(toUser) \in M THEN 1 ELSE 0
  BY <1>1, Taken
<1>3. \A A, B : Followed(toUser, A, B) => Followed(Tail(toUser), A, B)
  BY <1>1, Taken
<1>4. ASSUME NEW x, NEW y, Precedes(toUser, x, y), Head(toUser) # x PROVE Precedes(Tail(toUser), x, y)
  BY <1>1, <1>4, PrecedesTail
<1>. QED
  BY <1>1, <1>2, <1>3, <1>4

\* The event loops, and the innermost Control
LEMMA TopFacts ==
    ASSUME IInv
    PROVE  /\ TopControl = Innermost(loops) /\ TopControl \in Controls /\ TopControl \in ControlsIn(loops)
           /\ At(loops) \in Owns(loops) /\ loops[At(loops)].id = TopControl
           /\ \A i \in Owns(loops) : loops[i].id = TopControl => i = At(loops)
           /\ \A i \in Owns(loops) : loops[i].id \in Controls /\ loops[i].id <= lastId
           /\ \A i \in Owns(loops) : i \in DOMAIN loops /\ Kind(loops, loops[i].id) = loops[i].loop
           /\ Kind(loops, TopControl) = loops[At(loops)].loop
           /\ Idle(loops) \/ Once(loops) \/ Asking(loops) \/ (Twice(loops) /\ TopControl \in m_stopped)
           /\ Idle(loops) <=> IsOwn(Top)
           /\ Idle(loops) => Top.id = TopControl /\ Top = loops[Len(loops)] /\ At(loops) = Len(loops)
           /\ Top = loops[Len(loops)] /\ Len(loops) \in DOMAIN loops
<1>1. /\ loops \in Seq(Frames) /\ loops # <<>> /\ Stacked(loops, m_stopped, lastId) /\ Ids(loops, lastId)
      /\ lastId \in Nat /\ ControlsIn(loops) \subseteq Controls
      /\ DOMAIN loops = 1..Len(loops) /\ Len(loops) \in Nat
  BY Facts
<1>2. TopControl = Innermost(loops)
  BY TopControlIs
<1>3. /\ At(loops) \in Owns(loops)
      /\ Innermost(loops) \in ControlsIn(loops)
      /\ Idle(loops) \/ Once(loops) \/ Asking(loops) \/ (Twice(loops) /\ Innermost(loops) \in m_stopped)
      /\ Idle(loops) <=> IsOwn(Last(loops))
  BY <1>1, TopIs
<1>4. /\ \A i, j \in Owns(loops) : loops[i].id = loops[j].id => i = j
      /\ \A i \in Owns(loops) : Kind(loops, loops[i].id) = loops[i].loop
  BY <1>1, UniqueIds
<1>5. loops[At(loops)].id = TopControl
  BY <1>2 DEF Innermost
<1>6. Last(loops) = loops[Len(loops)] /\ Len(loops) \in DOMAIN loops
  BY <1>1, FrontLast
<1>7. Idle(loops) => Top.id = TopControl /\ Top = loops[Len(loops)] /\ At(loops) = Len(loops)
  BY <1>5, <1>6 DEF Idle, Top
<1>8. \A i \in Owns(loops) : i \in DOMAIN loops /\ loops[i].id \in Controls /\ loops[i].id <= lastId
  BY <1>1 DEF Owns, ControlsIn, Ids
<1>. QED
  BY <1>1, <1>2, <1>3, <1>4, <1>5, <1>6, <1>7, <1>8 DEF Top

\* Who waits for a group is in an event loop for that.
LEMMA WaitsInLoop ==
    ASSUME IInv, NEW c \in Controls
    PROVE  /\ Number(toScript, ForTask(c)) <= Number(loops, {Wait(c)})
           /\ Number(m_waits, WaitsOf(c)) <= Number(loops, {Wait(c)})
           /\ Number(toUser, {Complete(c)}) <= Number(loops, {Wait(c)})
           /\ c \in m_stopped => Number(loops, {Wait(c)}) >= 1
           /\ \A g \in Processes : Waits(m_waits, c, g) => Number(loops, {Wait(c)}) >= 1
<1>1. /\ Number(toScript, ForTask(c)) \in Nat /\ Number(m_waits, WaitsOf(c)) \in Nat
      /\ Number(toUser, {Complete(c)}) \in Nat /\ Number(loops, {Wait(c)}) \in Nat
  BY Facts
<1>2. Number(loops, {Wait(c)}) = Number(toScript, ForTask(c)) + Number(m_waits, WaitsOf(c))
                                   + Number(toUser, {Complete(c)}) + (IF c \in m_stopped THEN 1 ELSE 0)
  BY Facts DEF Balance, EndsSum
<1>3. ASSUME NEW g \in Processes, Waits(m_waits, c, g) PROVE Number(m_waits, WaitsOf(c)) >= 1
  <2>1. Has(m_waits, WaitEntry(c, g)) /\ WaitEntry(c, g) \in WaitsOf(c)
    BY <1>3, WaitEntries DEF Waits
  <2>. QED
    BY <2>1, Facts, HasNumber
<1>. QED
  BY <1>1, <1>2, <1>3

\* When no script was started or continued for the innermost Control, nothing is on its way,
\* and no process runs.
LEMMA NobodyWaits ==
    ASSUME IInv, Number(toScript, ForTask(TopControl)) = 0,
           \A g \in Processes : ~Waits(m_waits, TopControl, g)
    PROVE  /\ NoneRunning(state) /\ m_interruptedProcesses = {}
           /\ Number(toUser, UserTokens) = 0 /\ Number(toScript, ScriptTokens) = 0
           /\ \A p \in Processes : Number(toUser, AsksOf(p)) = 0 /\ Number(toScript, ContinuesOf(p)) = 0
           /\ \A p \in Processes : ~HasToken(p)
           /\ \A c \in Controls : Number(toScript, ForTask(c)) = 0
<1>1. /\ TopControl \in Controls
      /\ \A M : Number(toUser, M) \in Nat /\ Number(toScript, M) \in Nat
  BY TopFacts, Facts
<1>3. Number(toScript, ForTask(TopControl)) = 0 /\ \A g \in Processes : ~Waits(m_waits, TopControl, g)
  OBVIOUS
<1>4. \A c \in Controls : Number(toScript, ForTask(c)) = 0
  BY <1>1, <1>3 DEF IInv, Attached
<1>5. \A p \in Processes : ~HasToken(p)
  BY <1>3, StateTypes DEF IInv, Attached
<1>6. \A p \in Processes : Number(toUser, AsksOf(p)) = 0 /\ Number(toScript, ContinuesOf(p)) = 0
  BY <1>1, <1>5 DEF HasToken
<1>7. NoneRunning(state)
  BY <1>5 DEF HasToken, NoneRunning
<1>8. m_interruptedProcesses = {}
  BY <1>5, UserTypes DEF HasToken
<1>9. Number(toUser, UserTokens) = 0
  <2>1. \A i \in DOMAIN toUser : \A p \in Processes : toUser[i] \notin AsksOf(p)
    BY <1>6, Facts, NumberType
  <2>2. \A i \in DOMAIN toUser : toUser[i] \notin UserTokens
    BY <2>1 DEF UserTokens
  <2>. QED
    BY <2>2, Facts, NumberType
<1>10. Number(toScript, ScriptTokens) = 0
  <2>1. \A i \in DOMAIN toScript : \A p \in Processes : toScript[i] \notin ContinuesOf(p)
    BY <1>6, Facts, NumberType
  <2>2. \A i \in DOMAIN toScript : \A c \in Controls : toScript[i] \notin ForTask(c)
    BY <1>4, Facts, NumberType
  <2>3. \A i \in DOMAIN toScript : toScript[i] \notin ScriptTokens
    BY <2>1, <2>2 DEF ScriptTokens
  <2>. QED
    BY <2>3, Facts, NumberType
<1>. QED
  BY <1>4, <1>5, <1>6, <1>7, <1>8, <1>9, <1>10

\* A Control that runs its own event loop: nothing is on its way, and no process runs.
LEMMA IdleFacts ==
    ASSUME IInv, Idle(loops)
    PROVE  /\ NoneRunning(state) /\ m_interruptedProcesses = {}
           /\ Number(toUser, UserTokens) = 0 /\ Number(toScript, ScriptTokens) = 0
           /\ \A p \in Processes : Number(toUser, AsksOf(p)) = 0 /\ Number(toScript, ContinuesOf(p)) = 0
           /\ \A p \in Processes : ~HasToken(p)
           /\ \A c \in Controls : Number(toScript, ForTask(c)) = 0
           /\ Number(loops, {Wait(TopControl)}) = 0 /\ TopControl \notin m_stopped
           /\ Number(toUser, {Complete(TopControl)}) = 0
           /\ \A g \in Processes : ~Waits(m_waits, TopControl, g)
<1>1. /\ TopControl \in Controls /\ TopControl = Innermost(loops)
      /\ \A M : Number(toUser, M) \in Nat /\ Number(toScript, M) \in Nat
  BY TopFacts, Facts
<1>2. Number(loops, {Wait(TopControl)}) = 0
  BY <1>1, Facts, WaitCounts
<1>3. /\ Number(toScript, ForTask(TopControl)) = 0 /\ Number(toUser, {Complete(TopControl)}) = 0
      /\ TopControl \notin m_stopped /\ \A g \in Processes : ~Waits(m_waits, TopControl, g)
  BY <1>1, <1>2, WaitsInLoop
<1>4. /\ NoneRunning(state) /\ m_interruptedProcesses = {}
      /\ Number(toUser, UserTokens) = 0 /\ Number(toScript, ScriptTokens) = 0
      /\ \A p \in Processes : Number(toUser, AsksOf(p)) = 0 /\ Number(toScript, ContinuesOf(p)) = 0
      /\ \A p \in Processes : ~HasToken(p)
      /\ \A c \in Controls : Number(toScript, ForTask(c)) = 0
  BY <1>3, NobodyWaits
<1>. QED
  BY <1>2, <1>3, <1>4

\* A Control that waits, and whose event loop is not told to end, waits once.
LEMMA OnceFacts ==
    ASSUME IInv, ~Stops, Number(loops, {Ask}) = 0, ~Idle(loops)
    PROVE  Once(loops)
<1>1. CASE Twice(loops) /\ TopControl \in m_stopped
  <2>1. Top = Wait(TopControl) /\ Top.loop = "wait" /\ Top.id = TopControl
    <3>1. Top = Wait(TopControl)
      BY <1>1, TopFacts DEF Twice, Top
    <3>. QED
      BY <3>1 DEF Wait
  <2>. QED
    BY <1>1, <2>1 DEF Stops
<1>2. CASE Asking(loops)
  <2>1. Len(loops) \in DOMAIN loops /\ loops[Len(loops)] = Ask
    BY <1>2, TopFacts DEF Asking, Top
  <2>2. \A i \in DOMAIN loops : loops[i] \notin {Ask}
    BY Facts, NumberType
  <2>. QED
    BY <2>1, <2>2
<1>. QED
  BY <1>1, <1>2, TopFacts

\* A process asks the user interface for something: it has the only token, and the innermost
\* Control waits for it.
LEMMA AskFacts ==
    ASSUME IInv, NEW op \in Asks, Handles(op), NEW p, p = Link
    PROVE  /\ p \in Processes /\ Head(toUser) = To(op, p) /\ state[p] = "Waiting" /\ NoneRunning(state)
           /\ Number(toUser', UserTokens) = 0 /\ Number(toScript, ScriptTokens) = 0
           /\ m_interruptedProcesses = {}
           /\ \A r \in Processes : /\ Number(toUser', AsksOf(r)) = 0 /\ Number(toScript, ContinuesOf(r)) = 0
                                   /\ Number(toUser, AsksOf(r)) = IF r = p THEN 1 ELSE 0
           /\ \A c \in Controls : Number(toScript, ForTask(c)) = 0
           /\ Number(toScript, HandsOf(p)) = 0 /\ Number(toScript, {Detach(p)}) = 0
           /\ \A i \in DOMAIN loops : loops[i].link # p
           /\ \A i \in Owns(loops) : m_outputState[loops[i].id].link # p
           /\ Waits(m_waits, TopControl, group[p]) /\ Once(loops)
           /\ \A i \in Owns(loops) : loops[i].id \notin ended
           /\ \A i \in DOMAIN loops : loops[i].loop # "ask"
           /\ \A c \in Controls : Number(toUser', {Complete(c)}) = Number(toUser, {Complete(c)})
           /\ Number(toUser', Confirmation) = Number(toUser, Confirmation)
           /\ Number(toUser, ToShow) = Number(toUser', ToShow) + IF op = "onProcessInterrupted" THEN 0 ELSE 1
           /\ \A c, k \in Controls : Precedes(toUser, Complete(c), Complete(k)) =>
                Precedes(toUser', Complete(c), Complete(k))
<1>1. /\ ~Stops /\ toUser # <<>> /\ Head(toUser) \in ToUser /\ Head(toUser).op = op
      /\ toUser' = Tail(toUser) /\ toUser' \in Seq(ToUser)
      /\ \A M : /\ Number(toUser, M) \in Nat /\ Number(toUser', M) \in Nat
                /\ Number(toUser, M) = Number(toUser', M) + IF Head(toUser) \in M THEN 1 ELSE 0
      /\ \A x, y : Precedes(toUser, x, y) /\ Head(toUser) # x => Precedes(toUser', x, y)
  BY Handling
<1>2. p \in Processes /\ Head(toUser) = To(op, p)
  BY <1>1, UserForms DEF Link
<1>3. /\ Head(toUser) \in UserTokens /\ Head(toUser) \notin Confirmation
      /\ Head(toUser) \in ToShow <=> op # "onProcessInterrupted"
      /\ \A c \in Controls : Head(toUser) \notin {Complete(c)}
      /\ \A r \in Processes : Head(toUser) \in AsksOf(r) <=> r = p
  BY <1>2, AskClass
<1>4. Number(toUser, UserTokens) = Number(toUser', UserTokens) + 1
  BY <1>1, <1>3
<1>5. /\ Running = 0 /\ Interrupted = 0 /\ Number(toUser', UserTokens) = 0 /\ Number(toUser, UserTokens) = 1
      /\ Number(toScript, ScriptTokens) = 0
  <2>1. /\ Number(toUser', UserTokens) \in Nat /\ Number(toUser, UserTokens) \in Nat
        /\ Number(toScript, ScriptTokens) \in Nat
    BY <1>1, Facts
  <2>2. /\ Running \in {0, 1} /\ Interrupted \in {0, 1}
        /\ Running + Number(toUser, UserTokens) + Number(toScript, ScriptTokens) + Interrupted <= 1
    BY TokenParts
  <2>. QED
    BY <1>4, <2>1, <2>2
<1>6. NoneRunning(state) /\ m_interruptedProcesses = {}
  BY <1>5, TokenParts
<1>7. \A M : Number(toScript, M) \in Nat
  BY Facts
<1>8. /\ \A c \in Controls : Number(toScript, ForTask(c)) = 0
      /\ \A r \in Processes : Number(toScript, ContinuesOf(r)) = 0
  BY <1>5, <1>7, TokenParts
<1>9. ASSUME NEW r \in Processes
      PROVE  /\ Number(toUser', AsksOf(r)) = 0
             /\ Number(toUser, AsksOf(r)) = IF r = p THEN 1 ELSE 0
  <2>1. Number(toUser', AsksOf(r)) <= Number(toUser', UserTokens)
    BY <1>1, TokenSets, NumberPart
  <2>2. Number(toUser', AsksOf(r)) = 0
    BY <1>1, <1>5, <2>1
  <2>. QED
    BY <1>1, <1>3, <2>2
<1>10. HasToken(p) /\ Tokens > 0
  <2>1. HasToken(p)
    BY <1>2, <1>9 DEF HasToken
  <2>2. Tokens > 0
    BY <1>5 DEF Tokens
  <2>. QED
    BY <2>1, <2>2
<1>11. TopControl \notin ended /\ Waits(m_waits, TopControl, group[p])
  BY <1>2, <1>10 DEF IInv, Attached
<1>12. state[p] = "Waiting"
  BY <1>2, <1>6, <1>10, TokenFacts DEF NoneRunning
<1>13. /\ Number(toScript, HandsOf(p)) = 0
       /\ \A i \in DOMAIN loops : loops[i].link # p
       /\ \A i \in Owns(loops) : m_outputState[loops[i].id].link # p
  <2>1. Number(toScript, HandsOf(p)) = 0
    <3> DEFINE u == Number(toUser, AsksOf(p))
               s == Number(toScript, HandsOf(p))
               f == Number(loops, FramesOf(p))
               o == Ending(ControlsIn(loops), m_outputState, p)
               i == IF p \in m_interruptedProcesses THEN 1 ELSE 0
    <3>1. u \in Nat /\ s \in Nat /\ f \in Nat /\ o \in Nat /\ i \in Nat /\ u + s + f + o + i = 1
      BY <1>2, <1>12, InHand
    <3>2. u = 1
      BY <1>2, <1>9
    <3> HIDE DEF u, s, f, o, i
    <3>3. s = 0
      BY <3>1, <3>2
    <3>. QED
      BY <3>3 DEF s
  <2>. QED
    BY <1>2, <1>10, <2>1, TokenFacts
<1>14. Number(toScript, {Detach(p)}) = 0
  BY <1>2, <1>7, <1>10 DEF IInv, Detaches
<1>15. \A i \in DOMAIN loops : loops[i].loop # "ask"
  BY <1>6 DEF IInv, Stack
<1>16. Once(loops)
  <2>1. Number(loops, {Ask}) = 0
    <3>1. \A i \in DOMAIN loops : loops[i] \notin {Ask}
      BY <1>15 DEF Ask
    <3>. QED
      BY <3>1, Facts, NumberType
  <2>2. ~Idle(loops)
    BY <1>2, <1>10, IdleFacts
  <2>. QED
    BY <1>1, <2>1, <2>2, OnceFacts
<1>17. \A i \in Owns(loops) : loops[i].id \notin ended
  BY <1>11 DEF IInv, Outputs
<1>18. /\ \A c \in Controls : Number(toUser', {Complete(c)}) = Number(toUser, {Complete(c)})
       /\ Number(toUser', Confirmation) = Number(toUser, Confirmation)
       /\ Number(toUser, ToShow) = Number(toUser', ToShow) + IF op = "onProcessInterrupted" THEN 0 ELSE 1
  BY <1>1, <1>3
<1>19. \A c, k \in Controls : Precedes(toUser, Complete(c), Complete(k)) =>
         Precedes(toUser', Complete(c), Complete(k))
  BY <1>1, <1>3
<1>. QED
  BY <1>2, <1>5, <1>6, <1>8, <1>9, <1>11, <1>12, <1>13, <1>14, <1>15, <1>16, <1>17, <1>18, <1>19

\* Who has a token is one of the tokens.
LEMMA TokenOf ==
    ASSUME IInv, NEW p \in Processes, HasToken(p)
    PROVE  Tokens > 0
<1>1. /\ Number(toUser, UserTokens) \in Nat /\ Number(toScript, ScriptTokens) \in Nat
      /\ Number(toUser, AsksOf(p)) \in Nat /\ Number(toScript, ContinuesOf(p)) \in Nat
  BY Facts
<1>2. /\ Running \in {0, 1} /\ Interrupted \in {0, 1}
      /\ Running = 0 <=> NoneRunning(state)
      /\ Interrupted = 0 <=> m_interruptedProcesses = {}
      /\ Number(toUser, AsksOf(p)) <= Number(toUser, UserTokens)
      /\ Number(toScript, ContinuesOf(p)) <= Number(toScript, ScriptTokens)
  BY TokenParts
<1>3. state[p] = "Running" => Running = 1
  BY <1>2 DEF NoneRunning
<1>4. p \in m_interruptedProcesses => Interrupted = 1
  BY <1>2
<1>5. Running + Number(toUser, UserTokens) + Number(toScript, ScriptTokens) + Interrupted > 0
  BY <1>1, <1>2, <1>3, <1>4 DEF HasToken
<1>. QED
  BY <1>5 DEF Tokens

\* A process passes from the requests of one thread to those of the other.
LEMMA HandedMoved ==
    ASSUME IInv, ScriptSame, loops' = loops, m_outputState' = m_outputState,
           m_interruptedProcesses' = m_interruptedProcesses,
           \A p \in Processes : /\ Number(toUser', AsksOf(p)) \in Nat /\ Number(toScript', HandsOf(p)) \in Nat
                                /\ Number(toUser', AsksOf(p)) + Number(toScript', HandsOf(p))
                                     = Number(toUser, AsksOf(p)) + Number(toScript, HandsOf(p))
    PROVE  Handed'
<1> SUFFICES ASSUME NEW p \in Processes
             PROVE  HandsSum(toUser', toScript', loops, m_outputState, m_interruptedProcesses, p)
                      = IF state[p] = "Waiting" THEN 1 ELSE 0
  BY DEF Handed, ScriptSame
<1>1. HandsSum(toUser, toScript, loops, m_outputState, m_interruptedProcesses, p)
        = IF state[p] = "Waiting" THEN 1 ELSE 0
  BY Facts DEF Handed
<1>2. /\ Number(toUser, AsksOf(p)) \in Nat /\ Number(toScript, HandsOf(p)) \in Nat
      /\ Number(loops, FramesOf(p)) \in Nat /\ Ending(ControlsIn(loops), m_outputState, p) \in Nat
  BY Facts, HandTypes
<1>3. /\ Number(toUser', AsksOf(p)) \in Nat /\ Number(toScript', HandsOf(p)) \in Nat
      /\ Number(toUser', AsksOf(p)) + Number(toScript', HandsOf(p))
           = Number(toUser, AsksOf(p)) + Number(toScript, HandsOf(p))
  OBVIOUS
<1>. QED
  BY <1>1, <1>2, <1>3 DEF HandsSum

\* The event loops and the Controls stay as they are.
LEMMA LoopsSame ==
    ASSUME IInv, ScriptSame, UNCHANGED <<loops, ended, m_outputState, lastId, tasks>>,
           m_stopped \subseteq m_stopped', NEW ms \in Seq(ToScript), Send(ms),
           \A p \in Processes : Number(ms, Uses(p)) = 0,
           \A p \in Processes : Number(ms, {Detach(p)}) = 0,
           \A c \in Controls : Number(ms, ForTask(c)) = 0,
           Number(ms, Executes) = 0, Number(toUser', ToShow) \in Nat,
           Number(toUser', ToShow) <= Number(toUser, ToShow),
           \A p \in Processes : HasToken(p)' => HasToken(p),
           Tokens' <= 1, Tokens' > 0 => Tokens > 0,
           \A p, r \in m_interruptedProcesses' : p = r,
           m_interruptedProcesses # {} => m_interruptedProcesses' # {},
           \A c, k \in Controls : Precedes(toUser, Complete(c), Complete(k)) =>
             Precedes(toUser', Complete(c), Complete(k)) \/ c \in m_stopped'
    PROVE  /\ OneToken' /\ Attached' /\ Stack' /\ Outputs' /\ Dialogs' /\ Keymaps'
           /\ Users' /\ Later' /\ Detaches' /\ Credits' /\ News'
<1>0. /\ OneToken /\ Attached /\ Stack /\ Outputs /\ Dialogs /\ Keymaps
      /\ Users /\ Later /\ Detaches /\ Credits /\ News
  BY DEF IInv
<1>1. /\ loops' = loops /\ ended' = ended /\ m_outputState' = m_outputState /\ lastId' = lastId
      /\ tasks' = tasks /\ state' = state /\ group' = group /\ m_waits' = m_waits /\ calls' = calls
      /\ TopControl' = TopControl
  <2>1. loops' = loops
    OBVIOUS
  <2>. QED
    BY <2>1, TopControlIs DEF ScriptSame
<1>2. /\ \A M : /\ Number(toScript, M) \in Nat /\ Number(ms, M) \in Nat
                /\ Number(toScript', M) = Number(toScript, M) + Number(ms, M)
  BY Sent
<1>3. /\ \A c \in Controls : Number(toScript', ForTask(c)) = Number(toScript, ForTask(c))
      /\ \A p \in Processes : Number(toScript', {Detach(p)}) = Number(toScript, {Detach(p)})
      /\ Number(toScript', Executes) = Number(toScript, Executes)
  BY <1>2
<1>4. OneToken'
  BY <1>0, <1>1 DEF OneToken
<1>5. Attached'
  BY <1>0, <1>1, <1>3 DEF Attached
<1>6. Stack'
  <2>1. ASSUME NEW i, OnTop(loops, i, m_stopped) PROVE OnTop(loops, i, m_stopped')
    BY <2>1 DEF OnTop
  <2>2. Stacked(loops, m_stopped', lastId)
    BY <1>0, <2>1 DEF Stack, Stacked
  <2>. QED
    BY <1>0, <1>1, <2>2 DEF Stack
<1>7. Outputs'
  <2>1. ASSUME NEW i, NEW o, Output(i, o) PROVE Output(i, o)'
    BY <1>1, <2>1 DEF Output
  <2>. QED
    BY <1>0, <1>1, <2>1 DEF Outputs
<1>8. Dialogs'
  BY <1>0, <1>1 DEF Dialogs
<1>9. Keymaps'
  <2>1. ASSUME NEW i \in DOMAIN loops, loops[i].loop = "keymap"
        PROVE  ParentFirst(loops[i].parent, loops[i].id)'
    <3>1. PICK c \in Controls, k \in Controls : c = loops[i].parent /\ k = loops[i].id
      BY <2>1, Parents, Facts
    <3>2. ParentFirst(c, k)
      BY <1>0, <2>1, <3>1 DEF Keymaps
    <3>3. ParentFirst(c, k)'
      BY <3>2, SentFirst
    <3>. QED
      BY <1>1, <3>1, <3>3
  <2>. QED
    BY <1>1, <2>1 DEF Keymaps
<1>10. Users' /\ Later'
  BY SentUses
<1>11. Detaches'
  BY <1>0, <1>1, <1>3 DEF Detaches
<1>12. Credits'
  <2>1. /\ calls \in Nat /\ lastId \in Nat /\ MaxCalls \in Nat /\ Number(toUser, ToShow) \in Nat
        /\ lastId + Number(toUser, ToShow)
             + (IF m_outputState[TopControl].target \in {"screen", "exit"} THEN 1 ELSE 0) <= calls + 1
        /\ calls <= MaxCalls
    BY <1>0, StateTypes, Facts, Bounds DEF Credits
  <2>. QED
    BY <1>1, <2>1 DEF Credits
<1>13. News'
  BY <1>0, <1>1, <1>3 DEF News, NewOnes
<1>. QED
  BY <1>4, <1>5, <1>6, <1>7, <1>8, <1>9, <1>10, <1>11, <1>12, <1>13

\* The user interface thread leaves what is not its own.
LEMMA UserOnlySame ==
    ASSUME UserOnly
    PROVE  /\ ScriptSame /\ UNCHANGED interrupt /\ calling' = calling /\ m_stopSignal' = m_stopSignal
           /\ tasks' = tasks /\ breaks' = breaks
           /\ m_interrupting' = m_interrupting /\ m_interruptedProcesses' = m_interruptedProcesses
  BY DEF UserOnly, ScriptSame, script, interrupt

\* The process is continued.
LEMMA AnswersKeep ==
    ASSUME IInv, NEW op \in Asks, Handles(op), NEW o \in Continues, Send(<<To(o, Link)>>),
           UNCHANGED <<user, lastId>>, UserOnly
    PROVE  IInv'
<1>0. PICK p : p = Link
  OBVIOUS
<1>1. /\ p \in Processes /\ Head(toUser) = To(op, p) /\ state[p] = "Waiting" /\ NoneRunning(state)
      /\ Number(toUser', UserTokens) = 0 /\ Number(toScript, ScriptTokens) = 0
      /\ m_interruptedProcesses = {}
      /\ \A r \in Processes : /\ Number(toUser', AsksOf(r)) = 0 /\ Number(toScript, ContinuesOf(r)) = 0
                              /\ Number(toUser, AsksOf(r)) = IF r = p THEN 1 ELSE 0
      /\ \A c \in Controls : Number(toUser', {Complete(c)}) = Number(toUser, {Complete(c)})
      /\ Number(toUser', Confirmation) = Number(toUser, Confirmation)
      /\ Number(toUser, ToShow) = Number(toUser', ToShow) + IF op = "onProcessInterrupted" THEN 0 ELSE 1
      /\ \A c, k \in Controls : Precedes(toUser, Complete(c), Complete(k)) =>
           Precedes(toUser', Complete(c), Complete(k))
  BY <1>0, AskFacts
<1>2. /\ toUser' \in Seq(ToUser) /\ \A M : Number(toUser', M) \in Nat
      /\ \A A, B : Followed(toUser, A, B) => Followed(toUser', A, B)
  BY Handling
<1>3. /\ ScriptSame /\ UNCHANGED interrupt /\ calling' = calling /\ m_stopSignal' = m_stopSignal
      /\ tasks' = tasks /\ breaks' = breaks
      /\ m_interrupting' = m_interrupting /\ m_interruptedProcesses' = m_interruptedProcesses
      /\ loops' = loops /\ m_stopped' = m_stopped /\ ended' = ended /\ m_outputState' = m_outputState
      /\ lastId' = lastId
  BY UserOnlySame DEF user
<1>4. PICK m, ms : m = To(o, p) /\ ms = <<m>>
  OBVIOUS
<1>5. /\ m \in ToScript /\ m \in ScriptTokens /\ m \notin Executes /\ m \notin ConfirmRequest
      /\ \A d \in Controls : m \notin ForTask(d)
      /\ \A r \in Processes : /\ m \in ContinuesOf(r) <=> r = p
                              /\ m \in HandsOf(r) <=> r = p
                              /\ m \notin {Detach(r)} /\ m \notin Uses(r)
  BY <1>1, <1>4, ContinueClass
<1>6. ms \in Seq(ToScript) /\ \A M : Number(ms, M) = IF m \in M THEN 1 ELSE 0
  BY <1>4, <1>5, Messages
<1>7. /\ Send(ms) /\ toScript' \in Seq(ToScript)
      /\ \A M : /\ Number(toScript, M) \in Nat /\ Number(toScript', M) \in Nat
                /\ Number(toScript', M) = Number(toScript, M) + Number(ms, M)
  <2>1. Send(ms)
    BY <1>0, <1>4
  <2>. QED
    BY <1>6, <2>1, Sent
<1>8. /\ \A r \in Processes : Number(ms, Uses(r)) = 0
      /\ \A r \in Processes : Number(ms, {Detach(r)}) = 0
      /\ \A c \in Controls : Number(ms, ForTask(c)) = 0
      /\ Number(ms, Executes) = 0
      /\ Number(ms, ConfirmRequest) = 0
  BY <1>5, <1>6
<1>9. /\ \A r \in Processes : Number(ms, HandsOf(r)) = IF r = p THEN 1 ELSE 0
      /\ \A r \in Processes : Number(ms, ContinuesOf(r)) = IF r = p THEN 1 ELSE 0
      /\ Number(ms, ScriptTokens) = 1
  BY <1>5, <1>6
<1>10. HasToken(p) /\ Tokens > 0
  <2>1. HasToken(p)
    BY <1>1 DEF HasToken
  <2>. QED
    BY <1>1, <2>1, TokenOf
<1>11. Tokens' <= 1
  BY <1>1, <1>3, <1>7, <1>9 DEF Tokens, Running, Interrupted, ScriptSame
<1>12. \A r \in Processes : HasToken(r)' => HasToken(r)
  <2> SUFFICES ASSUME NEW r \in Processes, r # p PROVE ~HasToken(r)'
    BY <1>10
  <2>1. Number(toScript', ContinuesOf(r)) = 0
    BY <1>1, <1>7, <1>9
  <2>. QED
    BY <1>1, <1>3, <2>1 DEF HasToken, NoneRunning, ScriptSame
<1>13. /\ OneToken' /\ Attached' /\ Stack' /\ Outputs' /\ Dialogs' /\ Keymaps'
       /\ Users' /\ Later' /\ Detaches' /\ Credits' /\ News'
  <2>1. Number(toUser', ToShow) \in Nat /\ Number(toUser', ToShow) <= Number(toUser, ToShow)
    BY <1>1, <1>2
  <2>2. m_stopped \subseteq m_stopped' /\ \A r, t \in m_interruptedProcesses' : r = t
    BY <1>1, <1>3
  <2>. QED
    BY <1>1, <1>3, <1>6, <1>7, <1>8, <1>10, <1>11, <1>12, <2>1, <2>2, LoopsSame
<1>14. UserTyped
  BY <1>2, <1>3, <1>7, UserTypes DEF UserTyped
<1>15. Balance'
  <2>1. ASSUME NEW c \in Controls
        PROVE  Number(toScript', ForTask(c)) = Number(toScript, ForTask(c))
    BY <1>7, <1>8
  <2>. QED
    BY <1>1, <1>3, <2>1, Facts DEF Balance, EndsSum, ScriptSame
<1>16. Handed'
  <2>1. ASSUME NEW r \in Processes
        PROVE  Number(toUser', AsksOf(r)) + Number(toScript', HandsOf(r))
                 = Number(toUser, AsksOf(r)) + Number(toScript, HandsOf(r))
    BY <1>1, <1>7, <1>9
  <2>. QED
    BY <1>2, <1>3, <1>7, <2>1, HandedMoved
<1>17. Interrupts'
  <2>1. Number(toScript', ConfirmRequest) = Number(toScript, ConfirmRequest)
    BY <1>7, <1>8
  <2>. QED
    BY <1>1, <1>2, <1>3, <2>1 DEF IInv, Interrupts
<1>. QED
  BY <1>3, <1>13, <1>14, <1>15, <1>16, <1>17, UserClose

\* Requests that are no tokens are taken or sent.
LEMMA TokensSame ==
    ASSUME IInv, ScriptSame, m_interruptedProcesses' = m_interruptedProcesses,
           Number(toScript', ScriptTokens) = Number(toScript, ScriptTokens),
           Number(toUser', UserTokens) = Number(toUser, UserTokens),
           \A p \in Processes : /\ Number(toScript', ContinuesOf(p)) = Number(toScript, ContinuesOf(p))
                                /\ Number(toUser', AsksOf(p)) = Number(toUser, AsksOf(p))
    PROVE  /\ Tokens' = Tokens /\ Tokens' <= 1 /\ (Tokens' > 0 => Tokens > 0)
           /\ \A p \in Processes : HasToken(p)' <=> HasToken(p)
<1>1. Tokens' = Tokens
  BY DEF Tokens, Running, Interrupted, ScriptSame
<1>2. Tokens <= 1
  BY DEF IInv, OneToken
<1>3. \A p \in Processes : HasToken(p)' <=> HasToken(p)
  BY DEF HasToken, ScriptSame
<1>. QED
  BY <1>1, <1>2, <1>3

LEMMA NothingSent ==
    ASSUME IInv, toScript' = toScript
    PROVE  /\ <<>> \in Seq(ToScript) /\ Send(<<>>) /\ toScript' \in Seq(ToScript)
           /\ \A M : Number(<<>>, M) = 0
<1>1. toScript \in Seq(ToScript)
  BY Facts
<1>. QED
  BY <1>1, Messages DEF Send

\* The answer to a call, a confirmation, or the end of a wait
LEMMA OtherFacts ==
    ASSUME IInv, NEW op, Handles(op), op \notin Asks
    PROVE  /\ Head(toUser).op = op
           /\ Head(toUser) \in {[op |-> "call"], [op |-> "onInterruptConfirm"]} \cup { Complete(c) : c \in Controls }
           /\ Number(toUser', UserTokens) = Number(toUser, UserTokens)
           /\ Number(toUser', ToShow) = Number(toUser, ToShow)
           /\ \A p \in Processes : Number(toUser', AsksOf(p)) = Number(toUser, AsksOf(p))
<1>1. /\ Head(toUser) \in ToUser /\ Head(toUser).op = op
      /\ \A M : /\ Number(toUser, M) \in Nat /\ Number(toUser', M) \in Nat
                /\ Number(toUser, M) = Number(toUser', M) + IF Head(toUser) \in M THEN 1 ELSE 0
  BY Handling
<1>2. Head(toUser) \in {[op |-> "call"], [op |-> "onInterruptConfirm"]} \cup { Complete(c) : c \in Controls }
  BY <1>1, UserForms
<1>3. /\ Head(toUser) \notin UserTokens /\ Head(toUser) \notin ToShow
      /\ \A p \in Processes : Head(toUser) \notin AsksOf(p)
  BY <1>2, AnswerClass
<1>. QED
  BY <1>1, <1>2, <1>3

LEMMA ProcessCallKeeps ==
    ASSUME IInv, ProcessCall
    PROVE  IInv'
<1>1. /\ Handles("call") /\ ScriptSame /\ calling' = FALSE /\ m_stopSignal' = m_stopSignal
      /\ toScript' = toScript /\ UNCHANGED <<loops, ended, m_outputState, lastId, tasks>>
      /\ loops' = loops /\ m_stopped' = m_stopped /\ ended' = ended /\ m_outputState' = m_outputState
      /\ lastId' = lastId /\ tasks' = tasks /\ breaks' = breaks
      /\ m_interrupting' = m_interrupting /\ m_interruptedProcesses' = m_interruptedProcesses
  BY DEF ProcessCall, ScriptSame, user, interrupt, bounds
<1>2. /\ toUser' \in Seq(ToUser)
      /\ \A M : /\ Number(toUser, M) \in Nat /\ Number(toUser', M) \in Nat
                /\ Number(toUser, M) = Number(toUser', M) + IF Head(toUser) \in M THEN 1 ELSE 0
      /\ \A A, B : Followed(toUser, A, B) => Followed(toUser', A, B)
      /\ \A x, y : Precedes(toUser, x, y) /\ Head(toUser) # x => Precedes(toUser', x, y)
      /\ Head(toUser) \in ToUser /\ Head(toUser).op = "call"
  BY <1>1, Handling
<1>3. "call" \notin Asks
  BY CalloutsAssumption DEF Asks
<1>4. /\ Number(toUser', UserTokens) = Number(toUser, UserTokens)
      /\ Number(toUser', ToShow) = Number(toUser, ToShow)
      /\ \A p \in Processes : Number(toUser', AsksOf(p)) = Number(toUser, AsksOf(p))
  BY <1>1, <1>3, OtherFacts
<1>5. Head(toUser) \notin Confirmation /\ \A c \in Controls : Head(toUser) # Complete(c)
  <2>1. Head(toUser) = [op |-> "call"]
    BY <1>2, UserForms
  <2>. QED
    BY <2>1, AnswerClass
<1>6. /\ Number(toUser', Confirmation) = Number(toUser, Confirmation)
      /\ \A c \in Controls : Number(toUser', {Complete(c)}) = Number(toUser, {Complete(c)})
      /\ \A c, k \in Controls : Precedes(toUser, Complete(c), Complete(k)) =>
           Precedes(toUser', Complete(c), Complete(k))
  BY <1>2, <1>5
<1>7. /\ <<>> \in Seq(ToScript) /\ Send(<<>>) /\ toScript' \in Seq(ToScript)
      /\ \A M : Number(<<>>, M) = 0
  BY <1>1, NothingSent
<1>8. /\ Tokens' <= 1 /\ (Tokens' > 0 => Tokens > 0)
      /\ \A p \in Processes : HasToken(p)' <=> HasToken(p)
  BY <1>1, <1>4, TokensSame
<1>9. /\ OneToken' /\ Attached' /\ Stack' /\ Outputs' /\ Dialogs' /\ Keymaps'
      /\ Users' /\ Later' /\ Detaches' /\ Credits' /\ News'
  <2>1. Number(toUser', ToShow) \in Nat /\ Number(toUser', ToShow) <= Number(toUser, ToShow)
    BY <1>2, <1>4
  <2>2. m_stopped \subseteq m_stopped' /\ \A r, t \in m_interruptedProcesses' : r = t
    BY <1>1 DEF IInv, OneToken
  <2>. QED
    BY <1>1, <1>6, <1>7, <1>8, <2>1, <2>2, LoopsSame
<1>10. UserTyped
  BY <1>1, <1>2, <1>7, UserTypes DEF UserTyped
<1>11. Balance'
  BY <1>1, <1>6, Facts DEF Balance, EndsSum, ScriptSame
<1>12. Handed'
  <2>1. \A p \in Processes : Number(toScript', HandsOf(p)) \in Nat
    BY <1>1, Facts
  <2>. QED
    BY <1>1, <1>2, <1>4, <2>1, HandedMoved
<1>13. Interrupts'
  BY <1>1, <1>2, <1>6 DEF IInv, Interrupts
<1>. QED
  BY <1>1, <1>9, <1>10, <1>11, <1>12, <1>13, UserClose

LEMMA InterruptedKeeps ==
    ASSUME IInv, OnProcessInterrupted
    PROVE  IInv'
<1> DEFINE op == "onProcessInterrupted"
<1>0. PICK p : p = Link
  OBVIOUS
<1>1. op \in Asks /\ Handles(op) /\ Handles("onProcessInterrupted")
  BY DEF OnProcessInterrupted, Asks
<1>2. /\ p \in Processes /\ Head(toUser) = To(op, p) /\ state[p] = "Waiting" /\ NoneRunning(state)
      /\ Number(toUser', UserTokens) = 0 /\ Number(toScript, ScriptTokens) = 0
      /\ m_interruptedProcesses = {}
      /\ \A r \in Processes : /\ Number(toUser', AsksOf(r)) = 0 /\ Number(toScript, ContinuesOf(r)) = 0
                              /\ Number(toUser, AsksOf(r)) = IF r = p THEN 1 ELSE 0
      /\ \A c \in Controls : Number(toUser', {Complete(c)}) = Number(toUser, {Complete(c)})
      /\ Number(toUser', Confirmation) = Number(toUser, Confirmation)
      /\ Number(toUser, ToShow) = Number(toUser', ToShow) + IF op = "onProcessInterrupted" THEN 0 ELSE 1
      /\ \A c, k \in Controls : Precedes(toUser, Complete(c), Complete(k)) =>
           Precedes(toUser', Complete(c), Complete(k))
  BY <1>0, <1>1, AskFacts
<1>3. /\ toUser # <<>> /\ toUser' \in Seq(ToUser)
      /\ \A M : Number(toUser, M) \in Nat /\ Number(toUser', M) \in Nat
      /\ \A A, B : Followed(toUser, A, B) => Followed(toUser', A, B)
  BY <1>1, Handling
<1>4. /\ Number(toScript, ConfirmRequest) + Number(toUser, Confirmation) + Number(loops, {Ask})
           = IF m_interrupting THEN 1 ELSE 0
      /\ m_stopSignal <=> Number(toScript, ConfirmRequest) = 1
      /\ m_stopSignal \/ Followed(toUser, Interruptions, Confirmation)
  BY DEF IInv, Interrupts
<1>5. m_interrupting
  <2>1. /\ Number(toScript, ConfirmRequest) \in Nat /\ Number(toUser, Confirmation) \in Nat
        /\ Number(loops, {Ask}) \in Nat
    BY Facts
  <2>2. CASE m_stopSignal
    BY <1>4, <2>1, <2>2
  <2>3. CASE Followed(toUser, Interruptions, Confirmation)
    <3>1. 1 \in DOMAIN toUser /\ toUser[1] \in Interruptions
      <4>1. 1 \in DOMAIN toUser /\ toUser[1] = Head(toUser)
        BY <1>3, Facts
      <4>. QED
        BY <1>2, <4>1 DEF Interruptions
    <3>2. \E j \in DOMAIN toUser : toUser[j] \in Confirmation
      BY <2>3, <3>1 DEF Followed
    <3>3. Number(toUser, Confirmation) # 0
      BY <3>2, Facts, NumberType
    <3>. QED
      BY <1>4, <2>1, <3>3
  <2>. QED
    BY <1>4, <2>2, <2>3
<1>6. /\ m_interruptedProcesses' = {p} /\ toScript' = toScript
      /\ ScriptSame /\ calling' = calling /\ m_stopSignal' = m_stopSignal
      /\ UNCHANGED <<loops, ended, m_outputState, lastId, tasks>>
      /\ loops' = loops /\ m_stopped' = m_stopped /\ ended' = ended /\ m_outputState' = m_outputState
      /\ lastId' = lastId /\ tasks' = tasks /\ breaks' = breaks /\ m_interrupting' = m_interrupting
  <2>1. m_interruptedProcesses' = m_interruptedProcesses \cup {p} /\ toScript' = toScript
    BY <1>0, <1>5 DEF OnProcessInterrupted
  <2>2. UNCHANGED <<script, m_stopSignal, user, m_interrupting, bounds>>
    BY DEF OnProcessInterrupted
  <2>. QED
    BY <1>2, <2>1, <2>2 DEF ScriptSame, script, user, bounds
<1> HIDE DEF op
<1>7. /\ <<>> \in Seq(ToScript) /\ Send(<<>>) /\ toScript' \in Seq(ToScript)
      /\ \A M : Number(<<>>, M) = 0
  BY <1>6, NothingSent
<1>8. HasToken(p) /\ Tokens > 0
  <2>1. HasToken(p)
    BY <1>2 DEF HasToken
  <2>. QED
    BY <1>2, <2>1, TokenOf
<1>9. Tokens' <= 1
  BY <1>2, <1>6 DEF Tokens, Running, Interrupted, ScriptSame
<1>10. \A r \in Processes : HasToken(r)' => HasToken(r)
  BY <1>2, <1>6, <1>8 DEF HasToken, NoneRunning, ScriptSame
<1>11. /\ OneToken' /\ Attached' /\ Stack' /\ Outputs' /\ Dialogs' /\ Keymaps'
       /\ Users' /\ Later' /\ Detaches' /\ Credits' /\ News'
  <2>1. Number(toUser', ToShow) \in Nat /\ Number(toUser', ToShow) <= Number(toUser, ToShow)
    BY <1>2, <1>3
  <2>2. m_stopped \subseteq m_stopped' /\ \A r, t \in m_interruptedProcesses' : r = t
    BY <1>6
  <2>. QED
    BY <1>2, <1>6, <1>7, <1>8, <1>9, <1>10, <2>1, <2>2, LoopsSame
<1>12. UserTyped
  BY <1>2, <1>3, <1>6, <1>7, UserTypes DEF UserTyped
<1>13. Balance'
  BY <1>2, <1>6, Facts DEF Balance, EndsSum, ScriptSame
<1>14. Handed'
  <2> SUFFICES ASSUME NEW r \in Processes
               PROVE  HandsSum(toUser', toScript, loops, m_outputState, {p}, r)
                        = IF state[r] = "Waiting" THEN 1 ELSE 0
    BY <1>6 DEF Handed, ScriptSame
  <2>1. HandsSum(toUser, toScript, loops, m_outputState, {}, r)
          = IF state[r] = "Waiting" THEN 1 ELSE 0
    BY <1>2, Facts DEF Handed
  <2>2. /\ Number(toScript, HandsOf(r)) \in Nat
        /\ Number(loops, FramesOf(r)) \in Nat /\ Ending(ControlsIn(loops), m_outputState, r) \in Nat
    BY Facts, HandTypes
  <2>3. Number(toUser', AsksOf(r)) = 0 /\ Number(toUser, AsksOf(r)) = IF r = p THEN 1 ELSE 0
    BY <1>2
  <2>. QED
    BY <2>1, <2>2, <2>3 DEF HandsSum
<1>15. Interrupts'
  BY <1>2, <1>3, <1>4, <1>5, <1>6 DEF Interrupts
<1>. QED
  BY <1>6, <1>11, <1>12, <1>13, <1>14, <1>15, UserClose

\* A wait ends, or will.
LEMMA TaskCompleteKeeps ==
    ASSUME IInv, OnTaskComplete
    PROVE  IInv'
<1>0. PICK c : c = Head(toUser).id
  OBVIOUS
<1>1. /\ Handles("onTaskComplete") /\ UserOnly /\ ScriptSame
      /\ calling' = calling /\ m_stopSignal' = m_stopSignal
      /\ toScript' = toScript /\ UNCHANGED <<loops, ended, m_outputState, lastId, tasks>>
      /\ loops' = loops /\ ended' = ended /\ m_outputState' = m_outputState
      /\ lastId' = lastId /\ tasks' = tasks /\ breaks' = breaks
      /\ m_interrupting' = m_interrupting /\ m_interruptedProcesses' = m_interruptedProcesses
      /\ m_stopped' = m_stopped \cup ({c} \cap ControlsIn(loops))
  BY <1>0, UserOnlySame DEF OnTaskComplete
<1>2. /\ toUser' \in Seq(ToUser)
      /\ \A M : /\ Number(toUser, M) \in Nat /\ Number(toUser', M) \in Nat
                /\ Number(toUser, M) = Number(toUser', M) + IF Head(toUser) \in M THEN 1 ELSE 0
      /\ \A A, B : Followed(toUser, A, B) => Followed(toUser', A, B)
      /\ \A x, y : Precedes(toUser, x, y) /\ Head(toUser) # x => Precedes(toUser', x, y)
      /\ Head(toUser) \in ToUser /\ Head(toUser).op = "onTaskComplete" /\ ~Stops
  BY <1>1, Handling
<1>3. "onTaskComplete" \notin Asks
  BY CalloutsAssumption DEF Asks
<1>4. /\ Number(toUser', UserTokens) = Number(toUser, UserTokens)
      /\ Number(toUser', ToShow) = Number(toUser, ToShow)
      /\ \A p \in Processes : Number(toUser', AsksOf(p)) = Number(toUser, AsksOf(p))
  BY <1>1, <1>3, OtherFacts
<1>5. c \in Controls /\ Head(toUser) = Complete(c)
  BY <1>0, <1>2, UserForms
<1>6. Head(toUser) \notin Confirmation /\ \A d \in Controls : Head(toUser) \in {Complete(d)} <=> d = c
  BY <1>5, AnswerClass
<1>7. /\ Number(toUser', Confirmation) = Number(toUser, Confirmation)
      /\ \A d \in Controls : Number(toUser, {Complete(d)}) = Number(toUser', {Complete(d)}) + IF d = c THEN 1 ELSE 0
  BY <1>2, <1>6
<1>8. Number(toUser, {Complete(c)}) >= 1 /\ Number(toUser', {Complete(c)}) \in Nat
  BY <1>2, <1>5, <1>7
<1>9. c \in ControlsIn(loops)
  <2>1. Number(loops, {Wait(c)}) \in Nat /\ Number(toUser, {Complete(c)}) \in Nat
    BY Facts
  <2>2. Number(loops, {Wait(c)}) > 0
    BY <1>5, <1>8, <2>1, WaitsInLoop
  <2>. QED
    BY <2>2, Facts, WaitCounts
<1>10. c \notin m_stopped
  <2> SUFFICES ASSUME c \in m_stopped PROVE FALSE
    OBVIOUS
  <2>1. /\ Number(toScript, ForTask(c)) \in Nat /\ Number(m_waits, WaitsOf(c)) \in Nat
        /\ Number(toUser, {Complete(c)}) \in Nat /\ Number(loops, {Wait(c)}) \in Nat
    BY Facts
  <2>2. Number(loops, {Wait(c)}) = Number(toScript, ForTask(c)) + Number(m_waits, WaitsOf(c))
                                     + Number(toUser, {Complete(c)}) + 1
    BY <1>5, Facts DEF Balance, EndsSum
  <2>3. Number(loops, {Wait(c)}) >= 2
    BY <1>8, <2>1, <2>2
  <2>4. Twice(loops) /\ c = Innermost(loops)
    <3>1. ~Twice(loops) \/ c # Innermost(loops) => Number(loops, {Wait(c)}) <= 1
      BY Facts, WaitCounts
    <3>. QED
      BY <2>1, <2>3, <3>1
  <2>5. Top = Wait(c)
    BY <2>4 DEF Twice, Top
  <2>6. Top.loop = "wait" /\ Top.id = c
    BY <2>5 DEF Wait
  <2>. QED
    BY <1>2, <2>6 DEF Stops
<1>11. m_stopped' = m_stopped \cup {c} /\ m_stopped \subseteq m_stopped'
  BY <1>1, <1>9
<1>12. \A d, k \in Controls : Precedes(toUser, Complete(d), Complete(k)) =>
         Precedes(toUser', Complete(d), Complete(k)) \/ d \in m_stopped'
  BY <1>2, <1>6, <1>11
<1>13. /\ <<>> \in Seq(ToScript) /\ Send(<<>>) /\ toScript' \in Seq(ToScript)
       /\ \A M : Number(<<>>, M) = 0
  BY <1>1, NothingSent
<1>14. /\ Tokens' <= 1 /\ (Tokens' > 0 => Tokens > 0)
       /\ \A p \in Processes : HasToken(p)' <=> HasToken(p)
  BY <1>1, <1>4, TokensSame
<1>15. /\ OneToken' /\ Attached' /\ Stack' /\ Outputs' /\ Dialogs' /\ Keymaps'
       /\ Users' /\ Later' /\ Detaches' /\ Credits' /\ News'
  <2>1. Number(toUser', ToShow) \in Nat /\ Number(toUser', ToShow) <= Number(toUser, ToShow)
    BY <1>2, <1>4
  <2>2. \A r, t \in m_interruptedProcesses' : r = t
    BY <1>1 DEF IInv, OneToken
  <2>3. /\ \A p \in Processes : Number(<<>>, Uses(p)) = 0
        /\ \A p \in Processes : Number(<<>>, {Detach(p)}) = 0
        /\ \A d \in Controls : Number(<<>>, ForTask(d)) = 0
        /\ Number(<<>>, Executes) = 0
    BY <1>13
  <2>4. /\ ScriptSame /\ UNCHANGED <<loops, ended, m_outputState, lastId, tasks>>
        /\ m_stopped \subseteq m_stopped' /\ m_interruptedProcesses' = m_interruptedProcesses
    BY <1>1, <1>11
  <2>5. m_interruptedProcesses # {} => m_interruptedProcesses' # {}
    BY <2>4
  <2>6. \A p \in Processes : HasToken(p)' => HasToken(p)
    BY <1>14
  <2>. QED
    BY <1>12, <1>13, <1>14, <2>1, <2>2, <2>3, <2>4, <2>5, <2>6, LoopsSame
<1>16. UserTyped
  BY <1>1, <1>2, <1>5, <1>11, <1>13, UserTypes DEF UserTyped
<1>17. Balance'
  <2> SUFFICES ASSUME NEW d \in Controls
               PROVE  Number(loops, {Wait(d)}) = EndsSum(toScript, m_waits, toUser', m_stopped', d)
    BY <1>1 DEF Balance, ScriptSame
  <2>1. Number(loops, {Wait(d)}) = EndsSum(toScript, m_waits, toUser, m_stopped, d)
    BY Facts DEF Balance
  <2>2. /\ Number(toScript, ForTask(d)) \in Nat /\ Number(m_waits, WaitsOf(d)) \in Nat
        /\ Number(toUser', {Complete(d)}) \in Nat
        /\ Number(toUser, {Complete(d)}) = Number(toUser', {Complete(d)}) + IF d = c THEN 1 ELSE 0
    BY <1>2, <1>7, Facts
  <2>3. d \in m_stopped' <=> d \in m_stopped \/ d = c
    BY <1>11
  <2>. QED
    BY <1>10, <2>1, <2>2, <2>3 DEF EndsSum
<1>18. Handed'
  <2>1. \A p \in Processes : Number(toScript', HandsOf(p)) \in Nat
    BY <1>1, Facts
  <2>. QED
    BY <1>1, <1>2, <1>4, <2>1, HandedMoved
<1>19. Interrupts'
  BY <1>1, <1>2, <1>7 DEF IInv, Interrupts
<1>. QED
  BY <1>1, <1>15, <1>16, <1>17, <1>18, <1>19, UserClose

\* The user asks for an interrupt.
LEMMA InterruptKeeps ==
    ASSUME IInv, InterruptRunningProcesses
    PROVE  IInv'
<1>0. PICK m, ms : m = [op |-> "confirmInterrupt"] /\ ms = <<m>>
  OBVIOUS
<1>1. /\ ScriptSame /\ calling' = calling /\ m_stopSignal' = TRUE /\ Send(ms)
      /\ UNCHANGED <<loops, ended, m_outputState, lastId, tasks>>
      /\ loops' = loops /\ ended' = ended /\ m_outputState' = m_outputState /\ m_stopped' = m_stopped
      /\ lastId' = lastId /\ tasks' = tasks /\ breaks' = breaks + 1 /\ toUser' = toUser
      /\ ~m_interrupting /\ m_interrupting' = TRUE /\ m_interruptedProcesses' = m_interruptedProcesses
  BY <1>0 DEF InterruptRunningProcesses, ScriptSame, script, user
<1>2. /\ m \in ToScript /\ m \notin ScriptTokens /\ m \notin Executes /\ m \in ConfirmRequest
      /\ \A d \in Controls : m \notin ForTask(d)
      /\ \A p \in Processes : /\ m \notin ContinuesOf(p) /\ m \notin HandsOf(p)
                              /\ m \notin {Detach(p)} /\ m \notin Uses(p)
  BY <1>0, OtherClass
<1>3. ms \in Seq(ToScript) /\ \A M : Number(ms, M) = IF m \in M THEN 1 ELSE 0
  BY <1>0, <1>2, Messages
<1>4. /\ toScript' \in Seq(ToScript)
      /\ \A M : /\ Number(toScript, M) \in Nat /\ Number(toScript', M) \in Nat
                /\ Number(toScript', M) = Number(toScript, M) + Number(ms, M)
  BY <1>1, <1>3, Sent
<1>5. /\ \A r \in Processes : Number(ms, Uses(r)) = 0
      /\ \A r \in Processes : Number(ms, {Detach(r)}) = 0
      /\ \A c \in Controls : Number(ms, ForTask(c)) = 0
      /\ Number(ms, Executes) = 0
      /\ Number(ms, ConfirmRequest) = 1
      /\ Number(ms, ScriptTokens) = 0
  BY <1>2, <1>3
<1>6. /\ \A r \in Processes : Number(ms, HandsOf(r)) = 0
      /\ \A r \in Processes : Number(ms, ContinuesOf(r)) = 0
  BY <1>2, <1>3
<1>7. /\ Tokens' <= 1 /\ (Tokens' > 0 => Tokens > 0)
      /\ \A p \in Processes : HasToken(p)' <=> HasToken(p)
  <2>1. Number(toScript', ScriptTokens) = Number(toScript, ScriptTokens)
    BY <1>4, <1>5
  <2>2. \A p \in Processes : Number(toScript', ContinuesOf(p)) = Number(toScript, ContinuesOf(p))
    BY <1>4, <1>6
  <2>. QED
    BY <1>1, <2>1, <2>2, TokensSame
<1>8. /\ OneToken' /\ Attached' /\ Stack' /\ Outputs' /\ Dialogs' /\ Keymaps'
      /\ Users' /\ Later' /\ Detaches' /\ Credits' /\ News'
  <2>1. Number(toUser', ToShow) \in Nat /\ Number(toUser', ToShow) <= Number(toUser, ToShow)
    BY <1>1, Facts
  <2>2. m_stopped \subseteq m_stopped' /\ \A r, t \in m_interruptedProcesses' : r = t
    BY <1>1 DEF IInv, OneToken
  <2>3. \A c, k \in Controls : Precedes(toUser, Complete(c), Complete(k)) =>
          Precedes(toUser', Complete(c), Complete(k)) \/ c \in m_stopped'
    BY <1>1
  <2>. QED
    BY <1>1, <1>3, <1>5, <1>7, <2>1, <2>2, <2>3, LoopsSame
<1>9. UserTyped
  BY <1>1, <1>4, UserTypes DEF UserTyped
<1>10. Balance'
  <2>1. ASSUME NEW c \in Controls
        PROVE  Number(toScript', ForTask(c)) = Number(toScript, ForTask(c))
    BY <1>4, <1>5
  <2>. QED
    BY <1>1, <2>1, Facts DEF Balance, EndsSum, ScriptSame
<1>11. Handed'
  <2>1. ASSUME NEW r \in Processes
        PROVE  Number(toUser', AsksOf(r)) + Number(toScript', HandsOf(r))
                 = Number(toUser, AsksOf(r)) + Number(toScript, HandsOf(r))
    BY <1>1, <1>4, <1>6
  <2>2. \A r \in Processes : Number(toUser', AsksOf(r)) \in Nat /\ Number(toScript', HandsOf(r)) \in Nat
    BY <1>1, <1>4, Facts
  <2>. QED
    BY <1>1, <2>1, <2>2, HandedMoved
<1>12. Interrupts'
  <2>1. /\ Number(toScript, ConfirmRequest) + Number(toUser, Confirmation) + Number(loops, {Ask}) = 0
        /\ m_stopSignal <=> Number(toScript, ConfirmRequest) = 1
    BY <1>1 DEF IInv, Interrupts
  <2>2. /\ Number(toScript, ConfirmRequest) \in Nat /\ Number(toUser, Confirmation) \in Nat
        /\ Number(loops, {Ask}) \in Nat
    BY Facts
  <2>3. Number(toScript', ConfirmRequest) = 1
    BY <1>4, <1>5, <2>1, <2>2
  <2>. QED
    BY <1>1, <2>1, <2>2, <2>3 DEF Interrupts
<1>. QED
  BY <1>1, <1>8, <1>9, <1>10, <1>11, <1>12, UserClose

\* Event loops that are no Control's own come and go; the Controls stay as they are.
LEMMA LoopsChange ==
    ASSUME IInv, ScriptSame, UNCHANGED <<ended, m_outputState, lastId>>,
           loops' \in Seq(Frames), Owns(loops') = Owns(loops),
           \A i \in Owns(loops) : loops'[i] = loops[i],
           \A i \in DOMAIN loops' : IsOwn(loops'[i]) \/ loops'[i].link = None,
           TopControl' = TopControl, TopControl \notin ended \/ ~IsOwn(Top),
           \A i \in DOMAIN loops : loops[i].loop = "keymap" =>
             (loops[i].parent \in m_stopped => loops[i].parent \in m_stopped'),
           NEW ms \in Seq(ToScript), Send(ms),
           \A p \in Processes : Number(ms, Uses(p)) = 0,
           \A p \in Processes : Number(ms, {Detach(p)}) = 0,
           \A p \in Processes : HasToken(p)' => HasToken(p),
           \A c, k \in Controls : Precedes(toUser, Complete(c), Complete(k)) =>
             Precedes(toUser', Complete(c), Complete(k))
    PROVE  Outputs' /\ Dialogs' /\ Keymaps' /\ Users' /\ Later' /\ Detaches'
<1>0. /\ Outputs /\ Dialogs /\ Keymaps /\ Users /\ Later /\ Detaches
  BY DEF IInv
<1>1. /\ ended' = ended /\ m_outputState' = m_outputState /\ lastId' = lastId
      /\ state' = state /\ group' = group /\ m_waits' = m_waits /\ calls' = calls
  BY DEF ScriptSame
<1>2. /\ \A M : /\ Number(toScript, M) \in Nat /\ Number(ms, M) \in Nat
                /\ Number(toScript', M) = Number(toScript, M) + Number(ms, M)
  BY Sent
<1>3. ASSUME NEW p \in Processes PROVE Number(toScript', {Detach(p)}) = Number(toScript, {Detach(p)})
  <2>1. Number(ms, {Detach(p)}) = 0
    OBVIOUS
  <2>2. /\ Number(toScript', {Detach(p)}) = Number(toScript, {Detach(p)}) + Number(ms, {Detach(p)})
        /\ Number(toScript, {Detach(p)}) \in Nat
    BY <1>2
  <2>. QED
    BY <2>1, <2>2
<1>4. /\ \A i \in DOMAIN loops' : IsOwn(loops'[i]) => i \in Owns(loops)
      /\ \A i \in Owns(loops) : i \in DOMAIN loops
  BY DEF Owns
<1>5. \A i \in DOMAIN loops' :
        loops'[i].loop \in {"dialog", "keymap"} => i \in DOMAIN loops /\ i \in Owns(loops) /\ loops'[i] = loops[i]
  BY <1>4, OwnFrames
<1>6. Outputs'
  <2>1. ASSUME NEW i \in Owns(loops), loops[i].id \in ended
        PROVE  loops[i].id = TopControl /\ Output(i, m_outputState[loops[i].id])'
    <3>1. loops[i].id = TopControl /\ Output(i, m_outputState[loops[i].id])
      BY <1>0, <2>1 DEF Outputs
    <3>2. i # Len(loops)
      <4>1. IsOwn(loops[i]) /\ TopControl \in ended
        BY <2>1, <3>1 DEF Owns
      <4>2. Top = loops[Len(loops)]
        BY TopFacts
      <4>. QED
        BY <4>1, <4>2
    <3>3. loops'[i] = loops[i] /\ m_waits' = m_waits /\ group' = group
      BY <1>1
    <3>. QED
      BY <1>1, <3>1, <3>2, <3>3 DEF Output
  <2>. QED
    BY <1>0, <1>1, <2>1 DEF Outputs
<1>7. Dialogs'
  <2> SUFFICES ASSUME NEW i \in DOMAIN loops'
               PROVE  IF loops'[i].loop = "dialog"
                      THEN loops'[i].link # None /\ Waits(m_waits', loops'[i].parent, group'[loops'[i].link])
                      ELSE loops'[i].link = None \/ loops'[i].loop = "null"
    BY DEF Dialogs
  <2>1. CASE i \in Owns(loops)
    <3>1. loops'[i] = loops[i] /\ i \in DOMAIN loops
      BY <1>4, <2>1
    <3>. QED
      BY <1>0, <1>1, <3>1 DEF Dialogs
  <2>2. CASE i \notin Owns(loops)
    BY <1>4, <1>5, <2>2
  <2>. QED
    BY <2>1, <2>2
<1>8. Keymaps'
  <2> SUFFICES ASSUME NEW i \in DOMAIN loops', loops'[i].loop = "keymap",
                      NEW c, NEW k, c = loops'[i].parent, k = loops'[i].id
               PROVE  ParentFirst(c, k)'
    BY DEF Keymaps
  <2>1. i \in DOMAIN loops /\ loops'[i] = loops[i]
    BY <1>5
  <2>2. loops[i].loop = "keymap" /\ c = loops[i].parent /\ k = loops[i].id
    BY <2>1
  <2>3. c \in Controls /\ k \in Controls
    BY <2>1, <2>2, Parents, Facts
  <2>4. ParentFirst(c, k)
    BY <1>0, <2>1, <2>2 DEF Keymaps
  <2>5. c \in m_stopped => c \in m_stopped'
    BY <2>1, <2>2
  <2>. QED
    BY <2>3, <2>4, <2>5, SentFirst
<1>9. Users' /\ Later'
  BY SentUses
<1>10. Detaches'
  <2> SUFFICES ASSUME NEW p \in Processes, Number(toScript', {Detach(p)}) > 0
               PROVE  /\ ~HasToken(p)'
                      /\ \A i \in DOMAIN loops' : loops'[i].link # p \/ loops'[i].loop = "null"
                      /\ \A i \in Owns(loops') : loops'[i].loop = "keymap" => m_outputState[loops'[i].id].link # p
    BY <1>1 DEF Detaches
  <2>1. /\ ~HasToken(p)
        /\ \A i \in DOMAIN loops : loops[i].link # p \/ loops[i].loop = "null"
        /\ \A i \in Owns(loops) : loops[i].loop = "keymap" => m_outputState[loops[i].id].link # p
    BY <1>0, <1>3 DEF Detaches
  <2>2. p # None
    BY Bounds
  <2>3. \A i \in DOMAIN loops' : loops'[i].link # p \/ loops'[i].loop = "null"
    BY <1>4, <2>1, <2>2
  <2>. QED
    BY <2>1, <2>3
<1>. QED
  BY <1>6, <1>7, <1>8, <1>9, <1>10

\* The interrupted process is in no hand but the question's.
LEMMA ConfirmedKeeps ==
    ASSUME IInv, OnInterruptConfirm
    PROVE  IInv'
<1>1. /\ Handles("onInterruptConfirm") /\ ScriptSame /\ calling' = calling /\ m_stopSignal' = m_stopSignal
      /\ toScript' = toScript /\ UNCHANGED <<ended, m_outputState, lastId>>
      /\ m_stopped' = m_stopped /\ ended' = ended /\ m_outputState' = m_outputState
      /\ lastId' = lastId /\ tasks' = tasks /\ breaks' = breaks
      /\ m_interruptedProcesses' = m_interruptedProcesses
      /\ \/ /\ m_interruptedProcesses # {}
            /\ loops' = Append(loops, Ask) /\ m_interrupting' = m_interrupting
         \/ /\ m_interruptedProcesses = {}
            /\ m_interrupting' = FALSE /\ loops' = loops
  BY DEF OnInterruptConfirm, ScriptSame, script, bounds
<1>2. /\ toUser' \in Seq(ToUser)
      /\ \A M : /\ Number(toUser, M) \in Nat /\ Number(toUser', M) \in Nat
                /\ Number(toUser, M) = Number(toUser', M) + IF Head(toUser) \in M THEN 1 ELSE 0
      /\ \A A, B : Followed(toUser, A, B) => Followed(toUser', A, B)
      /\ \A x, y : Precedes(toUser, x, y) /\ Head(toUser) # x => Precedes(toUser', x, y)
      /\ Head(toUser) \in ToUser /\ Head(toUser).op = "onInterruptConfirm" /\ ~Stops
  BY <1>1, Handling
<1>3. "onInterruptConfirm" \notin Asks
  BY CalloutsAssumption DEF Asks
<1>4. /\ Number(toUser', UserTokens) = Number(toUser, UserTokens)
      /\ Number(toUser', ToShow) = Number(toUser, ToShow)
      /\ \A p \in Processes : Number(toUser', AsksOf(p)) = Number(toUser, AsksOf(p))
  BY <1>1, <1>3, OtherFacts
<1>5. Head(toUser) \in Confirmation /\ \A c \in Controls : Head(toUser) # Complete(c)
  <2>1. Head(toUser) = [op |-> "onInterruptConfirm"]
    BY <1>2, UserForms
  <2>. QED
    BY <2>1, AnswerClass
<1>6. /\ Number(toUser, Confirmation) = Number(toUser', Confirmation) + 1
      /\ \A c \in Controls : Number(toUser', {Complete(c)}) = Number(toUser, {Complete(c)})
      /\ \A c, k \in Controls : Precedes(toUser, Complete(c), Complete(k)) =>
           Precedes(toUser', Complete(c), Complete(k))
  BY <1>2, <1>5
<1>7. /\ m_interrupting /\ ~m_stopSignal
      /\ Number(toScript, ConfirmRequest) = 0 /\ Number(toUser', Confirmation) = 0
      /\ Number(loops, {Ask}) = 0 /\ Followed(toUser', Interruptions, Confirmation)
  <2>1. /\ Number(toScript, ConfirmRequest) + Number(toUser, Confirmation) + Number(loops, {Ask})
             = IF m_interrupting THEN 1 ELSE 0
        /\ m_stopSignal <=> Number(toScript, ConfirmRequest) = 1
        /\ m_stopSignal \/ Followed(toUser, Interruptions, Confirmation)
    BY DEF IInv, Interrupts
  <2>2. /\ Number(toScript, ConfirmRequest) \in Nat /\ Number(toUser', Confirmation) \in Nat
        /\ Number(loops, {Ask}) \in Nat
    BY <1>2, Facts
  <2>. QED
    BY <1>2, <1>6, <2>1, <2>2
<1>8. /\ <<>> \in Seq(ToScript) /\ Send(<<>>) /\ toScript' \in Seq(ToScript)
      /\ \A M : Number(<<>>, M) = 0
  BY <1>1, NothingSent
<1>9. /\ Tokens' <= 1 /\ (Tokens' > 0 => Tokens > 0)
      /\ \A p \in Processes : HasToken(p)' <=> HasToken(p)
  BY <1>1, <1>4, TokensSame
<1>10. /\ \A p \in Processes : Number(<<>>, Uses(p)) = 0
       /\ \A p \in Processes : Number(<<>>, {Detach(p)}) = 0
       /\ \A d \in Controls : Number(<<>>, ForTask(d)) = 0
       /\ Number(<<>>, Executes) = 0
  BY <1>8
<1>11. Number(toUser', ToShow) \in Nat /\ Number(toUser', ToShow) <= Number(toUser, ToShow)
  BY <1>2, <1>4
<1>12. m_stopped \subseteq m_stopped' /\ \A r, t \in m_interruptedProcesses' : r = t
  BY <1>1 DEF IInv, OneToken
<1>13. \A r \in Processes : Number(toUser', AsksOf(r)) \in Nat /\ Number(toScript', HandsOf(r)) \in Nat
  BY <1>1, <1>2, Facts
<1>14. \A p \in Processes : HasToken(p)' => HasToken(p)
  BY <1>9
<1>15. CASE m_interruptedProcesses = {}
  <2>1. m_interrupting' = FALSE /\ loops' = loops
    BY <1>1, <1>15
  <2>2. UNCHANGED <<loops, ended, m_outputState, lastId, tasks>>
    BY <1>1, <2>1
  <2>3. m_interruptedProcesses # {} => m_interruptedProcesses' # {}
    BY <1>15
  <2>4. \A c, k \in Controls : Precedes(toUser, Complete(c), Complete(k)) =>
          Precedes(toUser', Complete(c), Complete(k)) \/ c \in m_stopped'
    BY <1>6
  <2>5. /\ OneToken' /\ Attached' /\ Stack' /\ Outputs' /\ Dialogs' /\ Keymaps'
        /\ Users' /\ Later' /\ Detaches' /\ Credits' /\ News'
    <3>1. ScriptSame /\ Send(<<>>) /\ Tokens' <= 1 /\ (Tokens' > 0 => Tokens > 0)
      BY <1>1, <1>8, <1>9
    <3>. QED
      BY <1>8, <1>10, <1>11, <1>12, <1>14, <2>2, <2>3, <2>4, <3>1, LoopsSame
  <2>6. UserTyped
    BY <1>1, <1>2, <1>8, <2>1, UserTypes DEF UserTyped
  <2>7. Balance'
    BY <1>1, <1>6, <2>1, Facts DEF Balance, EndsSum, ScriptSame
  <2>8. Handed'
    BY <1>1, <1>4, <1>13, <2>1, HandedMoved
  <2>9. Interrupts'
    BY <1>1, <1>7, <1>15, <2>1 DEF Interrupts
  <2>. QED
    BY <1>1, <2>5, <2>6, <2>7, <2>8, <2>9, UserClose
<1>16. CASE m_interruptedProcesses # {}
  <2>1. m_interrupting' = m_interrupting /\ loops' = Append(loops, Ask)
    BY <1>1, <1>16
  <2>2. Once(loops)
    BY <1>2, <1>7, <1>16, IdleFacts, OnceFacts
  <2>3. /\ loops \in Seq(Frames) /\ loops # <<>> /\ Stacked(loops, m_stopped, lastId) /\ lastId \in Nat
        /\ Ask \in Frames
    BY Facts, FrameTypes
  <2>4. /\ Stacked(Append(loops, Ask), m_stopped, lastId) /\ Innermost(Append(loops, Ask)) = Innermost(loops)
    BY <2>2, <2>3, PushTop
  <2>5. /\ loops' \in Seq(Frames) /\ loops' # <<>> /\ DOMAIN loops' = 1..Len(loops) + 1
        /\ DOMAIN loops = 1..Len(loops) /\ Len(loops) \in Nat
        /\ \A i \in 1..Len(loops) : loops'[i] = loops[i]
        /\ loops'[Len(loops) + 1] = Ask
        /\ Owns(loops') = Owns(loops) /\ ControlsIn(loops') = ControlsIn(loops)
        /\ \A M : Number(loops', M) = Number(loops, M) + IF Ask \in M THEN 1 ELSE 0
    BY <2>1, <2>3, OwnsAppend, OwnFrames, NumberAppend
  <2>6. TopControl' = TopControl
    BY <2>1, <2>4, TopControlIs
  <2>7. Stack'
    <3>1. Stacked(loops', m_stopped', lastId')
      BY <1>1, <2>1, <2>4
    <3>. QED
      BY <1>1, <1>16, <3>1 DEF Stack
  <2>8. PICK r \in Processes : HasToken(r)
    BY <1>16, UserTypes DEF HasToken
  <2>9. TopControl \notin ended
    BY <2>8, TokenOf DEF IInv, Attached
  <2>10. Outputs' /\ Dialogs' /\ Keymaps' /\ Users' /\ Later' /\ Detaches'
    <3>1. \A i \in Owns(loops) : loops'[i] = loops[i]
      BY <2>5 DEF Owns
    <3>2. \A i \in DOMAIN loops' : IsOwn(loops'[i]) \/ loops'[i].link = None
      <4> SUFFICES ASSUME NEW i \in DOMAIN loops' PROVE IsOwn(loops'[i]) \/ loops'[i].link = None
        OBVIOUS
      <4>1. CASE i = Len(loops) + 1
        BY <2>5, <4>1, OwnFrames
      <4>2. CASE i # Len(loops) + 1
        <5>1. i \in DOMAIN loops /\ loops'[i] = loops[i]
          BY <2>5, <4>2
        <5>2. loops[i].loop # "dialog" => loops[i].link = None \/ loops[i].loop = "null"
          BY <5>1 DEF IInv, Dialogs
        <5>. QED
          BY <5>1, <5>2, OwnFrames
      <4>. QED
        BY <4>1, <4>2
    <3>3. \A i \in DOMAIN loops : loops[i].loop = "keymap" =>
            (loops[i].parent \in m_stopped => loops[i].parent \in m_stopped')
      BY <1>1
    <3>. QED
      BY <1>1, <1>6, <1>8, <1>10, <1>14, <2>5, <2>6, <2>9, <3>1, <3>2, <3>3, LoopsChange
  <2>11. OneToken' /\ Attached' /\ Credits' /\ News'
    <3>1. OneToken'
      BY <1>1, <1>9, <1>12 DEF IInv, OneToken, ScriptSame
    <3>2. Attached'
      BY <1>1, <1>9, <2>6 DEF IInv, Attached, ScriptSame
    <3>3. Credits'
      BY <1>1, <1>4, <2>6 DEF IInv, Credits, ScriptSame
    <3>4. News'
      BY <1>1 DEF IInv, News, NewOnes, ScriptSame
    <3>. QED
      BY <3>1, <3>2, <3>3, <3>4
  <2>12. UserTyped
    BY <1>1, <1>2, <1>8, <2>1, <2>5, UserTypes DEF UserTyped
  <2>13. Balance'
    <3>1. \A c \in Controls : Number(loops', {Wait(c)}) = Number(loops, {Wait(c)})
      <4>1. \A c \in Controls : Ask \notin {Wait(c)}
        BY OwnFrames
      <4>. QED
        BY <2>5, <4>1, Facts
    <3>. QED
      BY <1>1, <1>6, <3>1, Facts DEF Balance, EndsSum, ScriptSame
  <2>14. Handed'
    <3>1. \A p \in Processes : Number(loops', FramesOf(p)) = Number(loops, FramesOf(p))
      <4>1. \A p \in Processes : Ask \notin FramesOf(p)
        BY OwnFrames, Bounds DEF FramesOf
      <4>. QED
        BY <2>5, <4>1, Facts
    <3>. QED
      BY <1>1, <1>4, <2>5, <3>1, Facts DEF Handed, HandsSum, ScriptSame
  <2>15. Interrupts'
    <3>1. Number(loops', {Ask}) = 1
      BY <1>7, <2>5
    <3>. QED
      BY <1>1, <1>7, <2>1, <3>1 DEF Interrupts
  <2>. QED
    BY <1>1, <2>7, <2>10, <2>11, <2>12, <2>13, <2>14, <2>15, UserClose
<1>. QED
  BY <1>15, <1>16

\* A command is entered: its process is new.
LEMMA EnterCommandKeeps ==
    ASSUME IInv, EnterCommand
    PROVE  IInv'
<1>0. PICK c, m, ms : c = Top.id /\ m = Execute(c) /\ ms = <<m>>
  OBVIOUS
<1>1. /\ ScriptSame /\ calling' = calling /\ m_stopSignal' = m_stopSignal /\ toUser' = toUser
      /\ UNCHANGED <<ended, m_outputState, lastId>>
      /\ m_stopped' = m_stopped /\ ended' = ended /\ m_outputState' = m_outputState
      /\ lastId' = lastId /\ breaks' = breaks
      /\ m_interrupting' = m_interrupting /\ m_interruptedProcesses' = m_interruptedProcesses
      /\ ~Stops /\ Top.loop \in {"screen", "dialog", "console"} /\ tasks < MaxTasks
      /\ tasks' = tasks + 1 /\ loops' = Append(loops, Wait(c)) /\ Send(ms)
  BY <1>0 DEF EnterCommand, Acts, ExecuteTask, ScriptSame, script, interrupt
<1>2. /\ Idle(loops) /\ c = TopControl /\ c \in Controls /\ c = Innermost(loops) /\ Top.id = c
  <2>1. IsOwn(Top)
    BY <1>1, OwnFrames
  <2>. QED
    BY <1>0, <2>1, TopFacts
<1>3. c \notin ended
  BY <1>1, <1>2, OwnFrames DEF Stops
<1>4. /\ NoneRunning(state) /\ m_interruptedProcesses = {}
      /\ Number(toUser, UserTokens) = 0 /\ Number(toScript, ScriptTokens) = 0
      /\ \A p \in Processes : Number(toUser, AsksOf(p)) = 0 /\ Number(toScript, ContinuesOf(p)) = 0
      /\ \A p \in Processes : ~HasToken(p)
      /\ \A d \in Controls : Number(toScript, ForTask(d)) = 0
      /\ Number(loops, {Wait(c)}) = 0
  BY <1>2, IdleFacts
<1>5. /\ m \in ToScript /\ m \in ScriptTokens /\ m \in Executes /\ m \notin ConfirmRequest
      /\ \A d \in Controls : m \in ForTask(d) <=> d = c
      /\ \A p \in Processes : /\ m \notin ContinuesOf(p) /\ m \notin HandsOf(p)
                              /\ m \notin {Detach(p)} /\ m \notin Uses(p)
  BY <1>0, <1>2, ExecuteClass
<1>6. ms \in Seq(ToScript) /\ \A M : Number(ms, M) = IF m \in M THEN 1 ELSE 0
  BY <1>0, <1>5, Messages
<1>7. /\ toScript' \in Seq(ToScript)
      /\ \A M : /\ Number(toScript, M) \in Nat /\ Number(toScript', M) \in Nat
                /\ Number(toScript', M) = Number(toScript, M) + Number(ms, M)
  BY <1>1, <1>6, Sent
<1>8. /\ \A r \in Processes : Number(ms, Uses(r)) = 0
      /\ \A r \in Processes : Number(ms, {Detach(r)}) = 0
      /\ \A d \in Controls : Number(ms, ForTask(d)) = IF d = c THEN 1 ELSE 0
      /\ Number(ms, Executes) = 1
      /\ Number(ms, ConfirmRequest) = 0
  BY <1>5, <1>6
<1>9. /\ \A r \in Processes : Number(ms, HandsOf(r)) = 0
      /\ \A r \in Processes : Number(ms, ContinuesOf(r)) = 0
      /\ Number(ms, ScriptTokens) = 1
  BY <1>5, <1>6
<1>10. /\ loops \in Seq(Frames) /\ loops # <<>> /\ Stacked(loops, m_stopped, lastId) /\ lastId \in Controls
  BY Facts
<1>11. /\ Wait(c) \in Frames /\ Stacked(Append(loops, Wait(c)), m_stopped, lastId)
       /\ Innermost(Append(loops, Wait(c))) = c
  BY <1>2, <1>10, PushWait
<1>12. /\ loops' \in Seq(Frames) /\ loops' # <<>> /\ DOMAIN loops' = 1..Len(loops) + 1
       /\ DOMAIN loops = 1..Len(loops) /\ Len(loops) \in Nat
       /\ \A i \in 1..Len(loops) : loops'[i] = loops[i]
       /\ loops'[Len(loops) + 1] = Wait(c)
       /\ Owns(loops') = Owns(loops) /\ ControlsIn(loops') = ControlsIn(loops)
       /\ \A M : Number(loops', M) = Number(loops, M) + IF Wait(c) \in M THEN 1 ELSE 0
  BY <1>1, <1>10, <1>11, OwnsAppend, OwnFrames, NumberAppend
<1>13. TopControl' = c /\ TopControl' = TopControl
  BY <1>1, <1>2, <1>11, TopControlIs
<1>14. Stack'
  <2>1. Stacked(loops', m_stopped', lastId')
    BY <1>1, <1>11
  <2>2. ASSUME NEW i \in DOMAIN loops' PROVE loops'[i].loop # "ask"
    <3>1. CASE i = Len(loops) + 1
      BY <1>12, <3>1, OwnFrames
    <3>2. CASE i # Len(loops) + 1
      <4>1. i \in DOMAIN loops /\ loops'[i] = loops[i]
        BY <1>12, <3>2
      <4>. QED
        BY <1>4, <4>1 DEF IInv, Stack
    <3>. QED
      BY <3>1, <3>2
  <2>. QED
    BY <2>1, <2>2 DEF Stack
<1>15. ASSUME NEW p \in Processes PROVE ~HasToken(p)'
  <2>1. Number(toScript', ContinuesOf(p)) = 0
    BY <1>4, <1>7, <1>9
  <2>. QED
    BY <1>1, <1>4, <2>1 DEF HasToken, NoneRunning, ScriptSame
<1>16. Outputs' /\ Dialogs' /\ Keymaps' /\ Users' /\ Later' /\ Detaches'
  <2>1. \A i \in Owns(loops) : loops'[i] = loops[i]
    BY <1>12 DEF Owns
  <2>2. \A i \in DOMAIN loops' : IsOwn(loops'[i]) \/ loops'[i].link = None
    <3> SUFFICES ASSUME NEW i \in DOMAIN loops' PROVE IsOwn(loops'[i]) \/ loops'[i].link = None
      OBVIOUS
    <3>1. CASE i = Len(loops) + 1
      BY <1>12, <3>1, OwnFrames
    <3>2. CASE i # Len(loops) + 1
      <4>1. i \in DOMAIN loops /\ loops'[i] = loops[i]
        BY <1>12, <3>2
      <4>2. loops[i].loop # "dialog" => loops[i].link = None \/ loops[i].loop = "null"
        BY <4>1 DEF IInv, Dialogs
      <4>. QED
        BY <4>1, <4>2, OwnFrames
    <3>. QED
      BY <3>1, <3>2
  <2>3. \A i \in DOMAIN loops : loops[i].loop = "keymap" =>
          (loops[i].parent \in m_stopped => loops[i].parent \in m_stopped')
    BY <1>1
  <2>4. \A p \in Processes : HasToken(p)' => HasToken(p)
    BY <1>15
  <2>5. \A d, k \in Controls : Precedes(toUser, Complete(d), Complete(k)) =>
          Precedes(toUser', Complete(d), Complete(k))
    BY <1>1
  <2>6. TopControl \notin ended
    BY <1>2, <1>3
  <2>. QED
    BY <1>1, <1>6, <1>8, <1>12, <1>13, <2>1, <2>2, <2>3, <2>4, <2>5, <2>6, LoopsChange
<1>17. OneToken'
  <2>1. Tokens' <= 1
    BY <1>1, <1>4, <1>7, <1>9 DEF Tokens, Running, Interrupted, ScriptSame
  <2>. QED
    BY <1>1, <2>1 DEF IInv, OneToken, ScriptSame
<1>18. Attached'
  <2>1. TopControl' \notin ended'
    BY <1>1, <1>3, <1>13
  <2>2. ASSUME NEW d \in Controls, Number(toScript', ForTask(d)) > 0 PROVE d = TopControl'
    BY <1>4, <1>7, <1>8, <1>13, <2>2
  <2>. QED
    BY <1>15, <2>1, <2>2 DEF Attached
<1>19. Credits'
  BY <1>1, <1>13 DEF IInv, Credits, ScriptSame
<1>20. News'
  BY <1>1, Bounds, StateTypes DEF News
<1>21. UserTyped
  BY <1>1, <1>7, <1>12, UserTypes DEF UserTyped
<1>22. Balance'
  <2> SUFFICES ASSUME NEW d \in Controls
               PROVE  Number(loops', {Wait(d)}) = EndsSum(toScript', m_waits, toUser, m_stopped, d)
    BY <1>1 DEF Balance, ScriptSame
  <2>1. Number(loops, {Wait(d)}) = EndsSum(toScript, m_waits, toUser, m_stopped, d)
    BY Facts DEF Balance
  <2>2. /\ Number(toScript, ForTask(d)) \in Nat /\ Number(m_waits, WaitsOf(d)) \in Nat
        /\ Number(toUser, {Complete(d)}) \in Nat /\ Number(loops, {Wait(d)}) \in Nat
    BY Facts
  <2>3. Number(toScript', ForTask(d)) = Number(toScript, ForTask(d)) + IF d = c THEN 1 ELSE 0
    BY <1>7, <1>8
  <2>4. Number(loops', {Wait(d)}) = Number(loops, {Wait(d)}) + IF d = c THEN 1 ELSE 0
    <3>1. Wait(c) \in {Wait(d)} <=> d = c
      BY OwnFrames
    <3>. QED
      BY <1>12, <3>1
  <2>. QED
    BY <2>1, <2>2, <2>3, <2>4 DEF EndsSum
<1>23. Handed'
  <2> SUFFICES ASSUME NEW p \in Processes
               PROVE  HandsSum(toUser, toScript', loops', m_outputState, m_interruptedProcesses, p)
                        = IF state[p] = "Waiting" THEN 1 ELSE 0
    BY <1>1 DEF Handed, ScriptSame
  <2>1. HandsSum(toUser, toScript, loops, m_outputState, m_interruptedProcesses, p)
          = IF state[p] = "Waiting" THEN 1 ELSE 0
    BY Facts DEF Handed
  <2>2. Number(toScript', HandsOf(p)) = Number(toScript, HandsOf(p))
    BY <1>7, <1>9
  <2>3. Number(loops', FramesOf(p)) = Number(loops, FramesOf(p))
    <3>1. Wait(c) \notin FramesOf(p)
      BY OwnFrames, Bounds DEF FramesOf
    <3>. QED
      BY <1>12, <3>1, Facts
  <2>. QED
    BY <1>12, <2>1, <2>2, <2>3 DEF HandsSum
<1>24. Interrupts'
  <2>1. Number(toScript', ConfirmRequest) = Number(toScript, ConfirmRequest)
    BY <1>7, <1>8
  <2>2. Number(loops', {Ask}) = Number(loops, {Ask})
    <3>1. Wait(c) \notin {Ask}
      BY OwnFrames
    <3>. QED
      BY <1>12, <3>1, Facts
  <2>. QED
    BY <1>1, <2>1, <2>2 DEF IInv, Interrupts
<1>. QED
  BY <1>1, <1>14, <1>16, <1>17, <1>18, <1>19, <1>20, <1>21, <1>22, <1>23, <1>24, UserClose

\* Above the innermost Control, the question or an event loop that waits
LEMMA TopForms ==
    ASSUME IInv, ~IsOwn(Top)
    PROVE  /\ ~Idle(loops) /\ Last(loops) = Top
           /\ Top.loop = "ask" => Top = Ask /\ Asking(loops)
           /\ Top.loop = "wait" => Top = Wait(TopControl) /\ Top.id = TopControl
<1>1. ~Idle(loops) /\ Last(loops) = Top
  BY TopFacts DEF Top
<1>2. CASE Asking(loops)
  <2>1. Top = Ask
    BY <1>2 DEF Asking, Top
  <2>. QED
    BY <1>1, <1>2, <2>1, OwnFrames
<1>3. CASE Once(loops) \/ Twice(loops)
  <2>1. Top = Wait(TopControl)
    BY <1>3, TopFacts DEF Once, Twice, Top
  <2>. QED
    BY <1>1, <2>1, OwnFrames
<1>. QED
  BY <1>1, <1>2, <1>3, TopFacts

\* The topmost event loop, which is no Control's own, ends.
LEMMA TopEnds ==
    ASSUME IInv, ~IsOwn(Top), loops' = Front(loops), lastId' = lastId,
           \/ m_interruptedProcesses' = m_interruptedProcesses
           \/ \A i \in DOMAIN loops' : loops'[i].loop # "ask"
    PROVE  /\ loops' \in Seq(Frames) /\ loops' # <<>> /\ Stack'
           /\ Owns(loops') = Owns(loops) /\ ControlsIn(loops') = ControlsIn(loops)
           /\ TopControl' = TopControl
           /\ \A i \in Owns(loops) : loops'[i] = loops[i]
           /\ \A i \in DOMAIN loops' : IsOwn(loops'[i]) \/ loops'[i].link = None
           /\ \A M : Number(loops, M) = Number(loops', M) + IF Top \in M THEN 1 ELSE 0
<1>1. ~Idle(loops) /\ Last(loops) = Top
  BY TopForms
<1>2. /\ loops \in Seq(Frames) /\ loops # <<>> /\ Stacked(loops, m_stopped, lastId) /\ lastId \in Nat
      /\ DOMAIN loops = 1..Len(loops) /\ Len(loops) \in Nat
  BY Facts
<1>3. /\ loops' \in Seq(Frames) /\ loops' # <<>>
      /\ Owns(loops') = Owns(loops) /\ ControlsIn(loops') = ControlsIn(loops)
      /\ Innermost(loops') = Innermost(loops)
  BY <1>1, <1>2, PopTop
<1>4. TopControl' = TopControl
  BY <1>3, TopControlIs
<1>5. /\ DOMAIN loops' = 1..(Len(loops) - 1)
      /\ \A i \in 1..(Len(loops) - 1) : loops'[i] = loops[i]
  BY <1>2, FrontLast
<1>6. \A i \in DOMAIN loops' : i \in DOMAIN loops /\ loops'[i] = loops[i]
  BY <1>2, <1>5
<1>7. \A i \in Owns(loops) : loops'[i] = loops[i]
  BY <1>3, <1>6 DEF Owns
<1>8. \A i \in DOMAIN loops' : IsOwn(loops'[i]) \/ loops'[i].link = None
  <2>1. \A i \in DOMAIN loops : loops[i].loop \notin {"dialog", "null"} => loops[i].link = None
    BY DEF IInv, Dialogs
  <2>. QED
    BY <1>6, <2>1, OwnFrames
<1>9. \A M : Number(loops, M) = Number(loops', M) + IF Top \in M THEN 1 ELSE 0
  BY <1>1, <1>2, NumberFront
<1>10. Stack'
  <2>1. Stacked(loops', m_stopped', lastId')
    BY <1>2, FrontPlain
  <2>2. \A i \in DOMAIN loops' : loops'[i].loop = "ask" => m_interruptedProcesses' # {}
    <3>1. \A i \in DOMAIN loops : loops[i].loop = "ask" => m_interruptedProcesses # {}
      BY DEF IInv, Stack
    <3>. QED
      BY <1>6, <3>1
  <2>. QED
    BY <2>1, <2>2 DEF Stack
<1>. QED
  BY <1>3, <1>4, <1>7, <1>8, <1>9, <1>10

LEMMA WaitOverKeeps ==
    ASSUME IInv, UserOnly, UNCHANGED <<toUser, toScript, ended, m_outputState, lastId>>,
           Stops, Top.loop = "wait", loops' = Front(loops), m_stopped' = m_stopped \ {Top.id}
    PROVE  IInv'
<1>0. PICK c : c = Top.id
  OBVIOUS
<1>1. /\ UserOnly /\ ScriptSame /\ calling' = calling /\ m_stopSignal' = m_stopSignal
      /\ toUser' = toUser /\ toScript' = toScript
      /\ UNCHANGED <<ended, m_outputState, lastId>>
      /\ ended' = ended /\ m_outputState' = m_outputState
      /\ lastId' = lastId /\ tasks' = tasks /\ breaks' = breaks
      /\ m_interrupting' = m_interrupting /\ m_interruptedProcesses' = m_interruptedProcesses
      /\ Stops /\ Top.loop = "wait" /\ loops' = Front(loops) /\ m_stopped' = m_stopped \ {c}
  BY <1>0, UserOnlySame
<1>2. ~IsOwn(Top) /\ Top.loop # "ask"
  BY <1>1 DEF IsOwn
<1>3. Top = Wait(c) /\ c = TopControl /\ c \in Controls
  BY <1>0, <1>1, <1>2, TopForms, TopFacts
<1>4. c \in m_stopped
  BY <1>0, <1>1, <1>2 DEF Stops
<1>5. /\ loops' \in Seq(Frames) /\ loops' # <<>> /\ Stack'
      /\ Owns(loops') = Owns(loops) /\ ControlsIn(loops') = ControlsIn(loops)
      /\ TopControl' = TopControl
      /\ \A i \in Owns(loops) : loops'[i] = loops[i]
      /\ \A i \in DOMAIN loops' : IsOwn(loops'[i]) \/ loops'[i].link = None
      /\ \A M : Number(loops, M) = Number(loops', M) + IF Top \in M THEN 1 ELSE 0
  BY <1>1, <1>2, TopEnds
<1>6. /\ <<>> \in Seq(ToScript) /\ Send(<<>>) /\ toScript' \in Seq(ToScript)
      /\ \A M : Number(<<>>, M) = 0
  BY <1>1, NothingSent
<1>7. /\ Tokens' <= 1 /\ (Tokens' > 0 => Tokens > 0)
      /\ \A p \in Processes : HasToken(p)' <=> HasToken(p)
  BY <1>1, TokensSame
<1>8. Outputs' /\ Dialogs' /\ Keymaps' /\ Users' /\ Later' /\ Detaches'
  <2>1. \A i \in DOMAIN loops : loops[i].loop = "keymap" =>
          (loops[i].parent \in m_stopped => loops[i].parent \in m_stopped')
    <3> SUFFICES ASSUME NEW i \in DOMAIN loops, loops[i].loop = "keymap" PROVE loops[i].parent # c
      BY <1>1
    <3>1. i \in Owns(loops) /\ i - 2 \in Owns(loops) /\ loops[i-2].id = loops[i].parent
      BY Parents
    <3>2. /\ \A j \in Owns(loops) : loops[j].id = TopControl => j = At(loops)
          /\ \A j \in Owns(loops) : j <= At(loops)
      BY Facts, TopFacts, TopIs
    <3>3. i \in Nat
      BY Facts DEF Owns
    <3>. QED
      BY <1>3, <3>1, <3>2, <3>3
  <2>2. /\ \A p \in Processes : Number(<<>>, Uses(p)) = 0
        /\ \A p \in Processes : Number(<<>>, {Detach(p)}) = 0
    BY <1>6
  <2>3. \A p \in Processes : HasToken(p)' => HasToken(p)
    BY <1>7
  <2>4. \A d, k \in Controls : Precedes(toUser, Complete(d), Complete(k)) =>
          Precedes(toUser', Complete(d), Complete(k))
    BY <1>1
  <2>. QED
    BY <1>1, <1>2, <1>5, <1>6, <2>1, <2>2, <2>3, <2>4, LoopsChange
<1>9. OneToken' /\ Attached' /\ Credits' /\ News'
  <2>1. OneToken'
    BY <1>1, <1>7 DEF IInv, OneToken, ScriptSame
  <2>2. Attached'
    BY <1>1, <1>5, <1>7 DEF IInv, Attached, ScriptSame
  <2>3. Credits'
    BY <1>1, <1>5 DEF IInv, Credits, ScriptSame
  <2>4. News'
    BY <1>1 DEF IInv, News, NewOnes, ScriptSame
  <2>. QED
    BY <2>1, <2>2, <2>3, <2>4
<1>10. UserTyped
  BY <1>1, <1>5, <1>6, UserTypes DEF UserTyped
<1>11. Balance'
  <2> SUFFICES ASSUME NEW d \in Controls
               PROVE  Number(loops', {Wait(d)}) = EndsSum(toScript, m_waits, toUser, m_stopped', d)
    BY <1>1 DEF Balance, ScriptSame
  <2>1. Number(loops, {Wait(d)}) = EndsSum(toScript, m_waits, toUser, m_stopped, d)
    BY Facts DEF Balance
  <2>2. /\ Number(toScript, ForTask(d)) \in Nat /\ Number(m_waits, WaitsOf(d)) \in Nat
        /\ Number(toUser, {Complete(d)}) \in Nat /\ Number(loops', {Wait(d)}) \in Nat
    BY <1>5, Facts, NumberType
  <2>3. Number(loops, {Wait(d)}) = Number(loops', {Wait(d)}) + IF d = c THEN 1 ELSE 0
    <3>1. Top \in {Wait(d)} <=> d = c
      BY <1>3, OwnFrames
    <3>. QED
      BY <1>5, <3>1
  <2>4. d \in m_stopped <=> d \in m_stopped' \/ d = c
    BY <1>1, <1>4
  <2>5. d = c => d \notin m_stopped'
    BY <1>1
  <2>. QED
    BY <2>1, <2>2, <2>3, <2>4, <2>5 DEF EndsSum
<1>12. Handed'
  <2>1. \A p \in Processes : Number(loops', FramesOf(p)) = Number(loops, FramesOf(p))
    <3>1. \A p \in Processes : Top \notin FramesOf(p)
      BY <1>3, OwnFrames, Bounds DEF FramesOf
    <3>2. \A M : Number(loops', M) \in Nat
      BY <1>5, NumberType
    <3>. QED
      BY <1>5, <3>1, <3>2
  <2>. QED
    BY <1>1, <1>5, <2>1, Facts DEF Handed, HandsSum, ScriptSame
<1>13. Interrupts'
  <2>1. Number(loops', {Ask}) = Number(loops, {Ask})
    <3>1. Top \notin {Ask}
      BY <1>3, OwnFrames
    <3>2. \A M : Number(loops', M) \in Nat
      BY <1>5, NumberType
    <3>. QED
      BY <1>5, <3>1, <3>2
  <2>. QED
    BY <1>1, <2>1 DEF IInv, Interrupts
<1>. QED
  BY <1>1, <1>5, <1>8, <1>9, <1>10, <1>11, <1>12, <1>13, UserClose

\* The hook after play() has ended: reset() is sent, with the process that play() has left.
LEMMA HookOverKeeps ==
    ASSUME IInv, UserOnly, UNCHANGED <<toUser, ended, m_outputState, lastId>>,
           Stops, Top.loop = "wait", Below.loop = "null",
           loops' = <<Own("null", Top.id, None, None)>>, Send(<<Reset(Below.link)>>),
           m_stopped' = m_stopped \ {Top.id}
    PROVE  IInv' /\ Tokens' = 0 /\ Len(loops) = 2
<1>0. PICK c, l, m, ms : c = Top.id /\ l = Below.link /\ m = Reset(l) /\ ms = <<m>>
  OBVIOUS
<1>1. /\ ScriptSame /\ calling' = calling /\ m_stopSignal' = m_stopSignal
      /\ toUser' = toUser /\ Send(ms) /\ ended' = ended /\ m_outputState' = m_outputState
      /\ lastId' = lastId /\ tasks' = tasks /\ breaks' = breaks
      /\ m_interrupting' = m_interrupting /\ m_interruptedProcesses' = m_interruptedProcesses
      /\ loops' = <<Own("null", c, None, None)>> /\ m_stopped' = m_stopped \ {c}
  BY <1>0, UserOnlySame
<1>2. Top = Wait(c) /\ c = TopControl /\ c \in Controls /\ c \in m_stopped /\ c <= lastId
  <2>1. ~IsOwn(Top) /\ Top.loop # "ask"
    BY DEF IsOwn
  <2>2. Top = Wait(c) /\ c = TopControl /\ c \in Controls
    BY <1>0, <2>1, TopForms, TopFacts
  <2>. QED
    BY <1>0, <2>1, <2>2, TopFacts DEF Stops
<1>3. /\ Len(loops) = 2 /\ loops[1].loop = "null" /\ loops[1].link = l /\ loops[2] = Wait(c)
      /\ loops[1].id = c /\ l \in Processes \cup {None} /\ loops[1] \in Frames /\ IsOwn(loops[1])
  <2>1. /\ Front(loops) # <<>> /\ Front(loops) \in Seq(Frames)
        /\ Innermost(Front(loops)) = TopControl
    <3>1. ~Idle(loops) /\ TopControl = Innermost(loops)
      BY <1>2, TopFacts, OwnFrames
    <3>. QED
      BY <3>1, Facts, PopTop
  <2>2. /\ DOMAIN Front(loops) = 1..(Len(loops) - 1) /\ Len(Front(loops)) = Len(loops) - 1
        /\ \A i \in 1..(Len(loops) - 1) : Front(loops)[i] = loops[i]
    BY Facts, FrontLast
  <2>3. /\ Below = Front(loops)[Len(Front(loops))] /\ Len(Front(loops)) \in DOMAIN Front(loops)
    BY <2>1, FrontLast DEF Below
  <2>4. /\ Below = loops[Len(loops) - 1] /\ Len(loops) - 1 \in DOMAIN loops
    <3>1. PICK ts, n : ts = Front(loops) /\ n = Len(loops) - 1
      OBVIOUS
    <3>2. Len(ts) = n /\ DOMAIN ts = 1..n /\ \A i \in 1..n : ts[i] = loops[i]
      BY <2>2, <3>1
    <3>3. Below = ts[Len(ts)] /\ Len(ts) \in DOMAIN ts
      BY <2>3, <3>1
    <3>4. n \in 1..n /\ Below = loops[n]
      BY <3>2, <3>3
    <3>5. DOMAIN loops = 1..Len(loops) /\ Len(loops) \in Nat
      BY Facts
    <3>. QED
      BY <3>1, <3>4, <3>5
  <2>5. Len(loops) - 1 = 1
    BY <2>4, Facts, Screens
  <2>6. Len(loops) = 2 /\ loops[1] = Below /\ loops[2] = Wait(c) /\ 1 \in DOMAIN loops
    <3>1. Top = loops[Len(loops)]
      BY TopFacts
    <3>2. Len(loops) \in Nat
      BY Facts
    <3>3. Len(loops) = 2
      BY <2>5, <3>2
    <3>. QED
      BY <1>2, <2>4, <2>5, <3>1, <3>3
  <2>7. loops[1] \in Frames /\ IsOwn(loops[1])
    BY <2>6, Facts, OwnFrames
  <2>8. l \in Processes \cup {None}
    BY <1>0, <2>6, <2>7, FrameTypes DEF Frames
  <2>9. loops[1].id = c
    <3>1. At(loops) \in Owns(loops) /\ loops[At(loops)].id = TopControl
      BY TopFacts
    <3>2. At(loops) \in {1, 2} /\ IsOwn(loops[At(loops)])
      BY <2>6, <3>1, Facts DEF Owns
    <3>3. At(loops) = 1
      BY <2>6, <3>2, OwnFrames
    <3>. QED
      BY <1>2, <3>1, <3>3
  <2>. QED
    BY <1>0, <2>6, <2>7, <2>8, <2>9
<1>4. /\ loops = <<loops[1], Wait(c)>>
      /\ \A M : Number(loops, M) = (IF loops[1] \in M THEN 1 ELSE 0) + (IF Wait(c) \in M THEN 1 ELSE 0)
  <2>1. PICK f : f = loops[1]
    OBVIOUS
  <2>2. Wait(c) \in Frames /\ f \in Frames
    BY <1>2, <1>3, <2>1, FrameTypes
  <2>3. Append(<<f>>, Wait(c)) = <<f, Wait(c)>>
    BY Pairs
  <2>4. loops = <<f, Wait(c)>>
    <3> DEFINE ts == <<f, Wait(c)>>
    <3>1. ts \in Seq(Frames) /\ Len(ts) = 2 /\ ts[1] = f /\ ts[2] = Wait(c)
      BY <2>2
    <3>2. \A i \in 1..2 : i = 1 \/ i = 2
      OBVIOUS
    <3> HIDE DEF ts
    <3>3. loops = ts
      BY <1>3, <2>1, <3>1, <3>2, Facts, SeqEqual
    <3>. QED
      BY <3>3 DEF ts
  <2>5. <<f>> \in Seq(Frames) /\ \A M : Number(<<f>>, M) = IF f \in M THEN 1 ELSE 0
    BY <2>2, NumberOne
  <2>6. \A M : Number(Append(<<f>>, Wait(c)), M) = Number(<<f>>, M) + IF Wait(c) \in M THEN 1 ELSE 0
    BY <2>2, <2>5, NumberAppend
  <2>. QED
    BY <2>1, <2>3, <2>4, <2>5, <2>6
<1>5. /\ Number(loops, {Wait(c)}) = 1 /\ Number(loops, {Ask}) = 0
      /\ \A d \in Controls : d # c => Number(loops, {Wait(d)}) = 0
  BY <1>3, <1>4, OwnFrames
<1>6. Number(toScript, ForTask(c)) = 0 /\ \A g \in Processes : ~Waits(m_waits, c, g)
  <2>1. Number(loops, {Wait(c)}) = EndsSum(toScript, m_waits, toUser, m_stopped, c)
    BY <1>2, Facts DEF Balance
  <2>2. /\ Number(toScript, ForTask(c)) \in Nat /\ Number(m_waits, WaitsOf(c)) \in Nat
        /\ Number(toUser, {Complete(c)}) \in Nat
    BY Facts
  <2>3. Number(toScript, ForTask(c)) = 0 /\ Number(m_waits, WaitsOf(c)) = 0
    BY <1>2, <1>5, <2>1, <2>2 DEF EndsSum
  <2>4. ASSUME NEW g \in Processes PROVE ~Waits(m_waits, c, g)
    <3>1. WaitEntry(c, g) \in WaitsOf(c)
      BY <1>2, WaitEntries
    <3>. QED
      BY <2>3, <3>1, Facts, HasNumber DEF Waits
  <2>. QED
    BY <2>3, <2>4
<1>7. /\ NoneRunning(state) /\ m_interruptedProcesses = {}
      /\ Number(toUser, UserTokens) = 0 /\ Number(toScript, ScriptTokens) = 0
      /\ \A p \in Processes : Number(toUser, AsksOf(p)) = 0 /\ Number(toScript, ContinuesOf(p)) = 0
      /\ \A d \in Controls : Number(toScript, ForTask(d)) = 0
  BY <1>2, <1>6, NobodyWaits
<1>8. /\ m \in ToScript /\ m \notin ScriptTokens /\ m \notin ConfirmRequest
      /\ \A d \in Controls : m \notin ForTask(d)
      /\ \A p \in Processes : /\ m \notin ContinuesOf(p) /\ (m \in HandsOf(p) <=> p = l)
                              /\ m \notin {Detach(p)} /\ m \notin Uses(p)
  BY <1>0, <1>3, ResetClass
<1>9. ms \in Seq(ToScript) /\ \A M : Number(ms, M) = IF m \in M THEN 1 ELSE 0
  BY <1>0, <1>8, Messages
<1>10. /\ toScript' \in Seq(ToScript)
       /\ \A M : m \notin M => Number(toScript', M) = Number(toScript, M)
       /\ \A M : /\ Number(toScript, M) \in Nat /\ Number(toScript', M) \in Nat
                 /\ Number(toScript', M) = Number(toScript, M) + Number(ms, M)
  BY <1>1, <1>9, Sent
<1>11. /\ loops' \in Seq(Frames) /\ loops' # <<>> /\ Len(loops') = 1
       /\ Stacked(loops', m_stopped', lastId') /\ Innermost(loops') = c
       /\ ControlsIn(loops') = {c} /\ Owns(loops') = {1}
  <2>1. /\ c \in Nat /\ lastId \in Nat
    BY <1>2, Bounds, Facts
  <2>2. LET ts == <<Own("null", c, None, None)>> IN
        /\ ts \in Seq(Frames) /\ ts # <<>> /\ Len(ts) = 1
        /\ Stacked(ts, m_stopped', c) /\ Idle(ts) /\ Innermost(ts) = c
        /\ ControlsIn(ts) = {c} /\ Owns(ts) = {1}
    BY <1>2, FirstScreen
  <2>3. /\ loops' \in Seq(Frames) /\ loops' # <<>> /\ Len(loops') = 1
        /\ Stacked(loops', m_stopped', c) /\ Innermost(loops') = c
        /\ ControlsIn(loops') = {c} /\ Owns(loops') = {1}
    BY <1>1, <2>2
  <2>4. Ids(loops', lastId)
    BY <1>2, <2>1, <2>3 DEF Stacked, Ids
  <2>5. Stacked(loops', m_stopped', lastId)
    BY <2>3, <2>4 DEF Stacked
  <2>. QED
    BY <1>1, <2>3, <2>5
<1>12. /\ TopControl' = c /\ DOMAIN loops' = {1}
       /\ loops'[1] = Own("null", c, None, None)
       /\ loops'[1].loop = "null" /\ loops'[1].link = None /\ loops'[1].id = c
  <2>1. loops'[1] = Own("null", c, None, None) /\ DOMAIN loops' = {1}
    BY <1>1, <1>11
  <2>2. TopControl' = Innermost(loops')
    BY TopControlIs
  <2>. QED
    BY <1>11, <2>1, <2>2, OwnFrames
<1>13. Tokens' = 0 /\ \A p \in Processes : ~HasToken(p)'
  <2>1. Number(toScript', ScriptTokens) = 0
    BY <1>7, <1>8, <1>10
  <2>2. \A p \in Processes : Number(toScript', ContinuesOf(p)) = 0
    BY <1>7, <1>8, <1>10
  <2>3. Tokens' = 0
    BY <1>1, <1>7, <2>1 DEF Tokens, Running, Interrupted, ScriptSame
  <2>. QED
    BY <1>1, <1>7, <2>2, <2>3 DEF HasToken, NoneRunning, ScriptSame
<1>14. OneToken' /\ Attached'
  <2>1. OneToken'
    BY <1>1, <1>13 DEF IInv, OneToken, ScriptSame
  <2>2. \A d \in Controls : Number(toScript', ForTask(d)) = 0
    BY <1>7, <1>8, <1>10
  <2>. QED
    BY <1>13, <2>1, <2>2 DEF Attached
<1>15. Stack'
  BY <1>11, <1>12 DEF Stack
<1>16. Outputs'
  <2>1. c \in ended => m_outputState[c].link = None /\ m_outputState[c].target = "none"
    <3>1. 1 \in Owns(loops)
      BY <1>3, Facts DEF Owns
    <3>2. c \in ended => Output(1, m_outputState[c])
      BY <1>3, <3>1 DEF IInv, Outputs
    <3>. QED
      BY <1>3, <3>2 DEF Output
  <2>2. c \in ended => Output(1, m_outputState[c])'
    BY <1>1, <1>12, <2>1 DEF Output
  <2>. QED
    BY <1>1, <1>11, <1>12, <2>2 DEF IInv, Outputs
<1>17. Dialogs' /\ Keymaps'
  BY <1>12 DEF Dialogs, Keymaps
<1>18. Users' /\ Later'
  <2>1. \A p \in Processes : Number(ms, Uses(p)) = 0
    BY <1>8, <1>9
  <2>. QED
    BY <1>1, <1>9, <2>1, SentUses
<1>19. Detaches'
  BY <1>11, <1>12, <1>13 DEF Detaches
<1>20. Interrupts'
  <2>1. Number(loops', {Ask}) = 0
    <3>1. loops'[1] \notin {Ask}
      BY <1>12, OwnFrames
    <3>2. \A i \in DOMAIN loops' : loops'[i] \notin {Ask}
      BY <1>12, <3>1
    <3>. QED
      BY <1>11, <3>2, NumberType
  <2>2. Number(toScript', ConfirmRequest) = Number(toScript, ConfirmRequest)
    BY <1>8, <1>10
  <2>. QED
    BY <1>1, <1>5, <2>1, <2>2 DEF IInv, Interrupts
<1>21. Credits' /\ News'
  BY <1>1, <1>2, <1>12 DEF IInv, Credits, News, ScriptSame
<1>22. UserTyped
  BY <1>1, <1>10, <1>11, UserTypes DEF UserTyped
<1>23. Balance'
  <2> SUFFICES ASSUME NEW d \in Controls
               PROVE  Number(loops', {Wait(d)}) = EndsSum(toScript', m_waits, toUser, m_stopped', d)
    BY <1>1 DEF Balance, ScriptSame
  <2>1. Number(loops, {Wait(d)}) = EndsSum(toScript, m_waits, toUser, m_stopped, d)
    BY Facts DEF Balance
  <2>2. Number(loops', {Wait(d)}) = 0
    <3>1. loops'[1] \notin {Wait(d)}
      BY <1>12, OwnFrames
    <3>2. \A i \in DOMAIN loops' : loops'[i] \notin {Wait(d)}
      BY <1>12, <3>1
    <3>. QED
      BY <1>11, <3>2, NumberType
  <2>3. Number(toScript', ForTask(d)) = Number(toScript, ForTask(d))
    BY <1>8, <1>10
  <2>4. /\ Number(toScript, ForTask(d)) \in Nat /\ Number(m_waits, WaitsOf(d)) \in Nat
        /\ Number(toUser, {Complete(d)}) \in Nat
    BY Facts
  <2>5. Number(loops, {Wait(d)}) = IF d = c THEN 1 ELSE 0
    BY <1>5
  <2>6. /\ d = c => d \in m_stopped /\ d \notin m_stopped'
        /\ d # c => (d \in m_stopped <=> d \in m_stopped')
    BY <1>1, <1>2
  <2>. QED
    BY <2>1, <2>2, <2>3, <2>4, <2>5, <2>6 DEF EndsSum
<1>24. Handed'
  <2> SUFFICES ASSUME NEW p \in Processes
               PROVE  HandsSum(toUser, toScript', loops', m_outputState, m_interruptedProcesses, p)
                        = IF state[p] = "Waiting" THEN 1 ELSE 0
    BY <1>1 DEF Handed, ScriptSame
  <2>1. HandsSum(toUser, toScript, loops, m_outputState, m_interruptedProcesses, p)
          = IF state[p] = "Waiting" THEN 1 ELSE 0
    BY Facts DEF Handed
  <2>2. p # None
    BY Bounds
  <2>3. Number(loops, FramesOf(p)) = IF p = l THEN 1 ELSE 0
    <3>1. Wait(c) \notin FramesOf(p) /\ (loops[1] \in FramesOf(p) <=> p = l)
      BY <1>3, <2>2, OwnFrames DEF FramesOf
    <3>. QED
      BY <1>4, <3>1
  <2>4. Number(loops', FramesOf(p)) = 0
    <3>1. loops'[1] \notin FramesOf(p)
      BY <1>12, <2>2 DEF FramesOf
    <3>2. \A i \in DOMAIN loops' : loops'[i] \notin FramesOf(p)
      BY <1>12, <3>1
    <3>. QED
      BY <1>11, <3>2, NumberType
  <2>5. Number(toScript', HandsOf(p)) = Number(toScript, HandsOf(p)) + IF p = l THEN 1 ELSE 0
    BY <1>8, <1>9, <1>10
  <2>6. ControlsIn(loops') = ControlsIn(loops)
    <3>1. Owns(loops) = {1}
      <4>1. IsOwn(loops[1]) /\ ~IsOwn(loops[2]) /\ DOMAIN loops = {1, 2}
        BY <1>3, Facts, OwnFrames
      <4>. QED
        BY <4>1 DEF Owns
    <3>. QED
      BY <1>3, <1>11, <3>1 DEF ControlsIn
  <2>7. /\ Number(toUser, AsksOf(p)) \in Nat /\ Number(toScript, HandsOf(p)) \in Nat
        /\ Ending(ControlsIn(loops), m_outputState, p) \in Nat
    BY Facts, HandTypes
  <2>. QED
    BY <2>1, <2>3, <2>4, <2>5, <2>6, <2>7 DEF HandsSum
<1>. QED
  BY <1>1, <1>3, <1>13, <1>14, <1>15, <1>16, <1>17, <1>18, <1>19, <1>20, <1>21, <1>22, <1>23, <1>24, UserClose

LEMMA ReturnFromWaitKeeps ==
    ASSUME IInv, ReturnFromWait
    PROVE  IInv'
<1>1. /\ UserOnly /\ UNCHANGED <<toUser, ended, m_outputState, lastId>>
      /\ Stops /\ Top.loop = "wait" /\ m_stopped' = m_stopped \ {Top.id}
      /\ \/ loops' = Front(loops) /\ UNCHANGED toScript
         \/ /\ Below.loop = "null" /\ loops' = <<Own("null", Top.id, None, None)>>
            /\ Send(<<Reset(Below.link)>>)
  BY DEF ReturnFromWait, GoOn
<1>2. CASE loops' = Front(loops) /\ UNCHANGED toScript
  BY <1>1, <1>2, WaitOverKeeps
<1>3. CASE /\ Below.loop = "null" /\ loops' = <<Own("null", Top.id, None, None)>>
           /\ Send(<<Reset(Below.link)>>)
  BY <1>1, <1>3, HookOverKeeps
<1>. QED
  BY <1>1, <1>2, <1>3

\* The process that was interrupted is continued or terminated.
LEMMA Answered ==
    ASSUME IInv, Top.loop = "ask", NEW op
    PROVE  \E r \in Processes : /\ m_interruptedProcesses = {r}
             /\ LET ps == SetToSeq(m_interruptedProcesses)
                IN  [i \in DOMAIN ps |-> To(op, ps[i])] = <<To(op, r)>>
<1>1. m_interruptedProcesses # {} /\ m_interruptedProcesses \subseteq Processes
  <2>1. Top = loops[Len(loops)] /\ Len(loops) \in DOMAIN loops
    BY TopFacts
  <2>. QED
    BY <2>1, UserTypes DEF IInv, Stack
<1>2. PICK r \in m_interruptedProcesses : TRUE
  BY <1>1
<1>3. m_interruptedProcesses = {r} /\ r \in Processes
  BY <1>1, <1>2 DEF IInv, OneToken
<1>4. PICK ps : ps = SetToSeq({r})
  OBVIOUS
<1>5. DOMAIN ps = 1..1 /\ ps[1] = r
  <2>1. Cardinality({r}) = 1
    BY FS_Singleton
  <2>2. [i \in 1..1 |-> r] \in [1..1 -> {r}] /\ IsInjective([i \in 1..1 |-> r])
    BY DEF IsInjective
  <2>3. ps \in [1..1 -> {r}]
    BY <1>4, <2>1, <2>2 DEF SetToSeq
  <2>. QED
    BY <2>3
<1>6. [i \in DOMAIN ps |-> To(op, ps[i])] = <<To(op, r)>>
  <2> DEFINE s == [i \in DOMAIN ps |-> To(op, ps[i])]
             t == <<To(op, r)>>
  <2>1. s \in Seq({To(op, r)}) /\ Len(s) = 1 /\ s[1] = To(op, r)
    BY <1>5
  <2>2. t \in Seq({To(op, r)}) /\ Len(t) = 1 /\ t[1] = To(op, r)
    OBVIOUS
  <2>3. \A i \in 1..1 : i = 1
    OBVIOUS
  <2> HIDE DEF s, t
  <2>4. s = t
    BY <2>1, <2>2, <2>3, SeqEqual
  <2>. QED
    BY <2>4 DEF s, t
<1>. QED
  BY <1>3, <1>4, <1>6

LEMMA AnswerKeeps ==
    ASSUME IInv, NEW ok \in BOOLEAN, Answer(ok)
    PROVE  IInv'
<1>0. PICK op : op = IF ok THEN "terminateProcessAndGroup" ELSE "continueProcess"
  OBVIOUS
<1>1. /\ ScriptSame /\ calling' = calling /\ m_stopSignal' = m_stopSignal /\ toUser' = toUser
      /\ UNCHANGED <<ended, m_outputState, lastId>>
      /\ m_stopped' = m_stopped /\ ended' = ended /\ m_outputState' = m_outputState
      /\ lastId' = lastId /\ tasks' = tasks /\ breaks' = breaks
      /\ m_interrupting' = FALSE /\ m_interruptedProcesses' = {}
      /\ Top.loop = "ask" /\ loops' = Front(loops)
      /\ LET ps == SetToSeq(m_interruptedProcesses)
         IN  Send([i \in DOMAIN ps |-> To(op, ps[i])])
  BY <1>0 DEF Answer, ScriptSame, script, bounds
<1>2. PICK r \in Processes : /\ m_interruptedProcesses = {r}
             /\ LET ps == SetToSeq(m_interruptedProcesses)
                IN  [i \in DOMAIN ps |-> To(op, ps[i])] = <<To(op, r)>>
  BY <1>1, Answered
<1>3. PICK m, ms : m = To(op, r) /\ ms = <<m>>
  OBVIOUS
<1>4. Send(ms)
  BY <1>1, <1>2, <1>3
<1>5. op \in Continues
  BY <1>0 DEF Continues
<1>6. /\ m \in ToScript /\ m \in ScriptTokens /\ m \notin Executes /\ m \notin ConfirmRequest
      /\ \A d \in Controls : m \notin ForTask(d)
      /\ \A p \in Processes : /\ m \in ContinuesOf(p) <=> r = p
                              /\ m \in HandsOf(p) <=> r = p
                              /\ m \notin {Detach(p)} /\ m \notin Uses(p)
  BY <1>3, <1>5, ContinueClass
<1>7. ms \in Seq(ToScript) /\ \A M : Number(ms, M) = IF m \in M THEN 1 ELSE 0
  BY <1>3, <1>6, Messages
<1>8. /\ toScript' \in Seq(ToScript)
      /\ \A M : /\ Number(toScript, M) \in Nat /\ Number(toScript', M) \in Nat
                /\ Number(toScript', M) = Number(toScript, M) + Number(ms, M)
  BY <1>4, <1>7, Sent
<1>9. /\ \A p \in Processes : Number(ms, Uses(p)) = 0
      /\ \A p \in Processes : Number(ms, {Detach(p)}) = 0
      /\ \A d \in Controls : Number(ms, ForTask(d)) = 0
      /\ Number(ms, Executes) = 0
      /\ Number(ms, ConfirmRequest) = 0
  BY <1>6, <1>7
<1>10. /\ \A p \in Processes : Number(ms, HandsOf(p)) = IF p = r THEN 1 ELSE 0
       /\ \A p \in Processes : Number(ms, ContinuesOf(p)) = IF p = r THEN 1 ELSE 0
       /\ Number(ms, ScriptTokens) = 1
  BY <1>6, <1>7
<1>11. ~IsOwn(Top) /\ Top = Ask
  <2>1. ~IsOwn(Top)
    BY <1>1 DEF IsOwn
  <2>. QED
    BY <1>1, <2>1, TopForms
<1>12. \A M : Number(loops, M) = Number(loops', M) + IF Top \in M THEN 1 ELSE 0
  BY <1>1, Facts, NumberFront DEF Top
<1>13. loops' \in Seq(Frames) /\ \A M : Number(loops', M) \in Nat
  <2>1. loops' \in Seq(Frames)
    BY <1>1, Facts, FrontLast
  <2>. QED
    BY <2>1, NumberType
<1>14. /\ Number(loops', {Ask}) = 0 /\ Number(toScript, ConfirmRequest) = 0
       /\ Number(toUser, Confirmation) = 0 /\ ~m_stopSignal
       /\ Followed(toUser, Interruptions, Confirmation)
  <2>1. /\ Number(toScript, ConfirmRequest) + Number(toUser, Confirmation) + Number(loops, {Ask})
             = IF m_interrupting THEN 1 ELSE 0
        /\ m_stopSignal <=> Number(toScript, ConfirmRequest) = 1
        /\ m_stopSignal \/ Followed(toUser, Interruptions, Confirmation)
    BY DEF IInv, Interrupts
  <2>2. /\ Number(toScript, ConfirmRequest) \in Nat /\ Number(toUser, Confirmation) \in Nat
        /\ Number(loops', {Ask}) \in Nat /\ Number(loops, {Ask}) = Number(loops', {Ask}) + 1
    BY <1>11, <1>12, <1>13, Facts
  <2>. QED
    BY <2>1, <2>2
<1>15. \A i \in DOMAIN loops' : loops'[i].loop # "ask"
  <2>1. ASSUME NEW i \in DOMAIN loops', loops'[i].loop = "ask" PROVE FALSE
    <3>1. loops'[i] = loops[i] /\ i \in DOMAIN loops /\ i # Len(loops)
      <4>1. /\ loops' = Front(loops) /\ loops \in Seq(Frames) /\ loops # <<>>
            /\ DOMAIN loops = 1..Len(loops) /\ Len(loops) \in Nat
        BY <1>1, Facts
      <4>2. /\ DOMAIN loops' = 1..(Len(loops) - 1)
            /\ \A j \in 1..(Len(loops) - 1) : loops'[j] = loops[j]
        BY <4>1, FrontLast
      <4>. QED
        BY <4>1, <4>2
    <3>2. ~Plain(loops, i)
      BY <2>1, <3>1, OwnFrames DEF Plain, Base, Opened, WaitsAbove, IsOwn
    <3>3. Plain(loops, i) \/ OnTop(loops, i, m_stopped)
      BY <3>1, Facts DEF Stacked
    <3>. QED
      BY <3>1, <3>2, <3>3 DEF OnTop
  <2>. QED
    BY <2>1
<1>16. /\ loops' # <<>> /\ Stack'
       /\ Owns(loops') = Owns(loops) /\ ControlsIn(loops') = ControlsIn(loops)
       /\ TopControl' = TopControl
       /\ \A i \in Owns(loops) : loops'[i] = loops[i]
       /\ \A i \in DOMAIN loops' : IsOwn(loops'[i]) \/ loops'[i].link = None
  BY <1>1, <1>11, <1>15, TopEnds
<1>17. /\ Running = 0 /\ Number(toUser, UserTokens) = 0 /\ Number(toScript, ScriptTokens) = 0
  <2>1. Interrupted = 1
    BY <1>2 DEF Interrupted
  <2>2. /\ Running \in {0, 1}
        /\ Running + Number(toUser, UserTokens) + Number(toScript, ScriptTokens) + Interrupted <= 1
    BY TokenParts
  <2>3. Number(toUser, UserTokens) \in Nat /\ Number(toScript, ScriptTokens) \in Nat
    BY Facts
  <2>. QED
    BY <2>1, <2>2, <2>3
<1>18. /\ NoneRunning(state)
       /\ \A p \in Processes : Number(toUser, AsksOf(p)) = 0 /\ Number(toScript, ContinuesOf(p)) = 0
  <2>1. /\ Running = 0 <=> NoneRunning(state)
        /\ \A p \in Processes : /\ Number(toUser, AsksOf(p)) <= Number(toUser, UserTokens)
                                 /\ Number(toScript, ContinuesOf(p)) <= Number(toScript, ScriptTokens)
    BY TokenParts
  <2>2. \A p \in Processes : Number(toUser, AsksOf(p)) \in Nat /\ Number(toScript, ContinuesOf(p)) \in Nat
    BY Facts
  <2>. QED
    BY <1>17, <2>1, <2>2
<1>19. HasToken(r) /\ Tokens > 0
  <2>1. HasToken(r)
    BY <1>2 DEF HasToken
  <2>. QED
    BY <2>1, TokenOf
<1>20. \A p \in Processes : HasToken(p)' => HasToken(p)
  <2> SUFFICES ASSUME NEW p \in Processes, p # r PROVE ~HasToken(p)'
    BY <1>19
  <2>1. Number(toScript', ContinuesOf(p)) = 0
    BY <1>8, <1>10, <1>18
  <2>. QED
    BY <1>1, <1>18, <2>1 DEF HasToken, NoneRunning, ScriptSame
<1>21. Outputs' /\ Dialogs' /\ Keymaps' /\ Users' /\ Later' /\ Detaches'
  <2>1. \A i \in DOMAIN loops : loops[i].loop = "keymap" =>
          (loops[i].parent \in m_stopped => loops[i].parent \in m_stopped')
    BY <1>1
  <2>2. \A d, k \in Controls : Precedes(toUser, Complete(d), Complete(k)) =>
          Precedes(toUser', Complete(d), Complete(k))
    BY <1>1
  <2>. QED
    BY <1>1, <1>4, <1>7, <1>9, <1>11, <1>13, <1>16, <1>20, <2>1, <2>2, LoopsChange
<1>22. OneToken' /\ Attached' /\ Credits' /\ News'
  <2>1. OneToken'
    <3>1. Tokens' <= 1
      BY <1>1, <1>8, <1>10, <1>17 DEF Tokens, Running, Interrupted, ScriptSame
    <3>. QED
      BY <1>1, <3>1 DEF IInv, OneToken, ScriptSame
  <2>2. Attached'
    <3>1. \A d \in Controls : Number(toScript', ForTask(d)) = Number(toScript, ForTask(d))
      BY <1>8, <1>9
    <3>2. /\ TopControl \notin ended
          /\ \A p \in Processes : HasToken(p) => Waits(m_waits, TopControl, group[p])
          /\ \A d \in Controls : Number(toScript, ForTask(d)) > 0 => d = TopControl
      BY <1>19 DEF IInv, Attached
    <3>. QED
      BY <1>1, <1>16, <1>20, <3>1, <3>2 DEF Attached, ScriptSame
  <2>3. Credits'
    BY <1>1, <1>16 DEF IInv, Credits, ScriptSame
  <2>4. News'
    <3>1. Number(toScript', Executes) = Number(toScript, Executes)
      BY <1>8, <1>9
    <3>. QED
      BY <1>1, <3>1 DEF IInv, News, NewOnes, ScriptSame
  <2>. QED
    BY <2>1, <2>2, <2>3, <2>4
<1>23. UserTyped
  BY <1>1, <1>8, <1>13, <1>16, UserTypes DEF UserTyped
<1>24. Balance'
  <2>1. ASSUME NEW d \in Controls
        PROVE  /\ Number(toScript', ForTask(d)) = Number(toScript, ForTask(d))
               /\ Number(loops', {Wait(d)}) = Number(loops, {Wait(d)})
    <3>1. Top \notin {Wait(d)}
      BY <1>11, OwnFrames
    <3>. QED
      BY <1>8, <1>9, <1>12, <1>13, <3>1
  <2>. QED
    BY <1>1, <2>1, Facts DEF Balance, EndsSum, ScriptSame
<1>25. Handed'
  <2> SUFFICES ASSUME NEW p \in Processes
               PROVE  HandsSum(toUser, toScript', loops', m_outputState, {}, p)
                        = IF state[p] = "Waiting" THEN 1 ELSE 0
    BY <1>1 DEF Handed, ScriptSame
  <2>1. HandsSum(toUser, toScript, loops, m_outputState, {r}, p)
          = IF state[p] = "Waiting" THEN 1 ELSE 0
    BY <1>2, Facts DEF Handed
  <2>2. Number(toScript', HandsOf(p)) = Number(toScript, HandsOf(p)) + IF p = r THEN 1 ELSE 0
    BY <1>8, <1>10
  <2>3. Number(loops', FramesOf(p)) = Number(loops, FramesOf(p))
    <3>1. Top \notin FramesOf(p)
      BY <1>11, OwnFrames, Bounds DEF FramesOf
    <3>. QED
      BY <1>12, <1>13, <3>1
  <2>4. /\ Number(toUser, AsksOf(p)) \in Nat /\ Number(toScript, HandsOf(p)) \in Nat
        /\ Number(loops, FramesOf(p)) \in Nat /\ Ending(ControlsIn(loops), m_outputState, p) \in Nat
    BY Facts, HandTypes
  <2>. QED
    BY <1>16, <2>1, <2>2, <2>3, <2>4 DEF HandsSum
<1>26. Interrupts'
  <2>1. Number(toScript', ConfirmRequest) = 0
    BY <1>8, <1>9, <1>14
  <2>. QED
    BY <1>1, <1>14, <2>1 DEF Interrupts
<1>. QED
  BY <1>1, <1>16, <1>21, <1>22, <1>23, <1>24, <1>25, <1>26, UserClose

\* The user closes what is shown, or leaves a keymap.
LEMMA CloseKeeps ==
    ASSUME IInv, NEW kinds, NEW target, Close(kinds, target),
           \/ kinds = {"dialog", "console"} /\ target = "none"
           \/ kinds = {"keymap"} /\ target = "none"
           \/ kinds = {"keymap"} /\ target = "key" /\ tasks < MaxTasks
    PROVE  IInv'
<1>0. PICK c : c = Top.id
  OBVIOUS
<1>1. /\ ScriptSame /\ calling' = calling /\ m_stopSignal' = m_stopSignal
      /\ toUser' = toUser /\ toScript' = toScript /\ loops' = loops /\ m_stopped' = m_stopped
      /\ lastId' = lastId /\ tasks' = tasks /\ breaks' = breaks
      /\ m_interrupting' = m_interrupting /\ m_interruptedProcesses' = m_interruptedProcesses
      /\ ~Stops /\ Top.loop \in kinds /\ ended' = ended \cup {c}
      /\ m_outputState' = [m_outputState EXCEPT ![c].target = target]
  BY <1>0 DEF Close, Acts, ScriptSame, script, requests, interrupt, bounds
<1>2. /\ Idle(loops) /\ c = TopControl /\ c \in Controls /\ Top = loops[Len(loops)]
      /\ At(loops) = Len(loops) /\ c <= lastId /\ IsOwn(Top)
  <2>1. Top.loop \in {"dialog", "console", "keymap"}
    BY <1>1
  <2>2. IsOwn(Top)
    BY <2>1, OwnFrames
  <2>3. /\ Idle(loops) /\ c = TopControl /\ c \in Controls /\ Top = loops[Len(loops)]
        /\ At(loops) = Len(loops)
    BY <1>0, <2>2, TopFacts
  <2>4. c <= lastId
    BY <2>3, TopFacts
  <2>. QED
    BY <2>2, <2>3, <2>4
<1>3. c \notin ended
  BY <1>0, <1>1, <1>2 DEF Stops
<1>4. m_outputState[c] = NoOutput /\ \A i \in Owns(loops) : loops[i].id \notin ended
  BY <1>2, <1>3 DEF IInv, Outputs
<1>5. /\ m_outputState \in [Controls -> OutputTypes] /\ m_outputState' \in [Controls -> OutputTypes]
      /\ m_outputState'[c] = [link |-> None, target |-> target]
      /\ \A d \in Controls : d # c => m_outputState'[d] = m_outputState[d]
      /\ \A d \in Controls : m_outputState'[d].link = m_outputState[d].link
  <2>1. m_outputState \in [Controls -> OutputTypes]
    BY UserTypes
  <2>2. target \in {"none", "key"}
    OBVIOUS
  <2>. QED
    BY <1>1, <1>2, <1>4, <2>1, <2>2 DEF OutputTypes, NoOutput
<1>6. /\ NoneRunning(state) /\ m_interruptedProcesses = {}
      /\ Number(toUser, UserTokens) = 0 /\ Number(toScript, ScriptTokens) = 0
      /\ \A p \in Processes : ~HasToken(p)
      /\ \A d \in Controls : Number(toScript, ForTask(d)) = 0
  BY <1>2, IdleFacts
<1>7. TopControl' = TopControl
  BY <1>1, TopControlIs
<1>8. OneToken'
  BY <1>1 DEF IInv, OneToken, Tokens, Running, Interrupted, ScriptSame
<1>9. Attached'
  <2>1. Tokens' = 0
    BY <1>1, <1>6 DEF Tokens, Running, Interrupted, ScriptSame
  <2>2. \A p \in Processes : ~HasToken(p)'
    BY <1>1, <1>6 DEF HasToken, ScriptSame
  <2>. QED
    BY <1>1, <1>6, <2>1, <2>2 DEF Attached
<1>10. Stack'
  BY <1>1 DEF IInv, Stack
<1>11. Outputs'
  <2>1. \A d \in Controls : d \notin ended' => m_outputState'[d] = NoOutput
    BY <1>1, <1>5 DEF IInv, Outputs
  <2>2. \A d \in ended' : d <= lastId'
    BY <1>1, <1>2 DEF IInv, Outputs
  <2>3. ASSUME NEW i \in Owns(loops'), loops'[i].id \in ended'
        PROVE  loops'[i].id = TopControl' /\ Output(i, m_outputState[loops[i].id])'
    <3>1. loops[i].id = c /\ i = Len(loops)
      BY <1>1, <1>2, <1>4, <2>3, TopFacts
    <3>2. loops[i] = Top /\ m_outputState'[loops[i].id] = [link |-> None, target |-> target]
      BY <1>2, <1>5, <3>1
    <3>3. Output(i, m_outputState[loops[i].id])'
      BY <1>1, <3>1, <3>2 DEF Output
    <3>. QED
      BY <1>1, <1>2, <1>7, <3>1, <3>3
  <2>. QED
    BY <2>1, <2>2, <2>3 DEF Outputs
<1>12. Dialogs' /\ Users' /\ Later' /\ News' /\ Interrupts'
  BY <1>1 DEF IInv, Dialogs, Users, Later, News, NewOnes, Interrupts, ScriptSame
<1>13. Keymaps'
  BY <1>1 DEF IInv, Keymaps, ParentFirst, ScriptSame
<1>14. Detaches'
  <2>1. \A i \in Owns(loops) : m_outputState'[loops[i].id].link = m_outputState[loops[i].id].link
    BY <1>5, TopFacts
  <2>2. \A p \in Processes : HasToken(p)' <=> HasToken(p)
    BY <1>1 DEF HasToken, ScriptSame
  <2>. QED
    BY <1>1, <2>1, <2>2 DEF IInv, Detaches
<1>15. Credits'
  <2>1. m_outputState[c].target = "none" /\ m_outputState'[c].target \notin {"screen", "exit"}
    BY <1>4, <1>5 DEF NoOutput
  <2>. QED
    BY <1>1, <1>2, <1>7, <2>1 DEF IInv, Credits, ScriptSame
<1>16. UserTyped
  BY <1>1, <1>2, <1>5, UserTypes DEF UserTyped
<1>17. Balance'
  BY <1>1, Facts DEF Balance, ScriptSame
<1>18. Handed'
  <2>1. \A p : Ending(ControlsIn(loops), m_outputState', p) = Ending(ControlsIn(loops), m_outputState, p)
    <3>1. \A d \in ControlsIn(loops) : m_outputState'[d].link = m_outputState[d].link
      BY <1>5, Facts
    <3>. QED
      BY <3>1, EndingSame
  <2>. QED
    BY <1>1, <2>1, Facts DEF Handed, HandsSum, ScriptSame
<1>. QED
  BY <1>1, <1>8, <1>9, <1>10, <1>11, <1>12, <1>13, <1>14, <1>15, <1>16, <1>17, <1>18, UserClose

LEMMA ClosesKeep ==
    ASSUME IInv, CloseDialog \/ PressKey
    PROVE  IInv'
  BY CloseKeeps DEF CloseDialog, PressKey

\* Requests that are sent, and what is not among them
LEMMA SentSame ==
    ASSUME IInv, NEW ms \in Seq(ToScript), Send(ms)
    PROVE  /\ \A M : Number(ms, M) = 0 => Number(toScript', M) = Number(toScript, M)
           /\ \A M : Number(toScript, M) = 0 => Number(toScript', M) = Number(ms, M)
<1>1. \A M : /\ Number(toScript, M) \in Nat /\ Number(ms, M) \in Nat
             /\ Number(toScript', M) = Number(toScript, M) + Number(ms, M)
  BY Sent
<1>. QED
  BY <1>1

\* A process ends the innermost Control: it is what the Control returns.
Ends(k, t) ==
    \/ k \in {"screen", "console", "dialog"} /\ t \in Targets
    \/ k = "dialog" /\ t = "none"
    \/ k = "keymap" /\ t \in Targets \cup {"end", "console"}

LEMMA Somewhere ==
    ASSUME IInv
    PROVE  Targets \subseteq {"screen", "exit"}
  BY TargetsAssumption DEF IInv, Elsewhere

LEMMA EndingKeeps ==
    ASSUME IInv, NEW op \in Callouts, Handles(op), NEW p, p = Link, NEW c, c = TopControl,
           NEW t, Ends(Kind(loops, c), t), UNCHANGED <<loops, m_stopped, lastId>>, UserOnly,
           m_outputState' = [m_outputState EXCEPT ![c] = [link |-> p, target |-> t]],
           ended' = ended \cup {c},
           NEW ms, ms = IF Kind(loops, c) = "keymap" THEN <<>> ELSE <<Detach(p)>>, Send(ms)
    PROVE  IInv'
<1>0. op \in Asks /\ op # "onProcessInterrupted"
  BY CalloutsAssumption DEF Asks
<1>1. /\ p \in Processes /\ Head(toUser) = To(op, p) /\ state[p] = "Waiting" /\ NoneRunning(state)
      /\ Number(toUser', UserTokens) = 0 /\ Number(toScript, ScriptTokens) = 0
      /\ m_interruptedProcesses = {}
      /\ \A r \in Processes : /\ Number(toUser', AsksOf(r)) = 0 /\ Number(toScript, ContinuesOf(r)) = 0
                              /\ Number(toUser, AsksOf(r)) = IF r = p THEN 1 ELSE 0
      /\ \A d \in Controls : Number(toScript, ForTask(d)) = 0
      /\ Number(toScript, HandsOf(p)) = 0 /\ Number(toScript, {Detach(p)}) = 0
      /\ \A i \in DOMAIN loops : loops[i].link # p
      /\ \A i \in Owns(loops) : m_outputState[loops[i].id].link # p
      /\ Waits(m_waits, TopControl, group[p])
      /\ \A i \in Owns(loops) : loops[i].id \notin ended
      /\ \A d \in Controls : Number(toUser', {Complete(d)}) = Number(toUser, {Complete(d)})
      /\ Number(toUser', Confirmation) = Number(toUser, Confirmation)
      /\ Number(toUser, ToShow) = Number(toUser', ToShow) + IF op = "onProcessInterrupted" THEN 0 ELSE 1
      /\ \A d, k \in Controls : Precedes(toUser, Complete(d), Complete(k)) =>
           Precedes(toUser', Complete(d), Complete(k))
  BY <1>0, AskFacts
<1>2. /\ toUser' \in Seq(ToUser) /\ \A M : Number(toUser', M) \in Nat
      /\ \A A, B : Followed(toUser, A, B) => Followed(toUser', A, B)
  BY <1>0, Handling
<1>3. /\ ScriptSame /\ UNCHANGED interrupt /\ calling' = calling /\ m_stopSignal' = m_stopSignal
      /\ tasks' = tasks /\ breaks' = breaks
      /\ m_interrupting' = m_interrupting /\ m_interruptedProcesses' = m_interruptedProcesses
      /\ loops' = loops /\ m_stopped' = m_stopped /\ lastId' = lastId
  BY UserOnlySame
<1>4. /\ c \in Controls /\ c <= lastId /\ c \in ControlsIn(loops)
      /\ \A i \in Owns(loops) : loops[i].id \in Controls
      /\ \A i \in Owns(loops) : loops[i].id = c => loops[i].loop = Kind(loops, c)
  BY TopFacts
<1>5. TopControl' = c
  BY <1>3, TopControlIs
<1>6. c \notin ended /\ m_outputState[c] = NoOutput
  <2>1. c \notin ended
    BY <1>1, TopFacts
  <2>. QED
    BY <1>4, <2>1 DEF IInv, Outputs
<1>7. /\ m_outputState \in [Controls -> OutputTypes] /\ m_outputState' \in [Controls -> OutputTypes]
      /\ m_outputState'[c] = [link |-> p, target |-> t]
      /\ \A d \in Controls : d # c => m_outputState'[d] = m_outputState[d]
  <2>1. m_outputState \in [Controls -> OutputTypes]
    BY UserTypes
  <2>2. t \in Targets \cup {"none", "end", "console"}
    BY DEF Ends
  <2>. QED
    BY <1>1, <1>4, <2>1, <2>2 DEF OutputTypes
<1>8. /\ Detach(p) \in ToScript /\ Detach(p) \notin ScriptTokens /\ Detach(p) \notin Executes
      /\ Detach(p) \notin ConfirmRequest
      /\ \A d \in Controls : Detach(p) \notin ForTask(d)
      /\ \A r \in Processes : /\ Detach(p) \notin ContinuesOf(r) /\ Detach(p) \notin HandsOf(r)
                              /\ Detach(p) \in {Detach(r)} <=> r = p
                              /\ Detach(p) \in Uses(r) <=> r = p
  BY <1>1, DetachClass
<1>9. ms \in Seq(ToScript) /\ \A M : Detach(p) \notin M => Number(ms, M) = 0
  <2>1. CASE Kind(loops, c) = "keymap"
    BY <2>1, Messages
  <2>2. CASE Kind(loops, c) # "keymap"
    BY <1>8, <2>2, Messages
  <2>. QED
    BY <2>1, <2>2
<1>10. /\ toScript' \in Seq(ToScript)
       /\ \A M : /\ Number(toScript, M) \in Nat /\ Number(toScript', M) \in Nat /\ Number(ms, M) \in Nat
                 /\ Number(toScript', M) = Number(toScript, M) + Number(ms, M)
  BY <1>9, Sent
<1>11. /\ Number(ms, ScriptTokens) = 0 /\ Number(ms, Executes) = 0 /\ Number(ms, ConfirmRequest) = 0
       /\ \A d \in Controls : Number(ms, ForTask(d)) = 0
       /\ \A r \in Processes : Number(ms, ContinuesOf(r)) = 0
       /\ \A r \in Processes : Number(ms, HandsOf(r)) = 0
  BY <1>8, <1>9
<1>12. /\ \A r \in Processes : r # p => Number(ms, {Detach(r)}) = 0
       /\ \A r \in Processes : r # p => Number(ms, Uses(r)) = 0
       /\ Kind(loops, c) = "keymap" => Number(ms, {Detach(p)}) = 0
  <2>1. Kind(loops, c) = "keymap" => \A M : Number(ms, M) = 0
    BY Messages
  <2>. QED
    BY <1>8, <1>9, <2>1
<1>13. /\ Number(toScript', ScriptTokens) = 0 /\ Number(toScript', Executes) = Number(toScript, Executes)
       /\ Number(toScript', ConfirmRequest) = Number(toScript, ConfirmRequest)
       /\ \A d \in Controls : Number(toScript', ForTask(d)) = 0
  <2>1. \A M : Number(ms, M) = 0 => Number(toScript', M) = Number(toScript, M)
    BY <1>9, SentSame
  <2>. QED
    BY <1>1, <1>11, <2>1
<1>14. /\ \A r \in Processes : Number(toScript', ContinuesOf(r)) = 0
       /\ \A r \in Processes : Number(toScript', HandsOf(r)) = Number(toScript, HandsOf(r))
  <2>1. \A M : Number(ms, M) = 0 => Number(toScript', M) = Number(toScript, M)
    BY <1>9, SentSame
  <2>. QED
    BY <1>1, <1>11, <2>1
<1>15. OneToken' /\ Attached'
  <2>1. Tokens' = 0
    BY <1>1, <1>3, <1>13 DEF Tokens, Running, Interrupted, ScriptSame
  <2>2. \A r \in Processes : ~HasToken(r)'
    BY <1>1, <1>3, <1>14 DEF HasToken, NoneRunning, ScriptSame
  <2>3. OneToken'
    BY <1>3, <2>1 DEF IInv, OneToken, ScriptSame
  <2>. QED
    BY <1>13, <2>1, <2>2, <2>3 DEF Attached
<1>16. Stack' /\ Dialogs'
  BY <1>3 DEF IInv, Stack, Dialogs, ScriptSame
<1>17. Outputs'
  <2>1. \A d \in Controls : d \notin ended' => m_outputState'[d] = NoOutput
    BY <1>7 DEF IInv, Outputs
  <2>2. \A d \in ended' : d <= lastId'
    BY <1>3, <1>4 DEF IInv, Outputs
  <2>3. ASSUME NEW i \in Owns(loops'), loops'[i].id \in ended'
        PROVE  loops'[i].id = TopControl' /\ Output(i, m_outputState[loops[i].id])'
    <3>1. loops[i].id = c /\ loops'[i].id = TopControl'
      BY <1>1, <1>3, <1>5, <2>3
    <3>2. /\ loops[i].loop = Kind(loops, c) /\ m_outputState'[loops[i].id] = [link |-> p, target |-> t]
          /\ p # None
      BY <1>1, <1>3, <1>4, <1>7, <2>3, <3>1, Bounds
    <3>3. Waits(m_waits', loops'[i].id, group'[p])
      BY <1>1, <1>3, <3>1 DEF ScriptSame
    <3>4. Output(i, m_outputState[loops[i].id])'
      <4>1. t # "key" /\ (Kind(loops, c) # "keymap" => t \in {"screen", "exit"} \/ (t = "none" /\ Kind(loops, c) = "dialog"))
        BY Somewhere DEF Ends
      <4>. QED
        BY <1>3, <3>2, <3>3, <4>1 DEF Output, Ends
    <3>. QED
      BY <3>1, <3>4
  <2>. QED
    BY <2>1, <2>2, <2>3 DEF Outputs
<1>18. Keymaps'
  <2> SUFFICES ASSUME NEW i \in DOMAIN loops, loops[i].loop = "keymap",
                      NEW d, NEW k, d = loops[i].parent, k = loops[i].id
               PROVE  ParentFirst(d, k)'
    BY <1>3 DEF Keymaps
  <2>1. d \in Controls /\ k \in Controls
    BY Parents, Facts
  <2>2. ParentFirst(d, k)
    BY DEF IInv, Keymaps
  <2>3. /\ \A r \in Processes : Number(ms, {Detach(r)}) = 0 \/ Number(toScript, HandsOf(r)) = 0
        /\ d \in m_stopped => d \in m_stopped'
        /\ Precedes(toUser, Complete(d), Complete(k)) =>
             Precedes(toUser', Complete(d), Complete(k)) \/ d \in m_stopped'
    BY <1>1, <1>3, <1>12, <2>1
  <2>. QED
    BY <1>3, <1>9, <2>1, <2>2, <2>3, SentFirst
<1>19. Users' /\ Later'
  <2>1. ASSUME NEW r \in Processes
        PROVE  \/ Number(ms, Uses(r)) = 0
               \/ /\ state[r] = "Waiting" /\ Number(toScript, HandsOf(r)) = 0
                  /\ AllBefore(ms, Uses(r), HandsOf(r))
    <3>1. \A i \in DOMAIN ms : ms[i] \notin HandsOf(p)
      BY <1>1, <1>9, <1>11, NumberType
    <3>2. AllBefore(ms, Uses(p), HandsOf(p))
      BY <3>1 DEF AllBefore
    <3>. QED
      BY <1>1, <1>12, <3>2
  <2>. QED
    BY <1>3, <1>9, <2>1, SentUses
<1>20. Detaches'
  <2> SUFFICES ASSUME NEW r \in Processes, Number(toScript', {Detach(r)}) > 0
               PROVE  /\ ~HasToken(r)'
                      /\ \A i \in DOMAIN loops : loops[i].link # r \/ loops[i].loop = "null"
                      /\ \A i \in Owns(loops) : loops[i].loop = "keymap" => m_outputState'[loops[i].id].link # r
    BY <1>3 DEF Detaches
  <2>1. ~HasToken(r)'
    BY <1>1, <1>3, <1>14 DEF HasToken, NoneRunning, ScriptSame
  <2>2. CASE r = p
    <3>1. Kind(loops, c) # "keymap"
      <4>1. Number(toScript', {Detach(p)}) = Number(ms, {Detach(p)})
        BY <1>1, <1>9, SentSame
      <4>. QED
        BY <1>12, <2>2, <4>1
    <3>2. ASSUME NEW i \in Owns(loops), loops[i].loop = "keymap" PROVE m_outputState'[loops[i].id].link # r
      <4>1. loops[i].id # c
        BY <1>4, <3>1, <3>2
      <4>. QED
        BY <1>1, <1>4, <1>7, <2>2, <4>1
    <3>. QED
      BY <1>1, <2>1, <2>2, <3>2
  <2>3. CASE r # p
    <3>1. Number(toScript, {Detach(r)}) > 0
      <4>1. Number(toScript', {Detach(r)}) = Number(toScript, {Detach(r)})
        BY <1>9, <1>12, <2>3, SentSame
      <4>. QED
        BY <4>1
    <3>2. /\ \A i \in DOMAIN loops : loops[i].link # r \/ loops[i].loop = "null"
          /\ \A i \in Owns(loops) : loops[i].loop = "keymap" => m_outputState[loops[i].id].link # r
      BY <3>1 DEF IInv, Detaches
    <3>3. ASSUME NEW i \in Owns(loops), loops[i].loop = "keymap" PROVE m_outputState'[loops[i].id].link # r
      BY <1>4, <1>7, <2>3, <3>2, <3>3
    <3>. QED
      BY <2>1, <3>2, <3>3
  <2>. QED
    BY <2>2, <2>3
<1>21. Credits'
  <2>1. m_outputState[c].target = "none" /\ calls' = calls
    BY <1>3, <1>6 DEF NoOutput, ScriptSame
  <2>2. Number(toUser, ToShow) = Number(toUser', ToShow) + 1
    BY <1>0, <1>1
  <2>3. lastId + Number(toUser, ToShow) <= calls + 1 /\ calls <= MaxCalls
    <3>1. /\ lastId + Number(toUser, ToShow)
               + (IF m_outputState[TopControl].target \in {"screen", "exit"} THEN 1 ELSE 0) <= calls + 1
          /\ calls <= MaxCalls
      BY DEF IInv, Credits
    <3>2. lastId \in Nat /\ Number(toUser, ToShow) \in Nat
      BY Facts
    <3>. QED
      BY <2>1, <3>1, <3>2
  <2>4. /\ lastId' + Number(toUser', ToShow)
             + (IF m_outputState'[c].target \in {"screen", "exit"} THEN 1 ELSE 0) <= calls' + 1
        /\ calls' <= MaxCalls
    <3>1. lastId \in Nat /\ Number(toUser', ToShow) \in Nat /\ calls \in Nat /\ lastId' = lastId
      BY <1>2, <1>3, Facts, StateTypes
    <3>. QED
      BY <2>1, <2>2, <2>3, <3>1
  <2>. QED
    BY <1>5, <2>4 DEF Credits
<1>22. News'
  BY <1>3, <1>13 DEF IInv, News, NewOnes, ScriptSame
<1>23. UserTyped
  BY <1>2, <1>3, <1>4, <1>7, <1>10, UserTypes DEF UserTyped
<1>24. Balance'
  <2>1. \A d \in Controls : Number(toScript', ForTask(d)) = Number(toScript, ForTask(d))
    BY <1>1, <1>13
  <2>. QED
    BY <1>1, <1>3, <2>1, Facts DEF Balance, EndsSum, ScriptSame
<1>25. Handed'
  <2> SUFFICES ASSUME NEW r \in Processes
               PROVE  HandsSum(toUser', toScript', loops, m_outputState', m_interruptedProcesses, r)
                        = IF state[r] = "Waiting" THEN 1 ELSE 0
    BY <1>3 DEF Handed, ScriptSame
  <2>1. HandsSum(toUser, toScript, loops, m_outputState, m_interruptedProcesses, r)
          = IF state[r] = "Waiting" THEN 1 ELSE 0
    BY Facts DEF Handed
  <2>2. /\ Number(toScript, HandsOf(r)) \in Nat /\ Number(loops, FramesOf(r)) \in Nat
        /\ Ending(ControlsIn(loops), m_outputState, r) \in Nat
    BY Facts, HandTypes
  <2>3. Ending(ControlsIn(loops), m_outputState', r) = Ending(ControlsIn(loops), m_outputState, r) + IF r = p THEN 1 ELSE 0
    <3>1. \A d \in ControlsIn(loops) : d # c => m_outputState'[d].link = m_outputState[d].link
      BY <1>7, Facts
    <3>2. Ending(ControlsIn(loops), m_outputState', r) + (IF m_outputState[c].link = r THEN 1 ELSE 0)
            = Ending(ControlsIn(loops), m_outputState, r) + IF m_outputState'[c].link = r THEN 1 ELSE 0
      <4>1. IsFiniteSet(ControlsIn(loops)) /\ c \in ControlsIn(loops)
        BY <1>4, Facts
      <4>2. PICK C, o, u : C = ControlsIn(loops) /\ o = m_outputState /\ u = m_outputState'
        OBVIOUS
      <4>3. IsFiniteSet(C) /\ c \in C /\ \A d \in C : d # c => u[d].link = o[d].link
        BY <3>1, <4>1, <4>2
      <4>4. Ending(C, u, r) + (IF o[c].link = r THEN 1 ELSE 0) = Ending(C, o, r) + IF u[c].link = r THEN 1 ELSE 0
        BY <4>3, EndingChanged
      <4>. QED
        BY <4>2, <4>4
    <3>3. m_outputState[c].link # r /\ (m_outputState'[c].link = r <=> r = p)
      BY <1>6, <1>7, Bounds DEF NoOutput
    <3>4. Ending(ControlsIn(loops), m_outputState', r) \in Nat
      BY Facts, EndingType
    <3>. QED
      BY <2>2, <3>2, <3>3, <3>4
  <2>4. /\ Number(toUser', AsksOf(r)) = 0 /\ Number(toUser, AsksOf(r)) = IF r = p THEN 1 ELSE 0
        /\ Number(toScript', HandsOf(r)) = Number(toScript, HandsOf(r))
    BY <1>1, <1>14
  <2>. QED
    BY <2>1, <2>2, <2>3, <2>4 DEF HandsSum
<1>26. Interrupts'
  BY <1>1, <1>2, <1>3, <1>13 DEF IInv, Interrupts
<1>. QED
  BY <1>3, <1>15, <1>16, <1>17, <1>18, <1>19, <1>20, <1>21, <1>22, <1>23, <1>24, <1>25, <1>26, UserClose

LEMMA NothingBefore ==
    /\ <<>> \o <<>> = <<>>
    /\ \A x : <<>> \o <<x>> = <<x>>
    /\ \A x : Append(<<>>, x) = <<x>>
    /\ \A x, y : <<x>> \o <<y>> = <<x, y>> /\ Append(<<x>>, y) = <<x, y>>
<1>1. \A S : \A s \in Seq(S) : <<>> \o s = s
  OBVIOUS
<1>2. <<>> \o <<>> = <<>>
  BY <1>1
<1>3. ASSUME NEW x PROVE <<>> \o <<x>> = <<x>> /\ Append(<<>>, x) = <<x>>
  <2>1. <<x>> \in Seq({x})
    OBVIOUS
  <2>2. <<>> \o <<x>> = <<x>>
    BY <1>1, <2>1
  <2>3. Append(<<>>, x) = <<x>>
    OBVIOUS
  <2>. QED
    BY <2>2, <2>3
<1>4. ASSUME NEW x, NEW y PROVE <<x>> \o <<y>> = <<x, y>> /\ Append(<<x>>, y) = <<x, y>>
  <2> DEFINE a == <<x>> \o <<y>>
             b == <<x, y>>
             d == Append(<<x>>, y)
  <2>1. a \in Seq({x, y}) /\ Len(a) = 2 /\ a[1] = x /\ a[2] = y
    OBVIOUS
  <2>2. b \in Seq({x, y}) /\ Len(b) = 2 /\ b[1] = x /\ b[2] = y
    OBVIOUS
  <2>3. d \in Seq({x, y}) /\ Len(d) = 2 /\ d[1] = x /\ d[2] = y
    OBVIOUS
  <2>4. \A i \in 1..2 : i = 1 \/ i = 2
    OBVIOUS
  <2> HIDE DEF a, b, d
  <2>5. a = b
    BY <2>1, <2>2, <2>4, SeqEqual
  <2>6. d = b
    BY <2>2, <2>3, <2>4, SeqEqual
  <2>. QED
    BY <2>5, <2>6 DEF a, b, d
<1>. QED
  BY <1>2, <1>3, <1>4

\* The innermost Control, by its kind
LEMMA TopKinds ==
    ASSUME IInv
    PROVE  Kind(loops, TopControl) \in {"screen", "dialog", "console", "keymap", "null"}
<1>1. Kind(loops, TopControl) = loops[At(loops)].loop /\ At(loops) \in Owns(loops)
  BY TopFacts
<1>2. loops[At(loops)] \in Frames /\ IsOwn(loops[At(loops)])
  BY <1>1, Facts DEF Owns
<1>. QED
  BY <1>1, <1>2, FrameTypes

\* A NullControl rejects what it is asked.
LEMMA FailKeeps ==
    ASSUME IInv, NEW op \in Asks, Handles(op), NEW p, p = Link, Fail(p, <<>>),
           UNCHANGED <<loops, m_stopped, lastId>>, UserOnly
    PROVE  IInv'
<1>1. "continueProcessWithFailure" \in Continues
  BY DEF Continues
<1>2. /\ Send(Append(<<>>, To("continueProcessWithFailure", p)))
      /\ UNCHANGED <<ended, m_outputState>>
  BY DEF Fail
<1>3. Send(<<To("continueProcessWithFailure", Link)>>)
  BY <1>2, NothingBefore
<1>4. UNCHANGED <<user, lastId>>
  BY <1>2 DEF user
<1>. QED
  BY <1>1, <1>3, <1>4, AnswersKeep

LEMMA GotoScreenKeeps ==
    ASSUME IInv, GotoScreen
    PROVE  IInv'
<1>1. PICK p, c, ms : /\ p = Link /\ c = TopControl
                      /\ ms = IF Kind(loops, c) = "keymap" THEN <<>> ELSE <<Detach(p)>>
  OBVIOUS
<1>2. PICK target \in Targets :
        /\ Handles("goto") /\ UserOnly /\ UNCHANGED <<loops, m_stopped, lastId>>
        /\ HandleStateChange(loops, c, p, target, <<>>)
  BY <1>1 DEF GotoScreen
<1>3. "goto" \in Callouts /\ "goto" \in Asks
  <2>1. Head(toUser) \in ToUser /\ Head(toUser).op = "goto"
    BY <1>2, Handling
  <2>. QED
    BY <2>1, UserForms DEF Asks
<1>4. CASE Kind(loops, c) = "null"
  <2>1. Fail(p, <<>>)
    BY <1>2, <1>4 DEF HandleStateChange, Stays, Changes
  <2>. QED
    BY <1>1, <1>2, <1>3, <2>1, FailKeeps
<1>5. CASE Kind(loops, c) # "null"
  <2>1. target \in {"screen", "exit"}
    BY Somewhere
  <2>2. ~Stays(Kind(loops, c), target)
    BY <2>1 DEF Stays
  <2>3. /\ EndWith(c, p, target)
        /\ Send(<<>> \o IF Kind(loops, c) = "keymap" THEN <<>> ELSE <<Detach(p)>>)
    BY <1>2, <1>5, <2>2 DEF HandleStateChange, Detach
  <2>4. <<>> \o ms = ms
    <3>1. <<>> \o <<>> = <<>> /\ \A x : <<>> \o <<x>> = <<x>>
      BY NothingBefore
    <3>. QED
      BY <1>1, <3>1
  <2>5. Send(ms)
    BY <1>1, <2>3, <2>4
  <2>6. Ends(Kind(loops, c), target)
    BY <1>1, <1>5, TopKinds DEF Ends
  <2>7. /\ m_outputState' = [m_outputState EXCEPT ![c] = [link |-> p, target |-> target]]
        /\ ended' = ended \cup {c}
    BY <2>3 DEF EndWith
  <2>. QED
    BY <1>1, <1>2, <1>3, <2>5, <2>6, <2>7, EndingKeeps
<1>. QED
  BY <1>4, <1>5

LEMMA EndDialogKeeps ==
    ASSUME IInv, EndDialog
    PROVE  IInv'
<1>1. PICK p, c, ms : /\ p = Link /\ c = TopControl
                      /\ ms = IF Kind(loops, c) = "keymap" THEN <<>> ELSE <<Detach(p)>>
  OBVIOUS
<1>2. /\ Handles("end") /\ UserOnly /\ UNCHANGED <<loops, m_stopped, lastId>>
      /\ HandleEndDialog(loops, c, p)
  BY <1>1 DEF EndDialog
<1>3. "end" \in Callouts /\ "end" \in Asks
  <2>1. Head(toUser) \in ToUser /\ Head(toUser).op = "end"
    BY <1>2, Handling
  <2>. QED
    BY <2>1, UserForms DEF Asks
<1>4. CASE Kind(loops, c) \in {"screen", "console"}
  <2>1. "continueProcess" \in Continues
    BY DEF Continues
  <2>2. Send(<<To("continueProcess", p)>>) /\ UNCHANGED <<ended, m_outputState>>
    BY <1>2, <1>4 DEF HandleEndDialog
  <2>3. UNCHANGED <<user, lastId>>
    BY <1>2, <2>2 DEF user
  <2>4. Send(<<To("continueProcess", Link)>>)
    BY <1>1, <2>2
  <2>. QED
    BY <1>2, <1>3, <2>1, <2>3, <2>4, AnswersKeep
<1>5. CASE Kind(loops, c) \in {"dialog", "keymap"}
  <2>1. PICK t : t = IF Kind(loops, c) = "keymap" THEN "end" ELSE "none"
    OBVIOUS
  <2>2. EndWith(c, p, t) /\ Send(ms)
    BY <1>1, <1>2, <1>5, <2>1 DEF HandleEndDialog, Detach
  <2>3. /\ m_outputState' = [m_outputState EXCEPT ![c] = [link |-> p, target |-> t]]
        /\ ended' = ended \cup {c}
    BY <2>2 DEF EndWith
  <2>4. Ends(Kind(loops, c), t)
    BY <1>5, <2>1 DEF Ends
  <2>. QED
    BY <1>1, <1>2, <1>3, <2>2, <2>3, <2>4, EndingKeeps
<1>6. CASE Kind(loops, c) = "null"
  <2>1. Fail(p, <<>>)
    BY <1>2, <1>6 DEF HandleEndDialog
  <2>. QED
    BY <1>1, <1>2, <1>3, <2>1, FailKeeps
<1>. QED
  BY <1>1, <1>4, <1>5, <1>6, TopKinds

\* What the user interface only answers
LEMMA ReplyKeeps ==
    ASSUME IInv, OverlayMessage \/ Reply("error", "continueProcessWithFailure")
    PROVE  IInv'
<1>1. ASSUME NEW op \in {"message", "error"}, NEW o \in Continues, Reply(op, o) PROVE IInv'
  <2>1. Handles(op) /\ Send(<<To(o, Link)>>) /\ UNCHANGED <<user, lastId>> /\ UserOnly
    BY <1>1 DEF Reply
  <2>2. op \in Asks
    <3>1. Head(toUser) \in ToUser /\ Head(toUser).op = op
      BY <2>1, Handling
    <3>. QED
      BY <3>1, UserForms
  <2>. QED
    BY <2>1, <2>2, AnswersKeep
<1>2. "continueProcess" \in Continues /\ "continueProcessWithFailure" \in Continues
  BY DEF Continues
<1>. QED
  BY <1>1, <1>2 DEF OverlayMessage

\* A new Control on top of one that waits: a dialog, or one that waits itself
LEMMA Shown ==
    ASSUME NEW ls \in Seq(Frames), NEW stopped, NEW last \in Nat, ls # <<>>,
           Stacked(ls, stopped, last), Once(ls), NEW c \in Controls, c = last + 1,
           NEW f \in Frames, IsOwn(f), f.loop \notin {"screen", "null"}, f.id = c, f.parent = Innermost(ls),
           f.loop = "console" => ls[At(ls)].loop \in {"screen", "dialog"},
           NEW ts, f.loop = "dialog" => ts = Append(ls, f),
           f.loop # "dialog" => ts = Append(Append(ls, f), Wait(c))
    PROVE  /\ ts \in Seq(Frames) /\ ts # <<>>
           /\ Stacked(ts, stopped, c) /\ Innermost(ts) = c
           /\ \A i \in DOMAIN ls : i \in DOMAIN ts /\ ts[i] = ls[i]
           /\ \A i \in DOMAIN ts : i \in DOMAIN ls \/ ts[i] = f \/ ts[i] = Wait(c)
           /\ \A i \in Owns(ts) : i \in Owns(ls) \/ ts[i] = f
           /\ ControlsIn(ts) = ControlsIn(ls) \cup {c}
           /\ \A M : Number(ts, M) = Number(ls, M) + (IF f \in M THEN 1 ELSE 0)
                       + IF f.loop # "dialog" /\ Wait(c) \in M THEN 1 ELSE 0
<1>1. PICK us : us = Append(ls, f)
  OBVIOUS
<1>2. Stacked(us, stopped, c) /\ Idle(us) /\ Innermost(us) = c
  BY <1>1, PushControl
<1>3. /\ us \in Seq(Frames) /\ us # <<>>
      /\ Len(us) = Len(ls) + 1 /\ DOMAIN us = 1..Len(ls) + 1
      /\ DOMAIN ls = 1..Len(ls) /\ Len(ls) \in Nat
      /\ \A i \in 1..Len(ls) : us[i] = ls[i]
      /\ us[Len(ls) + 1] = f
      /\ Owns(us) = Owns(ls) \cup {Len(ls) + 1}
      /\ ControlsIn(us) = ControlsIn(ls) \cup {c}
  BY <1>1, OwnsAppend
<1>4. \A M : Number(us, M) = Number(ls, M) + IF f \in M THEN 1 ELSE 0
  BY <1>1, NumberAppend
<1>5. \A M : Number(ls, M) \in Nat /\ Number(us, M) \in Nat
  BY <1>3, NumberType
<1>6. CASE f.loop = "dialog"
  <2>1. ts = us
    BY <1>1, <1>6
  <2>2. \A M : Number(ts, M) = Number(ls, M) + (IF f \in M THEN 1 ELSE 0)
                       + IF f.loop # "dialog" /\ Wait(c) \in M THEN 1 ELSE 0
    BY <1>4, <1>5, <1>6, <2>1
  <2>3. /\ \A i \in DOMAIN ls : i \in DOMAIN ts /\ ts[i] = ls[i]
        /\ \A i \in DOMAIN ts : i \in DOMAIN ls \/ ts[i] = f \/ ts[i] = Wait(c)
        /\ \A i \in Owns(ts) : i \in Owns(ls) \/ ts[i] = f
    BY <1>3, <2>1
  <2>4. ts \in Seq(Frames) /\ ts # <<>> /\ ControlsIn(ts) = ControlsIn(ls) \cup {c}
    BY <1>3, <2>1
  <2>5. Stacked(ts, stopped, c) /\ Innermost(ts) = c
    BY <1>2, <2>1
  <2>. QED
    BY <2>2, <2>3, <2>4, <2>5
<1>7. CASE f.loop # "dialog"
  <2>1. ts = Append(us, Wait(c))
    BY <1>1, <1>7
  <2>2. /\ Wait(c) \in Frames /\ Stacked(Append(us, Wait(c)), stopped, c)
        /\ Innermost(Append(us, Wait(c))) = c
    <3>1. us \in Seq(Frames) /\ us # <<>>
      BY <1>3
    <3>. QED
      BY <1>2, <3>1, PushWait
  <2>3. /\ ts \in Seq(Frames) /\ ts # <<>> /\ DOMAIN ts = 1..Len(us) + 1
        /\ \A i \in 1..Len(us) : ts[i] = us[i]
        /\ ts[Len(us) + 1] = Wait(c)
        /\ Owns(ts) = Owns(us) /\ ControlsIn(ts) = ControlsIn(us)
    <3>1. us \in Seq(Frames) /\ Wait(c) \in Frames /\ ~IsOwn(Wait(c))
      BY <1>3, <2>2, OwnFrames
    <3>. QED
      BY <2>1, <3>1, OwnsAppend
  <2>4. \A M : Number(ts, M) = Number(us, M) + IF Wait(c) \in M THEN 1 ELSE 0
    <3>1. us \in Seq(Frames) /\ Wait(c) \in Frames
      BY <1>3, <2>2
    <3>. QED
      BY <2>1, <3>1, NumberAppend
  <2>5. \A M : Number(ts, M) = Number(ls, M) + (IF f \in M THEN 1 ELSE 0)
                       + IF f.loop # "dialog" /\ Wait(c) \in M THEN 1 ELSE 0
    BY <1>4, <1>5, <1>7, <2>4
  <2>6. \A i \in DOMAIN ls : i \in DOMAIN ts /\ ts[i] = ls[i]
    BY <1>3, <2>3
  <2>7. \A i \in DOMAIN ts : i \in DOMAIN ls \/ ts[i] = f \/ ts[i] = Wait(c)
    <3> SUFFICES ASSUME NEW i \in DOMAIN ts PROVE i \in DOMAIN ls \/ ts[i] = f \/ ts[i] = Wait(c)
      OBVIOUS
    <3>1. i \in 1..Len(ls) \/ i = Len(ls) + 1 \/ i = Len(us) + 1
      BY <1>3, <2>3
    <3>. QED
      BY <1>3, <2>3, <3>1
  <2>8. \A i \in Owns(ts) : i \in Owns(ls) \/ ts[i] = f
    BY <1>3, <2>3
  <2>9. ControlsIn(ts) = ControlsIn(ls) \cup {c} /\ Stacked(ts, stopped, c) /\ Innermost(ts) = c
    BY <1>3, <2>1, <2>2, <2>3
  <2>. QED
    BY <2>3, <2>5, <2>6, <2>7, <2>8, <2>9
<1>. QED
  BY <1>6, <1>7

\* A Control that is shown is new to everybody.
LEMMA NewControl ==
    ASSUME IInv, NEW op \in Callouts, Handles(op), NEW c, c = lastId + 1
    PROVE  /\ c \in Controls /\ c \notin ControlsIn(loops) /\ c \notin ended /\ m_outputState[c] = NoOutput
           /\ \A d \in ended : d <= lastId
           /\ lastId + Number(toUser, ToShow) <= calls + 1 /\ calls <= MaxCalls
           /\ Number(toUser, ToShow) = Number(toUser', ToShow) + 1 /\ Number(toUser', ToShow) \in Nat
<1>0. op \in Asks /\ op # "onProcessInterrupted"
  BY CalloutsAssumption DEF Asks
<1>1. Number(toUser, ToShow) = Number(toUser', ToShow) + 1
  BY <1>0, AskFacts
<1>2. Number(toUser', ToShow) \in Nat /\ Number(toUser, ToShow) \in Nat
  BY Handling
<1>3. TopControl \in Controls /\ TopControl \notin ended
  <2>1. \A i \in Owns(loops) : loops[i].id \notin ended
    BY <1>0, AskFacts
  <2>. QED
    BY <2>1, TopFacts
<1>4. m_outputState[TopControl].target = "none"
  BY <1>3 DEF IInv, Outputs, NoOutput
<1>5. lastId + Number(toUser, ToShow) <= calls + 1 /\ calls <= MaxCalls
  <2>1. /\ lastId + Number(toUser, ToShow)
             + (IF m_outputState[TopControl].target \in {"screen", "exit"} THEN 1 ELSE 0) <= calls + 1
        /\ calls <= MaxCalls
    BY DEF IInv, Credits
  <2>2. lastId \in Nat
    BY Facts
  <2>. QED
    BY <1>2, <1>4, <2>1, <2>2
<1>6. c \in Controls
  <2>1. /\ lastId \in Nat /\ lastId >= 1 /\ calls \in Nat /\ MaxCalls \in Nat
    BY Facts, StateTypes, Bounds
  <2>2. c \in Nat /\ c >= 1 /\ c <= MaxCalls + 1
    BY <1>1, <1>2, <1>5, <2>1
  <2>. QED
    BY <2>1, <2>2 DEF Controls
<1>7. \A d \in ended : d <= lastId
  BY DEF IInv, Outputs
<1>8. c \notin ended
  <2>1. lastId \in Nat
    BY Facts
  <2>2. ~(c <= lastId)
    BY <2>1
  <2>. QED
    BY <1>7, <2>2
<1>9. c \notin ControlsIn(loops)
  <2>1. ControlsIn(loops) \subseteq 1..lastId /\ lastId \in Nat
    BY Facts, UniqueIds
  <2>. QED
    BY <2>1
<1>10. m_outputState[c] = NoOutput
  BY <1>6, <1>8 DEF IInv, Outputs
<1>. QED
  BY <1>1, <1>2, <1>5, <1>6, <1>7, <1>8, <1>9, <1>10

\* Requests that come with a Control of kind k
Opening(k, c, p) ==
    IF k = "dialog" THEN <<>>
    ELSE IF k = "keymap" THEN <<ContinueWait(c, p)>> ELSE <<Detach(p), ContinueWait(c, p)>>

OpensWith(ms, k, c, p) ==
    /\ ms \in Seq(ToScript) /\ Number(ms, Executes) = 0 /\ Number(ms, ConfirmRequest) = 0
    /\ Number(ms, ScriptTokens) = IF k = "dialog" THEN 0 ELSE 1
    /\ \A d \in Controls : Number(ms, ForTask(d)) = IF k # "dialog" /\ d = c THEN 1 ELSE 0
    /\ \A r \in Processes : Number(ms, ContinuesOf(r)) = 0
    /\ \A r \in Processes : Number(ms, HandsOf(r)) = IF k # "dialog" /\ r = p THEN 1 ELSE 0
    /\ \A r \in Processes : r # p \/ k # "console" => Number(ms, {Detach(r)}) = 0
    /\ \A r \in Processes : r # p \/ k # "console" => Number(ms, Uses(r)) = 0
    /\ AllBefore(ms, Uses(p), HandsOf(p))
    /\ k = "keymap" => Number(ms, {ContinueWait(c, p)}) = 1

LEMMA OpeningFacts ==
    ASSUME NEW k \in {"dialog", "console", "keymap"}, NEW c \in Controls, NEW p \in Processes
    PROVE  OpensWith(Opening(k, c, p), k, c, p)
<1> SUFFICES ASSUME NEW ms, ms = Opening(k, c, p) PROVE OpensWith(ms, k, c, p)
  OBVIOUS
<1>1. PICK m, n : m = Detach(p) /\ n = ContinueWait(c, p)
  OBVIOUS
<1>2. /\ n \in ToScript /\ n \in ScriptTokens /\ n \notin Executes /\ n \notin ConfirmRequest
      /\ \A d \in Controls : n \in ForTask(d) <=> d = c
      /\ n \in {ContinueWait(c, p)}
      /\ \A r \in Processes : /\ n \notin ContinuesOf(r)
                              /\ n \in HandsOf(r) <=> r = p
                              /\ n \notin {Detach(r)} /\ n \notin Uses(r)
  BY <1>1, ContinueWaitClass
<1>3. /\ m \in ToScript /\ m \notin ScriptTokens /\ m \notin Executes /\ m \notin ConfirmRequest
      /\ \A d \in Controls : m \notin ForTask(d)
      /\ \A r \in Processes : /\ m \notin ContinuesOf(r) /\ m \notin HandsOf(r)
                              /\ m \in {Detach(r)} <=> r = p
                              /\ m \in Uses(r) <=> r = p
  BY <1>1, DetachClass
<1>4. CASE k = "dialog"
  <2>1. ms = <<>>
    BY <1>4 DEF Opening
  <2>2. ms \in Seq(ToScript) /\ \A M : Number(ms, M) = 0
    BY <2>1, Messages
  <2>3. AllBefore(ms, Uses(p), HandsOf(p))
    BY <2>1 DEF AllBefore
  <2>. QED
    BY <1>4, <2>2, <2>3 DEF OpensWith
<1>5. CASE k = "keymap"
  <2>1. ms = <<n>>
    BY <1>1, <1>5 DEF Opening
  <2>2. ms \in Seq(ToScript) /\ \A M : Number(ms, M) = IF n \in M THEN 1 ELSE 0
    BY <1>2, <2>1, Messages
  <2>3. AllBefore(ms, Uses(p), HandsOf(p))
    BY <1>2, <2>1 DEF AllBefore
  <2>4. /\ Number(ms, Executes) = 0 /\ Number(ms, ConfirmRequest) = 0 /\ Number(ms, ScriptTokens) = 1
        /\ Number(ms, {ContinueWait(c, p)}) = 1
        /\ \A d \in Controls : Number(ms, ForTask(d)) = IF d = c THEN 1 ELSE 0
    BY <1>2, <2>2
  <2>5. /\ \A r \in Processes : Number(ms, ContinuesOf(r)) = 0
        /\ \A r \in Processes : Number(ms, HandsOf(r)) = IF r = p THEN 1 ELSE 0
        /\ \A r \in Processes : Number(ms, {Detach(r)}) = 0
        /\ \A r \in Processes : Number(ms, Uses(r)) = 0
    BY <1>2, <2>2
  <2>. QED
    BY <1>5, <2>2, <2>3, <2>4, <2>5 DEF OpensWith
<1>6. CASE k = "console"
  <2>1. ms = <<m, n>>
    BY <1>1, <1>6 DEF Opening
  <2>0. m \in ToScript /\ n \in ToScript
    BY <1>2, <1>3
  <2>2. /\ ms \in Seq(ToScript)
        /\ \A M : Number(ms, M) = (IF m \in M THEN 1 ELSE 0) + (IF n \in M THEN 1 ELSE 0)
        /\ \A A, B : ~(n \in A /\ (m \in B \/ n \in B)) /\ ~(m \in A /\ m \in B) => AllBefore(ms, A, B)
    BY <2>0, <2>1, Messages
  <2>3. AllBefore(ms, Uses(p), HandsOf(p))
    BY <1>2, <1>3, <2>2
  <2>4. /\ Number(ms, Executes) = 0 /\ Number(ms, ConfirmRequest) = 0 /\ Number(ms, ScriptTokens) = 1
    BY <1>2, <1>3, <2>2
  <2>5. \A d \in Controls : Number(ms, ForTask(d)) = IF d = c THEN 1 ELSE 0
    BY <1>2, <1>3, <2>2
  <2>6. /\ \A r \in Processes : Number(ms, ContinuesOf(r)) = 0
        /\ \A r \in Processes : Number(ms, HandsOf(r)) = IF r = p THEN 1 ELSE 0
    BY <1>2, <1>3, <2>2
  <2>7. /\ \A r \in Processes : r # p => Number(ms, {Detach(r)}) = 0
        /\ \A r \in Processes : r # p => Number(ms, Uses(r)) = 0
    BY <1>2, <1>3, <2>2
  <2>. QED
    BY <1>6, <2>2, <2>3, <2>4, <2>5, <2>6, <2>7 DEF OpensWith
<1>. QED
  BY <1>4, <1>5, <1>6

\* A process makes the user interface show a Control of kind k.
LEMMA ShowKeeps ==
    ASSUME IInv, NEW op \in Callouts, Handles(op), NEW p, p = Link,
           NEW k \in {"dialog", "console", "keymap"},
           k = "console" => Kind(loops, TopControl) \in {"screen", "dialog"},
           NEW c, c = lastId + 1, NEW l, l = IF k = "dialog" THEN p ELSE None,
           NEW f, f = Own(k, c, TopControl, l),
           k = "dialog" => loops' = Append(loops, f),
           k # "dialog" => loops' = Append(Append(loops, f), Wait(c)),
           NEW ms, ms = Opening(k, c, p), Send(ms), lastId' = c,
           UNCHANGED <<m_stopped, ended, m_outputState>>, UserOnly
    PROVE  IInv'
<1>0. op \in Asks /\ op # "onProcessInterrupted"
  BY CalloutsAssumption DEF Asks
<1>1. /\ p \in Processes /\ Head(toUser) = To(op, p) /\ state[p] = "Waiting" /\ NoneRunning(state)
      /\ Number(toUser', UserTokens) = 0 /\ Number(toScript, ScriptTokens) = 0
      /\ m_interruptedProcesses = {}
      /\ \A r \in Processes : /\ Number(toUser', AsksOf(r)) = 0 /\ Number(toScript, ContinuesOf(r)) = 0
                              /\ Number(toUser, AsksOf(r)) = IF r = p THEN 1 ELSE 0
      /\ \A d \in Controls : Number(toScript, ForTask(d)) = 0
      /\ Number(toScript, HandsOf(p)) = 0 /\ Number(toScript, {Detach(p)}) = 0
      /\ \A i \in DOMAIN loops : loops[i].link # p
      /\ \A i \in Owns(loops) : m_outputState[loops[i].id].link # p
      /\ Waits(m_waits, TopControl, group[p]) /\ Once(loops)
      /\ \A i \in Owns(loops) : loops[i].id \notin ended
      /\ \A i \in DOMAIN loops : loops[i].loop # "ask"
      /\ \A d \in Controls : Number(toUser', {Complete(d)}) = Number(toUser, {Complete(d)})
      /\ Number(toUser', Confirmation) = Number(toUser, Confirmation)
      /\ \A d, e \in Controls : Precedes(toUser, Complete(d), Complete(e)) =>
           Precedes(toUser', Complete(d), Complete(e))
  BY <1>0, AskFacts
<1>2. /\ toUser' \in Seq(ToUser) /\ \A M : Number(toUser', M) \in Nat
      /\ \A A, B : Followed(toUser, A, B) => Followed(toUser', A, B)
  BY <1>0, Handling
<1>3. /\ ScriptSame /\ UNCHANGED interrupt /\ calling' = calling /\ m_stopSignal' = m_stopSignal
      /\ tasks' = tasks /\ breaks' = breaks
      /\ m_interrupting' = m_interrupting /\ m_interruptedProcesses' = m_interruptedProcesses
      /\ m_stopped' = m_stopped /\ ended' = ended /\ m_outputState' = m_outputState
  BY UserOnlySame
<1>4. /\ c \in Controls /\ c \notin ControlsIn(loops) /\ c \notin ended /\ m_outputState[c] = NoOutput
      /\ \A d \in ended : d <= lastId
      /\ lastId + Number(toUser, ToShow) <= calls + 1 /\ calls <= MaxCalls
      /\ Number(toUser, ToShow) = Number(toUser', ToShow) + 1 /\ Number(toUser', ToShow) \in Nat
  BY NewControl
<1>5. /\ ms \in Seq(ToScript) /\ Number(ms, Executes) = 0 /\ Number(ms, ConfirmRequest) = 0
      /\ Number(ms, ScriptTokens) = IF k = "dialog" THEN 0 ELSE 1
      /\ \A d \in Controls : Number(ms, ForTask(d)) = IF k # "dialog" /\ d = c THEN 1 ELSE 0
      /\ \A r \in Processes : Number(ms, ContinuesOf(r)) = 0
      /\ \A r \in Processes : Number(ms, HandsOf(r)) = IF k # "dialog" /\ r = p THEN 1 ELSE 0
      /\ \A r \in Processes : r # p \/ k # "console" => Number(ms, {Detach(r)}) = 0
      /\ \A r \in Processes : r # p \/ k # "console" => Number(ms, Uses(r)) = 0
      /\ AllBefore(ms, Uses(p), HandsOf(p))
      /\ k = "keymap" => Number(ms, {ContinueWait(c, p)}) = 1
  <2>1. p \in Processes /\ c \in Controls
    BY <1>1, <1>4
  <2>2. OpensWith(Opening(k, c, p), k, c, p)
    BY <2>1, OpeningFacts
  <2>3. OpensWith(ms, k, c, p)
    BY <2>2
  <2>. QED
    BY <2>3 DEF OpensWith
<1>6. /\ toScript' \in Seq(ToScript)
      /\ \A M : /\ Number(toScript, M) \in Nat /\ Number(toScript', M) \in Nat /\ Number(ms, M) \in Nat
                /\ Number(toScript', M) = Number(toScript, M) + Number(ms, M)
  BY <1>5, Sent
<1>7. /\ \A M : Number(ms, M) = 0 => Number(toScript', M) = Number(toScript, M)
      /\ \A M : Number(toScript, M) = 0 => Number(toScript', M) = Number(ms, M)
  BY <1>5, SentSame
<1>8. /\ TopControl \in Controls /\ TopControl = Innermost(loops)
      /\ Kind(loops, TopControl) = loops[At(loops)].loop
      /\ \A i \in Owns(loops) : loops[i].id \in Controls /\ i \in DOMAIN loops
  BY TopFacts
<1>9. /\ f.loop = k /\ f.id = c /\ f.parent = TopControl /\ f.link = l /\ IsOwn(f) /\ f \in Frames
      /\ Wait(c).link = None /\ Wait(c).loop = "wait" /\ ~IsOwn(Wait(c)) /\ p # None /\ l \in Processes \cup {None}
  <2>1. l \in Processes \cup {None} /\ p # None
    BY <1>1, Bounds
  <2>2. f \in Frames
    BY <1>4, <1>8, <2>1, FrameTypes
  <2>3. f.loop = k /\ f.id = c /\ f.parent = TopControl /\ f.link = l
    BY OwnFrames
  <2>. QED
    BY <2>1, <2>2, <2>3, OwnFrames
<1>10. /\ loops' \in Seq(Frames) /\ loops' # <<>>
       /\ Stacked(loops', m_stopped, c) /\ Innermost(loops') = c
       /\ \A i \in DOMAIN loops : i \in DOMAIN loops' /\ loops'[i] = loops[i]
       /\ \A i \in DOMAIN loops' : i \in DOMAIN loops \/ loops'[i] = f \/ loops'[i] = Wait(c)
       /\ \A i \in Owns(loops') : i \in Owns(loops) \/ loops'[i] = f
       /\ ControlsIn(loops') = ControlsIn(loops) \cup {c}
       /\ \A M : Number(loops', M) = Number(loops, M) + (IF f \in M THEN 1 ELSE 0)
                       + IF k # "dialog" /\ Wait(c) \in M THEN 1 ELSE 0
  <2>1. /\ loops \in Seq(Frames) /\ loops # <<>> /\ Stacked(loops, m_stopped, lastId) /\ lastId \in Nat
    BY Facts
  <2>2. PICK ls : ls = loops'
    OBVIOUS
  <2>3. /\ f.loop \notin {"screen", "null"} /\ f.parent = Innermost(loops)
        /\ f.loop = "console" => loops[At(loops)].loop \in {"screen", "dialog"}
        /\ f.loop = "dialog" => ls = Append(loops, f)
        /\ f.loop # "dialog" => ls = Append(Append(loops, f), Wait(c))
    BY <1>8, <1>9, <2>2
  <2>4. /\ ls \in Seq(Frames) /\ ls # <<>>
        /\ Stacked(ls, m_stopped, c) /\ Innermost(ls) = c
        /\ \A i \in DOMAIN loops : i \in DOMAIN ls /\ ls[i] = loops[i]
        /\ \A i \in DOMAIN ls : i \in DOMAIN loops \/ ls[i] = f \/ ls[i] = Wait(c)
        /\ \A i \in Owns(ls) : i \in Owns(loops) \/ ls[i] = f
        /\ ControlsIn(ls) = ControlsIn(loops) \cup {c}
        /\ \A M : Number(ls, M) = Number(loops, M) + (IF f \in M THEN 1 ELSE 0)
                       + IF f.loop # "dialog" /\ Wait(c) \in M THEN 1 ELSE 0
    <3>1. Once(loops) /\ c \in Controls /\ f \in Frames /\ IsOwn(f) /\ f.id = c
      BY <1>1, <1>4, <1>9
    <3>. QED
      BY <2>1, <2>3, <3>1, Shown
  <2>. QED
    BY <1>9, <2>2, <2>4
<1>11. TopControl' = c
  BY <1>10, TopControlIs
<1>12. \A r \in Processes : ~HasToken(r)'
  <2>1. \A r \in Processes : Number(toScript', ContinuesOf(r)) = 0
    BY <1>1, <1>5, <1>7
  <2>. QED
    BY <1>1, <1>3, <2>1 DEF HasToken, NoneRunning, ScriptSame
<1>13. OneToken' /\ Attached'
  <2>1. Number(toScript', ScriptTokens) \in 0..1
    BY <1>1, <1>5, <1>7
  <2>2. Tokens' <= 1
    BY <1>1, <1>3, <2>1 DEF Tokens, Running, Interrupted, ScriptSame
  <2>3. OneToken'
    BY <1>3, <2>2 DEF IInv, OneToken, ScriptSame
  <2>4. \A d \in Controls : Number(toScript', ForTask(d)) > 0 => d = TopControl'
    BY <1>1, <1>5, <1>7, <1>11
  <2>. QED
    BY <1>3, <1>4, <1>11, <1>12, <2>3, <2>4 DEF Attached
<1>14. Stack'
  <2>1. \A i \in DOMAIN loops' : loops'[i].loop # "ask"
    BY <1>1, <1>9, <1>10
  <2>. QED
    BY <1>3, <1>10, <2>1 DEF Stack
<1>15. Outputs'
  <2>1. \A d \in Controls : d \notin ended' => m_outputState'[d] = NoOutput
    BY <1>3 DEF IInv, Outputs
  <2>2. \A d \in ended' : d <= lastId'
    <3>1. lastId \in Nat /\ \A d \in ended : d \in Nat
      BY Facts, UserTypes, Bounds
    <3>. QED
      BY <1>3, <1>4, <3>1
  <2>3. \A i \in Owns(loops') : loops'[i].id \notin ended'
    BY <1>1, <1>3, <1>4, <1>8, <1>9, <1>10
  <2>. QED
    BY <2>1, <2>2, <2>3 DEF Outputs
<1>16. Dialogs'
  <2> SUFFICES ASSUME NEW i \in DOMAIN loops'
               PROVE  IF loops'[i].loop = "dialog"
                      THEN loops'[i].link # None /\ Waits(m_waits', loops'[i].parent, group'[loops'[i].link])
                      ELSE loops'[i].link = None \/ loops'[i].loop = "null"
    BY DEF Dialogs
  <2>1. CASE i \in DOMAIN loops
    BY <1>3, <1>10, <2>1 DEF IInv, Dialogs, ScriptSame
  <2>2. CASE loops'[i] = f
    BY <1>1, <1>3, <1>9, <2>2 DEF ScriptSame
  <2>3. CASE loops'[i] = Wait(c)
    BY <1>9, <2>3
  <2>. QED
    BY <1>10, <2>1, <2>2, <2>3
<1>17. Keymaps'
  <2> SUFFICES ASSUME NEW i \in DOMAIN loops', loops'[i].loop = "keymap",
                      NEW d, NEW e, d = loops'[i].parent, e = loops'[i].id
               PROVE  ParentFirst(d, e)'
    BY DEF Keymaps
  <2>1. CASE i \in DOMAIN loops
    <3>0. loops[i].loop = "keymap" /\ d = loops[i].parent /\ e = loops[i].id
      BY <1>10, <2>1
    <3>1. d \in Controls /\ e \in Controls
      BY <2>1, <3>0, Parents, Facts
    <3>2. ParentFirst(d, e)
      BY <2>1, <3>0 DEF IInv, Keymaps
    <3>3. /\ \A r \in Processes : Number(ms, {Detach(r)}) = 0 \/ Number(toScript, HandsOf(r)) = 0
          /\ d \in m_stopped => d \in m_stopped'
          /\ Precedes(toUser, Complete(d), Complete(e)) =>
               Precedes(toUser', Complete(d), Complete(e)) \/ d \in m_stopped'
      BY <1>1, <1>3, <1>5, <3>1
    <3>. QED
      BY <1>3, <1>5, <3>1, <3>2, <3>3, SentFirst
  <2>2. CASE loops'[i] = f
    <3>1. k = "keymap" /\ d = TopControl /\ e = c
      BY <1>9, <2>2
    <3>2. Number(toScript', {ContinueWait(c, p)}) > 0
      <4>1. Number(ms, {ContinueWait(c, p)}) = 1
        BY <1>5, <3>1
      <4>. QED
        BY <1>6, <4>1
    <3>3. Number(toScript', {Detach(p)}) = 0
      <4>1. Number(ms, {Detach(p)}) = 0
        BY <1>1, <1>5, <3>1
      <4>. QED
        BY <1>1, <1>7, <4>1
    <3>4. Waits(m_waits', d, group'[p])
      BY <1>1, <1>3, <3>1 DEF ScriptSame
    <3>. QED
      BY <1>1, <3>1, <3>2, <3>3, <3>4 DEF ParentFirst
  <2>3. CASE loops'[i] = Wait(c)
    BY <1>9, <2>3
  <2>. QED
    BY <1>10, <2>1, <2>2, <2>3
<1>18. Users' /\ Later'
  <2>1. \A r \in Processes :
           \/ Number(ms, Uses(r)) = 0
           \/ /\ state[r] = "Waiting" /\ Number(toScript, HandsOf(r)) = 0
              /\ AllBefore(ms, Uses(r), HandsOf(r))
    BY <1>1, <1>5
  <2>. QED
    BY <1>3, <1>5, <2>1, SentUses
<1>19. Detaches'
  <2> SUFFICES ASSUME NEW r \in Processes, Number(toScript', {Detach(r)}) > 0
               PROVE  /\ ~HasToken(r)'
                      /\ \A i \in DOMAIN loops' : loops'[i].link # r \/ loops'[i].loop = "null"
                      /\ \A i \in Owns(loops') : loops'[i].loop = "keymap" => m_outputState'[loops'[i].id].link # r
    BY DEF Detaches
  <2>1. /\ \A i \in DOMAIN loops : loops[i].link # r \/ loops[i].loop = "null"
        /\ \A i \in Owns(loops) : loops[i].loop = "keymap" => m_outputState[loops[i].id].link # r
        /\ l # r
    <3>1. CASE r = p /\ k = "console"
      BY <1>1, <1>9, <3>1
    <3>2. CASE r # p \/ k # "console"
      <4>1. Number(toScript', {Detach(r)}) = Number(toScript, {Detach(r)})
        BY <1>5, <1>7, <3>2
      <4>2. Number(toScript, {Detach(r)}) > 0
        BY <4>1
      <4>3. r # p
        <5>1. r = p => Number(toScript, {Detach(r)}) = 0
          BY <1>1
        <5>. QED
          BY <4>2, <5>1
      <4>4. r # None
        BY Bounds
      <4>. QED
        BY <4>2, <4>3, <4>4 DEF IInv, Detaches
    <3>. QED
      BY <3>1, <3>2
  <2>2. \A i \in DOMAIN loops' : loops'[i].link # r \/ loops'[i].loop = "null"
    BY <1>9, <1>10, <2>1, Bounds
  <2>3. ASSUME NEW i \in Owns(loops'), loops'[i].loop = "keymap" PROVE m_outputState'[loops'[i].id].link # r
    <3>1. CASE i \in Owns(loops)
      BY <1>3, <1>8, <1>10, <2>1, <2>3, <3>1
    <3>2. CASE loops'[i] = f
      BY <1>3, <1>4, <1>9, <3>2, Bounds DEF NoOutput
    <3>. QED
      BY <1>10, <3>1, <3>2
  <2>. QED
    BY <1>12, <2>2, <2>3
<1>20. Credits'
  <2>1. m_outputState'[c].target \notin {"screen", "exit"} /\ calls' = calls
    BY <1>3, <1>4 DEF NoOutput, ScriptSame
  <2>2. lastId \in Nat /\ calls \in Nat /\ MaxCalls \in Nat
    BY Facts, StateTypes, Bounds
  <2>3. /\ lastId' + Number(toUser', ToShow)
             + (IF m_outputState'[c].target \in {"screen", "exit"} THEN 1 ELSE 0) <= calls' + 1
        /\ calls' <= MaxCalls
    BY <1>4, <2>1, <2>2
  <2>. QED
    BY <1>11, <2>3 DEF Credits
<1>21. News'
  <2>1. Number(toScript', Executes) = Number(toScript, Executes)
    BY <1>5, <1>7
  <2>. QED
    BY <1>3, <2>1 DEF IInv, News, NewOnes, ScriptSame
<1>22. UserTyped
  BY <1>2, <1>3, <1>4, <1>6, <1>10, UserTypes DEF UserTyped
<1>23. Balance'
  <2> SUFFICES ASSUME NEW d \in Controls
               PROVE  Number(loops', {Wait(d)}) = EndsSum(toScript', m_waits, toUser', m_stopped, d)
    BY <1>3 DEF Balance, ScriptSame
  <2>1. Number(loops, {Wait(d)}) = EndsSum(toScript, m_waits, toUser, m_stopped, d)
    BY Facts DEF Balance
  <2>2. /\ Number(toScript, ForTask(d)) \in Nat /\ Number(m_waits, WaitsOf(d)) \in Nat
        /\ Number(toUser, {Complete(d)}) \in Nat /\ Number(loops, {Wait(d)}) \in Nat
    BY Facts
  <2>3. Number(toScript', ForTask(d)) = Number(toScript, ForTask(d)) + IF k # "dialog" /\ d = c THEN 1 ELSE 0
    BY <1>5, <1>6
  <2>4. Number(loops', {Wait(d)}) = Number(loops, {Wait(d)}) + IF k # "dialog" /\ d = c THEN 1 ELSE 0
    <3>1. (Wait(c) \in {Wait(d)} <=> d = c) /\ f \notin {Wait(d)}
      BY <1>9, OwnFrames
    <3>. QED
      BY <1>10, <2>2, <3>1
  <2>5. Number(toUser', {Complete(d)}) = Number(toUser, {Complete(d)})
    BY <1>1
  <2>. QED
    BY <2>1, <2>2, <2>3, <2>4, <2>5 DEF EndsSum
<1>24. Handed'
  <2> SUFFICES ASSUME NEW r \in Processes
               PROVE  HandsSum(toUser', toScript', loops', m_outputState, m_interruptedProcesses, r)
                        = IF state[r] = "Waiting" THEN 1 ELSE 0
    BY <1>3 DEF Handed, ScriptSame
  <2>1. HandsSum(toUser, toScript, loops, m_outputState, m_interruptedProcesses, r)
          = IF state[r] = "Waiting" THEN 1 ELSE 0
    BY Facts DEF Handed
  <2>2. /\ Number(toScript, HandsOf(r)) \in Nat /\ Number(loops, FramesOf(r)) \in Nat
        /\ Ending(ControlsIn(loops), m_outputState, r) \in Nat
    BY Facts, HandTypes
  <2>3. Ending(ControlsIn(loops'), m_outputState, r) = Ending(ControlsIn(loops), m_outputState, r)
    <3>1. PICK C, D, o : C = ControlsIn(loops) /\ D = ControlsIn(loops') /\ o = m_outputState
      OBVIOUS
    <3>2. IsFiniteSet(C) /\ c \notin C /\ D = C \cup {c}
      BY <1>4, <1>10, <3>1, Facts
    <3>3. Ending(D, o, r) = Ending(C, o, r) + IF o[c].link = r THEN 1 ELSE 0
      BY <3>2, EndingMore
    <3>4. o[c].link # r
      BY <1>4, <3>1, Bounds DEF NoOutput
    <3>. QED
      BY <2>2, <3>1, <3>3, <3>4
  <2>4. Number(toUser', AsksOf(r)) = 0 /\ Number(toUser, AsksOf(r)) = IF r = p THEN 1 ELSE 0
    BY <1>1
  <2>5. Number(toScript', HandsOf(r)) = Number(toScript, HandsOf(r)) + IF k # "dialog" /\ r = p THEN 1 ELSE 0
    BY <1>5, <1>6
  <2>6. Number(loops', FramesOf(r)) = Number(loops, FramesOf(r)) + IF k = "dialog" /\ r = p THEN 1 ELSE 0
    <3>1. (f \in FramesOf(r) <=> k = "dialog" /\ r = p) /\ Wait(c) \notin FramesOf(r)
      BY <1>9, Bounds DEF FramesOf
    <3>. QED
      BY <1>10, <2>2, <3>1
  <2>7. CASE r = p
    BY <2>1, <2>2, <2>3, <2>4, <2>5, <2>6, <2>7 DEF HandsSum
  <2>8. CASE r # p
    BY <2>1, <2>2, <2>3, <2>4, <2>5, <2>6, <2>8 DEF HandsSum
  <2>. QED
    BY <2>7, <2>8
<1>25. Interrupts'
  <2>1. Number(toScript', ConfirmRequest) = Number(toScript, ConfirmRequest)
    BY <1>5, <1>7
  <2>2. Number(loops', {Ask}) = Number(loops, {Ask})
    <3>1. f \notin {Ask} /\ Wait(c) \notin {Ask} /\ Number(loops, {Ask}) \in Nat
      BY <1>9, OwnFrames, Facts
    <3>. QED
      BY <1>10, <3>1
  <2>. QED
    BY <1>1, <1>2, <1>3, <2>1, <2>2 DEF IInv, Interrupts
<1>. QED
  BY <1>3, <1>13, <1>14, <1>15, <1>16, <1>17, <1>18, <1>19, <1>20, <1>21, <1>22, <1>23, <1>24, <1>25, UserClose

\* What Show() does with its arguments
LEMMA ShowForms ==
    ASSUME NEW ls \in Seq(Frames), NEW kind, NEW parent, NEW link, NEW input, NEW ms \in Seq(ToScript),
           NEW c, NEW f, Show(ls, kind, parent, link, input, ms), c = lastId + 1,
           f = Own(kind, c, parent, link)
    PROVE  /\ lastId' = c
           /\ input = None => loops' = Append(ls, f) /\ Send(ms)
           /\ input # None => /\ loops' = Append(Append(ls, f), Wait(c))
                              /\ Send(Append(ms, ContinueWait(c, input)))
<1>1. /\ lastId' = c
      /\ loops' = Append(ls, f) \o IF input = None THEN <<>> ELSE <<Wait(c)>>
      /\ Send(ms \o IF input = None THEN <<>> ELSE <<ContinueWait(c, input)>>)
  BY DEF Show
<1>2. \A S : \A s \in Seq(S) : \A x : s \o <<>> = s /\ s \o <<x>> = Append(s, x)
  <2> SUFFICES ASSUME NEW S, NEW s \in Seq(S), NEW x PROVE s \o <<>> = s /\ s \o <<x>> = Append(s, x)
    OBVIOUS
  <2>1. s \o <<>> = s
    OBVIOUS
  <2>2. s \in Seq(S \cup {x}) /\ x \in S \cup {x}
    OBVIOUS
  <2>3. s \o <<x>> = Append(s, x)
    BY <2>2, SentOne
  <2>. QED
    BY <2>1, <2>3
<1>3. PICK us : us = Append(ls, f)
  OBVIOUS
<1>4. us \in Seq(Frames \cup {f})
  BY <1>3
<1>5. /\ us \o <<>> = us /\ us \o <<Wait(c)>> = Append(us, Wait(c))
      /\ ms \o <<>> = ms /\ ms \o <<ContinueWait(c, input)>> = Append(ms, ContinueWait(c, input))
  BY <1>2, <1>4
<1>6. CASE input = None
  BY <1>1, <1>3, <1>5, <1>6
<1>7. CASE input # None
  BY <1>1, <1>3, <1>5, <1>7
<1>. QED
  BY <1>1, <1>6, <1>7

\* A script asks for what is in Callouts.
LEMMA HandlesCallout ==
    ASSUME IInv, NEW op, Handles(op), op \notin {"onProcessInterrupted", "onTaskComplete", "call", "onInterruptConfirm"}
    PROVE  op \in Callouts /\ op \in Asks /\ Link \in Processes /\ Link # None
<1>1. Head(toUser) \in ToUser /\ Head(toUser).op = op
  BY Handling
<1>2. op \in Asks
  BY <1>1, UserForms
<1>3. Link \in Processes
  BY <1>1, <1>2, UserForms DEF Link
<1>. QED
  BY <1>2, <1>3, Bounds DEF Asks

LEMMA ShowDialogKeeps ==
    ASSUME IInv, ShowDialog
    PROVE  IInv'
<1>1. PICK p, c, f : p = Link /\ c = lastId + 1 /\ f = Own("dialog", c, TopControl, p)
  OBVIOUS
<1>2. /\ Handles("dialog") /\ UserOnly /\ UNCHANGED <<m_stopped, ended, m_outputState>>
      /\ Show(loops, "dialog", TopControl, p, None, <<>>)
  BY <1>1 DEF ShowDialog
<1>3. "dialog" \in Callouts
  BY <1>2, HandlesCallout
<1>4. loops \in Seq(Frames) /\ <<>> \in Seq(ToScript)
  BY Facts
<1>5. lastId' = c /\ loops' = Append(loops, f) /\ Send(<<>>)
  BY <1>1, <1>2, <1>4, ShowForms
<1>6. <<>> = Opening("dialog", c, p)
  BY DEF Opening
<1>7. PICK k, l, ms : k = "dialog" /\ l = p /\ ms = <<>>
  OBVIOUS
<1>8. /\ k \in {"dialog", "console", "keymap"}
      /\ k = "console" => Kind(loops, TopControl) \in {"screen", "dialog"}
      /\ l = IF k = "dialog" THEN p ELSE None
      /\ f = Own(k, c, TopControl, l)
      /\ k = "dialog" => loops' = Append(loops, f)
      /\ k # "dialog" => loops' = Append(Append(loops, f), Wait(c))
      /\ ms = Opening(k, c, p) /\ Send(ms)
  BY <1>1, <1>5, <1>6, <1>7
<1>. QED
  BY <1>1, <1>2, <1>3, <1>5, <1>8, ShowKeeps

LEMMA UseKeymapKeeps ==
    ASSUME IInv, UseKeymap
    PROVE  IInv'
<1>1. PICK p, c, f : p = Link /\ c = lastId + 1 /\ f = Own("keymap", c, TopControl, None)
  OBVIOUS
<1>2. Handles("keymap") /\ UserOnly /\ UNCHANGED <<m_stopped, ended, m_outputState>>
  BY DEF UseKeymap, Fail
<1>3. "keymap" \in Callouts /\ "keymap" \in Asks /\ p # None
  BY <1>1, <1>2, HandlesCallout
<1>4. CASE Show(loops, "keymap", TopControl, None, p, <<>>)
  <2>1. loops \in Seq(Frames) /\ <<>> \in Seq(ToScript)
    BY Facts
  <2>2. /\ lastId' = c /\ loops' = Append(Append(loops, f), Wait(c))
        /\ Send(Append(<<>>, ContinueWait(c, p)))
    <3>1. p # None /\ c = lastId + 1 /\ f = Own("keymap", c, TopControl, None)
      BY <1>1, <1>3
    <3>2. PICK ms : ms = <<>>
      OBVIOUS
    <3>3. ms \in Seq(ToScript) /\ Show(loops, "keymap", TopControl, None, p, ms)
      BY <1>4, <2>1, <3>2
    <3>4. /\ lastId' = c /\ loops' = Append(Append(loops, f), Wait(c))
          /\ Send(Append(ms, ContinueWait(c, p)))
      BY <2>1, <3>1, <3>3, ShowForms
    <3>. QED
      BY <3>2, <3>4
  <2>3. Append(<<>>, ContinueWait(c, p)) = Opening("keymap", c, p)
    BY NothingBefore DEF Opening
  <2>4. PICK k, l, ms : k = "keymap" /\ l = None /\ ms = Opening("keymap", c, p)
    OBVIOUS
  <2>5. /\ k \in {"dialog", "console", "keymap"}
        /\ k = "console" => Kind(loops, TopControl) \in {"screen", "dialog"}
        /\ l = IF k = "dialog" THEN p ELSE None
        /\ f = Own(k, c, TopControl, l)
        /\ k = "dialog" => loops' = Append(loops, f)
        /\ k # "dialog" => loops' = Append(Append(loops, f), Wait(c))
        /\ ms = Opening(k, c, p) /\ Send(ms)
    BY <1>1, <2>2, <2>3, <2>4
  <2>. QED
    BY <1>1, <1>2, <1>3, <2>2, <2>5, ShowKeeps
<1>5. CASE Send(<<To("continueProcess", p)>>) /\ UNCHANGED <<loops, lastId>>
  <2>1. "continueProcess" \in Continues
    BY DEF Continues
  <2>2. UNCHANGED <<user, lastId>> /\ Send(<<To("continueProcess", Link)>>)
    BY <1>1, <1>2, <1>5 DEF user
  <2>. QED
    BY <1>2, <1>3, <2>1, <2>2, AnswersKeep
<1>6. CASE Fail(p, <<>>) /\ UNCHANGED <<loops, lastId>>
  BY <1>1, <1>2, <1>3, <1>6, FailKeeps
<1>. QED
  BY <1>1, <1>4, <1>5, <1>6 DEF UseKeymap

LEMMA PopupConsoleKeeps ==
    ASSUME IInv, PopupConsole
    PROVE  IInv'
<1>1. PICK p, t, c, f : /\ p = Link /\ t = TopControl /\ c = lastId + 1
                        /\ f = Own("console", c, TopControl, None)
  OBVIOUS
<1>2. Handles("console") /\ UserOnly /\ UNCHANGED m_stopped /\ HandlePopupConsole(loops, t, p)
  BY <1>1 DEF PopupConsole
<1>3. "console" \in Callouts /\ "console" \in Asks /\ p \in Processes /\ p # None
  BY <1>1, <1>2, HandlesCallout
<1>4. CASE /\ Kind(loops, t) \in {"screen", "dialog"}
           /\ Show(loops, "console", t, None, p, <<Detach(p)>>)
           /\ UNCHANGED <<ended, m_outputState>>
  <2>1. loops \in Seq(Frames) /\ <<Detach(p)>> \in Seq(ToScript)
    BY <1>3, Facts, DetachClass, Messages
  <2>2. /\ lastId' = c /\ loops' = Append(Append(loops, f), Wait(c))
        /\ Send(Append(<<Detach(p)>>, ContinueWait(c, p)))
    BY <1>1, <1>3, <1>4, <2>1, ShowForms
  <2>3. Append(<<Detach(p)>>, ContinueWait(c, p)) = Opening("console", c, p)
    BY NothingBefore DEF Opening
  <2>4. PICK k, l, ms : k = "console" /\ l = None /\ ms = Opening("console", c, p)
    OBVIOUS
  <2>5. /\ k \in {"dialog", "console", "keymap"}
        /\ k = "console" => Kind(loops, TopControl) \in {"screen", "dialog"}
        /\ l = IF k = "dialog" THEN p ELSE None
        /\ f = Own(k, c, TopControl, l)
        /\ k = "dialog" => loops' = Append(loops, f)
        /\ k # "dialog" => loops' = Append(Append(loops, f), Wait(c))
        /\ ms = Opening(k, c, p) /\ Send(ms)
    BY <1>1, <1>4, <2>2, <2>3, <2>4
  <2>6. UNCHANGED <<m_stopped, ended, m_outputState>>
    BY <1>2, <1>4
  <2>. QED
    BY <1>1, <1>2, <1>3, <2>2, <2>5, <2>6, ShowKeeps
<1>5. CASE /\ Send(<<To("continueProcess", p)>>)
           /\ loops' = loops /\ UNCHANGED <<lastId, ended, m_outputState>>
  <2>1. "continueProcess" \in Continues
    BY DEF Continues
  <2>2. UNCHANGED <<user, lastId>> /\ Send(<<To("continueProcess", Link)>>)
    BY <1>1, <1>2, <1>5 DEF user
  <2>. QED
    BY <1>2, <1>3, <2>1, <2>2, AnswersKeep
<1>6. CASE /\ Kind(loops, t) = "keymap"
           /\ m_outputState' = [m_outputState EXCEPT ![t] = [link |-> p, target |-> "console"]]
           /\ ended' = ended \cup {t}
           /\ Send(<<>>) /\ loops' = loops /\ UNCHANGED lastId
  <2>1. PICK ms : ms = IF Kind(loops, t) = "keymap" THEN <<>> ELSE <<Detach(p)>>
    OBVIOUS
  <2>2. Send(ms) /\ UNCHANGED <<loops, m_stopped, lastId>>
    BY <1>2, <1>6, <2>1
  <2>3. Ends(Kind(loops, t), "console")
    BY <1>6 DEF Ends
  <2>. QED
    BY <1>1, <1>2, <1>3, <1>6, <2>1, <2>2, <2>3, EndingKeeps
<1>7. CASE Fail(p, <<>>) /\ loops' = loops /\ UNCHANGED lastId
  BY <1>1, <1>2, <1>3, <1>7, FailKeeps
<1>. QED
  BY <1>2, <1>4, <1>5, <1>6, <1>7 DEF HandlePopupConsole, EndWith, Detach

\* A Control whose own event loop was told to end ends.
OwnKinds == {"screen", "dialog", "console", "keymap", "null"}

LEMMA LeavingFacts ==
    ASSUME IInv, NEW kind \in OwnKinds, Leaves(kind), NEW c, c = TopControl
    PROVE  /\ Idle(loops) /\ Top = loops[Len(loops)] /\ Top.id = c /\ Top.loop = kind /\ IsOwn(Top)
           /\ Len(loops) \in Owns(loops) /\ Len(loops) \in DOMAIN loops
           /\ c \in Controls /\ c \in ControlsIn(loops) /\ c \in ended /\ Out = m_outputState[c]
           /\ Output(Len(loops), Out) /\ Out.link \in Processes \cup {None}
           /\ \A i \in Owns(loops) : i # Len(loops) => loops[i].id \notin ended /\ loops[i].id # c
<1>1. Top.loop = kind /\ Stops
  BY DEF Leaves
<1>2. IsOwn(Top)
  BY <1>1, OwnFrames DEF OwnKinds
<1>3. /\ Idle(loops) /\ Top.id = c /\ Top = loops[Len(loops)] /\ At(loops) = Len(loops)
      /\ At(loops) \in Owns(loops) /\ Len(loops) \in DOMAIN loops /\ c \in Controls /\ c \in ControlsIn(loops)
      /\ \A i \in Owns(loops) : loops[i].id = c => i = At(loops)
  BY <1>2, TopFacts
<1>4. c \in ended
  BY <1>1, <1>2, <1>3 DEF Stops, OwnKinds
<1>5. Output(Len(loops), Out) /\ \A i \in Owns(loops) : loops[i].id \in ended => loops[i].id = c
  BY <1>3, <1>4 DEF IInv, Outputs, Out
<1>6. Out.link \in Processes \cup {None}
  BY <1>3, UserTypes DEF Out, OutputTypes
<1>. QED
  BY <1>1, <1>2, <1>3, <1>4, <1>5, <1>6 DEF Out

\* What it ended with, and the process that opened it, are in no other hand.
LEMMA LeavingHands ==
    ASSUME IInv, NEW kind \in OwnKinds, Leaves(kind), NEW c, c = TopControl, NEW r \in Processes
    PROVE  /\ Out.link = r =>
                /\ state[r] = "Waiting" /\ Number(toScript, HandsOf(r)) = 0
                /\ \A i \in DOMAIN loops : loops[i].link # r
                /\ \A e \in ControlsIn(loops) : e # c => m_outputState[e].link # r
           /\ Top.link = r =>
                /\ state[r] = "Waiting" /\ Number(toScript, HandsOf(r)) = 0
                /\ kind # "null" => Number(toScript, {Detach(r)}) = 0
                /\ \A i \in DOMAIN Front(loops) : loops[i].link # r
                /\ \A e \in ControlsIn(loops) : m_outputState[e].link # r
<1>1. /\ Top = loops[Len(loops)] /\ Len(loops) \in DOMAIN loops /\ c \in ControlsIn(loops)
      /\ Out = m_outputState[c] /\ Top.loop = kind
  BY LeavingFacts
<1>2. PICK u, s, f, o, i : /\ u = Number(toUser, AsksOf(r)) /\ s = Number(toScript, HandsOf(r))
                           /\ f = Number(loops, FramesOf(r))
                           /\ o = Ending(ControlsIn(loops), m_outputState, r)
                           /\ i = IF r \in m_interruptedProcesses THEN 1 ELSE 0
  OBVIOUS
<1>3. /\ u \in Nat /\ s \in Nat /\ f \in Nat /\ o \in Nat /\ i \in Nat
      /\ u + s + f + o + i = IF state[r] = "Waiting" THEN 1 ELSE 0
      /\ f = 0 <=> \A j \in DOMAIN loops : loops[j].link # r
      /\ o = 0 <=> \A e \in ControlsIn(loops) : m_outputState[e].link # r
  BY <1>2, InHand
<1>4. ASSUME Out.link = r
      PROVE  /\ state[r] = "Waiting" /\ s = 0
             /\ \A j \in DOMAIN loops : loops[j].link # r
             /\ \A e \in ControlsIn(loops) : e # c => m_outputState[e].link # r
  <2>1. o # 0
    BY <1>1, <1>3, <1>4
  <2>2. state[r] = "Waiting" /\ s = 0 /\ f = 0 /\ o = 1
    <3>1. PICK w : w = IF state[r] = "Waiting" THEN 1 ELSE 0
      OBVIOUS
    <3>2. u \in Nat /\ s \in Nat /\ f \in Nat /\ o \in Nat /\ i \in Nat /\ u + s + f + o + i = w /\ w \in {0, 1}
      BY <1>3, <3>1
    <3>3. w = 1 /\ s = 0 /\ f = 0 /\ o = 1
      BY <2>1, <3>2
    <3>. QED
      BY <3>1, <3>3
  <2>3. PICK C, D, m : C = ControlsIn(loops) \ {c} /\ D = ControlsIn(loops) /\ m = m_outputState
    OBVIOUS
  <2>4. IsFiniteSet(C) /\ IsFiniteSet(D)
    <3>1. IsFiniteSet(D) /\ C \in SUBSET D
      BY <2>3, Facts
    <3>. QED
      BY <3>1, FS_Subset
  <2>5. c \notin C /\ D = C \cup {c}
    BY <1>1, <2>3
  <2>6. Ending(D, m, r) = Ending(C, m, r) + IF m[c].link = r THEN 1 ELSE 0
    BY <2>4, <2>5, EndingMore
  <2>7. Ending(C, m, r) \in Nat /\ (Ending(C, m, r) = 0 <=> \A e \in C : m[e].link # r)
    BY <2>4, EndingType
  <2>8. Ending(D, m, r) = 1 /\ m[c].link = r
    BY <1>1, <1>2, <1>4, <2>2, <2>3
  <2>9. \A e \in C : m[e].link # r
    BY <2>6, <2>7, <2>8
  <2>. QED
    BY <1>3, <2>2, <2>3, <2>9
<1>5. ASSUME Top.link = r
      PROVE  /\ state[r] = "Waiting" /\ s = 0
             /\ kind # "null" => Number(toScript, {Detach(r)}) = 0
             /\ \A j \in DOMAIN Front(loops) : loops[j].link # r
             /\ \A e \in ControlsIn(loops) : m_outputState[e].link # r
  <2>1. f # 0
    BY <1>1, <1>3, <1>5
  <2>2. state[r] = "Waiting" /\ s = 0 /\ f = 1 /\ o = 0
    BY <1>3, <2>1
  <2>3. loops \in Seq(Frames) /\ loops # <<>>
    BY Facts
  <2>4. /\ Front(loops) \in Seq(Frames) /\ Last(loops) \in Frames /\ Last(loops) = loops[Len(loops)]
        /\ \A j \in DOMAIN Front(loops) : j \in 1..Len(loops) - 1 /\ Front(loops)[j] = loops[j]
    BY <2>3, FrontLast
  <2>5. Number(loops, FramesOf(r)) = Number(Front(loops), FramesOf(r)) + IF Last(loops) \in FramesOf(r) THEN 1 ELSE 0
    BY <2>3, NumberFront
  <2>6. Last(loops) \in FramesOf(r)
    BY <1>1, <1>5, <2>4 DEF FramesOf
  <2>7. Number(Front(loops), FramesOf(r)) = 0
    <3>1. Number(Front(loops), FramesOf(r)) \in Nat
      BY <2>4, NumberType
    <3>2. Number(loops, FramesOf(r)) = 1
      BY <1>2, <2>2
    <3>. QED
      BY <2>5, <2>6, <3>1, <3>2
  <2>8. \A j \in DOMAIN Front(loops) : Front(loops)[j] \notin FramesOf(r)
    BY <2>4, <2>7, NumberType
  <2>9. \A j \in DOMAIN Front(loops) : loops[j].link # r
    <3> SUFFICES ASSUME NEW j \in DOMAIN Front(loops) PROVE loops[j].link # r
      OBVIOUS
    <3>1. Front(loops)[j] = loops[j] /\ Front(loops)[j] \notin FramesOf(r) /\ j \in DOMAIN loops
      BY <2>3, <2>4, <2>8
    <3>2. loops[j] \in Frames
      BY <2>3, <3>1
    <3>. QED
      BY <3>1, <3>2 DEF FramesOf
  <2>10. kind # "null" => Number(toScript, {Detach(r)}) = 0
    <3>1. Number(toScript, {Detach(r)}) \in Nat
      BY Facts
    <3>2. Number(toScript, {Detach(r)}) > 0 => \A j \in DOMAIN loops : loops[j].link # r \/ loops[j].loop = "null"
      BY DEF IInv, Detaches
    <3>. QED
      BY <1>1, <1>5, <3>1, <3>2
  <2>. QED
    BY <1>3, <2>2, <2>9, <2>10
<1>. QED
  BY <1>2, <1>4, <1>5

\* Below it is its parent, which is not told to end, and waits.
LEMMA LeavingParent ==
    ASSUME IInv, NEW kind \in OwnKinds \ {"screen", "null"}, Leaves(kind), NEW c, c = TopControl,
           NEW d, d = Top.parent, NEW ls, ls = Front(loops)
    PROVE  /\ ls \in Seq(Frames) /\ ls # <<>> /\ Stacked(ls, m_stopped, lastId)
           /\ Once(ls) /\ Innermost(ls) = d /\ ControlsIn(ls) = ControlsIn(loops) \ {c}
           /\ d \in Controls /\ d \in ControlsIn(ls) /\ d # c /\ d \notin ended /\ m_outputState[d] = NoOutput
           /\ Kind(ls, d) \in OwnKinds /\ \A i \in Owns(ls) : ls[i].id = d => ls[i].loop = Kind(ls, d)
           /\ kind = "console" => Kind(ls, d) \in {"screen", "dialog"}
           /\ \A i \in DOMAIN ls : i \in DOMAIN loops /\ ls[i] = loops[i] /\ i # Len(loops)
           /\ \A i \in Owns(ls) : i \in Owns(loops) /\ ls[i].id \in Controls /\ ls[i].id \notin ended
           /\ \A i \in Owns(ls) : ls[i].id <= lastId
           /\ \A M : Number(loops, M) = Number(ls, M) + IF Top \in M THEN 1 ELSE 0
           /\ \A M : Number(ls, M) \in Nat
<1>1. /\ Idle(loops) /\ Top = loops[Len(loops)] /\ Top.id = c /\ Top.loop = kind
      /\ c \in Controls /\ c \in ControlsIn(loops)
      /\ \A i \in Owns(loops) : i # Len(loops) => loops[i].id \notin ended /\ loops[i].id # c
  BY LeavingFacts
<1>2. /\ loops \in Seq(Frames) /\ loops # <<>> /\ Stacked(loops, m_stopped, lastId) /\ lastId \in Nat
  BY Facts
<1>3. Last(loops) = loops[Len(loops)] /\ Last(loops) = Top
  BY <1>1, <1>2, FrontLast
<1>4. Last(loops).loop \notin {"screen", "null"}
  BY <1>1, <1>3
<1>5. /\ Front(loops) # <<>> /\ Front(loops) \in Seq(Frames) /\ Once(Front(loops))
      /\ Innermost(Front(loops)) = Last(loops).parent
      /\ ControlsIn(Front(loops)) = ControlsIn(loops) \ {Last(loops).id}
      /\ Last(loops).loop = "console" => Kind(Front(loops), Last(loops).parent) \in {"screen", "dialog"}
  BY <1>1, <1>2, <1>4, PopControl
<1>6. Stacked(Front(loops), m_stopped, lastId)
  BY <1>2, FrontPlain
<1>7. /\ ls # <<>> /\ ls \in Seq(Frames) /\ Once(ls) /\ Stacked(ls, m_stopped, lastId)
      /\ Innermost(ls) = d /\ ControlsIn(ls) = ControlsIn(loops) \ {c}
      /\ kind = "console" => Kind(ls, d) \in {"screen", "dialog"}
  BY <1>1, <1>3, <1>5, <1>6
<1>8. At(ls) \in Owns(ls) /\ d \in ControlsIn(ls)
  BY <1>2, <1>7, TopIs
<1>9. \A i \in DOMAIN ls : i \in DOMAIN loops /\ ls[i] = loops[i] /\ i # Len(loops)
  <2>1. /\ DOMAIN Front(loops) = 1..(Len(loops) - 1) /\ \A i \in 1..(Len(loops) - 1) : Front(loops)[i] = loops[i]
    BY <1>2, FrontLast
  <2>2. DOMAIN loops = 1..Len(loops) /\ Len(loops) \in Nat
    BY Facts
  <2>. QED
    BY <2>1, <2>2
<1>10. \A i \in Owns(ls) : i \in Owns(loops) /\ i # Len(loops) /\ ls[i] = loops[i]
  BY <1>9 DEF Owns
<1>11. \A i \in Owns(ls) : ls[i].id \in Controls /\ ls[i].id \notin ended /\ ls[i].id <= lastId /\ ls[i].id # c
  BY <1>1, <1>10, TopFacts
<1>12. Ids(ls, lastId)
  BY <1>7 DEF Stacked
<1>13. /\ \A i, j \in Owns(ls) : ls[i].id = ls[j].id => i = j
       /\ \A i \in Owns(ls) : Kind(ls, ls[i].id) = ls[i].loop
       /\ \A i \in Owns(ls) : ls[i] \in Frames
  BY <1>2, <1>7, <1>12, UniqueIds
<1>14. /\ Kind(ls, d) \in OwnKinds /\ \A i \in Owns(ls) : ls[i].id = d => ls[i].loop = Kind(ls, d)
  <2>1. \A i \in Owns(ls) : ls[i].id = d => ls[i].loop = Kind(ls, d)
    BY <1>13
  <2>2. \A i \in Owns(ls) : IsOwn(ls[i])
    BY DEF Owns
  <2>3. \A i \in Owns(ls) : ls[i].loop \in OwnKinds
    BY <1>13, <2>2, FrameTypes DEF OwnKinds
  <2>4. \E i \in Owns(ls) : ls[i].id = d
    BY <1>8 DEF ControlsIn
  <2>. QED
    BY <2>1, <2>3, <2>4
<1>15. d \in Controls /\ d # c /\ d \notin ended
  <2>1. \E i \in Owns(ls) : ls[i].id = d
    BY <1>8 DEF ControlsIn
  <2>. QED
    BY <1>11, <2>1
<1>16. m_outputState[d] = NoOutput
  BY <1>15 DEF IInv, Outputs
<1>17. \A M : Number(loops, M) = Number(ls, M) + IF Top \in M THEN 1 ELSE 0
  BY <1>2, <1>3, NumberFront
<1>18. \A M : Number(ls, M) \in Nat
  BY <1>7, NumberType
<1>. QED
  BY <1>7, <1>8, <1>9, <1>10, <1>11, <1>14, <1>15, <1>16, <1>17, <1>18

\* Requests that pass process l of a dialog, and process q that ended it, on to others:
\* t is continued, the parent, a Control of kind up, ends with p.
Passes(ms, l, q, t, p, up) ==
    /\ ms \in Seq(ToScript) /\ Number(ms, Executes) = 0 /\ Number(ms, ConfirmRequest) = 0
    /\ Number(ms, ScriptTokens) = IF t = None THEN 0 ELSE 1
    /\ \A e \in Controls : Number(ms, ForTask(e)) = 0
    /\ \A r \in Processes : Number(ms, ContinuesOf(r)) = IF r = t THEN 1 ELSE 0
    /\ \A r \in Processes : Number(ms, HandsOf(r)) + (IF r = p THEN 1 ELSE 0)
                              = (IF r = l THEN 1 ELSE 0) + (IF r = q THEN 1 ELSE 0)
    /\ \A r \in Processes : Number(ms, {Detach(r)}) = 0 \/ (r = p /\ up # "keymap")
    /\ \A r \in Processes : Number(ms, Uses(r)) = 0 \/ (r \in {l, q} /\ AllBefore(ms, Uses(r), HandsOf(r)))
\* What the parent ends with
Passed(d, l, p, o, up) ==
    IF p = None THEN UNCHANGED <<ended, m_outputState>>
    ELSE /\ m_outputState' = [m_outputState EXCEPT ![d] = [link |-> p, target |-> o]]
         /\ ended' = ended \cup {d}
         /\ o \in Targets \cup {"none", "end", "console"}
         /\ IF up = "keymap" THEN p = l ELSE o \in {"screen", "exit"} /\ up # "null"

LEMMA LeftKeeps ==
    ASSUME IInv, NEW kind \in OwnKinds \ {"screen", "null"}, Leaves(kind), NEW d, d = Top.parent,
           loops' = Front(loops), NEW l, l = Top.link, NEW q, q = Out.link,
           NEW t \in {None, l}, NEW p \in {None, l, q}, p # None => t = None,
           NEW up, up = Kind(loops', d),
           NEW o, o \in {"screen", "exit"} => Out.target \in {"screen", "exit"}, Passed(d, l, p, o, up),
           NEW ms, Passes(ms, l, q, t, p, up), Send(ms),
           UNCHANGED <<toUser, m_stopped, lastId>>, UserOnly
    PROVE  IInv'
<1>0. PICK c, ls : c = TopControl /\ ls = Front(loops)
  OBVIOUS
<1>1. /\ Idle(loops) /\ Top = loops[Len(loops)] /\ Top.id = c /\ Top.loop = kind /\ IsOwn(Top)
      /\ Len(loops) \in Owns(loops) /\ Len(loops) \in DOMAIN loops
      /\ c \in Controls /\ c \in ControlsIn(loops) /\ c \in ended /\ Out = m_outputState[c]
      /\ Out.link \in Processes \cup {None}
  <2>1. kind \in OwnKinds
    OBVIOUS
  <2>. QED
    BY <1>0, <2>1, LeavingFacts
<1>2. /\ ls \in Seq(Frames) /\ ls # <<>> /\ Stacked(ls, m_stopped, lastId)
      /\ Innermost(ls) = d /\ ControlsIn(ls) = ControlsIn(loops) \ {c}
      /\ d \in Controls /\ d \in ControlsIn(ls) /\ d # c /\ d \notin ended /\ m_outputState[d] = NoOutput
      /\ Kind(ls, d) \in OwnKinds /\ \A i \in Owns(ls) : ls[i].id = d => ls[i].loop = Kind(ls, d)
      /\ \A i \in DOMAIN ls : i \in DOMAIN loops /\ ls[i] = loops[i] /\ i # Len(loops)
      /\ \A i \in Owns(ls) : i \in Owns(loops) /\ ls[i].id \in Controls /\ ls[i].id \notin ended
      /\ \A i \in Owns(ls) : ls[i].id <= lastId
      /\ \A M : Number(loops, M) = Number(ls, M) + IF Top \in M THEN 1 ELSE 0
      /\ \A M : Number(ls, M) \in Nat
  BY <1>0, LeavingParent
<1>3. /\ NoneRunning(state) /\ m_interruptedProcesses = {}
      /\ Number(toUser, UserTokens) = 0 /\ Number(toScript, ScriptTokens) = 0
      /\ \A r \in Processes : Number(toUser, AsksOf(r)) = 0 /\ Number(toScript, ContinuesOf(r)) = 0
      /\ \A e \in Controls : Number(toScript, ForTask(e)) = 0
  BY <1>1, IdleFacts
<1>4. /\ ScriptSame /\ UNCHANGED interrupt /\ calling' = calling /\ m_stopSignal' = m_stopSignal
      /\ tasks' = tasks /\ breaks' = breaks /\ toUser' = toUser /\ m_stopped' = m_stopped /\ lastId' = lastId
      /\ m_interrupting' = m_interrupting /\ m_interruptedProcesses' = m_interruptedProcesses
      /\ loops' = ls
  BY <1>0, UserOnlySame
<1>5. /\ ms \in Seq(ToScript) /\ Number(ms, Executes) = 0 /\ Number(ms, ConfirmRequest) = 0
      /\ Number(ms, ScriptTokens) = IF t = None THEN 0 ELSE 1
      /\ \A e \in Controls : Number(ms, ForTask(e)) = 0
      /\ \A r \in Processes : Number(ms, ContinuesOf(r)) = IF r = t THEN 1 ELSE 0
  BY DEF Passes
<1>6. /\ toScript' \in Seq(ToScript)
      /\ \A M : /\ Number(toScript, M) \in Nat /\ Number(toScript', M) \in Nat /\ Number(ms, M) \in Nat
                /\ Number(toScript', M) = Number(toScript, M) + Number(ms, M)
  BY <1>5, Sent
<1>7. /\ \A M : Number(ms, M) = 0 => Number(toScript', M) = Number(toScript, M)
      /\ \A M : Number(toScript, M) = 0 => Number(toScript', M) = Number(ms, M)
  BY <1>5, SentSame
<1>8. l \in Processes \cup {None} /\ q \in Processes \cup {None} /\ q = m_outputState[c].link
  <2>1. loops[Len(loops)] \in Frames
    BY <1>1, Facts
  <2>. QED
    BY <1>1, <2>1 DEF Frames
<1>9. l # None => Waits(m_waits, d, group[l])
  BY <1>1 DEF IInv, Dialogs
<1>10. \A r \in Processes : r \in {l, q} => state[r] = "Waiting" /\ Number(toScript, HandsOf(r)) = 0
  BY <1>0, LeavingHands
<1>11. /\ m_outputState \in [Controls -> OutputTypes] /\ m_outputState' \in [Controls -> OutputTypes]
       /\ \A e \in Controls : e # d => m_outputState'[e] = m_outputState[e]
       /\ p = None => m_outputState' = m_outputState /\ ended' = ended
       /\ p # None => m_outputState'[d] = [link |-> p, target |-> o] /\ ended' = ended \cup {d}
  <2>1. m_outputState \in [Controls -> OutputTypes]
    BY UserTypes
  <2>2. CASE p = None
    BY <2>1, <2>2 DEF Passed
  <2>3. CASE p # None
    <3>1. /\ m_outputState' = [m_outputState EXCEPT ![d] = [link |-> p, target |-> o]]
          /\ ended' = ended \cup {d}
          /\ o \in Targets \cup {"none", "end", "console"}
      BY <2>3 DEF Passed
    <3>2. [link |-> p, target |-> o] \in OutputTypes
      BY <1>8, <3>1 DEF OutputTypes
    <3>. QED
      BY <1>2, <2>1, <2>3, <3>1, <3>2
  <2>. QED
    BY <2>2, <2>3
<1>12. TopControl' = d
  BY <1>2, <1>4, TopControlIs
<1>13. \A r \in Processes : HasToken(r)' => r = t
  <2>1. \A r \in Processes : Number(toScript', ContinuesOf(r)) = IF r = t THEN 1 ELSE 0
    BY <1>3, <1>5, <1>7
  <2>. QED
    BY <1>3, <1>4, <2>1 DEF HasToken, NoneRunning, ScriptSame
<1>14. OneToken' /\ Attached'
  <2>1. Number(toScript', ScriptTokens) = IF t = None THEN 0 ELSE 1
    BY <1>3, <1>5, <1>7
  <2>2. Tokens' = IF t = None THEN 0 ELSE 1
    BY <1>3, <1>4, <2>1 DEF Tokens, Running, Interrupted, ScriptSame
  <2>3. OneToken'
    BY <1>4, <2>2 DEF IInv, OneToken, ScriptSame
  <2>4. \A e \in Controls : Number(toScript', ForTask(e)) = 0
    BY <1>3, <1>5, <1>7
  <2>5. Tokens' > 0 => TopControl' \notin ended'
    BY <1>2, <1>11, <1>12, <2>2
  <2>6. \A r \in Processes : HasToken(r)' => Waits(m_waits', TopControl', group'[r])
    BY <1>4, <1>9, <1>12, <1>13, Bounds DEF ScriptSame
  <2>. QED
    BY <2>3, <2>4, <2>5, <2>6 DEF Attached
<1>15. Stack'
  <2>1. \A i \in DOMAIN ls : ls[i].loop # "ask"
    BY <1>2, <1>3 DEF IInv, Stack
  <2>. QED
    BY <1>2, <1>4, <2>1 DEF Stack
<1>16. Outputs'
  <2>1. \A e \in Controls : e \notin ended' => m_outputState'[e] = NoOutput
    BY <1>11 DEF IInv, Outputs
  <2>2. \A e \in ended' : e <= lastId'
    <3>1. d <= lastId
      BY <1>2 DEF ControlsIn
    <3>. QED
      BY <1>4, <1>11, <3>1 DEF IInv, Outputs
  <2>3. ASSUME NEW i \in Owns(loops'), loops'[i].id \in ended'
        PROVE  loops'[i].id = TopControl' /\ Output(i, m_outputState[loops[i].id])'
    <3>1. i \in Owns(ls) /\ ls[i].id = d /\ p # None
      BY <1>2, <1>4, <1>11, <2>3
    <3>2. ls[i].loop = Kind(ls, d) /\ m_outputState'[ls[i].id] = [link |-> p, target |-> o] /\ up = Kind(ls, d)
      BY <1>2, <1>4, <1>11, <3>1
    <3>3. /\ o \in {"none", "screen", "exit", "end", "console"}
          /\ IF up = "keymap" THEN Waits(m_waits', d, group'[p])
             ELSE o \in {"screen", "exit"} /\ up # "null"
      BY <1>4, <1>9, <3>1, Somewhere DEF Passed, ScriptSame
    <3>4. Output(i, m_outputState[loops[i].id])'
      BY <1>2, <1>4, <3>1, <3>2, <3>3 DEF Output, OwnKinds
    <3>. QED
      BY <1>4, <1>12, <3>1, <3>4
  <2>. QED
    BY <2>1, <2>2, <2>3 DEF Outputs
<1>17. Dialogs'
  BY <1>2, <1>4 DEF IInv, Dialogs, ScriptSame
<1>18. Keymaps'
  <2> SUFFICES ASSUME NEW i \in DOMAIN ls, ls[i].loop = "keymap",
                      NEW e, NEW k, e = ls[i].parent, k = ls[i].id
               PROVE  ParentFirst(e, k)'
    BY <1>4 DEF Keymaps
  <2>0. i \in DOMAIN loops /\ loops[i].loop = "keymap" /\ e = loops[i].parent /\ k = loops[i].id
    BY <1>2
  <2>1. e \in Controls /\ k \in Controls
    BY <2>0, Parents, Facts
  <2>2. ParentFirst(e, k)
    BY <2>0 DEF IInv, Keymaps
  <2>3. /\ \A r \in Processes : Number(ms, {Detach(r)}) = 0 \/ Number(toScript, HandsOf(r)) = 0
        /\ e \in m_stopped => e \in m_stopped'
        /\ Precedes(toUser, Complete(e), Complete(k)) =>
             Precedes(toUser', Complete(e), Complete(k)) \/ e \in m_stopped'
    <3>1. \A r \in Processes : Number(ms, {Detach(r)}) = 0 \/ r = p
      BY DEF Passes
    <3>2. \A r \in Processes : r = p => r \in {l, q}
      BY Bounds
    <3>. QED
      BY <1>4, <1>10, <3>1, <3>2
  <2>. QED
    BY <1>4, <1>5, <2>1, <2>2, <2>3, SentFirst
<1>19. Users' /\ Later'
  <2>1. \A r \in Processes :
           \/ Number(ms, Uses(r)) = 0
           \/ /\ state[r] = "Waiting" /\ Number(toScript, HandsOf(r)) = 0
              /\ AllBefore(ms, Uses(r), HandsOf(r))
    <3>1. \A r \in Processes : Number(ms, Uses(r)) = 0 \/ (r \in {l, q} /\ AllBefore(ms, Uses(r), HandsOf(r)))
      BY DEF Passes
    <3>. QED
      BY <1>10, <3>1
  <2>. QED
    BY <1>4, <1>5, <2>1, SentUses
<1>20. UserTyped
  BY <1>2, <1>4, <1>6, <1>11, UserTypes DEF UserTyped
<1>21. Balance'
  <2> SUFFICES ASSUME NEW e \in Controls
               PROVE  Number(ls, {Wait(e)}) = EndsSum(toScript', m_waits, toUser, m_stopped, e)
    BY <1>4 DEF Balance, ScriptSame
  <2>1. Number(loops, {Wait(e)}) = EndsSum(toScript, m_waits, toUser, m_stopped, e)
    BY Facts DEF Balance
  <2>2. Number(toScript', ForTask(e)) = Number(toScript, ForTask(e))
    BY <1>5, <1>7
  <2>3. Number(ls, {Wait(e)}) = Number(loops, {Wait(e)})
    <3>1. Top \notin {Wait(e)}
      BY <1>1, OwnFrames
    <3>. QED
      BY <1>2, <3>1
  <2>. QED
    BY <2>1, <2>2, <2>3 DEF EndsSum
<1>22. News'
  <2>1. Number(toScript', Executes) = Number(toScript, Executes)
    BY <1>5, <1>7
  <2>. QED
    BY <1>4, <2>1 DEF IInv, News, NewOnes, ScriptSame
<1>23. Interrupts'
  <2>1. Number(toScript', ConfirmRequest) = Number(toScript, ConfirmRequest)
    BY <1>5, <1>7
  <2>2. Number(ls, {Ask}) = Number(loops, {Ask})
    <3>1. Top \notin {Ask}
      BY <1>1, OwnFrames
    <3>. QED
      BY <1>2, <3>1
  <2>. QED
    BY <1>4, <2>1, <2>2 DEF IInv, Interrupts
<1>24. Credits'
  <2>1. (IF m_outputState'[d].target \in {"screen", "exit"} THEN 1 ELSE 0) <= IF Out.target \in {"screen", "exit"} THEN 1 ELSE 0
    <3>1. CASE p = None
      BY <1>2, <1>11, <3>1 DEF NoOutput
    <3>2. CASE p # None
      BY <1>11, <3>2
    <3>. QED
      BY <3>1, <3>2
  <2>2. lastId + Number(toUser, ToShow) + (IF Out.target \in {"screen", "exit"} THEN 1 ELSE 0) <= calls + 1 /\ calls <= MaxCalls
    BY <1>0, <1>1 DEF IInv, Credits
  <2>3. lastId \in Nat /\ Number(toUser, ToShow) \in Nat /\ calls \in Nat
    BY Facts, StateTypes
  <2>4. /\ lastId + Number(toUser, ToShow)
             + (IF m_outputState'[d].target \in {"screen", "exit"} THEN 1 ELSE 0) <= calls + 1
        /\ calls <= MaxCalls
    BY <2>1, <2>2, <2>3
  <2>. QED
    BY <1>4, <1>12, <2>4 DEF Credits, ScriptSame
<1>25. Handed'
  <2> SUFFICES ASSUME NEW r \in Processes
               PROVE  HandsSum(toUser, toScript', ls, m_outputState', m_interruptedProcesses, r)
                        = IF state[r] = "Waiting" THEN 1 ELSE 0
    BY <1>4 DEF Handed, ScriptSame
  <2>1. HandsSum(toUser, toScript, loops, m_outputState, m_interruptedProcesses, r)
          = IF state[r] = "Waiting" THEN 1 ELSE 0
    BY Facts DEF Handed
  <2>2. Number(toUser, AsksOf(r)) = 0 /\ r \notin m_interruptedProcesses
    BY <1>3
  <2>3. Number(loops, FramesOf(r)) = Number(ls, FramesOf(r)) + IF r = l THEN 1 ELSE 0
    <3>1. Top \in FramesOf(r) <=> r = l
      <4>1. Top \in Frames
        BY <1>1, Facts
      <4>. QED
        BY <4>1 DEF FramesOf
    <3>. QED
      BY <1>2, <3>1
  <2>4. PICK C, D, m, u : C = ControlsIn(ls) /\ D = ControlsIn(loops) /\ m = m_outputState /\ u = m_outputState'
    OBVIOUS
  <2>5. IsFiniteSet(C) /\ IsFiniteSet(D) /\ C \subseteq Controls
    <3>1. IsFiniteSet(D) /\ C \in SUBSET D /\ D \subseteq Controls
      BY <1>2, <2>4, Facts
    <3>2. IsFiniteSet(C)
      BY <3>1, FS_Subset
    <3>. QED
      BY <3>1, <3>2
  <2>6. Ending(D, m, r) = Ending(C, m, r) + IF m[c].link = r THEN 1 ELSE 0
    <3>1. c \notin C /\ D = C \cup {c}
      BY <1>1, <1>2, <2>4
    <3>. QED
      BY <2>5, <3>1, EndingMore
  <2>7. Ending(C, u, r) = Ending(C, m, r) + IF r = p THEN 1 ELSE 0
    <3>1. d \in C /\ \A e \in C : e # d => u[e].link = m[e].link
      BY <1>2, <1>11, <2>4, <2>5
    <3>2. Ending(C, u, r) + (IF m[d].link = r THEN 1 ELSE 0) = Ending(C, m, r) + IF u[d].link = r THEN 1 ELSE 0
      <4>1. IsFiniteSet(C) /\ d \in C /\ \A e \in C : e # d => u[e].link = m[e].link
        BY <2>5, <3>1
      <4>. QED
        BY <4>1, EndingChanged
    <3>3. m[d].link # r /\ (u[d].link = r <=> r = p)
      <4>1. m[d].link = None /\ r # None
        BY <1>2, <2>4, Bounds DEF NoOutput
      <4>2. CASE p = None
        BY <1>11, <2>4, <4>1, <4>2
      <4>3. CASE p # None
        BY <1>11, <2>4, <4>1, <4>3
      <4>. QED
        BY <4>1, <4>2, <4>3
    <3>4. Ending(C, u, r) \in Nat /\ Ending(C, m, r) \in Nat
      BY <2>5, EndingType
    <3>. QED
      BY <3>2, <3>3, <3>4
  <2>8. Number(ms, HandsOf(r)) + (IF r = p THEN 1 ELSE 0) = (IF r = l THEN 1 ELSE 0) + (IF r = q THEN 1 ELSE 0)
    BY DEF Passes
  <2>9. Number(toScript', HandsOf(r)) = Number(toScript, HandsOf(r)) + Number(ms, HandsOf(r))
    BY <1>6
  <2>10. /\ Number(toScript, HandsOf(r)) \in Nat /\ Number(ms, HandsOf(r)) \in Nat /\ Number(ls, FramesOf(r)) \in Nat
         /\ Ending(C, m, r) \in Nat /\ Ending(C, u, r) \in Nat /\ Ending(D, m, r) \in Nat
         /\ Number(toScript', HandsOf(r)) \in Nat
    BY <1>2, <1>6, <2>5, EndingType
  <2>11. PICK x, y, z : /\ x = (IF r = p THEN 1 ELSE 0) /\ y = (IF r = l THEN 1 ELSE 0)
                        /\ z = IF r = q THEN 1 ELSE 0
    OBVIOUS
  <2>12. x \in Nat /\ y \in Nat /\ z \in Nat
    BY <2>11
  <2>13. Ending(D, m, r) = Ending(C, m, r) + z
    BY <1>8, <2>4, <2>6, <2>11
  <2>14. /\ Number(toScript', HandsOf(r)) + Number(ls, FramesOf(r)) + Ending(C, u, r)
              = Number(toScript, HandsOf(r)) + Number(loops, FramesOf(r)) + Ending(D, m, r)
    BY <2>3, <2>7, <2>8, <2>9, <2>10, <2>11, <2>12, <2>13
  <2>15. /\ HandsSum(toUser, toScript', ls, m_outputState', m_interruptedProcesses, r)
              = Number(toScript', HandsOf(r)) + Number(ls, FramesOf(r)) + Ending(C, u, r)
         /\ HandsSum(toUser, toScript, loops, m_outputState, m_interruptedProcesses, r)
              = Number(toScript, HandsOf(r)) + Number(loops, FramesOf(r)) + Ending(D, m, r)
    <3>1. Number(loops, FramesOf(r)) \in Nat
      BY Facts
    <3>. QED
      BY <2>2, <2>4, <2>10, <3>1 DEF HandsSum
  <2>. QED
    BY <2>1, <2>14, <2>15
<1>26. Detaches'
  <2> SUFFICES ASSUME NEW r \in Processes, Number(toScript', {Detach(r)}) > 0
               PROVE  /\ ~HasToken(r)'
                      /\ \A i \in DOMAIN ls : ls[i].link # r \/ ls[i].loop = "null"
                      /\ \A i \in Owns(ls) : ls[i].loop = "keymap" => m_outputState'[ls[i].id].link # r
    BY <1>4 DEF Detaches
  <2>0. Number(ms, {Detach(r)}) = 0 \/ (r = p /\ up # "keymap")
    BY DEF Passes
  <2>1. CASE Number(ms, {Detach(r)}) = 0
    <3>1. Number(toScript, {Detach(r)}) > 0
      BY <1>7, <2>1
    <3>2. /\ \A i \in DOMAIN loops : loops[i].link # r \/ loops[i].loop = "null"
          /\ \A i \in Owns(loops) : loops[i].loop = "keymap" => m_outputState[loops[i].id].link # r
      BY <3>1 DEF IInv, Detaches
    <3>3. r # l
      BY <1>1, <3>2
    <3>4. ~HasToken(r)' /\ \A i \in DOMAIN ls : ls[i].link # r \/ ls[i].loop = "null"
      BY <1>2, <1>13, <3>2, <3>3, Bounds
    <3>5. ASSUME NEW i \in Owns(ls), ls[i].loop = "keymap" PROVE m_outputState'[ls[i].id].link # r
      <4>1. i \in Owns(loops) /\ loops[i] = ls[i] /\ ls[i].id \in Controls
        BY <1>2 DEF Owns
      <4>2. m_outputState[ls[i].id].link # r
        BY <3>2, <3>5, <4>1
      <4>3. CASE p = None
        BY <1>11, <4>2, <4>3
      <4>4. CASE p # None /\ ls[i].id # d
        BY <1>11, <4>1, <4>2, <4>4
      <4>5. CASE p # None /\ ls[i].id = d
        <5>1. up = "keymap"
          BY <1>2, <1>4, <3>5, <4>5
        <5>2. p = l
          BY <4>5, <5>1 DEF Passed
        <5>. QED
          BY <1>11, <3>3, <4>5, <5>2
      <4>. QED
        BY <4>3, <4>4, <4>5
    <3>. QED
      BY <3>4, <3>5
  <2>2. CASE r = p /\ up # "keymap"
    <3>1. p # None /\ t = None
      BY <2>2, Bounds
    <3>2. ~HasToken(r)'
      BY <1>13, <3>1, Bounds
    <3>3. /\ \A i \in DOMAIN ls : loops[i].link # r
          /\ \A e \in ControlsIn(loops) : e # c => m_outputState[e].link # r
      <4>1. CASE r = q
        <5>1. /\ \A i \in DOMAIN loops : loops[i].link # r
              /\ \A e \in ControlsIn(loops) : e # c => m_outputState[e].link # r
          <6>1. kind \in OwnKinds /\ Out.link = r
            BY <4>1
          <6>. QED
            BY <1>0, <6>1, LeavingHands
        <5>. QED
          BY <1>2, <5>1
      <4>2. CASE r = l
        BY <1>0, <4>2, LeavingHands
      <4>. QED
        BY <2>2, <3>1, <4>1, <4>2
    <3>4. ASSUME NEW i \in Owns(ls), ls[i].loop = "keymap" PROVE m_outputState'[ls[i].id].link # r
      <4>1. ls[i].id \in ControlsIn(ls) /\ ls[i].id \in Controls
        BY <1>2 DEF ControlsIn
      <4>2. ls[i].id # d
        BY <1>2, <1>4, <2>2, <3>4
      <4>3. ls[i].id \in ControlsIn(loops) /\ ls[i].id # c
        BY <1>2, <4>1
      <4>. QED
        BY <1>11, <3>3, <4>1, <4>2, <4>3
    <3>. QED
      BY <1>2, <3>2, <3>3, <3>4
  <2>. QED
    BY <2>0, <2>1, <2>2
<1>. QED
  BY <1>4, <1>14, <1>15, <1>16, <1>17, <1>18, <1>19, <1>20, <1>21, <1>22, <1>23, <1>24, <1>25, <1>26, UserClose

LEMMA PassesOn ==
    /\ \A up : Passes(<<>>, None, None, None, None, up)
    /\ \A up : Passes(<<To("continueProcess", None)>>, None, None, None, None, up)
    /\ \A q \in Processes : \A up : up # "keymap" => Passes(<<Detach(q)>>, None, q, None, q, up)
<1>1. \A r \in Processes : r # None
  BY Bounds
<1>2. ASSUME NEW up PROVE Passes(<<>>, None, None, None, None, up)
  <2>1. <<>> \in Seq(ToScript) /\ \A M : Number(<<>>, M) = 0
    BY Messages
  <2>. QED
    BY <1>1, <2>1 DEF Passes
<1>3. ASSUME NEW up PROVE Passes(<<To("continueProcess", None)>>, None, None, None, None, up)
  <2>1. PICK m, ms : m = To("continueProcess", None) /\ ms = <<m>>
    OBVIOUS
  <2>2. /\ m \in ToScript /\ m \notin ScriptTokens /\ m \notin Executes /\ m \notin ConfirmRequest
        /\ \A e \in Controls : m \notin ForTask(e)
        /\ \A r \in Processes : m \notin ContinuesOf(r) /\ m \notin HandsOf(r) /\ m \notin {Detach(r)} /\ m \notin Uses(r)
    BY <2>1, OtherClass
  <2>3. ms \in Seq(ToScript) /\ \A M : Number(ms, M) = IF m \in M THEN 1 ELSE 0
    BY <2>1, <2>2, Messages
  <2>4. Passes(ms, None, None, None, None, up)
    BY <1>1, <2>2, <2>3 DEF Passes
  <2>. QED
    BY <2>1, <2>4
<1>4. ASSUME NEW q \in Processes, NEW up, up # "keymap" PROVE Passes(<<Detach(q)>>, None, q, None, q, up)
  <2>1. PICK m, ms : m = Detach(q) /\ ms = <<m>>
    OBVIOUS
  <2>2. /\ m \in ToScript /\ m \notin ScriptTokens /\ m \notin Executes /\ m \notin ConfirmRequest
        /\ \A e \in Controls : m \notin ForTask(e)
        /\ \A r \in Processes : /\ m \notin ContinuesOf(r) /\ m \notin HandsOf(r)
                                /\ m \in {Detach(r)} <=> r = q
                                /\ m \in Uses(r) <=> r = q
    BY <2>1, DetachClass
  <2>3. ms \in Seq(ToScript) /\ \A M : Number(ms, M) = IF m \in M THEN 1 ELSE 0
    BY <2>1, <2>2, Messages
  <2>4. AllBefore(ms, Uses(q), HandsOf(q))
    <3>1. \A i \in DOMAIN ms : ms[i] \notin HandsOf(q)
      BY <2>2, <2>3, NumberType
    <3>. QED
      BY <3>1 DEF AllBefore
  <2>5. /\ \A r \in Processes : Number(ms, HandsOf(r)) + (IF r = q THEN 1 ELSE 0)
                              = (IF r = None THEN 1 ELSE 0) + (IF r = q THEN 1 ELSE 0)
        /\ \A r \in Processes : Number(ms, {Detach(r)}) = 0 \/ (r = q /\ up # "keymap")
        /\ \A r \in Processes : Number(ms, Uses(r)) = 0 \/ (r \in {None, q} /\ AllBefore(ms, Uses(r), HandsOf(r)))
    BY <1>1, <1>4, <2>2, <2>3, <2>4
  <2>6. /\ Number(ms, Executes) = 0 /\ Number(ms, ConfirmRequest) = 0 /\ Number(ms, ScriptTokens) = 0
        /\ \A e \in Controls : Number(ms, ForTask(e)) = 0
        /\ \A r \in Processes : Number(ms, ContinuesOf(r)) = 0
    BY <2>2, <2>3
  <2>7. Passes(ms, None, q, None, q, up)
    BY <1>1, <2>3, <2>5, <2>6 DEF Passes
  <2>. QED
    BY <2>1, <2>7
<1>. QED
  BY <1>2, <1>3, <1>4

\* The process of the dialog is joined, and continued or passed on.
LEMMA PassesJoined ==
    ASSUME NEW l \in Processes, NEW q \in Processes \cup {None}, l # q, NEW up
    PROVE  /\ \A o \in {"continueProcess", "continueProcessWithFailure"} :
                up # "keymap" => Passes(<<Join(l, q), To(o, l)>>, l, q, l, None, up)
           /\ up # "keymap" => Passes(<<Join(l, q), Detach(l)>>, l, q, None, l, up)
           /\ up = "keymap" => Passes(<<Join(l, q)>>, l, q, None, l, up)
<1>1. \A r \in Processes : r # None
  BY Bounds
<1>2. PICK j, n : j = Join(l, q) /\ n = Detach(l)
  OBVIOUS
<1>3. /\ j \in ToScript /\ j \notin ScriptTokens /\ j \notin Executes /\ j \notin ConfirmRequest
      /\ \A e \in Controls : j \notin ForTask(e)
      /\ \A r \in Processes : /\ j \notin ContinuesOf(r)
                              /\ j \in HandsOf(r) <=> r = q
                              /\ j \notin {Detach(r)}
                              /\ j \in Uses(r) <=> r = l
  BY <1>2, JoinClass
<1>5. /\ n \in ToScript /\ n \notin ScriptTokens /\ n \notin Executes /\ n \notin ConfirmRequest
      /\ \A e \in Controls : n \notin ForTask(e)
      /\ \A r \in Processes : /\ n \notin ContinuesOf(r) /\ n \notin HandsOf(r)
                              /\ n \in {Detach(r)} <=> r = l
                              /\ n \in Uses(r) <=> r = l
  BY <1>2, DetachClass
<1>6. ASSUME NEW o \in {"continueProcess", "continueProcessWithFailure"}, up # "keymap",
             NEW m, m = To(o, l)
      PROVE  Passes(<<j, m>>, l, q, l, None, up)
  <2>0. /\ m \in ToScript /\ m \in ScriptTokens /\ m \notin Executes /\ m \notin ConfirmRequest
        /\ \A e \in Controls : m \notin ForTask(e)
        /\ \A r \in Processes : /\ m \in ContinuesOf(r) <=> r = l
                                /\ m \in HandsOf(r) <=> r = l
                                /\ m \notin {Detach(r)} /\ m \notin Uses(r)
    <3>1. o \in Continues
      BY DEF Continues
    <3>. QED
      BY <1>6, <3>1, ContinueClass
  <2>1. PICK ms : ms = <<j, m>>
    OBVIOUS
  <2>2. j \in ToScript /\ m \in ToScript
    BY <1>3, <2>0
  <2>3. /\ ms \in Seq(ToScript)
        /\ \A M : Number(ms, M) = (IF j \in M THEN 1 ELSE 0) + (IF m \in M THEN 1 ELSE 0)
        /\ \A A, B : ~(m \in A /\ (j \in B \/ m \in B)) /\ ~(j \in A /\ j \in B) => AllBefore(ms, A, B)
    BY <2>1, <2>2, Messages
  <2>4. AllBefore(ms, Uses(l), HandsOf(l))
    BY <1>3, <2>0, <2>3
  <2>5. \A r \in Processes : Number(ms, HandsOf(r)) = (IF r = l THEN 1 ELSE 0) + (IF r = q THEN 1 ELSE 0)
    BY <1>3, <2>0, <2>3
  <2>6. /\ \A r \in Processes : Number(ms, {Detach(r)}) = 0
        /\ \A r \in Processes : Number(ms, Uses(r)) = 0 \/ r = l
    BY <1>3, <2>0, <2>3
  <2>7. /\ Number(ms, Executes) = 0 /\ Number(ms, ConfirmRequest) = 0 /\ Number(ms, ScriptTokens) = 1
        /\ \A e \in Controls : Number(ms, ForTask(e)) = 0
    BY <1>3, <2>0, <2>3
  <2>8. \A r \in Processes : Number(ms, ContinuesOf(r)) = IF r = l THEN 1 ELSE 0
    BY <1>3, <2>0, <2>3
  <2>9. l # None /\ \A r \in Processes : Number(ms, Uses(r)) = 0 \/ (r \in {l, q} /\ AllBefore(ms, Uses(r), HandsOf(r)))
    BY <1>1, <2>4, <2>6
  <2>10. \A r \in Processes : Number(ms, HandsOf(r)) + (IF r = None THEN 1 ELSE 0)
                              = (IF r = l THEN 1 ELSE 0) + (IF r = q THEN 1 ELSE 0)
    BY <1>1, <2>5
  <2>11. Passes(ms, l, q, l, None, up)
    BY <2>3, <2>6, <2>7, <2>8, <2>9, <2>10 DEF Passes
  <2>. QED
    BY <2>1, <2>11
<1>7. ASSUME up # "keymap" PROVE Passes(<<j, n>>, l, q, None, l, up)
  <2>1. PICK ms : ms = <<j, n>>
    OBVIOUS
  <2>2. j \in ToScript /\ n \in ToScript
    BY <1>3, <1>5
  <2>3. /\ ms \in Seq(ToScript)
        /\ \A M : Number(ms, M) = (IF j \in M THEN 1 ELSE 0) + (IF n \in M THEN 1 ELSE 0)
        /\ \A A, B : ~(n \in A /\ (j \in B \/ n \in B)) /\ ~(j \in A /\ j \in B) => AllBefore(ms, A, B)
    BY <2>1, <2>2, Messages
  <2>4. AllBefore(ms, Uses(l), HandsOf(l))
    BY <1>3, <1>5, <2>3
  <2>5. \A r \in Processes : Number(ms, HandsOf(r)) = IF r = q THEN 1 ELSE 0
    BY <1>3, <1>5, <2>3
  <2>6. /\ \A r \in Processes : Number(ms, {Detach(r)}) = 0 \/ r = l
        /\ \A r \in Processes : Number(ms, Uses(r)) = 0 \/ r = l
    BY <1>3, <1>5, <2>3
  <2>7. /\ Number(ms, Executes) = 0 /\ Number(ms, ConfirmRequest) = 0 /\ Number(ms, ScriptTokens) = 0
        /\ \A e \in Controls : Number(ms, ForTask(e)) = 0
    BY <1>3, <1>5, <2>3
  <2>8. \A r \in Processes : Number(ms, ContinuesOf(r)) = IF r = None THEN 1 ELSE 0
    BY <1>1, <1>3, <1>5, <2>3
  <2>9. \A r \in Processes : Number(ms, Uses(r)) = 0 \/ (r \in {l, q} /\ AllBefore(ms, Uses(r), HandsOf(r)))
    BY <2>4, <2>6
  <2>10. \A r \in Processes : Number(ms, HandsOf(r)) + (IF r = l THEN 1 ELSE 0)
                              = (IF r = l THEN 1 ELSE 0) + (IF r = q THEN 1 ELSE 0)
    BY <2>5
  <2>11. Passes(ms, l, q, None, l, up)
    BY <1>7, <2>3, <2>6, <2>7, <2>8, <2>9, <2>10 DEF Passes
  <2>. QED
    BY <2>1, <2>11
<1>8. ASSUME up = "keymap" PROVE Passes(<<j>>, l, q, None, l, up)
  <2>1. PICK ms : ms = <<j>>
    OBVIOUS
  <2>2. j \in ToScript
    BY <1>3
  <2>3. ms \in Seq(ToScript) /\ \A M : Number(ms, M) = IF j \in M THEN 1 ELSE 0
    BY <2>1, <2>2, Messages
  <2>4. AllBefore(ms, Uses(l), HandsOf(l))
    <3>1. Number(ms, HandsOf(l)) = 0
      BY <1>3, <2>3
    <3>2. \A i \in DOMAIN ms : ms[i] \notin HandsOf(l)
      BY <2>3, <3>1, NumberType
    <3>. QED
      BY <3>2 DEF AllBefore
  <2>5. \A r \in Processes : Number(ms, HandsOf(r)) = IF r = q THEN 1 ELSE 0
    BY <1>3, <2>3
  <2>6. /\ \A r \in Processes : Number(ms, {Detach(r)}) = 0
        /\ \A r \in Processes : Number(ms, Uses(r)) = 0 \/ r = l
    BY <1>3, <2>3
  <2>7. /\ Number(ms, Executes) = 0 /\ Number(ms, ConfirmRequest) = 0 /\ Number(ms, ScriptTokens) = 0
        /\ \A e \in Controls : Number(ms, ForTask(e)) = 0
    BY <1>3, <2>3
  <2>8. \A r \in Processes : Number(ms, ContinuesOf(r)) = IF r = None THEN 1 ELSE 0
    BY <1>1, <1>3, <2>3
  <2>9. \A r \in Processes : Number(ms, Uses(r)) = 0 \/ (r \in {l, q} /\ AllBefore(ms, Uses(r), HandsOf(r)))
    BY <2>4, <2>6
  <2>10. \A r \in Processes : Number(ms, HandsOf(r)) + (IF r = l THEN 1 ELSE 0)
                              = (IF r = l THEN 1 ELSE 0) + (IF r = q THEN 1 ELSE 0)
    BY <2>5
  <2>11. Passes(ms, l, q, None, l, up)
    BY <2>3, <2>6, <2>7, <2>8, <2>9, <2>10 DEF Passes
  <2>. QED
    BY <2>1, <2>11
<1>. QED
  BY <1>2, <1>6, <1>7, <1>8

\* A console passes on what it ends with.
LEMMA LeaveConsoleKeeps ==
    ASSUME IInv, LeaveConsole
    PROVE  IInv'
<1>0. PICK c, d, l, q, up : /\ c = TopControl /\ d = Top.parent /\ l = Top.link /\ q = Out.link
                            /\ up = Kind(loops', d)
  OBVIOUS
<1>1. /\ Leaves("console") /\ loops' = Front(loops)
      /\ UNCHANGED <<toUser, m_stopped, lastId>> /\ UserOnly
      /\ HandleStateChange(loops', d, q, Out.target, <<>>)
  BY <1>0 DEF LeaveConsole
<1>2. /\ Top = loops[Len(loops)] /\ Top.loop = "console" /\ Len(loops) \in DOMAIN loops
      /\ Output(Len(loops), Out) /\ q \in Processes \cup {None} /\ c \in ControlsIn(loops)
      /\ Out = m_outputState[c]
  <2>1. "console" \in OwnKinds
    BY DEF OwnKinds
  <2>. QED
    BY <1>0, <1>1, <2>1, LeavingFacts
<1>3. up \notin {"keymap", "null"}
  <2>1. "console" \in OwnKinds \ {"screen", "null"}
    BY DEF OwnKinds
  <2>2. PICK ls : ls = Front(loops)
    OBVIOUS
  <2>3. Kind(ls, d) \in {"screen", "dialog"}
    BY <1>0, <1>1, <2>1, <2>2, LeavingParent
  <2>. QED
    BY <1>0, <1>1, <2>2, <2>3
<1>4. l = None
  BY <1>0, <1>2 DEF IInv, Dialogs
<1>5. \/ q = None /\ Out.target = "none"
      \/ q # None /\ Out.target \in {"screen", "exit"}
  BY <1>0, <1>2 DEF Output
<1>6. "console" \in OwnKinds \ {"screen", "null"}
  BY DEF OwnKinds
<1>7. CASE q = None
  <2>1. PICK ms : ms = <<To("continueProcess", None)>>
    OBVIOUS
  <2>2. Send(ms) /\ UNCHANGED <<ended, m_outputState>>
    <3>1. Send(Append(<<>>, To("continueProcess", q))) /\ UNCHANGED <<ended, m_outputState>>
      BY <1>0, <1>1, <1>3, <1>5, <1>7 DEF HandleStateChange, Stays, Changes
    <3>2. Append(<<>>, To("continueProcess", q)) = ms
      BY <1>7, <2>1
    <3>. QED
      BY <3>1, <3>2
  <2>3. Passes(ms, None, None, None, None, up)
    BY <2>1, PassesOn
  <2>4. Passed(d, None, None, "none", up)
    BY <2>2 DEF Passed
  <2>5. l = None /\ q = None
    BY <1>4, <1>7
  <2>. QED
    BY <1>0, <1>1, <1>6, <2>2, <2>3, <2>4, <2>5, LeftKeeps
<1>8. CASE q # None
  <2>1. PICK ms : ms = <<Detach(q)>>
    OBVIOUS
  <2>2. /\ Send(ms) /\ m_outputState' = [m_outputState EXCEPT ![d] = [link |-> q, target |-> Out.target]]
        /\ ended' = ended \cup {d}
    <3>1. /\ Send(<<>> \o <<Detach(q)>>)
          /\ m_outputState' = [m_outputState EXCEPT ![d] = [link |-> q, target |-> Out.target]]
          /\ ended' = ended \cup {d}
      BY <1>0, <1>1, <1>3, <1>5, <1>8 DEF HandleStateChange, EndWith, Stays, Changes, Detach
    <3>2. <<>> \o <<Detach(q)>> = ms
      BY <1>2, <1>8, <2>1
    <3>. QED
      BY <1>5, <1>8, <3>1, <3>2
  <2>3. Passes(ms, l, q, None, q, up)
    BY <1>2, <1>3, <1>4, <1>8, <2>1, PassesOn
  <2>4. Passed(d, l, q, Out.target, up)
    <3>1. Out.target \in {"screen", "exit"} /\ Out.target \in Targets
      <4>1. Out.target \in {"screen", "exit"}
        BY <1>5, <1>8
      <4>2. c \in Controls /\ m_outputState \in [Controls -> OutputTypes]
        BY <1>2, Facts, UserTypes
      <4>. QED
        BY <1>2, <4>1, <4>2 DEF OutputTypes
    <3>. QED
      BY <1>3, <1>8, <2>2, <3>1 DEF Passed
  <2>. QED
    BY <1>0, <1>1, <1>6, <2>2, <2>3, <2>4, LeftKeeps
<1>. QED
  BY <1>7, <1>8

\* The process of a dialog is joined by the one that ended it.
LEMMA LeaveDialogKeeps ==
    ASSUME IInv, LeaveDialog
    PROVE  IInv'
<1>0. PICK c, d, l, q, up : /\ c = TopControl /\ d = Top.parent /\ l = Top.link /\ q = Out.link
                            /\ up = Kind(loops', d)
  OBVIOUS
<1>1. /\ Leaves("dialog") /\ loops' = Front(loops)
      /\ UNCHANGED <<toUser, m_stopped, lastId>> /\ UserOnly
      /\ HandleStateChange(loops', d, l, Out.target, <<Join(l, q)>>)
  BY <1>0 DEF LeaveDialog
<1>2. /\ Top = loops[Len(loops)] /\ Top.loop = "dialog" /\ Len(loops) \in DOMAIN loops
      /\ Output(Len(loops), Out) /\ q \in Processes \cup {None} /\ c \in ControlsIn(loops)
      /\ Out = m_outputState[c]
  <2>1. "dialog" \in OwnKinds
    BY DEF OwnKinds
  <2>. QED
    BY <1>0, <1>1, <2>1, LeavingFacts
<1>3. l \in Processes /\ l # None
  <2>1. l # None
    BY <1>0, <1>2 DEF IInv, Dialogs
  <2>2. loops[Len(loops)] \in Frames
    BY <1>2, Facts
  <2>. QED
    BY <1>0, <1>2, <2>1, <2>2 DEF Frames
<1>4. l # q
  <2>1. "dialog" \in OwnKinds
    BY DEF OwnKinds
  <2>2. \A e \in ControlsIn(loops) : m_outputState[e].link # l
    BY <1>0, <1>1, <1>3, <2>1, LeavingHands
  <2>. QED
    BY <1>0, <1>2, <2>2
<1>5. Out.target \in {"none", "screen", "exit"} /\ Out.target \in Targets \cup {"none", "end", "console", "key"}
  <2>1. Out.target \in {"none", "screen", "exit"}
    BY <1>2 DEF Output
  <2>2. c \in Controls /\ m_outputState \in [Controls -> OutputTypes]
    BY <1>2, Facts, UserTypes
  <2>. QED
    BY <1>2, <2>1, <2>2 DEF OutputTypes
<1>6. "dialog" \in OwnKinds \ {"screen", "null"}
  BY DEF OwnKinds
<1>7. CASE up \notin {"keymap", "null"} /\ Out.target = "none"
  <2>1. PICK ms : ms = <<Join(l, q), To("continueProcess", l)>>
    OBVIOUS
  <2>2. Send(ms) /\ UNCHANGED <<ended, m_outputState>>
    <3>1. Send(Append(<<Join(l, q)>>, To("continueProcess", l))) /\ UNCHANGED <<ended, m_outputState>>
      BY <1>0, <1>1, <1>7 DEF HandleStateChange, Stays, Changes
    <3>2. Append(<<Join(l, q)>>, To("continueProcess", l)) = ms
      BY <2>1, Pairs
    <3>. QED
      BY <3>1, <3>2
  <2>3. Passes(ms, l, q, l, None, up)
    BY <1>2, <1>3, <1>4, <1>7, <2>1, PassesJoined
  <2>4. Passed(d, l, None, "none", up)
    BY <2>2 DEF Passed
  <2>. QED
    BY <1>0, <1>1, <1>6, <2>2, <2>3, <2>4, LeftKeeps
<1>8. CASE up # "null" /\ (up = "keymap" \/ Out.target # "none")
  <2>1. PICK ms : ms = <<Join(l, q)>> \o IF up = "keymap" THEN <<>> ELSE <<Detach(l)>>
    OBVIOUS
  <2>2. /\ Send(ms)
        /\ m_outputState' = [m_outputState EXCEPT ![d] = [link |-> l, target |-> Out.target]]
        /\ ended' = ended \cup {d}
    <3>1. ~Stays(up, Out.target)
      BY <1>5, <1>8 DEF Stays
    <3>. QED
      BY <1>0, <1>1, <1>8, <2>1, <3>1 DEF HandleStateChange, EndWith, Detach
  <2>3. Passes(ms, l, q, None, l, up)
    <3>1. CASE up = "keymap"
      <4>1. ms = <<Join(l, q)>>
        BY <2>1, <3>1
      <4>. QED
        BY <1>2, <1>3, <1>4, <3>1, <4>1, PassesJoined
    <3>2. CASE up # "keymap"
      <4>1. ms = <<Join(l, q), Detach(l)>>
        BY <2>1, <3>2, Pairs
      <4>. QED
        BY <1>2, <1>3, <1>4, <3>2, <4>1, PassesJoined
    <3>. QED
      BY <3>1, <3>2
  <2>4. Passed(d, l, l, Out.target, up)
    BY <1>3, <1>5, <1>8, <2>2 DEF Passed
  <2>. QED
    BY <1>0, <1>1, <1>3, <1>6, <2>2, <2>3, <2>4, LeftKeeps
<1>9. CASE up = "null"
  <2>1. PICK ms : ms = <<Join(l, q), To("continueProcessWithFailure", l)>>
    OBVIOUS
  <2>2. Send(ms) /\ UNCHANGED <<ended, m_outputState>>
    <3>1. Fail(l, <<Join(l, q)>>)
      BY <1>0, <1>1, <1>9 DEF HandleStateChange, Stays, Changes
    <3>2. Append(<<Join(l, q)>>, To("continueProcessWithFailure", l)) = ms
      BY <2>1, Pairs
    <3>. QED
      BY <3>1, <3>2 DEF Fail
  <2>3. Passes(ms, l, q, l, None, up)
    BY <1>2, <1>3, <1>4, <1>9, <2>1, PassesJoined
  <2>4. Passed(d, l, None, "none", up)
    BY <2>2 DEF Passed
  <2>. QED
    BY <1>0, <1>1, <1>6, <2>2, <2>3, <2>4, LeftKeeps
<1>. QED
  BY <1>7, <1>8, <1>9

\* A keymap is left only after its parent's wait was told to end, and no process ended it.
LEMMA KeymapLeft ==
    ASSUME IInv, Leaves("keymap"), NEW d, d = Top.parent
    PROVE  /\ Top.link = None /\ Out.link = None /\ Out.target \in {"none", "key"}
           /\ Out.target = "key" => tasks < MaxTasks
           /\ d \in m_stopped
<1>0. PICK c : c = TopControl
  OBVIOUS
<1>1. /\ Idle(loops) /\ Top = loops[Len(loops)] /\ Top.id = c /\ Top.loop = "keymap"
      /\ Len(loops) \in DOMAIN loops /\ c \in Controls
      /\ Output(Len(loops), Out) /\ Out.link \in Processes \cup {None}
  <2>1. "keymap" \in OwnKinds
    BY DEF OwnKinds
  <2>. QED
    BY <1>0, <2>1, LeavingFacts
<1>2. /\ \A e \in Controls : Number(toScript, ForTask(e)) = 0
      /\ Number(toUser, {Complete(c)}) = 0
      /\ \A g \in Processes : ~Waits(m_waits, c, g)
  BY <1>0, <1>1, IdleFacts
<1>3. Top.link = None
  BY <1>1 DEF IInv, Dialogs
<1>4. Out.link = None
  <2>1. ASSUME Out.link # None PROVE FALSE
    <3>1. Waits(m_waits, c, group[Out.link])
      BY <1>1, <2>1 DEF Output
    <3>2. group[Out.link] \in Processes
      BY <1>1, <2>1, StateTypes
    <3>. QED
      BY <1>2, <3>1, <3>2
  <2>. QED
    BY <2>1
<1>5. Out.target \in {"none", "key"} /\ (Out.target = "key" => tasks < MaxTasks)
  BY <1>1, <1>4 DEF Output
<1>6. d \in m_stopped
  <2>1. ParentFirst(d, c)
    BY <1>1 DEF IInv, Keymaps
  <2>2. ASSUME NEW g \in Processes, Precedes(m_waits, WaitEntry(d, g), WaitEntry(c, g)) PROVE FALSE
    BY <1>2, <2>2 DEF Precedes, Waits, Has
  <2>3. ASSUME NEW p \in Processes, Number(toScript, {ContinueWait(c, p)}) > 0 PROVE FALSE
    <3>1. {ContinueWait(c, p)} \subseteq ForTask(c)
      BY DEF ForTask
    <3>2. Number(toScript, {ContinueWait(c, p)}) <= Number(toScript, ForTask(c))
      BY <3>1, Facts, NumberPart
    <3>3. Number(toScript, ForTask(c)) = 0 /\ Number(toScript, {ContinueWait(c, p)}) \in Nat
      BY <1>1, <1>2, Facts
    <3>. QED
      BY <2>3, <3>2, <3>3
  <2>4. ASSUME Precedes(toUser, Complete(d), Complete(c)) PROVE FALSE
    <3>1. Has(toUser, Complete(c))
      BY <2>4 DEF Precedes, Has
    <3>2. Number(toUser, {Complete(c)}) >= 1
      BY <3>1, Facts, HasNumber
    <3>. QED
      BY <1>2, <3>2
  <2>. QED
    BY <2>1, <2>2, <2>3, <2>4 DEF ParentFirst
<1>. QED
  BY <1>3, <1>4, <1>5, <1>6

\* It is left with a key: the key's command is executed.
LEMMA KeyKeeps ==
    ASSUME IInv, Leaves("keymap"), Out.target = "key", NEW d, d = Top.parent,
           loops' = Append(Front(loops), Wait(d)), tasks' = tasks + 1, Send(<<Execute(d)>>),
           ScriptSame, calling' = calling, m_stopSignal' = m_stopSignal, toUser' = toUser,
           m_stopped' = m_stopped, ended' = ended, m_outputState' = m_outputState,
           m_interrupting' = m_interrupting, m_interruptedProcesses' = m_interruptedProcesses,
           breaks' = breaks, lastId' = lastId
    PROVE  IInv'
<1>0. PICK c, ls, m, ms : c = TopControl /\ ls = Front(loops) /\ m = Execute(d) /\ ms = <<m>>
  OBVIOUS
<1>1. /\ Idle(loops) /\ Top = loops[Len(loops)] /\ Top.id = c /\ Top.loop = "keymap" /\ IsOwn(Top)
      /\ c \in Controls /\ c \in ControlsIn(loops)
  <2>1. "keymap" \in OwnKinds
    BY DEF OwnKinds
  <2>. QED
    BY <1>0, <2>1, LeavingFacts
<1>2. /\ ls \in Seq(Frames) /\ ls # <<>> /\ Stacked(ls, m_stopped, lastId)
      /\ Once(ls) /\ Innermost(ls) = d /\ ControlsIn(ls) = ControlsIn(loops) \ {c}
      /\ d \in Controls /\ d \in ControlsIn(ls) /\ d # c /\ d \notin ended /\ m_outputState[d] = NoOutput
      /\ \A i \in DOMAIN ls : i \in DOMAIN loops /\ ls[i] = loops[i] /\ i # Len(loops)
      /\ \A i \in Owns(ls) : i \in Owns(loops) /\ ls[i].id \in Controls /\ ls[i].id \notin ended
      /\ \A M : Number(loops, M) = Number(ls, M) + IF Top \in M THEN 1 ELSE 0
      /\ \A M : Number(ls, M) \in Nat
  <2>1. "keymap" \in OwnKinds \ {"screen", "null"}
    BY DEF OwnKinds
  <2>. QED
    BY <1>0, <2>1, LeavingParent
<1>3. Top.link = None /\ Out.link = None /\ tasks < MaxTasks /\ d \in m_stopped /\ Out = m_outputState[c]
  BY <1>0, <1>1, KeymapLeft DEF Out
<1>4. /\ NoneRunning(state) /\ m_interruptedProcesses = {}
      /\ Number(toUser, UserTokens) = 0 /\ Number(toScript, ScriptTokens) = 0
      /\ \A p \in Processes : Number(toUser, AsksOf(p)) = 0 /\ Number(toScript, ContinuesOf(p)) = 0
      /\ \A e \in Controls : Number(toScript, ForTask(e)) = 0
  BY <1>1, IdleFacts
<1>5. /\ m \in ToScript /\ m \in ScriptTokens /\ m \in Executes /\ m \notin ConfirmRequest
      /\ \A e \in Controls : m \in ForTask(e) <=> e = d
      /\ \A p \in Processes : /\ m \notin ContinuesOf(p) /\ m \notin HandsOf(p)
                              /\ m \notin {Detach(p)} /\ m \notin Uses(p)
  BY <1>0, <1>2, ExecuteClass
<1>6. ms \in Seq(ToScript) /\ \A M : Number(ms, M) = IF m \in M THEN 1 ELSE 0
  BY <1>0, <1>5, Messages
<1>7. Send(ms)
  BY <1>0
<1>8. /\ toScript' \in Seq(ToScript)
      /\ \A M : /\ Number(toScript, M) \in Nat /\ Number(toScript', M) \in Nat
                /\ Number(toScript', M) = Number(toScript, M) + Number(ms, M)
  BY <1>6, <1>7, Sent
<1>9. /\ \A r \in Processes : Number(ms, Uses(r)) = 0
      /\ \A r \in Processes : Number(ms, {Detach(r)}) = 0
      /\ \A e \in Controls : Number(ms, ForTask(e)) = IF e = d THEN 1 ELSE 0
      /\ Number(ms, Executes) = 1
      /\ Number(ms, ConfirmRequest) = 0
  BY <1>5, <1>6
<1>10. /\ \A r \in Processes : Number(ms, HandsOf(r)) = 0
       /\ \A r \in Processes : Number(ms, ContinuesOf(r)) = 0
       /\ Number(ms, ScriptTokens) = 1
  BY <1>5, <1>6
<1>11. /\ Wait(d) \in Frames /\ Wait(d).link = None /\ Wait(d).loop = "wait" /\ ~IsOwn(Wait(d)) /\ Wait(d) # Ask
       /\ \A e : Wait(d) \in {Wait(e)} <=> e = d
  BY <1>2, OwnFrames, FrameTypes
<1>12. /\ Stacked(Append(ls, Wait(d)), m_stopped, lastId) /\ Innermost(Append(ls, Wait(d))) = d
  <2>1. lastId \in Nat /\ (Wait(d) = Ask \/ (Wait(d) = Wait(Innermost(ls)) /\ Innermost(ls) \in m_stopped))
    BY <1>2, <1>3, Facts
  <2>. QED
    BY <1>2, <1>11, <2>1, PushTop
<1>13. loops' = Append(ls, Wait(d))
  BY <1>0
<1>14. /\ loops' \in Seq(Frames) /\ loops' # <<>>
       /\ \A i \in DOMAIN loops' : (i \in DOMAIN ls /\ loops'[i] = ls[i]) \/ loops'[i] = Wait(d)
       /\ \A i \in Owns(loops') : i \in Owns(ls) /\ loops'[i] = ls[i]
       /\ ControlsIn(loops') = ControlsIn(ls)
       /\ \A M : Number(loops', M) = Number(ls, M) + IF Wait(d) \in M THEN 1 ELSE 0
  <2>1. PICK ts : ts = Append(ls, Wait(d))
    OBVIOUS
  <2>2. /\ ts \in Seq(Frames) /\ ts # <<>> /\ DOMAIN ts = 1..Len(ls) + 1
        /\ DOMAIN ls = 1..Len(ls) /\ Len(ls) \in Nat
        /\ \A i \in 1..Len(ls) : ts[i] = ls[i]
        /\ ts[Len(ls) + 1] = Wait(d)
        /\ Owns(ts) = Owns(ls) /\ ControlsIn(ts) = ControlsIn(ls)
    BY <1>2, <1>11, <2>1, OwnsAppend
  <2>3. \A M : Number(ts, M) = Number(ls, M) + IF Wait(d) \in M THEN 1 ELSE 0
    BY <1>2, <1>11, <2>1, NumberAppend
  <2>4. \A i \in DOMAIN ts : (i \in DOMAIN ls /\ ts[i] = ls[i]) \/ ts[i] = Wait(d)
    <3> SUFFICES ASSUME NEW i \in DOMAIN ts PROVE (i \in DOMAIN ls /\ ts[i] = ls[i]) \/ ts[i] = Wait(d)
      OBVIOUS
    <3>1. CASE i = Len(ls) + 1
      BY <2>2, <3>1
    <3>2. CASE i # Len(ls) + 1
      BY <2>2, <3>2
    <3>. QED
      BY <3>1, <3>2
  <2>5. \A i \in Owns(ts) : i \in Owns(ls) /\ ts[i] = ls[i]
    <3>1. \A i \in Owns(ls) : i \in DOMAIN ls
      BY DEF Owns
    <3>. QED
      BY <2>2, <3>1
  <2>. QED
    BY <1>13, <2>1, <2>2, <2>3, <2>4, <2>5
<1>15. TopControl' = d
  BY <1>12, <1>13, TopControlIs
<1>16. ASSUME NEW p \in Processes PROVE ~HasToken(p)'
  <2>1. Number(toScript', ContinuesOf(p)) = 0
    BY <1>4, <1>8, <1>10
  <2>. QED
    BY <1>4, <2>1 DEF HasToken, NoneRunning, ScriptSame
<1>17. OneToken' /\ Attached'
  <2>1. Tokens' <= 1
    BY <1>4, <1>8, <1>10 DEF Tokens, Running, Interrupted, ScriptSame
  <2>2. OneToken'
    BY <2>1 DEF IInv, OneToken, ScriptSame
  <2>3. TopControl' \notin ended'
    BY <1>2, <1>15
  <2>4. ASSUME NEW e \in Controls, Number(toScript', ForTask(e)) > 0 PROVE e = TopControl'
    BY <1>4, <1>8, <1>9, <1>15, <2>4
  <2>. QED
    BY <1>16, <2>2, <2>3, <2>4 DEF Attached
<1>18. Stack'
  <2>1. \A i \in DOMAIN loops : loops[i].loop # "ask"
    BY <1>4 DEF IInv, Stack
  <2>2. \A i \in DOMAIN loops' : loops'[i].loop # "ask"
    BY <1>2, <1>11, <1>14, <2>1
  <2>. QED
    BY <1>12, <1>13, <2>2 DEF Stack
<1>19. Outputs'
  <2>1. \A i \in Owns(loops') : loops'[i].id \notin ended'
    BY <1>2, <1>14
  <2>. QED
    BY <2>1 DEF IInv, Outputs
<1>20. Dialogs'
  <2> SUFFICES ASSUME NEW i \in DOMAIN loops'
               PROVE  IF loops'[i].loop = "dialog"
                      THEN loops'[i].link # None /\ Waits(m_waits', loops'[i].parent, group'[loops'[i].link])
                      ELSE loops'[i].link = None \/ loops'[i].loop = "null"
    BY DEF Dialogs
  <2>1. CASE i \in DOMAIN ls /\ loops'[i] = ls[i]
    BY <1>2, <2>1 DEF IInv, Dialogs, ScriptSame
  <2>2. CASE loops'[i] = Wait(d)
    BY <1>11, <2>2
  <2>. QED
    BY <1>14, <2>1, <2>2
<1>21. Keymaps'
  <2> SUFFICES ASSUME NEW i \in DOMAIN loops', loops'[i].loop = "keymap",
                      NEW e, NEW k, e = loops'[i].parent, k = loops'[i].id
               PROVE  ParentFirst(e, k)'
    BY DEF Keymaps
  <2>1. i \in DOMAIN loops /\ loops[i].loop = "keymap" /\ e = loops[i].parent /\ k = loops[i].id
    BY <1>2, <1>11, <1>14
  <2>2. e \in Controls /\ k \in Controls
    BY <2>1, Parents, Facts
  <2>3. ParentFirst(e, k)
    BY <2>1 DEF IInv, Keymaps
  <2>4. /\ \A r \in Processes : Number(ms, {Detach(r)}) = 0 \/ Number(toScript, HandsOf(r)) = 0
        /\ e \in m_stopped => e \in m_stopped'
        /\ Precedes(toUser, Complete(e), Complete(k)) =>
             Precedes(toUser', Complete(e), Complete(k)) \/ e \in m_stopped'
    BY <1>9
  <2>. QED
    BY <1>6, <1>7, <2>2, <2>3, <2>4, SentFirst
<1>22. Users' /\ Later'
  <2>1. \A r \in Processes :
           \/ Number(ms, Uses(r)) = 0
           \/ /\ state[r] = "Waiting" /\ Number(toScript, HandsOf(r)) = 0
              /\ AllBefore(ms, Uses(r), HandsOf(r))
    BY <1>9
  <2>. QED
    BY <1>6, <1>7, <2>1, SentUses
<1>23. Detaches'
  <2> SUFFICES ASSUME NEW r \in Processes, Number(toScript', {Detach(r)}) > 0
               PROVE  /\ ~HasToken(r)'
                      /\ \A i \in DOMAIN loops' : loops'[i].link # r \/ loops'[i].loop = "null"
                      /\ \A i \in Owns(loops') : loops'[i].loop = "keymap" => m_outputState'[loops'[i].id].link # r
    BY DEF Detaches
  <2>1. Number(toScript, {Detach(r)}) > 0
    <3>1. Number(ms, {Detach(r)}) = 0
      BY <1>9
    <3>2. Number(toScript', {Detach(r)}) = Number(toScript, {Detach(r)})
      BY <1>6, <1>7, <3>1, SentSame
    <3>. QED
      BY <3>2
  <2>2. \A i \in DOMAIN loops : loops[i].link # r \/ loops[i].loop = "null"
    BY <2>1 DEF IInv, Detaches
  <2>3. \A i \in Owns(loops) : loops[i].loop = "keymap" => m_outputState[loops[i].id].link # r
    BY <2>1 DEF IInv, Detaches
  <2>4. \A i \in DOMAIN loops' : loops'[i].link # r \/ loops'[i].loop = "null"
    BY <1>2, <1>11, <1>14, <2>2, Bounds
  <2>5. ASSUME NEW i \in Owns(loops'), loops'[i].loop = "keymap" PROVE m_outputState'[loops'[i].id].link # r
    <3>1. i \in Owns(ls) /\ loops'[i] = ls[i]
      BY <1>14
    <3>2. i \in Owns(loops) /\ loops[i] = ls[i]
      BY <1>2, <3>1 DEF Owns
    <3>. QED
      BY <2>3, <2>5, <3>1, <3>2
  <2>. QED
    BY <1>16, <2>4, <2>5
<1>24. Credits'
  <2>1. /\ lastId + Number(toUser, ToShow) + (IF m_outputState[c].target \in {"screen", "exit"} THEN 1 ELSE 0) <= calls + 1
        /\ calls <= MaxCalls
    BY <1>0 DEF IInv, Credits
  <2>2. m_outputState[d].target \notin {"screen", "exit"} /\ m_outputState[c].target \notin {"screen", "exit"}
    BY <1>2, <1>3 DEF NoOutput
  <2>3. /\ lastId' + Number(toUser', ToShow) + (IF m_outputState'[d].target \in {"screen", "exit"} THEN 1 ELSE 0) <= calls' + 1
        /\ calls' <= MaxCalls
    BY <2>1, <2>2 DEF ScriptSame
  <2>. QED
    BY <1>15, <2>3 DEF Credits
<1>25. News'
  BY <1>3, Bounds, StateTypes DEF News
<1>26. UserTyped
  BY <1>8, <1>14, UserTypes DEF UserTyped
<1>27. Balance'
  <2> SUFFICES ASSUME NEW e \in Controls
               PROVE  Number(loops', {Wait(e)}) = EndsSum(toScript', m_waits, toUser, m_stopped, e)
    BY DEF Balance, ScriptSame
  <2>1. Number(loops, {Wait(e)}) = EndsSum(toScript, m_waits, toUser, m_stopped, e)
    BY Facts DEF Balance
  <2>2. /\ Number(toScript, ForTask(e)) \in Nat /\ Number(m_waits, WaitsOf(e)) \in Nat
        /\ Number(toUser, {Complete(e)}) \in Nat /\ Number(ls, {Wait(e)}) \in Nat
    BY <1>2, Facts
  <2>3. Number(toScript', ForTask(e)) = Number(toScript, ForTask(e)) + IF e = d THEN 1 ELSE 0
    BY <1>8, <1>9
  <2>4. Number(loops', {Wait(e)}) = Number(ls, {Wait(e)}) + IF e = d THEN 1 ELSE 0
    BY <1>11, <1>14
  <2>5. Number(loops, {Wait(e)}) = Number(ls, {Wait(e)})
    <3>1. Top \notin {Wait(e)}
      BY <1>1, OwnFrames
    <3>. QED
      BY <1>2, <3>1
  <2>. QED
    BY <2>1, <2>2, <2>3, <2>4, <2>5 DEF EndsSum
<1>28. Handed'
  <2> SUFFICES ASSUME NEW r \in Processes
               PROVE  HandsSum(toUser, toScript', loops', m_outputState, m_interruptedProcesses, r)
                        = IF state[r] = "Waiting" THEN 1 ELSE 0
    BY DEF Handed, ScriptSame
  <2>1. HandsSum(toUser, toScript, loops, m_outputState, m_interruptedProcesses, r)
          = IF state[r] = "Waiting" THEN 1 ELSE 0
    BY Facts DEF Handed
  <2>2. Number(toScript', HandsOf(r)) = Number(toScript, HandsOf(r))
    BY <1>8, <1>10
  <2>3. Number(loops', FramesOf(r)) = Number(loops, FramesOf(r))
    <3>1. Wait(d) \notin FramesOf(r) /\ Top \notin FramesOf(r)
      BY <1>3, <1>11, Bounds DEF FramesOf
    <3>. QED
      BY <1>2, <1>14, <3>1
  <2>4. Ending(ControlsIn(loops'), m_outputState, r) = Ending(ControlsIn(loops), m_outputState, r)
    <3>1. PICK C, D, o : C = ControlsIn(loops') /\ D = ControlsIn(loops) /\ o = m_outputState
      OBVIOUS
    <3>2. c \notin C /\ D = C \cup {c} /\ IsFiniteSet(D)
      BY <1>1, <1>2, <1>14, <3>1, Facts
    <3>3. IsFiniteSet(C)
      <4>1. C \in SUBSET D
        BY <3>2
      <4>. QED
        BY <3>2, <4>1, FS_Subset
    <3>4. Ending(D, o, r) = Ending(C, o, r) + IF o[c].link = r THEN 1 ELSE 0
      BY <3>2, <3>3, EndingMore
    <3>5. o[c].link # r
      BY <1>3, <3>1, Bounds
    <3>6. Ending(C, o, r) \in Nat
      BY <3>3, EndingType
    <3>. QED
      BY <3>1, <3>4, <3>5, <3>6
  <2>. QED
    BY <2>1, <2>2, <2>3, <2>4 DEF HandsSum
<1>29. Interrupts'
  <2>1. Number(toScript', ConfirmRequest) = Number(toScript, ConfirmRequest)
    BY <1>8, <1>9
  <2>2. Number(loops', {Ask}) = Number(loops, {Ask})
    <3>1. Wait(d) \notin {Ask} /\ Top \notin {Ask}
      BY <1>1, <1>11, OwnFrames
    <3>. QED
      BY <1>2, <1>14, <3>1
  <2>. QED
    BY <2>1, <2>2 DEF IInv, Interrupts
<1>. QED
  BY <1>17, <1>18, <1>19, <1>20, <1>21, <1>22, <1>23, <1>24, <1>25, <1>26, <1>27, <1>28, <1>29, UserClose

LEMMA LeaveKeymapKeeps ==
    ASSUME IInv, LeaveKeymap
    PROVE  IInv'
<1>0. PICK d, up : d = Top.parent /\ up = Kind(loops', d)
  OBVIOUS
<1>1. /\ Leaves("keymap") /\ UNCHANGED <<script, m_stopSignal, toUser, m_stopped, interrupt, calls, breaks>>
      /\ \/ /\ Out.target = "none" /\ loops' = Front(loops)
            /\ UNCHANGED <<toScript, ended, m_outputState, tasks, lastId>>
         \/ /\ Out.target = "key" /\ ExecuteTask(Front(loops), Top.parent)
            /\ UNCHANGED <<ended, m_outputState, lastId>>
         \/ Out.link # None \/ Out.target \in {"end", "console"}
  BY DEF LeaveKeymap, NoOutput
<1>2. Top.link = None /\ Out.link = None /\ Out.target \in {"none", "key"}
  BY <1>0, <1>1, KeymapLeft
<1>3. CASE Out.target = "none"
  <2>1. /\ loops' = Front(loops) /\ toScript' = toScript
        /\ UNCHANGED <<ended, m_outputState>> /\ UNCHANGED <<toUser, m_stopped, lastId>>
        /\ UserOnly
    BY <1>1, <1>2, <1>3 DEF UserOnly
  <2>2. PICK ms : ms = <<>>
    OBVIOUS
  <2>3. Send(ms)
    BY <2>1, <2>2, NothingSent
  <2>4. Passes(ms, None, None, None, None, up)
    BY <2>2, PassesOn
  <2>5. Passed(d, None, None, "none", up)
    BY <2>1 DEF Passed
  <2>6. "keymap" \in OwnKinds \ {"screen", "null"}
    BY DEF OwnKinds
  <2>. QED
    BY <1>0, <1>1, <1>2, <2>1, <2>3, <2>4, <2>5, <2>6, LeftKeeps
<1>4. CASE Out.target = "key"
  <2>1. /\ loops' = Append(Front(loops), Wait(d)) /\ tasks' = tasks + 1 /\ Send(<<Execute(d)>>)
        /\ ScriptSame /\ calling' = calling /\ m_stopSignal' = m_stopSignal /\ toUser' = toUser
        /\ m_stopped' = m_stopped /\ ended' = ended /\ m_outputState' = m_outputState
        /\ m_interrupting' = m_interrupting /\ m_interruptedProcesses' = m_interruptedProcesses
        /\ breaks' = breaks /\ lastId' = lastId
    BY <1>0, <1>1, <1>2, <1>4 DEF ExecuteTask, ScriptSame, script, interrupt
  <2>. QED
    BY <1>0, <1>1, <1>4, <2>1, KeyKeeps
<1>. QED
  BY <1>2, <1>3, <1>4

\* The screen is left for another one, which waits for the process that went there.
LEMMA ScreenFacts ==
    ASSUME IInv, Leaves("screen"), NEW p, p = Out.link, NEW c, c = lastId + 1
    PROVE  /\ p \in Processes /\ Out.target \in {"screen", "exit"} /\ c \in Controls /\ lastId + 1 = c
           /\ Idle(loops) /\ Top.id = TopControl /\ Out = m_outputState[TopControl] /\ Front(loops) = <<>>
           /\ ControlsIn(loops) = {TopControl} /\ Top.link = None
           /\ \A M : Number(loops, M) = IF Top \in M THEN 1 ELSE 0
           /\ lastId + 1 + Number(toUser, ToShow) <= calls + 1 /\ calls <= MaxCalls
           /\ c \notin ended /\ m_outputState[c] = NoOutput
<1>1. /\ Idle(loops) /\ Top = loops[Len(loops)] /\ Top.id = TopControl /\ Top.loop = "screen" /\ IsOwn(Top)
      /\ Len(loops) \in DOMAIN loops /\ Len(loops) \in Owns(loops) /\ Out = m_outputState[TopControl]
      /\ Output(Len(loops), Out) /\ Out.link \in Processes \cup {None}
  <2>1. "screen" \in OwnKinds
    BY DEF OwnKinds
  <2>2. PICK e : e = TopControl
    OBVIOUS
  <2>. QED
    BY <2>1, <2>2, LeavingFacts
<1>2. p \in Processes /\ Out.target \in {"screen", "exit"}
  BY <1>1 DEF Output
<1>3. /\ loops \in Seq(Frames) /\ loops # <<>> /\ DOMAIN loops = 1..Len(loops) /\ Len(loops) \in Nat
      /\ lastId \in Nat /\ Stacked(loops, m_stopped, lastId)
  BY Facts
<1>4. Len(loops) = 1
  BY <1>1, <1>3, Screens
<1>5. Front(loops) = <<>> /\ Last(loops) = Top
  <2>1. Front(loops) \in Seq(Frames) /\ Len(Front(loops)) = 0
    BY <1>3, <1>4, FrontLast
  <2>. QED
    BY <2>1 DEF Top
<1>6. \A M : Number(loops, M) = IF Top \in M THEN 1 ELSE 0
  <2>1. \A M : Number(loops, M) = Number(<<>>, M) + IF Top \in M THEN 1 ELSE 0
    BY <1>3, <1>5, NumberFront
  <2>2. \A M : Number(<<>>, M) = 0
    BY NumberEmpty
  <2>. QED
    BY <2>1, <2>2
<1>7. ControlsIn(loops) = {TopControl}
  <2>1. Owns(loops) = {1}
    BY <1>1, <1>3, <1>4 DEF Owns
  <2>. QED
    BY <1>1, <1>4, <2>1 DEF ControlsIn
<1>8. Top.link = None
  BY <1>1 DEF IInv, Dialogs
<1>9. lastId + 1 + Number(toUser, ToShow) <= calls + 1 /\ calls <= MaxCalls
  <2>1. lastId + Number(toUser, ToShow) + 1 <= calls + 1 /\ calls <= MaxCalls
    BY <1>1, <1>2 DEF IInv, Credits
  <2>. QED
    BY <1>3, <2>1, Facts, StateTypes
<1>10. c \in Controls
  <2>1. Number(toUser, ToShow) \in Nat /\ calls \in Nat /\ MaxCalls \in Nat
    BY Facts, StateTypes, Bounds
  <2>2. c >= 1 /\ c <= MaxCalls + 1 /\ c \in Nat
    BY <1>3, <1>9, <2>1
  <2>. QED
    BY <2>2, Bounds
<1>11. c \notin ended /\ m_outputState[c] = NoOutput
  <2>1. c \notin ended
    BY <1>3 DEF IInv, Outputs
  <2>. QED
    BY <1>10, <2>1 DEF IInv, Outputs
<1>. QED
  BY <1>1, <1>2, <1>5, <1>6, <1>7, <1>8, <1>9, <1>10, <1>11

LEMMA LeaveScreenKeeps ==
    ASSUME IInv, LeaveScreen
    PROVE  IInv'
<1>0. PICK p, c, k, l, m, ms, f :
        /\ p = Out.link /\ c = lastId + 1 /\ k = (IF Out.target = "exit" THEN "null" ELSE "screen")
        /\ l = (IF k = "null" THEN p ELSE None) /\ m = (IF k = "null" THEN Execute(c) ELSE ContinueWait(c, p))
        /\ ms = <<m>> /\ f = Own(k, c, None, l)
  OBVIOUS
<1>1. /\ Leaves("screen") /\ UserOnly /\ UNCHANGED <<toUser, m_stopped, ended, m_outputState>>
      /\ IF k = "null" THEN Exit ELSE Show(Front(loops), "screen", None, None, p, <<>>)
  BY <1>0 DEF LeaveScreen
<1>2. /\ p \in Processes /\ Out.target \in {"screen", "exit"} /\ c \in Controls /\ lastId + 1 = c
      /\ Idle(loops) /\ Top.id = TopControl /\ Out = m_outputState[TopControl] /\ Front(loops) = <<>>
      /\ ControlsIn(loops) = {TopControl} /\ Top.link = None
      /\ \A M : Number(loops, M) = IF Top \in M THEN 1 ELSE 0
      /\ lastId + 1 + Number(toUser, ToShow) <= calls + 1 /\ calls <= MaxCalls
      /\ c \notin ended /\ m_outputState[c] = NoOutput
  BY <1>0, <1>1, ScreenFacts
<1>3. lastId' = c /\ loops' = Append(<<f>>, Wait(c)) /\ Send(ms)
  <2>1. CASE k = "null"
    <3>1. lastId' = c /\ loops' = <<f, Wait(c)>> /\ Send(<<Execute(c)>>)
      BY <1>0, <1>1, <2>1 DEF Exit
    <3>. QED
      BY <1>0, <2>1, <3>1, NothingBefore
  <2>2. CASE k # "null"
    <3>1. /\ <<>> \in Seq(Frames) /\ <<>> \in Seq(ToScript) /\ p # None
      BY <1>2, Bounds
    <3>2. PICK ls, ns : ls = Front(loops) /\ ns = <<>>
      OBVIOUS
    <3>3. ls \in Seq(Frames) /\ ns \in Seq(ToScript) /\ c = lastId + 1 /\ f = Own("screen", c, None, None)
      BY <1>0, <1>2, <2>2, <3>1, <3>2
    <3>4. Show(ls, "screen", None, None, p, ns)
      BY <1>1, <2>2, <3>2
    <3>5. lastId' = c /\ loops' = Append(Append(ls, f), Wait(c)) /\ Send(Append(ns, ContinueWait(c, p)))
      BY <3>1, <3>3, <3>4, ShowForms
    <3>6. Append(<<>>, f) = <<f>> /\ Append(<<>>, m) = <<m>> /\ ls = <<>>
      BY <1>2, <3>2, NothingBefore
    <3>. QED
      BY <1>0, <2>2, <3>2, <3>5, <3>6
  <2>. QED
    BY <2>1, <2>2
<1>4. /\ ScriptSame /\ calling' = calling /\ m_stopSignal' = m_stopSignal
      /\ tasks' = tasks /\ breaks' = breaks /\ toUser' = toUser /\ m_stopped' = m_stopped
      /\ ended' = ended /\ m_outputState' = m_outputState
      /\ m_interrupting' = m_interrupting /\ m_interruptedProcesses' = m_interruptedProcesses
  BY <1>1, UserOnlySame
<1>5. /\ NoneRunning(state) /\ m_interruptedProcesses = {}
      /\ Number(toUser, UserTokens) = 0 /\ Number(toScript, ScriptTokens) = 0
      /\ \A r \in Processes : Number(toUser, AsksOf(r)) = 0 /\ Number(toScript, ContinuesOf(r)) = 0
      /\ \A e \in Controls : Number(toScript, ForTask(e)) = 0
  BY <1>2, IdleFacts
<1>6. /\ m \in ToScript /\ m \in ScriptTokens /\ m \notin ConfirmRequest
      /\ \A e \in Controls : m \in ForTask(e) <=> e = c
      /\ \A r \in Processes : /\ m \notin ContinuesOf(r) /\ (m \in HandsOf(r) <=> k # "null" /\ r = p)
                              /\ m \notin {Detach(r)} /\ m \notin Uses(r)
  <2>1. CASE k = "null"
    <3>1. m = Execute(c)
      BY <1>0, <2>1
    <3>. QED
      BY <1>2, <2>1, <3>1, ExecuteClass
  <2>2. CASE k # "null"
    <3>1. m = ContinueWait(c, p)
      BY <1>0, <2>2
    <3>. QED
      BY <1>2, <2>2, <3>1, ContinueWaitClass
  <2>. QED
    BY <2>1, <2>2
<1>7. ms \in Seq(ToScript) /\ \A M : Number(ms, M) = IF m \in M THEN 1 ELSE 0
  BY <1>0, <1>6, Messages
<1>8. /\ toScript' \in Seq(ToScript)
      /\ \A M : /\ Number(toScript, M) \in Nat /\ Number(toScript', M) \in Nat
                /\ Number(toScript', M) = Number(toScript, M) + Number(ms, M)
  BY <1>3, <1>7, Sent
<1>9. /\ \A M : Number(ms, M) = 0 => Number(toScript', M) = Number(toScript, M)
      /\ \A M : Number(toScript, M) = 0 => Number(toScript', M) = Number(ms, M)
  BY <1>3, <1>7, SentSame
<1>10. /\ \A r \in Processes : Number(ms, Uses(r)) = 0
       /\ \A r \in Processes : Number(ms, {Detach(r)}) = 0
       /\ \A e \in Controls : Number(ms, ForTask(e)) = IF e = c THEN 1 ELSE 0
       /\ Number(ms, ConfirmRequest) = 0
  BY <1>6, <1>7
<1>11. /\ \A r \in Processes : Number(ms, HandsOf(r)) = IF k # "null" /\ r = p THEN 1 ELSE 0
       /\ \A r \in Processes : Number(ms, ContinuesOf(r)) = 0
       /\ Number(ms, ScriptTokens) = 1
  BY <1>6, <1>7
<1>12. /\ f.loop = k /\ k \in {"screen", "null"} /\ f.id = c /\ f.link = l /\ IsOwn(f) /\ f # Ask /\ \A e : f \notin {Wait(e)}
       /\ Wait(c).link = None /\ Wait(c).loop = "wait" /\ ~IsOwn(Wait(c)) /\ Wait(c) # Ask
       /\ \A e : Wait(c) \in {Wait(e)} <=> e = c
  <2>1. f.loop = k /\ k \in {"screen", "null"} /\ f.id = c /\ f.link = l
    BY <1>0, OwnFrames
  <2>2. IsOwn(f)
    BY <2>1, OwnFrames
  <2>. QED
    BY <2>1, <2>2, OwnFrames
<1>13. /\ loops' \in Seq(Frames) /\ loops' # <<>> /\ Stacked(loops', m_stopped, c) /\ Innermost(loops') = c
       /\ \A i \in DOMAIN loops' : loops'[i] = f \/ loops'[i] = Wait(c)
       /\ ControlsIn(loops') = {c}
       /\ \A M : Number(loops', M) = (IF f \in M THEN 1 ELSE 0) + IF Wait(c) \in M THEN 1 ELSE 0
  <2>1. PICK ls, ts : ls = <<f>> /\ ts = Append(ls, Wait(c))
    OBVIOUS
  <2>2. /\ ls \in Seq(Frames) /\ ls # <<>> /\ Len(ls) = 1
        /\ Stacked(ls, m_stopped, c) /\ Idle(ls) /\ Innermost(ls) = c
        /\ ControlsIn(ls) = {c} /\ Owns(ls) = {1}
    <3>1. k \in {"screen", "null"} /\ f = Own(k, c, None, l)
      BY <1>0, <1>12
    <3>2. l = p \/ l = None
      BY <1>0
    <3>3. l \in Processes \cup {None}
      BY <1>2, <3>2
    <3>4. ls = <<Own(k, c, None, l)>>
      BY <2>1, <3>1
    <3>5. c \in Controls
      BY <1>2
    <3>6. LET us == <<Own(k, c, None, l)>> IN
          /\ us \in Seq(Frames) /\ us # <<>> /\ Len(us) = 1
          /\ Stacked(us, m_stopped, c) /\ Idle(us) /\ Innermost(us) = c
          /\ ControlsIn(us) = {c} /\ Owns(us) = {1}
      <4>1. k \in {"screen", "null"}
        BY <3>1
      <4>. QED
        BY ONLY <3>3, <3>5, <4>1, FirstScreen
    <3>. QED
      BY <3>4, <3>6
  <2>3. Wait(c) \in Frames /\ Stacked(ts, m_stopped, c) /\ Innermost(ts) = c
    BY <1>2, <2>1, <2>2, PushWait
  <2>4. /\ ts \in Seq(Frames) /\ ts # <<>> /\ DOMAIN ts = 1..2 /\ ts[1] = ls[1] /\ ts[2] = Wait(c)
        /\ ControlsIn(ts) = {c}
    <3>1. /\ ts \in Seq(Frames) /\ ts # <<>> /\ DOMAIN ts = 1..Len(ls) + 1
          /\ \A i \in 1..Len(ls) : ts[i] = ls[i]
          /\ ts[Len(ls) + 1] = Wait(c) /\ ControlsIn(ts) = ControlsIn(ls)
      BY <1>12, <2>1, <2>2, <2>3, OwnsAppend
    <3>. QED
      BY <2>2, <3>1
  <2>5. \A M : Number(ts, M) = Number(ls, M) + IF Wait(c) \in M THEN 1 ELSE 0
    BY <2>1, <2>2, <2>3, NumberAppend
  <2>6. \A M : Number(ls, M) = IF f \in M THEN 1 ELSE 0
    BY <2>1, NumberOne
  <2>7. \A i \in 1..2 : i = 1 \/ i = 2
    OBVIOUS
  <2>8. ls[1] = f
    BY <2>1
  <2>9. \A i \in DOMAIN ts : ts[i] = f \/ ts[i] = Wait(c)
    BY <2>4, <2>7, <2>8
  <2>10. loops' = ts
    BY <1>3, <2>1
  <2>11. \A M : Number(ts, M) = (IF f \in M THEN 1 ELSE 0) + IF Wait(c) \in M THEN 1 ELSE 0
    BY <2>5, <2>6
  <2>. QED
    BY <2>3, <2>4, <2>9, <2>10, <2>11
<1>14. TopControl' = c
  BY <1>13, TopControlIs
<1>15. ASSUME NEW r \in Processes PROVE ~HasToken(r)'
  <2>1. Number(toScript', ContinuesOf(r)) = 0
    BY <1>5, <1>9, <1>11
  <2>. QED
    BY <1>4, <1>5, <2>1 DEF HasToken, NoneRunning, ScriptSame
<1>16. OneToken' /\ Attached'
  <2>1. Number(toScript', ScriptTokens) = 1
    BY <1>5, <1>9, <1>11
  <2>2. Tokens' <= 1
    BY <1>4, <1>5, <2>1 DEF Tokens, Running, Interrupted, ScriptSame
  <2>3. OneToken'
    BY <1>4, <2>2 DEF IInv, OneToken, ScriptSame
  <2>4. TopControl' \notin ended'
    BY <1>2, <1>4, <1>14
  <2>5. ASSUME NEW e \in Controls, Number(toScript', ForTask(e)) > 0 PROVE e = TopControl'
    <3>1. Number(toScript', ForTask(e)) = IF e = c THEN 1 ELSE 0
      BY <1>5, <1>9, <1>10
    <3>. QED
      BY <1>14, <2>5, <3>1
  <2>. QED
    BY <1>15, <2>3, <2>4, <2>5 DEF Attached
<1>17. Stack'
  <2>1. \A i \in DOMAIN loops' : loops'[i].loop # "ask"
    BY <1>12, <1>13
  <2>. QED
    BY <1>3, <1>4, <1>13, <2>1 DEF Stack
<1>18. \A i \in Owns(loops') : i \in DOMAIN loops' /\ loops'[i] = f
  BY <1>12, <1>13 DEF Owns
<1>19. Outputs'
  <2>1. \A i \in Owns(loops') : loops'[i].id \notin ended'
    BY <1>2, <1>4, <1>12, <1>18
  <2>2. \A e \in Controls : e \notin ended' => m_outputState'[e] = NoOutput
    BY <1>4 DEF IInv, Outputs
  <2>3. \A e \in ended' : e <= lastId'
    <3>1. lastId \in Nat /\ \A e \in ended : e \in Nat /\ e <= lastId
      BY Facts, UserTypes, Bounds DEF IInv, Outputs
    <3>. QED
      BY <1>2, <1>3, <1>4, <3>1
  <2>. QED
    BY <2>1, <2>2, <2>3 DEF Outputs
<1>20. Dialogs' /\ Keymaps'
  <2>1. l = None \/ k = "null"
    BY <1>0
  <2>. QED
    BY <1>12, <1>13, <2>1 DEF Dialogs, Keymaps
<1>21. Users' /\ Later'
  <2>1. \A r \in Processes :
           \/ Number(ms, Uses(r)) = 0
           \/ /\ state[r] = "Waiting" /\ Number(toScript, HandsOf(r)) = 0
              /\ AllBefore(ms, Uses(r), HandsOf(r))
    BY <1>10
  <2>. QED
    BY <1>3, <1>4, <1>7, <2>1, SentUses
<1>22. Detaches'
  <2>1. \A r \in Processes : \A i \in DOMAIN loops' : loops'[i].link # r \/ loops'[i].loop = "null"
    <3>1. l = None \/ k = "null"
      BY <1>0
    <3>. QED
      BY <1>12, <1>13, <3>1, Bounds
  <2>2. \A i \in Owns(loops') : loops'[i].loop # "keymap"
    BY <1>12, <1>18
  <2>. QED
    BY <1>15, <2>1, <2>2 DEF Detaches
<1>23. Credits'
  <2>1. m_outputState'[c].target \notin {"screen", "exit"} /\ calls' = calls
    BY <1>2, <1>4 DEF NoOutput, ScriptSame
  <2>2. lastId \in Nat /\ calls \in Nat /\ Number(toUser, ToShow) \in Nat
    BY Facts, StateTypes
  <2>3. /\ lastId' + Number(toUser', ToShow)
             + (IF m_outputState'[c].target \in {"screen", "exit"} THEN 1 ELSE 0) <= calls' + 1
        /\ calls' <= MaxCalls
    BY <1>2, <1>3, <1>4, <2>1, <2>2
  <2>. QED
    BY <1>14, <2>3 DEF Credits
<1>24. News'
  BY <1>4 DEF IInv, News
<1>25. UserTyped
  BY <1>2, <1>3, <1>4, <1>8, <1>13, UserTypes DEF UserTyped
<1>26. Balance'
  <2> SUFFICES ASSUME NEW e \in Controls
               PROVE  Number(loops', {Wait(e)}) = EndsSum(toScript', m_waits, toUser, m_stopped, e)
    BY <1>4 DEF Balance, ScriptSame
  <2>1. Number(loops, {Wait(e)}) = EndsSum(toScript, m_waits, toUser, m_stopped, e)
    BY Facts DEF Balance
  <2>2. /\ Number(toScript, ForTask(e)) \in Nat /\ Number(m_waits, WaitsOf(e)) \in Nat
        /\ Number(toUser, {Complete(e)}) \in Nat
    BY Facts
  <2>3. Number(toScript', ForTask(e)) = Number(toScript, ForTask(e)) + IF e = c THEN 1 ELSE 0
    BY <1>8, <1>10
  <2>4. Number(loops', {Wait(e)}) = IF e = c THEN 1 ELSE 0
    BY <1>12, <1>13
  <2>5. Number(loops, {Wait(e)}) = 0
    <3>1. Top \notin {Wait(e)}
      BY <1>1, OwnFrames DEF Leaves
    <3>. QED
      BY <1>2, <3>1
  <2>. QED
    BY <2>1, <2>2, <2>3, <2>4, <2>5 DEF EndsSum
<1>27. Handed'
  <2> SUFFICES ASSUME NEW r \in Processes
               PROVE  HandsSum(toUser, toScript', loops', m_outputState, m_interruptedProcesses, r)
                        = IF state[r] = "Waiting" THEN 1 ELSE 0
    BY <1>4 DEF Handed, ScriptSame
  <2>1. HandsSum(toUser, toScript, loops, m_outputState, m_interruptedProcesses, r)
          = IF state[r] = "Waiting" THEN 1 ELSE 0
    BY Facts DEF Handed
  <2>2. Number(toScript', HandsOf(r)) = Number(toScript, HandsOf(r)) + IF k # "null" /\ r = p THEN 1 ELSE 0
    BY <1>8, <1>11
  <2>3. /\ Number(loops', FramesOf(r)) = IF k = "null" /\ r = p THEN 1 ELSE 0
        /\ Number(loops, FramesOf(r)) = 0
    <3>1. f \in FramesOf(r) <=> k = "null" /\ r = p
      <4>1. f \in Frames
        BY <1>0, <1>2, <1>12, FrameTypes
      <4>2. f.link = r <=> k = "null" /\ r = p
        BY <1>0, <1>12, Bounds
      <4>. QED
        BY <4>1, <4>2 DEF FramesOf
    <3>2. Wait(c) \notin FramesOf(r) /\ Top \notin FramesOf(r)
      BY <1>2, <1>12, Bounds DEF FramesOf
    <3>. QED
      BY <1>2, <1>13, <3>1, <3>2
  <2>4. /\ Ending(ControlsIn(loops), m_outputState, r) = IF r = p THEN 1 ELSE 0
        /\ Ending(ControlsIn(loops'), m_outputState, r) = 0
    <3>1. PICK e, o : e = TopControl /\ o = m_outputState
      OBVIOUS
    <3>2. \A x : Ending({x}, o, r) = IF o[x].link = r THEN 1 ELSE 0
      <4> SUFFICES ASSUME NEW x PROVE Ending({x}, o, r) = IF o[x].link = r THEN 1 ELSE 0
        OBVIOUS
      <4>1. Ending({}, o, r) = 0
        <5>1. { y \in {} : o[y].link = r } = {}
          OBVIOUS
        <5>. QED
          BY <5>1, FS_EmptySet DEF Ending
      <4>2. IsFiniteSet({}) /\ x \notin {} /\ {x} = {} \cup {x}
        BY FS_EmptySet
      <4>3. Ending({x}, o, r) = Ending({}, o, r) + IF o[x].link = r THEN 1 ELSE 0
        BY <4>2, EndingMore
      <4>. QED
        BY <4>1, <4>3
    <3>3. o[e].link = p /\ o[c].link # r
      BY <1>0, <1>2, <3>1, Bounds DEF NoOutput
    <3>. QED
      BY <1>2, <1>13, <3>1, <3>2, <3>3
  <2>5. Number(toScript, HandsOf(r)) \in Nat /\ Number(toUser, AsksOf(r)) \in Nat
    BY Facts
  <2>. QED
    BY <2>1, <2>2, <2>3, <2>4, <2>5 DEF HandsSum
<1>28. Interrupts'
  <2>1. Number(toScript', ConfirmRequest) = Number(toScript, ConfirmRequest)
    BY <1>9, <1>10
  <2>2. Number(loops', {Ask}) = Number(loops, {Ask})
    <3>1. Top \notin {Ask}
      BY <1>1, OwnFrames DEF Leaves
    <3>. QED
      BY <1>2, <1>12, <1>13, <3>1
  <2>. QED
    BY <1>4, <2>1, <2>2 DEF IInv, Interrupts
<1>. QED
  BY <1>4, <1>16, <1>17, <1>19, <1>20, <1>21, <1>22, <1>23, <1>24, <1>25, <1>26, <1>27, <1>28, UserClose

----------------------------------------------------------------------------
(* The request reset() is sent once play() has returned, and is then alone.  *)

NoReset(ms) == (\E S : ms \in Seq(S)) /\ \A i \in DOMAIN ms : ms[i].op # "reset"
SendsPlainly == \E ms : NoReset(ms) /\ Send(ms)

LEMMA Operations ==
    /\ \A op, p : To(op, p).op = op
    /\ \A c : Execute(c).op = "executeTaskWait"
    /\ \A c, p : ContinueWait(c, p).op = "continueProcessWait"
    /\ \A p, q : Join(p, q).op = "joinProcess"
  BY DEF To, Execute, ContinueWait, Join

LEMMA PlainParts ==
    /\ NoReset(<<>>)
    /\ \A x : x.op # "reset" => NoReset(<<x>>)
    /\ \A s, t : NoReset(s) /\ NoReset(t) => NoReset(s \o t)
    /\ \A s, x : NoReset(s) /\ x.op # "reset" => NoReset(Append(s, x))
<1>1. NoReset(<<>>)
  <2>1. <<>> \in Seq({}) /\ DOMAIN <<>> = {}
    OBVIOUS
  <2>. QED
    BY <2>1 DEF NoReset
<1>2. ASSUME NEW x, x.op # "reset" PROVE NoReset(<<x>>)
  <2>1. <<x>> \in Seq({x}) /\ \A i \in DOMAIN <<x>> : <<x>>[i] = x
    OBVIOUS
  <2>. QED
    BY <1>2, <2>1 DEF NoReset
<1>3. ASSUME NEW s, NEW t, NoReset(s), NoReset(t) PROVE NoReset(s \o t)
  <2>1. PICK S, T : s \in Seq(S) /\ t \in Seq(T)
    BY <1>3 DEF NoReset
  <2>2. PICK U : U = S \cup T
    OBVIOUS
  <2>3. s \in Seq(U) /\ t \in Seq(U)
    BY <2>1, <2>2
  <2>4. s \o t \in Seq(U) /\ Len(s \o t) = Len(s) + Len(t) /\ Len(s) \in Nat /\ Len(t) \in Nat
    BY <2>3
  <2>5. ASSUME NEW i \in DOMAIN (s \o t) PROVE (s \o t)[i].op # "reset"
    <3>1. i \in 1..Len(s) + Len(t)
      BY <2>4
    <3>2. CASE i <= Len(s)
      <4>1. (s \o t)[i] = s[i] /\ i \in DOMAIN s
        BY <2>3, <3>1, <3>2
      <4>. QED
        BY <1>3, <4>1 DEF NoReset
    <3>3. CASE i > Len(s)
      <4>1. (s \o t)[i] = t[i - Len(s)] /\ i - Len(s) \in DOMAIN t
        BY <2>3, <2>4, <3>1, <3>3
      <4>. QED
        BY <1>3, <4>1 DEF NoReset
    <3>. QED
      BY <2>4, <3>1, <3>2, <3>3
  <2>. QED
    BY <2>4, <2>5 DEF NoReset
<1>4. ASSUME NEW s, NEW x, NoReset(s), x.op # "reset" PROVE NoReset(Append(s, x))
  <2>1. PICK S : s \in Seq(S)
    BY <1>4 DEF NoReset
  <2>2. PICK U : U = S \cup {x}
    OBVIOUS
  <2>3. s \in Seq(U) /\ x \in U
    BY <2>1, <2>2
  <2>4. /\ Append(s, x) \in Seq(U) /\ Len(Append(s, x)) = Len(s) + 1 /\ Len(s) \in Nat
        /\ DOMAIN s = 1..Len(s) /\ DOMAIN Append(s, x) = 1..Len(s) + 1
        /\ \A i \in 1..Len(s) : Append(s, x)[i] = s[i]
        /\ Append(s, x)[Len(s) + 1] = x
    BY <2>3
  <2>5. ASSUME NEW i \in DOMAIN Append(s, x) PROVE Append(s, x)[i].op # "reset"
    <3>1. CASE i = Len(s) + 1
      BY <1>4, <2>4, <3>1
    <3>2. CASE i # Len(s) + 1
      <4>1. i \in 1..Len(s)
        BY <2>4, <3>2
      <4>. QED
        BY <1>4, <2>4, <4>1 DEF NoReset
    <3>. QED
      BY <3>1, <3>2
  <2>. QED
    BY <2>4, <2>5 DEF NoReset
<1>. QED
  BY <1>1, <1>2, <1>3, <1>4

LEMMA FailPlainly ==
    ASSUME NEW link, NEW ms, NoReset(ms), Fail(link, ms)
    PROVE  SendsPlainly
<1>1. NoReset(Append(ms, To("continueProcessWithFailure", link)))
  BY PlainParts, Operations
<1>. QED
  BY <1>1 DEF Fail, SendsPlainly

LEMMA ChangePlainly ==
    ASSUME NEW ls, NEW c, NEW link, NEW target, NEW ms, NoReset(ms),
           HandleStateChange(ls, c, link, target, ms)
    PROVE  SendsPlainly
<1>1. NoReset(Append(ms, To("continueProcess", link)))
  BY PlainParts, Operations
<1>2. NoReset(ms \o <<>>) /\ NoReset(ms \o <<To("detachProcess", link)>>)
  BY PlainParts, Operations
<1>3. CASE Kind(ls, c) = "null" /\ Fail(link, ms)
  BY <1>3, FailPlainly
<1>4. CASE Send(Append(ms, To("continueProcess", link)))
  BY <1>1, <1>4 DEF SendsPlainly
<1>5. CASE Send(ms \o IF Kind(ls, c) = "keymap" THEN <<>> ELSE <<To("detachProcess", link)>>)
  BY <1>2, <1>5 DEF SendsPlainly
<1>. QED
  BY <1>3, <1>4, <1>5 DEF HandleStateChange

LEMMA EndPlainly ==
    ASSUME NEW ls, NEW c, NEW link, HandleEndDialog(ls, c, link)
    PROVE  SendsPlainly
<1>1. NoReset(<<>>) /\ NoReset(<<To("continueProcess", link)>>) /\ NoReset(<<To("detachProcess", link)>>)
  BY PlainParts, Operations
<1>2. CASE Kind(ls, c) = "null" /\ Fail(link, <<>>)
  BY <1>1, <1>2, FailPlainly
<1>3. CASE Send(<<To("continueProcess", link)>>)
  BY <1>1, <1>3 DEF SendsPlainly
<1>4. CASE Send(IF Kind(ls, c) = "keymap" THEN <<>> ELSE <<To("detachProcess", link)>>)
  BY <1>1, <1>4 DEF SendsPlainly
<1>. QED
  BY <1>2, <1>3, <1>4 DEF HandleEndDialog

LEMMA ShowPlainly ==
    ASSUME NEW ls, NEW kind, NEW parent, NEW link, NEW input, NEW ms, NoReset(ms),
           Show(ls, kind, parent, link, input, ms)
    PROVE  SendsPlainly
<1>1. NoReset(ms \o <<>>) /\ NoReset(ms \o <<ContinueWait(lastId + 1, input)>>)
  BY PlainParts, Operations
<1>2. Send(ms \o <<>>) \/ Send(ms \o <<ContinueWait(lastId + 1, input)>>)
  BY DEF Show
<1>. QED
  BY <1>1, <1>2 DEF SendsPlainly

LEMMA PopupPlainly ==
    ASSUME NEW ls, NEW c, NEW link, HandlePopupConsole(ls, c, link)
    PROVE  SendsPlainly
<1>1. NoReset(<<>>) /\ NoReset(<<To("continueProcess", link)>>) /\ NoReset(<<To("detachProcess", link)>>)
  BY PlainParts, Operations
<1>2. CASE Fail(link, <<>>)
  BY <1>1, <1>2, FailPlainly
<1>3. CASE Show(ls, "console", c, None, link, <<To("detachProcess", link)>>)
  BY <1>1, <1>3, ShowPlainly
<1>4. CASE Send(<<To("continueProcess", link)>>) \/ Send(<<>>)
  BY <1>1, <1>4 DEF SendsPlainly
<1>. QED
  BY <1>2, <1>3, <1>4 DEF HandlePopupConsole

LEMMA HandlerPlainly ==
    ASSUME \/ OnTaskComplete \/ OverlayMessage \/ Reply("error", "continueProcessWithFailure")
           \/ GotoScreen \/ EndDialog \/ ShowDialog \/ PopupConsole \/ UseKeymap
           \/ ProcessCall \/ OnProcessInterrupted \/ OnInterruptConfirm
    PROVE  toScript' = toScript \/ SendsPlainly
<1>0. NoReset(<<>>)
  BY PlainParts
<1>1. CASE OnTaskComplete \/ ProcessCall \/ OnInterruptConfirm
  BY <1>1 DEF OnTaskComplete, ProcessCall, OnInterruptConfirm
<1>2. ASSUME NEW op, NEW o \in {"continueProcess", "continueProcessWithFailure"}, Reply(op, o)
      PROVE  SendsPlainly
  <2>1. NoReset(<<To(o, Link)>>)
    BY PlainParts, Operations
  <2>. QED
    BY <1>2, <2>1 DEF Reply, SendsPlainly
<1>3. CASE GotoScreen
  BY <1>0, <1>3, ChangePlainly DEF GotoScreen
<1>4. CASE EndDialog
  BY <1>4, EndPlainly DEF EndDialog
<1>5. CASE ShowDialog
  BY <1>0, <1>5, ShowPlainly DEF ShowDialog
<1>6. CASE PopupConsole
  BY <1>6, PopupPlainly DEF PopupConsole
<1>7. CASE UseKeymap
  <2>1. CASE Show(loops, "keymap", TopControl, None, Link, <<>>)
    BY <1>0, <2>1, ShowPlainly
  <2>2. CASE Send(<<To("continueProcess", Link)>>)
    <3>1. NoReset(<<To("continueProcess", Link)>>)
      BY PlainParts, Operations
    <3>. QED
      BY <2>2, <3>1 DEF SendsPlainly
  <2>3. CASE Fail(Link, <<>>)
    BY <1>0, <2>3, FailPlainly
  <2>. QED
    BY <1>7, <2>1, <2>2, <2>3 DEF UseKeymap
<1>8. CASE OnProcessInterrupted
  <2>1. NoReset(<<To("terminateProcessAndGroup", Link)>>)
    BY PlainParts, Operations
  <2>. QED
    BY <1>8, <2>1 DEF OnProcessInterrupted, SendsPlainly
<1>. QED
  BY <1>1, <1>2, <1>3, <1>4, <1>5, <1>6, <1>7, <1>8 DEF OverlayMessage

LEMMA LeavePlainly ==
    ASSUME LeaveScreen \/ LeaveDialog \/ LeaveConsole \/ LeaveKeymap
    PROVE  toScript' = toScript \/ SendsPlainly
<1>0. NoReset(<<>>)
  BY PlainParts
<1>1. \A c : NoReset(<<Execute(c)>>)
  BY PlainParts, Operations
<1>2. CASE LeaveScreen
  <2>1. CASE Show(Front(loops), "screen", None, None, Out.link, <<>>)
    BY <1>0, <2>1, ShowPlainly
  <2>2. CASE Exit
    BY <1>1, <2>2 DEF Exit, SendsPlainly
  <2>. QED
    BY <1>2, <2>1, <2>2 DEF LeaveScreen
<1>3. CASE LeaveDialog
  <2>1. NoReset(<<Join(Top.link, Out.link)>>)
    BY PlainParts, Operations
  <2>. QED
    BY <1>3, <2>1, ChangePlainly DEF LeaveDialog
<1>4. CASE LeaveConsole
  BY <1>0, <1>4, ChangePlainly DEF LeaveConsole
<1>5. CASE LeaveKeymap
  <2>1. PICK ls : ls = Front(loops)
    OBVIOUS
  <2>2. CASE ExecuteTask(ls, Top.parent)
    BY <1>1, <2>2 DEF ExecuteTask, SendsPlainly
  <2>3. CASE HandleStateChange(ls, Top.parent, Out.link, Out.target, <<>>)
    BY <1>0, <2>3, ChangePlainly
  <2>4. CASE HandleEndDialog(ls, Top.parent, Out.link)
    BY <2>4, EndPlainly
  <2>5. CASE HandlePopupConsole(ls, Top.parent, Out.link)
    BY <2>5, PopupPlainly
  <2>. QED
    BY <1>5, <2>1, <2>2, <2>3, <2>4, <2>5 DEF LeaveKeymap
<1>. QED
  BY <1>2, <1>3, <1>4, <1>5

UserActs == UserThread \/ UserReacts \/ EnterCommand \/ InterruptRunningProcesses

LEMMA UserPlainly ==
    ASSUME IInv, UserActs
    PROVE  toScript' = toScript \/ SendsPlainly \/ (ReturnFromWait /\ Below.loop = "null")
<1>1. CASE EnterCommand \/ InterruptRunningProcesses
  <2>1. NoReset(<<Execute(Top.id)>>)
    BY PlainParts, Operations
  <2>2. [op |-> "confirmInterrupt"].op # "reset"
    OBVIOUS
  <2>3. NoReset(<<[op |-> "confirmInterrupt"]>>)
    BY <2>2, PlainParts
  <2>. QED
    BY <1>1, <2>1, <2>3 DEF EnterCommand, ExecuteTask, InterruptRunningProcesses, SendsPlainly
<1>2. CASE UserReacts
  <2>1. ASSUME NEW ok \in BOOLEAN, Answer(ok) PROVE SendsPlainly
    <3>1. PICK op : op = IF ok THEN "terminateProcessAndGroup" ELSE "continueProcess"
      OBVIOUS
    <3>2. /\ Top.loop = "ask"
          /\ LET ps == SetToSeq(m_interruptedProcesses)
             IN  Send([i \in DOMAIN ps |-> To(op, ps[i])])
      BY <2>1, <3>1 DEF Answer
    <3>3. PICK r : Send(<<To(op, r)>>)
      BY <3>2, Answered
    <3>4. op # "reset"
      BY <3>1
    <3>5. NoReset(<<To(op, r)>>)
      BY <3>4, PlainParts, Operations
    <3>. QED
      BY <3>3, <3>5 DEF SendsPlainly
  <2>2. CASE CloseDialog \/ PressKey
    BY <2>2 DEF CloseDialog, PressKey, Close, requests
  <2>. QED
    BY <1>2, <2>1, <2>2 DEF UserReacts
<1>3. CASE UserThread
  <2>1. CASE ReturnFromWait
    BY <2>1 DEF ReturnFromWait, GoOn
  <2>. QED
    BY <1>3, <2>1, HandlerPlainly, LeavePlainly DEF UserThread
<1>. QED
  BY <1>1, <1>2, <1>3 DEF UserActs

\* While reset() is to come, the user interface only takes what does not ask for anything.
LEMMA UserWaits ==
    ASSUME SInv, UserActs, NEW i \in DOMAIN toScript, toScript[i].op = "reset"
    PROVE  toScript' = toScript /\ loops' = loops /\ Tokens' = 0
<1>0. IInv /\ Tokens = 0 /\ Len(loops) = 1 /\ loops[1].loop = "null"
  BY DEF SInv, Resetting
<1>1. Top.loop = "null"
  BY <1>0, TopFacts
<1>2. /\ NoneRunning(state) /\ m_interruptedProcesses = {}
      /\ Number(toUser, UserTokens) = 0 /\ Number(toScript, ScriptTokens) = 0
  BY <1>0, NoToken
<1>3. ASSUME NEW op, Handles(op)
      PROVE  /\ op \in {"onTaskComplete", "call", "onInterruptConfirm"}
             /\ Number(toUser', UserTokens) = 0
  <2>1. /\ Head(toUser) \in ToUser /\ Head(toUser).op = op
        /\ Number(toUser, UserTokens) \in Nat /\ Number(toUser', UserTokens) \in Nat
        /\ Number(toUser, UserTokens)
             = Number(toUser', UserTokens) + IF Head(toUser) \in UserTokens THEN 1 ELSE 0
    BY <1>0, <1>3, Handling
  <2>2. Head(toUser) \notin UserTokens /\ Number(toUser', UserTokens) = 0
    BY <1>2, <2>1
  <2>3. op \notin Asks
    BY <2>1, <2>2, UserForms, AskClass
  <2>. QED
    BY <2>1, <2>2, <2>3, UserForms
<1>4. OnTaskComplete \/ ProcessCall \/ OnInterruptConfirm
  <2>1. ~UserReacts /\ ~EnterCommand /\ ~InterruptRunningProcesses
    BY <1>1 DEF UserReacts, CloseDialog, PressKey, Close, Answer, EnterCommand,
                InterruptRunningProcesses, Acts
  <2>2. ~ReturnFromWait /\ ~LeaveScreen /\ ~LeaveDialog /\ ~LeaveConsole /\ ~LeaveKeymap
    BY <1>1 DEF ReturnFromWait, LeaveScreen, LeaveDialog, LeaveConsole, LeaveKeymap, Leaves
  <2>3. /\ ~OverlayMessage /\ ~Reply("error", "continueProcessWithFailure") /\ ~GotoScreen
        /\ ~EndDialog /\ ~ShowDialog /\ ~PopupConsole /\ ~UseKeymap /\ ~OnProcessInterrupted
    BY <1>3 DEF OverlayMessage, Reply, GotoScreen, EndDialog, ShowDialog, PopupConsole, UseKeymap,
                OnProcessInterrupted
  <2>. QED
    BY <2>1, <2>2, <2>3 DEF UserActs, UserThread
<1>5. /\ toScript' = toScript /\ loops' = loops /\ state' = state
      /\ m_interruptedProcesses' = m_interruptedProcesses /\ \E op : Handles(op)
  BY <1>2, <1>4 DEF OnTaskComplete, ProcessCall, OnInterruptConfirm, UserOnly, script, user, interrupt
<1>6. Number(toUser', UserTokens) = 0 /\ Number(toScript', ScriptTokens) = 0 /\ NoneRunning(state')
  BY <1>2, <1>3, <1>5
<1>7. Tokens' = 0
  BY <1>2, <1>5, <1>6 DEF Tokens, Running, Interrupted
<1>. QED
  BY <1>5, <1>7

LEMMA UserResets ==
    ASSUME SInv, UserActs
    PROVE  Resetting'
<1>0. IInv /\ Resetting /\ toScript \in Seq(ToScript)
  BY Facts DEF SInv
<1>1. CASE \E i \in DOMAIN toScript : toScript[i].op = "reset"
  BY <1>0, <1>1, UserWaits DEF Resetting
<1>2. CASE /\ \A i \in DOMAIN toScript : toScript[i].op # "reset"
           /\ toScript' = toScript \/ SendsPlainly
  <2>1. NoReset(toScript)
    BY <1>0, <1>2 DEF NoReset
  <2>2. NoReset(toScript')
    BY <1>2, <2>1, PlainParts DEF SendsPlainly, Send
  <2>. QED
    BY <2>2 DEF Resetting, NoReset
<1>3. CASE /\ \A i \in DOMAIN toScript : toScript[i].op # "reset"
           /\ ReturnFromWait /\ Below.loop = "null"
  <2>1. /\ UserOnly /\ UNCHANGED <<toUser, ended, m_outputState, lastId>>
        /\ Stops /\ Top.loop = "wait" /\ m_stopped' = m_stopped \ {Top.id}
        /\ loops' = <<Own("null", Top.id, None, None)>> /\ Send(<<Reset(Below.link)>>)
    BY <1>3 DEF ReturnFromWait, GoOn
  <2>2. Tokens' = 0
    BY <1>0, <1>3, <2>1, HookOverKeeps
  <2>3. PICK f : f = Own("null", Top.id, None, None)
    OBVIOUS
  <2>4. loops' = <<f>> /\ f.loop = "null" /\ f.link = None
    BY <2>1, <2>3, OwnFrames
  <2>5. Len(loops') = 1 /\ loops'[1].loop = "null" /\ loops'[1].link = None
    BY <2>4
  <2>6. PICK m : m = Reset(Below.link)
    OBVIOUS
  <2>7. toScript' = toScript \o <<m>>
    BY <2>1, <2>6 DEF Send
  <2>8. /\ Len(toScript') = Len(toScript) + 1 /\ Len(toScript) \in Nat
        /\ DOMAIN toScript' = 1..Len(toScript) + 1 /\ DOMAIN toScript = 1..Len(toScript)
        /\ \A i \in 1..Len(toScript) : toScript'[i] = toScript[i]
    <3>1. PICK S : S = ToScript \cup {m}
      OBVIOUS
    <3>2. toScript \in Seq(S) /\ <<m>> \in Seq(S) /\ Len(<<m>>) = 1
      BY <1>0, <3>1
    <3>. QED
      BY <2>7, <3>2
  <2>9. \A i \in DOMAIN toScript' : toScript'[i].op = "reset" => i = Len(toScript')
    BY <1>3, <2>8
  <2>. QED
    BY <2>2, <2>5, <2>9 DEF Resetting
<1>. QED
  BY <1>0, <1>1, <1>2, <1>3, UserPlainly

----------------------------------------------------------------------------
(* The invariant.                                                          *)

LEMMA InitTypes == Init => TypeOK
<1> SUFFICES ASSUME Init PROVE TypeOK
  OBVIOUS
<1>1. /\ state \in [Processes -> {"new", "Runnable", "Running", "Waiting", "ended", "gone"}]
      /\ group \in [Processes -> Processes]
      /\ {calling, m_stopSignal, m_interrupting} \subseteq BOOLEAN
      /\ m_stopped \subseteq Controls /\ ended \subseteq Controls /\ m_interruptedProcesses \subseteq Processes
  BY DEF Init
<1>2. lastId \in Controls /\ {tasks, calls, breaks} \subseteq Nat /\ tasks <= MaxTasks
  BY Bounds DEF Init
<1>3. m_waits \in Seq(WaitsFor(Processes)) /\ toScript \in Seq(ToScript) /\ toUser \in Seq(ToUser)
  BY DEF Init
<1>4. loops \in Seq(Frames) /\ loops # <<>> /\ Head(loops).loop \in {"screen", "null"}
  <2>1. PICK f : f = Own("screen", 1, None, None)
    OBVIOUS
  <2>2. f \in Frames /\ f.loop = "screen"
    BY <2>1, Bounds, OwnFrames DEF Frames, Own
  <2>3. loops = <<f>>
    BY <2>1 DEF Init
  <2>. QED
    BY <2>2, <2>3
<1>5. m_outputState \in [Controls -> [link : Processes \cup {None},
                                     target : Targets \cup {"none", "end", "console", "key"}]]
  BY DEF Init, NoOutput
<1>. QED
  BY <1>1, <1>2, <1>3, <1>4, <1>5 DEF TypeOK

LEMMA InitInv ==
    ASSUME Init, Elsewhere
    PROVE  SInv
<1>1. /\ toScript = <<>> /\ toUser = <<>> /\ m_waits = <<>> /\ m_stopped = {} /\ ended = {}
      /\ m_interruptedProcesses = {} /\ ~m_interrupting /\ ~m_stopSignal
      /\ tasks = 0 /\ calls = 0 /\ lastId = 1 /\ lastId \in Controls
      /\ \A p \in Processes : state[p] = "new" /\ group[p] = p
      /\ \A c \in Controls : m_outputState[c] = NoOutput
  BY Bounds DEF Init
<1>2. /\ \A M : /\ Number(toScript, M) = 0 /\ Number(toUser, M) = 0 /\ Number(m_waits, M) = 0
      /\ \A i : i \notin DOMAIN toScript /\ i \notin DOMAIN toUser /\ i \notin DOMAIN m_waits
  BY <1>1, NumberEmpty
<1>3. PICK f : f = Own("screen", lastId, None, None)
  OBVIOUS
<1>4. /\ f.loop = "screen" /\ f.id = 1 /\ f.link = None /\ IsOwn(f) /\ f # Ask /\ \A c : f # Wait(c)
  <2>1. f.loop = "screen" /\ f.id = 1 /\ f.link = None
    BY <1>1, <1>3, OwnFrames
  <2>. QED
    BY <2>1, OwnFrames
<1>5. loops = <<f>>
  BY <1>1, <1>3 DEF Init
<1>6. /\ loops \in Seq(Frames) /\ loops # <<>> /\ Len(loops) = 1
      /\ Stacked(loops, m_stopped, lastId) /\ Idle(loops) /\ Innermost(loops) = lastId
      /\ ControlsIn(loops) = {lastId} /\ Owns(loops) = {1}
  BY <1>1, <1>3, <1>5, FirstScreen
<1>7. /\ DOMAIN loops = {1} /\ loops[1] = f /\ TopControl = 1
      /\ \A M : Number(loops, M) = IF f \in M THEN 1 ELSE 0
  BY <1>1, <1>5, <1>6, NumberOne, TopControlIs
<1>8. OneEndPerWait
  <2>1. Balance
    <3> SUFFICES ASSUME NEW c \in Controls
                 PROVE  Number(loops, {Wait(c)}) = EndsSum(toScript, m_waits, toUser, m_stopped, c)
      BY DEF Balance
    <3>1. Number(loops, {Wait(c)}) = 0
      BY <1>4, <1>7
    <3>. QED
      BY <1>1, <1>2, <3>1 DEF EndsSum
  <2>. QED
    BY <2>1, InitTypes, BalanceIs
<1>9. OneHand
  <2>1. ASSUME NEW p \in Processes
        PROVE  HandsSum(toUser, toScript, loops, m_outputState, m_interruptedProcesses, p) = 0
    <3>1. Number(loops, FramesOf(p)) = 0
      BY <1>4, <1>7, Bounds DEF FramesOf
    <3>2. Ending(ControlsIn(loops), m_outputState, p) = 0
      <4>1. IsFiniteSet(ControlsIn(loops))
        BY <1>6, FS_Singleton
      <4>2. PICK C, o : C = ControlsIn(loops) /\ o = m_outputState
        OBVIOUS
      <4>3. \A c \in C : o[c].link # p
        BY <1>1, <1>6, <4>2, Bounds DEF NoOutput
      <4>4. Ending(C, o, p) = 0
        BY <4>1, <4>2, <4>3, EndingType
      <4>. QED
        BY <4>2, <4>4
    <3>. QED
      BY <1>1, <1>2, <3>1, <3>2 DEF HandsSum
  <2>. QED
    BY <1>1, <2>1, HandedIs DEF Handed
<1>10. NoneRunning(state) /\ Tokens = 0 /\ \A p \in Processes : ~HasToken(p)
  <2>1. NoneRunning(state)
    BY <1>1 DEF NoneRunning
  <2>2. Tokens = 0
    BY <1>1, <1>2, <2>1 DEF Tokens, Running, Interrupted
  <2>3. \A p \in Processes : ~HasToken(p)
    BY <1>1, <1>2 DEF HasToken
  <2>. QED
    BY <2>1, <2>2, <2>3
<1>11. OneToken /\ Attached
  BY <1>1, <1>2, <1>10 DEF OneToken, Attached
<1>12. Stack /\ Outputs /\ Dialogs /\ Keymaps
  BY <1>1, <1>4, <1>6, <1>7 DEF Stack, Outputs, Dialogs, Keymaps
<1>13. Users /\ Later /\ Detaches
  <2>1. Users /\ Detaches
    BY <1>2 DEF Users, Detaches
  <2>2. Later
    BY <1>2 DEF Later, AllBefore
  <2>. QED
    BY <2>1, <2>2
<1>14. Groups
  BY <1>1 DEF Groups, Active
<1>15. Interrupts
  <2>1. Number(loops, {Ask}) = 0
    BY <1>4, <1>7
  <2>2. Followed(toUser, Interruptions, Confirmation)
    BY <1>2 DEF Followed
  <2>. QED
    BY <1>1, <1>2, <2>1, <2>2 DEF Interrupts
<1>16. Credits
  BY <1>1, <1>2, <1>7, Bounds DEF Credits, NoOutput
<1>17. News
  BY <1>1, Bounds DEF News
<1>18. Resetting
  BY <1>2 DEF Resetting
<1>. QED
  BY <1>8, <1>9, <1>11, <1>12, <1>13, <1>14, <1>15, <1>16, <1>17, <1>18 DEF SInv, IInv

LEMMA StutterKeeps ==
    ASSUME SInv, UNCHANGED vars
    PROVE  SInv'
<1>0. IInv /\ Resetting
  BY DEF SInv
<1>1. /\ ScriptSame /\ toScript' = toScript /\ toUser' = toUser /\ loops' = loops
      /\ m_stopped' = m_stopped /\ ended' = ended /\ m_outputState' = m_outputState
      /\ m_interruptedProcesses' = m_interruptedProcesses /\ lastId' = lastId
      /\ calling' = calling /\ m_stopSignal' = m_stopSignal /\ m_interrupting' = m_interrupting
      /\ tasks' = tasks /\ breaks' = breaks
  BY DEF ScriptSame, vars, script, requests, user, interrupt, bounds
<1>2. UserTyped
  BY <1>0, <1>1, UserTypes DEF UserTyped
<1>3. TopControl' = TopControl
  BY <1>0, <1>1, TopControlIs
<1>4. \A p \in Processes : HasToken(p)' <=> HasToken(p)
  BY <1>1 DEF HasToken, ScriptSame
<1>5. Balance' /\ Handed'
  BY <1>0, <1>1, Facts DEF Balance, Handed, EndsSum, HandsSum, ScriptSame
<1>6. OneToken' /\ Attached'
  BY <1>1, <1>3, <1>4 DEF SInv, IInv, OneToken, Attached, Tokens, Running, Interrupted, ScriptSame
<1>7. Stack' /\ Dialogs'
  BY <1>1 DEF SInv, IInv, Stack, Dialogs, ScriptSame
<1>8. Outputs'
  BY <1>1, <1>3 DEF SInv, IInv, Outputs, Output, ScriptSame
<1>9. Keymaps'
  BY <1>1 DEF SInv, IInv, Keymaps, ParentFirst, ScriptSame
<1>10. Users' /\ Later' /\ Detaches'
  BY <1>1, <1>4 DEF SInv, IInv, Users, Later, Detaches, ScriptSame
<1>11. Interrupts' /\ Credits' /\ News'
  BY <1>1, <1>3 DEF SInv, IInv, Interrupts, Credits, News, NewOnes, ScriptSame
<1>12. IInv'
  BY <1>0, <1>1, <1>2, <1>5, <1>6, <1>7, <1>8, <1>9, <1>10, <1>11, UserClose
<1>13. Resetting'
  <2>1. Tokens' = Tokens
    BY <1>1 DEF Tokens, Running, Interrupted, ScriptSame
  <2>. QED
    BY <1>0, <1>1, <2>1 DEF Resetting
<1>. QED
  BY <1>12, <1>13 DEF SInv

LEMMA NextInv ==
    ASSUME SInv, [Next]_vars
    PROVE  SInv'
<1>0. IInv /\ Resetting
  BY DEF SInv
<1>1. CASE GameThread
  <2>1. ASSUME NEW p \in Processes, CheckProcess(p) \/ EndProcess(p) \/ Call(p) PROVE IInv'
    BY <1>0, <2>1, CheckKeeps, EndKeeps, CallKeeps
  <2>2. ASSUME NEW p \in Processes, NEW callout \in Callouts, PostNewTask(p, callout) PROVE IInv'
    BY <1>0, <2>2, PostKeeps
  <2>3. IInv'
    BY <1>0, <1>1, <2>1, <2>2, ExecuteTaskWaitKeeps, ContinueProcessWaitKeeps, ContinueProcessKeeps,
       ContinueWithFailureKeeps, JoinKeeps, DetachKeeps, TerminateKeeps, ConfirmKeeps, ResetGameKeeps
       DEF GameThread
  <2>. QED
    BY <1>1, <2>3, GameResets DEF SInv
<1>2. CASE UserActs
  <2>1. ASSUME UserThread PROVE IInv'
    BY <1>0, <2>1, TaskCompleteKeeps, ReplyKeeps, GotoScreenKeeps, EndDialogKeeps, ShowDialogKeeps,
       PopupConsoleKeeps, UseKeymapKeeps, ProcessCallKeeps, InterruptedKeeps, ConfirmedKeeps,
       ReturnFromWaitKeeps, LeaveScreenKeeps, LeaveDialogKeeps, LeaveConsoleKeeps, LeaveKeymapKeeps
       DEF UserThread
  <2>2. ASSUME UserReacts PROVE IInv'
    <3>1. ASSUME NEW ok \in BOOLEAN, Answer(ok) PROVE IInv'
      BY <1>0, <3>1, AnswerKeeps
    <3>. QED
      BY <1>0, <2>2, <3>1, ClosesKeep DEF UserReacts
  <2>3. ASSUME EnterCommand PROVE IInv'
    BY <1>0, <2>3, EnterCommandKeeps
  <2>4. ASSUME InterruptRunningProcesses PROVE IInv'
    BY <1>0, <2>4, InterruptKeeps
  <2>5. IInv'
    BY <1>2, <2>1, <2>2, <2>3, <2>4 DEF UserActs
  <2>. QED
    BY <1>2, <2>5, UserResets DEF SInv
<1>3. CASE UNCHANGED vars
  BY <1>3, StutterKeeps
<1>. QED
  BY <1>1, <1>2, <1>3 DEF Next, UserActs

\* The inductive invariant holds in every reachable state.
THEOREM Invariance ==
    ASSUME "own" \notin Targets
    PROVE  Spec => []SInv
<1>1. Init => SInv
  BY InitInv DEF Elsewhere
<1>2. SInv /\ [Next]_vars => SInv'
  BY NextInv
<1>. QED
  BY <1>1, <1>2, PTL DEF Spec

\* Every variable has its type.
THEOREM TypeCorrect ==
    ASSUME "own" \notin Targets
    PROVE  Spec => []TypeOK
<1>1. SInv => TypeOK
  BY DEF SInv, IInv, OneEndPerWait
<1>. QED
  BY <1>1, Invariance, PTL

\* Each event loop that waits for a script gets exactly one call that ends it
\* (Control::onTaskComplete() and EventLoop::stop(), which does not stack).
THEOREM OneEnd ==
    ASSUME "own" \notin Targets
    PROVE  Spec => []OneEndPerWait
<1>1. SInv => OneEndPerWait
  BY DEF SInv, IInv
<1>. QED
  BY <1>1, Invariance, PTL

\* A process that waits for the user interface is in exactly one hand: a request, a
\* dialog, what a Control ends with, or a question; one that does not wait is in none.  One
\* that play() has left is in the hands of reset() alone, which is to come.
THEOREM InOneHand ==
    ASSUME "own" \notin Targets
    PROVE  Spec => []OneHand
<1>1. SInv => OneHand
  BY DEF SInv, IInv
<1>. QED
  BY <1>1, Invariance, PTL

\* Interrupts and their confirmations reach the user interface only while it waits for
\* them, and the signal is set only then.
LEMMA Expected == IInv => InterruptsExpected
<1> SUFFICES ASSUME IInv PROVE InterruptsExpected
  OBVIOUS
<1>1. /\ Number(toScript, ConfirmRequest) + Number(toUser, Confirmation) + Number(loops, {Ask})
           = IF m_interrupting THEN 1 ELSE 0
      /\ m_stopSignal <=> Number(toScript, ConfirmRequest) = 1
      /\ m_stopSignal \/ Followed(toUser, Interruptions, Confirmation)
  BY DEF IInv, Interrupts
<1>2. /\ Number(toScript, ConfirmRequest) \in Nat /\ Number(toUser, Confirmation) \in Nat
      /\ Number(loops, {Ask}) \in Nat /\ toUser \in Seq(ToUser)
  BY Facts
<1>3. m_stopSignal => m_interrupting
  BY <1>1, <1>2
<1>4. ASSUME NEW i \in DOMAIN toUser, toUser[i] \in Confirmation PROVE m_interrupting
  <2>1. Number(toUser, Confirmation) # 0
    BY <1>2, <1>4, NumberType
  <2>. QED
    BY <1>1, <1>2, <2>1
<1>5. ASSUME NEW i \in DOMAIN toUser, toUser[i].op \in {"onProcessInterrupted", "onInterruptConfirm"}
      PROVE  m_interrupting
  <2>1. toUser[i] \in ToUser
    BY <1>2
  <2>2. CASE toUser[i].op = "onInterruptConfirm"
    BY <1>4, <2>1, <2>2, UserForms DEF Confirmation
  <2>3. CASE toUser[i].op = "onProcessInterrupted"
    <3>1. toUser[i] \in Interruptions
      BY <2>1, <2>3, UserForms DEF Interruptions, Asks
    <3>. QED
      BY <1>1, <1>3, <1>4, <3>1 DEF Followed
  <2>. QED
    BY <1>5, <2>2, <2>3
<1>. QED
  BY <1>3, <1>5 DEF InterruptsExpected

\* A process is interrupted only while the user interface waits for that, and the signal
\* is not left for a later one (UserSide::onProcessInterrupted()).
THEOREM ExpectedInterrupts ==
    ASSUME "own" \notin Targets
    PROVE  Spec => []InterruptsExpected
<1>1. SInv => InterruptsExpected
  BY Expected DEF SInv
<1>. QED
  BY <1>1, Invariance, PTL

\* Somebody waits for a process that runs: the Control whose wait is innermost.  What was
\* detached is not just continued.
THEOREM InAttendance ==
    ASSUME "own" \notin Targets
    PROVE  Spec => []Attended
<1>1. ASSUME SInv PROVE Attended
  <2>1. ASSUME NEW p \in Processes, state[p] = "Running"
        PROVE  \E i \in DOMAIN m_waits : m_waits[i].pgid = group[p]
    <3>1. HasToken(p)
      BY <2>1 DEF HasToken
    <3>2. Waits(m_waits, TopControl, group[p])
      BY <1>1, <3>1 DEF SInv, IInv, Attached
    <3>. QED
      BY <3>2 DEF Waits, Has, WaitEntry
  <2>. QED
    BY <2>1 DEF Attended
<1>. QED
  BY <1>1, Invariance, PTL
=============================================================================
