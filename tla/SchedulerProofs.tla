-------------------------- MODULE SchedulerProofs --------------------------
(***************************************************************************)
(* Proofs about the two schedulers of the client.                          *)
(*                                                                         *)
(* ProcessList: the safety of process groups follows from IInv, which adds *)
(* to the properties themselves that a busy process is in a started group, *)
(* that groups are allocated before they are used, and that process Ids    *)
(* are not reused.  All actions that start a group, be it for the first    *)
(* time or because a process completed, are instances of one lemma,        *)
(* GroupProceeds.                                                          *)
(*                                                                         *)
(* RequestThread, for every set of tasks: no wakeup is lost, tasks are     *)
(* executed and deleted in the order of posting, and the thread implements *)
(* RequestDispatcher.                                                      *)
(***************************************************************************)
EXTENDS ProcessList, RequestThread, SequenceTheorems, TLAPS

----------------------------------------------------------------------------
(* ProcessList.                                                            *)

(* What the properties say as long as no task failed its process. *)
Exclusive == \A p, q \in Pids : Busy(p) /\ Busy(q) /\ p # q => group[p] # group[q]
FinishedEmpty == \A p \in Pids : state[p] \in Queued => group[p] \notin finished
StartedAlive == \A g \in started \ finished : \E p \in Pids : group[p] = g /\ Busy(p)

BusyStarted == \A p \in Pids : Busy(p) => group[p] \in started

GroupsAllocated ==
    /\ started \cup finished \subseteq 1..m_processGroupId
    /\ \A p \in Pids : group[p] <= m_processGroupId
    /\ \A p \in Pids : state[p] \in Queued => group[p] # 0

IdsAllocated == \A p \in Pids : p > m_processId => state[p] = "Absent"

GroupInv ==
    /\ Exclusive
    /\ FinishedEmpty
    /\ StartedAlive
    /\ BusyStarted
    /\ GroupsAllocated

IInv == TypeOK /\ IdsAllocated /\ (~failedInTask => GroupInv)

-----------------------------------------------------------------------------
(* The process list stays a sequence of Ids. *)

LEMMA ReorderedList ==
    ASSUME NEW list \in Seq(Pids), NEW prio, NEW p,
           HandlePriorityChange(list, prio, p)
    PROVE  m_processes' \in Seq(Pids)
<1>1. PICK i \in DOMAIN list, k \in DOMAIN list : m_processes' = Moved(list, i, k)
      BY DEF HandlePriorityChange
<1>2. \A n \in 1..Len(list) : Moved(list, i, k)[n] \in Pids
      BY DEF Moved
<1>3. DOMAIN Moved(list, i, k) = 1..Len(list)
      BY DEF Moved
<1> QED
      BY <1>1, <1>2, <1>3 DEF Moved

LEMMA ShortenedList ==
    ASSUME NEW list \in Seq(Pids), NEW i \in DOMAIN list
    PROVE  Without(list, i) \in Seq(Pids)
<1>1. \A n \in 1..(Len(list) - 1) : (IF n < i THEN list[n] ELSE list[n+1]) \in Pids
      OBVIOUS
<1>2. Len(list) - 1 \in Nat
      OBVIOUS
<1> QED
      BY <1>1, <1>2 DEF Without

(* The failure is remembered. *)
LEMMA FailureStays ==
    ASSUME [Next]_vars
    PROVE  failedInTask' = failedInTask \/ failedInTask' = TRUE
<1>1. CASE RunLoop
      BY <1>1
      DEF RunLoop, Run, RunProcess, Instruction, FailInTask, HandleState, RunEnd, AbortRun
<1>2. CASE Population
      BY <1>2
      DEF Population, Create, SetPriority, Freeze, Unfreeze, TerminateAllProcesses,
          RemoveTerminatedProcess
<1>3. CASE Grouping
      BY <1>3
      DEF Grouping, PrepareGroup, PrepareGroupOfSuspended, StartGroup, JoinGroup
<1>4. CASE Control
      BY <1>4
      DEF Control, JoinProcess, ContinueProcess, ContinueProcessWithFailure,
          TerminateProcess, TerminateProcessGroup
<1>5. CASE UNCHANGED vars
      BY <1>5 DEF vars
<1> QED
      BY <1>1, <1>2, <1>3, <1>4, <1>5 DEF Next

(* What startProcessGroup() does: start a queued process or finish the group. *)
LEMMA StartCases ==
    ASSUME TypeOK, NEW st \in [Pids -> States], NEW g \in 0..MaxGroups,
           StartProcessGroup(st, g)
    PROVE  /\ state' \in [Pids -> States]
           /\ m_finalizer' \in [Pids -> {"none", "set", "called"}]
           /\ finished' \subseteq 0..MaxGroups
           /\ \A p \in Pids : st[p] # "Absent" => state'[p] # "Absent"
           /\ \/ /\ finished' = finished
                 /\ \E p \in Pids :
                       /\ st[p] = "Runnable"
                       /\ group[p] = g
                       /\ state' = [st EXCEPT ![p] = "Running"]
              \/ /\ finished' = finished \cup {g}
                 /\ state' = st
                 /\ \A p \in Pids : ~(st[p] = "Runnable" /\ group[p] = g)
<1>1. CASE \E p \in RunnableIn(st, g) :
             /\ IsFirst(m_processes, p, RunnableIn(st, g))
             /\ state' = [st EXCEPT ![p] = "Running"]
             /\ UNCHANGED <<m_finalizer, finished>>
      BY <1>1 DEF TypeOK, RunnableIn, States
<1>2. CASE /\ RunnableIn(st, g) = {}
           /\ state' = st
           /\ m_finalizer' = [p \in Pids |-> IF group[p] = g /\ m_finalizer[p] = "set"
                                             THEN "called" ELSE m_finalizer[p]]
           /\ finished' = finished \cup {g}
      BY <1>2 DEF TypeOK, RunnableIn
<1> QED
      BY <1>1, <1>2 DEF StartProcessGroup

(* A group proceeds when startProcessGroup() is called for it after its     *)
(* busy process, if any, completed (states st).                            *)
LEMMA GroupProceeds ==
    ASSUME TypeOK, GroupInv,
           NEW st \in [Pids -> States], NEW g \in 0..MaxGroups,
           g # 0, g <= m_processGroupId,
           \A p \in Pids : group[p] # g => st[p] = state[p],
           \A p \in Pids : group[p] = g => st[p] \notin Executing,
           \A p \in Pids : st[p] = "Runnable" => state[p] = "Runnable",
           StartProcessGroup(st, g),
           group' = group,
           m_processGroupId' = m_processGroupId,
           started' = started \cup {g},
           current' \in {0, current},
           \A p \in Pids : current = p => (group[p] = g <=> current' = 0)
    PROVE  GroupInv'
<1>0. /\ state \in [Pids -> States] /\ group \in [Pids -> 0..MaxGroups]
      /\ m_processGroupId \in Nat
      /\ \A p \in Pids : p # 0
      BY BoundAssumption DEF TypeOK, Pids
<1>1. /\ Exclusive /\ FinishedEmpty /\ StartedAlive
      /\ BusyStarted /\ GroupsAllocated
      BY DEF GroupInv
<1>a. \A p \in Pids : group[p] # g => (Busy(p) <=> (st[p] \in Executing \/ current' = p))
      BY <1>0 DEF Busy
<1>b. \A p \in Pids : group[p] = g => ~(st[p] \in Executing \/ current' = p)
      BY <1>0
<1>2. CASE /\ finished' = finished
           /\ \E p \in Pids :
                 /\ st[p] = "Runnable"
                 /\ group[p] = g
                 /\ state' = [st EXCEPT ![p] = "Running"]
  <2>1. PICK r \in Pids : /\ st[r] = "Runnable" /\ group[r] = g
                          /\ state' = [st EXCEPT ![r] = "Running"]
        BY <1>2
  <2>2. state[r] = "Runnable" /\ g \notin finished
        BY <2>1, <1>1 DEF FinishedEmpty, Queued
  <2>3. \A p \in Pids : p # r => state'[p] = st[p]
        BY <2>1
  <2>4. state'[r] = "Running"
        BY <2>1
  <2>5. \A p \in Pids : Busy(p)' <=> p = r \/ (group[p] # g /\ Busy(p))
        BY <1>0, <1>a, <1>b, <2>1, <2>3, <2>4 DEF Busy, Executing
  <2>6. Exclusive'
        BY <1>1, <2>1, <2>5 DEF Exclusive
  <2>7. FinishedEmpty'
    <3>1. \A p \in Pids : state'[p] \in Queued => state[p] \in Queued
          BY <1>0, <2>2, <2>3 DEF Queued, Executing
    <3> QED
          BY <3>1, <1>1, <1>2 DEF FinishedEmpty
  <2>8. StartedAlive'
        BY <1>1, <1>2, <2>1, <2>5 DEF StartedAlive
  <2>9. BusyStarted'
        BY <1>1, <2>1, <2>5 DEF BusyStarted
  <2>10. GroupsAllocated'
    <3>1. \A p \in Pids : state'[p] \in Queued => state[p] \in Queued
          BY <1>0, <2>2, <2>3 DEF Queued, Executing
    <3> QED
          BY <3>1, <1>0, <1>1, <1>2 DEF GroupsAllocated, Groups
  <2> QED
        BY <2>6, <2>7, <2>8, <2>9, <2>10 DEF GroupInv
<1>3. CASE /\ finished' = finished \cup {g}
           /\ state' = st
           /\ \A p \in Pids : ~(st[p] = "Runnable" /\ group[p] = g)
  <2>1. \A p \in Pids : Busy(p)' <=> group[p] # g /\ Busy(p)
        BY <1>0, <1>3, <1>a, <1>b DEF Busy
  <2>2. \A p \in Pids : state'[p] \in Queued => state[p] \in Queued /\ group[p] # g
        BY <1>0, <1>3 DEF Queued
  <2>3. Exclusive'
        BY <1>1, <2>1 DEF Exclusive
  <2>4. FinishedEmpty'
        BY <1>1, <1>3, <2>2 DEF FinishedEmpty
  <2>5. StartedAlive'
        BY <1>1, <1>3, <2>1 DEF StartedAlive
  <2>6. BusyStarted'
        BY <1>1, <2>1 DEF BusyStarted
  <2>7. GroupsAllocated'
        BY <1>0, <1>1, <1>3, <2>2 DEF GroupsAllocated, Groups
  <2> QED
        BY <2>3, <2>4, <2>5, <2>6, <2>7 DEF GroupInv
<1> QED
      BY <1>2, <1>3, StartCases

(* Steps after which the same processes are busy, and no more are queued.   *)
LEMMA QuietStep ==
    ASSUME GroupInv,
           UNCHANGED <<m_processGroupId, started, finished>>,
           \A p \in Pids : Busy(p)' <=> Busy(p),
           \A p \in Pids : state'[p] \in Queued => state[p] \in Queued,
           \A p \in Pids : Busy(p) \/ state[p] \in Queued => group'[p] = group[p],
           \A p \in Pids : group'[p] <= m_processGroupId
    PROVE  GroupInv'
<1>1. /\ Exclusive /\ FinishedEmpty /\ StartedAlive
      /\ BusyStarted /\ GroupsAllocated
      BY DEF GroupInv
<1>2. Exclusive'
      BY <1>1 DEF Exclusive
<1>3. FinishedEmpty'
      BY <1>1 DEF FinishedEmpty
<1>4. StartedAlive'
      BY <1>1 DEF StartedAlive
<1>5. BusyStarted'
      BY <1>1 DEF BusyStarted
<1>6. GroupsAllocated'
      BY <1>1 DEF GroupsAllocated
<1> QED
      BY <1>2, <1>3, <1>4, <1>5, <1>6 DEF GroupInv

-----------------------------------------------------------------------------
(* Type correctness *)

LEMMA TypeInit == Init => TypeOK /\ IdsAllocated
<1>1. SUFFICES ASSUME Init PROVE TypeOK /\ IdsAllocated
      OBVIOUS
<1>2. IdsAllocated
      BY <1>1 DEF Init, IdsAllocated
<1>3. MaxProcesses \in Nat /\ MaxGroups \in Nat /\ DefaultPriority \in Priorities
      BY BoundAssumption, PriorityAssumption
<1>4. m_processes \in Seq(Pids)
      BY <1>1 DEF Init
<1>5. /\ state \in [Pids -> States]
      /\ group \in [Pids -> 0..MaxGroups]
      /\ priority \in [Pids -> Priorities]
      /\ m_finalizer \in [Pids -> {"none", "set", "called"}]
      BY <1>1, <1>3 DEF Init, States
<1>6. /\ m_processId \in 0..MaxProcesses
      /\ m_processGroupId \in 0..MaxGroups
      /\ current = 0
      BY <1>1, <1>3 DEF Init
<1>7. m_running \in BOOLEAN /\ failedInTask \in BOOLEAN
      BY <1>1, Zenon DEF Init
<1>8. started \subseteq Groups /\ finished \subseteq 0..MaxGroups
      BY <1>1, Zenon DEF Init
<1> QED
      BY <1>2, <1>4, <1>5, <1>6, <1>7, <1>8 DEF TypeOK

LEMMA TypeStep ==
    ASSUME TypeOK, IdsAllocated, [Next]_vars
    PROVE  TypeOK' /\ IdsAllocated'
<1>0. /\ m_processes \in Seq(Pids)
      /\ state \in [Pids -> States]
      /\ group \in [Pids -> 0..MaxGroups]
      /\ priority \in [Pids -> Priorities]
      /\ m_finalizer \in [Pids -> {"none", "set", "called"}]
      /\ m_processId \in 0..MaxProcesses
      /\ m_processGroupId \in 0..MaxGroups
      /\ m_running \in BOOLEAN
      /\ (current # 0 => current \in Pids /\ m_running /\ state[current] # "Absent")
      /\ started \subseteq Groups
      /\ finished \subseteq 0..MaxGroups
      /\ MaxProcesses \in Nat /\ MaxGroups \in Nat /\ DefaultPriority \in Priorities
      BY BoundAssumption, PriorityAssumption DEF TypeOK
<1>f. failedInTask' \in BOOLEAN
      BY FailureStays, Zenon DEF TypeOK
<1>1. IdsAllocated /\ \A p \in Pids : p > m_processId => state[p] = "Absent"
      BY DEF IdsAllocated
<1>2. CASE Create
  <2>1. /\ m_processId' = m_processId + 1
        /\ m_processId' \in Pids
        BY <1>0, <1>2 DEF Create, Pids
  <2>2. state' \in [Pids -> States] /\ \A p \in Pids : p # m_processId' => state'[p] = state[p]
        BY <1>0, <1>2, <2>1 DEF Create, States
  <2>3. m_processes' \in Seq(Pids)
    <3>1. Append(m_processes, m_processId') \in Seq(Pids)
          BY <1>0, <2>1
    <3> QED
          BY <1>2, <3>1, ReorderedList DEF Create
  <2>4. m_finalizer' \in [Pids -> {"none", "set", "called"}]
        BY <1>0, <1>2, <2>1 DEF Create
  <2>5. current' # 0 => current' \in Pids /\ m_running' /\ state'[current'] # "Absent"
        BY <1>0, <1>2, <2>1 DEF Create, runVars
  <2>6. IdsAllocated'
        BY <1>0, <1>1, <2>1, <2>2 DEF IdsAllocated, Pids
  <2> QED
        BY <1>0, <1>f, <1>2, <2>1, <2>2, <2>3, <2>4, <2>5, <2>6
        DEF Create, TypeOK, Pids, runVars, groupVars
<1>3. ASSUME NEW p \in Pids, NEW pri \in Priorities, SetPriority(p, pri)
      PROVE  TypeOK' /\ IdsAllocated'
  <2>1. m_processes' \in Seq(Pids)
        BY <1>0, <1>3, ReorderedList DEF SetPriority
  <2>2. priority' \in [Pids -> Priorities]
        BY <1>0, <1>3 DEF SetPriority
  <2> QED
        BY <1>0, <1>f, <1>1, <1>3, <2>1, <2>2 DEF SetPriority, TypeOK, IdsAllocated, runVars, groupVars
<1>4. ASSUME NEW S \in SUBSET Pids, PrepareGroup(S)
      PROVE  TypeOK' /\ IdsAllocated'
  <2>1. m_processGroupId' \in 0..MaxGroups
        BY <1>0, <1>4 DEF PrepareGroup
  <2>2. state' \in [Pids -> States] /\ \A p \in Pids : state'[p] = "Absent" <=> state[p] = "Absent"
        BY <1>0, <1>4 DEF PrepareGroup, States
  <2>3. group' \in [Pids -> 0..MaxGroups]
        BY <1>0, <1>4, <2>1 DEF PrepareGroup
  <2> QED
        BY <1>0, <1>f, <1>1, <1>4, <2>1, <2>2, <2>3
        DEF PrepareGroup, TypeOK, IdsAllocated, listVars, runVars, groupVars
<1>5. PrepareGroupOfSuspended => TypeOK' /\ IdsAllocated'
      BY <1>4 DEF PrepareGroupOfSuspended
(* Steps that neither create nor destroy a process nor touch the list. *)
<1>6. ASSUME UNCHANGED listVars,
             state' \in [Pids -> States],
             \A p \in Pids : state'[p] = "Absent" <=> state[p] = "Absent",
             group' \in [Pids -> 0..MaxGroups],
             m_finalizer' \in [Pids -> {"none", "set", "called"}],
             m_processGroupId' = m_processGroupId,
             m_running' \in BOOLEAN,
             current' # 0 => current' \in Pids /\ m_running' /\ state[current'] # "Absent",
             started' \subseteq Groups,
             finished' \subseteq 0..MaxGroups
      PROVE  TypeOK' /\ IdsAllocated'
      BY <1>0, <1>f, <1>1, <1>6 DEF TypeOK, IdsAllocated, listVars
(* Of these, the ones that call startProcessGroup(). *)
<1>7. ASSUME NEW st \in [Pids -> States], NEW g \in 0..MaxGroups,
             StartProcessGroup(st, g),
             \A p \in Pids : st[p] = "Absent" <=> state[p] = "Absent",
             UNCHANGED <<listVars, group, m_processGroupId, m_running>>,
             current' \in {0, current},
             started' \subseteq Groups
      PROVE  TypeOK' /\ IdsAllocated'
  <2>1. /\ state' \in [Pids -> States]
        /\ m_finalizer' \in [Pids -> {"none", "set", "called"}]
        /\ finished' \subseteq 0..MaxGroups
        /\ \A p \in Pids : st[p] # "Absent" => state'[p] # "Absent"
        BY <1>7, StartCases
  <2>2. \A p \in Pids : st[p] = "Absent" => state'[p] = "Absent"
        BY <1>7, StartCases
  <2> QED
        BY <1>0, <1>6, <1>7, <2>1, <2>2
<1>8. ASSUME NEW g \in Groups, StartGroup(g)
      PROVE  TypeOK' /\ IdsAllocated'
      BY <1>0, <1>7, <1>8 DEF StartGroup, runVars, Groups
<1>9. ASSUME NEW old \in Groups, NEW new \in Groups, JoinGroup(old, new)
      PROVE  TypeOK' /\ IdsAllocated'
      BY <1>0, <1>6, <1>9 DEF JoinGroup, JoinProcessGroup, runVars, Groups
<1>10. ASSUME NEW p \in Pids, NEW leader \in Pids, JoinProcess(p, leader)
       PROVE  TypeOK' /\ IdsAllocated'
  <2>1. /\ state' = [state EXCEPT ![p] = "Runnable"] /\ state[p] = "Waiting"
        /\ group' = [q \in Pids |-> IF group[q] = group[p] THEN group[leader] ELSE group[q]]
        /\ finished' = finished \cup {group[p]}
        BY <1>10 DEF JoinProcess, JoinProcessGroup, HoldsLink
  <2>2. /\ state' \in [Pids -> States]
        /\ \A q \in Pids : state'[q] = "Absent" <=> state[q] = "Absent"
        /\ group' \in [Pids -> 0..MaxGroups]
        /\ finished' \subseteq 0..MaxGroups
        BY <1>0, <2>1 DEF States
  <2>3. current = 0
        BY <1>0, <1>10 DEF JoinProcess, HoldsLink
  <2> QED
        BY <1>0, <1>6, <1>10, <2>2, <2>3 DEF JoinProcess, runVars
<1>11. ASSUME NEW p \in Pids, ContinueProcess(p)
       PROVE  TypeOK' /\ IdsAllocated'
  <2>1. /\ state' \in [Pids -> States]
        /\ \A q \in Pids : state'[q] = "Absent" <=> state[q] = "Absent"
        BY <1>0, <1>11 DEF ContinueProcess, HoldsLink, States
  <2> QED
        BY <1>0, <1>6, <1>11, <2>1 DEF ContinueProcess, runVars, groupVars
<1>12. ASSUME NEW p \in Pids, NEW handled \in BOOLEAN, ContinueProcessWithFailure(p, handled)
       PROVE  TypeOK' /\ IdsAllocated'
  <2>0. state[p] = "Waiting"
        BY <1>12 DEF ContinueProcessWithFailure, HoldsLink
  <2>1. CASE handled
    <3>1. state' = [state EXCEPT ![p] = "Running"] /\ UNCHANGED <<m_finalizer, finished>>
          BY <1>12, <2>1 DEF ContinueProcessWithFailure
    <3>2. /\ state' \in [Pids -> States]
          /\ \A q \in Pids : state'[q] = "Absent" <=> state[q] = "Absent"
          BY <1>0, <2>0, <3>1 DEF States
    <3> QED
          BY <1>0, <1>6, <1>12, <3>1, <3>2 DEF ContinueProcessWithFailure, runVars
  <2>2. CASE ~handled
    <3> DEFINE st == [state EXCEPT ![p] = "Failed"]
    <3>1. /\ st \in [Pids -> States]
          /\ \A q \in Pids : st[q] = "Absent" <=> state[q] = "Absent"
          BY <1>0, <2>0 DEF States, Finished
    <3>2. StartProcessGroup(st, group[p]) /\ group[p] \in 0..MaxGroups
          BY <1>0, <1>12, <2>2 DEF ContinueProcessWithFailure
    <3> HIDE DEF st
    <3> QED
          BY <1>0, <1>7, <1>12, <3>1, <3>2 DEF ContinueProcessWithFailure, runVars
  <2> QED
        BY <2>1, <2>2
<1>13. ASSUME NEW p \in Pids, TerminateProcess(p)
       PROVE  TypeOK' /\ IdsAllocated'
  <2> DEFINE st == [state EXCEPT ![p] = "Terminated"]
  <2>1. /\ st \in [Pids -> States]
        /\ \A q \in Pids : st[q] = "Absent" <=> state[q] = "Absent"
        BY <1>0, <1>13 DEF TerminateProcess, States, Finished
  <2>2. CASE state[p] \in Executing
    <3>1. StartProcessGroup(st, group[p]) /\ group[p] \in 0..MaxGroups
          BY <1>0, <1>13, <2>2 DEF TerminateProcess
    <3> HIDE DEF st
    <3> QED
          BY <1>0, <1>7, <1>13, <2>1, <3>1 DEF TerminateProcess, runVars
  <2>3. CASE state[p] \notin Executing
    <3>1. state' = st /\ UNCHANGED <<m_finalizer, finished>>
          BY <1>13, <2>3 DEF TerminateProcess
    <3> HIDE DEF st
    <3> QED
          BY <1>0, <1>6, <1>13, <2>1, <3>1 DEF TerminateProcess, runVars
  <2> QED
        BY <2>2, <2>3
<1>14. ASSUME NEW leader \in Pids, TerminateProcessGroup(leader)
       PROVE  TypeOK' /\ IdsAllocated'
  <2> DEFINE st == [p \in Pids |-> IF state[p] # "Absent" /\ group[p] = group[leader]
                                   THEN "Terminated" ELSE state[p]]
  <2>1. /\ st \in [Pids -> States]
        /\ \A q \in Pids : st[q] = "Absent" <=> state[q] = "Absent"
        BY <1>0 DEF States, Finished
  <2>2. StartProcessGroup(st, group[leader]) /\ group[leader] \in 0..MaxGroups
        BY <1>0, <1>14 DEF TerminateProcessGroup
  <2> HIDE DEF st
  <2> QED
        BY <1>0, <1>7, <1>14, <2>1, <2>2 DEF TerminateProcessGroup, runVars
<1>15. CASE TerminateAllProcesses
  <2>1. /\ state' \in [Pids -> States]
        /\ \A q \in Pids : state'[q] = "Absent" <=> state[q] = "Absent"
        BY <1>0, <1>15 DEF TerminateAllProcesses, States, Finished
  <2> QED
        BY <1>0, <1>6, <1>15, <2>1 DEF TerminateAllProcesses, runVars, groupVars
<1>16. CASE RemoveTerminatedProcess
  <2>1. PICK i \in DOMAIN m_processes :
             /\ state' = [state EXCEPT ![m_processes[i]] = "Absent"]
             /\ group' = [group EXCEPT ![m_processes[i]] = 0]
             /\ priority' = [priority EXCEPT ![m_processes[i]] = DefaultPriority]
             /\ m_finalizer' = [m_finalizer EXCEPT ![m_processes[i]] = "none"]
             /\ m_processes' = Without(m_processes, i)
        BY <1>16 DEF RemoveTerminatedProcess
  <2>2. m_processes' \in Seq(Pids)
        BY <1>0, <2>1, ShortenedList
  <2>3. /\ state' \in [Pids -> States]
        /\ \A p \in Pids : state[p] = "Absent" => state'[p] = "Absent"
        BY <1>0, <2>1 DEF States
  <2>4. /\ group' \in [Pids -> 0..MaxGroups]
        /\ priority' \in [Pids -> Priorities]
        /\ m_finalizer' \in [Pids -> {"none", "set", "called"}]
        BY <1>0, <2>1
  <2> QED
        BY <1>0, <1>f, <1>1, <1>16, <2>2, <2>3, <2>4
        DEF RemoveTerminatedProcess, TypeOK, IdsAllocated, runVars, groupVars
<1>17. ASSUME NEW p \in Pids, Freeze(p) \/ Unfreeze(p)
       PROVE  TypeOK' /\ IdsAllocated'
  <2>1. /\ state' \in [Pids -> States]
        /\ \A q \in Pids : state'[q] = "Absent" <=> state[q] = "Absent"
        BY <1>0, <1>17 DEF Freeze, Unfreeze, States
  <2> QED
        BY <1>0, <1>6, <1>17, <2>1 DEF Freeze, Unfreeze, runVars, groupVars
<1>18. CASE Run \/ RunEnd \/ AbortRun
       BY <1>0, <1>6, <1>18 DEF Run, RunEnd, AbortRun, groupVars
<1>19. ASSUME NEW p \in Pids, RunProcess(p)
       PROVE  TypeOK' /\ IdsAllocated'
  <2>1. state[p] = "Running"
        BY <1>19 DEF RunProcess, IsFirst, RunningPids
  <2> QED
        BY <1>0, <1>6, <1>19, <2>1 DEF RunProcess, groupVars
<1>20. ASSUME NEW new \in {"Suspended", "Waiting", "Ended", "Terminated", "Failed"},
              Instruction(new)
       PROVE  TypeOK' /\ IdsAllocated'
  <2>1. /\ state' \in [Pids -> States]
        /\ \A q \in Pids : state'[q] = "Absent" <=> state[q] = "Absent"
        BY <1>0, <1>20 DEF Instruction, InProcess, States, Finished
  <2> QED
        BY <1>0, <1>6, <1>20, <2>1 DEF Instruction, runVars, groupVars
<1>21. CASE FailInTask
  <2> DEFINE st == [state EXCEPT ![current] = "Failed"]
  <2>1. current \in Pids /\ state[current] = "Running"
        BY <1>0, <1>21 DEF FailInTask, InProcess
  <2>2. /\ st \in [Pids -> States]
        /\ \A q \in Pids : st[q] = "Absent" <=> state[q] = "Absent"
        BY <1>0, <2>1 DEF States, Finished
  <2>3. StartProcessGroup(st, group[current]) /\ group[current] \in 0..MaxGroups
        BY <1>0, <1>21, <2>1 DEF FailInTask
  <2> HIDE DEF st
  <2> QED
        BY <1>0, <1>7, <1>21, <2>2, <2>3 DEF FailInTask, runVars
<1>22. CASE HandleState
  <2>1. current \in Pids
        BY <1>0, <1>22 DEF HandleState
  <2>2. CASE state[current] = "Waiting"
        BY <1>0, <1>6, <1>22, <2>2 DEF HandleState
  <2>3. CASE state[current] # "Waiting"
        BY <1>0, <1>7, <1>22, <2>1, <2>3 DEF HandleState
  <2> QED
        BY <2>2, <2>3
<1>23. CASE UNCHANGED vars
       BY <1>0, <1>6, <1>23 DEF vars, listVars, runVars, groupVars
<1> QED
       BY <1>2, <1>3, <1>4, <1>5, <1>8, <1>9, <1>10, <1>11, <1>12, <1>13, <1>14, <1>15,
          <1>16, <1>17, <1>18, <1>19, <1>20, <1>21, <1>22, <1>23
       DEF Next, RunLoop, Population, Grouping, Control

(* Every variable keeps its type, and run() executes a process only while  *)
(* it exists, although executing code creates processes and groups.        *)
THEOREM TypeCorrect == Spec => []TypeOK
<1>1. TypeOK /\ IdsAllocated /\ [Next]_vars => (TypeOK /\ IdsAllocated)'
      BY TypeStep
<1> QED
      BY TypeInit, <1>1, PTL DEF Spec

-----------------------------------------------------------------------------
(* Process groups *)

LEMMA GroupInit == Init => GroupInv
<1>1. SUFFICES ASSUME Init PROVE GroupInv
      OBVIOUS
<1>2. /\ \A p \in Pids : state[p] = "Absent" /\ group[p] = 0
      /\ current = 0 /\ started = {} /\ finished = {} /\ m_processGroupId = 0
      BY <1>1 DEF Init
<1>3. \A p \in Pids : p # 0
      BY BoundAssumption DEF Pids
<1>4. \A p \in Pids : ~Busy(p) /\ state[p] \notin Queued
      BY <1>2, <1>3 DEF Busy, Queued, Executing
<1> QED
      BY <1>2, <1>4
      DEF GroupInv, Exclusive, FinishedEmpty, StartedAlive,
          BusyStarted, GroupsAllocated

LEMMA GroupStep ==
    ASSUME ~failedInTask', TypeOK, IdsAllocated, GroupInv, [Next]_vars
    PROVE  GroupInv'
<1>0. /\ state \in [Pids -> States]
      /\ group \in [Pids -> 0..MaxGroups]
      /\ m_processId \in 0..MaxProcesses
      /\ m_processGroupId \in 0..MaxGroups
      /\ (current # 0 => current \in Pids /\ m_running /\ state[current] # "Absent")
      /\ started \subseteq Groups
      /\ finished \subseteq 0..MaxGroups
      /\ MaxProcesses \in Nat /\ MaxGroups \in Nat
      BY BoundAssumption DEF TypeOK
<1>d. /\ m_processId \in Nat /\ m_processGroupId \in Nat
      /\ \A p \in Pids : p # 0
      BY <1>0 DEF Pids
<1>1. /\ Exclusive /\ FinishedEmpty /\ StartedAlive
      /\ BusyStarted /\ GroupsAllocated
      BY DEF GroupInv
<1>a. \A p \in Pids : group[p] <= m_processGroupId
      BY <1>1 DEF GroupsAllocated
<1>b. \A p \in Pids : Busy(p) => group[p] # 0 /\ group[p] \in Groups
      BY <1>0, <1>1, <1>d DEF BusyStarted, Groups
(* Steps that change no group, and states only so that nothing becomes or   *)
(* ceases to be busy or queued.                                            *)
<1>2. ASSUME UNCHANGED <<group, m_processGroupId, started, finished>>,
             \A p \in Pids : Busy(p)' <=> Busy(p),
             \A p \in Pids : state'[p] \in Queued => state[p] \in Queued
      PROVE  GroupInv'
      BY <1>2, <1>a, QuietStep
<1>3. CASE Create
  <2>1. /\ m_processId' \in Pids
        /\ state[m_processId'] = "Absent"
        /\ state' = [state EXCEPT ![m_processId'] = "Suspended"]
        /\ current' = current
        BY <1>0, <1>d, <1>3, BoundAssumption DEF Create, IdsAllocated, Pids, runVars
  <2>2. \A p \in Pids : /\ Busy(p)' <=> Busy(p)
                        /\ state'[p] \in Queued => state[p] \in Queued
        BY <1>0, <1>d, <2>1 DEF Busy, Queued, Executing
  <2> QED
        BY <1>2, <1>3, <2>2 DEF Create, groupVars
<1>4. ASSUME NEW p \in Pids, NEW pri \in Priorities, SetPriority(p, pri)
      PROVE  GroupInv'
      BY <1>2, <1>4 DEF SetPriority, Busy, groupVars, runVars
<1>5. ASSUME NEW S \in SUBSET Pids, PrepareGroup(S)
      PROVE  GroupInv'
  <2>0. /\ m_processGroupId' = m_processGroupId + 1
        /\ UNCHANGED <<started, finished, current>>
        BY <1>5 DEF PrepareGroup, runVars, groupVars
  <2>1. \A p \in S : ~Busy(p)
    <3>1. \A p \in S : state[p] \in {"Suspended", "Runnable"}
          BY <1>5 DEF PrepareGroup
    <3>2. \A p \in S : current # p
          BY <1>0, <1>d, <1>5, <3>1 DEF PrepareGroup, CallerActive
    <3> QED
          BY <3>1, <3>2 DEF Busy, Executing
  <2>2. \A p \in Pids : p \notin S => state'[p] = state[p] /\ group'[p] = group[p]
        BY <1>5 DEF PrepareGroup
  <2>3. \A p \in S : state'[p] = "Runnable" /\ group'[p] = m_processGroupId'
        BY <1>5 DEF PrepareGroup
  <2>4. \A p \in Pids : Busy(p)' <=> Busy(p)
    <3>1. \A p \in S : current # p
          BY <2>1 DEF Busy
    <3> QED
          BY <2>0, <2>1, <2>2, <2>3, <3>1 DEF Busy, Executing
  <2>5. Exclusive'
        BY <1>1, <2>1, <2>2, <2>4 DEF Exclusive
  <2>6. m_processGroupId' \notin finished
        BY <1>0, <1>d, <1>1, <2>0 DEF GroupsAllocated
  <2>7. FinishedEmpty'
        BY <1>1, <2>0, <2>2, <2>3, <2>6 DEF FinishedEmpty
  <2>8. StartedAlive'
        BY <1>1, <2>0, <2>1, <2>2, <2>4 DEF StartedAlive
  <2>9. BusyStarted'
        BY <1>1, <2>0, <2>1, <2>2, <2>4 DEF BusyStarted
  <2>10. GroupsAllocated'
    <3>1. started' \cup finished' \subseteq 1..m_processGroupId'
          BY <1>0, <1>d, <1>1, <2>0 DEF GroupsAllocated
    <3>2. \A p \in Pids : group'[p] <= m_processGroupId'
          BY <1>0, <1>d, <1>a, <2>0, <2>2, <2>3
    <3>3. \A p \in Pids : state'[p] \in Queued => group'[p] # 0
          BY <1>0, <1>d, <1>1, <2>0, <2>2, <2>3 DEF GroupsAllocated
    <3> QED
          BY <3>1, <3>2, <3>3 DEF GroupsAllocated
  <2> QED
        BY <2>5, <2>7, <2>8, <2>9, <2>10 DEF GroupInv
<1>6. PrepareGroupOfSuspended => GroupInv'
      BY <1>5 DEF PrepareGroupOfSuspended
<1>7. ASSUME NEW g \in Groups, StartGroup(g)
      PROVE  GroupInv'
  <2>1. g \in Prepared /\ g # 0 /\ g <= m_processGroupId
        BY <1>0, <1>d, <1>7 DEF StartGroup, Prepared, Groups
  <2>2. \A p \in Pids : Busy(p) => group[p] # g
        BY <1>1, <2>1 DEF BusyStarted, Prepared
  <2>3. \A p \in Pids : group[p] = g => state[p] \notin Executing
        BY <2>2 DEF Busy
  <2>4. \A p \in Pids : current = p => (group[p] = g <=> current' = 0)
        BY <1>0, <1>d, <1>7, <2>2 DEF StartGroup, Busy, runVars
  <2>5. StartProcessGroup(state, g) /\ started' = started \cup {g}
        BY <1>7 DEF StartGroup
  <2>6. group' = group /\ m_processGroupId' = m_processGroupId /\ current' \in {0, current}
        BY <1>7 DEF StartGroup, runVars
  <2>7. g \in 0..MaxGroups
        BY <1>0 DEF Groups
  <2> QED
        BY <1>0, <1>d, <2>1, <2>3, <2>4, <2>5, <2>6, <2>7, GroupProceeds
(* A group whose busy process p completes, or is no longer executed. *)
<1>8. ASSUME NEW st \in [Pids -> States], NEW p \in Pids, Busy(p),
             StartProcessGroup(st, group[p]),
             UNCHANGED <<group, m_processGroupId, started>>,
             \A q \in Pids : group[q] # group[p] => st[q] = state[q],
             \A q \in Pids : group[q] = group[p] => st[q] \notin Executing,
             \A q \in Pids : st[q] = "Runnable" => state[q] = "Runnable",
             current' = 0,
             current \in {0, p}
      PROVE  GroupInv'
  <2>1. /\ group[p] \in 0..MaxGroups /\ group[p] # 0 /\ group[p] <= m_processGroupId
        BY <1>0, <1>d, <1>8, <1>a, <1>b
  <2>2. started' = started \cup {group[p]}
        BY <1>1, <1>8 DEF BusyStarted
  <2>3. \A q \in Pids : current = q => (group[q] = group[p] <=> current' = 0)
        BY <1>0, <1>d, <1>8
  <2>4. /\ group' = group /\ m_processGroupId' = m_processGroupId /\ current' \in {0, current}
        BY <1>8
  <2> QED
        BY <1>8, <2>1, <2>2, <2>3, <2>4, GroupProceeds
(* No other process of a busy process' group is executing. *)
<1>9. ASSUME NEW p \in Pids, Busy(p)
      PROVE  \A q \in Pids : q # p /\ group[q] = group[p] => state[q] \notin Executing
      BY <1>1, <1>9 DEF Exclusive, Busy
<1>10. ASSUME NEW old \in Groups, NEW new \in Groups, JoinGroup(old, new)
       PROVE  GroupInv'
  <2>1. /\ state' = state /\ finished' = finished \cup {old}
        /\ \A p \in Pids : group'[p] = IF group[p] = old THEN new ELSE group[p]
        /\ UNCHANGED <<current, started, m_processGroupId>>
        BY <1>10 DEF JoinGroup, JoinProcessGroup, runVars
  <2>2. old # new /\ old \notin started /\ old \in 1..m_processGroupId
        BY <1>10 DEF JoinGroup, Prepared
  <2>3. new \notin finished /\ new \in 1..m_processGroupId
    <3>1. CASE new \in Prepared
          BY <3>1 DEF Prepared
    <3>2. CASE \E leader \in Pids : HoldsLink(leader) /\ group[leader] = new
      <4>1. PICK leader \in Pids : state[leader] = "Waiting" /\ group[leader] = new
            BY <3>2 DEF HoldsLink
      <4>2. new \notin finished
            BY <1>1, <4>1 DEF FinishedEmpty, Queued, Executing
      <4>3. new \in started
            BY <1>1, <4>1 DEF BusyStarted, Busy, Executing
      <4> QED
            BY <1>1, <4>2, <4>3 DEF GroupsAllocated
    <3> QED
          BY <1>10, <3>1, <3>2 DEF JoinGroup
  <2>4. \A p \in Pids : Busy(p)' <=> Busy(p)
        BY <2>1 DEF Busy
  <2>5. \A p \in Pids : Busy(p) => group'[p] = group[p]
        BY <1>1, <2>1, <2>2 DEF BusyStarted
  <2>6. Exclusive'
        BY <1>1, <2>4, <2>5 DEF Exclusive
  <2>7. FinishedEmpty'
        BY <1>1, <2>1, <2>2, <2>3 DEF FinishedEmpty
  <2>8. StartedAlive'
        BY <1>1, <2>1, <2>4, <2>5 DEF StartedAlive
  <2>9. BusyStarted'
        BY <1>1, <2>1, <2>4, <2>5 DEF BusyStarted
  <2>10. GroupsAllocated'
    <3>1. started' \cup finished' \subseteq 1..m_processGroupId'
          BY <1>1, <2>1, <2>2 DEF GroupsAllocated
    <3>2. \A p \in Pids : group'[p] <= m_processGroupId'
          BY <1>d, <1>a, <2>1, <2>3
    <3>3. \A p \in Pids : state'[p] \in Queued => group'[p] # 0
          BY <1>d, <1>1, <2>1, <2>3 DEF GroupsAllocated
    <3> QED
          BY <3>1, <3>2, <3>3 DEF GroupsAllocated
  <2> QED
        BY <2>6, <2>7, <2>8, <2>9, <2>10 DEF GroupInv
<1>11. ASSUME NEW p \in Pids, NEW leader \in Pids, JoinProcess(p, leader)
       PROVE  GroupInv'
  <2> DEFINE old == group[p]
             new == group[leader]
  <2>1. /\ p # leader /\ state[p] = "Waiting" /\ state[leader] = "Waiting"
        /\ Busy(p) /\ Busy(leader) /\ current = 0
        BY <1>0, <1>11 DEF JoinProcess, HoldsLink, Busy, Executing
  <2>2. /\ state' = [state EXCEPT ![p] = "Runnable"]
        /\ \A q \in Pids : group'[q] = IF group[q] = old THEN new ELSE group[q]
        /\ finished' = finished \cup {old}
        /\ UNCHANGED <<current, started, m_processGroupId>>
        BY <1>11 DEF JoinProcess, JoinProcessGroup, runVars
  <2>3. /\ old # new
        /\ old \in started /\ new \in started /\ new \notin finished
        /\ old \in 1..m_processGroupId /\ new \in 1..m_processGroupId
    <3>1. old # new
          BY <1>1, <2>1 DEF Exclusive
    <3>2. old \in started /\ new \in started
          BY <1>1, <2>1 DEF BusyStarted
    <3>3. new \notin finished
          BY <1>1, <2>1 DEF FinishedEmpty, Queued, Executing
    <3> QED
          BY <1>1, <3>1, <3>2, <3>3 DEF GroupsAllocated
  <2>4. \A q \in Pids : Busy(q)' <=> q # p /\ Busy(q)
        BY <1>0, <1>d, <2>1, <2>2 DEF Busy, Executing
  <2>5. \A q \in Pids : Busy(q) /\ q # p => group'[q] = group[q]
        BY <1>1, <2>1, <2>2 DEF Exclusive
  <2>6. Exclusive'
        BY <1>1, <2>4, <2>5 DEF Exclusive
  <2>7. FinishedEmpty'
    <3>1. \A q \in Pids : state'[q] \in Queued => state[q] \in Queued
          BY <1>0, <2>1, <2>2 DEF Queued, Executing
    <3> QED
          BY <1>1, <2>2, <2>3, <3>1 DEF FinishedEmpty
  <2>8. StartedAlive'
    <3>1. SUFFICES ASSUME NEW g \in started, g \notin finished, g # old
                   PROVE  \E q \in Pids : group'[q] = g /\ Busy(q)'
          BY <2>2 DEF StartedAlive
    <3>2. PICK q \in Pids : group[q] = g /\ Busy(q)
          BY <1>1, <3>1 DEF StartedAlive
    <3>3. q # p
          BY <3>1, <3>2
    <3> QED
          BY <2>4, <2>5, <3>2, <3>3
  <2>9. BusyStarted'
        BY <1>1, <2>2, <2>4, <2>5 DEF BusyStarted
  <2>10. GroupsAllocated'
    <3>1. started' \cup finished' \subseteq 1..m_processGroupId'
          BY <1>1, <2>2, <2>3 DEF GroupsAllocated
    <3>2. \A q \in Pids : group'[q] <= m_processGroupId'
          BY <1>d, <1>a, <2>2, <2>3
    <3>3. \A q \in Pids : state'[q] \in Queued => state[q] \in Queued
          BY <1>0, <2>1, <2>2 DEF Queued, Executing
    <3>4. \A q \in Pids : state'[q] \in Queued => group'[q] # 0
          BY <1>d, <1>1, <2>2, <2>3, <3>3 DEF GroupsAllocated
    <3> QED
          BY <3>1, <3>2, <3>4 DEF GroupsAllocated
  <2> QED
        BY <2>6, <2>7, <2>8, <2>9, <2>10 DEF GroupInv
<1>12. ASSUME NEW p \in Pids, ContinueProcess(p)
       PROVE  GroupInv'
  <2>1. state' = [state EXCEPT ![p] = "Running"] /\ state[p] = "Waiting" /\ current' = current
        BY <1>12 DEF ContinueProcess, HoldsLink, runVars
  <2>2. \A q \in Pids : /\ Busy(q)' <=> Busy(q)
                        /\ state'[q] \in Queued => state[q] \in Queued
        BY <1>0, <2>1 DEF Busy, Queued, Executing
  <2> QED
        BY <1>2, <1>12, <2>2 DEF ContinueProcess, groupVars
<1>13. ASSUME NEW p \in Pids, NEW handled \in BOOLEAN, ContinueProcessWithFailure(p, handled)
       PROVE  GroupInv'
  <2>0. /\ state[p] = "Waiting" /\ Busy(p) /\ current = 0 /\ current' = 0
        /\ UNCHANGED <<group, m_processGroupId, started>>
        BY <1>0, <1>13 DEF ContinueProcessWithFailure, HoldsLink, Busy, Executing, runVars
  <2>1. CASE handled
    <3>1. state' = [state EXCEPT ![p] = "Running"] /\ finished' = finished
          BY <1>13, <2>1 DEF ContinueProcessWithFailure
    <3>2. \A q \in Pids : /\ Busy(q)' <=> Busy(q)
                          /\ state'[q] \in Queued => state[q] \in Queued
          BY <1>0, <2>0, <3>1 DEF Busy, Queued, Executing
    <3> QED
          BY <1>2, <2>0, <3>1, <3>2
  <2>2. CASE ~handled
    <3> DEFINE st == [state EXCEPT ![p] = "Failed"]
    <3>1. StartProcessGroup(st, group[p])
          BY <1>13, <2>2 DEF ContinueProcessWithFailure
    <3>2. /\ st \in [Pids -> States]
          /\ \A q \in Pids : q # p => st[q] = state[q]
          /\ st[p] = "Failed"
          BY <1>0 DEF States, Finished
    <3> HIDE DEF st
    <3>3. \A q \in Pids : group[q] = group[p] => st[q] \notin Executing
          BY <1>9, <2>0, <3>2 DEF Executing
    <3> QED
          BY <1>8, <2>0, <3>1, <3>2, <3>3
  <2> QED
        BY <2>1, <2>2
<1>14. ASSUME NEW p \in Pids, TerminateProcess(p)
       PROVE  GroupInv'
  <2> DEFINE st == [state EXCEPT ![p] = "Terminated"]
  <2>0. /\ current = 0 /\ current' = 0
        /\ UNCHANGED <<group, m_processGroupId, started>>
        BY <1>0, <1>14 DEF TerminateProcess, runVars
  <2>1. /\ st \in [Pids -> States]
        /\ \A q \in Pids : q # p => st[q] = state[q]
        /\ st[p] = "Terminated"
        BY <1>0 DEF States, Finished
  <2>2. CASE state[p] \in Executing
    <3>1. StartProcessGroup(st, group[p]) /\ Busy(p)
          BY <1>14, <2>2 DEF TerminateProcess, Busy
    <3> HIDE DEF st
    <3>2. \A q \in Pids : group[q] = group[p] => st[q] \notin Executing
          BY <1>9, <2>1, <3>1 DEF Executing
    <3> QED
          BY <1>8, <2>0, <2>1, <3>1, <3>2
  <2>3. CASE state[p] \notin Executing
    <3>1. state' = st /\ finished' = finished
          BY <1>14, <2>3 DEF TerminateProcess
    <3> HIDE DEF st
    <3>2. \A q \in Pids : Busy(q)' <=> Busy(q)
          BY <1>d, <2>0, <2>1, <2>3, <3>1 DEF Busy, Executing
    <3>3. \A q \in Pids : state'[q] \in Queued => state[q] \in Queued
          BY <2>1, <3>1 DEF Queued, Executing
    <3> QED
          BY <1>2, <2>0, <3>1, <3>2, <3>3
  <2> QED
        BY <2>2, <2>3
<1>15. ASSUME NEW leader \in Pids, TerminateProcessGroup(leader)
       PROVE  GroupInv'
  <2> DEFINE st == [p \in Pids |-> IF state[p] # "Absent" /\ group[p] = group[leader]
                                   THEN "Terminated" ELSE state[p]]
  <2>1. /\ current = 0 /\ current' = 0 /\ Busy(leader)
        /\ UNCHANGED <<group, m_processGroupId, started>>
        /\ StartProcessGroup(st, group[leader])
        BY <1>0, <1>15 DEF TerminateProcessGroup, HoldsLink, Busy, Executing, runVars
  <2>2. /\ st \in [Pids -> States]
        /\ \A q \in Pids : group[q] # group[leader] => st[q] = state[q]
        /\ \A q \in Pids : group[q] = group[leader] => st[q] \in {"Absent", "Terminated"}
        BY <1>0 DEF States, Finished
  <2> HIDE DEF st
  <2>3. \A q \in Pids : group[q] = group[leader] => st[q] \notin Executing
        BY <2>2 DEF Executing
  <2> QED
        BY <1>8, <2>1, <2>2, <2>3
<1>16. CASE TerminateAllProcesses
  <2>1. /\ current = 0 /\ current' = 0
        /\ \A p \in Pids : state[p] \notin Executing
        /\ \A p \in Pids : state'[p] \in {state[p], "Terminated"}
        BY <1>0, <1>16 DEF TerminateAllProcesses, runVars
  <2>2. \A p \in Pids : /\ Busy(p)' <=> Busy(p)
                        /\ state'[p] \in Queued => state[p] \in Queued
        BY <1>d, <2>1 DEF Busy, Queued, Executing
  <2> QED
        BY <1>2, <1>16, <2>2 DEF TerminateAllProcesses, groupVars
<1>17. CASE RemoveTerminatedProcess
  <2>1. PICK i \in DOMAIN m_processes :
             /\ state[m_processes[i]] \in Finished
             /\ state' = [state EXCEPT ![m_processes[i]] = "Absent"]
             /\ group' = [group EXCEPT ![m_processes[i]] = 0]
        BY <1>17 DEF RemoveTerminatedProcess
  <2>2. current = 0 /\ UNCHANGED <<current, m_processGroupId, started, finished>>
        BY <1>0, <1>17 DEF RemoveTerminatedProcess, runVars, groupVars
  <2>3. \A p \in Pids : /\ Busy(p)' <=> Busy(p)
                        /\ state'[p] \in Queued => state[p] \in Queued
        BY <1>0, <1>d, <2>1, <2>2 DEF Busy, Queued, Executing, Finished
  <2>4. \A p \in Pids : Busy(p) \/ state[p] \in Queued => group'[p] = group[p]
        BY <1>0, <1>d, <2>1, <2>2 DEF Busy, Queued, Executing, Finished
  <2>5. \A p \in Pids : group'[p] <= m_processGroupId
        BY <1>0, <1>d, <1>a, <2>1
  <2> QED
        BY <2>2, <2>3, <2>4, <2>5, QuietStep
<1>18. ASSUME NEW p \in Pids, Freeze(p) \/ Unfreeze(p)
       PROVE  GroupInv'
  <2>1. /\ state[p] \in {"Suspended", "Frozen"}
        /\ \/ state' = [state EXCEPT ![p] = "Suspended"]
           \/ state' = [state EXCEPT ![p] = "Frozen"]
        /\ UNCHANGED <<group, m_processGroupId, started, finished, current>>
        BY <1>18 DEF Freeze, Unfreeze, runVars, groupVars
  <2>2. \A q \in Pids : /\ Busy(q)' <=> Busy(q)
                        /\ state'[q] \in Queued => state[q] \in Queued
        BY <1>0, <2>1 DEF Busy, Queued, Executing
  <2> QED
        BY <1>2, <2>1, <2>2
<1>19. CASE Run \/ RunEnd
       BY <1>2, <1>19 DEF Run, RunEnd, Busy, groupVars
<1>20. CASE AbortRun
  <2>1. state[current] = "Running" /\ current' = 0 /\ state' = state
        BY <1>20 DEF AbortRun, InProcess
  <2>2. \A p \in Pids : Busy(p)' <=> Busy(p)
        BY <1>d, <2>1 DEF Busy, Executing
  <2> QED
        BY <1>2, <1>20, <2>1, <2>2 DEF AbortRun, groupVars
<1>21. ASSUME NEW p \in Pids, RunProcess(p)
       PROVE  GroupInv'
  <2>1. state[p] = "Running" /\ current = 0 /\ current' = p /\ state' = state
        BY <1>21 DEF RunProcess, IsFirst, RunningPids
  <2>2. \A q \in Pids : Busy(q)' <=> Busy(q)
        BY <1>d, <2>1 DEF Busy, Executing
  <2> QED
        BY <1>2, <1>21, <2>1, <2>2 DEF RunProcess, groupVars
<1>22. ASSUME NEW new \in {"Suspended", "Waiting", "Ended", "Terminated", "Failed"},
              Instruction(new)
       PROVE  GroupInv'
  <2>1. /\ current \in Pids /\ state[current] = "Running" /\ current' = current
        /\ state' = [state EXCEPT ![current] = new]
        BY <1>0, <1>22 DEF Instruction, InProcess, runVars
  <2>2. \A q \in Pids : /\ Busy(q)' <=> Busy(q)
                        /\ state'[q] \in Queued => state[q] \in Queued
        BY <1>0, <2>1 DEF Busy, Queued, Executing
  <2> QED
        BY <1>2, <1>22, <2>2 DEF Instruction, groupVars
<1>23. ~FailInTask
       BY DEF FailInTask
<1>24. CASE HandleState
  <2>1. /\ current \in Pids /\ state[current] # "Running" /\ current' = 0
        /\ UNCHANGED <<group, m_processGroupId, started>>
        BY <1>0, <1>24 DEF HandleState
  <2>2. CASE state[current] = "Waiting"
    <3>1. state' = state /\ finished' = finished
          BY <1>24, <2>2 DEF HandleState
    <3>2. \A q \in Pids : Busy(q)' <=> Busy(q)
          BY <1>d, <2>1, <2>2, <3>1 DEF Busy, Executing
    <3> QED
          BY <1>2, <2>1, <3>1, <3>2
  <2>3. CASE state[current] # "Waiting"
    <3>1. StartProcessGroup(state, group[current]) /\ Busy(current)
          BY <1>24, <2>3 DEF HandleState, Busy
    <3>2. \A q \in Pids : group[q] = group[current] => state[q] \notin Executing
          BY <1>9, <2>1, <2>3, <3>1 DEF Executing
    <3> QED
          BY <1>0, <1>8, <2>1, <3>1, <3>2
  <2> QED
        BY <2>2, <2>3
<1>25. CASE UNCHANGED vars
       BY <1>2, <1>25 DEF vars, runVars, groupVars, Busy
<1> QED
       BY <1>3, <1>4, <1>5, <1>6, <1>7, <1>10, <1>11, <1>12, <1>13, <1>14, <1>15,
          <1>16, <1>17, <1>18, <1>19, <1>20, <1>21, <1>22, <1>23, <1>24, <1>25
       DEF Next, RunLoop, Population, Grouping, Control

THEOREM Invariance == Spec => []IInv
<1>1. Init => IInv
      BY TypeInit, GroupInit DEF IInv
<1>2. ASSUME IInv, [Next]_vars PROVE IInv'
  <2>1. TypeOK' /\ IdsAllocated'
        BY <1>2, TypeStep DEF IInv
  <2>2. ASSUME ~failedInTask' PROVE GroupInv'
        BY <1>2, <2>2, FailureStays, GroupStep DEF IInv
  <2> QED
        BY <2>1, <2>2 DEF IInv
<1> QED
      BY <1>1, <1>2, PTL DEF Spec

(* Of every process group, at most one process executes or waits.          *)
THEOREM MutualExclusion == Spec => []OneActivePerGroup
<1>1. IInv => OneActivePerGroup
      BY DEF IInv, GroupInv, Exclusive, OneActivePerGroup
<1> QED
      BY Invariance, <1>1, PTL

(* sig_processGroupFinish is raised only for groups that are and stay empty. *)
THEOREM SignalNotEarly == Spec => []FinishedGroupEmpty
<1>1. IInv => FinishedGroupEmpty
      BY DEF IInv, GroupInv, FinishedEmpty, FinishedGroupEmpty
<1> QED
      BY Invariance, <1>1, PTL

(* A started group that was not declared finished has a busy process.       *)
THEOREM NoStuckGroup == Spec => []StartedGroupAlive
<1>1. IInv => StartedGroupAlive
      BY DEF IInv, GroupInv, StartedAlive, StartedGroupAlive
<1> QED
      BY Invariance, <1>1, PTL

-----------------------------------------------------------------------------
(***************************************************************************)
(* The list stays sorted although only the process whose priority changes  *)
(* is moved, so that scanning it starts processes in order of priority;    *)
(* and finalizers report processes that are at rest.                       *)
(***************************************************************************)

-----------------------------------------------------------------------------
(* Moving one entry *)

(* Entry n of the list after the move of entry i to k was entry Source(i, k, n). *)
Source(i, k, n) ==
    IF n = k THEN i
    ELSE IF k < n /\ n <= i THEN n - 1
    ELSE IF i <= n /\ n < k THEN n + 1
    ELSE n

(* A list is another one with entry i moved to k. *)
Rearranged(new, list, i, k) ==
    /\ DOMAIN new = DOMAIN list
    /\ \A n \in DOMAIN list : /\ Source(i, k, n) \in DOMAIN list
                              /\ new[n] = list[Source(i, k, n)]
    /\ \A m, n \in DOMAIN list :
          m < n /\ m # k /\ n # k => Source(i, k, m) < Source(i, k, n)
    /\ \A n \in DOMAIN list : n # k => Source(i, k, n) # i
    /\ \A m \in DOMAIN list : \E n \in DOMAIN list : Source(i, k, n) = m

LEMMA MoveIsPermutation ==
    ASSUME NEW list \in Seq(Pids), NEW i \in DOMAIN list, NEW k \in DOMAIN list
    PROVE  Rearranged(Moved(list, i, k), list, i, k)
<1>1. DOMAIN list = 1..Len(list) /\ Len(list) \in Nat
      OBVIOUS
<1>2. DOMAIN Moved(list, i, k) = DOMAIN list
      BY DEF Moved
<1>3. \A n \in DOMAIN list : /\ Source(i, k, n) \in DOMAIN list
                             /\ Moved(list, i, k)[n] = list[Source(i, k, n)]
      BY <1>1 DEF Moved, Source
<1>4. \A m, n \in DOMAIN list : m < n /\ m # k /\ n # k => Source(i, k, m) < Source(i, k, n)
      BY <1>1 DEF Source
<1>5. \A n \in DOMAIN list : n # k => Source(i, k, n) # i
      BY <1>1 DEF Source
<1>6. ASSUME NEW m \in DOMAIN list PROVE \E n \in DOMAIN list : Source(i, k, n) = m
  <2>1. Source(i, k, Source(k, i, m)) = m /\ Source(k, i, m) \in DOMAIN list
        BY <1>1 DEF Source
  <2> QED
        BY <2>1
<1> QED
      BY <1>2, <1>3, <1>4, <1>5, <1>6 DEF Rearranged

(* If only entry i is out of place, then it is in place at its destination. *)
LEMMA DestinationFits ==
    ASSUME NEW len \in Nat, NEW pri \in [1..len -> Int], NEW i \in 1..len, NEW k \in 1..len,
           Destination(pri, len, i, k),
           \A m, n \in 1..len : m < n /\ m # i /\ n # i => pri[m] <= pri[n],
           NEW n \in 1..len
    PROVE  /\ n < k => pri[Source(i, k, n)] <= pri[i]
           /\ n > k => pri[i] <= pri[Source(i, k, n)]
<1>1. CASE i > 1 /\ pri[i-1] > pri[i]
  <2>1. /\ k < i
        /\ \A m \in k..(i-1) : pri[m] > pri[i]
        /\ k > 1 => pri[k-1] <= pri[i]
        BY <1>1 DEF Destination
  <2>2. ASSUME n < k PROVE pri[Source(i, k, n)] <= pri[i]
    <3>1. Source(i, k, n) = n
          BY <2>1, <2>2 DEF Source
    <3>2. k - 1 \in 1..len /\ (n = k - 1 \/ n < k - 1)
          BY <2>2
    <3>3. pri[n] <= pri[k-1]
          BY <3>2, <2>1
    <3> QED
          BY <2>1, <2>2, <3>1, <3>2, <3>3
  <2>3. ASSUME n > k PROVE pri[i] <= pri[Source(i, k, n)]
    <3>1. CASE n <= i
      <4>1. Source(i, k, n) = n - 1 /\ n - 1 \in k..(i-1) /\ n - 1 \in 1..len
            BY <3>1, <2>3 DEF Source
      <4>2. pri[n-1] > pri[i]
            BY <4>1, <2>1
      <4> QED
            BY <4>1, <4>2
    <3>2. CASE n > i
      <4>1. Source(i, k, n) = n /\ i - 1 \in 1..len /\ i - 1 < n
            BY <3>2, <2>1, <1>1 DEF Source
      <4>2. pri[i-1] <= pri[n]
            BY <4>1, <3>2
      <4> QED
            BY <4>1, <4>2, <1>1
    <3> QED
          BY <3>1, <3>2
  <2> QED
        BY <2>2, <2>3
<1>2. CASE ~(i > 1 /\ pri[i-1] > pri[i]) /\ i < len /\ pri[i+1] < pri[i]
  <2>1. /\ k > i
        /\ \A m \in (i+1)..k : pri[m] <= pri[i]
        /\ k < len => pri[k+1] > pri[i]
        BY <1>2 DEF Destination
  <2>2. ASSUME n < k PROVE pri[Source(i, k, n)] <= pri[i]
    <3>1. CASE n < i
      <4>1. Source(i, k, n) = n /\ i + 1 \in 1..len
            BY <3>1, <2>1, <1>2 DEF Source
      <4>2. pri[n] <= pri[i+1]
            BY <4>1, <3>1
      <4> QED
            BY <4>1, <4>2, <1>2
    <3>2. CASE n >= i
      <4>1. Source(i, k, n) = n + 1 /\ n + 1 \in (i+1)..k /\ n + 1 \in 1..len
            BY <3>2, <2>2 DEF Source
      <4>2. pri[n+1] <= pri[i]
            BY <4>1, <2>1
      <4> QED
            BY <4>1, <4>2
    <3> QED
          BY <3>1, <3>2
  <2>3. ASSUME n > k PROVE pri[i] <= pri[Source(i, k, n)]
    <3>1. Source(i, k, n) = n /\ k + 1 \in 1..len /\ (n = k + 1 \/ k + 1 < n)
          BY <2>1, <2>3 DEF Source
    <3>2. pri[k+1] <= pri[n]
          BY <3>1, <2>1
    <3> QED
          BY <2>1, <3>1, <3>2
  <2> QED
        BY <2>2, <2>3
<1>3. CASE ~(i > 1 /\ pri[i-1] > pri[i]) /\ ~(i < len /\ pri[i+1] < pri[i])
  <2>1. k = i /\ Source(i, k, n) = n
        BY <1>3 DEF Destination, Source
  <2>2. ASSUME n < k PROVE pri[n] <= pri[i]
    <3>1. i - 1 \in 1..len /\ pri[i-1] <= pri[i] /\ (n = i - 1 \/ n < i - 1)
          BY <2>1, <2>2, <1>3
    <3>2. pri[n] <= pri[i-1]
          BY <3>1
    <3> QED
          BY <3>1, <3>2
  <2>3. ASSUME n > k PROVE pri[i] <= pri[n]
    <3>1. i + 1 \in 1..len /\ pri[i] <= pri[i+1] /\ (n = i + 1 \/ i + 1 < n)
          BY <2>1, <2>3, <1>3
    <3>2. pri[i+1] <= pri[n]
          BY <3>1
    <3> QED
          BY <3>1, <3>2
  <2> QED
        BY <2>1, <2>2, <2>3
<1> QED
      BY <1>1, <1>2, <1>3

-----------------------------------------------------------------------------
(* The list *)

(* What ListInOrder says of a list and priorities. *)
Ascending(list, prio) ==
    \A m, n \in DOMAIN list : m < n => prio[list[m]] <= prio[list[n]]

Distinct(list) == \A m, n \in DOMAIN list : m < n => list[m] # list[n]

(* Moving p suffices if only p is out of place. *)
LEMMA OneMoveSorts ==
    ASSUME NEW list \in Seq(Pids), NEW prio \in [Pids -> Int], NEW p \in Pids,
           HandlePriorityChange(list, prio, p),
           Distinct(list),
           \A m, n \in DOMAIN list :
              m < n /\ list[m] # p /\ list[n] # p => prio[list[m]] <= prio[list[n]]
    PROVE  /\ Ascending(m_processes', prio)
           /\ Distinct(m_processes')
           /\ Elements(m_processes') = Elements(list)
<1>. DEFINE pri == [n \in DOMAIN list |-> prio[list[n]]]
            len == Len(list)
<1>1. PICK i \in DOMAIN list, k \in DOMAIN list :
         list[i] = p /\ Destination(pri, len, i, k) /\ m_processes' = Moved(list, i, k)
      BY DEF HandlePriorityChange
<1>2. /\ len \in Nat /\ DOMAIN list = 1..len /\ i \in 1..len /\ k \in 1..len
      /\ pri \in [1..len -> Int]
      OBVIOUS
<1>3. \A m, n \in 1..len : m < n /\ m # i /\ n # i => pri[m] <= pri[n]
  <2>1. \A m \in DOMAIN list : m # i => list[m] # p
        BY <1>1, <1>2 DEF Distinct
  <2>2. \A m, n \in DOMAIN list :
           m < n /\ m # i /\ n # i => prio[list[m]] <= prio[list[n]]
        BY <2>1
  <2> QED
        BY <1>2, <2>2
<1>. DEFINE src(n) == Source(i, k, n)
<1>4. /\ DOMAIN m_processes' = 1..len
      /\ \A n \in 1..len : src(n) \in 1..len /\ m_processes'[n] = list[src(n)]
      /\ \A m, n \in 1..len : m < n /\ m # k /\ n # k => src(m) < src(n)
      /\ \A n \in 1..len : n # k => src(n) # i
      /\ \A m \in 1..len : \E n \in 1..len : src(n) = m
  <2>. HIDE DEF pri, len
  <2>1. /\ DOMAIN m_processes' = DOMAIN list
        /\ \A n \in DOMAIN list : /\ Source(i, k, n) \in DOMAIN list
                                  /\ m_processes'[n] = list[Source(i, k, n)]
        /\ \A m, n \in DOMAIN list :
              m < n /\ m # k /\ n # k => Source(i, k, m) < Source(i, k, n)
        /\ \A n \in DOMAIN list : n # k => Source(i, k, n) # i
        /\ \A m \in DOMAIN list : \E n \in DOMAIN list : Source(i, k, n) = m
    <3>1. Rearranged(Moved(list, i, k), list, i, k)
          BY MoveIsPermutation
    <3> QED
          BY <1>1, <3>1 DEF Rearranged
  <2>2. DOMAIN list = 1..len
        BY <1>2, Zenon
  <2> QED
        BY <2>1, <2>2, Zenon
<1>5. \A n \in 1..len : /\ n < k => pri[src(n)] <= pri[i]
                        /\ n > k => pri[i] <= pri[src(n)]
  <2>. HIDE DEF pri, len
  <2> QED
      BY <1>1, <1>2, <1>3, DestinationFits
<1>6. src(k) = i
      BY DEF Source
<1>. HIDE DEF src
<1>7. \A n \in 1..len : prio[m_processes'[n]] = pri[src(n)]
      BY <1>2, <1>4
<1>8. Ascending(m_processes', prio)
  <2>. HIDE DEF pri, len
  <2>1. ASSUME NEW m \in 1..len, NEW n \in 1..len, m < n
        PROVE  prio[m_processes'[m]] <= prio[m_processes'[n]]
    <3>1. CASE m # k /\ n # k
      <4>1. /\ src(m) \in 1..len /\ src(n) \in 1..len
            /\ src(m) < src(n) /\ src(m) # i /\ src(n) # i
            BY <1>4, <2>1, <3>1
      <4>2. pri[src(m)] <= pri[src(n)]
            BY <1>3, <4>1
      <4> QED
            BY <1>7, <4>2
    <3>2. CASE m = k
          BY <1>2, <1>5, <1>6, <1>7, <2>1, <3>2
    <3>3. CASE n = k
          BY <1>2, <1>5, <1>6, <1>7, <2>1, <3>3
    <3> QED
          BY <3>1, <3>2, <3>3
  <2> QED
        BY <1>4, <2>1 DEF Ascending
<1>9. Distinct(m_processes')
  <2>1. \A m, n \in 1..len : m < n => src(m) # src(n)
    <3>. HIDE DEF pri, len
    <3>1. ASSUME NEW m \in 1..len, NEW n \in 1..len, m < n PROVE src(m) # src(n)
      <4>1. CASE m # k /\ n # k
        <5>1. src(m) < src(n) /\ src(m) \in Int /\ src(n) \in Int
              BY <1>2, <1>4, <3>1, <4>1
        <5> QED
              BY <5>1
      <4>2. CASE m = k
            BY <1>4, <1>6, <3>1, <4>2
      <4>3. CASE n = k
            BY <1>4, <1>6, <3>1, <4>3
      <4> QED
            BY <4>1, <4>2, <4>3
    <3> QED
        BY <3>1
  <2>2. ASSUME NEW m \in 1..len, NEW n \in 1..len, m # n PROVE list[m] # list[n]
    <3>. HIDE DEF pri, len
    <3>1. \A x, y \in 1..len : x < y => list[x] # list[y]
          BY <1>2, Zenon DEF Distinct
    <3>2. m < n \/ n < m
          BY <1>2, <2>2
    <3> QED
          BY <3>1, <3>2
  <2>3. ASSUME NEW m \in 1..len, NEW n \in 1..len, m < n
        PROVE  m_processes'[m] # m_processes'[n]
    <3>. HIDE DEF pri, len
    <3>1. /\ src(m) \in 1..len /\ src(n) \in 1..len /\ src(m) # src(n)
          /\ m_processes'[m] = list[src(m)] /\ m_processes'[n] = list[src(n)]
          BY <1>4, <2>1, <2>3
    <3> QED
          BY <2>2, <3>1
  <2> QED
        BY <1>4, <2>3, Zenon DEF Distinct
<1>10. Elements(m_processes') = Elements(list)
  <2>. HIDE DEF pri, len
  <2>1. \A n \in 1..len : m_processes'[n] \in Elements(list)
        BY <1>2, <1>4 DEF Elements
  <2>2. \A m \in 1..len : list[m] \in Elements(m_processes')
        BY <1>2, <1>4 DEF Elements
  <2>3. Elements(m_processes') \subseteq Elements(list)
        BY <1>4, <2>1 DEF Elements
  <2>4. Elements(list) \subseteq Elements(m_processes')
        BY <1>2, <2>2, Zenon DEF Elements
  <2> QED
        BY <2>3, <2>4
<1> QED
      BY <1>8, <1>9, <1>10

(* Removing an entry keeps the order of the others. *)
LEMMA RemovalKeepsOrder ==
    ASSUME NEW list \in Seq(Pids), NEW i \in DOMAIN list, NEW prio,
           Ascending(list, prio), Distinct(list)
    PROVE  /\ Ascending(Without(list, i), prio)
           /\ Distinct(Without(list, i))
           /\ Elements(Without(list, i)) = Elements(list) \ {list[i]}
<1>. DEFINE rest == Without(list, i)
            src(n) == IF n < i THEN n ELSE n + 1
            len == Len(list)
<1>1. len \in Nat /\ DOMAIN list = 1..len /\ DOMAIN rest = 1..(len - 1)
      BY DEF Without
<1>2. \A n \in 1..(len - 1) : src(n) \in 1..len /\ src(n) # i /\ rest[n] = list[src(n)]
      BY <1>1 DEF Without
<1>3. \A m, n \in 1..(len - 1) : m < n => src(m) < src(n)
      BY <1>1
<1>4. \A m \in 1..len : m # i => \E n \in 1..(len - 1) : src(n) = m
  <2>1. ASSUME NEW m \in 1..len, m # i PROVE \E n \in 1..(len - 1) : src(n) = m
    <3>1. CASE m < i
          BY <1>1, <3>1, <2>1
    <3>2. CASE m > i
      <4>1. m - 1 \in 1..(len - 1) /\ src(m - 1) = m
            BY <1>1, <3>2
      <4> QED
            BY <4>1
    <3> QED
          BY <1>1, <2>1, <3>1, <3>2
  <2> QED
        BY <2>1
<1>. HIDE DEF rest, src, len
<1>5. Ascending(rest, prio)
      BY <1>1, <1>2, <1>3 DEF Ascending
<1>6. Distinct(rest)
      BY <1>1, <1>2, <1>3 DEF Distinct
<1>7. \A m, n \in 1..len : m # n => list[m] # list[n]
      BY <1>1 DEF Distinct
<1>8. Elements(rest) = Elements(list) \ {list[i]}
  <2>1. \A n \in 1..(len - 1) : rest[n] \in Elements(list) \ {list[i]}
        BY <1>1, <1>2, <1>7 DEF Elements
  <2>2. \A m \in 1..len : m # i => list[m] \in Elements(rest)
        BY <1>1, <1>2, <1>4 DEF Elements
  <2> QED
        BY <1>1, <2>1, <2>2 DEF Elements
<1> QED
      BY <1>5, <1>6, <1>8 DEF rest

-----------------------------------------------------------------------------
(* Steps *)

(* startProcessGroup() is called in states st that start no process. *)
Starts(st, g) ==
    /\ StartProcessGroup(st, g)
    /\ group' = group
    /\ \A p \in Pids : /\ state[p] = "Runnable" => st[p] # "Running"
                       /\ st[p] = "Absent" <=> state[p] = "Absent"

(* Nothing is started and nothing reported. *)
StartsNothing ==
    /\ m_finalizer' = m_finalizer
    /\ \A p \in Pids : /\ ~(state[p] = "Runnable" /\ state'[p] = "Running")
                       /\ state'[p] = "Absent" <=> state[p] = "Absent"

(* The list and the priorities are the same. *)
KeepsList ==
    /\ UNCHANGED <<m_processes, priority>>
    /\ \/ \E st \in [Pids -> States], g \in 0..MaxGroups : Starts(st, g)
       \/ StartsNothing

LEMMA RunLoopKeepsList ==
    ASSUME TypeOK, RunLoop
    PROVE  KeepsList
<1>0. /\ state \in [Pids -> States] /\ group \in [Pids -> 0..MaxGroups]
      /\ (current # 0 => current \in Pids /\ m_running /\ state[current] # "Absent")
      BY DEF TypeOK
<1>1. CASE Run
      BY <1>1 DEF Run, KeepsList, StartsNothing, listVars
<1>2. ASSUME NEW p \in Pids, RunProcess(p) PROVE KeepsList
      BY <1>2 DEF RunProcess, KeepsList, StartsNothing, listVars
<1>3. ASSUME NEW new \in {"Suspended", "Waiting", "Ended", "Terminated", "Failed"},
             Instruction(new)
      PROVE  KeepsList
      BY <1>0, <1>3 DEF Instruction, InProcess, KeepsList, StartsNothing, listVars
<1>4. CASE FailInTask
  <2>. DEFINE st == [state EXCEPT ![current] = "Failed"]
  <2>1. /\ current \in Pids /\ st \in [Pids -> States] /\ group[current] \in 0..MaxGroups
        BY <1>0, <1>4 DEF FailInTask, InProcess, States, Finished
  <2>2. Starts(st, group[current])
        BY <1>0, <1>4, <2>1 DEF FailInTask, InProcess, Starts
  <2> QED
        BY <1>4, <2>1, <2>2 DEF FailInTask, KeepsList, listVars
<1>5. CASE HandleState /\ state[current] = "Waiting"
      BY <1>5 DEF HandleState, KeepsList, StartsNothing, listVars
<1>6. CASE HandleState /\ state[current] # "Waiting"
  <2>1. Starts(state, group[current])
        BY <1>6 DEF HandleState, Starts
  <2> QED
        BY <1>0, <1>6, <2>1 DEF HandleState, KeepsList, listVars
<1>7. CASE RunEnd
      BY <1>7 DEF RunEnd, KeepsList, StartsNothing, listVars
<1>8. CASE AbortRun
      BY <1>8 DEF AbortRun, KeepsList, StartsNothing, listVars
<1> QED
      BY <1>1, <1>2, <1>3, <1>4, <1>5, <1>6, <1>7, <1>8 DEF RunLoop

LEMMA GroupingKeepsList ==
    ASSUME TypeOK, Grouping
    PROVE  KeepsList
<1>0. state \in [Pids -> States] /\ Groups \subseteq 0..MaxGroups
      BY BoundAssumption DEF TypeOK, Groups
<1>1. ASSUME NEW S \in SUBSET Pids, PrepareGroup(S) PROVE KeepsList
      BY <1>0, <1>1 DEF PrepareGroup, KeepsList, StartsNothing, listVars
<1>2. CASE PrepareGroupOfSuspended
      BY <1>1, <1>2 DEF PrepareGroupOfSuspended
<1>3. ASSUME NEW g \in Groups, StartGroup(g) PROVE KeepsList
  <2>1. Starts(state, g)
        BY <1>3 DEF StartGroup, Starts
  <2> QED
        BY <1>0, <1>3, <2>1 DEF StartGroup, KeepsList, listVars
<1>4. ASSUME NEW g \in Groups, NEW h \in Groups, JoinGroup(g, h) PROVE KeepsList
      BY <1>4 DEF JoinGroup, JoinProcessGroup, KeepsList, StartsNothing, listVars
<1> QED
      BY <1>1, <1>2, <1>3, <1>4 DEF Grouping

LEMMA ControlKeepsList ==
    ASSUME TypeOK, Control
    PROVE  KeepsList
<1>0. state \in [Pids -> States] /\ group \in [Pids -> 0..MaxGroups]
      BY DEF TypeOK
<1>1. ASSUME NEW p \in Pids, NEW leader \in Pids, JoinProcess(p, leader) PROVE KeepsList
      BY <1>0, <1>1
      DEF JoinProcess, JoinProcessGroup, HoldsLink, KeepsList, StartsNothing, listVars
<1>2. ASSUME NEW p \in Pids, ContinueProcess(p) PROVE KeepsList
      BY <1>0, <1>2 DEF ContinueProcess, HoldsLink, KeepsList, StartsNothing, listVars
<1>3. ASSUME NEW p \in Pids, ContinueProcessWithFailure(p, TRUE) PROVE KeepsList
      BY <1>0, <1>3
      DEF ContinueProcessWithFailure, HoldsLink, KeepsList, StartsNothing, listVars
<1>4. ASSUME NEW p \in Pids, NEW new \in {"Failed", "Terminated"},
             state[p] # "Absent", UNCHANGED <<listVars, group>>,
             StartProcessGroup([state EXCEPT ![p] = new], group[p])
      PROVE  KeepsList
  <2>. DEFINE st == [state EXCEPT ![p] = new]
  <2>1. st \in [Pids -> States] /\ group[p] \in 0..MaxGroups
        BY <1>0 DEF States, Finished
  <2>2. Starts(st, group[p])
        BY <1>0, <1>4 DEF Starts
  <2> QED
        BY <1>4, <2>1, <2>2 DEF KeepsList, listVars
<1>5. ASSUME NEW p \in Pids, ContinueProcessWithFailure(p, FALSE) PROVE KeepsList
      BY <1>4, <1>5 DEF ContinueProcessWithFailure, HoldsLink
<1>6. ASSUME NEW p \in Pids, TerminateProcess(p), state[p] \in Executing PROVE KeepsList
      BY <1>4, <1>6 DEF TerminateProcess, Executing
<1>7. ASSUME NEW p \in Pids, TerminateProcess(p), state[p] \notin Executing PROVE KeepsList
      BY <1>0, <1>7 DEF TerminateProcess, KeepsList, StartsNothing, listVars
<1>8. ASSUME NEW p \in Pids, TerminateProcessGroup(p) PROVE KeepsList
  <2>. DEFINE st == [q \in Pids |-> IF state[q] # "Absent" /\ group[q] = group[p]
                                    THEN "Terminated" ELSE state[q]]
  <2>1. st \in [Pids -> States] /\ group[p] \in 0..MaxGroups
        BY <1>0 DEF States, Finished
  <2>2. Starts(st, group[p])
        BY <1>0, <1>8 DEF TerminateProcessGroup, Starts
  <2> QED
        BY <1>8, <2>1, <2>2 DEF TerminateProcessGroup, KeepsList, listVars
<1> QED
      BY <1>1, <1>2, <1>3, <1>5, <1>6, <1>7, <1>8 DEF Control

LEMMA StepKinds ==
    ASSUME TypeOK, [Next]_vars
    PROVE  \/ Create
           \/ \E p \in Pids, pri \in Priorities : SetPriority(p, pri)
           \/ RemoveTerminatedProcess
           \/ KeepsList
<1>0. state \in [Pids -> States]
      BY DEF TypeOK
<1>1. ASSUME NEW p \in Pids, Freeze(p) \/ Unfreeze(p) PROVE KeepsList
      BY <1>0, <1>1 DEF Freeze, Unfreeze, KeepsList, StartsNothing, listVars
<1>2. CASE TerminateAllProcesses
      BY <1>0, <1>2 DEF TerminateAllProcesses, KeepsList, StartsNothing, listVars
<1>3. CASE UNCHANGED vars
      BY <1>3 DEF vars, KeepsList, StartsNothing, listVars
<1> QED
      BY <1>1, <1>2, <1>3, RunLoopKeepsList, GroupingKeepsList, ControlKeepsList
      DEF Next, Population

-----------------------------------------------------------------------------
(* The list is in order *)

LEMMA InOrder ==
    ListInOrder <=> /\ Ascending(m_processes, priority)
                    /\ Distinct(m_processes)
                    /\ Elements(m_processes) = {p \in Pids : state[p] # "Absent"}
BY DEF ListInOrder, Ascending, Distinct

LEMMA ListInit == Init => ListInOrder
<1>1. ASSUME Init PROVE ListInOrder
  <2>1. m_processes = <<>> /\ \A p \in Pids : state[p] = "Absent"
        BY <1>1 DEF Init
  <2>2. DOMAIN m_processes = {}
        BY <2>1
  <2> QED
        BY <2>1, <2>2, Zenon DEF ListInOrder, Elements
<1> QED
      BY <1>1

LEMMA ListStep ==
    ASSUME TypeOK, IdsAllocated, ListInOrder, [Next]_vars
    PROVE  ListInOrder'
<1>0. /\ m_processes \in Seq(Pids)
      /\ state \in [Pids -> States]
      /\ priority \in [Pids -> Int]
      /\ m_processId \in 0..MaxProcesses /\ MaxProcesses \in Nat
      BY BoundAssumption, PriorityAssumption DEF TypeOK
<1>1. /\ Ascending(m_processes, priority)
      /\ Distinct(m_processes)
      /\ Elements(m_processes) = {p \in Pids : state[p] # "Absent"}
      BY InOrder
<1>2. SUFFICES /\ Ascending(m_processes', priority')
               /\ Distinct(m_processes')
               /\ Elements(m_processes') = {p \in Pids : state'[p] # "Absent"}
      BY DEF ListInOrder, Ascending, Distinct
<1>3. CASE Create
  <2>. DEFINE new == m_processId + 1
              list == Append(m_processes, new)
  <2>1. /\ new \in Pids /\ state[new] = "Absent"
        /\ state' = [state EXCEPT ![new] = "Suspended"] /\ priority' = priority
        /\ HandlePriorityChange(list, priority, new)
        BY <1>0, <1>3 DEF Create, IdsAllocated, Pids
  <2>2. /\ list \in Seq(Pids) /\ Len(list) = Len(m_processes) + 1
        /\ \A n \in 1..Len(m_processes) : list[n] = m_processes[n]
        /\ list[Len(list)] = new
        /\ DOMAIN list = 1..Len(list) /\ DOMAIN m_processes = 1..Len(m_processes)
        /\ Len(m_processes) \in Nat
        BY <1>0, <2>1
  <2>. HIDE DEF list, new
  <2>3. \A n \in 1..Len(m_processes) : m_processes[n] # new
    <3>1. new \notin Elements(m_processes)
          BY <1>1, <2>1
    <3> QED
          BY <2>2, <3>1 DEF Elements
  <2>4. Distinct(list)
    <3>1. ASSUME NEW m \in DOMAIN list, NEW n \in DOMAIN list, m < n
          PROVE  list[m] # list[n]
      <4>1. CASE n \in 1..Len(m_processes)
            BY <1>1, <2>2, <3>1, <4>1 DEF Distinct
      <4>2. CASE n = Len(list)
            BY <2>2, <2>3, <3>1, <4>2
      <4> QED
            BY <2>2, <4>1, <4>2
    <3> QED
          BY <3>1 DEF Distinct
  <2>5. ASSUME NEW m \in DOMAIN list, NEW n \in DOMAIN list,
               m < n, list[m] # new, list[n] # new
        PROVE  priority[list[m]] <= priority[list[n]]
    <3>1. m \in 1..Len(m_processes) /\ n \in 1..Len(m_processes)
          BY <2>2, <2>5
    <3> QED
          BY <1>1, <2>2, <2>5, <3>1 DEF Ascending
  <2>6. Elements(list) = Elements(m_processes) \cup {new}
    <3>1. \A n \in DOMAIN list : list[n] \in Elements(m_processes) \cup {new}
          BY <2>2 DEF Elements
    <3>2. \A n \in DOMAIN m_processes : m_processes[n] \in Elements(list)
          BY <2>2 DEF Elements
    <3>3. new \in Elements(list)
          BY <2>2 DEF Elements
    <3>4. Elements(list) \subseteq Elements(m_processes) \cup {new}
          BY <3>1, Zenon DEF Elements
    <3>5. Elements(m_processes) \subseteq Elements(list)
          BY <3>2, Zenon DEF Elements
    <3> QED
          BY <3>3, <3>4, <3>5
  <2>7. /\ Ascending(m_processes', priority)
        /\ Distinct(m_processes')
        /\ Elements(m_processes') = Elements(list)
        BY <1>0, <2>1, <2>2, <2>4, <2>5, OneMoveSorts
  <2>8. {p \in Pids : state'[p] # "Absent"} = {p \in Pids : state[p] # "Absent"} \cup {new}
        BY <1>0, <2>1
  <2> QED
        BY <1>1, <2>1, <2>6, <2>7, <2>8
<1>4. ASSUME NEW p \in Pids, NEW pri \in Priorities, SetPriority(p, pri)
      PROVE  /\ Ascending(m_processes', priority')
             /\ Distinct(m_processes')
             /\ Elements(m_processes') = {q \in Pids : state'[q] # "Absent"}
  <2>1. /\ priority' = [priority EXCEPT ![p] = pri] /\ state' = state
        /\ HandlePriorityChange(m_processes, priority', p)
        BY <1>4 DEF SetPriority
  <2>2. priority' \in [Pids -> Int]
        BY <1>0, <2>1, PriorityAssumption
  <2>3. \A m, n \in DOMAIN m_processes :
           m < n /\ m_processes[m] # p /\ m_processes[n] # p
           => priority'[m_processes[m]] <= priority'[m_processes[n]]
        BY <1>0, <1>1, <2>1 DEF Ascending
  <2> QED
        BY <1>0, <1>1, <2>1, <2>2, <2>3, OneMoveSorts
<1>5. CASE RemoveTerminatedProcess
  <2>1. PICK i \in DOMAIN m_processes :
           /\ state' = [state EXCEPT ![m_processes[i]] = "Absent"]
           /\ priority' = [priority EXCEPT ![m_processes[i]] = DefaultPriority]
           /\ m_processes' = Without(m_processes, i)
        BY <1>5 DEF RemoveTerminatedProcess
  <2>. DEFINE gone == m_processes[i]
  <2>2. gone \in Pids
        BY <1>0
  <2>3. /\ Ascending(m_processes', priority)
        /\ Distinct(m_processes')
        /\ Elements(m_processes') = Elements(m_processes) \ {gone}
        BY <1>0, <1>1, <2>1, RemovalKeepsOrder
  <2>4. \A n \in DOMAIN m_processes' : m_processes'[n] \in Pids /\ m_processes'[n] # gone
        BY <1>0, <1>1, <2>3 DEF Elements
  <2>. HIDE DEF gone
  <2>5. Ascending(m_processes', priority')
        BY <1>0, <2>1, <2>3, <2>4 DEF Ascending, gone
  <2>6. {p \in Pids : state'[p] # "Absent"} = {p \in Pids : state[p] # "Absent"} \ {gone}
        BY <1>0, <2>1, <2>2 DEF gone
  <2> QED
        BY <1>1, <2>3, <2>5, <2>6
<1>6. CASE KeepsList
  <2>1. m_processes' = m_processes /\ priority' = priority
        BY <1>6 DEF KeepsList
  <2>2. \A p \in Pids : state'[p] = "Absent" <=> state[p] = "Absent"
    <3>1. CASE StartsNothing
          BY <3>1 DEF StartsNothing
    <3>2. ASSUME NEW st \in [Pids -> States], NEW g \in 0..MaxGroups, Starts(st, g)
          PROVE  \A p \in Pids : state'[p] = "Absent" <=> state[p] = "Absent"
          BY <3>2 DEF Starts, StartProcessGroup, RunnableIn
    <3> QED
          BY <1>6, <3>1, <3>2 DEF KeepsList
  <2> QED
        BY <1>1, <2>1, <2>2
<1> QED
      BY <1>3, <1>4, <1>5, <1>6, StepKinds

(* However processes are created, change priority and are removed, also   *)
(* from within run(), the list is sorted and complete.                     *)
THEOREM Order == Spec => []ListInOrder
<1>1. Init => TypeOK /\ IdsAllocated /\ ListInOrder
      BY TypeInit, ListInit
<1>2. TypeOK /\ IdsAllocated /\ ListInOrder /\ [Next]_vars
      => (TypeOK /\ IdsAllocated /\ ListInOrder)'
      BY TypeStep, ListStep
<1> QED
      BY <1>1, <1>2, PTL DEF Spec

-----------------------------------------------------------------------------
(* Starting and finishing *)

(* Scanning a list that is in order, startProcessGroup() starts a process   *)
(* of the smallest priority value.                                         *)
THEOREM PriorityOrder == Spec => StartsInPriorityOrder
<1>1. ASSUME TypeOK, IdsAllocated, ListInOrder, [Next]_vars,
             NEW p \in Pids, NEW q \in Pids,
             state[p] = "Runnable", state'[p] = "Running",
             state'[q] = "Runnable", group'[q] = group'[p]
      PROVE  priority[p] <= priority[q]
  <2>0. state \in [Pids -> States] /\ m_processes \in Seq(Pids) /\ priority \in [Pids -> Int]
        BY <1>1, PriorityAssumption DEF TypeOK
  <2>1. ASSUME NEW st \in [Pids -> States], NEW g \in 0..MaxGroups, Starts(st, g)
        PROVE  priority[p] <= priority[q]
    <3>1. /\ st[p] # "Running" /\ group' = group
          /\ st[q] = "Absent" <=> state[q] = "Absent"
          BY <1>1, <2>1 DEF Starts
    <3>2. PICK r \in RunnableIn(st, g) :
             IsFirst(m_processes, r, RunnableIn(st, g)) /\ state' = [st EXCEPT ![r] = "Running"]
          BY <1>1, <2>1, <3>1 DEF Starts, StartProcessGroup
    <3>3. r = p /\ q # p
          BY <1>1, <2>1, <3>1, <3>2 DEF RunnableIn
    <3>4. q \in RunnableIn(st, g)
          BY <1>1, <2>1, <3>1, <3>2, <3>3 DEF RunnableIn
    <3>5. q \in Elements(m_processes)
          BY <1>1, <3>1, <3>4 DEF RunnableIn, ListInOrder
    <3>6. PICK j \in DOMAIN m_processes : m_processes[j] = q
          BY <3>5 DEF Elements
    <3>7. PICK i \in DOMAIN m_processes :
             m_processes[i] = p /\ \A k \in 1..(i-1) : m_processes[k] \notin RunnableIn(st, g)
          BY <3>2, <3>3 DEF IsFirst
    <3>8. i < j
          BY <2>0, <3>3, <3>4, <3>6, <3>7
    <3> QED
          BY <1>1, <3>6, <3>7, <3>8 DEF ListInOrder
  <2>2. CASE StartsNothing
        BY <1>1, <2>2 DEF StartsNothing
  <2>3. CASE Create
    <3>1. m_processId + 1 \in Pids /\ state' = [state EXCEPT ![m_processId + 1] = "Suspended"]
          BY <1>1, <2>3, BoundAssumption DEF Create, TypeOK, Pids
    <3> QED
          BY <1>1, <2>0, <3>1
  <2>4. ASSUME NEW r \in Pids, NEW pri \in Priorities, SetPriority(r, pri)
        PROVE  priority[p] <= priority[q]
        BY <1>1, <2>4 DEF SetPriority
  <2>5. CASE RemoveTerminatedProcess
        BY <1>1, <2>0, <2>5 DEF RemoveTerminatedProcess
  <2> QED
        BY <1>1, <2>1, <2>2, <2>3, <2>4, <2>5, StepKinds DEF KeepsList
<1>2. TypeOK /\ IdsAllocated /\ ListInOrder /\ [Next]_vars
      => [\A p, q \in Pids :
            /\ state[p] = "Runnable" /\ state'[p] = "Running"
            /\ state'[q] = "Runnable" /\ group'[q] = group'[p]
            => priority[p] <= priority[q]]_vars
      BY <1>1
<1>3. Spec => [](TypeOK /\ IdsAllocated /\ ListInOrder)
  <2>1. Init => TypeOK /\ IdsAllocated /\ ListInOrder
        BY TypeInit, ListInit
  <2>2. TypeOK /\ IdsAllocated /\ ListInOrder /\ [Next]_vars
        => (TypeOK /\ IdsAllocated /\ ListInOrder)'
        BY TypeStep, ListStep
  <2> QED
        BY <2>1, <2>2, PTL DEF Spec
<1> QED
      BY <1>2, <1>3, PTL DEF Spec, StartsInPriorityOrder

(* Finalizers report processes that ended or suspended: they are called    *)
(* for a group that is declared finished, which has no busy process.       *)
THEOREM FinalizersLast == Spec => FinalizedAtRest
<1>1. ASSUME IInv, IInv', [Next]_vars, ~failedInTask', NEW p \in Pids,
             m_finalizer'[p] = "called", m_finalizer[p] = "set"
      PROVE  state'[p] \notin Queued
  <2>0. /\ m_finalizer \in [Pids -> {"none", "set", "called"}]
        /\ TypeOK /\ IdsAllocated
        BY <1>1 DEF IInv, TypeOK
  <2>1. FinishedEmpty'
        BY <1>1 DEF IInv, GroupInv
  <2>2. ASSUME NEW st \in [Pids -> States], NEW g \in 0..MaxGroups, Starts(st, g)
        PROVE  state'[p] \notin Queued
    <3>1. /\ m_finalizer' = [q \in Pids |-> IF group[q] = g /\ m_finalizer[q] = "set"
                                            THEN "called" ELSE m_finalizer[q]]
          /\ finished' = finished \cup {g}
          /\ group' = group
          BY <1>1, <2>2 DEF Starts, StartProcessGroup
    <3>2. group'[p] \in finished'
          BY <1>1, <3>1
    <3> QED
          BY <2>1, <3>2 DEF FinishedEmpty
  <2>3. CASE StartsNothing
        BY <1>1, <2>3 DEF StartsNothing
  <2>4. CASE Create
    <3>1. /\ m_processId + 1 \in Pids
          /\ m_finalizer' = [m_finalizer EXCEPT ![m_processId + 1] =
                                IF m_processId + 1 \in Observed THEN "set" ELSE "none"]
          BY <2>0, <2>4, BoundAssumption DEF Create, TypeOK, Pids
    <3> QED
          BY <1>1, <2>0, <3>1
  <2>5. ASSUME NEW r \in Pids, NEW pri \in Priorities, SetPriority(r, pri)
        PROVE  state'[p] \notin Queued
        BY <1>1, <2>5 DEF SetPriority
  <2>6. CASE RemoveTerminatedProcess
        BY <1>1, <2>0, <2>6 DEF RemoveTerminatedProcess
  <2> QED
        BY <1>1, <2>0, <2>2, <2>3, <2>4, <2>5, <2>6, StepKinds DEF KeepsList
<1>2. IInv /\ IInv' /\ [Next]_vars
      => [~failedInTask' =>
            \A p \in Pids : m_finalizer'[p] = "called" /\ m_finalizer[p] = "set"
                             => state'[p] \notin Queued]_vars
      BY <1>1
<1> QED
      BY <1>2, Invariance, PTL DEF Spec, FinalizedAtRest

----------------------------------------------------------------------------
(* RequestThread.                                                          *)

(* Which local state goes with which program counter. *)
Flow ==
    /\ worker \in {"run", "destroy"} <=> tasks # <<>>
    /\ m_stop = (dtor # "alive")
    /\ dtor \in {"drain", "gone"} => worker = "done"
    /\ leftover # <<>> => dtor = "drain"

(* The executed tasks are the oldest ones. *)
RanFirst ==
    /\ Len(ran) <= Len(posted)
    /\ \A i \in 1..Len(ran) : ran[i] = posted[i]

(* The executed task that the worker has not deleted yet. *)
RanMatches ==
    worker # "done" => ran = IF worker = "destroy"
                               THEN Append(destroyed, Head(tasks))
                               ELSE destroyed

(* The inductive invariant. *)
ThreadInv ==
    /\ ThreadTypeOK
    /\ Flow
    /\ WakeupAccounting
    /\ Fifo
    /\ RanFirst
    /\ RanMatches

(* Taking the oldest element of a queue that follows d. *)
LEMMA MoveHead ==
    ASSUME NEW d \in Seq(Tasks), NEW q \in Seq(Tasks), NEW r \in Seq(Tasks), q # <<>>
    PROVE  /\ Head(q) \in Tasks
           /\ Tail(q) \in Seq(Tasks)
           /\ Append(d, Head(q)) \in Seq(Tasks)
           /\ Append(d, Head(q)) \o Tail(q) \o r = d \o q \o r
           /\ Len(d \o q \o r) > Len(d)
           /\ (d \o q \o r)[Len(d) + 1] = Head(q)
  <1>1. /\ Len(q) \in Nat \ {0}
        /\ Len(d) \in Nat
        /\ Len(r) \in Nat
    OBVIOUS
  <1>2. Head(q) = q[1] /\ Head(q) \in Tasks
    BY <1>1
  <1>3. Tail(q) \in Seq(Tasks) /\ Len(Tail(q)) = Len(q) - 1
    BY <1>1
  <1>4. Append(d, Head(q)) \in Seq(Tasks)
    BY <1>2
  <1>5. Append(d, Head(q)) \o Tail(q) \o r = d \o q \o r
    <2> DEFINE lhs == Append(d, Head(q)) \o Tail(q) \o r
    <2> DEFINE rhs == d \o q \o r
    <2>1. lhs \in Seq(Tasks) /\ rhs \in Seq(Tasks)
      BY <1>3, <1>4
    <2>2. Len(lhs) = Len(rhs)
      BY <1>1, <1>2, <1>3, <1>4
    <2>3. ASSUME NEW i \in 1..Len(lhs) PROVE lhs[i] = rhs[i]
      BY <1>1, <1>2, <1>3, <1>4
    <2> QED
      BY <2>1, <2>2, <2>3, SeqEqual
  <1>6. Len(d \o q \o r) > Len(d) /\ (d \o q \o r)[Len(d) + 1] = q[1]
    BY <1>1
  <1> QED
    BY <1>2, <1>3, <1>4, <1>5, <1>6

(* Appending to a concatenation appends to its last part. *)
LEMMA AppendLast ==
    ASSUME NEW d \in Seq(Tasks), NEW q \in Seq(Tasks), NEW t \in Tasks
    PROVE  d \o Append(q, t) = Append(d \o q, t)
  <1>1. /\ d \o Append(q, t) \in Seq(Tasks)
        /\ Append(d \o q, t) \in Seq(Tasks)
    BY AppendProperties, ConcatProperties
  <1>2. Append(q, t) = q \o <<t>> /\ Append(d \o q, t) = (d \o q) \o <<t>>
    BY AppendIsConcat, ConcatProperties
  <1>3. (d \o q) \o <<t>> = d \o (q \o <<t>>)
    BY ConcatAssociative, <<t>> \in Seq(Tasks)
  <1> QED
    BY <1>2, <1>3

-----------------------------------------------------------------------------
(* The invariant holds initially. *)
LEMMA InitInv == ThreadInit => ThreadInv
  <1> SUFFICES ASSUME ThreadInit PROVE ThreadInv
    OBVIOUS
  <1>1. <<>> \in Seq(Tasks)
    OBVIOUS
  <1>2. <<>> \o <<>> \o <<>> \o <<>> = <<>>
    BY ConcatEmptySeq, <1>1
  <1>3. ThreadInv
    <2>1. ThreadTypeOK
      BY <1>1 DEF ThreadInit, ThreadTypeOK
    <2>2. Flow /\ RanMatches
      BY DEF ThreadInit, Flow, RanMatches
    <2>3. WakeupAccounting
      BY DEF ThreadInit, WakeupAccounting, Bit
    <2>4. Fifo
      BY <1>2 DEF ThreadInit, Fifo
    <2>5. RanFirst
      BY DEF ThreadInit, RanFirst
    <2> QED
      BY <2>1, <2>2, <2>3, <2>4, <2>5 DEF ThreadInv
  <1> QED
    BY <1>3

(* postNewRunnable() keeps the queue in order and the semaphore exact, *)
(* whoever calls it.                                                   *)
LEMMA PostInv ==
    ASSUME ThreadInv, NEW t \in Tasks, PostNewRunnable(t),
           UNCHANGED <<workerVars, dtorVars, ran, destroyed>>
    PROVE  ThreadInv'
  <1>1. ThreadTypeOK'
    BY DEF ThreadInv, ThreadTypeOK, PostNewRunnable, workerVars, dtorVars
  <1>2. Flow' /\ RanMatches'
    BY DEF ThreadInv, Flow, RanMatches, PostNewRunnable, workerVars, dtorVars
  <1>3. WakeupAccounting'
    <2>1. /\ m_taskQueue' # <<>>
          /\ Len(m_taskQueue') = 1 <=> m_taskQueue = <<>>
      BY AppendProperties, EmptySeq DEF ThreadInv, ThreadTypeOK, PostNewRunnable
    <2> QED
      BY <2>1 DEF ThreadInv, ThreadTypeOK, WakeupAccounting, PostNewRunnable, workerVars, dtorVars, Bit
  <1>4. Fifo'
    <2>1. destroyed \o tasks \o leftover \in Seq(Tasks)
      BY ConcatProperties DEF ThreadInv, ThreadTypeOK
    <2>2. (destroyed \o tasks \o leftover) \o Append(m_taskQueue, t)
            = Append(posted, t)
      BY <2>1, AppendLast DEF ThreadInv, ThreadTypeOK, Fifo
    <2> QED
      BY <2>2 DEF Fifo, PostNewRunnable, workerVars, dtorVars
  <1>5. RanFirst'
    BY AppendProperties DEF ThreadInv, ThreadTypeOK, RanFirst, PostNewRunnable
  <1> QED
    BY <1>1, <1>2, <1>3, <1>4, <1>5 DEF ThreadInv

(* Every step preserves the invariant. *)
LEMMA StepInv == ThreadInv /\ [ThreadNext]_threadVars => ThreadInv'
  <1> SUFFICES ASSUME ThreadInv, [ThreadNext]_threadVars PROVE ThreadInv'
    OBVIOUS
  <1> USE DEF queueVars, workerVars, dtorVars, historyVars
  <1>1. CASE Client
    BY <1>1, PostInv DEF Client, PostFromClient
  <1>2. CASE \E t \in Tasks : PostFromTask(t)
    BY <1>2, PostInv DEF PostFromTask
  <1>3. CASE AwaitSemaphore
    BY <1>3 DEF AwaitSemaphore, ThreadInv, ThreadTypeOK, Flow, WakeupAccounting, Fifo, RanFirst,
                RanMatches, Bit
  <1>4. CASE FetchStopped
    BY <1>4 DEF FetchStopped, ThreadInv, ThreadTypeOK, Flow, WakeupAccounting, Fifo, RanFirst,
                RanMatches, Bit
  <1>5. CASE FetchTasks
    <2>1. leftover = <<>> /\ tasks = <<>>
      BY <1>5 DEF FetchTasks, ThreadInv, Flow
    <2>2. destroyed \o m_taskQueue \o <<>> \o <<>> = destroyed \o <<>> \o <<>> \o m_taskQueue
      BY ConcatEmptySeq, ConcatProperties DEF ThreadInv, ThreadTypeOK
    <2>3. Fifo'
      BY <1>5, <2>1, <2>2 DEF FetchTasks, ThreadInv, Fifo
    <2> QED
      <3>1. ThreadTypeOK' /\ Flow'
        BY <1>5 DEF FetchTasks, ThreadInv, ThreadTypeOK, Flow
      <3>2. WakeupAccounting'
        <4>1. /\ worker = "fetch" /\ dtor # "join"
              /\ m_taskSemaphore \in Nat
              /\ m_taskSemaphore' = m_taskSemaphore
              /\ m_taskQueue' = <<>> /\ dtor' = dtor
              /\ worker' = IF m_taskQueue = <<>> THEN "wait" ELSE "run"
          BY <1>5 DEF FetchTasks, ThreadInv, ThreadTypeOK, Flow
        <4> QED
          BY <4>1 DEF ThreadInv, WakeupAccounting, Bit
      <3>3. RanFirst' /\ RanMatches'
        BY <1>5 DEF FetchTasks, ThreadInv, RanFirst, RanMatches
      <3> QED
        BY <2>3, <3>1, <3>2, <3>3 DEF ThreadInv
  <1>6. CASE RunTask
    <2>0. /\ destroyed \in Seq(Tasks)
          /\ tasks \in Seq(Tasks)
          /\ leftover \in Seq(Tasks)
          /\ m_taskQueue \in Seq(Tasks)
      BY DEF ThreadInv, ThreadTypeOK
    <2>1. leftover \o m_taskQueue \in Seq(Tasks) /\ tasks # <<>>
      BY <1>6, ConcatProperties DEF RunTask, ThreadInv, ThreadTypeOK, Flow
    <2>2. posted = destroyed \o tasks \o (leftover \o m_taskQueue)
      <3>0. destroyed \o tasks \in Seq(Tasks)
        BY <2>0, ConcatProperties
      <3>1. destroyed \o tasks \o leftover \o m_taskQueue
              = destroyed \o tasks \o (leftover \o m_taskQueue)
        BY <2>0, <3>0, ConcatAssociative, SMTT(60)
      <3> QED
        BY <3>1 DEF ThreadInv, Fifo
    <2>3. /\ Head(tasks) \in Tasks
          /\ Len(posted) > Len(destroyed)
          /\ posted[Len(destroyed) + 1] = Head(tasks)
      BY <2>0, <2>1, <2>2, MoveHead, SMTT(60)
    <2>4. ran = destroyed
      BY <1>6 DEF RunTask, ThreadInv, RanMatches
    <2>5. RanFirst'
      BY <1>6, <2>3, <2>4, AppendProperties DEF RunTask, ThreadInv, ThreadTypeOK, RanFirst
    <2>6. ThreadTypeOK'
      BY <1>6, <2>3, AppendProperties DEF RunTask, ThreadInv, ThreadTypeOK
    <2>7. Flow' /\ WakeupAccounting' /\ Fifo' /\ RanMatches'
      BY <1>6, <2>4 DEF RunTask, ThreadInv, Flow, WakeupAccounting, Fifo, RanMatches, Bit
    <2> QED
      BY <2>5, <2>6, <2>7 DEF ThreadInv
  <1>7. CASE DestroyTask
    <2>0. /\ destroyed \in Seq(Tasks)
          /\ tasks \in Seq(Tasks)
          /\ leftover \in Seq(Tasks)
          /\ m_taskQueue \in Seq(Tasks)
      BY DEF ThreadInv, ThreadTypeOK
    <2>1. tasks # <<>> /\ leftover = <<>>
      BY <1>7 DEF DestroyTask, ThreadInv, Flow
    <2>2. /\ Tail(tasks) \in Seq(Tasks)
          /\ Append(destroyed, Head(tasks)) \in Seq(Tasks)
          /\ Append(destroyed, Head(tasks)) \o Tail(tasks) \o leftover
               = destroyed \o tasks \o leftover
      BY <2>0, <2>1, MoveHead, SMTT(60)
    <2>3. ThreadTypeOK' /\ Fifo'
      BY <1>7, <2>2 DEF DestroyTask, ThreadInv, ThreadTypeOK, Fifo
    <2>4. Flow' /\ WakeupAccounting' /\ RanFirst' /\ RanMatches'
      BY <1>7, <2>1 DEF DestroyTask, ThreadInv, ThreadTypeOK, Flow, WakeupAccounting, RanFirst,
                        RanMatches, Bit
    <2> QED
      BY <2>3, <2>4 DEF ThreadInv
  <1>8. CASE StopSetFlag
    BY <1>8 DEF StopSetFlag, ThreadInv, ThreadTypeOK, Flow, WakeupAccounting, Fifo, RanFirst,
                RanMatches, Bit
  <1>9. CASE StopPost
    <2>1. ThreadTypeOK' /\ Flow'
      BY <1>9 DEF StopPost, ThreadInv, ThreadTypeOK, Flow
    <2>3. Fifo' /\ RanFirst' /\ RanMatches'
      BY <1>9 DEF StopPost, ThreadInv, Fifo, RanFirst, RanMatches
    <2>2. WakeupAccounting'
      BY <1>9 DEF StopPost, ThreadInv, ThreadTypeOK, WakeupAccounting, Bit
    <2> QED
      BY <2>1, <2>2, <2>3 DEF ThreadInv
  <1>10. CASE Join
    BY <1>10 DEF Join, ThreadInv, ThreadTypeOK, Flow, WakeupAccounting, Fifo, RanFirst,
                 RanMatches, Bit
  <1>11. CASE DrainSwap
    <2>1. (destroyed \o tasks) \o m_taskQueue \o <<>> = (destroyed \o tasks) \o <<>> \o m_taskQueue
      BY ConcatEmptySeq, ConcatProperties DEF ThreadInv, ThreadTypeOK
    <2>2. Fifo'
      BY <1>11, <2>1 DEF DrainSwap, ThreadInv, Fifo
    <2> QED
      BY <1>11, <2>2 DEF DrainSwap, ThreadInv, ThreadTypeOK, Flow, WakeupAccounting, RanFirst,
                         RanMatches, Bit
  <1>12. CASE DrainDestroy
    <2>0. /\ destroyed \in Seq(Tasks)
          /\ tasks \in Seq(Tasks)
          /\ leftover \in Seq(Tasks)
          /\ m_taskQueue \in Seq(Tasks)
      BY DEF ThreadInv, ThreadTypeOK
    <2>1. tasks = <<>> /\ leftover # <<>> /\ worker = "done"
      BY <1>12 DEF DrainDestroy, DestroyLeftover, ThreadInv, Flow
    <2>2. /\ Tail(leftover) \in Seq(Tasks)
          /\ Append(destroyed, Head(leftover)) \in Seq(Tasks)
          /\ Append(destroyed, Head(leftover)) \o Tail(leftover) \o m_taskQueue
               = destroyed \o leftover \o m_taskQueue
      BY <2>0, <2>1, MoveHead, SMTT(60)
    <2>3. posted = Append(destroyed, Head(leftover)) \o <<>> \o Tail(leftover) \o m_taskQueue
      BY <2>1, <2>2, ConcatEmptySeq DEF ThreadInv, ThreadTypeOK, Fifo
    <2>4. CASE UNCHANGED <<queueVars, posted>>
      BY <1>12, <2>1, <2>2, <2>3, <2>4
         DEF DrainDestroy, DestroyLeftover, ThreadInv, ThreadTypeOK, Flow, WakeupAccounting, Fifo,
             RanFirst, RanMatches, Bit
    <2>5. ASSUME NEW t \in Tasks, PostNewRunnable(t)
          PROVE  ThreadInv'
      <3> DEFINE d == Append(destroyed, Head(leftover)) \o <<>> \o Tail(leftover)
      <3>1. d \in Seq(Tasks)
        BY <2>2, ConcatProperties, <<>> \in Seq(Tasks)
      <3>2. d \o Append(m_taskQueue, t) = Append(posted, t)
        BY <2>0, <2>3, <3>1, AppendLast
      <3>3. Fifo'
        BY <1>12, <2>1, <2>5, <3>2 DEF DrainDestroy, DestroyLeftover, PostNewRunnable, Fifo
      <3>4. ThreadTypeOK' /\ Flow' /\ WakeupAccounting' /\ RanMatches'
        BY <1>12, <2>1, <2>2, <2>5
           DEF DrainDestroy, DestroyLeftover, PostNewRunnable, ThreadInv, ThreadTypeOK, Flow,
               WakeupAccounting, RanMatches
      <3>5. RanFirst'
        <4>1. /\ posted \in Seq(Tasks)
              /\ ran \in Seq(Tasks)
              /\ posted' = Append(posted, t)
              /\ ran' = ran
          BY <1>12, <2>5
             DEF DrainDestroy, DestroyLeftover, PostNewRunnable, ThreadInv, ThreadTypeOK
        <4> QED
          BY <4>1, AppendProperties DEF ThreadInv, RanFirst
      <3> QED
        BY <3>3, <3>4, <3>5 DEF ThreadInv
    <2> QED
      BY <1>12, <2>4, <2>5 DEF DrainDestroy
  <1>13. CASE DrainEnd
    BY <1>13 DEF DrainEnd, ThreadInv, ThreadTypeOK, Flow, WakeupAccounting, Fifo, RanFirst,
                 RanMatches, Bit
  <1>14. CASE UNCHANGED threadVars
    BY <1>14 DEF threadVars, ThreadInv, ThreadTypeOK, Flow, WakeupAccounting, Fifo, RanFirst,
                 RanMatches, Bit
  <1> QED
    BY <1>1, <1>2, <1>3, <1>4, <1>5, <1>6, <1>7, <1>8, <1>9, <1>10, <1>11, <1>12, <1>13,
       <1>14 DEF ThreadNext, Worker, DestructorProgress

(* The conjunction is an invariant of the thread. *)
LEMMA Invariant == ThreadSpec => []ThreadInv
  BY InitInv, StepInv, PTL DEF ThreadSpec

-----------------------------------------------------------------------------
(* Every variable keeps its type: the semaphore is never decremented below *)
(* zero and nothing but tasks enters the queues.                           *)
THEOREM ThreadTypeCorrect == ThreadSpec => []ThreadTypeOK
  BY Invariant, PTL DEF ThreadInv

(* The optimisation of postNewRunnable(), to raise the semaphore only when *)
(* the queue was empty, loses no wakeup and adds none.                     *)
THEOREM NoLostWakeup == ThreadSpec => []WakeupAccounting
  BY Invariant, PTL DEF ThreadInv

(* Tasks leave the thread in the order in which they entered it, through   *)
(* the worker or through the destructor.                                   *)
THEOREM FifoDelivery == ThreadSpec => []Fifo
  BY Invariant, PTL DEF ThreadInv

(* The oldest tasks are executed, each one once and before its deletion. *)
THEOREM ExecutedInOrder == ThreadSpec => []RunsBeforeDestroyed
  <1>1. ThreadInv => RunsBeforeDestroyed
    <2> SUFFICES ASSUME ThreadInv PROVE ran = SubSeq(posted, 1, Len(ran))
      BY DEF ThreadInv, RanMatches, RunsBeforeDestroyed
    <2>1. /\ ran \in Seq(Tasks)
          /\ posted \in Seq(Tasks)
          /\ Len(ran) \in Nat
          /\ Len(ran) <= Len(posted)
          /\ \A i \in 1..Len(ran) : ran[i] = posted[i]
      BY DEF ThreadInv, ThreadTypeOK, RanFirst
    <2>2. \A i \in 1..Len(ran) : posted[i] \in Tasks
      BY <2>1, ElementOfSeq
    <2>3. /\ SubSeq(posted, 1, Len(ran)) \in Seq(Tasks)
          /\ Len(SubSeq(posted, 1, Len(ran))) = Len(ran)
          /\ \A i \in 1..Len(ran) : SubSeq(posted, 1, Len(ran))[i] = posted[i]
      BY <2>1, <2>2, SubSeqProperties
    <2> QED
      BY <2>1, <2>3, SeqEqual
  <1> QED
    BY <1>1, Invariant, PTL

(* What the worker deletes, and what it executes next, is the oldest task *)
(* that is not deleted yet.                                               *)
LEMMA OldestTask ==
    ASSUME ThreadInv, tasks # <<>>
    PROVE  /\ Len(destroyed) \in Nat
           /\ Len(posted) > Len(destroyed)
           /\ posted[Len(destroyed) + 1] = Head(tasks)
  <1>1. /\ destroyed \in Seq(Tasks)
        /\ tasks \in Seq(Tasks)
        /\ leftover \in Seq(Tasks)
        /\ m_taskQueue \in Seq(Tasks)
    BY DEF ThreadInv, ThreadTypeOK
  <1>2. leftover \o m_taskQueue \in Seq(Tasks)
    BY <1>1, ConcatProperties
  <1>3. posted = destroyed \o tasks \o (leftover \o m_taskQueue)
    <2>1. destroyed \o tasks \o leftover \o m_taskQueue
            = destroyed \o tasks \o (leftover \o m_taskQueue)
      <3>1. destroyed \o tasks \in Seq(Tasks)
        BY <1>1, ConcatProperties
      <3> QED
        BY <1>1, <3>1, ConcatAssociative, SMTT(60)
    <2> QED
      BY <2>1 DEF ThreadInv, Fifo
  <1> QED
    BY <1>1, <1>2, <1>3, MoveHead, SMTT(60)

(* The same for the destructor. *)
LEMMA OldestLeftover ==
    ASSUME ThreadInv, leftover # <<>>
    PROVE  /\ Len(destroyed) \in Nat
           /\ Len(posted) > Len(destroyed)
           /\ posted[Len(destroyed) + 1] = Head(leftover)
  <1>1. /\ destroyed \in Seq(Tasks)
        /\ tasks = <<>>
        /\ leftover \in Seq(Tasks)
        /\ m_taskQueue \in Seq(Tasks)
    BY DEF ThreadInv, ThreadTypeOK, Flow
  <1>2. posted = destroyed \o leftover \o m_taskQueue
    BY <1>1, ConcatEmptySeq DEF ThreadInv, Fifo
  <1> QED
    BY <1>1, <1>2, MoveHead, SMTT(60)

(* The thread keeps every promise of util::RequestDispatcher. *)
THEOREM Implementation == ThreadSpec => ImplementsDispatcher
  <1> USE DEF queueVars, workerVars, dtorVars, historyVars
  <1>1. ThreadInit => Dispatcher!Init
    BY DEF ThreadInit, Dispatcher!Init
  <1>2. ThreadInv /\ [ThreadNext]_threadVars => [Dispatcher!Next]_(Dispatcher!vars)
    <2> SUFFICES ASSUME ThreadInv, [ThreadNext]_threadVars PROVE [Dispatcher!Next]_(Dispatcher!vars)
      OBVIOUS
    <2>1. ASSUME NEW t \in Tasks, PostFromClient(t) \/ PostFromTask(t)
          PROVE  Dispatcher!Post(t)
      BY <2>1 DEF PostFromClient, PostFromTask, PostNewRunnable, Dispatcher!Post,
                  Dispatcher!Elements, Members
    <2>2. CASE RunTask
      <3>1. Len(ran) = Len(destroyed)
        BY <2>2 DEF RunTask, ThreadInv, RanMatches
      <3>2. tasks # <<>> /\ worker # "done"
        BY <2>2 DEF RunTask, ThreadInv, Flow
      <3>3. Dispatcher!Run
        BY <2>2, <3>1, <3>2, OldestTask DEF RunTask, Dispatcher!Run
      <3> QED
        BY <3>3 DEF Dispatcher!Next
    <2>3. CASE DestroyTask
      <3>1. tasks # <<>> /\ worker # "done"
        BY <2>3 DEF DestroyTask, ThreadInv, Flow
      <3>2. Head(tasks) \in Tasks
        BY <3>1 DEF ThreadInv, ThreadTypeOK
      <3>3. Len(ran) = Len(destroyed) + 1
        BY <2>3, <3>2, AppendProperties DEF DestroyTask, ThreadInv, ThreadTypeOK, RanMatches
      <3>4. Dispatcher!Destroy
        BY <2>3, <3>1, <3>3, OldestTask DEF DestroyTask, Dispatcher!Destroy
      <3> QED
        BY <3>4 DEF Dispatcher!Next
    <2>4. CASE FetchStopped
      <3>1. Len(ran) = Len(destroyed)
        BY <2>4 DEF FetchStopped, ThreadInv, RanMatches
      <3>2. Dispatcher!Shutdown
        BY <2>4, <3>1 DEF FetchStopped, Dispatcher!Shutdown
      <3> QED
        BY <3>2 DEF Dispatcher!Next
    <2>5. CASE DrainDestroy
      <3>1. worker = "done" /\ worker' = "done" /\ leftover # <<>>
        BY <2>5 DEF DrainDestroy, DestroyLeftover, ThreadInv, Flow
      <3>2. /\ destroyed' = Append(destroyed, posted[Len(destroyed) + 1])
            /\ Len(destroyed) < Len(posted)
            /\ ran' = ran
        BY <2>5, <3>1, OldestLeftover DEF DrainDestroy, DestroyLeftover
      <3>3. CASE posted' = posted
        <4>1. posted' = posted \o <<>>
          BY <3>3, ConcatEmptySeq DEF ThreadInv, ThreadTypeOK
        <4>2. Dispatcher!Discard(<<>>)
          BY <3>1, <3>2, <4>1 DEF Dispatcher!Discard
        <4> QED
          BY <4>2 DEF Dispatcher!Next, Dispatcher!Fresh
      <3>4. ASSUME NEW t \in Tasks, PostNewRunnable(t)
            PROVE  Dispatcher!Next
        <4>1. posted' = posted \o <<t>>
          BY <3>4, AppendIsConcat DEF PostNewRunnable, ThreadInv, ThreadTypeOK
        <4>2. Dispatcher!Discard(<<t>>)
          BY <3>1, <3>2, <4>1 DEF Dispatcher!Discard
        <4>3. <<t>> \in Dispatcher!Fresh
          BY <3>4 DEF PostNewRunnable, Dispatcher!Fresh, Dispatcher!Elements, Members
        <4> QED
          BY <4>2, <4>3 DEF Dispatcher!Next
      <3> QED
        BY <2>5, <3>3, <3>4 DEF DrainDestroy
    <2>6. CASE AwaitSemaphore \/ FetchTasks
      BY <2>6 DEF AwaitSemaphore, FetchTasks, Dispatcher!vars
    <2>7. CASE StopSetFlag \/ StopPost \/ Join \/ DrainSwap \/ DrainEnd
      BY <2>7 DEF StopSetFlag, StopPost, Join, DrainSwap, DrainEnd, Dispatcher!vars
    <2>8. CASE UNCHANGED threadVars
      BY <2>8 DEF threadVars, Dispatcher!vars
    <2> QED
      BY <2>1, <2>2, <2>3, <2>4, <2>5, <2>6, <2>7, <2>8
         DEF ThreadNext, Client, Worker, DestructorProgress, Dispatcher!Next
  <1> QED
    BY <1>1, <1>2, Invariant, PTL DEF ThreadSpec, ImplementsDispatcher, Dispatcher!Spec
=============================================================================
