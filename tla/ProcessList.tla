---------------------------- MODULE ProcessList ----------------------------
(***************************************************************************)
(* interpreter::ProcessList: the scheduler of the script engine.  Script   *)
(* processes are collected in process groups; of each started group, one   *)
(* process executes (or waits for the user interface) and the others queue *)
(* up behind it, ordered by priority.  All operations are made by the game *)
(* thread, so each is one step; the exception is run(), which calls back   *)
(* into the program while m_running is set.  What it can call back is      *)
(* guarded by CallerActive; everything else needs an idle run().           *)
(***************************************************************************)
EXTENDS Sequences, Integers

CONSTANTS
    MaxProcesses,       \* bound on the process Ids that are allocated
    MaxGroups,          \* bound on the process group Ids that are allocated
    Priorities,         \* priorities a process may be given
    DefaultPriority,    \* priority of a new process
    Observed,           \* the processes that are given a finalizer
    Faults              \* "syncFailure": a task fails its process from within
                        \* suspend(); "exception": one leaves Process::run()

ASSUME BoundAssumption == MaxProcesses \in Nat /\ MaxGroups \in Nat
ASSUME PriorityAssumption == Priorities \subseteq Int /\ DefaultPriority \in Priorities
ASSUME FaultsAssumption == Faults \subseteq {"syncFailure", "exception"}

VARIABLES
    m_processes,        \* process list, a sequence of Ids
    state,              \* Process::m_state; "Absent" when there is no object
    group,              \* Process::m_processGroupId
    priority,           \* Process::m_processPriority
    m_finalizer,        \* Process::m_finalizer: "none", "set" or "called"
    m_processId,        \* last process Id allocated
    m_processGroupId,   \* last process group Id allocated
    m_running,          \* marker against recursive invocation of run()
    current,            \* process executed by run(), 0 if none
    started,            \* groups for which startProcessGroup() was called
    finished,           \* groups for which sig_processGroupFinish was raised
    failedInTask        \* history: a task failed its process from within suspend()

listVars == <<m_processes, priority, m_processId>>
runVars == <<m_running, current>>
groupVars == <<started, finished>>
vars == <<failedInTask, listVars, state, group, m_finalizer, m_processGroupId, runVars, groupVars>>

Pids == 1..MaxProcesses
Groups == 1..MaxGroups

Finished == {"Ended", "Terminated", "Failed"}       \* isTerminatedState()
States == {"Absent", "Suspended", "Frozen", "Runnable", "Running", "Waiting"} \cup Finished

Elements(s) == {s[i] : i \in DOMAIN s}

TypeOK ==
    /\ m_processes \in Seq(Pids)
    /\ state \in [Pids -> States]
    /\ group \in [Pids -> 0..MaxGroups]
    /\ priority \in [Pids -> Priorities]
    /\ m_finalizer \in [Pids -> {"none", "set", "called"}]
    /\ m_processId \in 0..MaxProcesses
    /\ m_processGroupId \in 0..MaxGroups
    /\ m_running \in BOOLEAN
    /\ current # 0 => current \in Pids /\ m_running /\ state[current] # "Absent"
    /\ started \subseteq Groups
    /\ finished \subseteq 0..MaxGroups
    /\ failedInTask \in BOOLEAN

Init ==
    /\ m_processes = <<>>
    /\ state = [p \in Pids |-> "Absent"]
    /\ group = [p \in Pids |-> 0]
    /\ priority = [p \in Pids |-> DefaultPriority]
    /\ m_finalizer = [p \in Pids |-> "none"]
    /\ m_processId = 0
    /\ m_processGroupId = 0
    /\ m_running = FALSE
    /\ current = 0
    /\ started = {}
    /\ finished = {}
    /\ failedInTask = FALSE

-----------------------------------------------------------------------------
(* Helpers *)

Executing == {"Running", "Waiting"}
Queued == {"Runnable"} \cup Executing

(* p comes before all other members of S in the list. *)
IsFirst(list, p, S) ==
    \E i \in DOMAIN list :
        /\ list[i] = p
        /\ p \in S
        /\ \A j \in 1..(i-1) : list[j] \notin S

(* Element i moved to position k, those in between by one. *)
Moved(list, i, k) ==
    [n \in DOMAIN list |->
        IF n = k THEN list[i]
        ELSE IF k < n /\ n <= i THEN list[n-1]
        ELSE IF i <= n /\ n < k THEN list[n+1]
        ELSE list[n]]

(* Where entry i of a list with the given priorities goes: if it is out of *)
(* place, past all neighbours of a greater value, or past all neighbours   *)
(* of a smaller or the same value.                                         *)
Destination(pri, len, i, k) ==
    IF i > 1 /\ pri[i-1] > pri[i]
    THEN /\ k < i
         /\ \A n \in k..(i-1) : pri[n] > pri[i]
         /\ k > 1 => pri[k-1] <= pri[i]
    ELSE IF i < len /\ pri[i+1] < pri[i]
    THEN /\ k > i
         /\ \A n \in (i+1)..k : pri[n] <= pri[i]
         /\ k < len => pri[k+1] > pri[i]
    ELSE k = i

(* The list after erasing entry i. *)
Without(list, i) == [n \in 1..(Len(list)-1) |-> IF n < i THEN list[n] ELSE list[n+1]]

(* handlePriorityChange(p) *)
HandlePriorityChange(list, prio, p) ==
    \E i, k \in DOMAIN list :
        /\ list[i] = p
        /\ Destination([n \in DOMAIN list |-> prio[list[n]]], Len(list), i, k)
        /\ m_processes' = Moved(list, i, k)

RunnableIn(st, g) == {p \in Pids : st[p] = "Runnable" /\ group[p] = g}

(* startProcessGroup(g), called with process states st: selects the first  *)
(* runnable process of the group; finalizes and signals a group that has   *)
(* none.                                                                   *)
StartProcessGroup(st, g) ==
    \/ \E p \in RunnableIn(st, g) :
          /\ IsFirst(m_processes, p, RunnableIn(st, g))
          /\ state' = [st EXCEPT ![p] = "Running"]
          /\ UNCHANGED <<m_finalizer, finished>>
    \/ /\ RunnableIn(st, g) = {}
       /\ state' = st
       /\ m_finalizer' = [p \in Pids |-> IF group[p] = g /\ m_finalizer[p] = "set"
                                         THEN "called" ELSE m_finalizer[p]]
       /\ finished' = finished \cup {g}

(* Program code runs: outside of run(), or called back by the executing    *)
(* instruction or by a listener between two processes.                     *)
CallerActive == m_running /\ current # 0 => state[current] = "Running"

(* A process in state Waiting has handed out its link to the user          *)
(* interface, which uses it in a request of its own.                       *)
HoldsLink(p) == ~m_running /\ state[p] = "Waiting"

-----------------------------------------------------------------------------
(* Operations of the process list *)

(* create(), and setNewFinalizer() for a caller that wants the outcome. *)
Create ==
    /\ CallerActive
    /\ m_processId < MaxProcesses
    /\ m_processId' = m_processId + 1
    /\ state' = [state EXCEPT ![m_processId'] = "Suspended"]
    /\ m_finalizer' = [m_finalizer EXCEPT ![m_processId'] = IF m_processId' \in Observed THEN "set" ELSE "none"]
    /\ HandlePriorityChange(Append(m_processes, m_processId'), priority, m_processId')
    /\ UNCHANGED <<failedInTask, priority, group, m_processGroupId, runVars, groupVars>>

(* Mutant: handlePriorityChange() is not called. *)
SetPriorityInPlace(p, pri) ==
    /\ CallerActive
    /\ state[p] # "Absent"
    /\ pri # priority[p]
    /\ priority' = [priority EXCEPT ![p] = pri]
    /\ UNCHANGED <<failedInTask, m_processes, m_processId, state, group, m_finalizer,
                   m_processGroupId, runVars, groupVars>>

(* Process::setPriority() and handlePriorityChange(). *)
SetPriority(p, pri) ==
    /\ CallerActive
    /\ state[p] # "Absent"
    /\ pri # priority[p]
    /\ priority' = [priority EXCEPT ![p] = pri]
    /\ HandlePriorityChange(m_processes, priority', p)
    /\ UNCHANGED <<failedInTask, m_processId, state, group, m_finalizer, m_processGroupId,
                   runVars, groupVars>>

(* allocateProcessGroup(), then resumeProcess() for the processes S. *)
PrepareGroup(S) ==
    /\ CallerActive
    /\ m_processGroupId < MaxGroups
    /\ m_processGroupId' = m_processGroupId + 1
    /\ \A p \in S : state[p] \in {"Suspended", "Runnable"}
    /\ state' = [p \in Pids |-> IF p \in S THEN "Runnable" ELSE state[p]]
    /\ group' = [p \in Pids |-> IF p \in S THEN m_processGroupId' ELSE group[p]]
    /\ UNCHANGED <<failedInTask, listVars, m_finalizer, runVars, groupVars>>

(* allocateProcessGroup(), then resumeSuspendedProcesses(). *)
PrepareGroupOfSuspended == PrepareGroup({p \in Pids : state[p] = "Suspended"})

(* Groups that were allocated, but neither started nor joined to another. *)
Prepared == (1..m_processGroupId) \ (started \cup finished)

StartGroup(g) ==
    /\ CallerActive
    /\ g \in Prepared
    /\ started' = started \cup {g}
    /\ StartProcessGroup(state, g)
    /\ UNCHANGED <<failedInTask, listVars, group, m_processGroupId, runVars>>

(* joinProcessGroup(old, new), with states st left by the caller. *)
JoinProcessGroup(st, old, new) ==
    /\ state' = st
    /\ group' = [p \in Pids |-> IF group[p] = old THEN new ELSE group[p]]
    /\ finished' = finished \cup {old}

(* A prepared group is joined to one that is not started yet, or to the    *)
(* group of a process that waits.                                          *)
JoinGroup(old, new) ==
    /\ ~m_running
    /\ old \in Prepared
    /\ new # old
    /\ new \in Prepared \/ \E leader \in Pids : HoldsLink(leader) /\ group[leader] = new
    /\ JoinProcessGroup(state, old, new)
    /\ UNCHANGED <<failedInTask, listVars, m_finalizer, m_processGroupId, runVars, started>>

(* Mutant: the joined process goes on waiting instead of queueing up. *)
JoinWaiting(p, leader) ==
    /\ HoldsLink(p) /\ HoldsLink(leader) /\ p # leader
    /\ JoinProcessGroup(state, group[p], group[leader])
    /\ UNCHANGED <<failedInTask, listVars, m_finalizer, m_processGroupId, runVars, started>>

(* joinProcess(p), to the group of leader; both wait for the user          *)
(* interface, which created p while it handled leader's request.           *)
JoinProcess(p, leader) ==
    /\ HoldsLink(p) /\ HoldsLink(leader) /\ p # leader
    /\ JoinProcessGroup([state EXCEPT ![p] = "Runnable"], group[p], group[leader])
    /\ UNCHANGED <<failedInTask, listVars, m_finalizer, m_processGroupId, runVars, started>>

ContinueProcess(p) ==
    /\ HoldsLink(p)
    /\ state' = [state EXCEPT ![p] = "Running"]
    /\ UNCHANGED <<failedInTask, listVars, group, m_finalizer, m_processGroupId,
                   runVars, groupVars>>

(* Mutant: the next process is started although the script handles the error. *)
FailAndStartNext(p, handled) ==
    /\ HoldsLink(p)
    /\ StartProcessGroup([state EXCEPT ![p] = IF handled THEN "Running" ELSE "Failed"], group[p])
    /\ UNCHANGED <<failedInTask, listVars, group, m_processGroupId, runVars, started>>

(* continueProcessWithFailure(); the script may have an exception handler. *)
ContinueProcessWithFailure(p, handled) ==
    /\ HoldsLink(p)
    /\ IF handled
       THEN /\ state' = [state EXCEPT ![p] = "Running"]
            /\ UNCHANGED <<m_finalizer, finished>>
       ELSE StartProcessGroup([state EXCEPT ![p] = "Failed"], group[p])
    /\ UNCHANGED <<failedInTask, listVars, group, m_processGroupId, runVars, started>>

(* Mutant: the group of a terminated process does not proceed. *)
TerminateOnly(p) ==
    /\ ~m_running
    /\ state[p] \notin {"Absent", "Terminated"}
    /\ state' = [state EXCEPT ![p] = "Terminated"]
    /\ UNCHANGED <<failedInTask, listVars, group, m_finalizer, m_processGroupId,
                   runVars, groupVars>>

(* terminateProcess(): the group of an executing process proceeds. *)
TerminateProcess(p) ==
    /\ ~m_running
    /\ state[p] \notin {"Absent", "Terminated"}
    /\ IF state[p] \in Executing
       THEN StartProcessGroup([state EXCEPT ![p] = "Terminated"], group[p])
       ELSE /\ state' = [state EXCEPT ![p] = "Terminated"]
            /\ UNCHANGED <<m_finalizer, finished>>
    /\ UNCHANGED <<failedInTask, listVars, group, m_processGroupId, runVars, started>>

(* terminateProcessGroup(), for the group of a process that was interrupted *)
(* and therefore waits.                                                    *)
TerminateProcessGroup(leader) ==
    /\ HoldsLink(leader)
    /\ StartProcessGroup([p \in Pids |-> IF state[p] # "Absent" /\ group[p] = group[leader]
                                         THEN "Terminated" ELSE state[p]],
                         group[leader])
    /\ UNCHANGED <<failedInTask, listVars, group, m_processGroupId, runVars, started>>

(* terminateAllProcesses(), made by a user interface that is being reset   *)
(* and has "no process running".                                           *)
TerminateAllProcesses ==
    /\ ~m_running
    /\ \A p \in Pids : state[p] \notin Executing
    /\ state' = [p \in Pids |-> IF state[p] \in {"Absent", "Frozen"} THEN state[p] ELSE "Terminated"]
    /\ UNCHANGED <<failedInTask, listVars, group, m_finalizer, m_processGroupId,
                   runVars, groupVars>>

(* One turn of the loop of removeTerminatedProcesses(); destroying the     *)
(* process may call back into the list, hence one by one.  The fields of a *)
(* process that does not exist have their initial values.                  *)
RemoveTerminatedProcess ==
    /\ ~m_running
    /\ \E i \in DOMAIN m_processes :
          /\ state[m_processes[i]] \in Finished
          /\ \A j \in 1..(i-1) : state[m_processes[j]] \notin Finished
          /\ state' = [state EXCEPT ![m_processes[i]] = "Absent"]
          /\ group' = [group EXCEPT ![m_processes[i]] = 0]
          /\ priority' = [priority EXCEPT ![m_processes[i]] = DefaultPriority]
          /\ m_finalizer' = [m_finalizer EXCEPT ![m_processes[i]] = "none"]
          /\ m_processes' = Without(m_processes, i)
    /\ UNCHANGED <<failedInTask, m_processId, m_processGroupId, runVars, groupVars>>

(* Process::freeze() and unfreeze(): a TaskEditor is opened and closed. *)
Freeze(p) ==
    /\ CallerActive
    /\ state[p] = "Suspended"
    /\ state' = [state EXCEPT ![p] = "Frozen"]
    /\ UNCHANGED <<failedInTask, listVars, group, m_finalizer, m_processGroupId,
                   runVars, groupVars>>

Unfreeze(p) ==
    /\ CallerActive
    /\ state[p] = "Frozen"
    /\ state' = [state EXCEPT ![p] = "Suspended"]
    /\ UNCHANGED <<failedInTask, listVars, group, m_finalizer, m_processGroupId,
                   runVars, groupVars>>

-----------------------------------------------------------------------------
(* run() *)

Run ==
    /\ ~m_running
    /\ m_running' = TRUE
    /\ UNCHANGED <<failedInTask, listVars, state, group, m_finalizer, m_processGroupId,
                   current, groupVars>>

RunningPids == {p \in Pids : state[p] = "Running"}

(* findRunningProcess() finds one; Process::run() is entered. *)
RunProcess(p) ==
    /\ m_running
    /\ current = 0
    /\ IsFirst(m_processes, p, RunningPids)
    /\ current' = p
    /\ UNCHANGED <<failedInTask, listVars, state, group, m_finalizer, m_processGroupId,
                   m_running, groupVars>>

(* findRunningProcess() finds none. *)
RunEnd ==
    /\ m_running
    /\ current = 0
    /\ RunningPids = {}
    /\ m_running' = FALSE
    /\ UNCHANGED <<failedInTask, listVars, state, group, m_finalizer, m_processGroupId,
                   current, groupVars>>

InProcess == m_running /\ current # 0 /\ state[current] = "Running"

(* Instructions that end Process::run(): suspend, wait for a task or the   *)
(* user interface (suspend(), suspendForUI()), reach the end, terminate,   *)
(* fail without an exception handler.                                      *)
Instruction(newState) ==
    /\ InProcess
    /\ state' = [state EXCEPT ![current] = newState]
    /\ UNCHANGED <<failedInTask, listVars, group, m_finalizer, m_processGroupId,
                   runVars, groupVars>>

(* Process::suspend() executes its task, which calls                       *)
(* continueProcessWithFailure() before it returns; there is no handler.    *)
FailInTask ==
    /\ "syncFailure" \in Faults
    /\ InProcess
    /\ StartProcessGroup([state EXCEPT ![current] = "Failed"], group[current])
    /\ failedInTask' = TRUE
    /\ UNCHANGED <<listVars, group, m_processGroupId, runVars, started>>

(* Mutant: a process that waits does not hold back its group. *)
HandleAnyState ==
    /\ m_running
    /\ current # 0
    /\ state[current] # "Running"
    /\ StartProcessGroup(state, group[current])
    /\ current' = 0
    /\ UNCHANGED <<failedInTask, listVars, group, m_processGroupId, m_running, started>>

(* Process::run() returned: unless the process waits, its group proceeds.  *)
HandleState ==
    /\ m_running
    /\ current # 0
    /\ state[current] # "Running"
    /\ IF state[current] = "Waiting"
       THEN UNCHANGED <<state, m_finalizer, finished>>
       ELSE StartProcessGroup(state, group[current])
    /\ current' = 0
    /\ UNCHANGED <<failedInTask, listVars, group, m_processGroupId, m_running, started>>

(* An exception that scripts cannot handle leaves Process::run() and run(). *)
AbortRun ==
    /\ "exception" \in Faults
    /\ InProcess
    /\ m_running' = FALSE
    /\ current' = 0
    /\ UNCHANGED <<failedInTask, listVars, state, group, m_finalizer, m_processGroupId,
                   groupVars>>

-----------------------------------------------------------------------------
(* Specification *)

RunLoop ==
    \/ Run
    \/ \E p \in Pids : RunProcess(p)
    \/ \E st \in {"Suspended", "Waiting", "Ended", "Terminated", "Failed"} : Instruction(st)
    \/ FailInTask
    \/ HandleState
    \/ RunEnd
    \/ AbortRun

Population ==
    \/ Create
    \/ \E p \in Pids, pri \in Priorities : SetPriority(p, pri)
    \/ \E p \in Pids : Freeze(p) \/ Unfreeze(p)
    \/ TerminateAllProcesses
    \/ RemoveTerminatedProcess

Grouping ==
    \/ \E S \in SUBSET Pids : PrepareGroup(S)
    \/ PrepareGroupOfSuspended
    \/ \E g \in Groups : StartGroup(g)
    \/ \E g, h \in Groups : JoinGroup(g, h)

Control ==
    \/ \E p, leader \in Pids : JoinProcess(p, leader)
    \/ \E p \in Pids : ContinueProcess(p)
    \/ \E p \in Pids, handled \in BOOLEAN : ContinueProcessWithFailure(p, handled)
    \/ \E p \in Pids : TerminateProcess(p) \/ TerminateProcessGroup(p)

Next == RunLoop \/ Population \/ Grouping \/ Control

Spec == Init /\ [][Next]_vars

(* The thread that entered run() stays in it.  Every process eventually    *)
(* ends or suspends; the user interface eventually posts a request to      *)
(* continue a process that waits, and the game thread handles requests in  *)
(* the order of their arrival; the handler calls run().                    *)
FairSpec ==
    /\ Spec
    /\ WF_vars(Run) /\ WF_vars(RunEnd) /\ WF_vars(HandleState)
    /\ WF_vars(\E p \in Pids : RunProcess(p))
    /\ \A p \in Pids :
          /\ SF_vars(current = p /\ \E st \in {"Suspended"} \cup Finished : Instruction(st))
          /\ SF_vars(ContinueProcess(p))

-----------------------------------------------------------------------------
(* Properties *)

(* A task that fails its process before suspend() returns makes the group  *)
(* proceed twice, so that two of its processes execute, one of them in a   *)
(* group that was declared finished.  What is said about groups therefore  *)
(* excepts what follows such a failure.                                    *)

(* p executes, waits, or is being executed by run(). *)
Busy(p) == state[p] \in Executing \/ current = p

(* A process group is a queue: while one of its processes executes or      *)
(* waits for the user interface, no other one does, however processes are  *)
(* joined, continued, failed or terminated.                                *)
OneActivePerGroup ==
    ~failedInTask =>
        \A p, q \in Pids : Busy(p) /\ Busy(q) /\ p # q => group[p] # group[q]

(* sig_processGroupFinish is never early: once it was raised for a group,  *)
(* no process of that group executes, waits or is queued, then or later.   *)
FinishedGroupEmpty ==
    ~failedInTask => \A p \in Pids : state[p] \in Queued => group[p] \notin finished

(* A group does not get stuck: as long as a started group was not declared *)
(* finished, one of its processes is busy and will start the next one.     *)
StartedGroupAlive ==
    ~failedInTask =>
        \A g \in started \ finished : \E p \in Pids : group[p] = g /\ Busy(p)

(* The order in the list always permits to select processes by scanning    *)
(* it: priorities ascend, and it holds every existing process once.        *)
ListInOrder ==
    /\ \A i, j \in DOMAIN m_processes :
          i < j => /\ priority[m_processes[i]] <= priority[m_processes[j]]
                   /\ m_processes[i] # m_processes[j]
    /\ Elements(m_processes) = {p \in Pids : state[p] # "Absent"}

(* A finalizer reports a final or suspended process: when finalize() calls *)
(* it, the process neither executes nor is queued.                         *)
FinalizedAtRest ==
    [][~failedInTask' =>
         \A p \in Pids : m_finalizer'[p] = "called" /\ m_finalizer[p] = "set"
                          => state'[p] \notin Queued]_vars

(* A queued process is started only if no process of smaller priority      *)
(* value is queued in its group.                                           *)
StartsInPriorityOrder ==
    [][\A p, q \in Pids :
          /\ state[p] = "Runnable" /\ state'[p] = "Running"
          /\ state'[q] = "Runnable" /\ group'[q] = group'[p]
          => priority[p] <= priority[q]]_vars

(* Every started group is eventually declared finished, which is what the  *)
(* user interface waits for.                                               *)
StartedGroupFinishes == \A g \in Groups : g \in started ~> g \in finished
=============================================================================
