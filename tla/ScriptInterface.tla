--------------------------- MODULE ScriptInterface ---------------------------
(***************************************************************************)
(* client::si: scripts run in the game thread (ScriptSide), what they show *)
(* runs in the user interface thread (UserSide, Control).  The threads     *)
(* send each other requests, executed in order.  The user interface waits  *)
(* for scripts in nested event loops, and must not wait forever; a script  *)
(* waits for the user interface, which must continue it once.              *)
(***************************************************************************)
EXTENDS Naturals, Sequences, FiniteSets, SequencesExt, FiniteSetsExt, Lists

CONSTANTS
    MaxTasks, MaxCalls, MaxBreaks, \* bounds: commands, their callouts, interrupts
    Callouts,       \* what scripts ask of the user interface
    Targets         \* where they go: another screen, the same, or out of the game

ASSUME BoundsAssumption == {MaxTasks, MaxCalls, MaxBreaks} \subseteq Nat
ASSUME CalloutsAssumption ==
    Callouts \subseteq {"message", "error", "goto", "end", "dialog", "console", "keymap"}
ASSUME TargetsAssumption == Targets \subseteq {"screen", "own", "exit"}

Processes == 1 .. MaxTasks
Controls == 1 .. MaxCalls + 1   \* by their wait Ids: each callout makes at most one
None == 0                       \* null RequestLink2

VARIABLES
    \* Game thread
    state,          \* state of each process
    group,          \* its process group
    m_waits,        \* waits for process groups: [waitId, pgid]
    calling,        \* whether ScriptSide::call() waits for its semaphore
    m_stopSignal,   \* shared with the user interface
    toScript,       \* requests to the game thread
    \* User interface thread
    toUser,         \* requests to the user interface thread
    loops,          \* event loops, the innermost last
    m_stopped,      \* Controls whose wait, Control::m_loop, was told to end
    ended,          \* Controls whose own event loop was told to end
    m_outputState,  \* process and target they end with (KeymapHandler: its m_result)
    m_interrupting, m_interruptedProcesses,
    \* Bounds
    tasks, calls, breaks, lastId

script == <<state, group, m_waits, calling>>
requests == <<toScript, toUser>>
user == <<loops, m_stopped, ended, m_outputState>>
interrupt == <<m_interrupting, m_interruptedProcesses>>
bounds == <<tasks, calls, breaks, lastId>>
vars == <<script, m_stopSignal, requests, user, interrupt, bounds>>

Wait(c) == [loop |-> "wait", id |-> c, parent |-> None, link |-> None]
Own(kind, c, parent, link) == [loop |-> kind, id |-> c, parent |-> parent, link |-> link]
Ask == [loop |-> "ask", id |-> None, parent |-> None, link |-> None]
NoOutput == [link |-> None, target |-> "none"]

\* UserSide::m_controls, and the topmost one
IsOwn(f) == f.loop \notin {"wait", "ask"}
Owns(ls) == { i \in DOMAIN ls : IsOwn(ls[i]) }
ControlsIn(ls) == { ls[i].id : i \in Owns(ls) }
Kind(ls, c) == (CHOOSE f \in ToSet(ls) : IsOwn(f) /\ f.id = c).loop
TopControl == loops[Max(Owns(loops))].id

Init ==
    /\ state = [p \in Processes |-> "new"] /\ group = [p \in Processes |-> p]
    /\ m_waits = <<>> /\ calling = FALSE /\ m_stopSignal = FALSE
    /\ toScript = <<>> /\ toUser = <<>>
    /\ loops = <<Own("screen", 1, None, None)>>
    /\ m_stopped = {} /\ ended = {} /\ m_outputState = [c \in Controls |-> NoOutput]
    /\ m_interrupting = FALSE /\ m_interruptedProcesses = {}
    /\ tasks = 0 /\ calls = 0 /\ breaks = 0 /\ lastId = 1

----------------------------------------------------------------------------
(* Requests.                                                               *)

To(op, p) == [op |-> op, link |-> p]
Execute(c) == [op |-> "executeTaskWait", id |-> c, link |-> None]
ContinueWait(c, p) == [op |-> "continueProcessWait", id |-> c, link |-> p]
Reset(p) == To("reset", p)  \* link: the process that play() has left
Join(p, other) == [op |-> "joinProcess", link |-> p, other |-> other]
Complete(c) == [op |-> "onTaskComplete", id |-> c]

----------------------------------------------------------------------------
(* Game thread.  A request runs processes until none is running.           *)

Alive(p) == p \in Processes /\ state[p] # "new" /\ state[p] # "gone"
NoneRunning(s) == \A p \in Processes : s[p] # "Running"

\* removeTerminatedProcesses()
Clean(s) == [p \in Processes |-> IF NoneRunning(s) /\ s[p] = "ended" THEN "gone" ELSE s[p]]

Receives(op) ==
    /\ NoneRunning(state) /\ toScript # <<>> /\ Head(toScript).op = op
    /\ toScript' = Tail(toScript)
Request == Head(toScript)

\* extractWait() and onTaskComplete(), for all who wait for group g
WaitsFor(G) == [waitId : Controls, pgid : G]
CompleteWaits(g) ==
    LET mine == Kept(m_waits, WaitsFor({g})) IN
    /\ m_waits' = Kept(m_waits, WaitsFor(Processes \ {g}))
    /\ toUser' = toUser \o [i \in DOMAIN mine |-> Complete(mine[i].waitId)]

\* startProcessGroup(): start a runnable process, or the group is finished.
StartGroup(s, g) ==
    LET next == { p \in Processes : s[p] = "Runnable" /\ group[p] = g } IN
    \/ /\ next # {}
       /\ state' = [s EXCEPT ![Min(next)] = "Running"]
       /\ UNCHANGED <<m_waits, toUser>>
    \/ next = {} /\ state' = s /\ CompleteWaits(g)

\* The task makes a process, or none (an unused key, an empty hook).
ExecuteTaskWait ==
    /\ Receives("executeTaskWait")
    /\ \/ /\ \E q \in Processes : state[q] = "new"
          /\ LET p == Min({ q \in Processes : state[q] = "new" }) IN
             /\ state' = [state EXCEPT ![p] = "Running"]
             /\ m_waits' = Append(m_waits, [waitId |-> Request.id, pgid |-> group[p]])
          /\ UNCHANGED toUser
       \/ toUser' = Append(toUser, Complete(Request.id)) /\ UNCHANGED <<state, m_waits>>
    /\ UNCHANGED <<group, calling, m_stopSignal, user, interrupt, bounds>>

Continued(s, p) == IF s[p] = "Waiting" THEN [s EXCEPT ![p] = "Running"] ELSE s

ContinueProcessWait ==
    /\ Receives("continueProcessWait")
    /\ \/ /\ Alive(Request.link)
          /\ state' = Clean(Continued(state, Request.link))
          /\ m_waits' = Append(m_waits, [waitId |-> Request.id, pgid |-> group[Request.link]])
          /\ UNCHANGED toUser
       \/ /\ ~Alive(Request.link)
          /\ toUser' = Append(toUser, Complete(Request.id)) /\ UNCHANGED <<state, m_waits>>
    /\ UNCHANGED <<group, calling, m_stopSignal, user, interrupt, bounds>>

ContinueProcess ==
    /\ Receives("continueProcess")
    /\ state' = IF Alive(Request.link) THEN Clean(Continued(state, Request.link)) ELSE state
    /\ UNCHANGED <<group, m_waits, calling, m_stopSignal, toUser, user, interrupt, bounds>>

\* The process handles the error, or fails.
ContinueWithFailure ==
    /\ Receives("continueProcessWithFailure")
    /\ \/ state[Request.link] = "Waiting"
          /\ \/ /\ state' = Continued(state, Request.link) /\ UNCHANGED <<m_waits, toUser>>
             \/ StartGroup([state EXCEPT ![Request.link] = "ended"], group[Request.link])
       \/ state[Request.link] # "Waiting" /\ UNCHANGED <<state, m_waits, toUser>>
    /\ UNCHANGED <<group, calling, m_stopSignal, user, interrupt, bounds>>

\* Also ProcessList::joinProcess(), joinProcessGroup()
JoinProcess ==
    LET p == Request.link
        q == Request.other
        old == group[q]
    IN  /\ Receives("joinProcess")
        /\ \/ /\ Alive(p) /\ Alive(q)
              /\ state' = IF state[q] = "ended" THEN state ELSE [state EXCEPT ![q] = "Runnable"]
              /\ group' = [r \in Processes |-> IF group[r] = old THEN group[p] ELSE group[r]]
              /\ CompleteWaits(old)
           \/ ~(Alive(p) /\ Alive(q)) /\ UNCHANGED <<state, group, m_waits, toUser>>
        /\ UNCHANGED <<calling, m_stopSignal, user, interrupt, bounds>>

DetachProcess ==
    /\ Receives("detachProcess")
    /\ \/ Alive(Request.link) /\ CompleteWaits(group[Request.link])
       \/ ~Alive(Request.link) /\ UNCHANGED <<m_waits, toUser>>
    /\ UNCHANGED <<state, group, calling, m_stopSignal, user, interrupt, bounds>>

TerminateProcessAndGroup ==
    /\ Receives("terminateProcessAndGroup")
    /\ LET g == group[Request.link] IN
       /\ state' = [p \in Processes |-> IF group[p] = g /\ Alive(p) THEN "ended" ELSE state[p]]
       /\ CompleteWaits(g)
    /\ UNCHANGED <<group, calling, m_stopSignal, user, interrupt, bounds>>

\* The game is closed, with every process: terminateAllProcesses().
ResetGame ==
    /\ Receives("reset")
    /\ state' = [p \in Processes |-> IF Alive(p) THEN "gone" ELSE state[p]]
    /\ UNCHANGED <<group, m_waits, calling, m_stopSignal, toUser, user, interrupt, bounds>>

\* Mutant: the signal remains set.
ConfirmOnly ==
    /\ Receives("confirmInterrupt")
    /\ toUser' = Append(toUser, [op |-> "onInterruptConfirm"])
    /\ UNCHANGED <<script, m_stopSignal, user, interrupt, bounds>>

ConfirmInterrupt ==
    /\ Receives("confirmInterrupt")
    /\ m_stopSignal' = FALSE
    /\ toUser' = Append(toUser, [op |-> "onInterruptConfirm"])
    /\ UNCHANGED <<script, user, interrupt, bounds>>

Runs(p) == state[p] = "Running" /\ ~calling

\* postNewTask(): the process waits for the user interface.
PostNewTask(p, callout) ==
    /\ Runs(p) /\ calls < MaxCalls
    /\ calls' = calls + 1
    /\ toUser' = Append(toUser, To(callout, p))
    /\ state' = Clean([state EXCEPT ![p] = "Waiting"])
    /\ UNCHANGED <<group, m_waits, calling, m_stopSignal, toScript, user, interrupt>>
    /\ UNCHANGED <<tasks, breaks, lastId>>

\* call(): the thread waits.
Call(p) ==
    /\ Runs(p) /\ calls < MaxCalls
    /\ calls' = calls + 1
    /\ calling' = TRUE
    /\ toUser' = Append(toUser, [op |-> "call"])
    /\ UNCHANGED <<state, group, m_waits, m_stopSignal, toScript, user, interrupt>>
    /\ UNCHANGED <<tasks, breaks, lastId>>

\* checkProcess()
CheckProcess(p) ==
    /\ Runs(p) /\ m_stopSignal
    /\ state' = Clean([state EXCEPT ![p] = "Waiting"])
    /\ toUser' = Append(toUser, To("onProcessInterrupted", p))
    /\ UNCHANGED <<group, m_waits, calling, m_stopSignal, toScript, user, interrupt, bounds>>

\* The process ends; run() proceeds with the next in its group.
EndProcess(p) ==
    /\ Runs(p)
    /\ LET s == [state EXCEPT ![p] = "ended"]
           next == { q \in Processes : s[q] = "Runnable" /\ group[q] = group[p] }
       IN  StartGroup(IF next = {} THEN Clean(s) ELSE s, group[p])
    /\ UNCHANGED <<group, calling, m_stopSignal, toScript, user, interrupt, bounds>>

----------------------------------------------------------------------------
(* User interface thread.                                                  *)

Top == Last(loops)
Stops == (Top.loop = "wait" /\ Top.id \in m_stopped) \/ (IsOwn(Top) /\ Top.id \in ended)
Send(ms) == toScript' = toScript \o ms

\* A NullControl rejects everything, after requests ms.
Fail(link, ms) ==
    /\ Send(Append(ms, To("continueProcessWithFailure", link)))
    /\ UNCHANGED <<ended, m_outputState>>

\* Control c ends, and its event loop with it.
EndWith(c, link, target) ==
    /\ m_outputState' = [m_outputState EXCEPT ![c] = [link |-> link, target |-> target]]
    /\ ended' = ended \cup {c}

\* A Control stays if there is nothing to change, or a screen if it is the target itself.
Stays(kind, target) ==
    kind \notin {"keymap", "null"} /\ (target = "none" \/ (kind = "screen" /\ target = "own"))
Changes(kind, target) == kind # "null" /\ ~Stays(kind, target)

\* Mutant: also when the process is passed on, it continues.
ChangeAndContinue(ls, c, link, target, ms) ==
    \/ Kind(ls, c) = "null" /\ Fail(link, ms)
    \/ /\ Stays(Kind(ls, c), target)
       /\ Send(Append(ms, To("continueProcess", link)))
       /\ UNCHANGED <<ended, m_outputState>>
    \/ /\ Changes(Kind(ls, c), target)
       /\ Send(ms \o IF Kind(ls, c) = "keymap" THEN <<>>
                     ELSE <<To("detachProcess", link), To("continueProcess", link)>>)
       /\ EndWith(c, link, target)

\* handleStateChange() of Control c, after requests ms
HandleStateChange(ls, c, link, target, ms) ==
    \/ Kind(ls, c) = "null" /\ Fail(link, ms)
    \/ /\ Stays(Kind(ls, c), target)
       /\ Send(Append(ms, To("continueProcess", link)))
       /\ UNCHANGED <<ended, m_outputState>>
    \/ /\ Changes(Kind(ls, c), target)
       /\ Send(ms \o IF Kind(ls, c) = "keymap" THEN <<>> ELSE <<To("detachProcess", link)>>)
       /\ EndWith(c, link, target)

\* Mutant: those who wait for the process are not told.
EndQuietly(ls, c, link) ==
    \/ Kind(ls, c) = "null" /\ Fail(link, <<>>)
    \/ /\ Kind(ls, c) \in {"screen", "console"}
       /\ Send(<<To("continueProcess", link)>>)
       /\ UNCHANGED <<ended, m_outputState>>
    \/ /\ Kind(ls, c) \in {"dialog", "keymap"}
       /\ Send(<<>>)
       /\ EndWith(c, link, IF Kind(ls, c) = "keymap" THEN "end" ELSE "none")

\* handleEndDialog(): screens and consoles are no dialogs.
HandleEndDialog(ls, c, link) ==
    \/ Kind(ls, c) = "null" /\ Fail(link, <<>>)
    \/ /\ Kind(ls, c) \in {"screen", "console"}
       /\ Send(<<To("continueProcess", link)>>)
       /\ UNCHANGED <<ended, m_outputState>>
    \/ /\ Kind(ls, c) \in {"dialog", "keymap"}
       /\ Send(IF Kind(ls, c) = "keymap" THEN <<>> ELSE <<To("detachProcess", link)>>)
       /\ EndWith(c, link, IF Kind(ls, c) = "keymap" THEN "end" ELSE "none")

\* Mutant: the process is continued without waiting for it.
ShowAndContinue(ls, kind, parent, link, input, ms) ==
    LET c == lastId + 1 IN
    /\ lastId' = c
    /\ loops' = Append(ls, Own(kind, c, parent, link))
    /\ Send(ms \o IF input = None THEN <<>> ELSE <<To("continueProcess", input)>>)

\* A new Control, with a process to continue before its own event loop
Show(ls, kind, parent, link, input, ms) ==
    LET c == lastId + 1 IN
    /\ lastId' = c
    /\ loops' = Append(ls, Own(kind, c, parent, link))
                  \o IF input = None THEN <<>> ELSE <<Wait(c)>>
    /\ Send(ms \o IF input = None THEN <<>> ELSE <<ContinueWait(c, input)>>)

\* handlePopupConsole()
HandlePopupConsole(ls, c, link) ==
    \/ Kind(ls, c) = "null" /\ Fail(link, <<>>) /\ loops' = ls /\ UNCHANGED lastId
    \/ /\ Kind(ls, c) \in {"screen", "dialog"}
       /\ Show(ls, "console", c, None, link, <<To("detachProcess", link)>>)
       /\ UNCHANGED <<ended, m_outputState>>
    \/ /\ Kind(ls, c) = "console"
       /\ Send(<<To("continueProcess", link)>>)
       /\ loops' = ls /\ UNCHANGED <<lastId, ended, m_outputState>>
    \/ /\ Kind(ls, c) = "keymap"
       /\ EndWith(c, link, "console")
       /\ Send(<<>>) /\ loops' = ls /\ UNCHANGED lastId

\* An event loop that is not told to end processes a request.
Handles(op) ==
    /\ ~Stops /\ toUser # <<>> /\ Head(toUser).op = op
    /\ toUser' = Tail(toUser)
Link == Head(toUser).link
UserOnly == UNCHANGED <<script, m_stopSignal, interrupt, tasks, calls, breaks>>

OnTaskComplete ==
    /\ Handles("onTaskComplete")
    /\ m_stopped' = m_stopped \cup ({Head(toUser).id} \cap ControlsIn(loops))
    /\ UNCHANGED <<toScript, loops, ended, m_outputState, lastId>> /\ UserOnly

\* handleOverlayMessage(), or a default that rejects the request
Reply(op, reply) ==
    /\ Handles(op)
    /\ Send(<<To(reply, Link)>>)
    /\ UNCHANGED <<user, lastId>> /\ UserOnly

OverlayMessage ==
    \/ Kind(loops, TopControl) # "null" /\ Reply("message", "continueProcess")
    \/ Kind(loops, TopControl) = "null" /\ Reply("message", "continueProcessWithFailure")

\* To another screen, to the same, or to the end of the game or program
GotoScreen ==
    /\ Handles("goto")
    /\ \E target \in Targets : HandleStateChange(loops, TopControl, Link, target, <<>>)
    /\ UNCHANGED <<loops, m_stopped, lastId>> /\ UserOnly

EndDialog ==
    /\ Handles("end")
    /\ HandleEndDialog(loops, TopControl, Link)
    /\ UNCHANGED <<loops, m_stopped, lastId>> /\ UserOnly

ShowDialog ==
    /\ Handles("dialog")
    /\ Show(loops, "dialog", TopControl, Link, None, <<>>)
    /\ UNCHANGED <<m_stopped, ended, m_outputState>> /\ UserOnly

PopupConsole ==
    /\ Handles("console")
    /\ HandlePopupConsole(loops, TopControl, Link)
    /\ UNCHANGED m_stopped /\ UserOnly

\* handleUseKeymap()
UseKeymap ==
    /\ Handles("keymap")
    /\ \/ /\ Kind(loops, TopControl) \notin {"keymap", "null"}
          /\ Show(loops, "keymap", TopControl, None, Link, <<>>)
          /\ UNCHANGED <<ended, m_outputState>>
       \/ /\ Kind(loops, TopControl) = "keymap"
          /\ Send(<<To("continueProcess", Link)>>)
          /\ UNCHANGED <<loops, lastId, ended, m_outputState>>
       \/ /\ Kind(loops, TopControl) = "null"
          /\ Fail(Link, <<>>) /\ UNCHANGED <<loops, lastId>>
    /\ UNCHANGED m_stopped /\ UserOnly

\* processCall(), for a process that waits
ProcessCall ==
    /\ Handles("call")
    /\ calling' = FALSE
    /\ UNCHANGED <<state, group, m_waits, m_stopSignal, toScript, user, interrupt, bounds>>

OnProcessInterrupted ==
    /\ Handles("onProcessInterrupted")
    /\ \/ /\ m_interrupting
          /\ m_interruptedProcesses' = m_interruptedProcesses \cup {Link}
          /\ UNCHANGED toScript
       \/ /\ ~m_interrupting
          /\ Send(<<To("terminateProcessAndGroup", Link)>>)
          /\ UNCHANGED m_interruptedProcesses
    /\ UNCHANGED <<script, m_stopSignal, user, m_interrupting, bounds>>

\* Mutant: without an interrupted process, the interrupt goes on.
ConfirmSome ==
    /\ Handles("onInterruptConfirm")
    /\ loops' = IF m_interruptedProcesses # {} THEN Append(loops, Ask) ELSE loops
    /\ UNCHANGED m_interrupting
    /\ UNCHANGED <<script, m_stopSignal, toScript, m_stopped, ended, m_outputState>>
    /\ UNCHANGED <<m_interruptedProcesses, bounds>>

OnInterruptConfirm ==
    /\ Handles("onInterruptConfirm")
    /\ \/ /\ m_interruptedProcesses # {}
          /\ loops' = Append(loops, Ask) /\ UNCHANGED m_interrupting
       \/ /\ m_interruptedProcesses = {}
          /\ m_interrupting' = FALSE /\ UNCHANGED loops
    /\ UNCHANGED <<script, m_stopSignal, toScript, m_stopped, ended, m_outputState>>
    /\ UNCHANGED <<m_interruptedProcesses, bounds>>

----------------------------------------------------------------------------
(* The user acts.                                                          *)

\* executeTaskInternal(), in event loops ls
ExecuteTask(ls, c) ==
    /\ tasks' = tasks + 1
    /\ loops' = Append(ls, Wait(c))
    /\ Send(<<Execute(c)>>)

Acts(kinds) == ~Stops /\ Top.loop \in kinds

EnterCommand ==
    /\ Acts({"screen", "dialog", "console"}) /\ tasks < MaxTasks
    /\ ExecuteTask(loops, Top.id)
    /\ UNCHANGED <<script, m_stopSignal, toUser, m_stopped, ended, m_outputState, interrupt>>
    /\ UNCHANGED <<calls, breaks, lastId>>

\* A dialog is closed, or a keymap left, with a key it has or another.
Close(kinds, target) ==
    /\ Acts(kinds)
    /\ ended' = ended \cup {Top.id}
    /\ m_outputState' = [m_outputState EXCEPT ![Top.id].target = target]
    /\ UNCHANGED <<script, m_stopSignal, requests, loops, m_stopped, interrupt, bounds>>

CloseDialog == Close({"dialog", "console"}, "none")
PressKey == Close({"keymap"}, "none") \/ (tasks < MaxTasks /\ Close({"keymap"}, "key"))

InterruptRunningProcesses ==
    /\ Acts({"wait", "screen", "dialog"}) /\ ~m_interrupting /\ breaks < MaxBreaks
    /\ m_interrupting' = TRUE /\ m_stopSignal' = TRUE
    /\ breaks' = breaks + 1
    /\ Send(<<[op |-> "confirmInterrupt"]>>)
    /\ UNCHANGED <<script, toUser, user, m_interruptedProcesses, tasks, calls, lastId>>

\* askInterrupt() returns.
Answer(ok) ==
    LET ps == SetToSeq(m_interruptedProcesses)
        op == IF ok THEN "terminateProcessAndGroup" ELSE "continueProcess"
    IN  /\ Top.loop = "ask"
        /\ loops' = Front(loops)
        /\ Send([i \in DOMAIN ps |-> To(op, ps[i])])
        /\ m_interruptedProcesses' = {} /\ m_interrupting' = FALSE
        /\ UNCHANGED <<script, m_stopSignal, toUser, m_stopped, ended, m_outputState, bounds>>

----------------------------------------------------------------------------
(* An event loop that was told to end ends.                                *)

Below == Last(Front(loops))

\* Mutant: after the hook, the game thread is not reset.
GoOnOnly == loops' = Front(loops) /\ UNCHANGED toScript

\* Who waited goes on; after the hook AfterExit, it resets the game thread.
GoOn ==
    \/ Below.loop # "null" /\ loops' = Front(loops) /\ UNCHANGED toScript
    \/ /\ Below.loop = "null"
       /\ loops' = <<Own("null", Top.id, None, None)>>
       /\ Send(<<Reset(Below.link)>>)

\* Mutant: EventLoop::run() leaves m_stopped set.
ReturnStopped ==
    /\ Stops /\ Top.loop = "wait"
    /\ GoOn
    /\ UNCHANGED <<toUser, m_stopped, ended, m_outputState, lastId>> /\ UserOnly

ReturnFromWait ==
    /\ Stops /\ Top.loop = "wait"
    /\ GoOn /\ m_stopped' = m_stopped \ {Top.id}
    /\ UNCHANGED <<toUser, ended, m_outputState, lastId>> /\ UserOnly

Leaves(kind) == Stops /\ Top.loop = kind
Out == m_outputState[Top.id]

\* play() returns, with a process in its InputState; then a NullControl executes a hook.
Exit ==
    LET c == lastId + 1 IN
    /\ lastId' = c
    /\ loops' = <<Own("null", c, None, Out.link), Wait(c)>>
    /\ Send(<<Execute(c)>>)

\* play(): the next screen continues the process, or there is none.
LeaveScreen ==
    /\ Leaves("screen")
    /\ \/ Out.target = "screen" /\ Show(Front(loops), "screen", None, None, Out.link, <<>>)
       \/ Out.target = "exit" /\ Exit
    /\ UNCHANGED <<toUser, m_stopped, ended, m_outputState>> /\ UserOnly

\* The process of the dialog joins the one that opened it.
LeaveDialog ==
    /\ Leaves("dialog")
    /\ loops' = Front(loops)
    /\ HandleStateChange(loops', Top.parent, Top.link, Out.target,
                         <<Join(Top.link, Out.link)>>)
    /\ UNCHANGED <<toUser, m_stopped, lastId>> /\ UserOnly

LeaveConsole ==
    /\ Leaves("console")
    /\ loops' = Front(loops)
    /\ HandleStateChange(loops', Top.parent, Out.link, Out.target, <<>>)
    /\ UNCHANGED <<toUser, m_stopped, lastId>> /\ UserOnly

\* defaultHandleUseKeymap(): the key's command, or what the process asked of the keymap
LeaveKeymap ==
    LET ls == Front(loops) IN
    /\ Leaves("keymap")
    /\ \/ /\ Out = NoOutput
          /\ loops' = ls /\ UNCHANGED <<toScript, ended, m_outputState, tasks, lastId>>
       \/ /\ Out.target = "key"
          /\ ExecuteTask(ls, Top.parent) /\ UNCHANGED <<ended, m_outputState, lastId>>
       \/ /\ Out.link # None /\ Out.target \in Targets \cup {"none"} /\ loops' = ls
          /\ HandleStateChange(ls, Top.parent, Out.link, Out.target, <<>>)
          /\ UNCHANGED <<tasks, lastId>>
       \/ /\ Out.target = "end" /\ loops' = ls
          /\ HandleEndDialog(ls, Top.parent, Out.link)
          /\ UNCHANGED <<tasks, lastId>>
       \/ /\ Out.target = "console"
          /\ HandlePopupConsole(ls, Top.parent, Out.link)
          /\ UNCHANGED tasks
    /\ UNCHANGED <<script, m_stopSignal, toUser, m_stopped, interrupt, calls, breaks>>

----------------------------------------------------------------------------

GameThread ==
    \/ ExecuteTaskWait \/ ContinueProcessWait \/ ContinueProcess \/ ContinueWithFailure
    \/ JoinProcess \/ DetachProcess \/ TerminateProcessAndGroup \/ ConfirmInterrupt
    \/ ResetGame
    \/ \E p \in Processes : CheckProcess(p) \/ EndProcess(p) \/ Call(p)
    \/ \E p \in Processes, callout \in Callouts : PostNewTask(p, callout)

UserThread ==
    \/ OnTaskComplete \/ OverlayMessage \/ Reply("error", "continueProcessWithFailure")
    \/ GotoScreen \/ EndDialog \/ ShowDialog \/ PopupConsole \/ UseKeymap
    \/ ProcessCall \/ OnProcessInterrupted \/ OnInterruptConfirm
    \/ ReturnFromWait \/ LeaveScreen \/ LeaveDialog \/ LeaveConsole \/ LeaveKeymap

\* What a user must do to go on
UserReacts == CloseDialog \/ PressKey \/ \E ok \in BOOLEAN : Answer(ok)

Next == GameThread \/ UserThread \/ UserReacts \/ EnterCommand \/ InterruptRunningProcesses

Spec == Init /\ [][Next]_vars
FairSpec == Spec /\ WF_vars(GameThread) /\ WF_vars(UserThread) /\ WF_vars(UserReacts)

----------------------------------------------------------------------------
(* Properties.                                                             *)

\* Event loops and requests
Frames == [loop : {"screen", "dialog", "console", "keymap", "null", "wait", "ask"},
           id : Controls \cup {None}, parent : Controls \cup {None},
           link : Processes \cup {None}]
Asks == Callouts \cup {"onProcessInterrupted"}
Continues == {"continueProcess", "continueProcessWithFailure", "terminateProcessAndGroup"}
ToScript ==
    { Execute(c) : c \in Controls }
    \cup { ContinueWait(c, p) : c \in Controls, p \in Processes }
    \cup { To(op, p) : op \in Continues \cup {"detachProcess"}, p \in Processes }
    \cup { Join(p, q) : p \in Processes, q \in Processes \cup {None} }
    \cup { Reset(p) : p \in Processes \cup {None} }
    \cup {To("continueProcess", None), [op |-> "confirmInterrupt"]}
ToUser ==
    { To(op, p) : op \in Asks, p \in Processes } \cup { Complete(c) : c \in Controls }
    \cup {[op |-> "call"], [op |-> "onInterruptConfirm"]}

\* Every variable has its type.
TypeOK ==
    /\ state \in [Processes -> {"new", "Runnable", "Running", "Waiting", "ended", "gone"}]
    /\ group \in [Processes -> Processes]
    /\ m_waits \in Seq(WaitsFor(Processes))
    /\ {calling, m_stopSignal, m_interrupting} \subseteq BOOLEAN
    /\ toScript \in Seq(ToScript) /\ toUser \in Seq(ToUser)
    /\ loops \in Seq(Frames) /\ loops # <<>> /\ Head(loops).loop \in {"screen", "null"}
    /\ m_stopped \subseteq Controls /\ ended \subseteq Controls
    /\ m_outputState \in [Controls -> [link : Processes \cup {None},
                                       target : Targets \cup {"none", "end", "console", "key"}]]
    /\ m_interruptedProcesses \subseteq Processes
    /\ lastId \in Controls /\ {tasks, calls, breaks} \subseteq Nat /\ tasks <= MaxTasks

\* Requests after which a wait of Control c will end
ForTask(c) == {Execute(c)} \cup { ContinueWait(c, p) : p \in Processes }

\* Each event loop that waits for a script will get one call to end, and no call is left
\* for a later one, although the loops of a Control nest, stop() does not stack, and a
\* process has several who wait for it (eventloop.hpp:26-28): calls that are still to come,
\* on their way, or made and not yet seen.
OneEndPerWait ==
    /\ TypeOK
    /\ \A c \in Controls :
        Number(loops, {Wait(c)})
          = Number(toScript, ForTask(c))
            + Number(m_waits, [waitId : {c}, pgid : Processes])
            + Number(toUser, {Complete(c)}) + Cardinality(m_stopped \cap {c})

\* In how many hands process p is
Takes(p) ==
    { ContinueWait(c, p) : c \in Controls } \cup { Join(q, p) : q \in Processes } \cup {Reset(p)}
Hands(p) ==
    Number(toUser, { To(op, p) : op \in Asks })
    + Number(toScript, { To(op, p) : op \in Continues } \cup Takes(p))
    + Number(loops, { f \in Frames : f.link = p })
    + Cardinality({ c \in ControlsIn(loops) : m_outputState[c].link = p })
    + Cardinality(m_interruptedProcesses \cap {p})

\* A process that waits for the user interface is in the hands of exactly one who will
\* continue, join or terminate it, and one that does not wait is in nobody's
\* (userside.hpp:132-136, 185-195, 286-288).  One that play() leaves behind when the game
\* is closed (the FIXME at application.cpp:435) nobody has but reset(), which is to come.
OneHand == \A p \in Processes : Hands(p) = IF state[p] = "Waiting" THEN 1 ELSE 0

\* Somebody waits for a process that runs: what the user interface has detached, it continues
\* with continueProcessWait() (control.hpp:139-141).
Attended == \A p \in Processes :
    state[p] = "Running" => \E i \in DOMAIN m_waits : m_waits[i].pgid = group[p]

\* What play() leaves behind does not stay: reset() terminates it, after the hook that runs
\* in between has ended ("That one must be terminated", application.cpp:435).
LeftBehind(p) == \E i \in DOMAIN loops : loops[i].loop = "null" /\ loops[i].link = p
LeftEnds == \A p \in Processes : LeftBehind(p) ~> state[p] = "gone"

\* A process is interrupted only while the user interface waits for that, and never by a
\* signal that was meant for an earlier one ("This should not happen", userside.cpp:336).
InterruptsExpected ==
    /\ \A i \in DOMAIN toUser :
         toUser[i].op \in {"onProcessInterrupted", "onInterruptConfirm"} => m_interrupting
    /\ m_stopSignal => m_interrupting

\* Whoever waits for a script returns: the script ends, or the user interface detaches it
\* (control.hpp:85-87).  Only a keymap whose script asks it to end may keep waiting.
Waiting(c) == \E i \in DOMAIN loops : loops[i] = Wait(c)
KeymapLeaves ==
    Top.loop = "wait" /\ Top.id \in ended /\ \E i \in DOMAIN loops :
        loops[i].loop = "keymap" /\ loops[i].id = Top.id
WaitsReturn == \A c \in Controls : Waiting(c) ~> (~Waiting(c) \/ KeymapLeaves)

\* It does keep waiting, although the process that called UseKeymap is meant to be able to
\* change the screen (keymaphandler.hpp:28-31).
KeymapReturns == KeymapLeaves ~> ~KeymapLeaves

\* An interrupt is decided, so that another one is possible.
InterruptsEnd == m_interrupting ~> ~m_interrupting
=============================================================================
