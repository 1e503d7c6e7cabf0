# Verification of c2ng

c2ng (PCC2 ng) is a client for the strategy game VGA Planets together with the
services behind a play-by-web site: host scheduling, files, mail, forum,
sessions.  This directory holds TLA+ models of the parts whose correctness
depends on the order in which things happen, TLC configurations that check
them, and TLAPS proofs about them.  Paths below are relative to the repository.

1. [The system](#1-the-system)
2. [Modules](#2-modules)
3. [Runs and bounds](#3-runs-and-bounds)
4. [Fairness](#4-fairness)
5. [Proofs](#5-proofs)
6. [Disagreements between code and documentation](#6-disagreements-between-code-and-documentation)
7. [Plan](#7-plan)
8. [Not modelled](#8-not-modelled)

## 1. The system

The client is one process with a user interface thread, a game thread and a few
helpers.  Threads do not share game data: they post `Runnable` objects to each
other's `util::RequestDispatcher` (doc/HackingGuide.txt, "Threads").  The game
thread owns the game and the script engine (`interpreter`), and `client/si`
lets scripts and the user interface wait for each other.

The server side is a set of processes that talk through text protocols and
share a key/value database; each executes one command at a time under a mutex,
some have a second thread (doc/ServerHackingGuide.txt).

| component | state | operations | interaction | hard behaviour | what makes it correct |
|---|---|---|---|---|---|
| `util::RequestThread` | task queue, semaphore, stop flag | post, run, stop, destroy | every thread posts to it; tasks post to their own thread | lost wakeups, shutdown with queued tasks, tasks posted by destructors | order, exactly-once deletion, execution unless stopped |
| `util::RequestSender`, `RequestReceiver` | reference-counted link between two threads | postRequest, makeTemporary, convert, disconnect | on top of a dispatcher | the receiver dies while requests are queued or running | no request runs on a dead object; objects die in their own thread |
| `interpreter::ProcessList`, `Process` | ordered list of processes; state, group, priority, finalizer of each | create, resume, start, join, continue, fail, terminate, run, remove | called by `client/si` and by script commands, calls back through signals | re-entrance of `run()`, joins of groups, failures, exceptions | one active process per group, groups are finished neither too early nor never |
| `interpreter::MutexList` | named locks, owner, reference count | create, load, query, disown | script values own references, processes own locks | owner dies, virtual machine reloaded, list dies first | a lock is held as long as somebody refers to it |
| `interpreter` (compiler, expressions, VM files) | programs, values | compile, evaluate, save, load | | sequential | data |
| `client::si` | wait ids, waits by process group, interrupt flags | executeTaskWait, continue, join, detach, interrupt | user interface thread and game thread exchange requests | answers that arrive late, interrupts racing continuations, nested waits | every wait is answered once, by its own process |
| `server::host` scheduler | three lists of games, locked games, suspension | notify, suspend, run due item, host commands | scheduler thread, command thread, host programs | commands between any two sections of the scheduler, failing runs, failing database | exactly the due games are locked, one event per game, none missing |
| `server::host` schedules | list of schedules per game | next host, expiry, early host | called by the scheduler | boundaries of times | exactly one next event, never in the past |
| `server::host` storage, ranking | files, scores | import, export, install | | sequential | data |
| `server::file` | directories, content-addressed objects | get, put, remove, snapshot, collect garbage | shared by all services | collection interleaved with writes | no reachable object is removed |
| `server::router` | sessions, child processes | start, stop, save, talk, expire | child processes, file server | conflicts, timeouts, dying children | no two conflicting sessions, unsaved data is not lost |
| `server::mailout` | messages being prepared and sent, unique ids, confirmations | prepare, send, confirm, restart | command thread, transmitter thread | restarts, cleanup during preparation | a message is sent or expires |
| `server::talk` | forum, notification queue, rate limits | post, read, notify | notification thread | oversleeping, errors in the middle | a posting is notified at most once |
| `server::user`, `mailin`, `nntp`, `monitor`, `doc`, `play`, ... | little | request, response | | sequential | data |
| `game` (with `sim`, `vcr`, `actions`, `proxy`) | the universe | everything a player does | game thread only; simulations in worker threads | sequential, except `ParallelRunner` and the proxies | data |
| `gfx`, `ui`, `client` screens and dialogs | widgets | draw, handle keys | user interface thread only | driven by users | |

Everything in this code that is hard to test is listed, at its line, under
`hazards` in `PROJECT.json`, with the properties that would catch it.

## 2. Modules

### RequestDispatcher, RequestThread (src/util/requestdispatcher.hpp, requestthread.cpp)

`RequestDispatcher` is the contract of the interface: Runnables are executed in
order, not nested, and deleted once; a dispatcher that is going away deletes the
rest without executing it.  Its variables are histories: `posted`, `ran`,
`destroyed`.

`RequestThread` is the implementation.

| model | code |
|---|---|
| `m_taskQueue`, `m_taskSemaphore`, `m_stop` | the members of these names |
| `worker`, `tasks` | the position in `run()` and its local vector |
| `dtor`, `leftover` | the position in the destructor and its local vector |
| `PostFromClient`, `PostFromTask` | `postNewRunnable()`, called by anybody, or by a task or by a task's destructor in the worker |
| `AwaitSemaphore`, `FetchStopped`, `FetchTasks`, `RunTask`, `DestroyTask` | `run()`: wait, the section under `m_taskMutex`, the loop over the batch |
| `StopSetFlag`, `StopPost` | the two halves of `stop()`: the flag under the mutex, the semaphore outside |
| `Join`, `DrainSwap`, `DrainDestroy`, `DrainEnd` | the destructor after `stop()` |

`Client` stops posting when the destructor begins, because nobody may use an
object that is being destroyed; tasks in the worker, and tasks that are being
deleted, still may post, and do.  Two details carry the design: the semaphore
is raised for an empty-to-nonempty change only, so the invariant has to relate
the count to the queue *and* to a worker on its way to it
(`WakeupAccounting`); and the destructor deletes in a loop, since a deleted task
may post.  The debugging delay and the logging of exceptions are left out.

### ProcessList (src/interpreter/processlist.cpp, process.cpp)

| model | code |
|---|---|
| `m_processes`, `m_processId`, `m_processGroupId`, `m_running` | the members of these names; processes are their Ids |
| `state`, `group`, `priority`, `m_finalizer` | the members of `Process` |
| `current` | the local variable `proc` of `run()` |
| `started`, `finished` | history of `startProcessGroup()` and of `sig_processGroupFinish` |
| `failedInTask` | history: `FailInTask` has happened |
| `Create` ... `RemoveTerminatedProcess` | the operations of the same names |
| `PrepareGroup`, `PrepareGroupOfSuspended` | `allocateProcessGroup()` followed by `resumeProcess()` or `resumeSuspendedProcesses()`, as all callers do |
| `StartProcessGroup` | `startProcessGroup()`, inlined in every operation that calls it |
| `Run`, `RunProcess`, `Instruction`, `HandleState`, `RunEnd`, `AbortRun` | the loop of `run()`; an instruction that ends `Process::run()` is its resulting state |
| `FailInTask` | `Process::suspend()` whose task calls `continueProcessWithFailure()` before it returns |

All of this happens in one thread, but not in one call: `run()` calls back into
commands and listeners.  An operation is enabled where the code can call it.
`CallerActive` are the moments at which program code runs, including code called
from `run()`.  `HoldsLink(p)` says that `p` waits and the user interface has
its link, which is what `joinProcess`, `continueProcess`,
`continueProcessWithFailure` and `terminateProcessGroup` are called for, through
requests that arrive in the game thread while `run()` is idle.  A
list that is sorted is not assumed: `Destination` is the search of
`handlePriorityChange()`.  `RemoveTerminatedProcess` is one turn of the loop,
because deleting a process can call back.  What a process computes, variables,
frames and the bytecode are left out.

### HostCron (src/server/host/cronimpl.cpp, gamearbiter.cpp, exec.cpp, host*.cpp)

| model | code |
|---|---|
| `m_changedGames`, `m_futureEvents`, `m_dueEvents`, `m_suspendUntil`, `m_stopFlag`, `m_wake` | the members of these names; `m_futureEvents` is a set because the code keeps it sorted, `Listings` gives its order where the order shows |
| `m_lockedGames` | the games `GameArbiter` holds with intent `Host` |
| `phase`, `at`, `until`, `hostRunNow`, `broken` | database: state of the game, the time at which the schedule and the turns make it due, the time at which the current schedule expires, the flag, the broken marker |
| `pc`, `gameId`, `result`, `startTime` | the scheduler thread and its local variables |
| `missed`, `requested`, `late` | histories used by properties: how the scheduler learned of the last change of a game; host runs that were requested; host runs that began while the scheduler was suspended, since it was; the first two are kept for the games in `Tracked`, so that runs whose properties do not need them have fewer states |
| `GetGameEvent` | `getGameEvent()`, what the rest of the service sees of the lists |
| `Kept` (module Lists) | `std::list::remove()`, `remove_if()`: a recursive function, because facts about it are proved; `MCHostCron` compares it with `SelectSeq` |
| `ModifySchedule` ... `SuspendScheduler` | commands |
| `GenerateInitialSchedule` ... `UpdateSchedules` | the sections of `schedulerMain()` and the functions it calls, one action for each section under a mutex |
| `Export`, `Import`, `HostFails` | `runHost()` and `runMaster()`: a section under the mutex, the host program without it, a second section |
| `DatabaseFails`, `CleanUp` | an exception outside of the `try` block of `runDueItem()`, and the handler in `run()` |

Commands hold `Root::mutex()` from begin to end, and everything else that reads
or writes the database holds it too, so a command is one step.  Its call of
`handleGameChange()` takes `m_mutex` for itself; nothing else the command does
can be seen in between, hence it belongs to that step.  The lists are protected
by `m_mutex`, which the scheduler releases between any two of its actions; where
the code nests the two mutexes (`moveDueItems()`, the update in
`schedulerMain()`, the initial schedule) there is one action.  Locks that a command
takes with intent `Critical` end with the command, so only `Host` locks are
state.

What a schedule *says* is abstract: `at` and `until` are changed by commands
to any value they can produce, `NextSchedule` chooses among the values a next
schedule can have, and `GameEvents` keeps the decision among master, host,
schedule change and no event, and the rule that a host time is never before the
present.  The grace period after a schedule change is one of the ways
a time moves to the future.  A running game that was never hosted is mastered
instead of hosted in the code; in the model it is hosted, which takes the same steps.
`KickstartGame` is the one command that does not ask the arbiter, as in the code.

### MailQueue (src/server/mailout/root.cpp, message.cpp, transmitterimpl.cpp, mailqueue.cpp)

| model | code |
|---|---|
| `lastId`, `preparing`, `sending`, `uniqueIdMap`, `data`, `status` | database: message counter, the two sets of messages, the map of unique Ids, the messages, and the confirmation status of each user's address ("u" unknown, "r" requested, "c" confirmed) |
| `m_wake`, `m_stopRequest`, `m_workQueue`, `m_postponedMessages` | `TransmitterImpl::Data`, protected by its mutex; `Kept` (see HostCron) is `remove()` of the lists |
| `drafts` | messages that are some session's `currentMessage` |
| `pc`, `msg`, `who`, `stale`, `mid`, `left`, `keep` | position and local variables of the two threads |
| `StartMessage`, `Send`, `CancelMessage`, `RequestAddress`, `ConfirmAddress`, `RunQueue` | commands, up to their first access after which the other thread can interfere |
| `SendMap`, `SendMove`, `SendPost` | `Message::send()`: unique Id, move between sets, hand over to the transmitter |
| `RequestConfirmation` | `Root::requestConfirmation()`, by either thread |
| `CleanupPreparing`, `CleanupSending`, `CleanupRemove` | `Root::cleanupUniqueIdMap()` |
| `Wait`, `GetNextWork`, `CheckActive`, `SendMessage` ... `RemoveFromWork` | the transmitter's loop |
| `ExpireMessage`, `ExpireRequest` | time passes: an entry's deadline is reached when somebody looks |
| `CommandFails`, `ConfirmationFails`, `WorkFails` | an exception of the database in a command, a confirmation request, the transmitter |
| `Restart`, `StartupSend`, `StartupEnd` | the service ends between any two database accesses and `Root::prepareQueues()` puts the queue in order |

Each access of the database is atomic, no two of them are, and the mutex of the
server thread does not keep the transmitter away; so there is an action for
each access whose effect the other thread can see.  `promised` records
the deliveries owed from the moment at which the client was told, `void` the messages
that must not be delivered any more.

### SessionRouter (src/server/router/root.cpp, session.cpp, sessionrouter.cpp)

| model | code |
|---|---|
| `m_sessions` | `Root::m_sessions`, by Id |
| `session` | per Id the `Session` object and its child: `args`, `active`, `modified`, `used`, `age`; of the child `alive`, `dirty` |
| `outdated`, `missed` | the file server: directories of which it has old contents; history: those for which the request at the end of a session was lost |
| `out.deaf` | directories whose requests the file server does not get during this command |
| `group` | the loop of a command that acts on several sessions |
| `Create`, `CreateFails`, `List`, `Talk`, `SessionAction`, `GroupStart`, `GroupStep`, `GroupEnd`, `StopAllSessions` | the commands |
| `Stop`, `Start`, `Restart`, `Save`, `TalkSave`, `TalkOther`, `HandleError` | the methods of `Session`, as sets of results |
| `RemoveExpiredSessions`, `Resized` | the housekeeping that each command begins with |
| `ChildDies`, `Tick` | the environment |

The router executes one command at a time and talks to child processes synchronously;
what interferes are the children (they crash, or refuse to save, at any point,
also within a command) and time.  A group command is a loop over the list
that a failing session ends early; it takes a step for each session.  A conflict
marker is a function from directories to "W", "R" or nothing.

`notifyFileServer()` drops every exception, so `NotifyFileServer` clears only the
directories of which the file server hears: `out` is threaded through everything a command
does, and `out.deaf` is chosen when the command (or a step of a group) begins.  Two requests for one
directory within one step hence arrive both or not at all; requests of different
directories, and of different commands, are lost independently.  `NotifyLast` is
the request of `stop()`, which nothing repeats; a directory it does not get through for enters
`missed` until it is told of it or somebody writes it again.  A router without a file
server (`m_pFileBase = 0`) sends no requests and has nobody whose contents
could be old; it is not an instance.

### ObjectStore, FileTree (src/server/file/ca/)

`FileTree` is what the store promises: a tree of files and directories, snapshots,
each operation at once or not at all, over restarts.  `ObjectStore` implements it
with objects that are identified by their content.

| model | code |
|---|---|
| `disk`, `master`, `tags` | directory "objects", files "refs/heads/master" and "refs/tags/*" |
| `m_refCounter` | `InternalReferenceCounter`, lost when the server ends |
| `m_id`, `m_commitId` | the trees of the `DirectoryHandler`s of root and subdirectory, the commit of the `RootUpdater` |
| `todo` | what the operation in progress will still do, as a sequence of elementary steps |
| `CreateFile` ... `RemoveSnapshot` | the operations of `DirectoryHandler` and `SnapshotHandler`; each computes its steps |
| `AddNew`, `AddExisting`, `Link`, `Unlink`, `UnlinkLast`, `Erase`, `WriteRef` | the elementary steps of `ObjectStore`, `InternalReferenceCounter` and the reference files |
| `torn` | the file of master was truncated and not written: it reads as no commit (`ReadMaster`), while the handlers in memory go on |
| `leaked`, `health` | histories: an operation of this server failed; a removal was not finished ("cut"), and what it left is being used ("unsound") |
| `Exception` | a file operation fails, or a precondition is not met; the rest of the operation is not done; a reference that was being written may be truncated |
| `RemovalFails` | `unlinkObject()` fails in reading the object, before what it mentions is given up, or in removing its file, afterwards; the handlers keep the old Ids |
| `Overlook` | `loadObject()` takes a file that cannot be opened for one that does not exist, so that `addObject()` writes it again and sets its counter to 1 |
| `Stop`, `Start`, `StartCrashes` | the server ends between any two steps, also between the truncation and the writing of a reference; it starts, collecting garbage if it is told to, which may crash, too, and refuses to work if a tree is missing (files are not looked at) |

`Listed` is the order in which a tree object has its entries, `Kept` (see HostCron) takes those that
there are from the order of all names.  An object is its own Id, so two objects with the same content are the same, as
with SHA-1.  The object cache changes no result and is left out, and so are
pack files, which are read only.

`health` makes the limits of the store explicit.  Garbage collection is off by default, and each
start chooses.  A removal that is cut short, by a crash or a failure, has given up what an object
mentions while the object is still there.  The operation that failed leaves the server "cut", and the next
one makes it "unsound".  After a crash, a start that collects garbage removes the rest and is sound;
a start that does not is sound only if no object on the disk mentions a missing one
(`Start`).  A later start may be sound again: if it collects garbage, or if there is nothing left of
that kind, and references reach nothing that is missing (`Stop`).  Objects are written in one
step: an object file that is truncated by a crash makes `loadObject()` fail, as would any damage of
the disk, and blocks storing that content; this is not modelled.

### GarbageCollector (src/server/file/ca/garbagecollector.cpp)

The collector by itself, in slices between which users change the store, as its
interface permits.  `m_objectsToKeep`, `m_treesToCheck`,
`m_nextPrefixToCheck` and `m_numErrors` are its members; `AddCommit`, `CheckObject`,
`RemoveGarbageObjects` (one directory) its methods, `Fails` their errors, `Change` any
operation on the store that leaves it complete, `Restart` a new collector.  `Child` is the
content of objects, arbitrary in the proofs.

### ScriptInterface (src/client/si/)

| model | code |
|---|---|
| `state`, `group` | the processes, each starts in a group of its own; see ProcessList |
| `m_waits`, `calling` | `ScriptSide::m_waits`; `ScriptSide::call()` waits for the user interface |
| `toScript`, `toUser` | the two request queues, each in order (RequestDispatcher) |
| `m_stopSignal` | the signal that is shared between the threads |
| `loops` | the nested event loops: screens, dialogs, consoles, keymaps, waits, and the question whether to interrupt |
| `m_stopped`, `ended` | event loops that were told to end and have not returned yet |
| `m_outputState` | what `Control`s will end with |
| `m_interrupting`, `m_interruptedProcesses` | `UserSide` |
| `ExecuteTaskWait` ... `TerminateProcessAndGroup`, `ConfirmInterrupt`, `ResetGame` | requests, executed by `ScriptSide`, and that of `UserSide::reset()` |
| `PostNewTask`, `Call`, `CheckProcess`, `EndProcess` | what a running script does: a callout that waits, a synchronous one, a look at the stop signal, its end |
| `OnTaskComplete`, `GotoScreen`, `EndDialog`, `ShowDialog`, `PopupConsole`, `UseKeymap`, `ProcessCall`, `OnProcessInterrupted`, `OnInterruptConfirm` | requests, executed by `UserSide` and the topmost `Control` |
| `EnterCommand`, `CloseDialog`, `PressKey`, `InterruptRunningProcesses`, `Answer` | the user |
| `ReturnFromWait`, `LeaveScreen`, `LeaveDialog`, `LeaveConsole`, `LeaveKeymap` | an event loop returns |
| `Exit`, `GoOn` | `play()` returns with a process in its `InputState`; the browser's `NullControl` executes the hook AfterExit, then `reset()` |

An event loop can only return when it is the innermost one; what the code does after
`EventLoop::run()` is a separate action for that reason.  The two queues are exactly what
`RequestThread` was shown to provide.  Each process starts in a group of its own; joins merge
groups.

A script goes to one of the `Targets`: another screen, the screen it is on ("own"), or out of the
game.  In the last case `play()` leaves its loop with the process still in `InputState`, where
the code says "FIXME: at this point, we may have a process in InputState. That one must be
terminated" (application.cpp:435).  The model does what the caller does: the event loops are replaced by a
`NullControl` (loop "null", whose `link` is the process left behind), which waits for the hook
AfterExit and rejects whatever a script asks of it; `GoOn` then sends the request of `reset()`, and
`ResetGame` terminates all processes.  With that, the game is over: playing another one is not
modelled.  The target "own" is harmless when a screen gets it directly, but not through a
console or a keymap (section 6); the runs that hold, and the theorems, leave it out.

## 3. Runs and bounds

`MC*.tla` holds the instances.  In every table "holds" means for all states
reachable within the bounds.

| run | bounds | states | properties |
|---|---|---|---|
| RequestThread | 3 tasks | 976 | `WakeupAccounting`, `Fifo`, `ImplementsDispatcher`, `EveryTaskReleased`, `DestructorReturns` |
| ProcessList | 2 processes, 2 groups, 2 priorities, exceptions, failing tasks | 27,928 | `OneActivePerGroup`, `FinishedGroupEmpty`, `FinalizedAtRest`, `StartsInPriorityOrder`, `StartedGroupFinishes` |
| HostCron | 2 games, 2 commands, 2 times, failing database | 2,316,607 | `LockedGamesAreDue`, `OneEventPerGame`, `HostedGameVisible`, `HostedGameUnchanged`, `OneRunWhileSuspended` |
| HostCronNotify | 1 game, 3 commands, 2 times, failing hosts | 407,390 | `AnnouncedGamesListed`, `RequestsProcessed`, `LocksReleased` |
| MailQueue | 3 messages, 4 events, 1 user, 1 unique Id, crashes, failing database | 1,015,655 | `Mirror`, `WakeAccounted`, `NothingLost`, `VoidNotSent`, `WorkProcessed` |
| SessionRouter | 3 Ids, 1 directory, at most 2 sessions, timeouts 1, failing children, lost requests | 870,532 | `ProcessesBounded`, `ConflictFree`, `FileServerCurrent` |
| GarbageCollector | 2 commits, 2 trees, 2 files in 2 store directories, 3 changes, 2 collectors, failing reads and removals | 87,904 | `NothingLost`, `NothingSkipped`, `Completes` |
| ObjectStore | 3 operations, 2 starts, 2 contents, a file name, a subdirectory, a snapshot, crashes and failures | 182,529 | `CountersExact`, `NoGarbage`, `StoredCurrent`, `Promised` |
| ScriptInterface | 2 commands, 3 callouts of any kind, 2 interrupts, targets another screen and the end | 62,020 | `OneEndPerWait`, `OneHand`, `Attended`, `InterruptsExpected`, `WaitsReturn`, `InterruptsEnd`, `LeftEnds` |

The other three runs look for a violation; see section 6.  Two more configurations, not among
the runs of `PROJECT.json`, are instances of other shapes in which the same properties hold:
`SessionRouterForget.cfg` (two sessions that write both of two directories or one, of which
requests are lost independently; 477,688 states, `FileServerCurrent`) and
`ObjectStoreSharing.cfg` (6 operations without crashes and failures; 529,421 states,
`CountersExact` and `NoGarbage`).  The type invariants of
HostCron, MailQueue, SessionRouter, ObjectStore and ScriptInterface are the first conjunct
of the first property of their run; all of them are proved.

Why these bounds are enough to meet the interesting cases:

- *RequestThread.*  Three tasks can be in three places: one being executed, one
  waiting in the batch, one in the queue; or two in the destructor's vector and
  a third one posted by the first one's destructor.
- *ProcessList.*  Two processes are an active one and one that is queued, joined,
  continued or terminated meanwhile, or two that are queued in either order of
  their priorities; two groups are needed for joins.  For more of everything there
  are proofs of all safety properties of this module.
- *HostCron.*  Two commands are a change and another one that overtakes it,
  or a suspension and a change; two games are one that is being hosted and one
  that is due or changed meanwhile.  The clock has two values, so that an event
  can be due, become due, or be behind the end of the clock.  With one game three
  commands are possible, together with host runs that fail.  One of the two games
  is on a manual schedule.
- *MailQueue.*  Three messages are one being delivered, one that replaces it, and a
  confirmation request that is queued meanwhile by either thread; messages have two
  receivers, one of whom has to confirm, so that one is postponed when it is half done.
  Four events are two messages, a cancellation or cleanup, and a restart.
- *SessionRouter.*  Three sessions with a limit of two are needed to meet the limit and a
  conflict at once, or a displaced session and a crash; two readers and a writer of one
  directory are the conflicts there are.  A request may be lost in each command that
  sends some.  The timeouts are equal: none of the properties depends on when a session expires, but on
  that it does, at any command, which a clock with one tick gives.
- *GarbageCollector.*  A tree is shared by both commits, on different levels, and the
  objects of each commit are in both directories of the store, so that commits
  added during the removal need objects before and behind its position.
- *ObjectStore.*  Two contents and two places make objects shared and unshared.  With crashes and
  failures, three operations are one that stores something, one that is cut short at any step, and
  one that meets what was left, before or after a start with or without garbage collection.
  Without them (`ObjectStoreSharing.cfg`), six operations are create, copy, snapshot, remove, in any order.
- *ScriptInterface.*  Three callouts nest two dialogs, consoles or keymaps and continue
  in the innermost one; two commands let one wait within the other, and join; two
  interrupts are one that is answered while the other is requested.

The destructor ends a RequestThread, all processes may have ended, services may be
stopped or idle with no command to come, and the bounds on Ids, commands, changes and the
clock stop the models as well; so all configurations say `CHECK_DEADLOCK FALSE`.  That nothing
hangs *before* its end is what the liveness properties say.

Every property of a run has a mutant, an operator next to the one it replaces that
differs by a plausible bug (a dropped guard, a missing wakeup, a list that is
not cleaned); TLC finds the property violated by it.  Mutants are marked
`Mutant:` and not used by the specifications.

### What the properties mean

*RequestThread.* `WakeupAccounting`: the semaphore count is exact. `Fifo`: what was
posted is what was deleted, followed by batch, destructor's vector and queue.
`ImplementsDispatcher`: refinement of `RequestDispatcher` (execution in order, once,
before deletion), with "discarding" being the worker's end.  `EveryTaskReleased`,
`DestructorReturns`: nothing stays behind, whoever posts and destroys in whatever order.
`RunsBeforeDestroyed` is proved only.

*ProcessList.* `OneActivePerGroup`: a group is a queue.  `FinishedGroupEmpty`: the
signal "finished" is never early, also with respect to what happens later.
`StartedGroupAlive` (proved only): a group that was started and is not finished has a
process that will start the next one; `StartedGroupFinishes` is the liveness part of "no
group gets stuck".  `FinalizedAtRest`: outcomes are reported only of processes that do not
run any more.  `StartsInPriorityOrder`, and `ListInOrder` (proved only): moving only
the changed process suffices to keep the list sorted, and scanning it starts processes in
order of priority.

*HostCron.* `LockedGamesAreDue` (the class comment: "All games in this queue are
locked", and conversely none stays locked).  `OneEventPerGame`: hence
`GameArbiter::lock()` never fails in `moveDueItems()`, about which the code has a
FIXME.  `HostedGameVisible` (the class comment: "so people see that something happens
there"): whatever arrives meanwhile, a game that is being worked on is reported as due or
under reconsideration, never as unscheduled or due later.  `HostedGameUnchanged`: host runs
for a long time without a mutex, and no command gets at the game.  `OneRunWhileSuspended`:
a suspension does not stop the run that was decided before it, because
`runDueItem()` reads `m_suspendUntil` at cronimpl.cpp:606 and starts host at 624 without
reading it again; it does stop everything else.  Whatever was due, announced or being
computed when the suspension came, at most that one run begins until it ends, also
if it is extended.  `AnnouncedGamesListed`: the class's invariant, for tracked games
whose last change was announced and not overtaken; section 6 is about the others.
`RequestsProcessed`, `LocksReleased`: liveness, no notification is slept on and no
game stays locked.

*MailQueue.* `NothingLost`: what a client was promised is in the database until it is
delivered, void or expired, over crashes.  `VoidNotSent`: what was
cancelled or replaced in time is not delivered, not even after its replacement was sent and
its unique Id forgotten.  `Mirror`, `WakeAccounted`: the transmitter's memory and
semaphore say the same as the database.  `WorkProcessed`: the work queue is worked off.

*SessionRouter.* `ProcessesBounded`: processes and sessions correspond, up to the limit.
`ConflictFree`: no two sessions that exclude each other are active.
`FileServerCurrent`: when the file server has old contents of a directory, either an active
session that wrote it will still tell (also if it is not modified any more, because a request after
its save was lost), or the single request that the end of a session sends was lost.  The latter the code accepts
(session.cpp:362-366 drops the exception), and nothing repeats it; however a session ends otherwise
(closed, displaced, timed out, crashed child), the file server knows.  `ModifiedAccurate` (proved,
in no run): SAVE reaches every session that has something to save.

*GarbageCollector.* `NothingLost`: nothing that a commit reaches is removed.
`NothingSkipped`: and everything that was not found to be reachable is, after a sweep; that nothing else
was kept is `OnlyReachableKept` (proved, in no run).  `Completes`: there is an end to it, although commits that are added start it over.

*ObjectStore.* `Promised`: the store implements `FileTree`, read through whatever is on the
disk at each moment.  Crashes and failures have no effect, with two exceptions that are part of
the property: while master is being written, or after that failed, the tree may become unreadable or
empty (`DamageFiles`), and a snapshot whose reference is being written may get lost
(`DamageSnapshot`); and nothing is promised of an unsound server.  `CountersExact`: counters, which
decide what is removed, are never too low.  `NoGarbage`: what is not used any more was removed.
`StoredCurrent`: the Ids kept by directory, parent and root agree with the disk.  All but the first are
about sound servers as well.  That the exception for unsound servers is needed is what
ObjectStoreRemoval and ObjectStoreStale show (section 6).

*ScriptInterface.* `OneEndPerWait`: each nested event loop that waits gets exactly one call
to end.  `OneHand`: each waiting script is in exactly one hand; that of a game that was left
is the hand of `reset()`, which is still to come.  `Attended`: somebody waits for each script that runs, so what
was detached is not just continued.  `InterruptsExpected`:
no stop signal and no answer is left over for a later interrupt.  `WaitsReturn`,
`InterruptsEnd`: nobody waits for ever.  `LeftEnds`: what `play()` leaves behind is terminated.

## 4. Fairness

- `RequestThread!FairThreadSpec`: weak fairness of the worker and of a destructor that
  has begun: threads are scheduled, semaphores wake up, tasks terminate.  Nobody is
  obliged to post or to destroy the thread.
- `ProcessList!FairSpec`: weak fairness of the loop of `run()` and of calling it,
  since every handler that continues or starts a process calls it.  Strong fairness
  that a process that executes eventually ends or suspends, and that a
  process that waits is eventually continued: a process may wait several times before it
  ends, so weak fairness of these would be too little; the user interface
  answers every request it got.  No fairness for terminating, joining, failing or any other
  user's decision.
- `HostCron!FairSpec`: weak fairness of the scheduler thread, of the host
  program (it terminates, successfully or not) and of the clock.  No fairness
  for commands, failures and shutdown.
- `MailQueue!FairSpec`: weak fairness of what the server thread has begun and of the
  transmitter thread.  No fairness for commands, expiry, failures and restarts.
- `GarbageCollector!GCFairSpec`: the caller tells the collector all commits, and calls
  it until it is done (directoryhandlerfactory.cpp:50); a call may fail each time.
- `ScriptInterface!FairSpec`: weak fairness of both threads, and of a user who is asked
  something: questions are answered, dialogs closed, keys pressed.  Nobody is
  obliged to enter commands or to interrupt scripts.

SessionRouter and ObjectStore state safety only: their operations are calls that return.

## 5. Proofs

| module | proofs about |
|---|---|
| `ListLemmas` | the operators on lists that the others share |
| `SchedulerProofs` | RequestThread and its refinement of RequestDispatcher; ProcessList |
| `HostCronProofs`, `SessionRouterProofs`, `MailQueueProofs` | the module of that name |
| `ObjectStoreProofs` | GarbageCollector; ObjectStore and its refinement of FileTree |
| `ScriptSideProofs`, `ScriptInterfaceProofs` | ScriptInterface: the invariant and the steps of the game thread; the steps of the user interface and the theorems |

They hold for every set of tasks, any number of processes, groups and priorities, every graph
of objects, finite or not, any finite number of games, with any bounds on time and commands,
any sessions, directories, limits and timeouts, any users, unique Ids and number of messages,
any number of script commands, callouts and interrupts, and any contents, names and snapshots of
a file store, with one directory in the root.  They use the assumptions on the constants only,
which TLC evaluates in every run; those about ObjectStore have the hypothesis `~Nested` in addition,
those about ScriptInterface `"own" \notin Targets`.
Where two models share a module of proofs, the smaller one's definitions have names of their own
(`ThreadSpec`, `GCSpec`).

**RequestThread.**  The invariant `ThreadInv` adds to the properties which local state
goes with which position (`Flow`) and that the executed tasks are the oldest ones
(`RanFirst`, `RanMatches`).  `WakeupAccounting` is inductive only with
`Flow`: that `dtor = "join"` contributes exactly one unit is a consequence of the
worker not being done and of the flag being set before.  `Fifo` is an equation
between concatenations; lemmas `MoveHead` and `AppendLast` say what taking the
head of one part and appending to the last part do to it.  Each action then
preserves one conjunct at a time.  `Implementation` shows that the initial states map
to initial states, and each step maps to a step of `RequestDispatcher` or to a
stutter, from `IInv` in both states.

**ProcessList.**  `TypeCorrect` needs `IdsAllocated` (Ids are not reused), and holds
whatever fails.  The group properties are inductive together, with two additions: a busy
process belongs to a started group (`BusyStarted`) and groups are allocated before
they are used (`GroupsAllocated`).  The argument: every operation that ends a process's activity
calls `startProcessGroup()` once for its group, in a state in which no other process of
it is busy; lemma `GroupProceeds` says that this either makes one queued process busy or
finishes an empty group.  All other actions are instances of
`QuietStep` (nothing about groups changes) or move a group as a whole (joins).  What is said
about groups ends with `FailInTask` (section 6); `failedInTask` remembers it, and the
induction is over `~failedInTask => GroupInv`.

The second part is about the order of the list.  `ListInOrder` is inductive with the types.  The lemmas are about the
list alone: `MoveIsPermutation` and `DestinationFits` say that an entry that is moved to where
`handlePriorityChange()` puts it leaves a sorted list, if only that entry was out of place;
`RemovalKeepsOrder` that removing one does.  `StepKinds` sorts all actions into those three
that touch the list, those that call `startProcessGroup()`, and those that start
nothing.  `StartsInPriorityOrder` and `FinalizedAtRest` follow for the second
kind, the former from the order, the latter from `FinishedEmpty` after the step.

**GarbageCollector.**  `Remembered` is what the collector knows as long as it could read
everything: it keeps the commits it was told, and what a kept object mentions is kept, too, or
will be looked at.  Removing is allowed only when nothing is left to be looked at; then the
kept part of a complete copy of everything the commits reach is complete itself (`Removal`),
so `NothingLost` is preserved whatever the graph.  `NothingSkipped` needs that the position
goes back to the start whenever an object is newly kept; `OnlyReachableKept` speaks of all closed
sets that contain the commits, which makes it inductive without a recursive definition of
reachability.

**HostCron.**  `IInv` has the types, the lists (`Queues`: one event for a game, locked games
are the due ones) and the thread's local variables (`Control`).  Neither of the latter is
inductive alone: that publishing an event does not give a due game a second one needs
`pc \in Requesting => gameId \notin DueGames`, which holds because `processRequests()` skips
due games *and* only the thread itself makes games due; that the update unlocks the right game
needs that it is the first of the due list during the whole run.  `CommandsAside` is the
other half: commands touch none of this.  `HostedGameUnchanged` then follows from the locks,
`HostedGameVisible` from the due list.  `OneRunWhileSuspended` needs `Current` in addition: what
is due when `runDueItem()` decides is a host or master run, whose time was adjusted in the same step,
and not the end of a schedule, which is not adjusted.  `LateInv` then says that while the
scheduler is suspended, the run that was decided before is still to begin or has begun, never both.

The last part is about `AnnouncedGamesListed`.  `Announced` strengthens `AnnouncedGamesListed`, which is not inductive because a
game can be "under reconsideration" in the middle of `processRequests()`: there it is still in
`m_changedGames`, and the event computed for it is there if one is wanted (`Wanted` says when,
independently of the clock).  The steps that remove an entry from a list (dropped request,
publication, move, update) each have to show where the game went.  `CommandKinds` says that a
command either announces its change or marks it as missed.

**SessionRouter.**  The invariant is stated of a record (`Good(R)`), not of the variables, since
a command takes the router through states nobody sees: some sessions stopped, those that ended
still listed.  `Sound` is what each method of `Session` guarantees whatever its result: parameters
stay, an inactive session becomes active by a restart only, and every directory that is or becomes
outdated, and was not missed (`Open`), has an active session that accounts for it.  `WithGood`, `StopAllGood` and `ResizedGood`
lift that to one session, a set of sessions, and the removal of inactive ones from the list; a command is
a composition of them.  For `Create`, the sessions that are left after the conflicting ones were
stopped do not conflict with the new one (`DisplacedGood`).  `ProcessesBounded` follows as the
list has each session once (`KeptList`).

**MailQueue.**  `IInv` was checked as an invariant of the run before it was proved.  The
database is changed by two threads, the lists by both, and each property depends on the others.
`Matching` is the invariant behind `Mirror`: the messages to send are those in memory and those that
are *due* (`IsDue`: some thread is about to put them on the work queue, or the restart still has to),
and nothing is due twice.  For that, the two threads must not queue the same message (`OneQueues`: the
transmitter queues confirmation requests only, which it made itself and no client can take up as a
draft), and the cleanup of unique Ids must not remove what a client queues meanwhile (`Cleaning`: what the
server looked at is still what the map says, since it is the only thread that changes entries of clients;
for confirmation requests, that is just what fails in section 6).  `WakeAccounted` is inductive
with `AtHead`: removing a message from the work queue is paid for by the unit that was taken for the first one,
so it has to be the first, and on the queue once (`Queues`).  `NothingLost` needs to know where a
delivery stands (`Serving`): while no receiver was kept for later, one that is still promised the message is
among those `left`, and when the message is erased, nobody is promised it.  Because cleanup,
replacement and failures change the data of messages too, `Owing` adds that a promise remembers the unique
Id its message has.  `VoidNotSent` is inductive with `Voids`: what was voided is not active, not active
stays so, and the transmitter begins with active messages only.  The proof
has one lemma for each part, over the steps of both threads, cut down to those that change something the part
is about (`ServerRests`, `TransmitterRests`, `OtherRests`).

**ObjectStore.**  The difficulty is that an operation computes all its steps in advance, and the
counters are wrong while it executes them.  `Net(todo, id)` is what the remaining steps
will add to the counter of `id`, minus the mentions of it that they will add; `Counted` says that
the counter with `Net` *is* the number of mentions (at least that, after a failure), for all objects that
have a counter or do not exist.  `Staged` has the order of the steps: until the reference is written,
`Net` from each place on is not positive (`Covered`), so that no counter becomes too low, what is
linked exists and what is unlinked belongs to an object that will be linked (`Linkable`); after that,
objects are only given up (`Cleaning`), where an object that is still to be erased counts as gone
(`Live`) and what it mentions is unlinked before.  Or the operation will find out that it cannot be done
(`Hopeless`).  `TrackedUp` says that counters do not begin in the middle: what mentions an object with a
counter was stored by this server, too.  The proof has a plan for each operation of users (`UserOpPlan`: its steps fit, whatever is shared
with whatever), which is where `ReplaceSub`, `Before` and the cases of the handlers matter, and a lemma for each
elementary step; `AddExisting` puts steps in front of the others, and `UnlinkLast` as many as the object
has content.

All of this (`Active`) holds while a sound server runs.  `IInv` is `Typed /\ Running /\ CutShort /\
Down`: `Running` says that, `CutShort` that a server whose removal has just failed does
nothing and still has all that references reach (`Whole`), and `Down` that a server that does not run
has no counters, and left `Whole` if it was sound.  Of an unsound server only `Typed` is known, weaker types that
the steps keep whatever they find.  It becomes sound again by a start, from `Whole`: the new
counters know of nothing, and what is found by its content is complete, because it was collected or
because nothing on the disk mentions a missing object.  A truncated master (`torn`) leaves the handlers as they
are; if the server ends then, master is nil, which is a sound state of a store that lost its
files.

`CountersExact` is `Counted` with nothing left to do.  `NoGarbage` climbs from a file over trees and the commit
to a reference by `TrackedUp`.  That nothing that is reached is ever missing (`Stored`) follows from
`Counted` while the server runs (what does not exist is not mentioned, `NotMentioned`), and from `Whole`
while it does not.  `Promised` needs `Intended` in addition: the commit
that will be written differs from the one of master by just the change the user asked for, a fact about trees
that is shown when the operation begins and lasts until `WriteRef`; all other steps are stutters of
`FileTree`, or damage the reference that is being written.

The hypothesis `~Nested` excludes a directory in d that is named d, too.  With it `StoredCurrent` is
violated (section 6), so it is no restriction of the proof but of the code.  That directories are
one level deep is a restriction of the model.

**ScriptInterface.**  None of the properties is inductive by itself, since each speaks of what is in one
place while requests are under way between two threads.  `IInv` was checked as an invariant of the run before
it was proved.  Its centre is a single token (`OneToken`): at most one process runs, asks the user
interface for something, is about to be continued, or is being interrupted.  `Attached` says what the token
needs: the innermost `Control` was not told to end, and its wait is registered for the group
of the process that has the token.  Therefore an answer always finds its wait, and a callout is
shown by the `Control` that is waiting for it.  The rest of `IInv` is what keeps that true:

- `Stack`: the shape of nested event loops.  Each one that was opened has the opener's wait directly
  below it; what is above the last wait is a question, or a key that will not wait any more.
- `Outputs`, `Dialogs`, `Keymaps`: a loop that ends has its result, and the script that has to be continued
  or joined with it.  `ParentFirst` is about keymaps, whose script goes on while its parent still waits for
  the same group: the parent's end comes before the keymap's, be it in `m_waits` or in the queue.
- `Users`, `Later`, `Detaches`: the order of requests in the queue.  A process is joined or detached before it
  is continued, and waits until then; a process that will be detached is not in anybody's hand any more.
- `Groups`: joins leave one active process per group.
- `Interrupts`: an interrupt is exactly one of a request, a confirmation or a question, and the stop signal is set
  as long as the request is not executed; what the script reported precedes the confirmation.
- `Credits`, `News`: each `Control` used up a callout and each task finds a new process, so that the bounds
  of the model never stop a step in the middle.
- `Resetting`: when the request of `reset()` is under way, `play()` has returned, its hook is over,
  and nobody has the token; so nothing but waiting processes is terminated.  (`SInv` is `IInv` with this; it
  is shown by what little each step sends.)

`OneHand` and `OneEndPerWait` are conjuncts: the former is disturbed where a request moves from one queue,
process or loop to another, the latter where a group is told that it has finished.  Lemmas count: `Number` of the
requests for a process before and after a step.  Steps that open, end or leave an event loop share lemmas
(`ShowKeeps`, `LeftKeeps`) about the stack and what is attached to it.  The violation of section 6
(`KeymapReturns`) is compatible with all of this: no wait is answered twice or by the wrong process,
the script just is not continued.

**ListLemmas** says what `Kept` returns: all entries in the set, in their order, as an increasing
function from the places of the result to those of the list.  `Kept` is a recursive
function; that it exists and what its values are is shown by an induction over a set of
numbers (`Induction`), which the well-foundedness of `<` provides without a theorem that takes an
operator as a parameter.  A second part is about lists without duplicates, like the transmitter's: what
adding, removing, taking the first and concatenating do to the set of entries, the length and the head.
A third one is about sums of lists of numbers (`Total`, a recursive function as well), which `Net` is.
The last one is about queues of requests: how many entries are in a set (`Number`), whether one precedes
another (`Precedes`), all of one kind precede all of another (`AllBefore`), or some entry is followed
by one of another kind (`Followed`), after the steps that change a queue.

Every safety property that a run checks and finds to hold is proved.  Only model-checked are the properties under
fairness, which the prover does not support (liveness and ENABLED): `EveryTaskReleased`,
`DestructorReturns`, `StartedGroupFinishes`, `RequestsProcessed`, `LocksReleased`, `WorkProcessed`,
`Completes`, `WaitsReturn`, `InterruptsEnd` and `LeftEnds`.

## 6. Disagreements between code and documentation

Three have a run that checks one property, taken from a comment of the code, and finds it
violated.

| run | property | what happens |
|---|---|---|
| MailQueueCleanup | `ConfirmationsKept` | `cleanupUniqueIdMap()` looks at an entry and then removes it by name; the transmitter, which queues confirmation requests, may have stored a newer message under that name in between. Its comment (root.cpp:269) says that all queueing happens in one thread. The request is not sent, and not repeated while the user counts as asked |
| ObjectStoreNested | `StoredCurrent` | `updateDirectoryReference()` compares a directory's new Id with its *parent's* Id: making d, then d/d, gives d the content that the root has, and the change does not arrive in the root |
| ScriptInterfaceKeymap | `KeymapReturns` | a script calls UseKeymap and then UI.GotoScreen (or ends a dialog, or opens the console): the keymap's own event loop is ended, but the loop inside that waits for the script is not, and the script waits for the user interface |

Eight more are the subject of properties in the modules without a run in `PROJECT.json`;
`tlc -config X.cfg MCModule.tla` shows each.

| configuration | property | what happens |
|---|---|---|
| HostCronOvertaken | `NotifiedGamesListed` | the last player joins while the scheduler is publishing the game's earlier, empty, schedule: the notification is removed with the old one |
| HostCronSilent | `ChangedGamesListed` | removing the open slots of a joining game (and some other commands) does not notify the scheduler |
| HostCronRequested | `RequestedHostRuns` | "run host now", then a suspension: the flag is removed, the run deferred, then forgotten |
| HostCronCrash | `LocksReleased` | after a database exception, due games stay locked until the service is restarted |
| ObjectStoreRemoval | `Complete` | a removal is cut short by a crash, here one of the garbage collection, which leaves a directory without its file; the next server creates the file anew with counter 1 ("If we create an object anew, we can set the reference counter safely", referencecounter.hpp:22), finds the directory, undoes the link (objectstore.cpp:212), and so removes the file: master names a directory without it. A crash in `unlinkObject()` (objectstore.cpp:268) leaves the same |
| ObjectStoreStale | `RootCurrent` | giving up the old commit fails (objectstore.cpp:268, 274) after master was rewritten (root.cpp:118); root.cpp:122 and directoryhandler.cpp:213 are skipped, the handlers keep the old Ids, and the next change drops the one that was stored. Master then does not "represent the current status" (root.hpp:35) |
| ScriptInterfaceOwn | `Attended` | a script in a console goes to the screen it is on: the console has detached it, and the screen continues it (controlscreen.cpp:723, called from control.cpp:179) without waiting for it, although control.hpp:139-141 asks for `continueProcessWait()` |
| SessionRouterRestart | `WritersAlone` | RESTART of a session that has ended does not look for conflicts (root.cpp:81), so that two sessions write one directory ("If there is a -W session, it must be the only one", session.cpp:45) |

In ScriptInterfaceOwn with larger bounds, a script that nobody waits for breaks other properties as
well: its second UI.GotoScreen finds a screen that ends already and overwrites its `OutputState`,
so that a process is in nobody's hand (`OneHand`, 4 callouts); or an interrupt meets a keymap that
hangs (`InterruptsEnd`, 4 callouts and an interrupt).

Smaller observations:

- A suspension task that fails its process before it returns makes the group proceed twice,
  in `continueProcessWithFailure()` and in `run()`; with one process queued, it executes
  while the group is declared finished.  That is why the group properties of ProcessList
  except what follows `FailInTask`.
- A process that suspended itself keeps its group Id and can be frozen by a task
  editor, so `terminateProcessGroup()` can terminate a frozen process, which the comment at
  processlist.cpp:123-124 rules out.
- `removeTerminatedProcesses()` deletes a process that ended while its group goes on,
  together with a finalizer that was not called yet (process.hpp:95-102).
- After the scheduler died, `handleGameChange()` goes on filling the list that
  cronimpl.cpp:351 clears "so scheduler reports 'nothing to do' to the outside".
- Mail: an address that is confirmed between the transmitter's look at it and the
  postponement of the message makes the message wait for the next RUNQUEUE.  A user is marked
  as asked before the request is queued; a crash in between means that
  nobody asks again for 200 days.  A crash after the transmission sends the
  mail again: delivery is at least once.
- File store: `createFile()` of a reference truncates, then writes; a crash in between
  leaves an unreadable master, which is taken for an empty one, and the garbage
  collection at the next start (root.cpp:244) removes everything.  `Promised` has that as
  `DamageFiles`.  Garbage collection checks that all trees can be read, but not that the files exist
  (garbagecollector.cpp:58-105).
- Scheduler: a suspension does not stop the run that was decided before it
  (`OneRunWhileSuspended`).
- Sessions: the request to the file server at the end of a session is not repeated when it is
  lost (session.cpp:362-366), so that the file server may keep old contents for as long as no other session
  writes the directory (`missed`).
- Sessions: a SAVE that failed marks the session unmodified all the same (session.cpp:239);
  `ModifiedAccurate` excepts it.

## 7. Plan

| module | subject | abstract specification | state |
|---|---|---|---|
| RequestThread, ProcessList, GarbageCollector, HostCron, SessionRouter, MailQueue, ObjectStore, ScriptInterface | see above | RequestDispatcher, FileTree | checked and proved |
| RequestSender | `util/requestsender.hpp`, `requestreceiver.hpp`: disconnect, makeTemporary, convert | a call on a dead object is a no-op | open |
| MutexList | `interpreter/mutexlist.cpp`: owner, references, virtual machine load | a lock with owner and holders | open |
| HostSchedule | `computeGameHostTimes` and `Schedule` as operators, against a declarative definition | `GameEvents` of HostCron | open |

## 8. Not modelled

Of the modelled parts: script variables set by the user interface, `callAsync()`,
what follows the first `reset()`, groups that are started with several processes and the
commands themselves (ScriptInterface; groups are the subject of ProcessList); templates, SMTP and
blocked addresses (MailQueue); truncated object files, the cache, pack files, `setMasterCommitId()` and more
than one level of subdirectories (ObjectStore); a collector on a live
store would bypass the store's cache and counters, so the two are modelled apart, as
the file server collects when it opens the store; the calendar arithmetic of schedules (HostCron).

Not at all: drawing, widgets and dialogs (driven by users, no promise to check); the game
model, file formats, combat and their numerics (sequential and over large data, covered
by unit tests); translation and evaluation of script programs; marshalling of the
text protocols; ranking and file transfer of the host service; build support, tests and
data.  These are nearly all of the repository's 474,900 lines, most of which are
sequential computations over unbounded data, with no interleaving, failure or order for a
model checker to explore; the models cover the parts in which those occur.
`PROJECT.json` lists each part with its reason.  The vendored library afl, which
provides threads, semaphores and the database client, is not part of the repository; its
primitives are modelled by their use.
