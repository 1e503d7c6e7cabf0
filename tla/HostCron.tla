------------------------------ MODULE HostCron ------------------------------
(***************************************************************************)
(* server::host::CronImpl, the scheduler of the host service, together     *)
(* with the GameArbiter and the commands that change what the scheduler    *)
(* has to do.  The scheduler thread moves games between three lists and    *)
(* runs host on them; the command thread executes one command at a time    *)
(* under Root::mutex().  A step of the scheduler thread is one section     *)
(* under Root::mutex() or m_mutex; a command is one step, because the      *)
(* database it changes is read only under Root::mutex().                   *)
(***************************************************************************)
EXTENDS Sequences, Integers, FiniteSets, Lists

CONSTANTS
    Games,          \* game Ids, positive numbers
    Manual,         \* games on a Manual schedule: hosted when hostRunNow is set
    MaxTime,        \* bound on the clock, which counts from 1
    MaxCalls,       \* bound on the number of commands
    Tracked,        \* games for which the history variables are kept
    Faults          \* "database": a database access of the scheduler fails;
                    \* "host": a host or master run fails

ASSUME GamesAssumption == Games \subseteq Nat \ {0} /\ IsFiniteSet(Games) /\ Manual \cup Tracked \subseteq Games
ASSUME BoundAssumption == MaxTime \in Nat \ {0} /\ MaxCalls \in Nat
ASSUME FaultsAssumption == Faults \subseteq {"database", "host"}

VARIABLES
    phase,          \* database: state of a game
    at,             \* database: when host (or master) is to run, 0 if it is not
    until,          \* database: when the current schedule expires, 0 if it does not
    hostRunNow,     \* database: games with the "run host now" flag
    broken,         \* database: games whose last run failed
    m_changedGames, m_suspendUntil, m_futureEvents, m_dueEvents, m_stopFlag,
    m_wake,         \* count of the semaphore
    m_lockedGames,  \* GameArbiter: games locked over several commands
    pc,             \* where the scheduler thread is
    gameId,         \* the game it works on
    result,         \* the event it computed for that game: a set of at most one
    startTime,      \* the time at which it started to work on a due game
    now,            \* Root::getTime()
    calls,          \* number of commands so far
    missed,         \* history: the last change of a game was "silent", that is,
                    \* without notification, or "overtaken" by an update
    requested,      \* history: games whose host run was requested and not yet made
    late            \* history: runs started while the scheduler is suspended

databaseVars == <<phase, at, until, hostRunNow, broken>>
listVars == <<m_changedGames, m_futureEvents, m_dueEvents>>
threadVars == <<gameId, result, startTime>>
envVars == <<now, calls>>
historyVars == <<missed, requested>>
vars == <<databaseVars, listVars, m_suspendUntil, m_stopFlag, m_wake, m_lockedGames,
          pc, threadVars, envVars, historyVars, late>>

Times == 0..(MaxTime+1)
Phases == {"preparing", "joining", "running", "finished"}
Actions == {"HostAction", "MasterAction", "ScheduleChangeAction"}
Events == [gameId : Games, action : Actions, time : Times]

Elements(s) == {s[i] : i \in DOMAIN s}
DueGames == {e.gameId : e \in Elements(m_dueEvents)}
FutureGames == {e.gameId : e \in m_futureEvents}

TypeOK ==
    /\ phase \in [Games -> Phases]
    /\ at \in [Games -> Times] /\ until \in [Games -> Times]
    /\ hostRunNow \subseteq Games /\ broken \subseteq Games
    /\ m_changedGames \in Seq(Games)
    /\ m_suspendUntil \in Times
    /\ m_futureEvents \subseteq Events
    /\ m_dueEvents \in Seq(Events)
    /\ m_stopFlag \in BOOLEAN /\ m_wake \in Nat
    /\ m_lockedGames \subseteq Games
    /\ pc \in {"init", "loop", "requests", "compute", "adjust", "publish", "move", "pick", "sleep", "idle",
               "check", "decide", "export", "hosting", "recompute", "update", "crashed", "dead", "done"}
    /\ gameId \in Games \cup {0}
    /\ pc \in {"compute", "adjust", "publish", "check", "decide", "export", "hosting", "recompute", "update"}
          => gameId # 0
    /\ result \subseteq Events /\ Cardinality(result) <= 1
    /\ startTime \in Times /\ now \in 1..MaxTime /\ calls \in 0..MaxCalls
    /\ missed \in [Games -> {"no", "silent", "overtaken"}]
    /\ requested \subseteq Games
    /\ late \in Nat

Init ==
    /\ phase \in [Games -> Phases]
    /\ at \in [Games -> {0, 1}]
    /\ \A g \in Games : at[g] # 0 => phase[g] \in (IF g \in Manual THEN {"joining"} ELSE {"joining", "running"})
    /\ until = [g \in Games |-> 0]
    /\ hostRunNow = {}
    /\ broken = {}
    /\ m_changedGames = <<>>
    /\ m_suspendUntil = 0
    /\ m_futureEvents = {}
    /\ m_dueEvents = <<>>
    /\ m_stopFlag = FALSE
    /\ m_wake = 0
    /\ m_lockedGames = {}
    /\ pc = "init"
    /\ gameId = 0
    /\ result = {}
    /\ startTime = 0
    /\ now = 1
    /\ calls = 0
    /\ missed = [g \in Games |-> "no"]
    /\ requested = {}
    /\ late = 0

-----------------------------------------------------------------------------
(* Schedules *)

Later(s, t) == IF s > t THEN s ELSE t

Event(g, action, time) == [gameId |-> g, action |-> action, time |-> time]

(* Order of two events: struct ByTime. *)
Before(d, e) == d.time < e.time \/ (d.time = e.time /\ d.gameId < e.gameId)

(* s lists the events of S in this order. *)
InOrder(s, S) == Elements(s) = S /\ \A i, j \in DOMAIN s : i < j => Before(s[i], s[j])

Listings(S) == {s \in [1..Cardinality(S) -> S] : InOrder(s, S)}

(* computeGameTimes() at time t, for a game with host time a and schedule  *)
(* expiry u: no event or one.                                              *)
GameEvents(g, a, u, t) ==
    LET wanted == IF g \in Manual \cap hostRunNow THEN t ELSE a
        time == Later(wanted, t)
    IN IF g \in broken THEN {}
       ELSE IF phase[g] = "joining" /\ a # 0 THEN {Event(g, "MasterAction", a)}
       ELSE IF phase[g] # "running" THEN {}
       ELSE IF wanted # 0 /\ (u = 0 \/ time <= u) THEN {Event(g, "HostAction", time)}
       ELSE IF u # 0 THEN {Event(g, "ScheduleChangeAction", u)}
       ELSE {}

(* computeGameTimes() drops an expired schedule from the database. *)
Expired(g, t) == phase[g] = "running" /\ g \notin broken /\ until[g] # 0 /\ until[g] <= t

(* What the next schedule in the list of game g may say. *)
NextSchedule(g, t, a, u) == (a = 0 \/ (a > t /\ g \notin Manual)) /\ (u = 0 \/ u > t)

(* The database update of computeGameTimes(g) at time t. *)
ExpireSchedule(g, t) ==
    \/ ~Expired(g, t) /\ UNCHANGED <<at, until>>
    \/ /\ Expired(g, t)
       /\ \E a, u \in Times :
             /\ NextSchedule(g, t, a, u)
             /\ at' = [at EXCEPT ![g] = a]
             /\ until' = [until EXCEPT ![g] = u]

Adjusted(e) ==
    IF e.action # "ScheduleChangeAction" /\ m_suspendUntil > e.time
    THEN [e EXCEPT !.time = m_suspendUntil] ELSE e

(* adjustForSuspension() *)
AdjustForSuspension(E) == {Adjusted(e) : e \in E}

-----------------------------------------------------------------------------
(* Notification of the scheduler *)

(* Does a notification for g come after its event was computed and before  *)
(* it is taken off m_changedGames?                                         *)
Overtaken(g) == pc \in {"adjust", "publish"} /\ gameId = g

Miss(g, how) == missed' = [missed EXCEPT ![g] = IF g \in Tracked THEN how ELSE "no"]

(* handleGameChange() *)
HandleGameChange(g) ==
    /\ m_changedGames' = Append(m_changedGames, g)
    /\ m_wake' = m_wake + 1
    /\ Miss(g, IF Overtaken(g) THEN "overtaken" ELSE "no")

(* A command that does not notify the scheduler. *)
NoNotification(g) ==
    /\ Miss(g, "silent")
    /\ UNCHANGED <<m_changedGames, m_wake>>

-----------------------------------------------------------------------------
(* Queries *)

(* getGameEvent(): a due game is reported with time 0, which means now. *)
GetGameEvent(g) ==
    IF g \in Elements(m_changedGames) THEN Event(g, "UnknownAction", 0)
    ELSE IF g \in DueGames
    THEN [m_dueEvents[CHOOSE i \in DOMAIN m_dueEvents : /\ m_dueEvents[i].gameId = g
                                                     /\ \A j \in 1..(i-1) : m_dueEvents[j].gameId # g] EXCEPT !.time = 0]
    ELSE IF g \in FutureGames
    THEN CHOOSE e \in m_futureEvents : /\ e.gameId = g
                                      /\ \A d \in m_futureEvents : d.gameId = g => d = e \/ Before(e, d)
    ELSE Event(g, "NoAction", 0)

-----------------------------------------------------------------------------
(* Commands; Root::mutex() is held from begin to end. *)

Command ==
    /\ ~m_stopFlag
    /\ calls < MaxCalls
    /\ calls' = calls + 1
    /\ UNCHANGED <<broken, m_suspendUntil, m_futureEvents, m_dueEvents, m_stopFlag, m_lockedGames, pc, threadVars, now, late>>

(* Mutant: the command accesses the game with intent Simple. *)
SimpleCommand(g) == Command /\ g \in Games

(* GameArbiter::Guard with intent Critical, released when the command ends. *)
CriticalCommand(g) == Command /\ g \notin m_lockedGames

(* Host times a command may give a running game: no host, or in the future. *)
Reschedule(g, a) == a = 0 \/ (a > now /\ g \notin Manual)

(* HostSchedule: a schedule is added, replaced, modified, dropped. *)
ModifySchedule(g, a, u) ==
    /\ CriticalCommand(g)
    /\ IF phase[g] = "running" THEN Reschedule(g, a) ELSE a = at[g]
    /\ u = 0 \/ u > now
    /\ at' = [at EXCEPT ![g] = a]
    /\ until' = [until EXCEPT ![g] = u]
    /\ hostRunNow' = hostRunNow \ {g}
    /\ requested' = requested \ {g}
    /\ HandleGameChange(g)
    /\ UNCHANGED phase

(* HostTurn::submit: the last missing turn permits an early host. *)
SubmitTurn(g, a) ==
    /\ CriticalCommand(g)
    /\ phase[g] = "running"
    /\ a = at[g] \/ a >= now
    /\ at' = [at EXCEPT ![g] = a]
    /\ HandleGameChange(g)
    /\ UNCHANGED <<phase, until, hostRunNow, requested>>

(* HostGame::setConfig of hostRunNow. *)
RequestHost(g) ==
    /\ CriticalCommand(g)
    /\ hostRunNow' = hostRunNow \cup {g}
    /\ requested' = IF g \in (Tracked \cap Manual) \ broken /\ phase[g] = "running" THEN requested \cup {g} ELSE requested
    /\ HandleGameChange(g)
    /\ UNCHANGED <<phase, at, until>>

(* HostPlayer::join: a joining game starts a while after its last slot is  *)
(* taken, a running one may now have a missing turn.                       *)
Join(g, a) ==
    /\ CriticalCommand(g)
    /\ \/ phase[g] = "joining" /\ at[g] = 0 /\ a \in {0, now + 1}
       \/ phase[g] = "running" /\ (a = at[g] \/ Reschedule(g, a))
    /\ at' = [at EXCEPT ![g] = a]
    /\ HandleGameChange(g)
    /\ UNCHANGED <<phase, until, hostRunNow, requested>>

(* HostPlayer::resign: a slot of a joining game is open again, all turns   *)
(* of a running game may now be in.                                        *)
Resign(g, a) ==
    /\ CriticalCommand(g)
    /\ \/ phase[g] = "joining" /\ a = 0
       \/ phase[g] = "running" /\ (a = at[g] \/ a >= now)
    /\ at' = [at EXCEPT ![g] = a]
    /\ HandleGameChange(g)
    /\ UNCHANGED <<phase, until, hostRunNow, requested>>

(* HostGame::setState, and Game::setState: only a game that starts to run  *)
(* is reported to the scheduler.                                           *)
SetState(g, new, a) ==
    /\ CriticalCommand(g)
    /\ new # phase[g]
    /\ phase' = [phase EXCEPT ![g] = new]
    /\ \/ new = "joining" /\ a \in {0, now}
       \/ new = "running" /\ (a = now \/ Reschedule(g, a))
       \/ new \in {"preparing", "finished"} /\ a = 0
    /\ at' = [at EXCEPT ![g] = a]
    /\ requested' = requested \ {g}
    /\ IF new = "running" THEN HandleGameChange(g) ELSE NoNotification(g)
    /\ UNCHANGED <<until, hostRunNow>>

(* HostSlot::remove: the last open slots are removed, the others are taken. *)
RemoveSlots(g) ==
    /\ CriticalCommand(g)
    /\ phase[g] = "joining" /\ at[g] = 0
    /\ at' = [at EXCEPT ![g] = now]
    /\ NoNotification(g)
    /\ UNCHANGED <<phase, until, hostRunNow, requested>>

(* HostSlot::add: a game whose slots were taken has an open one. *)
AddSlots(g) ==
    /\ CriticalCommand(g)
    /\ phase[g] = "joining" /\ at[g] # 0
    /\ at' = [at EXCEPT ![g] = 0]
    /\ NoNotification(g)
    /\ UNCHANGED <<phase, until, hostRunNow, requested>>

(* HostGame::resetToTurn: pretends that host ran just now. *)
ResetToTurn(g, a) ==
    /\ CriticalCommand(g)
    /\ phase[g] \in {"running", "finished"}
    /\ IF phase[g] = "running" THEN Reschedule(g, a) ELSE a = 0
    /\ at' = [at EXCEPT ![g] = a]
    /\ NoNotification(g)
    /\ UNCHANGED <<phase, until, hostRunNow, requested>>

(* HostCron::kickstartGame, which does not ask the GameArbiter. *)
KickstartGame(g) ==
    /\ ~m_stopFlag
    /\ calls < MaxCalls
    /\ calls' = calls + 1
    /\ g \in broken
    /\ broken' = broken \ {g}
    /\ HandleGameChange(g)
    /\ UNCHANGED <<phase, at, until, hostRunNow, requested, m_suspendUntil, m_futureEvents, m_dueEvents,
                   m_stopFlag, m_lockedGames, pc, threadVars, now, late>>

Suspended == m_suspendUntil > now

(* HostCron::suspendScheduler; t = 0 resumes. *)
SuspendScheduler(t) ==
    /\ ~m_stopFlag
    /\ calls < MaxCalls
    /\ calls' = calls + 1
    /\ t = 0 \/ t > now
    /\ m_suspendUntil' = t
    /\ \E s \in Listings(m_futureEvents) :
          m_changedGames' = m_changedGames \o [i \in DOMAIN s |-> s[i].gameId]
    /\ m_wake' = m_wake + 1
    /\ late' = IF Suspended THEN late ELSE 0
    /\ UNCHANGED <<databaseVars, m_futureEvents, m_dueEvents, m_stopFlag, m_lockedGames, pc, threadVars, now, historyVars>>

(* The destructor: stop(), when no command is executed any more. *)
Stop ==
    /\ ~m_stopFlag
    /\ m_stopFlag' = TRUE
    /\ m_wake' = m_wake + 1
    /\ UNCHANGED <<databaseVars, listVars, m_suspendUntil, m_lockedGames, pc, threadVars, envVars, historyVars, late>>

Tick ==
    /\ now < MaxTime
    /\ now' = now + 1
    /\ UNCHANGED <<databaseVars, listVars, m_suspendUntil, m_stopFlag, m_wake, m_lockedGames, pc, threadVars, calls, historyVars, late>>

-----------------------------------------------------------------------------
(* The scheduler thread: schedulerMain() *)

(* What none of the steps of the scheduler thread changes. *)
Outside == <<m_suspendUntil, m_stopFlag, envVars, late>>

(* The thread's local variables go out of scope. *)
EndOfScope == gameId' = 0 /\ result' = {} /\ startTime' = 0

(* The event computed for g reflects all changes made so far. *)
Computed(g) == Miss(g, "no")

(* generateInitialSchedule() *)
GenerateInitialSchedule ==
    /\ pc = "init"
    /\ \E a, u \in [Games -> Times] :
          /\ \A g \in Games : IF Expired(g, now) THEN NextSchedule(g, now, a[g], u[g])
                                               ELSE a[g] = at[g] /\ u[g] = until[g]
          /\ at' = a
          /\ until' = u
          /\ m_futureEvents' = AdjustForSuspension(UNION {GameEvents(g, a[g], u[g], now) : g \in Games})
    /\ missed' = [g \in Games |-> "no"]
    /\ pc' = "loop"
    /\ UNCHANGED <<Outside, phase, hostRunNow, broken, m_changedGames, m_dueEvents, m_wake, m_lockedGames, threadVars, requested>>

IsStopRequested ==
    /\ pc = "loop"
    /\ pc' = IF m_stopFlag THEN "done" ELSE "requests"
    /\ UNCHANGED <<Outside, databaseVars, listVars, m_wake, m_lockedGames, threadVars, historyVars>>

(* processRequests(): choose a game. *)
NoRequest ==
    /\ pc = "requests"
    /\ m_changedGames = <<>>
    /\ pc' = "move"
    /\ UNCHANGED <<Outside, databaseVars, listVars, m_wake, m_lockedGames, threadVars, historyVars>>

(* Mutant: games on the overdue list are not ignored. *)
PickAnyRequest ==
    /\ pc = "requests"
    /\ m_changedGames # <<>>
    /\ gameId' = Head(m_changedGames)
    /\ pc' = "compute"
    /\ UNCHANGED <<Outside, databaseVars, listVars, m_wake, m_lockedGames, result, startTime, historyVars>>

(* A due game will be rescheduled anyway. *)
PickRequest ==
    /\ pc = "requests"
    /\ m_changedGames # <<>>
    /\ IF Head(m_changedGames) \in DueGames
       THEN m_changedGames' = Tail(m_changedGames) /\ UNCHANGED <<gameId, pc>>
       ELSE gameId' = Head(m_changedGames) /\ pc' = "compute" /\ UNCHANGED m_changedGames
    /\ UNCHANGED <<Outside, databaseVars, m_futureEvents, m_dueEvents, m_wake, m_lockedGames, result, startTime, historyVars>>

ComputeRequest ==
    /\ pc = "compute"
    /\ ExpireSchedule(gameId, now)
    /\ result' = GameEvents(gameId, at'[gameId], until'[gameId], now)
    /\ Computed(gameId)
    /\ pc' = IF result' = {} THEN "publish" ELSE "adjust"
    /\ UNCHANGED <<Outside, phase, hostRunNow, broken, listVars, m_wake, m_lockedGames, gameId, startTime, requested>>

AdjustRequest ==
    /\ pc = "adjust"
    /\ result' = AdjustForSuspension(result)
    /\ pc' = "publish"
    /\ UNCHANGED <<Outside, databaseVars, listVars, m_wake, m_lockedGames, gameId, startTime, historyVars>>

(* Mutant: the notification stays in the list. *)
PublishAndKeep ==
    /\ pc = "publish"
    /\ m_futureEvents' = {e \in m_futureEvents : e.gameId # gameId} \cup result
    /\ EndOfScope
    /\ pc' = "requests"
    /\ UNCHANGED <<Outside, databaseVars, m_changedGames, m_dueEvents, m_wake, m_lockedGames, historyVars>>

(* The old schedule item is replaced, and the notifications are dropped. *)
PublishRequest ==
    /\ pc = "publish"
    /\ m_futureEvents' = {e \in m_futureEvents : e.gameId # gameId} \cup result
    /\ m_changedGames' = Kept(m_changedGames, Games \ {gameId})
    /\ EndOfScope
    /\ pc' = "requests"
    /\ UNCHANGED <<Outside, databaseVars, m_dueEvents, m_wake, m_lockedGames, historyVars>>

(* moveDueItems(): the games are locked. *)
MoveDueItems ==
    /\ pc = "move"
    /\ LET due == {e \in m_futureEvents : e.time <= now}
       IN /\ \E s \in Listings(due) : m_dueEvents' = m_dueEvents \o s
          /\ m_lockedGames' = m_lockedGames \cup {e.gameId : e \in due}
          /\ m_futureEvents' = m_futureEvents \ due
    /\ pc' = "pick"
    /\ UNCHANGED <<Outside, databaseVars, m_changedGames, m_wake, threadVars, historyVars>>

(* Mutant: the game is taken out of the due list while host runs. *)
PickAndRemoveItem ==
    /\ pc = "pick"
    /\ IF m_dueEvents # <<>>
       THEN /\ gameId' = Head(m_dueEvents).gameId
            /\ m_dueEvents' = Tail(m_dueEvents)
            /\ startTime' = now
            /\ pc' = "check"
       ELSE /\ pc' = IF m_futureEvents # {} THEN "sleep" ELSE "idle"
            /\ UNCHANGED <<gameId, startTime, m_dueEvents>>
    /\ UNCHANGED <<Outside, databaseVars, m_changedGames, m_futureEvents, m_wake, m_lockedGames, result, historyVars>>

(* Figure out what to do. *)
PickItem ==
    /\ pc = "pick"
    /\ IF m_dueEvents # <<>>
       THEN /\ gameId' = Head(m_dueEvents).gameId
            /\ startTime' = now
            /\ pc' = "check"
       ELSE /\ pc' = IF m_futureEvents # {} THEN "sleep" ELSE "idle"
            /\ UNCHANGED <<gameId, startTime>>
    /\ UNCHANGED <<Outside, databaseVars, listVars, m_wake, m_lockedGames, result, historyVars>>

(* The next event is due, or the thread is woken up. *)
Sleep ==
    /\ pc = "sleep"
    /\ \/ m_wake > 0 /\ m_wake' = m_wake - 1
       \/ (\E e \in m_futureEvents : e.time <= now) /\ UNCHANGED m_wake
    /\ pc' = "loop"
    /\ UNCHANGED <<Outside, databaseVars, listVars, m_lockedGames, threadVars, historyVars>>

Idle ==
    /\ pc = "idle"
    /\ m_wake > 0
    /\ m_wake' = m_wake - 1
    /\ pc' = "loop"
    /\ UNCHANGED <<Outside, databaseVars, listVars, m_lockedGames, threadVars, historyVars>>

-----------------------------------------------------------------------------
(* runDueItem(), runHost(), runMaster() *)

(* Check that the schedule is still current; drop the "run now" flag. *)
CheckDueItem ==
    /\ pc = "check"
    /\ ExpireSchedule(gameId, startTime)
    /\ result' = GameEvents(gameId, at'[gameId], until'[gameId], startTime)
    /\ hostRunNow' = hostRunNow \ {gameId}
    /\ Computed(gameId)
    /\ pc' = "decide"
    /\ UNCHANGED <<Outside, phase, broken, listVars, m_wake, m_lockedGames, gameId, startTime, requested>>

(* Mutant: the suspension is not considered again. *)
DecideUnadjusted ==
    /\ pc = "decide"
    /\ result' = result
    /\ pc' = IF \E e \in result' : e.time <= startTime THEN "export" ELSE "update"
    /\ UNCHANGED <<Outside, databaseVars, listVars, m_wake, m_lockedGames, gameId, startTime, historyVars>>

DecideDueItem ==
    /\ pc = "decide"
    /\ result' = AdjustForSuspension(result)
    /\ pc' = IF \E e \in result' : e.time <= startTime THEN "export" ELSE "update"
    /\ UNCHANGED <<Outside, databaseVars, listVars, m_wake, m_lockedGames, gameId, startTime, historyVars>>

(* The game is exported under the mutex; then host runs without it. *)
Export ==
    /\ pc = "export"
    /\ requested' = requested \ {gameId}
    /\ late' = IF Suspended THEN late + 1 ELSE late
    /\ pc' = "hosting"
    /\ UNCHANGED <<m_suspendUntil, m_stopFlag, envVars, databaseVars, listVars, m_wake, m_lockedGames,
                   threadVars, missed>>

(* The result is imported.  A game that was joining now runs; it may also  *)
(* be finished, or inactive players may be kicked.                         *)
Import(new, a, kicked) ==
    /\ pc = "hosting"
    /\ new \in {"running", "finished"}
    /\ IF new = "running" THEN Reschedule(gameId, a) ELSE a = 0
    /\ phase' = [phase EXCEPT ![gameId] = new]
    /\ at' = [at EXCEPT ![gameId] = a]
    /\ IF kicked \/ phase[gameId] = "joining"
       THEN HandleGameChange(gameId)
       ELSE UNCHANGED <<m_changedGames, m_wake, missed>>
    /\ pc' = "recompute"
    /\ UNCHANGED <<Outside, until, hostRunNow, broken, m_futureEvents, m_dueEvents, m_lockedGames, threadVars, requested>>

(* Mutant: the exception is not caught. *)
HostFailsFatally(imported) ==
    /\ "host" \in Faults
    /\ pc \in {"export", "hosting"}
    /\ ~imported
    /\ pc' = "crashed"
    /\ UNCHANGED <<Outside, databaseVars, listVars, m_wake, m_lockedGames, threadVars, historyVars>>

(* An exception, before or after the import made the game a running one. *)
HostFails(imported) ==
    /\ "host" \in Faults
    /\ pc \in {"export", "hosting"}
    /\ broken' = broken \cup {gameId}
    /\ requested' = requested \ {gameId}
    /\ IF imported
       THEN /\ pc = "hosting" /\ phase[gameId] = "joining"
            /\ phase' = [phase EXCEPT ![gameId] = "running"]
            /\ HandleGameChange(gameId)
       ELSE UNCHANGED <<phase, m_changedGames, m_wake, missed>>
    /\ pc' = "recompute"
    /\ UNCHANGED <<Outside, at, until, hostRunNow, m_futureEvents, m_dueEvents, m_lockedGames, threadVars>>

(* The next event, still at the time the item was started. *)
Recompute ==
    /\ pc = "recompute"
    /\ ExpireSchedule(gameId, startTime)
    /\ result' = AdjustForSuspension(GameEvents(gameId, at'[gameId], until'[gameId], startTime))
    /\ Computed(gameId)
    /\ pc' = "update"
    /\ UNCHANGED <<Outside, phase, hostRunNow, broken, listVars, m_wake, m_lockedGames, gameId, startTime, requested>>

(* Mutant: the game is unlocked, but its new event is dropped. *)
UpdateWithoutMerge ==
    /\ pc = "update"
    /\ m_dueEvents' = Kept(m_dueEvents, {e \in Events : e.gameId # gameId})
    /\ m_lockedGames' = m_lockedGames \ {gameId}
    /\ EndOfScope
    /\ pc' = "loop"
    /\ UNCHANGED <<Outside, databaseVars, m_changedGames, m_futureEvents, m_wake, historyVars>>

(* Mutant: the game stays locked. *)
UpdateWithoutUnlock ==
    /\ pc = "update"
    /\ m_dueEvents' = Kept(m_dueEvents, {e \in Events : e.gameId # gameId})
    /\ m_futureEvents' = m_futureEvents \cup result
    /\ EndOfScope
    /\ pc' = "loop"
    /\ UNCHANGED <<Outside, databaseVars, m_changedGames, m_wake, m_lockedGames, historyVars>>

(* The game moves from the due list to the future list and is unlocked. *)
UpdateSchedules ==
    /\ pc = "update"
    /\ m_dueEvents' = Kept(m_dueEvents, {e \in Events : e.gameId # gameId})
    /\ m_futureEvents' = m_futureEvents \cup result
    /\ m_lockedGames' = m_lockedGames \ {gameId}
    /\ EndOfScope
    /\ pc' = "loop"
    /\ UNCHANGED <<Outside, databaseVars, m_changedGames, m_wake, historyVars>>

(* A database access outside of the try block fails. *)
DatabaseFails ==
    /\ "database" \in Faults
    /\ pc \in {"init", "compute", "check", "recompute"}
    /\ pc' = "crashed"
    /\ UNCHANGED <<Outside, databaseVars, listVars, m_wake, m_lockedGames, threadVars, historyVars>>

(* run(): unless this is the shutdown, the lists are cleared. *)
CleanUp ==
    /\ pc = "crashed"
    /\ m_wake' = IF m_wake > 0 THEN m_wake - 1 ELSE 0
    /\ IF m_stopFlag
       THEN UNCHANGED listVars
       ELSE m_changedGames' = <<>> /\ m_futureEvents' = {} /\ m_dueEvents' = <<>>
    /\ pc' = "dead"
    /\ UNCHANGED <<Outside, databaseVars, m_lockedGames, threadVars, historyVars>>

-----------------------------------------------------------------------------
(* Specification *)

Commands ==
    \/ \E g \in Games, a, u \in 0..MaxTime : ModifySchedule(g, a, u)
    \/ \E g \in Games, a \in Times : SubmitTurn(g, a) \/ Join(g, a) \/ Resign(g, a) \/ ResetToTurn(g, a)
    \/ \E g \in Games, new \in Phases, a \in 0..MaxTime : SetState(g, new, a)
    \/ \E g \in Games : RequestHost(g) \/ RemoveSlots(g) \/ AddSlots(g) \/ KickstartGame(g)
    \/ \E t \in 0..MaxTime : SuspendScheduler(t)

Scheduler ==
    \/ GenerateInitialSchedule
    \/ IsStopRequested
    \/ NoRequest \/ PickRequest \/ ComputeRequest \/ AdjustRequest \/ PublishRequest
    \/ MoveDueItems \/ PickItem \/ Sleep \/ Idle
    \/ CheckDueItem \/ DecideDueItem \/ Recompute \/ UpdateSchedules
    \/ CleanUp

Host ==
    \/ Export
    \/ \E new \in Phases, a \in 0..MaxTime, kicked \in BOOLEAN : Import(new, a, kicked)
    \/ \E imported \in BOOLEAN : HostFails(imported)

Next == Commands \/ Scheduler \/ Host \/ DatabaseFails \/ Stop \/ Tick

Spec == Init /\ [][Next]_vars

(* The thread is scheduled, the host program terminates, time passes.      *)
FairSpec == Spec /\ WF_vars(Scheduler) /\ WF_vars(Host) /\ WF_vars(Tick)

-----------------------------------------------------------------------------
(* Properties *)

Alive == pc \notin {"crashed", "dead"}

(* "All games in this queue are locked", and no others are, so that every  *)
(* game that is being hosted is protected and no game is locked for good.  *)
LockedGamesAreDue == TypeOK /\ (Alive => m_lockedGames = DueGames)

(* A game has at most one event, in one of the lists; hence the call of    *)
(* GameArbiter::lock() in moveDueItems(), about which the code says "This  *)
(* would be an internal error", never fails.                               *)
OneEventPerGame ==
    /\ \A d, e \in m_futureEvents : d.gameId = e.gameId => d = e
    /\ \A i, j \in DOMAIN m_dueEvents : m_dueEvents[i].gameId = m_dueEvents[j].gameId => i = j
    /\ Alive => FutureGames \cap m_lockedGames = {}

(* "every game which is subject to scheduling actually appears in one of   *)
(* the three lists"                                                        *)
Listed(g) == GetGameEvent(g) # Event(g, "NoAction", 0)
SubjectToScheduling(g) == GameEvents(g, at[g], until[g], now) # {}
Scheduling == pc # "init" /\ Alive /\ ~m_stopFlag

(* "We keep it in the m_dueEvents list for the whole host run so people    *)
(* see that something happens there": of a game that is being worked on,   *)
(* getGameEvent() says that it is due now or under reconsideration.        *)
HostedGameVisible ==
    Alive /\ startTime # 0 => \/ GetGameEvent(gameId) = Event(gameId, "UnknownAction", 0)
                             \/ \E action \in Actions : GetGameEvent(gameId) = Event(gameId, action, 0)

(* This holds for every game whose last change was announced, and not      *)
(* while the scheduler was publishing an earlier event of the same game.   *)
AnnouncedGamesListed ==
    Scheduling => \A g \in Tracked : SubjectToScheduling(g) /\ missed[g] = "no" => Listed(g)

(* The same for changes made by commands that call handleGameChange(). *)
NotifiedGamesListed ==
    Scheduling => \A g \in Tracked : SubjectToScheduling(g) /\ missed[g] # "silent" => Listed(g)

(* The same for changes that are not overtaken. *)
ChangedGamesListed ==
    Scheduling => \A g \in Tracked : SubjectToScheduling(g) /\ missed[g] # "overtaken" => Listed(g)

(* runDueItem(): "If this is the HostAction, we'll find that action in     *)
(* newSchedule and run it": a requested host run is not forgotten.         *)
RequestedHostRuns ==
    \A g \in requested : g \in hostRunNow \/ (g = gameId /\ pc \in {"decide", "export"})

(* While the scheduler works on a game, from the decision to run host to   *)
(* the end of the import, no command changes the game.                     *)
HostedGameUnchanged ==
    [][pc' = pc /\ pc \in {"export", "hosting"}
       => <<phase'[gameId], at'[gameId], until'[gameId]>> = <<phase[gameId], at[gameId], until[gameId]>>]_vars

(* A suspension does not stop the run that was decided before it: between  *)
(* the last adjustForSuspension() and the start of host no mutex is held,  *)
(* and m_suspendUntil is not read again.  But it is at most that one: as   *)
(* long as the scheduler is suspended, also if the suspension is extended, *)
(* no other game that was due, announced or being computed is run.         *)
OneRunWhileSuspended == Suspended => late <= 1

(* Every notification is processed... *)
RequestsProcessed ==
    \A g \in Games : g \in Elements(m_changedGames) ~> (g \notin Elements(m_changedGames) \/ m_stopFlag)

(* ...and every locked game is unlocked, unless the service is stopped. *)
LocksReleased ==
    \A g \in Games : g \in m_lockedGames ~> (g \notin m_lockedGames \/ m_stopFlag)

=============================================================================
