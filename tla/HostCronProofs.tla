--------------------------- MODULE HostCronProofs ---------------------------
(***************************************************************************)
(* Proofs about HostCron: the inductive invariant IInv of the scheduler    *)
(* thread and the commands, and the properties that follow from it.        *)
(***************************************************************************)
EXTENDS HostCron, ListLemmas, FiniteSetTheorems

\* In runDueItem(), runHost(), runMaster() and the update after them.
AtWork == {"check", "decide", "export", "hosting", "recompute", "update"}

\* In processRequests(), after a game was chosen.
Requesting == {"compute", "adjust", "publish"}

\* No two events of S are about the same game.
Unique(S) == \A d, e \in S : d.gameId = e.gameId => d = e

\* The same for the list of due events.
UniqueDue == \A i, j \in DOMAIN m_dueEvents : m_dueEvents[i].gameId = m_dueEvents[j].gameId => i = j

\* E has at most one event, and that is about g.
Single(E, g) == \A d, e \in E : d = e /\ d.gameId = g

\* The lists: a game has at most one event; locked games are the due ones.
Queues ==
    /\ Unique(m_futureEvents)
    /\ UniqueDue
    /\ FutureGames \cap DueGames = {}
    /\ Alive => m_lockedGames = DueGames

\* The local variables of the thread: the game it works on is the first of
\* the due list, the game of a request is not in that list.
Control ==
    /\ pc = "init" => m_dueEvents = <<>>
    /\ pc \in Requesting => gameId \notin DueGames
    /\ pc \in AtWork => m_dueEvents # <<>> /\ m_dueEvents[1].gameId = gameId
    /\ pc \notin {"adjust", "publish", "crashed", "dead"} \cup (AtWork \ {"check"}) => result = {}
    /\ Single(result, gameId)
    /\ startTime # 0 => pc \in AtWork \cup {"crashed", "dead"}
    /\ pc \in AtWork => startTime # 0
    /\ startTime <= now

\* The inductive invariant.
IInv == TypeOK /\ Queues /\ Control

-----------------------------------------------------------------------------
(* Events. *)

\* The computed event, of which there is at most one, in terms of
\* cardinality.
LEMMA AtMostOne ==
    ASSUME NEW S, \A d, e \in S : d = e
    PROVE  IsFiniteSet(S) /\ Cardinality(S) \in Nat /\ Cardinality(S) <= 1
<1>1. CASE S = {}
  BY <1>1, FS_EmptySet
<1>2. CASE S # {}
  <2>1. PICK x \in S : TRUE
    BY <1>2
  <2>2. S = {x}
    BY <2>1
  <2>. QED
    BY <2>2, FS_Singleton
<1>. QED
  BY <1>1, <1>2

\* Times of the model are natural numbers.
LEMMA TimesAreNumbers ==
    /\ Times \subseteq Nat /\ 0 \in Times /\ 1 \in Times
    /\ 1..MaxTime \subseteq Times /\ 0..MaxTime \subseteq Times
  BY BoundAssumption DEF Times

\* The parts of an event that ByTime compares are integers.
LEMMA EventNumbers == \A e \in Events : e.time \in Int /\ e.gameId \in Int
<1>1. Games \subseteq Int /\ Times \subseteq Int
  BY TimesAreNumbers, GamesAssumption
<1>2. \A e \in Events : e.time \in Times /\ e.gameId \in Games
  BY DEF Events
<1>. QED
  BY <1>1, <1>2

\* There are finitely many events, hence their sets can be listed in order.
LEMMA EventsFinite == IsFiniteSet(Events)
<1> DEFINE P == (Games \X Actions) \X Times
           f == [p \in P |-> Event(p[1][1], p[1][2], p[2])]
<1>1. IsFiniteSet(Actions)
  <2>1. Actions = {"HostAction"} \cup ({"MasterAction"} \cup {"ScheduleChangeAction"})
    BY DEF Actions
  <2>. QED
    BY <2>1, FS_Singleton, FS_Union
<1>2. IsFiniteSet(Times)
  BY FS_Interval, BoundAssumption DEF Times
<1>3. IsFiniteSet(P)
  BY <1>1, <1>2, GamesAssumption, FS_Product
<1>4. Events = {f[p] : p \in P}
  <2>1. ASSUME NEW e \in Events PROVE \E p \in P : f[p] = e
    <3>1. << <<e.gameId, e.action>>, e.time >> \in P
      BY DEF Events
    <3>2. e = Event(e.gameId, e.action, e.time)
      BY DEF Events, Event
    <3>. QED
      BY <3>1, <3>2
  <2>2. ASSUME NEW p \in P PROVE f[p] \in Events
    BY DEF Events, Event
  <2> HIDE DEF f, P
  <2>. QED
    BY <2>1, <2>2
<1>5. f \in Surjection(P, Events)
  <2>1. DOMAIN f = P /\ f = [p \in P |-> f[p]]
    OBVIOUS
  <2> HIDE DEF f, P
  <2>. QED
    BY <1>4, <2>1 DEF Surjection
<1>. QED
  BY <1>3, <1>5, FS_Surjection

\* computeGameTimes() returns at most one event, and that is about its game.
LEMMA GameEventsFacts ==
    ASSUME NEW g \in Games, NEW a \in Times, NEW u \in Times, NEW t \in Times
    PROVE  GameEvents(g, a, u, t) \subseteq Events /\ Single(GameEvents(g, a, u, t), g)
<1>1. t \in Nat /\ a \in Nat /\ u \in Nat
  BY TimesAreNumbers
<1>2. Later(t, t) \in Times /\ Later(a, t) \in Times
  BY DEF Later
<1>. QED
  BY <1>1, <1>2 DEF GameEvents, Events, Event, Actions, Single

\* adjustForSuspension() changes times only.
LEMMA AdjustFacts ==
    ASSUME NEW E \in SUBSET Events, m_suspendUntil \in Times
    PROVE  /\ AdjustForSuspension(E) \subseteq Events
           /\ \A g : Single(E, g) => Single(AdjustForSuspension(E), g)
           /\ Unique(E) => Unique(AdjustForSuspension(E))
<1>1. \A e \in Events : Adjusted(e) \in Events /\ Adjusted(e).gameId = e.gameId
  BY DEF Adjusted, Events
<1>. QED
  BY <1>1 DEF AdjustForSuspension, Single, Unique

\* A listing of a set of events, as moveDueItems() and suspendScheduler()
\* make it, has all events of the set, and each game once.
LEMMA ListingFacts ==
    ASSUME NEW S \in SUBSET Events, NEW s \in Listings(S)
    PROVE  /\ s \in Seq(Events)
           /\ Elements(s) = S
           /\ Unique(S) => \A i, j \in DOMAIN s : s[i].gameId = s[j].gameId => i = j
<1>1. Cardinality(S) \in Nat
  BY EventsFinite, FS_Subset, FS_CardinalityType
<1>2. s \in [1..Cardinality(S) -> S] /\ InOrder(s, S)
  BY DEF Listings
<1>3. s \in Seq(Events) /\ DOMAIN s = 1..Cardinality(S)
  BY <1>1, <1>2
<1>4. ASSUME Unique(S), NEW i \in DOMAIN s, NEW j \in DOMAIN s, s[i].gameId = s[j].gameId
      PROVE  i = j
  <2>1. s[i] = s[j] /\ s[i] \in S
    BY <1>2, <1>3, <1>4 DEF Unique
  <2>2. ~Before(s[i], s[i])
    <3>1. s[i] \in Events
      BY <2>1
    <3>2. s[i].time \in Int /\ s[i].gameId \in Int
      BY <3>1, EventNumbers
    <3>. QED
      BY <3>2 DEF Before
  <2>3. ~(i < j) /\ ~(j < i)
    BY <1>2, <2>1, <2>2 DEF InOrder
  <2>. QED
    BY <2>3, <1>1, <1>3
<1>. QED
  BY <1>2, <1>3, <1>4 DEF InOrder

\* Removing the events of game g from the list of due events, as the update
\* after a host run does: the other games stay, each once.
LEMMA RemovalFacts ==
    ASSUME NEW s \in Seq(Events), NEW g,
           \A i, j \in DOMAIN s : s[i].gameId = s[j].gameId => i = j
    PROVE  LET t == Kept(s, {e \in Events : e.gameId # g}) IN
           /\ t \in Seq(Events)
           /\ \A i, j \in DOMAIN t : t[i].gameId = t[j].gameId => i = j
           /\ {e.gameId : e \in Elements(t)} = {e.gameId : e \in Elements(s)} \ {g}
<1> DEFINE K == {e \in Events : e.gameId # g}
           t == Kept(s, K)
<1>1. t \in Seq(Events \cap K) /\ t \in Seq(K)
  BY KeptFacts
<1>2. PICK f : Selects(f, t, s, K, Len(s))
  BY KeptFacts
<1>3. /\ f \in [1..Len(t) -> 1..Len(s)]
      /\ \A i, j \in 1..Len(t) : i < j => f[i] < f[j]
      /\ \A i \in 1..Len(t) : t[i] = s[f[i]]
      /\ \A j \in 1..Len(s) : s[j] \in K => \E i \in 1..Len(t) : f[i] = j
  BY <1>2 DEF Selects
<1>4. Len(t) \in Nat /\ Len(s) \in Nat /\ DOMAIN t = 1..Len(t) /\ DOMAIN s = 1..Len(s)
  BY <1>1
<1>5. \A i \in DOMAIN t : t[i] \in K
  BY <1>1
<1>6. \A i \in DOMAIN s : s[i] \in Events
  OBVIOUS
<1>7. t \in Seq(Events)
  BY <1>1
<1> HIDE DEF t
<1>8. \A i, j \in DOMAIN t : t[i].gameId = t[j].gameId => i = j
  <2> SUFFICES ASSUME NEW i \in 1..Len(t), NEW j \in 1..Len(t), t[i].gameId = t[j].gameId
               PROVE  i = j
    BY <1>4
  <2>1. f[i] = f[j]
    <3>1. f[i] \in DOMAIN s /\ f[j] \in DOMAIN s
      BY <1>3, <1>4
    <3>2. t[i] = s[f[i]] /\ t[j] = s[f[j]]
      BY <1>3
    <3>. QED
      BY <3>1, <3>2
  <2>2. ~(i < j) /\ ~(j < i)
    BY <1>3, <1>4, <2>1
  <2>. QED
    BY <2>2, <1>4
<1>9. {e.gameId : e \in Elements(t)} = {e.gameId : e \in Elements(s)} \ {g}
  <2>1. \A i \in DOMAIN t : \E j \in DOMAIN s : t[i] = s[j] /\ t[i].gameId # g
    BY <1>3, <1>4, <1>5
  <2>2. ASSUME NEW j \in DOMAIN s, s[j].gameId # g PROVE \E i \in DOMAIN t : t[i] = s[j]
    <3>1. s[j] \in K /\ j \in 1..Len(s)
      BY <1>4, <1>6, <2>2
    <3>2. PICK i \in 1..Len(t) : f[i] = j
      BY <1>3, <3>1
    <3>3. t[i] = s[j]
      BY <1>3, <3>2
    <3>. QED
      BY <1>4, <3>3
  <2>3. \A e \in Elements(t) : e \in Elements(s) /\ e.gameId # g
    BY <2>1 DEF Elements
  <2>4. \A e \in Elements(s) : e.gameId # g => e \in Elements(t)
    BY <2>2 DEF Elements
  <2>. QED
    BY <2>3, <2>4
<1>. QED
  BY <1>7, <1>8, <1>9 DEF t

-----------------------------------------------------------------------------
(* Type correctness. *)

\* The invariant holds when the service starts.
LEMMA InitInv == Init => IInv
<1> SUFFICES ASSUME Init PROVE IInv
  OBVIOUS
<1>1. TypeOK
  <2>1. Cardinality(result) <= 1
    BY FS_EmptySet DEF Init
  <2>2. at \in [Games -> Times] /\ until \in [Games -> Times]
    BY TimesAreNumbers DEF Init
  <2>3. now \in 1..MaxTime /\ m_suspendUntil \in Times /\ startTime \in Times /\ calls \in 0..MaxCalls
    BY TimesAreNumbers, BoundAssumption DEF Init
  <2>4. missed \in [Games -> {"no", "silent", "overtaken"}]
    BY DEF Init
  <2>5. m_changedGames \in Seq(Games) /\ m_dueEvents \in Seq(Events)
    BY DEF Init
  <2>6. m_wake \in Nat /\ m_stopFlag \in BOOLEAN /\ phase \in [Games -> Phases]
    BY DEF Init
  <2>7. pc = "init" /\ gameId = 0 /\ late = 0 /\ result = {} /\ requested = {} /\ m_lockedGames = {} /\ m_futureEvents = {}
        /\ hostRunNow = {} /\ broken = {}
    BY DEF Init
  <2>. QED
    BY <2>1, <2>2, <2>3, <2>4, <2>5, <2>6, <2>7 DEF TypeOK
<1>2. Queues
  BY DEF Init, Queues, Unique, UniqueDue, FutureGames, DueGames, Elements, Alive
<1>3. Control
  BY DEF Init, Control, Requesting, AtWork, Single
<1>. QED
  BY <1>1, <1>2, <1>3 DEF IInv

\* What commands and the environment leave alone.
Aside == UNCHANGED <<m_futureEvents, m_dueEvents, m_lockedGames, pc, gameId, result, startTime>>

\* Commands leave the scheduler's lists of events, its locks and its local
\* variables alone.
LEMMA CommandsAside ==
    ASSUME IInv, Commands \/ Stop \/ Tick
    PROVE  Aside /\ now <= now'
<1>. now \in Nat
  BY BoundAssumption DEF IInv, TypeOK
<1>. QED
  BY DEF Commands, Stop, Tick, Aside, ModifySchedule, SubmitTurn, Join, Resign, ResetToTurn, SetState,
         RequestHost, RemoveSlots, AddSlots, KickstartGame, SuspendScheduler, CriticalCommand, Command,
         envVars, threadVars, listVars, databaseVars, historyVars

\* Hence they keep the invariants about these.
LEMMA AsideKeeps ==
    ASSUME IInv, Aside, now <= now', now' \in Nat
    PROVE  Queues' /\ Control'
<1>1. startTime \in Nat /\ now \in Nat
  BY TimesAreNumbers, BoundAssumption DEF IInv, TypeOK
<1>2. Queues'
  BY DEF IInv, Queues, Aside, UniqueDue, Unique, FutureGames, DueGames, Elements, Alive
<1>3. Control'
  BY <1>1 DEF IInv, Control, Aside, DueGames, Elements, Single
<1>. QED
  BY <1>2, <1>3

\* handleGameChange() keeps the types of the variables it changes.
LEMMA NotificationTyped ==
    ASSUME TypeOK, NEW g \in Games, HandleGameChange(g) \/ NoNotification(g)
    PROVE  /\ m_changedGames' \in Seq(Games) /\ m_wake' \in Nat
           /\ missed' \in [Games -> {"no", "silent", "overtaken"}]
<1>1. \/ m_changedGames' = Append(m_changedGames, g) /\ m_wake' = m_wake + 1
      \/ UNCHANGED <<m_changedGames, m_wake>>
  BY DEF HandleGameChange, NoNotification
<1>2. PICK how \in {"no", "silent", "overtaken"} : missed' = [missed EXCEPT ![g] = how]
  <2>1. PICK how \in {"no", "silent", "overtaken"} : Miss(g, how)
    BY DEF HandleGameChange, NoNotification
  <2>2. CASE g \in Tracked
    BY <2>1, <2>2 DEF Miss
  <2>3. CASE g \notin Tracked
    BY <2>1, <2>3 DEF Miss
  <2>. QED
    BY <2>2, <2>3
<1>3. m_changedGames \in Seq(Games) /\ m_wake \in Nat /\ missed \in [Games -> {"no", "silent", "overtaken"}]
  BY DEF TypeOK
<1>4. Append(m_changedGames, g) \in Seq(Games) /\ m_wake + 1 \in Nat
  BY <1>3
<1>5. missed' \in [Games -> {"no", "silent", "overtaken"}]
  BY <1>2, <1>3
<1>. QED
  BY <1>1, <1>3, <1>4, <1>5

\* Commands and the environment keep the types of all variables.
LEMMA CommandsTyped ==
    ASSUME TypeOK, Commands \/ Stop \/ Tick
    PROVE  TypeOK'
<1>1. ASSUME NEW g \in Games, HandleGameChange(g) \/ NoNotification(g)
      PROVE  /\ m_changedGames' \in Seq(Games) /\ m_wake' \in Nat
             /\ missed' \in [Games -> {"no", "silent", "overtaken"}]
  BY <1>1, NotificationTyped
<1>2. ASSUME NEW g \in Games, CriticalCommand(g)
      PROVE  /\ calls' \in 0..MaxCalls
             /\ UNCHANGED <<broken, m_suspendUntil, m_futureEvents, m_dueEvents, m_stopFlag, m_lockedGames,
                            pc, gameId, result, startTime, now, late>>
  <2>1. calls \in 0..MaxCalls /\ MaxCalls \in Nat
    BY BoundAssumption DEF TypeOK
  <2>2. calls < MaxCalls /\ calls' = calls + 1
    BY <1>2 DEF CriticalCommand, Command
  <2>. QED
    BY <1>2, <2>1, <2>2 DEF CriticalCommand, Command, threadVars
<1>3. now \in Times /\ now + 1 \in Times /\ 0 \in Times /\ 0..MaxTime \subseteq Times
  BY TimesAreNumbers, BoundAssumption DEF TypeOK, Times
<1>4. ASSUME NEW g \in Games, NEW a \in 0..MaxTime, NEW u \in 0..MaxTime, ModifySchedule(g, a, u)
      PROVE  TypeOK'
  BY <1>1, <1>2, <1>3, <1>4 DEF TypeOK, ModifySchedule
<1>5. ASSUME NEW g \in Games, NEW a \in Times,
             SubmitTurn(g, a) \/ Join(g, a) \/ Resign(g, a) \/ ResetToTurn(g, a)
      PROVE  TypeOK'
  <2>1. CASE SubmitTurn(g, a)
    BY <1>1, <1>2, <1>3, <2>1 DEF TypeOK, SubmitTurn
  <2>2. CASE Join(g, a)
    BY <1>1, <1>2, <1>3, <2>2 DEF TypeOK, Join
  <2>3. CASE Resign(g, a)
    BY <1>1, <1>2, <1>3, <2>3 DEF TypeOK, Resign
  <2>4. CASE ResetToTurn(g, a)
    BY <1>1, <1>2, <1>3, <2>4 DEF TypeOK, ResetToTurn
  <2>. QED
    BY <1>5, <2>1, <2>2, <2>3, <2>4
<1>6. ASSUME NEW g \in Games, NEW new \in Phases, NEW a \in 0..MaxTime, SetState(g, new, a)
      PROVE  TypeOK'
  BY <1>1, <1>2, <1>3, <1>6 DEF TypeOK, SetState
<1>7. ASSUME NEW g \in Games, RequestHost(g) \/ RemoveSlots(g) \/ AddSlots(g)
      PROVE  TypeOK'
  <2>1. CASE RequestHost(g)
    BY <1>1, <1>2, <1>3, <2>1 DEF TypeOK, RequestHost
  <2>2. CASE RemoveSlots(g)
    BY <1>1, <1>2, <1>3, <2>2 DEF TypeOK, RemoveSlots
  <2>3. CASE AddSlots(g)
    BY <1>1, <1>2, <1>3, <2>3 DEF TypeOK, AddSlots
  <2>. QED
    BY <1>7, <2>1, <2>2, <2>3
<1>8. ASSUME NEW g \in Games, KickstartGame(g)
      PROVE  TypeOK'
  BY <1>1, <1>8, BoundAssumption DEF TypeOK, KickstartGame, threadVars
<1>9. ASSUME NEW t \in 0..MaxTime, SuspendScheduler(t)
      PROVE  TypeOK'
  <2>1. PICK s \in Listings(m_futureEvents) :
            m_changedGames' = m_changedGames \o [i \in DOMAIN s |-> s[i].gameId]
    BY <1>9 DEF SuspendScheduler
  <2>2. s \in Seq(Events)
    BY <2>1, ListingFacts DEF TypeOK
  <2>3. [i \in DOMAIN s |-> s[i].gameId] \in Seq(Games)
    <3>1. \A i \in DOMAIN s : s[i] \in Events
      BY <2>2
    <3>2. \A i \in DOMAIN s : s[i].gameId \in Games
      BY <3>1 DEF Events
    <3>. QED
      BY <2>2, <3>2
  <2>4. m_changedGames' \in Seq(Games)
    BY <2>1, <2>3 DEF TypeOK
  <2>. QED
    BY <2>4, <1>3, <1>9, BoundAssumption DEF TypeOK, SuspendScheduler, databaseVars, threadVars, historyVars
<1>10. CASE Stop
  BY <1>10 DEF TypeOK, Stop, databaseVars, listVars, threadVars, envVars, historyVars
<1>11. CASE Tick
  BY <1>11, BoundAssumption DEF TypeOK, Tick, databaseVars, listVars, threadVars, envVars, historyVars
<1>. QED
  BY <1>4, <1>5, <1>6, <1>7, <1>8, <1>9, <1>10, <1>11 DEF Commands

-----------------------------------------------------------------------------
(* The scheduler thread. *)

\* A step that leaves the lists of events and the locks alone keeps the
\* invariant about them.
LEMMA QueuesStay ==
    ASSUME Queues, UNCHANGED <<m_futureEvents, m_dueEvents, m_lockedGames>>, Alive' => Alive
    PROVE  Queues' /\ DueGames' = DueGames
BY DEF Queues, UniqueDue, Unique, FutureGames, DueGames, Elements

\* Dropping an expired schedule keeps the types of the database.
LEMMA ExpireTyped ==
    ASSUME TypeOK, NEW g \in Games, NEW t, ExpireSchedule(g, t)
    PROVE  at' \in [Games -> Times] /\ until' \in [Games -> Times]
BY DEF TypeOK, ExpireSchedule

\* The game that is worked on is due.
LEMMA WorkIsDue ==
    ASSUME IInv, pc \in AtWork
    PROVE  gameId \in DueGames /\ gameId \in Games
<1>1. m_dueEvents # <<>> /\ m_dueEvents[1].gameId = gameId /\ m_dueEvents \in Seq(Events)
  BY DEF IInv, Control, TypeOK
<1>2. 1 \in DOMAIN m_dueEvents /\ m_dueEvents[1] \in Events
  BY <1>1
<1>3. m_dueEvents[1].gameId \in Games
  BY <1>2 DEF Events
<1>. QED
  BY <1>1, <1>2, <1>3 DEF DueGames, Elements

\* generateInitialSchedule() keeps the invariant: it makes at most one event
\* for a game, and no game is due yet.
LEMMA InitialStep ==
    ASSUME IInv, GenerateInitialSchedule
    PROVE  IInv'
<1>1. PICK a \in [Games -> Times], u \in [Games -> Times] :
        /\ at' = a /\ until' = u
        /\ m_futureEvents' = AdjustForSuspension(UNION {GameEvents(g, a[g], u[g], now) : g \in Games})
  BY DEF GenerateInitialSchedule
<1> DEFINE E == UNION {GameEvents(g, a[g], u[g], now) : g \in Games}
<1>2. now \in Times
  BY TimesAreNumbers DEF IInv, TypeOK
<1>3. \A g \in Games : GameEvents(g, a[g], u[g], now) \subseteq Events /\ Single(GameEvents(g, a[g], u[g], now), g)
  BY <1>1, <1>2, GameEventsFacts
<1>4. E \subseteq Events /\ Unique(E)
  <2>1. E \subseteq Events
    BY <1>3
  <2>2. ASSUME NEW d \in E, NEW e \in E, d.gameId = e.gameId PROVE d = e
    <3>1. PICK g \in Games : d \in GameEvents(g, a[g], u[g], now)
      OBVIOUS
    <3>2. PICK h \in Games : e \in GameEvents(h, a[h], u[h], now)
      OBVIOUS
    <3>3. d.gameId = g /\ e.gameId = h
      BY <1>3, <3>1, <3>2 DEF Single
    <3>4. \A x, y \in GameEvents(g, a[g], u[g], now) : x = y
      BY <1>3 DEF Single
    <3>5. e \in GameEvents(g, a[g], u[g], now)
      BY <2>2, <3>2, <3>3
    <3>. QED
      BY <3>1, <3>4, <3>5
  <2> HIDE DEF E
  <2>. QED
    BY <2>1, <2>2 DEF Unique
<1>5. m_futureEvents' = AdjustForSuspension(E)
  BY <1>1
<1> HIDE DEF E
<1>6. m_futureEvents' \subseteq Events /\ Unique(m_futureEvents')
  BY <1>4, <1>5, AdjustFacts DEF IInv, TypeOK
<1>7. /\ m_dueEvents = <<>> /\ m_dueEvents' = m_dueEvents /\ m_lockedGames' = m_lockedGames
      /\ pc = "init" /\ pc' = "loop" /\ UNCHANGED <<gameId, result, startTime, now>>
  BY DEF GenerateInitialSchedule, IInv, Control, listVars, threadVars, envVars, Outside
<1>8. TypeOK'
  <2>1. missed' \in [Games -> {"no", "silent", "overtaken"}]
    BY DEF GenerateInitialSchedule
  <2>. QED
    BY <1>1, <1>6, <1>7, <2>1 DEF GenerateInitialSchedule, IInv, TypeOK, Outside, envVars, threadVars
<1>9. Queues'
  <2>1. DueGames = {} /\ DueGames' = {}
    BY <1>7 DEF DueGames, Elements
  <2>. QED
    BY <1>6, <1>7, <2>1 DEF IInv, Queues, UniqueDue, Unique, FutureGames, Alive
<1>10. Control'
  BY <1>7 DEF IInv, Control, Requesting, AtWork, Single
<1>. QED
  BY <1>8, <1>9, <1>10 DEF IInv

\* Steps that only change where the thread is.
Moves == IsStopRequested \/ NoRequest \/ Sleep \/ Idle \/ Export \/ DatabaseFails

\* They keep the invariant.
LEMMA MoveStep ==
    ASSUME IInv, Moves
    PROVE  IInv'
<1>1. /\ UNCHANGED <<phase, at, until, hostRunNow, broken, m_changedGames, m_futureEvents, m_dueEvents,
                      m_lockedGames, gameId, result, startTime, now, calls, m_suspendUntil, m_stopFlag, missed>>
      /\ requested' \subseteq requested
      /\ m_wake' \in Nat /\ late' \in Nat
  BY DEF IInv, TypeOK, Moves, IsStopRequested, NoRequest, Sleep, Idle, Export, DatabaseFails,
         Outside, databaseVars, listVars, threadVars, envVars, historyVars
<1>2. \/ pc \in {"loop", "requests", "sleep", "idle"} /\ pc' \in {"done", "requests", "move", "loop"}
      \/ pc = "export" /\ pc' = "hosting"
      \/ pc' = "crashed" /\ pc \in {"init", "compute", "check", "recompute"}
  BY DEF Moves, IsStopRequested, NoRequest, Sleep, Idle, Export, DatabaseFails
<1>3. TypeOK'
  BY <1>1, <1>2 DEF IInv, TypeOK
<1>4. Queues' /\ DueGames' = DueGames
  BY <1>1, <1>2, QueuesStay DEF IInv, Alive
<1>5. Control'
  BY <1>1, <1>2, <1>4 DEF IInv, Control, Requesting, AtWork, Single
<1>. QED
  BY <1>3, <1>4, <1>5 DEF IInv

\* The steps of processRequests() before the event is published keep the
\* invariant: a due game is not chosen.
LEMMA RequestStep ==
    ASSUME IInv, PickRequest \/ ComputeRequest \/ AdjustRequest
    PROVE  IInv'
<1>1. CASE PickRequest
  <2>1. m_changedGames \in Seq(Games) /\ m_changedGames # <<>>
    BY <1>1 DEF PickRequest, IInv, TypeOK
  <2>2. Head(m_changedGames) \in Games /\ Tail(m_changedGames) \in Seq(Games) /\ 0 \notin Games
    BY <2>1, GamesAssumption
  <2>3. TypeOK'
    BY <1>1, <2>2 DEF PickRequest, IInv, TypeOK, Outside, databaseVars, envVars, historyVars
  <2>4. Queues' /\ DueGames' = DueGames
    BY <1>1, QueuesStay DEF IInv, PickRequest, Alive
  <2>5. Control'
    BY <1>1, <2>4 DEF IInv, Control, PickRequest, Requesting, AtWork, Single, Outside, envVars
  <2>. QED
    BY <2>3, <2>4, <2>5 DEF IInv
<1>2. CASE ComputeRequest
  <2>1. gameId \in Games /\ now \in Times
    BY <1>2, TimesAreNumbers DEF ComputeRequest, IInv, TypeOK
  <2>2. at' \in [Games -> Times] /\ until' \in [Games -> Times]
    BY <1>2, <2>1, ExpireTyped DEF ComputeRequest, IInv
  <2>3. result' \subseteq Events /\ Single(result', gameId)
    BY <1>2, <2>1, <2>2, GameEventsFacts DEF ComputeRequest
  <2>4. Cardinality(result') <= 1
    BY <2>3, AtMostOne DEF Single
  <2>5. missed' \in [Games -> {"no", "silent", "overtaken"}]
    BY <1>2 DEF ComputeRequest, Computed, Miss, IInv, TypeOK
  <2>6. TypeOK'
    BY <1>2, <2>2, <2>3, <2>4, <2>5 DEF ComputeRequest, IInv, TypeOK, Outside, listVars, envVars
  <2>7. Queues' /\ DueGames' = DueGames
    BY <1>2, QueuesStay DEF IInv, ComputeRequest, Alive, listVars
  <2>8. Control'
    BY <1>2, <2>3, <2>7 DEF IInv, Control, ComputeRequest, Requesting, AtWork, Single, Outside, envVars
  <2>. QED
    BY <2>6, <2>7, <2>8 DEF IInv
<1>3. CASE AdjustRequest
  <2>1. result' = AdjustForSuspension(result) /\ result \subseteq Events /\ Single(result, gameId)
    BY <1>3 DEF AdjustRequest, IInv, TypeOK, Control
  <2>2. result' \subseteq Events /\ Single(result', gameId)
    BY <2>1, AdjustFacts DEF IInv, TypeOK
  <2>3. Cardinality(result') <= 1
    BY <2>2, AtMostOne DEF Single
  <2>4. TypeOK'
    BY <1>3, <2>2, <2>3 DEF AdjustRequest, IInv, TypeOK, Outside, databaseVars, listVars, envVars, historyVars
  <2>5. Queues' /\ DueGames' = DueGames
    BY <1>3, QueuesStay DEF IInv, AdjustRequest, Alive, listVars
  <2>6. Control'
    BY <1>3, <2>2, <2>5 DEF IInv, Control, AdjustRequest, Requesting, AtWork, Single, Outside, envVars, listVars
  <2>. QED
    BY <2>4, <2>5, <2>6 DEF IInv
<1>. QED
  BY <1>1, <1>2, <1>3

\* Publishing the event of a request keeps the invariant: it replaces the
\* future event of a game that is not due.
LEMMA PublishStep ==
    ASSUME IInv, PublishRequest
    PROVE  IInv'
<1>1. /\ m_futureEvents' = {e \in m_futureEvents : e.gameId # gameId} \cup result
      /\ m_changedGames' = Kept(m_changedGames, Games \ {gameId})
      /\ m_dueEvents' = m_dueEvents /\ m_lockedGames' = m_lockedGames
      /\ pc = "publish" /\ pc' = "requests"
      /\ gameId' = 0 /\ result' = {} /\ startTime' = 0
  BY DEF PublishRequest, EndOfScope
<1>2. m_changedGames' \in Seq(Games)
  <2>1. Kept(m_changedGames, Games \ {gameId}) \in Seq(Games \cap (Games \ {gameId}))
    BY KeptFacts DEF IInv, TypeOK
  <2>. QED
    BY <1>1, <2>1
<1>3. TypeOK'
  <2>1. Cardinality(result') <= 1
    BY <1>1, FS_EmptySet
  <2>. QED
    BY <1>1, <1>2, <2>1, TimesAreNumbers DEF IInv, TypeOK, PublishRequest, Outside, databaseVars, envVars, historyVars
<1>4. DueGames' = DueGames /\ gameId \notin DueGames
  BY <1>1 DEF IInv, Control, Requesting, DueGames, Elements
<1>5. Queues'
  <2>1. Unique(m_futureEvents')
    BY <1>1 DEF IInv, Queues, Control, Unique, Single
  <2>2. FutureGames' \cap DueGames' = {}
    BY <1>1, <1>4 DEF IInv, Queues, Control, Single, FutureGames
  <2>. QED
    BY <1>1, <1>4, <2>1, <2>2 DEF IInv, Queues, UniqueDue, Unique, Alive
<1>6. Control'
  BY <1>1, TimesAreNumbers, BoundAssumption 
       DEF IInv, TypeOK, Control, Requesting, AtWork, Single, PublishRequest, Outside, envVars
<1>. QED
  BY <1>3, <1>5, <1>6 DEF IInv

\* moveDueItems() keeps the invariant: it locks the games whose events it
\* moves.
LEMMA DueStep ==
    ASSUME IInv, MoveDueItems
    PROVE  IInv'
<1> DEFINE due == {e \in m_futureEvents : e.time <= now}
<1>1. PICK s \in Listings(due) : m_dueEvents' = m_dueEvents \o s
  BY DEF MoveDueItems
<1>2. /\ m_lockedGames' = m_lockedGames \cup {e.gameId : e \in due}
      /\ m_futureEvents' = m_futureEvents \ due
      /\ pc = "move" /\ pc' = "pick"
      /\ UNCHANGED <<gameId, result, startTime, now, m_changedGames>>
  BY DEF MoveDueItems, threadVars, envVars, Outside
<1>3. due \in SUBSET Events /\ Unique(due)
  BY DEF IInv, TypeOK, Queues, Unique
<1>4. /\ s \in Seq(Events) /\ Elements(s) = due
      /\ \A i, j \in DOMAIN s : s[i].gameId = s[j].gameId => i = j
  <2> HIDE DEF due
  <2>. QED
    BY <1>1, <1>3, ListingFacts
<1>5. m_dueEvents \in Seq(Events) /\ m_dueEvents' \in Seq(Events)
  BY <1>1, <1>4 DEF IInv, TypeOK
<1>6. \A k \in DOMAIN m_dueEvents' :
        IF k <= Len(m_dueEvents)
        THEN k \in DOMAIN m_dueEvents /\ m_dueEvents'[k] = m_dueEvents[k]
        ELSE k - Len(m_dueEvents) \in DOMAIN s /\ m_dueEvents'[k] = s[k - Len(m_dueEvents)]
  BY <1>1, <1>4, <1>5
<1>7. \A i \in DOMAIN m_dueEvents : i \in DOMAIN m_dueEvents' /\ m_dueEvents'[i] = m_dueEvents[i]
  BY <1>1, <1>4, <1>5
<1>8. \A i \in DOMAIN s : i + Len(m_dueEvents) \in DOMAIN m_dueEvents' /\ m_dueEvents'[i + Len(m_dueEvents)] = s[i]
  BY <1>1, <1>4, <1>5
<1>9. Elements(m_dueEvents') = Elements(m_dueEvents) \cup due
  <2>1. Elements(m_dueEvents') = Elements(m_dueEvents) \cup Elements(s)
    BY <1>6, <1>7, <1>8 DEF Elements
  <2>. QED
    BY <2>1, <1>4
<1> HIDE DEF due
<1>10. DueGames' = DueGames \cup {e.gameId : e \in due}
  BY <1>9 DEF DueGames
<1>11. due \subseteq m_futureEvents
  BY DEF due
<1>12. \A e \in due : e.gameId \notin DueGames
  BY <1>11 DEF IInv, Queues, FutureGames
<1>13. UniqueDue'
  <2> SUFFICES ASSUME NEW i \in DOMAIN m_dueEvents', NEW j \in DOMAIN m_dueEvents',
                      m_dueEvents'[i].gameId = m_dueEvents'[j].gameId
               PROVE  i = j
    BY DEF UniqueDue
  <2> DEFINE n == Len(m_dueEvents)
  <2>1. n \in Nat /\ i \in Nat /\ j \in Nat
    BY <1>5
  <2>2. \A k \in DOMAIN m_dueEvents : m_dueEvents[k].gameId \in DueGames
    BY DEF DueGames, Elements
  <2>3. \A k \in DOMAIN s : s[k].gameId \notin DueGames
    BY <1>4, <1>12 DEF Elements
  <2>4. CASE i <= n /\ j <= n
    BY <1>6, <2>4 DEF IInv, Queues, UniqueDue
  <2>5. CASE i <= n /\ ~(j <= n)
    BY <1>6, <2>2, <2>3, <2>5
  <2>6. CASE ~(i <= n) /\ j <= n
    BY <1>6, <2>2, <2>3, <2>6
  <2>7. CASE ~(i <= n) /\ ~(j <= n)
    <3>1. i - n = j - n
      BY <1>4, <1>6, <2>7
    <3> HIDE DEF n
    <3>. QED
      BY <2>1, <3>1
  <2>. QED
    BY <2>4, <2>5, <2>6, <2>7
<1>14. Queues'
  <2>1. Unique(m_futureEvents')
    BY <1>2 DEF IInv, Queues, Unique
  <2>2. FutureGames' \cap DueGames' = {}
    <3> SUFFICES ASSUME NEW e \in m_futureEvents', e.gameId \in DueGames' PROVE FALSE
      BY DEF FutureGames
    <3>1. e \in m_futureEvents /\ e \notin due
      BY <1>2
    <3>2. e.gameId \notin DueGames
      BY <3>1 DEF IInv, Queues, FutureGames
    <3>3. PICK d \in due : d.gameId = e.gameId
      BY <1>10, <3>2
    <3>. QED
      BY <1>11, <3>1, <3>3 DEF IInv, Queues, Unique
  <2>3. m_lockedGames' = DueGames'
    BY <1>2, <1>10 DEF IInv, Queues, Alive
  <2>. QED
    BY <1>13, <2>1, <2>2, <2>3 DEF Queues
<1>15. TypeOK'
  <2>1. m_lockedGames' \subseteq Games
    <3>1. \A e \in due : e.gameId \in Games
      BY <1>3 DEF Events
    <3>. QED
      BY <1>2, <3>1 DEF IInv, TypeOK
  <2>. QED
    BY <1>2, <1>5, <2>1 DEF IInv, TypeOK, MoveDueItems, Outside, databaseVars, threadVars, envVars, historyVars
<1>16. Control'
  BY <1>2 DEF IInv, Control, Requesting, AtWork, Single
<1>. QED
  BY <1>14, <1>15, <1>16 DEF IInv

\* Choosing the first due game keeps the invariant.
LEMMA PickStep ==
    ASSUME IInv, PickItem
    PROVE  IInv'
<1>1. /\ UNCHANGED <<m_futureEvents, m_dueEvents, m_lockedGames, result, now>>
      /\ pc = "pick"
      /\ \/ pc' = "check" /\ m_dueEvents # <<>> /\ gameId' = Head(m_dueEvents).gameId /\ startTime' = now
         \/ pc' \in {"sleep", "idle"} /\ UNCHANGED <<gameId, startTime>>
  BY DEF PickItem, listVars, Outside, envVars
<1>2. m_dueEvents # <<>> => Head(m_dueEvents) = m_dueEvents[1] /\ Head(m_dueEvents).gameId \in Games /\ 0 \notin Games
  <2> SUFFICES ASSUME m_dueEvents # <<>>
               PROVE  Head(m_dueEvents) = m_dueEvents[1] /\ Head(m_dueEvents).gameId \in Games /\ 0 \notin Games
    OBVIOUS
  <2>1. Head(m_dueEvents) = m_dueEvents[1] /\ m_dueEvents[1] \in Events
    BY DEF IInv, TypeOK
  <2>. QED
    BY <2>1, GamesAssumption DEF Events
<1>3. now \in Times /\ now \in Nat /\ now # 0
  BY TimesAreNumbers, BoundAssumption DEF IInv, TypeOK
<1>4. TypeOK'
  BY <1>1, <1>2, <1>3 DEF PickItem, IInv, TypeOK, Outside, databaseVars, listVars, envVars, historyVars
<1>5. Queues' /\ DueGames' = DueGames
  BY <1>1, QueuesStay DEF IInv, Alive
<1>6. Control'
  BY <1>1, <1>2, <1>3, <1>5 DEF IInv, Control, Requesting, AtWork, Single
<1>. QED
  BY <1>4, <1>5, <1>6 DEF IInv

\* What the steps of runDueItem(), runHost() and runMaster() have in common
\* suffices to keep the invariant.
LEMMA WorkStep ==
    ASSUME IInv, pc \in AtWork, pc' \in AtWork \ {"check"},
           UNCHANGED <<m_futureEvents, m_dueEvents, m_lockedGames, gameId, startTime, now>>,
           result' \subseteq Events, Single(result', gameId)
    PROVE  Queues' /\ Control' /\ Cardinality(result') <= 1
<1>1. Queues' /\ DueGames' = DueGames
  BY QueuesStay DEF IInv, Alive, AtWork
<1>2. Control'
  BY <1>1 DEF IInv, Control, Requesting, AtWork, Single
<1>3. Cardinality(result') <= 1
  BY AtMostOne DEF Single
<1>. QED
  BY <1>1, <1>2, <1>3

\* The steps that compute the event of the due game keep the invariant.
LEMMA DecisionStep ==
    ASSUME IInv, CheckDueItem \/ DecideDueItem \/ Recompute
    PROVE  IInv'
<1>1. pc \in AtWork /\ pc' \in AtWork \ {"check"}
  BY DEF CheckDueItem, DecideDueItem, Recompute, AtWork
<1>2. gameId \in Games /\ startTime \in Times
  BY <1>1, WorkIsDue DEF IInv, TypeOK
<1>3. UNCHANGED <<m_futureEvents, m_dueEvents, m_lockedGames, gameId, startTime, now, m_changedGames, m_wake,
                  m_suspendUntil, m_stopFlag, phase, broken, calls, requested, late>>
  BY DEF CheckDueItem, DecideDueItem, Recompute, listVars, databaseVars, Outside, envVars, historyVars
<1>4. /\ at' \in [Games -> Times] /\ until' \in [Games -> Times]
      /\ result' \subseteq Events /\ Single(result', gameId)
  <2>1. CASE CheckDueItem
    <3>1. at' \in [Games -> Times] /\ until' \in [Games -> Times]
      BY <2>1, <1>2, ExpireTyped DEF CheckDueItem, IInv
    <3>. QED
      BY <2>1, <1>2, <3>1, GameEventsFacts DEF CheckDueItem
  <2>2. CASE DecideDueItem
    <3>1. UNCHANGED <<at, until>> /\ result' = AdjustForSuspension(result)
      BY <2>2 DEF DecideDueItem, databaseVars
    <3>. QED
      BY <3>1, AdjustFacts DEF IInv, TypeOK, Control
  <2>3. CASE Recompute
    <3>1. at' \in [Games -> Times] /\ until' \in [Games -> Times]
      BY <2>3, <1>2, ExpireTyped DEF Recompute, IInv
    <3> DEFINE E == GameEvents(gameId, at'[gameId], until'[gameId], startTime)
    <3>2. E \subseteq Events /\ Single(E, gameId)
      BY <1>2, <3>1, GameEventsFacts
    <3>3. result' = AdjustForSuspension(E)
      BY <2>3 DEF Recompute
    <3> HIDE DEF E
    <3>. QED
      BY <3>1, <3>2, <3>3, AdjustFacts DEF IInv, TypeOK
  <2>. QED
    BY <2>1, <2>2, <2>3
<1>5. hostRunNow' \subseteq Games /\ missed' \in [Games -> {"no", "silent", "overtaken"}]
  BY DEF IInv, TypeOK, CheckDueItem, DecideDueItem, Recompute, Computed, Miss, databaseVars, historyVars
<1>6. Queues' /\ Control' /\ Cardinality(result') <= 1
  BY <1>1, <1>3, <1>4, WorkStep
<1>7. TypeOK'
  <2>1. gameId' # 0 /\ gameId' \in Games
    BY <1>2, <1>3, GamesAssumption
  <2>. QED
    BY <1>1, <1>3, <1>4, <1>5, <1>6, <2>1 DEF IInv, TypeOK, AtWork
<1>. QED
  BY <1>6, <1>7 DEF IInv

\* The steps of a host run keep the invariant, those that fail included.
LEMMA HostStep ==
    ASSUME IInv, (\E new \in Phases, a \in 0..MaxTime, kicked \in BOOLEAN : Import(new, a, kicked))
                 \/ (\E imported \in BOOLEAN : HostFails(imported))
    PROVE  IInv'
<1>1. /\ pc \in {"export", "hosting"} /\ pc' = "recompute"
      /\ UNCHANGED <<m_futureEvents, m_dueEvents, m_lockedGames, gameId, result, startTime, now, calls,
                     m_suspendUntil, m_stopFlag, until, hostRunNow, late>>
  BY DEF Import, HostFails, Outside, threadVars, envVars
<1>2. gameId \in Games /\ gameId # 0
  BY <1>1, WorkIsDue, GamesAssumption DEF AtWork
<1>3. Queues' /\ Control' /\ Cardinality(result') <= 1
  BY <1>1, WorkStep DEF IInv, TypeOK, Control, AtWork
<1>4. /\ phase' \in [Games -> Phases] /\ at' \in [Games -> Times]
      /\ broken' \subseteq Games /\ requested' \subseteq Games
  <2>1. ASSUME NEW new \in Phases, NEW a \in 0..MaxTime, NEW kicked \in BOOLEAN, Import(new, a, kicked)
        PROVE  /\ phase' \in [Games -> Phases] /\ at' \in [Games -> Times]
               /\ broken' \subseteq Games /\ requested' \subseteq Games
    BY <1>2, <2>1, TimesAreNumbers DEF IInv, TypeOK, Import
  <2>2. ASSUME NEW imported \in BOOLEAN, HostFails(imported)
        PROVE  /\ phase' \in [Games -> Phases] /\ at' \in [Games -> Times]
               /\ broken' \subseteq Games /\ requested' \subseteq Games
    BY <1>2, <2>2 DEF IInv, TypeOK, HostFails, Phases
  <2>. QED
    BY <2>1, <2>2
<1>5. /\ m_changedGames' \in Seq(Games) /\ m_wake' \in Nat
      /\ missed' \in [Games -> {"no", "silent", "overtaken"}]
  <2>1. HandleGameChange(gameId) \/ UNCHANGED <<m_changedGames, m_wake, missed>>
    BY DEF Import, HostFails
  <2>. QED
    BY <1>2, <2>1, NotificationTyped DEF IInv, TypeOK
<1>6. TypeOK'
  BY <1>1, <1>2, <1>3, <1>4, <1>5 DEF IInv, TypeOK
<1>. QED
  BY <1>3, <1>6 DEF IInv

\* The update after a host run keeps the invariant: the game leaves the due
\* list, is unlocked, and may have a future event.
LEMMA UpdateStep ==
    ASSUME IInv, UpdateSchedules
    PROVE  IInv'
<1>1. /\ m_dueEvents' = Kept(m_dueEvents, {e \in Events : e.gameId # gameId})
      /\ m_futureEvents' = m_futureEvents \cup result
      /\ m_lockedGames' = m_lockedGames \ {gameId}
      /\ pc = "update" /\ pc' = "loop"
      /\ gameId' = 0 /\ result' = {} /\ startTime' = 0
      /\ UNCHANGED <<now, m_changedGames>>
  BY DEF UpdateSchedules, EndOfScope, Outside, envVars
<1>2. /\ m_dueEvents' \in Seq(Events)
      /\ UniqueDue'
      /\ DueGames' = DueGames \ {gameId}
  <2> DEFINE s == m_dueEvents
             t == Kept(s, {e \in Events : e.gameId # gameId})
  <2>1. s \in Seq(Events) /\ \A i, j \in DOMAIN s : s[i].gameId = s[j].gameId => i = j
    BY DEF IInv, TypeOK, Queues, UniqueDue
  <2>2. /\ t \in Seq(Events)
        /\ \A i, j \in DOMAIN t : t[i].gameId = t[j].gameId => i = j
        /\ {e.gameId : e \in Elements(t)} = {e.gameId : e \in Elements(s)} \ {gameId}
    BY <2>1, RemovalFacts
  <2>3. m_dueEvents' = t
    BY <1>1
  <2> HIDE DEF t
  <2>. QED
    BY <2>2, <2>3 DEF UniqueDue, DueGames
<1>3. gameId \in DueGames
  BY <1>1, WorkIsDue DEF AtWork
<1>4. TypeOK'
  <2>1. Cardinality(result') <= 1
    BY <1>1, FS_EmptySet
  <2>. QED
    BY <1>1, <1>2, <2>1, TimesAreNumbers
       DEF IInv, TypeOK, UpdateSchedules, Outside, databaseVars, envVars, historyVars
<1>5. Queues'
  <2>1. \A e \in m_futureEvents : e.gameId # gameId
    BY <1>3 DEF IInv, Queues, FutureGames
  <2>2. Unique(m_futureEvents')
    BY <1>1, <2>1 DEF IInv, Queues, Control, Unique, Single
  <2>3. FutureGames' \cap DueGames' = {}
    BY <1>1, <1>2 DEF IInv, Queues, Control, Single, FutureGames
  <2>. QED
    BY <1>1, <1>2, <2>2, <2>3 DEF IInv, Queues, Alive
<1>6. Control'
  BY <1>1, TimesAreNumbers, BoundAssumption DEF IInv, TypeOK, Control, Requesting, AtWork, Single
<1>. QED
  BY <1>4, <1>5, <1>6 DEF IInv

\* The cleanup after a fatal error keeps the invariant, which then says
\* nothing about locks.
LEMMA CleanUpStep ==
    ASSUME IInv, CleanUp
    PROVE  IInv'
<1>1. /\ pc = "crashed" /\ pc' = "dead"
      /\ UNCHANGED <<phase, at, until, hostRunNow, broken, m_lockedGames, m_suspendUntil, m_stopFlag,
                     gameId, result, startTime, now, calls, missed, requested, late>>
      /\ \/ UNCHANGED <<m_changedGames, m_futureEvents, m_dueEvents>>
         \/ m_changedGames' = <<>> /\ m_futureEvents' = {} /\ m_dueEvents' = <<>>
  BY DEF CleanUp, databaseVars, listVars, threadVars, historyVars, Outside, envVars
<1>2. TypeOK'
  <2>1. m_wake' \in Nat
    BY DEF CleanUp, IInv, TypeOK
  <2>2. m_changedGames \in Seq(Games) /\ m_dueEvents \in Seq(Events) /\ m_futureEvents \subseteq Events
    BY DEF IInv, TypeOK
  <2>3. <<>> \in Seq(Games) /\ <<>> \in Seq(Events)
    OBVIOUS
  <2>4. m_changedGames' \in Seq(Games) /\ m_dueEvents' \in Seq(Events) /\ m_futureEvents' \subseteq Events
    BY <1>1, <2>2, <2>3
  <2>. QED
    BY <1>1, <2>1, <2>4 DEF IInv, TypeOK
<1>3. Queues'
  <2>1. CASE UNCHANGED <<m_changedGames, m_futureEvents, m_dueEvents>>
    BY <1>1, <2>1, QueuesStay DEF IInv, Alive
  <2>2. CASE m_changedGames' = <<>> /\ m_futureEvents' = {} /\ m_dueEvents' = <<>>
    BY <1>1, <2>2 DEF Queues, Unique, UniqueDue, FutureGames, Alive
  <2>. QED
    BY <1>1, <2>1, <2>2
<1>4. Control'
  BY <1>1 DEF IInv, Control, Requesting, AtWork, Single
<1>. QED
  BY <1>2, <1>3, <1>4 DEF IInv

-----------------------------------------------------------------------------
(* Theorems. *)

\* Every step keeps the invariant.
LEMMA NextInv == IInv /\ [Next]_vars => IInv'
<1> SUFFICES ASSUME IInv, [Next]_vars PROVE IInv'
  OBVIOUS
<1>1. CASE Commands \/ Stop \/ Tick
  <2>1. Aside /\ now <= now' /\ TypeOK'
    BY <1>1, CommandsAside, CommandsTyped DEF IInv
  <2>2. now' \in Nat
    BY <2>1, BoundAssumption DEF TypeOK
  <2>. QED
    BY <2>1, <2>2, AsideKeeps DEF IInv
<1>2. CASE Scheduler
  BY <1>2, InitialStep, MoveStep, RequestStep, PublishStep, DueStep, PickStep, DecisionStep, UpdateStep,
     CleanUpStep DEF Scheduler, Moves
<1>3. CASE Host \/ DatabaseFails
  BY <1>3, MoveStep, HostStep DEF Host, Moves
<1>4. CASE UNCHANGED vars
  <2>1. Aside /\ now' = now
    BY <1>4 DEF vars, Aside, listVars, threadVars, envVars
  <2>2. now \in Nat
    BY BoundAssumption DEF IInv, TypeOK
  <2>3. TypeOK'
    BY <1>4 DEF IInv, TypeOK, vars, databaseVars, listVars, threadVars, envVars, historyVars
  <2>. QED
    BY <2>1, <2>2, <2>3, AsideKeeps DEF IInv
<1>. QED
  BY <1>1, <1>2, <1>3, <1>4 DEF Next

\* IInv is an invariant of the scheduler and the commands.
THEOREM Invariance == Spec => []IInv
  BY InitInv, NextInv, PTL DEF Spec

\* All variables of CronImpl, the GameArbiter and the database have their
\* types; the thread has computed at most one event.
THEOREM TypeCorrect == Spec => []TypeOK
  BY Invariance, PTL DEF IInv

\* The games locked by the scheduler (GameArbiter::lock() in moveDueItems(),
\* unlock() after the run) are those in the list of due events, whatever
\* commands interfere.
THEOREM LocksMatch == Spec => []LockedGamesAreDue
<1>1. IInv => LockedGamesAreDue
  BY DEF IInv, Queues, LockedGamesAreDue
<1>. QED
  BY <1>1, Invariance, PTL

\* A game has at most one event in the scheduler's lists, and a game that
\* moveDueItems() is about to lock is not locked.
THEOREM OneEvent == Spec => []OneEventPerGame
<1>1. IInv => OneEventPerGame
  BY DEF IInv, Queues, Unique, UniqueDue, OneEventPerGame
<1>. QED
  BY <1>1, Invariance, PTL

\* While the scheduler works on a game, getGameEvent() reports that it is due
\* now or being reconsidered.
THEOREM Visible == Spec => []HostedGameVisible
<1>1. ASSUME IInv, Alive, startTime # 0
      PROVE  \/ GetGameEvent(gameId) = Event(gameId, "UnknownAction", 0)
             \/ \E action \in Actions : GetGameEvent(gameId) = Event(gameId, action, 0)
  <2>1. pc \in AtWork
    BY <1>1 DEF IInv, Control, Alive
  <2>2. gameId \in DueGames
    BY <1>1, <2>1, WorkIsDue
  <2> DEFINE First(i) == /\ m_dueEvents[i].gameId = gameId
                         /\ \A j \in 1..(i-1) : m_dueEvents[j].gameId # gameId
             n == CHOOSE i \in DOMAIN m_dueEvents : First(i)
  <2>3. m_dueEvents \in Seq(Events) /\ m_dueEvents # <<>> /\ m_dueEvents[1].gameId = gameId
    BY <1>1, <2>1 DEF IInv, TypeOK, Control
  <2>4. 1 \in DOMAIN m_dueEvents /\ First(1)
    BY <2>3
  <2>5. n \in DOMAIN m_dueEvents /\ First(n)
    BY <2>4, Zenon
  <2>6. GetGameEvent(gameId) = IF gameId \in Elements(m_changedGames) THEN Event(gameId, "UnknownAction", 0)
                               ELSE [m_dueEvents[n] EXCEPT !.time = 0]
    BY <2>2 DEF GetGameEvent
  <2> HIDE DEF n
  <2>7. m_dueEvents[n] \in Events /\ m_dueEvents[n].gameId = gameId
    BY <2>3, <2>5
  <2>8. [m_dueEvents[n] EXCEPT !.time = 0] = Event(gameId, m_dueEvents[n].action, 0)
        /\ m_dueEvents[n].action \in Actions
    BY <2>7 DEF Events, Event
  <2>. QED
    BY <2>6, <2>8
<1>2. IInv => HostedGameVisible
  BY <1>1 DEF HostedGameVisible
<1>. QED
  BY <1>2, Invariance, PTL

\* No command changes the game between the decision to run host and the
\* import of the result: it would need the lock.
THEOREM Protected == Spec => HostedGameUnchanged
<1>1. ASSUME IInv, [Next]_vars, pc' = pc, pc \in {"export", "hosting"}
      PROVE  <<phase'[gameId], at'[gameId], until'[gameId]>> = <<phase[gameId], at[gameId], until[gameId]>>
  <2>1. gameId \in m_lockedGames
    BY <1>1, WorkIsDue DEF IInv, Queues, Alive, AtWork
  <2>2. CASE Commands
    <3>1. ASSUME NEW g \in Games, CriticalCommand(g)
          PROVE  g # gameId
      BY <2>1, <3>1 DEF CriticalCommand
    <3>2. /\ gameId \in Games
          /\ phase \in [Games -> Phases] /\ at \in [Games -> Times] /\ until \in [Games -> Times]
      BY <1>1, WorkIsDue DEF IInv, TypeOK, AtWork
    <3>3. ASSUME NEW g \in Games, NEW a, NEW u, ModifySchedule(g, a, u)
          PROVE  phase'[gameId] = phase[gameId] /\ at'[gameId] = at[gameId] /\ until'[gameId] = until[gameId]
      BY <3>1, <3>2, <3>3 DEF ModifySchedule
    <3>4. ASSUME NEW g \in Games, NEW a, SubmitTurn(g, a) \/ Join(g, a) \/ Resign(g, a) \/ ResetToTurn(g, a)
          PROVE  phase'[gameId] = phase[gameId] /\ at'[gameId] = at[gameId] /\ until'[gameId] = until[gameId]
      BY <3>1, <3>2, <3>4 DEF SubmitTurn, Join, Resign, ResetToTurn
    <3>5. ASSUME NEW g \in Games, NEW new, NEW a, SetState(g, new, a)
          PROVE  phase'[gameId] = phase[gameId] /\ at'[gameId] = at[gameId] /\ until'[gameId] = until[gameId]
      BY <3>1, <3>2, <3>5 DEF SetState
    <3>6. ASSUME NEW g \in Games, RequestHost(g) \/ RemoveSlots(g) \/ AddSlots(g) \/ KickstartGame(g)
          PROVE  phase'[gameId] = phase[gameId] /\ at'[gameId] = at[gameId] /\ until'[gameId] = until[gameId]
      BY <3>1, <3>2, <3>6 DEF RequestHost, RemoveSlots, AddSlots, KickstartGame
    <3>7. ASSUME NEW t, SuspendScheduler(t)
          PROVE  phase'[gameId] = phase[gameId] /\ at'[gameId] = at[gameId] /\ until'[gameId] = until[gameId]
      BY <1>1, <3>7 DEF SuspendScheduler, databaseVars, threadVars
    <3>. QED
      BY <2>2, <3>3, <3>4, <3>5, <3>6, <3>7 DEF Commands
  <2>3. CASE Stop \/ Tick \/ UNCHANGED vars
    BY <2>3 DEF Stop, Tick, vars, databaseVars
  <2>4. CASE Scheduler \/ Host \/ DatabaseFails
    BY <1>1, <2>4 DEF Scheduler, Host, DatabaseFails, GenerateInitialSchedule, IsStopRequested, NoRequest, PickRequest,
       ComputeRequest, AdjustRequest, PublishRequest, MoveDueItems, PickItem, Sleep, Idle, CheckDueItem,
       DecideDueItem, Recompute, UpdateSchedules, CleanUp, Export, Import, HostFails
  <2>. QED
    BY <1>1, <2>2, <2>3, <2>4 DEF Next
<1>. QED
  BY <1>1, Invariance, PTL DEF Spec, HostedGameUnchanged

\* When it is decided whether to run host, the end of a schedule is not due
\* yet.
Current == pc = "decide" => \A e \in result : e.action = "ScheduleChangeAction" => e.time > startTime

\* This holds because runDueItem() computes the event for the time at which
\* it decides.
LEMMA CurrentInv == Spec => []Current
<1>1. Init => Current
  BY DEF Init, Current
<1>2. ASSUME IInv, Current, [Next]_vars PROVE Current'
  <2>1. CASE CheckDueItem
    <3>1. gameId \in Games /\ gameId' = gameId /\ startTime' = startTime /\ startTime \in Nat
          /\ at' \in [Games -> Times] /\ until' \in [Games -> Times]
      <4>1. gameId \in Games
        BY <1>2, <2>1, WorkIsDue DEF CheckDueItem, AtWork
      <4>2. at' \in [Games -> Times] /\ until' \in [Games -> Times]
        BY <1>2, <2>1, <4>1, ExpireTyped DEF CheckDueItem, IInv
      <4>. QED
        BY <1>2, <2>1, <4>1, <4>2, TimesAreNumbers DEF CheckDueItem, IInv, TypeOK
    <3>2. phase[gameId] = "running" /\ gameId \notin broken => until'[gameId] = 0 \/ until'[gameId] > startTime
      <4>1. until \in [Games -> Nat]
        BY <1>2, TimesAreNumbers DEF IInv, TypeOK
      <4>2. CASE Expired(gameId, startTime)
        <5>1. PICK a \in Times, u \in Times : /\ NextSchedule(gameId, startTime, a, u)
                                              /\ until' = [until EXCEPT ![gameId] = u]
          BY <2>1, <4>2 DEF CheckDueItem, ExpireSchedule
        <5>. QED
          BY <3>1, <4>1, <5>1 DEF NextSchedule
      <4>3. CASE ~Expired(gameId, startTime)
        <5>1. until' = until
          BY <2>1, <4>3 DEF CheckDueItem, ExpireSchedule
        <5>2. until[gameId] \in Nat
          BY <3>1, <4>1
        <5>. QED
          BY <3>1, <4>3, <5>1, <5>2 DEF Expired
      <4>. QED
        BY <4>2, <4>3
    <3>3. result' = GameEvents(gameId, at'[gameId], until'[gameId], startTime)
      BY <2>1 DEF CheckDueItem
    <3>. QED
      BY <3>1, <3>2, <3>3 DEF GameEvents, Event, Current
  <2>2. CASE Commands \/ Stop \/ Tick
    BY <1>2, <2>2, CommandsAside DEF Aside, Current
  <2>3. CASE UNCHANGED vars
    BY <1>2, <2>3 DEF vars, threadVars, Current
  <2>4. CASE (Scheduler \/ Host \/ DatabaseFails) /\ ~CheckDueItem
    <3>1. pc' # "decide"
      BY <2>4 DEF Scheduler, Host, DatabaseFails, GenerateInitialSchedule, IsStopRequested, NoRequest, PickRequest,
         ComputeRequest, AdjustRequest, PublishRequest, MoveDueItems, PickItem, Sleep, Idle, DecideDueItem,
         Recompute, UpdateSchedules, CleanUp, Export, Import, HostFails
    <3>. QED
      BY <3>1 DEF Current
  <2>. QED
    BY <1>2, <2>1, <2>2, <2>3, <2>4 DEF Next
<1>. QED
  BY <1>1, <1>2, Invariance, PTL DEF Spec

\* A run is decided only while the scheduler is not suspended, also if it was when the
\* game became due.
LEMMA DecidedWhileRunning ==
    ASSUME IInv, Current, [Next]_vars, pc = "decide", pc' = "export"
    PROVE  DecideDueItem /\ ~Suspended
<1>1. DecideDueItem
  BY DEF Next, Commands, Stop, Tick, vars, ModifySchedule, SubmitTurn, Join, Resign, ResetToTurn, SetState,
     RequestHost, RemoveSlots, AddSlots, KickstartGame, SuspendScheduler, CriticalCommand, Command,
     Scheduler, Host, DatabaseFails, GenerateInitialSchedule, IsStopRequested, NoRequest, PickRequest,
     ComputeRequest, AdjustRequest, PublishRequest, MoveDueItems, PickItem, Sleep, Idle, CheckDueItem,
     Recompute, UpdateSchedules, CleanUp, Export, Import, HostFails
<1>2. PICK e \in result : Adjusted(e).time <= startTime
  BY <1>1 DEF DecideDueItem, AdjustForSuspension
<1>3. /\ e \in Events /\ e.time \in Nat
      /\ m_suspendUntil \in Nat /\ startTime \in Nat /\ now \in Nat /\ startTime <= now
  <2>1. e \in Events /\ m_suspendUntil \in Times /\ startTime \in Times /\ now \in 1..MaxTime /\ startTime <= now
    BY <1>2 DEF IInv, TypeOK, Control
  <2>2. e.time \in Times
    BY <2>1 DEF Events
  <2>. QED
    BY <2>1, <2>2, TimesAreNumbers
<1>4. m_suspendUntil <= now
  <2>1. CASE e.action = "ScheduleChangeAction"
    <3>1. Adjusted(e) = e /\ e.time > startTime
      BY <1>2, <2>1 DEF Adjusted, Current
    <3>. QED
      BY <1>2, <1>3, <3>1
  <2>2. CASE e.action # "ScheduleChangeAction"
    <3>1. Adjusted(e).time = IF m_suspendUntil > e.time THEN m_suspendUntil ELSE e.time
      BY <1>3, <2>2 DEF Adjusted, Events
    <3>. QED
      BY <1>2, <1>3, <3>1
  <2>. QED
    BY <2>1, <2>2
<1>. QED
  BY <1>1, <1>3, <1>4 DEF Suspended

\* Of the runs while the scheduler is suspended, one is on its way or has been started.
LateInv == Suspended => late = 0 \/ (late = 1 /\ pc # "export")

\* A suspension finds at most one run decided, and while it lasts none is.
LEMMA LateStep ==
    ASSUME IInv, Current, LateInv, [Next]_vars
    PROVE  LateInv'
<1>1. now \in Nat /\ m_suspendUntil \in Nat /\ late \in Nat
  BY TimesAreNumbers, BoundAssumption DEF IInv, TypeOK
<1>2. CASE \E t \in 0..MaxTime : SuspendScheduler(t)
  BY <1>2 DEF SuspendScheduler, LateInv
<1>3. CASE Tick
  <2>1. Suspended' => Suspended
    BY <1>1, <1>3 DEF Tick, Suspended
  <2>. QED
    BY <1>3, <2>1 DEF Tick, LateInv
<1>4. CASE Export
  <2>1. Suspended' = Suspended /\ pc = "export" /\ pc' = "hosting"
    BY <1>4 DEF Export, envVars, Suspended
  <2>. QED
    BY <1>4, <2>1 DEF Export, LateInv
<1>5. CASE DecideDueItem
  <2>1. Suspended' = Suspended /\ late' = late /\ pc = "decide" /\ pc' \in {"export", "update"}
    BY <1>5 DEF DecideDueItem, Outside, envVars, Suspended
  <2>2. CASE pc' = "export"
    BY <2>1, <2>2, DecidedWhileRunning DEF LateInv
  <2>3. CASE pc' = "update"
    BY <2>1, <2>3 DEF LateInv
  <2>. QED
    BY <2>1, <2>2, <2>3
<1>6. CASE (Commands \/ Stop) /\ ~\E t \in 0..MaxTime : SuspendScheduler(t)
  <2>1. UNCHANGED <<m_suspendUntil, now, late, pc>>
    BY <1>6 DEF Commands, Stop, ModifySchedule, SubmitTurn, Join, Resign, ResetToTurn, SetState, RequestHost,
       RemoveSlots, AddSlots, KickstartGame, CriticalCommand, Command, envVars
  <2>. QED
    BY <2>1 DEF LateInv, Suspended
<1>7. CASE (Scheduler \/ Host \/ DatabaseFails) /\ ~DecideDueItem /\ ~Export
  <2>1. UNCHANGED <<m_suspendUntil, now, late>> /\ pc' # "export"
    BY <1>7 DEF Scheduler, Host, DatabaseFails, GenerateInitialSchedule, IsStopRequested, NoRequest, PickRequest,
       ComputeRequest, AdjustRequest, PublishRequest, MoveDueItems, PickItem, Sleep, Idle, CheckDueItem,
       Recompute, UpdateSchedules, CleanUp, Import, HostFails, Outside, envVars
  <2>. QED
    BY <2>1 DEF LateInv, Suspended
<1>8. CASE UNCHANGED vars
  BY <1>8 DEF vars, envVars, LateInv, Suspended
<1>. QED
  BY <1>2, <1>3, <1>4, <1>5, <1>6, <1>7, <1>8 DEF Next

\* While the scheduler is suspended, at most one run is started: the one that was decided
\* before suspendScheduler() was called.
THEOREM OneLateRun == Spec => []OneRunWhileSuspended
<1>1. Init => LateInv
  BY DEF Init, LateInv
<1>2. Spec => []LateInv
  BY <1>1, LateStep, Invariance, CurrentInv, PTL DEF Spec
<1>3. LateInv => OneRunWhileSuspended
  BY DEF LateInv, OneRunWhileSuspended
<1>. QED
  BY <1>2, <1>3, PTL

-----------------------------------------------------------------------------
(***************************************************************************)
(* The scheduler forgets no game whose changes are announced to it with    *)
(* handleGameChange().                                                     *)
(***************************************************************************)

\* Game g has something to be done when its host time is a and its schedule
\* expires at u.
Wanted(g, a, u) ==
    /\ g \notin broken
    /\ \/ phase[g] = "joining" /\ a # 0
       \/ phase[g] = "running" /\ (g \in Manual \cap hostRunNow \/ a # 0 \/ u # 0)

\* The same for a game whose last change was announced and not overtaken.
Waiting(g) == Wanted(g, at[g], until[g]) /\ g \in Tracked /\ missed[g] = "no"

\* The scheduler has the game in one of its lists.
Scheduled(g) == g \in Elements(m_changedGames) \cup DueGames \cup FutureGames

\* The inductive invariant: waiting games are in one of the lists; a game
\* that is being reconsidered is still in the list of changed games or due;
\* and the event computed for it is not missing.
Announced ==
    /\ pc # "init" /\ Alive => \A g \in Tracked : Waiting(g) => Scheduled(g)
    /\ pc \in Requesting => gameId \in Elements(m_changedGames)
    /\ pc \in {"adjust", "publish"} /\ Waiting(gameId) => result # {}
    /\ pc \in {"decide", "update"} /\ Waiting(gameId) => result # {} \/ gameId \in Elements(m_changedGames)

\* computeGameTimes() finds an event for a game that has something to be
\* done, whatever the time is.
LEMMA WantedEvents ==
    ASSUME NEW g, NEW a \in Times, NEW u \in Times, NEW t \in Nat \ {0}
    PROVE  Wanted(g, a, u) <=> GameEvents(g, a, u, t) # {}
<1>1. a \in Nat /\ u \in Nat
  BY TimesAreNumbers
<1>. QED
  BY <1>1 DEF Wanted, GameEvents, Later

\* adjustForSuspension() does not drop an event.
LEMMA AdjustNonempty ==
    \A E : AdjustForSuspension(E) = {} <=> E = {}
BY DEF AdjustForSuspension

\* getGameEvent() reports an action for a game in one of the lists.
LEMMA ScheduledIsListed ==
    ASSUME IInv, NEW g, Scheduled(g)
    PROVE  Listed(g)
<1>1. CASE g \in Elements(m_changedGames)
  BY <1>1 DEF Listed, GetGameEvent, Event
<1>2. CASE g \notin Elements(m_changedGames) /\ g \in DueGames
  <2> DEFINE First(i) == /\ m_dueEvents[i].gameId = g
                         /\ \A j \in 1..(i-1) : m_dueEvents[j].gameId # g
             n == CHOOSE i \in DOMAIN m_dueEvents : First(i)
  <2>1. PICK i \in DOMAIN m_dueEvents : m_dueEvents[i].gameId = g
    BY <1>2 DEF DueGames, Elements
  <2>2. First(i)
    <3>1. m_dueEvents \in Seq(Events) /\ UniqueDue
      BY DEF IInv, TypeOK, Queues
    <3>2. \A j \in 1..(i-1) : j \in DOMAIN m_dueEvents /\ j # i
      BY <3>1
    <3>. QED
      BY <2>1, <3>1, <3>2 DEF UniqueDue
  <2>3. n \in DOMAIN m_dueEvents
    BY <2>2, Zenon
  <2>4. GetGameEvent(g) = [m_dueEvents[n] EXCEPT !.time = 0]
    BY <1>2 DEF GetGameEvent
  <2> HIDE DEF n
  <2>5. m_dueEvents[n] \in Events
    BY <2>3 DEF IInv, TypeOK
  <2>6. GetGameEvent(g).action = m_dueEvents[n].action /\ m_dueEvents[n].action \in Actions
    BY <2>4, <2>5 DEF Events
  <2>. QED
    BY <2>6 DEF Listed, Event, Actions
<1>3. CASE g \notin Elements(m_changedGames) /\ g \notin DueGames /\ g \in FutureGames
  <2> DEFINE Next1(e) == /\ e.gameId = g
                         /\ \A d \in m_futureEvents : d.gameId = g => d = e \/ Before(e, d)
             e == CHOOSE e \in m_futureEvents : Next1(e)
  <2>1. PICK f \in m_futureEvents : f.gameId = g
    BY <1>3 DEF FutureGames
  <2>2. Next1(f)
    BY <2>1 DEF IInv, Queues, Unique
  <2>3. e \in m_futureEvents
    BY <2>2, Zenon
  <2>4. GetGameEvent(g) = e
    BY <1>3 DEF GetGameEvent
  <2> HIDE DEF e
  <2>5. GetGameEvent(g).action \in Actions
    BY <2>3, <2>4 DEF IInv, TypeOK, Events
  <2>. QED
    BY <2>5 DEF Listed, Event, Actions
<1>. QED
  BY <1>1, <1>2, <1>3 DEF Scheduled

\* handleGameChange() adds the game to the list and keeps the others.
LEMMA AppendElements ==
    ASSUME NEW S, NEW s \in Seq(S), NEW g \in S
    PROVE  Elements(Append(s, g)) = Elements(s) \cup {g}
<1> DEFINE t == Append(s, g)
<1>1. /\ DOMAIN t = DOMAIN s \cup {Len(s) + 1}
      /\ \A i \in DOMAIN s : t[i] = s[i]
      /\ t[Len(s) + 1] = g
  OBVIOUS
<1> HIDE DEF t
<1>. QED
  BY <1>1 DEF Elements, t

\* Removing some games from the list of changed games keeps the others.
LEMMA KeptElements ==
    ASSUME NEW S, NEW s \in Seq(S), NEW K
    PROVE  Elements(s) \cap K \subseteq Elements(Kept(s, K))
<1> DEFINE t == Kept(s, K)
<1>1. PICK f : Selects(f, t, s, K, Len(s))
  BY KeptFacts
<1>2. t \in Seq(S \cap K)
  BY KeptFacts
<1> HIDE DEF t
<1>3. \A j \in 1..Len(s) : s[j] \in K => \E i \in 1..Len(t) : t[i] = s[j]
  BY <1>1 DEF Selects
<1>4. DOMAIN s = 1..Len(s) /\ DOMAIN t = 1..Len(t)
  BY <1>2
<1>. QED
  BY <1>3, <1>4 DEF Elements, t

\* Commands and the environment keep games in the lists; a game that is
\* waiting after a command was waiting before, or was put into the list of
\* changed games by it.
LEMMA CommandKinds ==
    ASSUME TypeOK, Commands \/ Stop \/ Tick
    PROVE  /\ Elements(m_changedGames) \subseteq Elements(m_changedGames')
           /\ \A h \in Tracked : Waiting(h)' => Waiting(h) \/ (h \in Elements(m_changedGames') /\ ~Overtaken(h))
<1> DEFINE Good(h) == Waiting(h)' => Waiting(h) \/ (h \in Elements(m_changedGames') /\ ~Overtaken(h))
<1>1. \A g \in Games : Elements(Append(m_changedGames, g)) = Elements(m_changedGames) \cup {g}
  BY AppendElements DEF TypeOK
<1>2. ASSUME NEW g \in Games, HandleGameChange(g) \/ NoNotification(g)
      PROVE  /\ Elements(m_changedGames) \subseteq Elements(m_changedGames')
             /\ \A h \in Tracked \ {g} : missed'[h] = missed[h]
             /\ g \in Tracked /\ missed'[g] = "no" => g \in Elements(m_changedGames') /\ ~Overtaken(g)
  <2>1. missed \in [Games -> {"no", "silent", "overtaken"}] /\ Tracked \subseteq Games
    BY GamesAssumption DEF TypeOK
  <2>2. CASE HandleGameChange(g)
    BY <1>1, <2>1, <2>2 DEF HandleGameChange, Miss
  <2>3. CASE NoNotification(g)
    BY <2>1, <2>3 DEF NoNotification, Miss
  <2>. QED
    BY <1>2, <2>2, <2>3
<1>3. phase \in [Games -> Phases] /\ at \in [Games -> Times] /\ until \in [Games -> Times] /\ Tracked \subseteq Games
  BY GamesAssumption DEF TypeOK
<1>4. ASSUME NEW g \in Games, HandleGameChange(g) \/ NoNotification(g),
             \A h \in Tracked \ {g} : Wanted(h, at[h], until[h])' = Wanted(h, at[h], until[h])
      PROVE  Elements(m_changedGames) \subseteq Elements(m_changedGames') /\ \A h \in Tracked : Good(h)
  BY <1>2, <1>4 DEF Waiting
<1>5. ASSUME NEW g \in Games, NEW a, NEW u, ModifySchedule(g, a, u)
      PROVE  Elements(m_changedGames) \subseteq Elements(m_changedGames') /\ \A h \in Tracked : Good(h)
  <2>1. \A h \in Tracked \ {g} : Wanted(h, at[h], until[h])' = Wanted(h, at[h], until[h])
    BY <1>3, <1>5 DEF ModifySchedule, CriticalCommand, Command, Wanted
  <2>. QED
    BY <1>4, <1>5, <2>1 DEF ModifySchedule
<1>6. ASSUME NEW g \in Games, NEW a, SubmitTurn(g, a) \/ Join(g, a) \/ Resign(g, a) \/ ResetToTurn(g, a)
      PROVE  Elements(m_changedGames) \subseteq Elements(m_changedGames') /\ \A h \in Tracked : Good(h)
  <2>1. \A h \in Tracked \ {g} : Wanted(h, at[h], until[h])' = Wanted(h, at[h], until[h])
    BY <1>3, <1>6 DEF SubmitTurn, Join, Resign, ResetToTurn, CriticalCommand, Command, Wanted
  <2>. QED
    BY <1>4, <1>6, <2>1 DEF SubmitTurn, Join, Resign, ResetToTurn
<1>7. ASSUME NEW g \in Games, NEW new, NEW a, SetState(g, new, a)
      PROVE  Elements(m_changedGames) \subseteq Elements(m_changedGames') /\ \A h \in Tracked : Good(h)
  <2>1. \A h \in Tracked \ {g} : Wanted(h, at[h], until[h])' = Wanted(h, at[h], until[h])
    BY <1>3, <1>7 DEF SetState, CriticalCommand, Command, Wanted
  <2>. QED
    BY <1>4, <1>7, <2>1 DEF SetState
<1>8. ASSUME NEW g \in Games, RequestHost(g) \/ RemoveSlots(g) \/ AddSlots(g) \/ KickstartGame(g)
      PROVE  Elements(m_changedGames) \subseteq Elements(m_changedGames') /\ \A h \in Tracked : Good(h)
  <2>1. \A h \in Tracked \ {g} : Wanted(h, at[h], until[h])' = Wanted(h, at[h], until[h])
    BY <1>3, <1>8 DEF RequestHost, RemoveSlots, AddSlots, KickstartGame, CriticalCommand, Command, Wanted
  <2>. QED
    BY <1>4, <1>8, <2>1 DEF RequestHost, RemoveSlots, AddSlots, KickstartGame
<1>9. ASSUME NEW t, SuspendScheduler(t)
      PROVE  Elements(m_changedGames) \subseteq Elements(m_changedGames') /\ \A h \in Tracked : Good(h)
  <2>1. PICK s \in Listings(m_futureEvents) :
            m_changedGames' = m_changedGames \o [i \in DOMAIN s |-> s[i].gameId]
    BY <1>9 DEF SuspendScheduler
  <2>2. s \in Seq(Events)
    BY <2>1, ListingFacts DEF TypeOK
  <2> DEFINE r == [i \in DOMAIN s |-> s[i].gameId]
  <2>3. r \in Seq({e.gameId : e \in Events})
    <3>1. \A i \in DOMAIN s : s[i] \in Events
      BY <2>2
    <3>. QED
      BY <2>2, <3>1
  <2> HIDE DEF r
  <2>4. m_changedGames \in Seq(Games)
    BY DEF TypeOK
  <2>5. \A i \in DOMAIN m_changedGames : /\ i \in DOMAIN (m_changedGames \o r)
                                         /\ (m_changedGames \o r)[i] = m_changedGames[i]
    BY <2>3, <2>4
  <2>6. Elements(m_changedGames) \subseteq Elements(m_changedGames')
    BY <2>1, <2>5 DEF Elements, r
  <2>7. \A h \in Tracked : Waiting(h)' = Waiting(h)
    BY <1>9 DEF SuspendScheduler, Waiting, Wanted, databaseVars, historyVars
  <2>. QED
    BY <2>6, <2>7
<1>10. CASE Stop \/ Tick
  <2>1. UNCHANGED <<phase, at, until, hostRunNow, broken, missed, m_changedGames>>
    BY <1>10 DEF Stop, Tick, databaseVars, historyVars, listVars
  <2>. QED
    BY <2>1 DEF Waiting, Wanted, Elements
<1>. QED
  BY <1>5, <1>6, <1>7, <1>8, <1>9, <1>10 DEF Commands

\* generateInitialSchedule() makes an event for every waiting game.
LEMMA AnnouncedInit ==
    ASSUME IInv, IInv', Announced, GenerateInitialSchedule
    PROVE  Announced'
<1>1. PICK a \in [Games -> Times], u \in [Games -> Times] :
        /\ at' = a /\ until' = u
        /\ m_futureEvents' = AdjustForSuspension(UNION {GameEvents(g, a[g], u[g], now) : g \in Games})
  BY DEF GenerateInitialSchedule
<1>2. UNCHANGED <<phase, hostRunNow, broken>> /\ pc' = "loop"
  BY DEF GenerateInitialSchedule
<1>3. ASSUME NEW g \in Tracked, Waiting(g)' PROVE g \in FutureGames'
  <2>1. g \in Games /\ now \in Nat \ {0} /\ now \in Times /\ a[g] \in Times /\ u[g] \in Times
    <3>1. g \in Games
      BY GamesAssumption
    <3>2. now \in 1..MaxTime
      BY DEF IInv, TypeOK
    <3>3. now \in Nat \ {0} /\ now \in Times
      BY <3>2, BoundAssumption DEF Times
    <3>. QED
      BY <3>1, <3>3
  <2>2. Wanted(g, a[g], u[g])
    BY <1>1, <1>2, <1>3 DEF Waiting, Wanted
  <2>3. PICK e \in GameEvents(g, a[g], u[g], now) : TRUE
    BY <2>1, <2>2, WantedEvents
  <2>4. e.gameId = g /\ e \in Events
    BY <2>1, GameEventsFacts DEF Single
  <2>5. Adjusted(e) \in m_futureEvents'
    BY <1>1, <2>1, <2>3 DEF AdjustForSuspension
  <2>6. Adjusted(e).gameId = g
    BY <2>4 DEF Adjusted, Events
  <2>. QED
    BY <2>5, <2>6 DEF FutureGames
<1>. QED
  BY <1>2, <1>3 DEF Announced, Scheduled, Requesting

\* Steps that change no game keep the waiting games in the lists: a request
\* that is dropped was about a due game, and events only move from the future
\* to the due list.
LEMMA AnnouncedMove ==
    ASSUME IInv, Announced,
           Moves \/ PickItem \/ DecideDueItem \/ AdjustRequest \/ CleanUp \/ PickRequest \/ MoveDueItems
    PROVE  Announced'
<1>1. UNCHANGED <<phase, at, until, hostRunNow, broken, missed>>
  BY DEF Moves, PickItem, DecideDueItem, AdjustRequest, CleanUp, PickRequest, MoveDueItems, IsStopRequested,
         NoRequest, Sleep, Idle, Export, DatabaseFails, databaseVars, historyVars
<1>2. \A h : Waiting(h)' <=> Wanted(h, at[h], until[h]) /\ h \in Tracked /\ missed[h] = "no"
  BY <1>1 DEF Waiting, Wanted
<1>3. CASE Moves \/ PickItem \/ DecideDueItem \/ AdjustRequest
  <2>1. UNCHANGED <<m_changedGames, m_futureEvents, m_dueEvents>>
    BY <1>3 DEF Moves, PickItem, DecideDueItem, AdjustRequest, IsStopRequested,
         NoRequest, Sleep, Idle, Export, DatabaseFails, listVars
  <2>2. \A h \in Tracked : Scheduled(h)' <=> Scheduled(h)
    BY <2>1 DEF Scheduled, DueGames, FutureGames, Elements
  <2>3. CASE Moves \/ PickItem
    <3>1. pc' \notin Requesting \cup {"decide", "update"} /\ (pc' # "init" /\ Alive' => pc # "init" /\ Alive)
      BY <2>3 DEF Moves, PickItem, IsStopRequested, NoRequest, Sleep, Idle, Export, DatabaseFails, Requesting, Alive
    <3>. QED
      BY <1>2, <2>2, <3>1 DEF Announced, Requesting, Waiting
  <2>4. CASE DecideDueItem \/ AdjustRequest
    <3>1. /\ gameId' = gameId /\ result' = AdjustForSuspension(result)
          /\ \/ pc = "decide" /\ pc' \in {"export", "update"}
             \/ pc = "adjust" /\ pc' = "publish"
      BY <2>4 DEF DecideDueItem, AdjustRequest
    <3>2. result' = {} <=> result = {}
      BY <3>1, AdjustNonempty
    <3>3. Elements(m_changedGames)' = Elements(m_changedGames)
      BY <2>1 DEF Elements
    <3>4. pc # "init" /\ Alive
      BY <3>1 DEF Alive
    <3>. QED
      BY <1>2, <2>2, <3>1, <3>2, <3>3, <3>4 DEF Announced, Requesting, Waiting
  <2>. QED
    BY <1>3, <2>3, <2>4
<1>4. CASE CleanUp
  BY <1>4 DEF CleanUp, Announced, Alive, Requesting
<1>5. CASE PickRequest
  <2>1. /\ pc = "requests" /\ m_changedGames \in Seq(Games) /\ m_changedGames # <<>>
        /\ UNCHANGED <<m_futureEvents, m_dueEvents>>
    BY <1>5 DEF PickRequest, IInv, TypeOK
  <2>2. Head(m_changedGames) \in Elements(m_changedGames)
    BY <2>1 DEF Elements
  <2>3. Elements(m_changedGames) = Elements(Tail(m_changedGames)) \cup {Head(m_changedGames)}
    <3> DEFINE s == m_changedGames
               t == Tail(s)
    <3>1. /\ DOMAIN s = 1..Len(s) /\ DOMAIN t = 1..(Len(s) - 1) /\ Len(s) \in Nat \ {0}
          /\ \A i \in DOMAIN t : t[i] = s[i+1]
          /\ s[1] = Head(s)
      BY <2>1
    <3> HIDE DEF s, t
    <3>2. \A i \in DOMAIN s : i = 1 \/ (i - 1 \in DOMAIN t /\ t[i-1] = s[i])
      BY <3>1
    <3>3. \A i \in DOMAIN t : i + 1 \in DOMAIN s /\ 1 \in DOMAIN s
      BY <3>1
    <3>4. 1 \in DOMAIN s
      BY <3>1
    <3>. QED
      BY <3>1, <3>2, <3>3, <3>4 DEF Elements, s, t
  <2>4. DueGames' = DueGames /\ FutureGames' = FutureGames
    BY <2>1 DEF DueGames, FutureGames, Elements
  <2>5. \A h \in Tracked : Waiting(h)' => Scheduled(h)
    BY <1>2, <2>1 DEF Announced, Alive, Waiting
  <2>6. CASE Head(m_changedGames) \in DueGames
    <3>1. m_changedGames' = Tail(m_changedGames) /\ pc' = pc
      BY <1>5, <2>6 DEF PickRequest
    <3>2. \A h : Scheduled(h) => Scheduled(h)'
      BY <2>3, <2>4, <2>6, <3>1 DEF Scheduled, Elements
    <3>. QED
      BY <2>1, <2>5, <3>1, <3>2 DEF Announced, Requesting
  <2>7. CASE Head(m_changedGames) \notin DueGames
    <3>1. m_changedGames' = m_changedGames /\ pc' = "compute" /\ gameId' = Head(m_changedGames)
      BY <1>5, <2>7 DEF PickRequest
    <3>2. Elements(m_changedGames)' = Elements(m_changedGames)
      BY <3>1 DEF Elements
    <3>. QED
      BY <2>2, <2>4, <2>5, <3>1, <3>2 DEF Announced, Requesting, Scheduled
  <2>. QED
    BY <2>6, <2>7
<1>6. CASE MoveDueItems
  <2>1. /\ pc = "move" /\ pc' = "pick" /\ m_changedGames' = m_changedGames
        /\ m_lockedGames' = m_lockedGames \cup {e.gameId : e \in {d \in m_futureEvents : d.time <= now}}
        /\ m_futureEvents' = m_futureEvents \ {d \in m_futureEvents : d.time <= now}
    BY <1>6 DEF MoveDueItems
  <2>2. m_lockedGames = DueGames /\ m_lockedGames' = DueGames'
    <3>1. IInv'
      BY <1>6, DueStep
    <3>. QED
      BY <2>1, <3>1 DEF IInv, Queues, Alive
  <2>3. \A h : Scheduled(h) => Scheduled(h)'
    BY <2>1, <2>2 DEF Scheduled, FutureGames, Elements
  <2>. QED
    BY <1>2, <2>1, <2>3 DEF Announced, Requesting, Alive, Waiting
<1>. QED
  BY <1>3, <1>4, <1>5, <1>6

\* The event of a request is computed from the current state of its game.
LEMMA AnnouncedRequest ==
    ASSUME IInv, Announced, ComputeRequest
    PROVE  Announced'
<1>1. /\ pc = "compute" /\ pc' \in {"adjust", "publish"}
      /\ UNCHANGED <<phase, hostRunNow, broken, m_changedGames, m_futureEvents, m_dueEvents, gameId>>
      /\ result' = GameEvents(gameId, at'[gameId], until'[gameId], now)
  BY DEF ComputeRequest, listVars
<1>2. gameId \in Games /\ now \in Nat \ {0}
  BY <1>1, BoundAssumption DEF IInv, TypeOK
<1>3. at' \in [Games -> Times] /\ until' \in [Games -> Times]
  BY <1>2, ExpireTyped DEF ComputeRequest, IInv
<1>4. \A h \in Tracked \ {gameId} : at'[h] = at[h] /\ until'[h] = until[h] /\ missed'[h] = missed[h]
  BY <1>2, GamesAssumption DEF ComputeRequest, ExpireSchedule, Computed, Miss, IInv, TypeOK
<1>5. \A h : Scheduled(h)' <=> Scheduled(h)
  BY <1>1 DEF Scheduled, DueGames, FutureGames, Elements
<1>6. gameId \in Elements(m_changedGames)
  BY <1>1 DEF Announced, Requesting
<1>7. \A h \in Tracked : Waiting(h)' => Scheduled(h)
  <2>1. \A h \in Tracked \ {gameId} : Waiting(h)' => Waiting(h)
    BY <1>1, <1>4 DEF Waiting, Wanted
  <2>. QED
    BY <1>1, <1>6, <2>1 DEF Announced, Alive, Scheduled
<1>8. Waiting(gameId)' => result' # {}
  <2>1. Waiting(gameId)' => Wanted(gameId, at'[gameId], until'[gameId])
    BY <1>1 DEF Waiting, Wanted
  <2>2. at'[gameId] \in Times /\ until'[gameId] \in Times
    BY <1>2, <1>3
  <2>. QED
    BY <1>1, <1>2, <2>1, <2>2, WantedEvents
<1>9. Elements(m_changedGames)' = Elements(m_changedGames)
  BY <1>1 DEF Elements
<1>. QED
  BY <1>1, <1>5, <1>6, <1>7, <1>8, <1>9 DEF Announced, Requesting

\* Publishing replaces the request by the event computed for it, which is not
\* missing unless the change was overtaken.
LEMMA AnnouncedPublish ==
    ASSUME IInv, Announced, PublishRequest
    PROVE  Announced'
<1>1. /\ pc = "publish" /\ pc' = "requests"
      /\ m_futureEvents' = {e \in m_futureEvents : e.gameId # gameId} \cup result
      /\ m_changedGames' = Kept(m_changedGames, Games \ {gameId})
      /\ UNCHANGED <<phase, at, until, hostRunNow, broken, missed, m_dueEvents>>
  BY DEF PublishRequest, databaseVars, historyVars
<1>2. \A h : Waiting(h)' <=> Waiting(h)
  BY <1>1 DEF Waiting, Wanted
<1>3. DueGames' = DueGames
  BY <1>1 DEF DueGames, Elements
<1>4. ASSUME NEW h \in Tracked, Waiting(h) PROVE Scheduled(h)'
  <2>1. Scheduled(h)
    BY <1>1, <1>4 DEF Announced, Alive
  <2>2. CASE h = gameId
    <3>1. PICK e \in result : e.gameId = gameId
      BY <1>1, <1>4, <2>2 DEF Announced, IInv, Control, Single
    <3>. QED
      BY <1>1, <2>2, <3>1 DEF Scheduled, FutureGames
  <2>3. CASE h # gameId
    <3>1. h \in Games
      BY GamesAssumption
    <3>2. h \in Elements(m_changedGames) => h \in Elements(m_changedGames')
      <4>1. m_changedGames \in Seq(Games)
        BY DEF IInv, TypeOK
      <4>2. Elements(m_changedGames) \cap (Games \ {gameId})
                \subseteq Elements(Kept(m_changedGames, Games \ {gameId}))
        BY <4>1, KeptElements
      <4>. QED
        BY <1>1, <2>3, <3>1, <4>2
    <3>3. h \in FutureGames => h \in FutureGames'
      BY <1>1, <2>3 DEF FutureGames
    <3>. QED
      BY <1>3, <2>1, <3>2, <3>3 DEF Scheduled, Elements
  <2>. QED
    BY <2>2, <2>3
<1>. QED
  BY <1>1, <1>2, <1>4 DEF Announced, Requesting

\* The event of the due game is computed from its current state.
LEMMA AnnouncedWork ==
    ASSUME IInv, Announced, CheckDueItem \/ Recompute
    PROVE  Announced'
<1>1. /\ pc \in {"check", "recompute"} /\ pc' \in {"decide", "update"}
      /\ UNCHANGED <<phase, broken, m_changedGames, m_futureEvents, m_dueEvents, gameId>>
      /\ hostRunNow' \subseteq hostRunNow /\ hostRunNow \subseteq hostRunNow' \cup {gameId}
      /\ result' \in {GameEvents(gameId, at'[gameId], until'[gameId], startTime),
                       AdjustForSuspension(GameEvents(gameId, at'[gameId], until'[gameId], startTime))}
      /\ ExpireSchedule(gameId, startTime) /\ Computed(gameId)
  BY DEF CheckDueItem, Recompute, listVars
<1>2. gameId \in Games /\ gameId \in DueGames /\ startTime \in Nat \ {0}
  BY <1>1, WorkIsDue, TimesAreNumbers DEF IInv, TypeOK, Control, AtWork
<1>3. at' \in [Games -> Times] /\ until' \in [Games -> Times]
  BY <1>1, <1>2, ExpireTyped DEF IInv
<1>4. \A h \in Tracked \ {gameId} : at'[h] = at[h] /\ until'[h] = until[h] /\ missed'[h] = missed[h]
  BY <1>1, <1>2, GamesAssumption DEF ExpireSchedule, Computed, Miss, IInv, TypeOK
<1>5. \A h : Scheduled(h)' <=> Scheduled(h)
  BY <1>1 DEF Scheduled, DueGames, FutureGames, Elements
<1>6. \A h \in Tracked : Waiting(h)' => Scheduled(h)
  <2>1. \A h \in Tracked \ {gameId} : Waiting(h)' => Waiting(h)
    BY <1>1, <1>4 DEF Waiting, Wanted
  <2>. QED
    BY <1>1, <1>2, <2>1 DEF Announced, Alive, Scheduled
<1>7. Waiting(gameId)' => result' # {}
  <2>1. Waiting(gameId)' => Wanted(gameId, at'[gameId], until'[gameId])
    BY <1>1 DEF Waiting, Wanted
  <2>2. at'[gameId] \in Times /\ until'[gameId] \in Times
    BY <1>2, <1>3
  <2>. QED
    BY <1>1, <1>2, <2>1, <2>2, WantedEvents, AdjustNonempty
<1>. QED
  BY <1>1, <1>5, <1>6, <1>7 DEF Announced, Requesting

\* A host run changes only the game it is about, which stays in the due list.
LEMMA AnnouncedHost ==
    ASSUME IInv, Announced, Host
    PROVE  Announced'
<1>1. CASE Export
  BY <1>1, AnnouncedMove DEF Moves
<1>2. CASE (\E new \in Phases, a \in 0..MaxTime, kicked \in BOOLEAN : Import(new, a, kicked))
           \/ (\E imported \in BOOLEAN : HostFails(imported))
  <2>1. /\ pc \in {"export", "hosting"} /\ pc' = "recompute"
        /\ UNCHANGED <<until, hostRunNow, m_futureEvents, m_dueEvents>>
        /\ broken \subseteq broken'
        /\ HandleGameChange(gameId) \/ UNCHANGED <<m_changedGames, missed>>
    BY <1>2 DEF Import, HostFails
  <2>2. gameId \in Games /\ gameId \in DueGames
    BY <2>1, WorkIsDue DEF AtWork
  <2>3. \A h \in Tracked \ {gameId} : phase'[h] = phase[h] /\ at'[h] = at[h] /\ missed'[h] = missed[h]
    BY <1>2, <2>2, GamesAssumption DEF Import, HostFails, HandleGameChange, Miss, IInv, TypeOK
  <2>4. \A h \in Tracked \ {gameId} : Waiting(h)' => Waiting(h)
    BY <2>1, <2>3 DEF Waiting, Wanted
  <2>5. DueGames' = DueGames /\ FutureGames' = FutureGames
    BY <2>1 DEF DueGames, FutureGames, Elements
  <2>6. Elements(m_changedGames) \subseteq Elements(m_changedGames)'
    <3>1. Elements(Append(m_changedGames, gameId)) = Elements(m_changedGames) \cup {gameId}
      BY <2>2, AppendElements DEF IInv, TypeOK
    <3>. QED
      BY <2>1, <3>1 DEF HandleGameChange, Elements
  <2>7. \A h \in Tracked : Waiting(h)' => Scheduled(h)'
    BY <2>1, <2>2, <2>4, <2>5, <2>6 DEF Announced, Alive, Scheduled
  <2>. QED
    BY <2>1, <2>7 DEF Announced, Requesting
<1>. QED
  BY <1>1, <1>2 DEF Host

\* The update after a run replaces the due event by the new one.
LEMMA AnnouncedUpdate ==
    ASSUME IInv, IInv', Announced, UpdateSchedules
    PROVE  Announced'
<1>1. /\ pc = "update" /\ pc' = "loop"
      /\ m_futureEvents' = m_futureEvents \cup result
      /\ m_lockedGames' = m_lockedGames \ {gameId}
      /\ UNCHANGED <<phase, at, until, hostRunNow, broken, missed, m_changedGames>>
  BY DEF UpdateSchedules, databaseVars, historyVars
<1>2. \A h : Waiting(h)' <=> Waiting(h)
  BY <1>1 DEF Waiting, Wanted
<1>3. DueGames' = DueGames \ {gameId}
  BY <1>1 DEF IInv, Queues, Alive
<1>4. Elements(m_changedGames)' = Elements(m_changedGames)
  BY <1>1 DEF Elements
<1>5. ASSUME NEW h \in Tracked, Waiting(h) PROVE Scheduled(h)'
  <2>1. Scheduled(h)
    BY <1>1, <1>5 DEF Announced, Alive
  <2>2. CASE h = gameId
    BY <1>1, <1>4, <1>5, <2>2 DEF Announced, IInv, Control, Single, Scheduled, FutureGames
  <2>3. CASE h # gameId
    BY <1>1, <1>3, <1>4, <2>1, <2>3 DEF Scheduled, FutureGames
  <2>. QED
    BY <2>2, <2>3
<1>. QED
  BY <1>1, <1>2, <1>5 DEF Announced, Requesting

\* Every step keeps the invariant.
LEMMA AnnouncedStep ==
    ASSUME IInv, IInv', Announced, [Next]_vars
    PROVE  Announced'
<1>1. Tracked \subseteq Games /\ 0 \notin Games
  BY GamesAssumption
<1>2. CASE Commands \/ Stop \/ Tick
  <2>1. Aside
    BY <1>2, CommandsAside
  <2>2. DueGames' = DueGames /\ FutureGames' = FutureGames
    BY <2>1 DEF Aside, DueGames, FutureGames, Elements
  <2>3. TypeOK
    BY DEF IInv
  <2>4. /\ Elements(m_changedGames) \subseteq Elements(m_changedGames')
        /\ \A h \in Tracked : Waiting(h)' => Waiting(h) \/ (h \in Elements(m_changedGames') /\ ~Overtaken(h))
    BY <1>2, <2>3, CommandKinds
  <2>5. Elements(m_changedGames)' = Elements(m_changedGames')
    BY DEF Elements
  <2>6. gameId' = gameId /\ pc' = pc /\ result' = result
    BY <2>1 DEF Aside
  <2>7. \A h \in Tracked : pc # "init" /\ Alive /\ Waiting(h)' => Scheduled(h)'
    BY <2>2, <2>4, <2>5 DEF Announced, Scheduled
  <2>8. Waiting(gameId)' => gameId \in Tracked
    BY <2>6 DEF Waiting
  <2>9. pc \in {"adjust", "publish"} => Overtaken(gameId)
    BY DEF Overtaken
  <2>10. Waiting(gameId)' <=> ( /\ Wanted(gameId, at[gameId], until[gameId])
                                /\ gameId \in Tracked /\ missed[gameId] = "no")'
    BY DEF Waiting
  <2>. QED
    BY <2>2, <2>4, <2>5, <2>6, <2>7, <2>8, <2>9 DEF Announced, Alive, Waiting
<1>3. CASE UNCHANGED vars
  BY <1>3 DEF vars, databaseVars, listVars, threadVars, historyVars, Announced, Alive, Waiting, Wanted, Scheduled,
              DueGames, FutureGames, Elements
<1>4. CASE Scheduler \/ Host \/ DatabaseFails
  BY <1>4, AnnouncedInit, AnnouncedMove, AnnouncedRequest, AnnouncedPublish, AnnouncedWork, AnnouncedHost,
     AnnouncedUpdate DEF Scheduler, Host, Moves
<1>. QED
  BY <1>2, <1>3, <1>4 DEF Next

\* Every game that is subject to scheduling and whose last change was
\* announced to the scheduler, not while an earlier event of it was being
\* published, appears in one of the three lists.
THEOREM AnnouncedListed == Spec => []AnnouncedGamesListed
<1>1. Init => Announced
  BY DEF Init, Announced, Requesting
<1>2. Spec => []Announced
  BY <1>1, AnnouncedStep, Invariance, PTL DEF Spec
<1>3. ASSUME IInv, Announced PROVE AnnouncedGamesListed
  <2> SUFFICES ASSUME Scheduling, NEW g \in Tracked, SubjectToScheduling(g), missed[g] = "no"
               PROVE  Listed(g)
    BY DEF AnnouncedGamesListed
  <2>1. g \in Games /\ at[g] \in Times /\ until[g] \in Times /\ now \in Nat \ {0}
    BY <1>3, GamesAssumption, BoundAssumption DEF IInv, TypeOK
  <2>2. Wanted(g, at[g], until[g])
    BY <2>1, WantedEvents DEF SubjectToScheduling
  <2>3. Scheduled(g)
    BY <1>3, <2>2 DEF Announced, Waiting, Scheduling
  <2>. QED
    BY <1>3, <2>3, ScheduledIsListed
<1>. QED
  BY <1>2, <1>3, Invariance, PTL

=============================================================================
