--------------------------- MODULE SessionRouter ---------------------------
(***************************************************************************)
(* server::router: sessions, each with a child process that plays a game,  *)
(* created, used, saved, restarted and closed by commands that arrive one  *)
(* at a time.  Children change directories of the file server and may      *)
(* crash; the file server must be told to forget what it knows of them.    *)
(***************************************************************************)
EXTENDS Integers, Sequences, FiniteSets, SequencesExt, Lists

CONSTANTS
    Dirs,           \* directories, "DIR=..." of a conflict marker
    Requests,       \* parameters of sessions: per directory, "W", "R" or ""
    Ids,            \* session Ids; one is used again when its session is gone
    MaxSessions, VirginTimeout, NormalTimeout, \* configuration
    Faults          \* subset of {"child", "save", "forget"}: crashing children, refused
                    \* saves, requests that do not reach the file server

ASSUME RequestsAssumption == Requests \subseteq [Dirs -> {"W", "R", ""}]
ASSUME BoundsAssumption ==
    /\ IsFiniteSet(Ids) /\ MaxSessions \in Nat
    /\ VirginTimeout \in Nat /\ NormalTimeout \in Nat /\ VirginTimeout <= NormalTimeout

VARIABLES
    newSessionsWin, \* configuration: a new session displaces conflicting ones
    m_sessions,     \* Root::m_sessions, as sequence of Ids
    session,        \* per Id: the Session object and its child process
    outdated,       \* directories of which the file server has old contents
    missed,         \* history: directories for which the last request of a session that
                    \* ended was lost while the file server had old contents
    group           \* the command on a group of sessions that is in progress

vars == <<newSessionsWin, m_sessions, session, outdated, missed, group>>

Actions == {"Close", "Restart", "Save", "SaveNN"}

\* Session: args, active, modified, used and age (time since the last access).
\* Child: alive, dirty (it has changes that are not saved).  Histories: quiet (changes
\* were saved and the file server not told), refused (the last save failed),
\* revived (restarted although it was not active any more).
NewSession(a) ==
    [args |-> a, active |-> FALSE, modified |-> FALSE, used |-> FALSE, age |-> 0,
     alive |-> FALSE, dirty |-> FALSE, quiet |-> FALSE, refused |-> FALSE, revived |-> FALSE]

NoSession == NewSession([d \in Dirs |-> ""])

NoGroup == [action |-> "", todo |-> <<>>]

Idle == group = NoGroup

Init ==
    /\ newSessionsWin \in BOOLEAN
    /\ m_sessions = <<>>
    /\ session = [i \in Ids |-> NoSession]
    /\ outdated = {}
    /\ missed = {}
    /\ group = NoGroup

----------------------------------------------------------------------------
(* The file server, as the router sees it: out.old are the directories of  *)
(* which it has old contents, out.missed those of the history variable;    *)
(* it does not hear of out.deaf as long as a command is executed.          *)

FileState(old, lost, deaf) == [old |-> old, missed |-> lost, deaf |-> deaf]

Files(deaf) == FileState(outdated, missed, deaf)

Deaf == IF "forget" \in Faults THEN SUBSET Dirs ELSE {{}}

\* A child has written dirs.
Written(out, dirs) == FileState(out.old \cup dirs, out.missed \ dirs, out.deaf)

\* notifyFileServer(): a FORGET for each of dirs, without regard to its success
NotifyFileServer(out, dirs) ==
    LET heard == dirs \ out.deaf
    IN  FileState(out.old \ heard, out.missed \ heard, out.deaf)

\* The same at the end of a session, which does not repeat it
NotifyLast(out, dirs) ==
    LET told == NotifyFileServer(out, dirs)
    IN  FileState(told.old, told.missed \cup (dirs \cap told.old), told.deaf)

----------------------------------------------------------------------------
(* Session: what can happen to session s while the file server is in state *)
(* out, as a set of results; ok is FALSE for an exception.                 *)

Writes(s) == { d \in Dirs : s.args[d] = "W" }

Result(s, out, ok) == [s |-> s, out |-> out, ok |-> ok]

\* checkConflict() of two sessions, and with a key that matches directories dirs
Conflict(s, t) ==
    \E d \in Dirs : {s.args[d], t.args[d]} \in {{"W"}, {"W", "R"}}

Matches(s, mode, dirs) ==
    \E d \in dirs : s.args[d] # "" /\ "W" \in {s.args[d], mode}

\* What the child writes when its input ends.
Unsaved(s) == IF s.alive /\ s.dirty THEN Writes(s) ELSE {}

Stopped(s) == [s EXCEPT !.active = FALSE, !.alive = FALSE, !.dirty = FALSE, !.quiet = FALSE]

\* Mutant: the file server is told before the child has ended.
NotifyAndStop(s, out) ==
    IF ~s.active THEN Result(s, out, TRUE)
    ELSE Result(Stopped(s), Written(NotifyLast(out, Writes(s)), Unsaved(s)), TRUE)

\* stop(): the child, if it still runs, saves; then the file server is told.
Stop(s, out) ==
    IF ~s.active THEN Result(s, out, TRUE)
    ELSE Result(Stopped(s), NotifyLast(Written(out, Unsaved(s)), Writes(s)), TRUE)

\* start(): the child may fail to start
Start(s, out) ==
    {Result([s EXCEPT !.active = TRUE, !.alive = TRUE, !.dirty = FALSE], out, TRUE)}
    \cup { r \in {Result(s, out, FALSE)} : "child" \in Faults }

\* handleError(): the conversation with a child that has died
HandleError(s, out) == {Result(Stop(s, out).s, Stop(s, out).out, FALSE)}

\* A SAVE command reaches a living child: it writes the directories, or refuses.
SaveChild(s, out) ==
    {Result([s EXCEPT !.dirty = FALSE, !.quiet = @ \/ s.dirty, !.refused = FALSE],
            IF s.dirty THEN Written(out, Writes(s)) ELSE out, TRUE)}
    \cup { r \in {Result([s EXCEPT !.refused = TRUE], out, TRUE)} : "save" \in Faults }

\* The result r of a save, after the file server was told
Notified(r) ==
    Result([r.s EXCEPT !.quiet = @ /\ Writes(r.s) \cap r.out.deaf # {}],
           NotifyFileServer(r.out, Writes(r.s)), r.ok)

Accessed(s) == [s EXCEPT !.used = TRUE, !.age = 0]

Save(s, out, notify) ==
    IF ~s.active \/ ~s.modified
    THEN {Result(IF s.active THEN Accessed(s) ELSE s, out, TRUE)}
    ELSE IF ~s.alive THEN HandleError(Accessed(s), out)
    ELSE { LET t == Result([r.s EXCEPT !.modified = FALSE], r.out, r.ok)
           IN  IF notify THEN Notified(t) ELSE t : r \in SaveChild(Accessed(s), out) }

\* talk(): SAVE, or another command, which may change something
TalkSave(s, out) ==
    LET t == [Accessed(s) EXCEPT !.modified = FALSE] IN
    IF ~s.active THEN {Result(s, out, TRUE)}
    ELSE IF ~s.alive THEN HandleError(t, out)
    ELSE SaveChild(t, out)

TalkOther(s, out) ==
    LET t == [Accessed(s) EXCEPT !.modified = TRUE] IN
    IF ~s.active THEN {Result(s, out, TRUE)}
    ELSE IF ~s.alive THEN HandleError(t, out)
    ELSE { Result([t EXCEPT !.dirty = d], out, TRUE) : d \in {s.dirty, TRUE} }

Restart(s, out) ==
    LET r == Stop(s, out) IN Start([r.s EXCEPT !.revived = @ \/ ~s.active], r.out)

DoAction(action, s, out) ==
    CASE action = "Close" -> {Stop(s, out)}
      [] action = "Restart" -> Restart(s, out)
      [] action = "Save" -> Save(s, out, TRUE)
      [] action = "SaveNN" -> Save(s, out, FALSE)

----------------------------------------------------------------------------
(* Root: the list of sessions.  A state of it is a record, as a command may *)
(* change it in several steps that no one else sees.                       *)

State(list, S, out) == [list |-> list, S |-> S, out |-> out]

Root(deaf) == State(m_sessions, session, Files(deaf))

Become(R) == m_sessions' = R.list /\ session' = R.S /\ outdated' = R.out.old /\ missed' = R.out.missed

\* Session i of R is replaced by the outcome r of what was done to it.
With(R, i, r) == State(R.list, [R.S EXCEPT ![i] = r.s], r.out)

\* Some sessions of R are stopped, in any order.
StopAll(R, ended) ==
    LET active == { i \in ended : R.S[i].active }
    IN  State(R.list, [i \in Ids |-> IF i \in ended THEN Stop(R.S[i], R.out).s ELSE R.S[i]],
              NotifyLast(Written(R.out, UNION { Unsaved(R.S[i]) : i \in active }),
                         UNION { Writes(R.S[i]) : i \in active }))

Expired(s) == s.active /\ s.age >= (IF s.used THEN NormalTimeout ELSE VirginTimeout)

\* Of the sessions of R, keep those in list; the others are deleted.
Resized(R, list) ==
    State(list, [i \in Ids |-> IF i \in ToSet(list) THEN R.S[i] ELSE NoSession], R.out)

\* removeExpiredSessions()
RemoveExpiredSessions(R) ==
    LET T == StopAll(R, { i \in ToSet(R.list) : Expired(R.S[i]) })
    IN  Resized(T, Kept(R.list, { i \in Ids : T.S[i].active }))

\* Mutant: only a new session that writes looks for conflicts.
WriterRivals(a) ==
    { i \in ToSet(m_sessions) : session[i].active /\ Matches(session[i], "W",
                                  Writes(NewSession(a))) }

\* createSession(): sessions that conflict with a new one, which may have to go
Rivals(a) ==
    { i \in ToSet(m_sessions) : session[i].active /\ Conflict(NewSession(a), session[i]) }

Displaced(a, deaf) ==
    IF Rivals(a) # {} \/ Len(m_sessions) >= MaxSessions
    THEN RemoveExpiredSessions(StopAll(Root(deaf), Rivals(a)))
    ELSE Root(deaf)

\* NEW is refused, and changes nothing, if older sessions win.  Otherwise it may fail
\* after older ones were stopped: there are too many, or the child does not start.
CreateFails(a, deaf) ==
    /\ Idle
    /\ Rivals(a) = {} \/ newSessionsWin
    /\ Len(Displaced(a, deaf).list) >= MaxSessions \/ "child" \in Faults
    /\ Become(Displaced(a, deaf))
    /\ UNCHANGED <<newSessionsWin, group>>

\* Mutant: sessions are counted before those that have ended are removed.
CreateEarly(a, deaf) ==
    LET R == Displaced(a, deaf)
        r == Result([NewSession(a) EXCEPT !.active = TRUE, !.alive = TRUE], R.out, TRUE)
    IN  /\ Idle
        /\ Rivals(a) = {} \/ newSessionsWin
        /\ Len(m_sessions) <= MaxSessions
        /\ \E i \in Ids \ ToSet(R.list) :
             Become(With(State(Append(R.list, i), R.S, R.out), i, r))
        /\ UNCHANGED <<newSessionsWin, group>>

Create(a, deaf) ==
    LET R == Displaced(a, deaf)
        r == Result([NewSession(a) EXCEPT !.active = TRUE, !.alive = TRUE], R.out, TRUE)
    IN  /\ Idle
        /\ Rivals(a) = {} \/ newSessionsWin
        /\ Len(R.list) < MaxSessions
        /\ \E i \in Ids \ ToSet(R.list) :
             Become(With(State(Append(R.list, i), R.S, R.out), i, r))
        /\ UNCHANGED <<newSessionsWin, group>>

----------------------------------------------------------------------------
(* SessionRouter: the commands.                                            *)

\* A command did r to session i; unless that failed, the list is cleaned.
Finish(i, r, deaf) ==
    /\ Become(IF r.ok THEN RemoveExpiredSessions(With(Root(deaf), i, r)) ELSE With(Root(deaf), i, r))
    /\ UNCHANGED <<newSessionsWin, group>>

\* LIST, INFO
List(deaf) ==
    /\ Idle
    /\ Become(RemoveExpiredSessions(Root(deaf)))
    /\ UNCHANGED <<newSessionsWin, group>>

Talk(i, deaf) ==
    /\ Idle
    /\ \E r \in TalkSave(session[i], Files(deaf)) \cup TalkOther(session[i], Files(deaf)) : Finish(i, r, deaf)

SessionAction(i, action, deaf) ==
    /\ Idle
    /\ \E r \in DoAction(action, session[i], Files(deaf)) : Finish(i, r, deaf)

\* groupAction(): a loop over the list, which ends early with an exception
GroupStart(action, mode, dirs) ==
    /\ Idle
    /\ group' = [action |-> action,
                 todo |-> Kept(m_sessions, { i \in Ids : Matches(session[i], mode, dirs) })]
    /\ UNCHANGED <<newSessionsWin, m_sessions, session, outdated, missed>>

GroupStep(deaf) ==
    /\ group.todo # <<>>
    /\ LET i == Head(group.todo) IN
       \E r \in DoAction(group.action, session[i], Files(deaf)) :
         /\ Become(With(Root(deaf), i, r))
         /\ group' = IF r.ok THEN [group EXCEPT !.todo = Tail(@)] ELSE NoGroup
    /\ UNCHANGED newSessionsWin

GroupEnd(deaf) ==
    /\ ~Idle /\ group.todo = <<>>
    /\ Become(RemoveExpiredSessions(Root(deaf)))
    /\ group' = NoGroup
    /\ UNCHANGED newSessionsWin

\* Shutdown, after the server has stopped
StopAllSessions(deaf) ==
    /\ Idle
    /\ Become(Resized(StopAll(Root(deaf), ToSet(m_sessions)), <<>>))
    /\ UNCHANGED <<newSessionsWin, group>>

----------------------------------------------------------------------------
(* The environment.                                                        *)

ChildDies(i) ==
    /\ "child" \in Faults
    /\ session[i].alive
    /\ session' = [session EXCEPT ![i].alive = FALSE, ![i].dirty = FALSE]
    /\ UNCHANGED <<newSessionsWin, m_sessions, outdated, missed, group>>

Older(s) == [s EXCEPT !.age = IF s.active /\ @ < NormalTimeout THEN @ + 1 ELSE @]

Tick ==
    /\ \E i \in Ids : session[i].active /\ session[i].age < NormalTimeout
    /\ session' = [i \in Ids |-> Older(session[i])]
    /\ UNCHANGED <<newSessionsWin, m_sessions, outdated, missed, group>>

Next ==
    \/ \E deaf \in Deaf :
         \/ \E a \in Requests : CreateFails(a, deaf) \/ Create(a, deaf)
         \/ List(deaf)
         \/ \E i \in ToSet(m_sessions) :
              Talk(i, deaf) \/ (\E action \in Actions : SessionAction(i, action, deaf))
         \/ GroupStep(deaf) \/ GroupEnd(deaf)
         \/ StopAllSessions(deaf)
    \/ \E action \in Actions, mode \in {"R", "W"}, dirs \in SUBSET Dirs \ {{}} :
         GroupStart(action, mode, dirs)
    \/ \E i \in ToSet(m_sessions) : ChildDies(i)
    \/ Tick

Spec == Init /\ [][Next]_vars

----------------------------------------------------------------------------
(* Properties. *)

\* Every variable has its type; what is not listed has no process.
TypeOK ==
    /\ newSessionsWin \in BOOLEAN
    /\ m_sessions \in Seq(Ids) /\ IsInjective(m_sessions)
    /\ \A i \in Ids \ ToSet(m_sessions) : session[i] = NoSession
    /\ session \in [Ids ->
         [args : Requests \cup {[d \in Dirs |-> ""]}, active : BOOLEAN, modified : BOOLEAN,
          used : BOOLEAN, age : 0..NormalTimeout, alive : BOOLEAN, dirty : BOOLEAN,
          quiet : BOOLEAN, refused : BOOLEAN, revived : BOOLEAN]]
    /\ missed \subseteq outdated /\ outdated \subseteq Dirs
    /\ group.todo \in Seq(Ids)

\* There are never more processes than MaxSessions, and each belongs to a session that is
\* listed and can be closed: sessions that ended, timed out, were displaced or failed to
\* start make room, and only they do (root.cpp:62-68, 133-142).
ProcessesBounded ==
    LET running == { i \in Ids : session[i].alive \/ session[i].active } IN
    /\ TypeOK
    /\ running \subseteq ToSet(m_sessions)
    /\ Cardinality(running) <= MaxSessions

\* No two active sessions conflict, in whatever order sessions are created, displaced,
\* crash, time out and are restarted, except where an ended session was restarted
\* (session.cpp:43-46).
ActiveConflict(i, j) ==
    i # j /\ session[i].active /\ session[j].active /\ Conflict(session[i], session[j])

ConflictFree ==
    \A i, j \in Ids : ActiveConflict(i, j) => session[i].revived \/ session[j].revived

\* When a session has ended, by whatever way and whether or not its child crashed, the
\* file server has been told of what the child changed, or the one request at the end of
\* the session was lost: "we don't want that to hinder us *at this point*" (session.cpp:
\* 206-216, 350-370).  While the session is active, a lost request is made up for by the
\* next one, also that of a save after which the session is not modified any more.
FileServerCurrent ==
    \A d \in outdated \ missed : \E i \in Ids :
        session[i].active /\ session[i].quiet /\ d \in Writes(session[i])

\* A session whose child has changes to save is marked modified, so that SAVE reaches it,
\* unless the child refused the last save (session.cpp:226, 239, 264).
ModifiedAccurate ==
    \A i \in Ids : session[i].active /\ session[i].dirty
                  => session[i].modified \/ session[i].refused

\* "If there is a -W session, it must be the only one" (session.cpp:45): without the
\* exception that ConflictFree makes.
WritersAlone == \A i, j \in Ids : ~ActiveConflict(i, j)
=============================================================================
