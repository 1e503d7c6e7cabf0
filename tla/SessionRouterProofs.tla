------------------------ MODULE SessionRouterProofs ------------------------
(***************************************************************************)
(* Proofs about SessionRouter: what a command does to one session keeps    *)
(* the invariants of the whole, hence do the loops over sessions.          *)
(***************************************************************************)
EXTENDS SessionRouter, ListLemmas, FiniteSetTheorems

\* A Session object and its child.
Sessions ==
    [args : Requests \cup {[d \in Dirs |-> ""]}, active : BOOLEAN, modified : BOOLEAN,
     used : BOOLEAN, age : 0..NormalTimeout, alive : BOOLEAN, dirty : BOOLEAN,
     quiet : BOOLEAN, refused : BOOLEAN, revived : BOOLEAN]

\* What the router knows of the file server: what was missed is outdated.
FileStates ==
    { o \in [old : SUBSET Dirs, missed : SUBSET Dirs, deaf : SUBSET Dirs] : o.missed \subseteq o.old }

\* The outdated directories that a session has to account for.
Open(out) == out.old \ out.missed

\* The list of a state R of Root has each session once, and not too many.
Listed(R) ==
    /\ R.list \in Seq(Ids) /\ IsInjective(R.list) /\ Len(R.list) <= MaxSessions
    /\ R.S \in [Ids -> Sessions]
    /\ R.out \in FileStates
    /\ \A i \in Ids \ ToSet(R.list) : R.S[i] = NoSession

\* ConflictFree, in state R.
Apart(R) ==
    \A i, j \in Ids : i # j /\ R.S[i].active /\ R.S[j].active /\ Conflict(R.S[i], R.S[j])
                      => R.S[i].revived \/ R.S[j].revived

\* Session s accounts for the outdated directory d.
Witness(s, d) == s.active /\ s.quiet /\ d \in Writes(s)

\* FileServerCurrent, in state R.
Current(R) == \A d \in Open(R.out) : \E i \in Ids : Witness(R.S[i], d)

\* ModifiedAccurate, for one session.
Marked(s) == s.active /\ s.dirty => s.modified \/ s.refused

\* The invariant of Root, also between the steps of a command.
Good(R) == Listed(R) /\ Apart(R) /\ Current(R) /\ \A i \in Ids : Marked(R.S[i])

\* The command on a group is about listed sessions.
GroupOK ==
    /\ group \in [action : Actions \cup {""}, todo : Seq(Ids)]
    /\ group.todo # <<>> => group.action \in Actions
    /\ ToSet(group.todo) \subseteq ToSet(m_sessions)

\* The inductive invariant.
IInv == newSessionsWin \in BOOLEAN /\ Good(Root({})) /\ GroupOK

-----------------------------------------------------------------------------
(* One session. *)

\* What may happen to session s: its parameters stay, it becomes active only by a restart,
\* which is remembered, and it accounts for each directory that becomes or stays outdated.
Sound(s, out, r) ==
    /\ r.s \in Sessions /\ r.out \in FileStates /\ r.ok \in BOOLEAN
    /\ r.s.args = s.args
    /\ s.revived => r.s.revived
    /\ r.s.active => s.active \/ r.s.revived
    /\ \A d \in Open(r.out) : d \in Open(out) \/ Witness(r.s, d)
    /\ \A d \in Open(r.out) : Witness(s, d) => Witness(r.s, d)
    /\ Marked(s) => Marked(r.s)

\* Children write directories, and the file server hears of them, or is told the last time.
LEMMA FilesFacts ==
    ASSUME NEW out \in FileStates, NEW dirs \in SUBSET Dirs
    PROVE  /\ Written(out, dirs) \in FileStates /\ Written(out, dirs).deaf = out.deaf
           /\ Open(Written(out, dirs)) = Open(out) \cup dirs
           /\ NotifyFileServer(out, dirs) \in FileStates
           /\ Open(NotifyFileServer(out, dirs)) = Open(out) \ (dirs \ out.deaf)
           /\ NotifyLast(out, dirs) \in FileStates
           /\ Open(NotifyLast(out, dirs)) = Open(out) \ dirs
<1>1. out \in [old : SUBSET Dirs, missed : SUBSET Dirs, deaf : SUBSET Dirs] /\ out.missed \subseteq out.old
  BY DEF FileStates
<1> DEFINE w == Written(out, dirs)
           n == NotifyFileServer(out, dirs)
           l == NotifyLast(out, dirs)
<1>2. w = [old |-> out.old \cup dirs, missed |-> out.missed \ dirs, deaf |-> out.deaf]
  BY DEF Written, FileState
<1>3. n = [old |-> out.old \ (dirs \ out.deaf), missed |-> out.missed \ (dirs \ out.deaf), deaf |-> out.deaf]
  BY DEF NotifyFileServer, FileState
<1>5. l = [old |-> n.old, missed |-> n.missed \cup (dirs \cap n.old), deaf |-> n.deaf]
  BY DEF NotifyLast, FileState
<1> HIDE DEF w, n, l
<1>6. w \in FileStates /\ w.deaf = out.deaf /\ Open(w) = Open(out) \cup dirs
  BY <1>1, <1>2 DEF FileStates, Open
<1>7. n \in FileStates /\ Open(n) = Open(out) \ (dirs \ out.deaf)
  BY <1>1, <1>3 DEF FileStates, Open
<1>8. l \in FileStates /\ Open(l) = Open(n) \ dirs
  BY <1>5, <1>7 DEF FileStates, Open
<1>. QED
  BY <1>6, <1>7, <1>8 DEF w, n, l

\* stop() leaves an inactive session, which accounts for nothing any more.
LEMMA StopSound ==
    ASSUME NEW s \in Sessions, NEW out \in FileStates
    PROVE  /\ Sound(s, out, Stop(s, out))
           /\ ~Stop(s, out).s.active
           /\ Open(Stop(s, out).out) \subseteq Open(out)
           /\ \A d \in Open(Stop(s, out).out) : ~Witness(s, d)
<1> DEFINE p == Stop(s, out)
<1>1. CASE ~s.active
  <2>1. p.s = s /\ p.out = out /\ p.ok = TRUE
    BY <1>1 DEF Stop, Result
  <2> HIDE DEF p
  <2>2. Sound(s, out, p) /\ ~p.s.active /\ Open(p.out) \subseteq Open(out) /\ \A d \in Open(p.out) : ~Witness(s, d)
    BY <1>1, <2>1 DEF Sound, Witness
  <2>. QED
    BY <2>2 DEF p
<1>2. CASE s.active
  <2> DEFINE t == Stopped(s)
             w == Written(out, Unsaved(s))
  <2>1. p.s = t /\ p.out = NotifyLast(w, Writes(s)) /\ p.ok = TRUE
    BY <1>2 DEF Stop, Result
  <2>2. t \in Sessions /\ t.args = s.args /\ t.revived = s.revived /\ ~t.active
    BY DEF Sessions, Stopped
  <2>3. Unsaved(s) \subseteq Writes(s) /\ Writes(s) \in SUBSET Dirs
    BY DEF Unsaved, Writes
  <2>4. w \in FileStates /\ Open(w) = Open(out) \cup Unsaved(s)
    BY <2>3, FilesFacts
  <2> HIDE DEF p, t, w
  <2>5. p.out \in FileStates /\ Open(p.out) = Open(w) \ Writes(s)
    BY <2>1, <2>3, <2>4, FilesFacts
  <2>6. Open(p.out) = Open(out) \ Writes(s)
    BY <2>3, <2>4, <2>5
  <2>7. Sound(s, out, p) /\ ~p.s.active /\ Open(p.out) \subseteq Open(out) /\ \A d \in Open(p.out) : ~Witness(s, d)
    BY <2>1, <2>2, <2>5, <2>6 DEF Sound, Witness, Marked
  <2>. QED
    BY <2>7 DEF p
<1>. QED
  BY <1>1, <1>2 DEF Sessions

\* An access to a session changes nothing else that the invariants are about.
LEMMA AccessedFacts ==
    ASSUME NEW s \in Sessions, NEW m \in BOOLEAN
    PROVE  LET t == [Accessed(s) EXCEPT !.modified = m] IN
           /\ Accessed(s) \in Sessions /\ t \in Sessions
           /\ \A a \in {Accessed(s), t} : /\ a.args = s.args /\ a.active = s.active /\ a.alive = s.alive
                                          /\ a.dirty = s.dirty /\ a.quiet = s.quiet
                                          /\ a.refused = s.refused /\ a.revived = s.revived
           /\ t.modified = m /\ Accessed(s).modified = s.modified
<1> DEFINE a == Accessed(s)
           t == [a EXCEPT !.modified = m]
<1>1. a = [s EXCEPT !.used = TRUE, !.age = 0]
  BY DEF Accessed
<1>2. 0 \in 0..NormalTimeout
  BY BoundsAssumption
<1> HIDE DEF a
<1>3. a \in Sessions
  BY <1>1, <1>2 DEF Sessions
<1>4. /\ a.args = s.args /\ a.active = s.active /\ a.alive = s.alive /\ a.dirty = s.dirty
      /\ a.quiet = s.quiet /\ a.refused = s.refused /\ a.revived = s.revived /\ a.modified = s.modified
  BY <1>1 DEF Sessions
<1>5. t \in Sessions
  BY <1>3 DEF Sessions
<1>6. /\ t.args = a.args /\ t.active = a.active /\ t.alive = a.alive /\ t.dirty = a.dirty
      /\ t.quiet = a.quiet /\ t.refused = a.refused /\ t.revived = a.revived /\ t.modified = m
  BY <1>3 DEF Sessions
<1> HIDE DEF t
<1>. QED
  BY <1>3, <1>4, <1>5, <1>6 DEF a, t

\* The child saves, or refuses.
LEMMA SaveChildFacts ==
    ASSUME NEW s \in Sessions, NEW out \in FileStates, NEW r \in SaveChild(s, out)
    PROVE  /\ r.s \in Sessions /\ r.out \in FileStates /\ r.ok \in BOOLEAN
           /\ r.s.args = s.args /\ r.s.active = s.active /\ r.s.revived = s.revived /\ r.s.modified = s.modified
           /\ \/ /\ ~r.s.dirty /\ (s.quiet => r.s.quiet)
                 /\ r.out = out \/ (r.s.quiet /\ Open(r.out) = Open(out) \cup Writes(s))
              \/ r.s.refused /\ r.s.quiet = s.quiet /\ r.out = out
<1>1. CASE r = Result([s EXCEPT !.dirty = FALSE, !.quiet = @ \/ s.dirty, !.refused = FALSE],
                      IF s.dirty THEN Written(out, Writes(s)) ELSE out, TRUE)
  <2>1. Writes(s) \in SUBSET Dirs
    BY DEF Writes
  <2>2. Written(out, Writes(s)) \in FileStates /\ Open(Written(out, Writes(s))) = Open(out) \cup Writes(s)
    BY <2>1, FilesFacts
  <2>3. r.out = (IF s.dirty THEN Written(out, Writes(s)) ELSE out) /\ r.ok = TRUE
    BY <1>1 DEF Result
  <2>4. /\ r.s \in Sessions /\ r.s.args = s.args /\ r.s.active = s.active /\ r.s.revived = s.revived
        /\ r.s.modified = s.modified /\ ~r.s.dirty /\ r.s.quiet = (s.quiet \/ s.dirty)
    BY <1>1 DEF Result, Sessions
  <2>. QED
    BY <2>2, <2>3, <2>4
<1>2. CASE r = Result([s EXCEPT !.refused = TRUE], out, TRUE)
  BY <1>2 DEF Result, Sessions
<1>. QED
  BY <1>1, <1>2 DEF SaveChild

\* After an access, the child may save and be marked unmodified.
LEMMA AccessedSaveSound ==
    ASSUME NEW s \in Sessions, NEW out \in FileStates, s.active, NEW t \in Sessions,
           t.args = s.args /\ t.active = s.active /\ t.quiet = s.quiet /\ t.revived = s.revived,
           NEW r \in SaveChild(t, out)
    PROVE  Sound(s, out, r)
<1>1. /\ r.s \in Sessions /\ r.out \in FileStates /\ r.ok \in BOOLEAN
      /\ r.s.args = t.args /\ r.s.active = t.active /\ r.s.revived = t.revived
      /\ \/ /\ ~r.s.dirty /\ (t.quiet => r.s.quiet)
            /\ r.out = out \/ (r.s.quiet /\ Open(r.out) = Open(out) \cup Writes(t))
         \/ r.s.refused /\ r.s.quiet = t.quiet /\ r.out = out
  BY SaveChildFacts
<1>2. Writes(s) = Writes(t) /\ Writes(r.s) = Writes(t)
  BY <1>1 DEF Writes
<1>. QED
  BY <1>1, <1>2 DEF Sound, Witness, Marked

\* handleError() stops the session.
LEMMA ErrorSound ==
    ASSUME NEW s \in Sessions, NEW out \in FileStates, NEW t \in Sessions,
           t.args = s.args /\ t.active = s.active /\ t.quiet = s.quiet /\ t.revived = s.revived,
           NEW r \in HandleError(t, out)
    PROVE  Sound(s, out, r)
<1> DEFINE p == Stop(t, out)
<1>1. r.s = p.s /\ r.out = p.out /\ r.ok = FALSE
  BY DEF HandleError, Result
<1>2. Sound(t, out, p) /\ ~p.s.active /\ \A d \in Open(p.out) : ~Witness(t, d)
  BY StopSound
<1>3. \A d : Witness(t, d) <=> Witness(s, d)
  BY DEF Witness, Writes
<1> HIDE DEF p
<1>. QED
  BY <1>1, <1>2, <1>3 DEF Sound, Marked

\* restartSession(), of an active session or of one that has ended
LEMMA RestartSound ==
    ASSUME NEW s \in Sessions, NEW out \in FileStates, NEW r \in Restart(s, out)
    PROVE  Sound(s, out, r)
<1> DEFINE p == Stop(s, out)
           q == [p.s EXCEPT !.revived = @ \/ ~s.active]
<1>1. /\ p.s \in Sessions /\ ~p.s.active /\ p.out \in FileStates /\ Open(p.out) \subseteq Open(out)
      /\ p.s.args = s.args /\ p.s.revived = s.revived
      /\ \A d \in Open(p.out) : ~Witness(s, d)
  <2>1. p.s.revived = s.revived
    BY DEF Stop, Stopped, Result, Sessions
  <2>. QED
    BY <2>1, StopSound DEF Sound
<1>2. q \in Sessions /\ ~q.active /\ q.args = s.args /\ q.revived = (s.revived \/ ~s.active)
  <2> HIDE DEF p
  <2>. QED
    BY <1>1 DEF Sessions
<1>3. r \in Start(q, p.out)
  BY DEF Restart
<1> HIDE DEF p, q
<1>4. CASE r = Result([q EXCEPT !.active = TRUE, !.alive = TRUE, !.dirty = FALSE], p.out, TRUE)
  <2>1. /\ r.s \in Sessions /\ r.out = p.out /\ r.ok = TRUE
        /\ r.s.args = q.args /\ r.s.revived = q.revived /\ ~r.s.dirty
    BY <1>2, <1>4 DEF Result, Sessions
  <2>. QED
    BY <1>1, <1>2, <2>1 DEF Sound, Marked
<1>5. CASE r = Result(q, p.out, FALSE)
  <2>1. r.s = q /\ r.out = p.out /\ r.ok = FALSE
    BY <1>5 DEF Result
  <2>. QED
    BY <1>1, <1>2, <2>1 DEF Sound, Marked
<1>. QED
  BY <1>3, <1>4, <1>5 DEF Start

\* save(), with or without notification of the file server
LEMMA SaveSound ==
    ASSUME NEW s \in Sessions, NEW out \in FileStates, NEW notify \in BOOLEAN, NEW r \in Save(s, out, notify)
    PROVE  Sound(s, out, r)
<1> DEFINE a == Accessed(s)
<1>1. /\ a \in Sessions /\ a.args = s.args /\ a.active = s.active /\ a.dirty = s.dirty /\ a.quiet = s.quiet
      /\ a.refused = s.refused /\ a.revived = s.revived /\ a.modified = s.modified
  BY AccessedFacts
<1>2. Writes(a) = Writes(s)
  BY <1>1 DEF Writes
<1> HIDE DEF a
<1>3. CASE ~s.active \/ ~s.modified
  <2>1. r = Result(IF s.active THEN a ELSE s, out, TRUE)
    BY <1>3 DEF Save, a
  <2>2. r.s \in {a, s} /\ r.out = out /\ r.ok = TRUE
    BY <2>1 DEF Result
  <2>. QED
    BY <1>1, <1>2, <2>2 DEF Sound, Witness, Marked
<1>4. CASE s.active /\ s.modified /\ ~s.alive
  BY <1>1, <1>4, ErrorSound DEF Save, a
<1>5. CASE s.active /\ s.modified /\ s.alive
  <2>1. PICK c \in SaveChild(a, out) :
          LET t == Result([c.s EXCEPT !.modified = FALSE], c.out, c.ok) IN r = IF notify THEN Notified(t) ELSE t
    BY <1>5 DEF Save, a
  <2>2. Sound(s, out, c) /\ c.s.active
    BY <1>1, <1>5, <2>1, AccessedSaveSound, SaveChildFacts
  <2> DEFINE t == Result([c.s EXCEPT !.modified = FALSE], c.out, c.ok)
  <2>4. t.s = [c.s EXCEPT !.modified = FALSE] /\ t.out = c.out /\ t.ok = c.ok
    BY DEF Result
  <2>5. /\ t.s \in Sessions /\ t.s.args = c.s.args /\ t.s.active = c.s.active /\ t.s.quiet = c.s.quiet
        /\ t.s.dirty = c.s.dirty /\ t.s.refused = c.s.refused /\ t.s.revived = c.s.revived
    <3> HIDE DEF t
    <3>. QED
      BY <2>2, <2>4 DEF Sessions, Sound
  <2>6. ~c.s.dirty \/ c.s.refused
    BY <1>1, SaveChildFacts
  <2>7. Writes(t.s) = Writes(s)
    BY <2>2, <2>5 DEF Writes, Sound
  <2>8. CASE ~notify
    <3>1. r = t
      BY <2>1, <2>8
    <3> HIDE DEF t
    <3>2. \A d : Witness(t.s, d) <=> Witness(c.s, d)
      BY <2>2, <2>5, <2>7 DEF Witness, Writes, Sound
    <3>. QED
      BY <2>2, <2>4, <2>5, <2>6, <3>1, <3>2 DEF Sound, Marked
  <2>9. CASE notify
    <3>1. r = Notified(t)
      BY <2>1, <2>9
    <3>2. t.out \in FileStates
      BY <2>2, <2>4 DEF Sound
    <3> DEFINE q == t.s.quiet /\ Writes(t.s) \cap t.out.deaf # {}
    <3> HIDE DEF t
    <3>3. r.s = [t.s EXCEPT !.quiet = q] /\ r.out = NotifyFileServer(t.out, Writes(t.s)) /\ r.ok = t.ok
      BY <2>5, <3>1 DEF Notified, Result, Sessions
    <3>4. q \in BOOLEAN
      BY <2>5 DEF Sessions
    <3>5. /\ r.s \in Sessions /\ r.s.args = t.s.args /\ r.s.active = t.s.active /\ r.s.quiet = q
          /\ r.s.dirty = t.s.dirty /\ r.s.refused = t.s.refused /\ r.s.revived = t.s.revived
      <4> HIDE DEF q
      <4>. QED
        BY <2>5, <3>3, <3>4 DEF Sessions
    <3>6. Writes(r.s) = Writes(s) /\ Writes(c.s) = Writes(s) /\ Writes(s) \in SUBSET Dirs
      BY <2>5, <2>7, <3>5 DEF Writes
    <3>7. r.out \in FileStates /\ Open(r.out) = Open(c.out) \ (Writes(s) \ t.out.deaf)
      BY <2>4, <2>7, <3>2, <3>3, <3>6, FilesFacts
    <3>8. \A d \in Open(r.out) : Witness(c.s, d) => Witness(r.s, d)
      <4>1. ASSUME NEW d \in Open(r.out), Witness(c.s, d) PROVE Witness(r.s, d)
        <5>1. d \in Writes(t.s) \cap t.out.deaf
          BY <2>7, <3>6, <3>7, <4>1 DEF Witness
        <5>. QED
          BY <2>5, <3>5, <3>6, <4>1, <5>1 DEF Witness
      <4>. QED
        BY <4>1
    <3>9. Marked(r.s)
      BY <2>5, <2>6, <3>5 DEF Marked
    <3>10. /\ r.s.args = s.args /\ r.ok \in BOOLEAN
           /\ s.revived => r.s.revived
           /\ r.s.active => s.active
      BY <1>5, <2>2, <2>4, <2>5, <3>3, <3>5 DEF Sound
    <3>11. \A d \in Open(r.out) : /\ d \in Open(out) \/ Witness(c.s, d)
                                  /\ Witness(s, d) => Witness(c.s, d)
      BY <2>2, <3>7 DEF Sound
    <3>12. /\ \A d \in Open(r.out) : d \in Open(out) \/ Witness(r.s, d)
           /\ \A d \in Open(r.out) : Witness(s, d) => Witness(r.s, d)
      BY <3>8, <3>11
    <3>13. r.s.args = s.args /\ (s.revived => r.s.revived)
      BY <3>10
    <3> HIDE DEF q
    <3>. QED
      <4>1. r.s \in Sessions /\ r.out \in FileStates /\ r.ok \in BOOLEAN
        BY <3>5, <3>7, <3>10
      <4>2. r.s.active => s.active \/ r.s.revived
        BY <3>10
      <4>3. Marked(s) => Marked(r.s)
        BY <3>9
      <4>. QED
        BY <3>12, <3>13, <4>1, <4>2, <4>3, Zenon DEF Sound
  <2>. QED
    BY <2>8, <2>9
<1>. QED
  BY <1>3, <1>4, <1>5 DEF Sessions

\* talk(), of SAVE and of another command
LEMMA TalkSound ==
    ASSUME NEW s \in Sessions, NEW out \in FileStates, NEW r \in TalkSave(s, out) \cup TalkOther(s, out)
    PROVE  Sound(s, out, r)
<1> DEFINE t(m) == [Accessed(s) EXCEPT !.modified = m]
<1>1. \A m \in BOOLEAN :
         /\ t(m) \in Sessions /\ t(m).modified = m
         /\ t(m).args = s.args /\ t(m).active = s.active /\ t(m).quiet = s.quiet /\ t(m).revived = s.revived
  BY AccessedFacts
<1>2. CASE ~s.active
  <2>1. r = Result(s, out, TRUE)
    BY <1>2 DEF TalkSave, TalkOther
  <2>. QED
    BY <2>1 DEF Result, Sound
<1>3. CASE s.active /\ ~s.alive
  <2>1. \E m \in BOOLEAN : r \in HandleError(t(m), out)
    BY <1>3 DEF TalkSave, TalkOther
  <2> HIDE DEF t
  <2>. QED
    BY <1>1, <1>3, <2>1, ErrorSound
<1>4. CASE s.active /\ s.alive /\ r \in TalkSave(s, out)
  <2>1. r \in SaveChild(t(FALSE), out)
    BY <1>4 DEF TalkSave
  <2> HIDE DEF t
  <2>. QED
    BY <1>1, <1>4, <2>1, AccessedSaveSound
<1>5. CASE s.active /\ s.alive /\ r \in TalkOther(s, out)
  <2>1. PICK d \in {s.dirty, TRUE} : r = Result([t(TRUE) EXCEPT !.dirty = d], out, TRUE)
    BY <1>5 DEF TalkOther
  <2>2. d \in BOOLEAN
    BY DEF Sessions
  <2> HIDE DEF t
  <2>3. /\ r.s \in Sessions /\ r.out = out /\ r.ok = TRUE /\ r.s.modified
        /\ r.s.args = s.args /\ r.s.active = s.active /\ r.s.quiet = s.quiet /\ r.s.revived = s.revived
    BY <1>1, <2>1, <2>2 DEF Result, Sessions
  <2>4. Writes(r.s) = Writes(s)
    BY <2>3 DEF Writes
  <2>. QED
    BY <2>3, <2>4 DEF Sound, Witness, Marked
<1>. QED
  BY <1>2, <1>3, <1>4, <1>5 DEF Sessions

\* CLOSE, RESTART, SAVE and SAVENN
LEMMA ActionSound ==
    ASSUME NEW s \in Sessions, NEW out \in FileStates, NEW action \in Actions,
           NEW r \in DoAction(action, s, out)
    PROVE  Sound(s, out, r)
<1>1. CASE action = "Close"
  BY <1>1, StopSound DEF DoAction
<1>2. CASE action = "Restart"
  BY <1>2, RestartSound DEF DoAction
<1>3. CASE action = "Save"
  BY <1>3, SaveSound DEF DoAction
<1>4. CASE action = "SaveNN"
  BY <1>4, SaveSound DEF DoAction
<1>. QED
  BY <1>1, <1>2, <1>3, <1>4 DEF Actions

-----------------------------------------------------------------------------
(* The list of sessions. *)

\* The session of an Id that is not in use.
LEMMA NoSessionTyped == NoSession \in Sessions /\ ~NoSession.active /\ ~NoSession.alive
BY BoundsAssumption DEF NoSession, NewSession, Sessions

\* Something sound happens to a listed session.
LEMMA WithGood ==
    ASSUME NEW R, Good(R), NEW i \in ToSet(R.list), NEW r, Sound(R.S[i], R.out, r)
    PROVE  Good(With(R, i, r)) /\ With(R, i, r).list = R.list
<1> DEFINE T == With(R, i, r)
<1>1. R.S \in [Ids -> Sessions] /\ R.list \in Seq(Ids)
  BY DEF Good, Listed
<1>2. i \in Ids
  BY <1>1 DEF ToSet
<1>3. T.list = R.list /\ T.S = [R.S EXCEPT ![i] = r.s] /\ T.out = r.out
  BY DEF With, State
<1> HIDE DEF T
<1>4. /\ T.S[i] = r.s
      /\ \A j \in Ids \ {i} : T.S[j] = R.S[j]
  BY <1>1, <1>2, <1>3
<1>5. Listed(T)
  BY <1>1, <1>2, <1>3, <1>4 DEF Good, Listed, Sound
<1>6. Apart(T)
  <2> SUFFICES ASSUME NEW j \in Ids, NEW k \in Ids, j # k, T.S[j].active, T.S[k].active,
                      Conflict(T.S[j], T.S[k])
               PROVE  T.S[j].revived \/ T.S[k].revived
    BY DEF Apart
  <2>1. \A l \in Ids : /\ T.S[l].args = R.S[l].args
                       /\ R.S[l].revived => T.S[l].revived
                       /\ T.S[l].active => R.S[l].active \/ T.S[l].revived
    BY <1>4 DEF Sound
  <2>2. Conflict(R.S[j], R.S[k])
    BY <2>1 DEF Conflict
  <2>. QED
    BY <2>1, <2>2 DEF Good, Apart
<1>7. Current(T)
  <2> SUFFICES ASSUME NEW d \in Open(T.out) PROVE \E j \in Ids : Witness(T.S[j], d)
    BY DEF Current
  <2>1. CASE Witness(r.s, d)
    BY <1>2, <1>4, <2>1
  <2>2. CASE ~Witness(r.s, d)
    <3>1. d \in Open(R.out) /\ ~Witness(R.S[i], d)
      BY <1>3, <2>2 DEF Sound
    <3>2. PICK j \in Ids : Witness(R.S[j], d)
      BY <3>1 DEF Good, Current
    <3>. QED
      BY <1>4, <3>1, <3>2
  <2>. QED
    BY <2>1, <2>2
<1>8. \A j \in Ids : Marked(T.S[j])
  BY <1>4 DEF Good, Sound
<1>. QED
  BY <1>3, <1>5, <1>6, <1>7, <1>8 DEF Good, T

\* Some sessions are stopped.
LEMMA StopAllGood ==
    ASSUME NEW R, Good(R), NEW E \in SUBSET Ids
    PROVE  LET T == StopAll(R, E) IN
           /\ T.list = R.list
           /\ Good(T)
           /\ \A i \in Ids \ E : T.S[i] = R.S[i]
           /\ \A i \in E : ~T.S[i].active
<1> DEFINE T == StopAll(R, E)
           P(i) == Stop(R.S[i], R.out)
           active == { i \in E : R.S[i].active }
           saved == UNION { Unsaved(R.S[i]) : i \in active }
           dirs == UNION { Writes(R.S[i]) : i \in active }
           o == NotifyLast(Written(R.out, saved), dirs)
<1>1. R.S \in [Ids -> Sessions] /\ R.out \in FileStates
  BY DEF Good, Listed
<1>2. T = [list |-> R.list, S |-> [i \in Ids |-> IF i \in E THEN P(i).s ELSE R.S[i]],
           out |-> o]
  BY DEF StopAll, State
<1>3. \A i \in Ids : Sound(R.S[i], R.out, P(i)) /\ ~P(i).s.active
  BY <1>1, StopSound
<1>10. /\ o \in FileStates /\ Open(o) \subseteq Open(R.out)
       /\ \A d \in Open(o), i \in E : ~Witness(R.S[i], d)
  <2>1. saved \subseteq dirs /\ saved \in SUBSET Dirs /\ dirs \in SUBSET Dirs
    BY DEF Unsaved, Writes
  <2>2. \A i \in E : \A d : Witness(R.S[i], d) => d \in dirs
    BY DEF Witness
  <2> HIDE DEF saved, dirs
  <2>3. Written(R.out, saved) \in FileStates /\ Open(Written(R.out, saved)) = Open(R.out) \cup saved
    BY <1>1, <2>1, FilesFacts
  <2>4. o \in FileStates /\ Open(o) = Open(Written(R.out, saved)) \ dirs
    BY <2>1, <2>3, FilesFacts
  <2> HIDE DEF o
  <2>. QED
    BY <2>1, <2>2, <2>3, <2>4
<1> HIDE DEF T, P, o
<1>4. /\ T.list = R.list /\ T.out = o
      /\ \A i \in Ids \ E : T.S[i] = R.S[i]
      /\ \A i \in E : T.S[i] = P(i).s
  BY <1>2
<1>5. \A i \in E : ~T.S[i].active
  BY <1>3, <1>4
<1>6. Listed(T)
  <2>1. T.S \in [Ids -> Sessions]
    BY <1>1, <1>2, <1>3 DEF Sound
  <2>2. \A i \in Ids \ ToSet(R.list) : T.S[i] = NoSession
    <3> SUFFICES ASSUME NEW i \in Ids \ ToSet(R.list) PROVE T.S[i] = NoSession
      OBVIOUS
    <3>1. R.S[i] = NoSession /\ ~R.S[i].active
      BY NoSessionTyped DEF Good, Listed
    <3>2. P(i).s = R.S[i]
      BY <3>1 DEF P, Stop, Result
    <3>. QED
      BY <1>4, <3>1, <3>2
  <2>. QED
    BY <1>1, <1>4, <1>10, <2>1, <2>2 DEF Good, Listed
<1>7. Apart(T)
  BY <1>4, <1>5 DEF Good, Apart
<1>8. Current(T)
  <2> SUFFICES ASSUME NEW d \in Open(T.out) PROVE \E i \in Ids : Witness(T.S[i], d)
    BY DEF Current
  <2>1. PICK i \in Ids : Witness(R.S[i], d)
    BY <1>4, <1>10 DEF Good, Current
  <2>2. i \notin E
    BY <1>4, <1>10, <2>1
  <2>. QED
    BY <1>4, <2>1, <2>2
<1>9. \A i \in Ids : Marked(T.S[i])
  BY <1>4, <1>5 DEF Good, Marked
<1>. QED
  BY <1>4, <1>5, <1>6, <1>7, <1>8, <1>9 DEF Good, T

\* Sessions that are not active are deleted.
LEMMA ResizedGood ==
    ASSUME NEW R, Good(R),
           NEW list \in Seq(Ids), IsInjective(list), Len(list) <= MaxSessions,
           ToSet(list) \subseteq ToSet(R.list),
           \A i \in ToSet(R.list) \ ToSet(list) : ~R.S[i].active
    PROVE  LET T == Resized(R, list) IN
           /\ T.list = list
           /\ Good(T)
           /\ \A i \in ToSet(list) : T.S[i] = R.S[i]
           /\ \A i \in Ids \ ToSet(list) : T.S[i] = NoSession
<1> DEFINE T == Resized(R, list)
<1>1. R.S \in [Ids -> Sessions] /\ R.out \in FileStates
  BY DEF Good, Listed
<1>2. T = [list |-> list, out |-> R.out,
           S |-> [i \in Ids |-> IF i \in ToSet(list) THEN R.S[i] ELSE NoSession]]
  BY DEF Resized, State
<1>3. ToSet(list) \subseteq Ids
  BY DEF ToSet
<1> HIDE DEF T
<1>4. /\ T.list = list /\ T.out = R.out
      /\ \A i \in ToSet(list) : T.S[i] = R.S[i]
      /\ \A i \in Ids \ ToSet(list) : T.S[i] = NoSession
  BY <1>2, <1>3
<1>5. \A i \in Ids : T.S[i] = R.S[i] \/ (~T.S[i].active /\ ~R.S[i].active)
  <2>1. \A i \in Ids \ ToSet(R.list) : R.S[i] = NoSession
    BY DEF Good, Listed
  <2>. QED
    BY <1>4, <2>1, NoSessionTyped
<1>6. Listed(T)
  <2>1. T.S \in [Ids -> Sessions]
    BY <1>1, <1>2, NoSessionTyped
  <2>. QED
    BY <1>1, <1>4, <2>1 DEF Listed
<1>7. Apart(T)
  BY <1>5 DEF Good, Apart
<1>8. Current(T)
  BY <1>4, <1>5 DEF Good, Current, Witness
<1>9. \A i \in Ids : Marked(T.S[i])
  BY <1>5 DEF Good, Marked
<1>. QED
  BY <1>4, <1>6, <1>7, <1>8, <1>9 DEF Good, T

\* removeExpiredSessions()
LEMMA RemoveGood ==
    ASSUME NEW R, Good(R)
    PROVE  LET T == RemoveExpiredSessions(R) IN
           /\ Good(T)
           /\ \A i \in Ids : T.S[i].active => R.S[i].active /\ T.S[i] = R.S[i]
<1> DEFINE E == { i \in ToSet(R.list) : Expired(R.S[i]) }
           P == StopAll(R, E)
           list == Kept(R.list, { i \in Ids : P.S[i].active })
           T == Resized(P, list)
<1>1. R.list \in Seq(Ids) /\ IsInjective(R.list) /\ Len(R.list) <= MaxSessions /\ ToSet(R.list) \subseteq Ids
  BY DEF Good, Listed, ToSet
<1>2. /\ P.list = R.list
      /\ Good(P)
      /\ \A i \in Ids \ E : P.S[i] = R.S[i]
      /\ \A i \in E : ~P.S[i].active
  <2>1. E \in SUBSET Ids
    BY <1>1
  <2> HIDE DEF E
  <2>. QED
    BY <2>1, StopAllGood
<1> HIDE DEF E, P
<1>4. /\ list \in Seq(Ids) /\ IsInjective(list) /\ Len(list) <= MaxSessions
      /\ ToSet(list) = ToSet(R.list) \cap { i \in Ids : P.S[i].active }
  <2>1. /\ list \in Seq(Ids) /\ IsInjective(list) /\ Len(list) <= Len(R.list)
        /\ ToSet(list) = ToSet(R.list) \cap { i \in Ids : P.S[i].active }
    BY <1>1, KeptList
  <2>2. Len(list) \in Nat /\ Len(R.list) \in Nat /\ MaxSessions \in Nat
    BY <1>1, <2>1, BoundsAssumption
  <2> HIDE DEF list
  <2>. QED
    BY <1>1, <2>1, <2>2
<1> HIDE DEF list
<1>5. /\ Good(T)
      /\ \A i \in ToSet(list) : T.S[i] = P.S[i]
      /\ \A i \in Ids \ ToSet(list) : T.S[i] = NoSession
  <2>1. ToSet(list) \subseteq ToSet(P.list) /\ \A i \in ToSet(P.list) \ ToSet(list) : ~P.S[i].active
    BY <1>1, <1>2, <1>4
  <2>. QED
    BY <1>2, <1>4, <2>1, ResizedGood
<1>7. RemoveExpiredSessions(R) = T
  BY DEF RemoveExpiredSessions, E, P, list
<1> HIDE DEF T
<1>8. \A i \in Ids : T.S[i].active => R.S[i].active /\ T.S[i] = R.S[i]
  BY <1>2, <1>5, NoSessionTyped
<1>. QED
  BY <1>5, <1>7, <1>8

-----------------------------------------------------------------------------
(* Commands. *)

\* Root becomes what a command made of it.
LEMMA BecomeGood ==
    ASSUME NEW R, Good(R), Become(R)
    PROVE  Good(Root({}))'
<1> DEFINE T == Root({})'
<1>1. T.list = R.list /\ T.S = R.S /\ T.out = [old |-> R.out.old, missed |-> R.out.missed, deaf |-> {}]
  BY DEF Root, State, Files, FileState, Become
<1> HIDE DEF T
<1>2. T.out \in FileStates /\ Open(T.out) = Open(R.out)
  BY <1>1 DEF Good, Listed, FileStates, Open
<1>3. Good(T)
  BY <1>1, <1>2 DEF Good, Listed, Apart, Current
<1>. QED
  BY <1>3 DEF T, Good, Listed, Apart, Current, Open

\* The parts of Root, and of a listed session.
LEMMA RootFacts ==
    ASSUME IInv, NEW deaf \in SUBSET Dirs
    PROVE  /\ Root(deaf).list = m_sessions /\ Root(deaf).S = session /\ Root(deaf).out = Files(deaf)
           /\ Good(Root(deaf))
           /\ Files(deaf) \in FileStates /\ Open(Files(deaf)) = outdated \ missed
           /\ session \in [Ids -> Sessions] /\ missed \subseteq outdated /\ outdated \in SUBSET Dirs
           /\ m_sessions \in Seq(Ids) /\ ToSet(m_sessions) \subseteq Ids
<1>1. \A D : Root(D).list = m_sessions /\ Root(D).S = session /\ Root(D).out = Files(D)
  BY DEF Root, State
<1>2. \A D : Files(D) = [old |-> outdated, missed |-> missed, deaf |-> D]
  BY DEF Files, FileState
<1>3. session \in [Ids -> Sessions] /\ m_sessions \in Seq(Ids) /\ Files({}) \in FileStates
  BY <1>1 DEF IInv, Good, Listed
<1>4. missed \subseteq outdated /\ outdated \in SUBSET Dirs
  BY <1>2, <1>3 DEF FileStates
<1>5. Files(deaf) \in FileStates /\ \A D : Open(Files(D)) = outdated \ missed
  BY <1>2, <1>4 DEF FileStates, Open
<1>6. Good(Root(deaf))
  BY <1>1, <1>5 DEF IInv, Good, Listed, Apart, Current
<1>. QED
  BY <1>1, <1>3, <1>4, <1>5, <1>6 DEF ToSet

\* The file server does not hear of some directories, or of none.
LEMMA DeafTyped == Deaf \subseteq SUBSET Dirs /\ {} \in SUBSET Dirs
BY DEF Deaf

\* No command on a group is in progress.
LEMMA NoGroupOK ==
    ASSUME group' = NoGroup
    PROVE  GroupOK'
<1>1. group' = [action |-> "", todo |-> <<>>]
  BY DEF NoGroup
<1>2. \A a \in Actions \cup {""}, l \in Seq(Ids) :
        [action |-> a, todo |-> l] \in [action : Actions \cup {""}, todo : Seq(Ids)]
  OBVIOUS
<1>3. group' \in [action : Actions \cup {""}, todo : Seq(Ids)] /\ group'.todo = <<>>
  <2>1. <<>> \in Seq(Ids) /\ "" \in Actions \cup {""}
    OBVIOUS
  <2>2. group' \in [action : Actions \cup {""}, todo : Seq(Ids)]
    BY <1>1, <1>2, <2>1, Zenon
  <2>3. \A a, l : [action |-> a, todo |-> l].todo = l
    OBVIOUS
  <2>4. group'.todo = <<>>
    BY <1>1, <2>3, Zenon
  <2>. QED
    BY <2>2, <2>4
<1>4. ToSet(<<>>) = {}
  BY DEF ToSet
<1>. QED
  BY <1>3, <1>4 DEF GroupOK

\* Other commands find no group in progress, and leave none behind.
LEMMA IdleGroup ==
    ASSUME Idle, UNCHANGED group
    PROVE  GroupOK'
BY NoGroupOK DEF Idle

\* A command on one session, and the removal of those that have ended
LEMMA FinishGood ==
    ASSUME IInv, Idle, NEW deaf \in SUBSET Dirs, NEW i \in ToSet(m_sessions), NEW r,
           Sound(session[i], Files(deaf), r), Finish(i, r, deaf)
    PROVE  IInv'
<1> DEFINE R == With(Root(deaf), i, r)
<1>1. Good(R)
  BY RootFacts, WithGood DEF IInv
<1>2. Good(RemoveExpiredSessions(R))
  BY <1>1, RemoveGood
<1>3. Become(R) \/ Become(RemoveExpiredSessions(R))
  BY DEF Finish
<1>4. Good(Root({}))'
  <2> HIDE DEF R
  <2>. QED
    BY <1>1, <1>2, <1>3, BecomeGood
<1>. QED
  BY <1>4, IdleGroup DEF Finish, IInv

\* A command on one session does something sound to it.
LEMMA CommandGood ==
    ASSUME IInv, NEW deaf \in SUBSET Dirs, NEW i \in ToSet(m_sessions),
           Talk(i, deaf) \/ \E action \in Actions : SessionAction(i, action, deaf)
    PROVE  IInv'
<1>1. session[i] \in Sessions /\ Files(deaf) \in FileStates
  BY RootFacts
<1>2. Idle
  BY DEF Talk, SessionAction
<1>3. \E r : Sound(session[i], Files(deaf), r) /\ Finish(i, r, deaf)
  BY <1>1, TalkSound, ActionSound DEF Talk, SessionAction
<1>. QED
  BY <1>2, <1>3, FinishGood

\* What is left when the sessions that conflict with a new one are gone.
LEMMA DisplacedGood ==
    ASSUME IInv, NEW a \in Requests, NEW deaf \in SUBSET Dirs
    PROVE  /\ Good(Displaced(a, deaf))
           /\ \A i \in Ids : Displaced(a, deaf).S[i].active
                             => ~Conflict(NewSession(a), Displaced(a, deaf).S[i])
<1> DEFINE E == Rivals(a)
           P == StopAll(Root(deaf), E)
           R == RemoveExpiredSessions(P)
<1>1. E \in SUBSET Ids /\ Good(Root(deaf))
  BY RootFacts DEF Rivals
<1>2. \A i \in Ids : session[i].active => i \in ToSet(m_sessions)
  BY RootFacts, NoSessionTyped DEF Good, Listed
<1>3. \A i \in Ids \ E : session[i].active => ~Conflict(NewSession(a), session[i])
  BY <1>2 DEF Rivals
<1>4. CASE E = {} /\ Displaced(a, deaf) = Root(deaf)
  BY <1>1, <1>3, <1>4, RootFacts
<1>5. CASE Displaced(a, deaf) = R
  <2>1. /\ Good(P)
        /\ \A i \in Ids \ E : P.S[i] = session[i]
        /\ \A i \in E : ~P.S[i].active
    BY <1>1, StopAllGood, RootFacts
  <2> HIDE DEF P
  <2>2. Good(R) /\ \A i \in Ids : R.S[i].active => P.S[i].active /\ R.S[i] = P.S[i]
    BY <2>1, RemoveGood
  <2> HIDE DEF R
  <2>. QED
    BY <1>3, <1>5, <2>1, <2>2
<1>. QED
  BY <1>4, <1>5 DEF Displaced

\* NEW, when it succeeds
LEMMA CreateGood ==
    ASSUME IInv, NEW a \in Requests, NEW deaf \in SUBSET Dirs, Create(a, deaf)
    PROVE  IInv'
<1> DEFINE R == Displaced(a, deaf)
           s == [NewSession(a) EXCEPT !.active = TRUE, !.alive = TRUE]
           r == Result(s, R.out, TRUE)
<1>1. PICK i \in Ids \ ToSet(R.list) : Become(With(State(Append(R.list, i), R.S, R.out), i, r))
  BY DEF Create
<1>2. Len(R.list) < MaxSessions /\ Idle /\ UNCHANGED <<newSessionsWin, group>>
  BY DEF Create
<1>3. Good(R) /\ \A j \in Ids : R.S[j].active => ~Conflict(NewSession(a), R.S[j])
  BY DisplacedGood
<1>4. /\ s \in Sessions /\ s.args = a /\ s.active /\ ~s.dirty
  <2> DEFINE n == NewSession(a)
  <2>1. 0 \in 0..NormalTimeout
    BY BoundsAssumption
  <2>2. n \in Sessions /\ n.args = a /\ ~n.dirty
    BY <2>1 DEF NewSession, Sessions
  <2> HIDE DEF n
  <2>3. LET m == [n EXCEPT !.active = TRUE, !.alive = TRUE]
        IN  m \in Sessions /\ m.args = a /\ m.active /\ ~m.dirty
    BY <2>2 DEF Sessions
  <2>. QED
    BY <2>3 DEF n
<1>5. NewSession(a).args = a
  BY DEF NewSession
<1>6. r.s = s /\ r.out = R.out
  BY DEF Result
<1> HIDE DEF R, s, r
<1> DEFINE T == With(State(Append(R.list, i), R.S, R.out), i, r)
<1>7. T.list = Append(R.list, i) /\ T.S = [R.S EXCEPT ![i] = s] /\ T.out = R.out
  BY <1>6 DEF With, State
<1> HIDE DEF T
<1>8. /\ R.list \in Seq(Ids) /\ IsInjective(R.list)
      /\ R.S \in [Ids -> Sessions] /\ R.out \in FileStates
      /\ \A j \in Ids \ ToSet(R.list) : R.S[j] = NoSession
  BY <1>3 DEF Good, Listed
<1>9. /\ T.S[i] = s
      /\ \A j \in Ids \ {i} : T.S[j] = R.S[j]
  BY <1>7, <1>8
<1>10. Listed(T)
  <2> DEFINE l == R.list
             t == Append(l, i)
  <2>1. t \in Seq(Ids) /\ Len(t) = Len(l) + 1 /\ Len(l) \in Nat
    BY <1>8
  <2>2. /\ DOMAIN l = 1..Len(l) /\ DOMAIN t = 1..(Len(l) + 1)
        /\ \A j \in 1..Len(l) : t[j] = l[j]
        /\ t[Len(l) + 1] = i
    BY <1>8, <2>1
  <2> HIDE DEF t
  <2>3. \A j \in 1..Len(l) : l[j] # i
    BY <1>1, <2>2 DEF ToSet
  <2>4. IsInjective(t)
    <3>1. \A j, k \in 1..Len(l) : l[j] = l[k] => j = k
      BY <1>8, <2>2 DEF IsInjective
    <3>2. ASSUME NEW j \in 1..(Len(l) + 1), NEW k \in 1..(Len(l) + 1), t[j] = t[k] PROVE j = k
      <4>1. (j \in 1..Len(l) \/ j = Len(l) + 1) /\ (k \in 1..Len(l) \/ k = Len(l) + 1)
        BY <2>1
      <4>. QED
        BY <2>2, <2>3, <3>1, <3>2, <4>1
    <3>. QED
      BY <2>2, <3>2 DEF IsInjective
  <2>5. ToSet(l) \subseteq ToSet(t) /\ i \in ToSet(t)
    BY <2>1, <2>2 DEF ToSet
  <2>6. Len(t) <= MaxSessions
    BY <1>2, <2>1, BoundsAssumption
  <2>7. T.S \in [Ids -> Sessions]
    BY <1>4, <1>7, <1>8
  <2>8. \A j \in Ids \ ToSet(t) : T.S[j] = NoSession
    BY <1>8, <1>9, <2>5
  <2>9. T.list = t
    BY <1>7 DEF t
  <2>. QED
    BY <1>7, <1>8, <2>1, <2>4, <2>6, <2>7, <2>8, <2>9 DEF Listed
<1>11. Apart(T)
  <2>1. \A j \in Ids : R.S[j].active => ~Conflict(s, R.S[j]) /\ ~Conflict(R.S[j], s)
    <3>1. ASSUME NEW j \in Ids, R.S[j].active PROVE ~Conflict(s, R.S[j])
      BY <1>3, <1>4, <1>5, <3>1 DEF Conflict
    <3>2. ASSUME NEW u, NEW v, Conflict(u, v) PROVE Conflict(v, u)
      <4>1. \A d \in Dirs : {u.args[d], v.args[d]} = {v.args[d], u.args[d]}
        OBVIOUS
      <4>. QED
        BY <3>2, <4>1 DEF Conflict
    <3>. QED
      BY <3>1, <3>2
  <2> SUFFICES ASSUME NEW j \in Ids, NEW k \in Ids, j # k, T.S[j].active, T.S[k].active,
                      Conflict(T.S[j], T.S[k])
               PROVE  T.S[j].revived \/ T.S[k].revived
    BY DEF Apart
  <2>2. j # i /\ k # i
    BY <1>9, <2>1
  <2>. QED
    BY <1>3, <1>9, <2>2 DEF Good, Apart
<1>12. Current(T)
  <2> SUFFICES ASSUME NEW d \in Open(T.out) PROVE \E j \in Ids : Witness(T.S[j], d)
    BY DEF Current
  <2>1. PICK j \in Ids : Witness(R.S[j], d)
    BY <1>3, <1>7 DEF Good, Current
  <2>2. j # i
    BY <1>1, <1>8, <2>1, NoSessionTyped DEF Witness
  <2>. QED
    BY <1>9, <2>1, <2>2
<1>13. \A j \in Ids : Marked(T.S[j])
  BY <1>3, <1>4, <1>9 DEF Good, Marked
<1>14. Good(T)
  BY <1>10, <1>11, <1>12, <1>13 DEF Good
<1>15. Become(T)
  BY <1>1 DEF T
<1>16. Good(Root({}))'
  BY <1>14, <1>15, BecomeGood
<1>. QED
  BY <1>2, <1>16, IdleGroup DEF IInv

\* NEW, when it fails, LIST and INFO, and the shutdown
LEMMA CleanupGood ==
    ASSUME IInv, NEW deaf \in SUBSET Dirs,
           (\E a \in Requests : CreateFails(a, deaf)) \/ List(deaf) \/ StopAllSessions(deaf)
    PROVE  IInv'
<1>1. Idle /\ UNCHANGED <<newSessionsWin, group>>
  BY DEF CreateFails, List, StopAllSessions
<1>2. Good(Root(deaf))
  BY RootFacts
<1>3. CASE \E a \in Requests : CreateFails(a, deaf)
  <2>1. PICK a \in Requests : Become(Displaced(a, deaf))
    BY <1>3 DEF CreateFails
  <2>2. Good(Root({}))'
    BY <2>1, DisplacedGood, BecomeGood
  <2>. QED
    BY <1>1, <2>2, IdleGroup DEF IInv
<1>4. CASE List(deaf)
  <2>1. Good(Root({}))'
    BY <1>2, <1>4, RemoveGood, BecomeGood DEF List
  <2>. QED
    BY <1>1, <2>1, IdleGroup DEF IInv
<1>5. CASE StopAllSessions(deaf)
  <2> DEFINE P == StopAll(Root(deaf), ToSet(m_sessions))
  <2>1. /\ Good(P) /\ P.list = m_sessions
        /\ \A i \in ToSet(m_sessions) : ~P.S[i].active
    BY <1>2, RootFacts, StopAllGood
  <2> HIDE DEF P
  <2>2. <<>> \in Seq(Ids) /\ IsInjective(<<>>) /\ Len(<<>>) <= MaxSessions /\ ToSet(<<>>) = {}
    BY BoundsAssumption DEF IsInjective, ToSet
  <2>3. Good(Resized(P, <<>>))
    BY <2>1, <2>2, ResizedGood
  <2>4. Good(Root({}))'
    BY <1>5, <2>3, BecomeGood DEF StopAllSessions, P
  <2>. QED
    BY <1>1, <2>4, IdleGroup DEF IInv
<1>. QED
  BY <1>3, <1>4, <1>5

\* Commands on a group of sessions, one after the other
LEMMA GroupGood ==
    ASSUME IInv, NEW deaf \in SUBSET Dirs,
           \/ GroupStep(deaf) \/ GroupEnd(deaf)
           \/ \E action \in Actions, mode \in {"R", "W"}, dirs \in SUBSET Dirs :
                GroupStart(action, mode, dirs)
    PROVE  IInv'
<1>1. CASE GroupStep(deaf)
  <2> DEFINE i == Head(group.todo)
  <2>1. PICK r \in DoAction(group.action, session[i], Files(deaf)) :
           /\ Become(With(Root(deaf), i, r))
           /\ group' = IF r.ok THEN [group EXCEPT !.todo = Tail(@)] ELSE NoGroup
    BY <1>1 DEF GroupStep
  <2>2. /\ group.todo # <<>> /\ group.todo \in Seq(Ids) /\ group.action \in Actions
        /\ group \in [action : Actions \cup {""}, todo : Seq(Ids)]
        /\ ToSet(group.todo) \subseteq ToSet(m_sessions)
    BY <1>1 DEF GroupStep, IInv, GroupOK
  <2>3. i \in ToSet(group.todo) /\ ToSet(Tail(group.todo)) \subseteq ToSet(group.todo)
    BY <2>2, HeadTail
  <2> HIDE DEF i
  <2>4. session[i] \in Sessions /\ Files(deaf) \in FileStates /\ i \in ToSet(m_sessions)
    BY <2>2, <2>3, RootFacts
  <2>5. Sound(session[i], Files(deaf), r)
    BY <2>1, <2>2, <2>4, ActionSound
  <2>6. Good(With(Root(deaf), i, r)) /\ With(Root(deaf), i, r).list = m_sessions
    BY <2>4, <2>5, RootFacts, WithGood
  <2>7. Good(Root({}))' /\ m_sessions' = m_sessions
    BY <2>1, <2>6, BecomeGood DEF Become
  <2>8. GroupOK'
    <3>1. CASE group' = NoGroup
      BY <3>1, NoGroupOK
    <3>2. CASE group' = [group EXCEPT !.todo = Tail(@)]
      <4>1. /\ group'.todo = Tail(group.todo) /\ group'.action = group.action
            /\ group' \in [action : Actions \cup {""}, todo : Seq(Ids)]
        <5>1. Tail(group.todo) \in Seq(Ids)
          BY <2>2, HeadTail
        <5>. QED
          BY <2>2, <3>2, <5>1
      <4>. QED
        BY <2>2, <2>3, <2>7, <4>1 DEF GroupOK
    <3>. QED
      BY <2>1, <3>1, <3>2
  <2>. QED
    BY <1>1, <2>7, <2>8 DEF IInv, GroupStep
<1>2. CASE GroupEnd(deaf)
  <2>1. Good(Root({}))'
    BY <1>2, RootFacts, RemoveGood, BecomeGood DEF GroupEnd
  <2>2. GroupOK'
    BY <1>2, NoGroupOK DEF GroupEnd
  <2>. QED
    BY <1>2, <2>1, <2>2 DEF IInv, GroupEnd
<1>3. CASE \E action \in Actions, mode \in {"R", "W"}, dirs \in SUBSET Dirs : GroupStart(action, mode, dirs)
  <2>1. PICK action \in Actions, mode \in {"R", "W"}, dirs \in SUBSET Dirs : GroupStart(action, mode, dirs)
    BY <1>3
  <2> DEFINE K == { i \in Ids : Matches(session[i], mode, dirs) }
             t == Kept(m_sessions, K)
  <2>2. group' = [action |-> action, todo |-> t] /\ UNCHANGED <<newSessionsWin, m_sessions, session, outdated, missed>>
    BY <2>1 DEF GroupStart
  <2>3. t \in Seq(Ids) /\ ToSet(t) \subseteq ToSet(m_sessions)
    BY DeafTyped, RootFacts, KeptList DEF IInv, Good, Listed
  <2> HIDE DEF t
  <2>4. GroupOK'
    BY <2>2, <2>3 DEF GroupOK
  <2>. QED
    BY <2>2, <2>4 DEF IInv, Root, Files, FileState
<1>. QED
  BY <1>1, <1>2, <1>3

\* Children die, and time passes.
LEMMA EnvironmentGood ==
    ASSUME IInv, Tick \/ \E i \in ToSet(m_sessions) : ChildDies(i)
    PROVE  IInv'
<1> DEFINE T == Root({})'
<1>1. UNCHANGED <<newSessionsWin, m_sessions, outdated, missed, group>>
  BY DEF Tick, ChildDies
<1>2. T.list = m_sessions /\ T.S = session' /\ T.out = Files({})
  BY <1>1 DEF Root, State, Files, FileState
<1>3. \A i \in Ids : /\ session'[i] \in Sessions
                     /\ session'[i].args = session[i].args /\ session'[i].active = session[i].active
                     /\ session'[i].quiet = session[i].quiet /\ session'[i].revived = session[i].revived
                     /\ session[i] = NoSession => session'[i] = NoSession
                     /\ Marked(session[i]) => Marked(session'[i])
  <2> SUFFICES ASSUME NEW i \in Ids
               PROVE  /\ session'[i] \in Sessions
                      /\ session'[i].args = session[i].args /\ session'[i].active = session[i].active
                      /\ session'[i].quiet = session[i].quiet /\ session'[i].revived = session[i].revived
                      /\ session[i] = NoSession => session'[i] = NoSession
                      /\ Marked(session[i]) => Marked(session'[i])
    OBVIOUS
  <2>1. session[i] \in Sessions /\ session \in [Ids -> Sessions]
    BY RootFacts
  <2>2. CASE session'[i] = session[i]
    BY <2>1, <2>2
  <2>3. CASE session'[i] = [session[i] EXCEPT !.alive = FALSE, !.dirty = FALSE] /\ session[i].alive
    <3>1. session[i] # NoSession
      BY <2>3, NoSessionTyped
    <3> DEFINE s == session[i]
               u == [s EXCEPT !.alive = FALSE, !.dirty = FALSE]
    <3>2. session'[i] = u /\ s \in Sessions
      BY <2>1, <2>3
    <3> HIDE DEF s
    <3>3. /\ u \in Sessions
          /\ u.args = s.args /\ u.active = s.active /\ u.quiet = s.quiet /\ u.revived = s.revived
          /\ ~u.dirty
      BY <3>2 DEF Sessions
    <3> HIDE DEF u
    <3>. QED
      BY <3>1, <3>2, <3>3 DEF s, Marked
  <2>4. CASE session'[i] = [session[i] EXCEPT !.age = @ + 1] /\ session[i].active /\ session[i].age < NormalTimeout
    <3> DEFINE s == session[i]
               u == [s EXCEPT !.age = @ + 1]
    <3>1. s \in Sessions /\ s # NoSession /\ s.age < NormalTimeout
      <4>1. s.active /\ s.age < NormalTimeout
        BY <2>4
      <4>. QED
        BY <2>1, <4>1, NoSessionTyped
    <3>2. session'[i] = u
      BY <2>4
    <3> HIDE DEF s
    <3>3. s.age + 1 \in 0..NormalTimeout
      <4>1. s.age \in 0..NormalTimeout
        BY <3>1 DEF Sessions
      <4>. QED
        BY <3>1, <4>1, BoundsAssumption
    <3>4. /\ u \in Sessions
          /\ u.args = s.args /\ u.active = s.active /\ u.quiet = s.quiet /\ u.revived = s.revived
          /\ u.dirty = s.dirty /\ u.modified = s.modified /\ u.refused = s.refused
      BY <3>1, <3>3 DEF Sessions
    <3> HIDE DEF u
    <3>. QED
      BY <3>1, <3>2, <3>4 DEF s, Marked
  <2>5. CASE Tick
    <3>1. session'[i] = Older(session[i])
      BY <2>5 DEF Tick
    <3>2. CASE session[i].active /\ session[i].age < NormalTimeout
      BY <2>4, <3>1, <3>2 DEF Older
    <3>3. CASE ~(session[i].active /\ session[i].age < NormalTimeout)
      <4>1. session'[i] = [session[i] EXCEPT !.age = @]
        BY <3>1, <3>3 DEF Older
      <4>2. session'[i] = session[i]
        BY <2>1, <4>1 DEF Sessions
      <4>. QED
        BY <2>2, <4>2
    <3>. QED
      BY <3>2, <3>3
  <2>6. CASE \E j \in ToSet(m_sessions) : ChildDies(j)
    <3>1. PICK j \in ToSet(m_sessions) : /\ session[j].alive
                                         /\ session' = [session EXCEPT ![j].alive = FALSE, ![j].dirty = FALSE]
      BY <2>6 DEF ChildDies
    <3>. QED
      BY <2>1, <2>2, <2>3, <3>1
  <2>. QED
    BY <2>5, <2>6
<1> HIDE DEF T
<1>4. Listed(T)
  <2>1. session' \in [Ids -> Sessions]
    <3>1. session' = [i \in Ids |-> session'[i]]
      BY RootFacts DEF Tick, ChildDies
    <3>. QED
      BY <1>3, <3>1
  <2>. QED
    BY <1>2, <1>3, <2>1, RootFacts DEF IInv, Good, Listed
<1>5. Apart(T)
  <2>1. \A i, j \in Ids : Conflict(session'[i], session'[j]) <=> Conflict(session[i], session[j])
    BY <1>3 DEF Conflict
  <2>. QED
    BY <1>2, <1>3, <2>1, RootFacts DEF IInv, Good, Apart
<1>6. Current(T)
  <2>1. \A d : \A i \in Ids : Witness(session'[i], d) <=> Witness(session[i], d)
    BY <1>3 DEF Witness, Writes
  <2>. QED
    BY <1>2, <2>1, RootFacts DEF IInv, Good, Current
<1>7. \A i \in Ids : Marked(T.S[i])
  BY <1>2, <1>3, RootFacts DEF IInv, Good
<1>8. Good(Root({}))'
  BY <1>4, <1>5, <1>6, <1>7 DEF Good, T, Listed, Apart, Current, Open
<1>9. GroupOK'
  BY <1>1 DEF IInv, GroupOK
<1>. QED
  BY <1>1, <1>8, <1>9 DEF IInv

-----------------------------------------------------------------------------
(* The invariant, and what follows from it. *)

\* At the start there are no sessions.
LEMMA InitGood ==
    ASSUME Init
    PROVE  IInv
<1> DEFINE R == Root({})
<1>1. /\ R.list = <<>> /\ R.S = [i \in Ids |-> NoSession]
      /\ R.out = [old |-> {}, missed |-> {}, deaf |-> {}]
  BY DEF Init, Root, State, Files, FileState
<1> HIDE DEF R
<1>2. <<>> \in Seq(Ids) /\ IsInjective(<<>>) /\ Len(<<>>) <= MaxSessions /\ ToSet(<<>>) = {}
  BY BoundsAssumption DEF IsInjective, ToSet
<1>3. \A i \in Ids : R.S[i] = NoSession
  BY <1>1
<1>4. Listed(R)
  <2>1. R.S \in [Ids -> Sessions]
    BY <1>1, NoSessionTyped
  <2>. QED
    BY <1>1, <1>2, <1>3, <2>1 DEF Listed, FileStates
<1>5. Apart(R) /\ Current(R) /\ \A i \in Ids : Marked(R.S[i])
  BY <1>1, <1>3, NoSessionTyped DEF Apart, Current, Open, Marked
<1>6. GroupOK
  <2>1. group = [action |-> "", todo |-> <<>>]
    BY DEF Init, NoGroup
  <2>2. group \in [action : Actions \cup {""}, todo : Seq(Ids)] /\ group.todo = <<>>
    BY <1>2, <2>1
  <2>. QED
    BY <1>2, <2>2 DEF GroupOK
<1>. QED
  BY <1>4, <1>5, <1>6 DEF IInv, Good, R, Init

\* Every step keeps the invariant.
LEMMA NextGood ==
    ASSUME IInv, [Next]_vars
    PROVE  IInv'
<1>1. ASSUME NEW deaf \in SUBSET Dirs, NEW a \in Requests, Create(a, deaf) PROVE IInv'
  BY <1>1, CreateGood
<1>2. ASSUME NEW deaf \in SUBSET Dirs,
             (\E a \in Requests : CreateFails(a, deaf)) \/ List(deaf) \/ StopAllSessions(deaf)
      PROVE  IInv'
  BY <1>2, CleanupGood
<1>3. ASSUME NEW deaf \in SUBSET Dirs, NEW i \in ToSet(m_sessions),
             Talk(i, deaf) \/ \E action \in Actions : SessionAction(i, action, deaf)
      PROVE  IInv'
  BY <1>3, CommandGood
<1>4. ASSUME NEW deaf \in SUBSET Dirs,
             \/ GroupStep(deaf) \/ GroupEnd(deaf)
             \/ \E action \in Actions, mode \in {"R", "W"}, dirs \in SUBSET Dirs :
                  GroupStart(action, mode, dirs)
      PROVE  IInv'
  BY <1>4, GroupGood
<1>5. CASE Tick \/ \E i \in ToSet(m_sessions) : ChildDies(i)
  BY <1>5, EnvironmentGood
<1>6. CASE UNCHANGED vars
  <2>1. Root({})' = Root({})
    BY <1>6 DEF Root, Files, FileState, vars
  <2>. QED
    BY <1>6, <2>1 DEF vars, IInv, GroupOK
<1>7. CASE \E action \in Actions, mode \in {"R", "W"}, dirs \in SUBSET Dirs \ {{}} : GroupStart(action, mode, dirs)
  BY <1>4, <1>7, DeafTyped
<1>. QED
  BY <1>1, <1>2, <1>3, <1>4, <1>5, <1>6, <1>7, DeafTyped DEF Next

\* The invariant holds in every reachable state.
THEOREM Invariance == Spec => []IInv
<1>1. Init => IInv
  BY InitGood
<1>2. IInv /\ [Next]_vars => IInv'
  BY NextGood
<1>. QED
  BY <1>1, <1>2, PTL DEF Spec

\* What the invariant says of the variables.
LEMMA Consequences ==
    ASSUME IInv
    PROVE  TypeOK /\ ConflictFree /\ FileServerCurrent /\ ModifiedAccurate
<1> DEFINE R == Root({})
<1>1. /\ Good(R) /\ R.list = m_sessions /\ R.S = session
      /\ Open(R.out) = outdated \ missed /\ missed \subseteq outdated /\ outdated \subseteq Dirs
  BY DeafTyped, RootFacts
<1> HIDE DEF R
<1>2. TypeOK
  <2>1. Listed(R) /\ newSessionsWin \in BOOLEAN /\ group.todo \in Seq(Ids)
    BY <1>1 DEF IInv, Good, GroupOK
  <2>. QED
    BY <1>1, <2>1 DEF Listed, TypeOK, Sessions
<1>3. ConflictFree
  BY <1>1 DEF Good, Apart, ConflictFree, ActiveConflict
<1>4. FileServerCurrent
  BY <1>1 DEF Good, Current, Witness, FileServerCurrent
<1>5. ModifiedAccurate
  BY <1>1 DEF Good, Marked, ModifiedAccurate
<1>. QED
  BY <1>2, <1>3, <1>4, <1>5

\* Every variable keeps its type, and each session is listed once: removing sessions while
\* the list is walked leaves none twice and loses no process (root.cpp:62-68).
THEOREM TypeCorrect == Spec => []TypeOK
BY Invariance, Consequences, PTL

\* However sessions are created, displaced, restarted, saved and closed, and whatever
\* children do, no two sessions that conflict are active unless one was restarted after
\* it had ended (session.cpp:43-46).
THEOREM NoConflict == Spec => []ConflictFree
BY Invariance, Consequences, PTL

\* For any number of sessions and directories: what a child changed and the file server
\* was not told is accounted for by an active session that will tell it, or the request at
\* the end of a session was lost, and nobody repeats that (session.cpp:206-216, 350-370).
THEOREM FileServerKnows == Spec => []FileServerCurrent
BY Invariance, Consequences, PTL

\* A session with changes is marked modified until a save of them (session.cpp:226, 264).
THEOREM Modified == Spec => []ModifiedAccurate
BY Invariance, Consequences, PTL

\* The processes are at most MaxSessions, for every MaxSessions (root.cpp:133-142).
THEOREM Bounded == Spec => []ProcessesBounded
<1>1. IInv => ProcessesBounded
  <2> SUFFICES ASSUME IInv PROVE ProcessesBounded
    OBVIOUS
  <2> DEFINE running == { i \in Ids : session[i].alive \/ session[i].active }
             l == m_sessions
  <2>1. TypeOK
    BY Consequences
  <2>2. /\ l \in Seq(Ids) /\ IsInjective(l) /\ Len(l) <= MaxSessions
        /\ \A i \in Ids \ ToSet(l) : session[i] = NoSession
    BY DeafTyped, RootFacts DEF Good, Listed
  <2>3. running \subseteq ToSet(l)
    BY <2>2, NoSessionTyped
  <2> HIDE DEF running, l
  <2>4. Len(l) \in Nat /\ DOMAIN l = 1..Len(l) /\ l \in [1..Len(l) -> ToSet(l)]
    BY <2>2 DEF ToSet
  <2>5. IsFiniteSet(1..Len(l)) /\ Cardinality(1..Len(l)) = Len(l)
    <3>1. 1 \in Int /\ Len(l) \in Int
      BY <2>4
    <3>2. /\ IsFiniteSet(1..Len(l))
          /\ Cardinality(1..Len(l)) = IF 1 > Len(l) THEN 0 ELSE Len(l) - 1 + 1
      BY <3>1, FS_Interval
    <3>. QED
      BY <2>4, <3>2
  <2>6. \A i \in ToSet(l) : \E n \in 1..Len(l) : l[n] = i
    BY <2>4 DEF ToSet
  <2>7. IsFiniteSet(ToSet(l)) /\ Cardinality(ToSet(l)) <= Len(l)
    <3>1. l \in Surjection(1..Len(l), ToSet(l))
      BY <2>4, <2>6 DEF Surjection
    <3>. QED
      BY <2>5, <3>1, FS_Surjection
  <2>8. IsFiniteSet(running) /\ Cardinality(running) <= Cardinality(ToSet(l))
    BY <2>3, <2>7, FS_Subset
  <2>9. Cardinality(running) \in Nat /\ Cardinality(ToSet(l)) \in Nat /\ MaxSessions \in Nat
    BY <2>7, <2>8, FS_CardinalityType, BoundsAssumption
  <2>10. Cardinality(running) <= MaxSessions
    BY <2>2, <2>4, <2>7, <2>8, <2>9
  <2>. QED
    BY <2>1, <2>3, <2>10 DEF ProcessesBounded, running, l
<1>. QED
  BY <1>1, Invariance, PTL

=============================================================================
