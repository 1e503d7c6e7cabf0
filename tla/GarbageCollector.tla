-------------------------- MODULE GarbageCollector --------------------------
(***************************************************************************)
(* server::file::ca::GarbageCollector: finds the objects that commits      *)
(* reach, and then removes the others from a content-addressed store, in   *)
(* slices between which users may change the store.                        *)
(***************************************************************************)
EXTENDS Naturals, FiniteSets

CONSTANTS
    CommitIds, TreeIds, BlobIds, \* Ids of objects, by type
    Child,                  \* Ids that a commit or tree mentions: its content, never changed
    PrefixOf, NumPrefixes,  \* first byte of each Id: a directory of the store
    MaxChanges, MaxRuns,    \* bounds: changes of the store, garbage collectors created
    Failures                  \* subset of {"read", "remove"}: operations that may fail

ObjectIds == CommitIds \cup TreeIds \cup BlobIds

ASSUME ChildAssumption ==
    /\ Child \in [CommitIds \cup TreeIds -> SUBSET (TreeIds \cup BlobIds)]
    /\ \A c \in CommitIds : Child[c] \subseteq TreeIds
    /\ TreeIds \cap BlobIds = {} /\ (TreeIds \cup BlobIds) \cap CommitIds = {}
ASSUME PrefixAssumption ==
    NumPrefixes \in Nat /\ PrefixOf \in [ObjectIds -> { p \in Nat : p < NumPrefixes }]
ASSUME ChangesAssumption == MaxChanges \in Nat /\ MaxRuns \in Nat

VARIABLES
    store,                  \* Ids of the objects in the store
    roots,                  \* commits that must be kept: master and snapshots
    pending,                \* those that the collector has not been told since the last change
    m_objectsToKeep, m_treesToCheck, m_nextPrefixToCheck, m_numErrors,
    added,                  \* history: commits the collector was told of
    late,                   \* history: objects added to a directory that the removal has
                            \* left behind, or that could not be removed
    changes, runs           \* changes made, collectors created

collector == <<m_objectsToKeep, m_treesToCheck, m_nextPrefixToCheck, m_numErrors, added>>
gcVars == <<store, roots, pending, collector, late, changes, runs>>

\* A set of objects that contains whatever its members mention.
Closed(S) == \A o \in S \ BlobIds : Child[o] \subseteq S

\* Store D has everything that the commits R reach.
WholeStore(R, D) == \E S \in SUBSET D : R \subseteq S /\ Closed(S)

GCInit ==
    /\ store \in SUBSET ObjectIds /\ roots \in SUBSET CommitIds
    /\ WholeStore(roots, store)
    /\ pending = roots
    /\ m_objectsToKeep = {} /\ m_treesToCheck = {}
    /\ m_nextPrefixToCheck = 0 /\ m_numErrors = 0
    /\ added = {} /\ late = {}
    /\ changes = 0 /\ runs = 1

----------------------------------------------------------------------------
(* The collector. *)

\* addCommit(), where addTree() is called for trees T
TellCommit(c, T) ==
    /\ c \in roots /\ c \in store
    /\ m_objectsToKeep' = m_objectsToKeep \cup {c}
    /\ m_treesToCheck' = m_treesToCheck \cup (T \ m_objectsToKeep)
    /\ added' = added \cup {c} /\ pending' = pending \ {c}
    /\ UNCHANGED <<m_nextPrefixToCheck, m_numErrors, store, roots, late, changes, runs>>

\* Mutant: a commit is looked at whenever it is added, and its tree checked anew.
AddCommitAgain(c) ==
    /\ c \in roots /\ c \in store
    /\ m_objectsToKeep' = (m_objectsToKeep \cup {c}) \ Child[c]
    /\ m_treesToCheck' = m_treesToCheck \cup Child[c]
    /\ added' = added \cup {c} /\ pending' = pending \ {c}
    /\ UNCHANGED <<m_nextPrefixToCheck, m_numErrors, store, roots, late, changes, runs>>

AddCommit(c) == TellCommit(c, IF c \in m_objectsToKeep THEN {} ELSE Child[c])

\* The commit cannot be read: it is kept, but not what it mentions.
AddCommitFails(c) ==
    /\ c \in roots \ m_objectsToKeep
    /\ "read" \in Failures
    /\ m_objectsToKeep' = m_objectsToKeep \cup {c}
    /\ m_numErrors' = m_numErrors + 1
    /\ added' = added \cup {c} /\ pending' = pending \ {c}
    /\ UNCHANGED <<m_treesToCheck, m_nextPrefixToCheck, store, roots, late, changes, runs>>

\* Mutant: the removal goes on where it was.
NoteOnly(t, K) ==
    /\ m_objectsToKeep' = m_objectsToKeep \cup {t} \cup (K \cap BlobIds)
    /\ m_treesToCheck' = (m_treesToCheck \ {t}) \cup ((K \cap TreeIds) \ m_objectsToKeep')
    /\ UNCHANGED m_nextPrefixToCheck

\* checkObject() on tree t, of which the children K are noted
Note(t, K) ==
    /\ m_objectsToKeep' = m_objectsToKeep \cup {t} \cup (K \cap BlobIds)
    /\ m_treesToCheck' = (m_treesToCheck \ {t}) \cup ((K \cap TreeIds) \ m_objectsToKeep')
    /\ m_nextPrefixToCheck' = 0

CheckObject(t) ==
    /\ pending = {}
    /\ t \in m_treesToCheck /\ t \in store
    /\ Note(t, Child[t])
    /\ late' = {}
    /\ UNCHANGED <<m_numErrors, added, store, roots, pending, changes, runs>>

\* The tree is missing, or is found damaged after some of its content.
CheckObjectFails(t) ==
    /\ pending = {}
    /\ t \in m_treesToCheck
    /\ \E K \in SUBSET Child[t] : (t \in store \/ K = {}) /\ Note(t, K)
    /\ t \notin store \/ "read" \in Failures
    /\ m_numErrors' = m_numErrors + 1
    /\ late' = {}
    /\ UNCHANGED <<added, store, roots, pending, changes, runs>>

\* The objects of the next directory that are to be removed
Garbage == { o \in store \ m_objectsToKeep : PrefixOf[o] = m_nextPrefixToCheck }

\* Mutant: the fail-safe is missing.
RemoveEager ==
    /\ pending = {} /\ m_numErrors = 0
    /\ m_nextPrefixToCheck < NumPrefixes
    /\ store' = store \ Garbage
    /\ m_nextPrefixToCheck' = m_nextPrefixToCheck + 1
    /\ UNCHANGED <<m_objectsToKeep, m_treesToCheck, m_numErrors, added, roots, pending, late,
                   changes, runs>>

\* removeGarbageObjects(), which callers do not call if there were errors
RemoveGarbageObjects ==
    /\ pending = {} /\ m_numErrors = 0
    /\ m_treesToCheck = {} /\ m_nextPrefixToCheck < NumPrefixes
    /\ store' = store \ Garbage
    /\ m_nextPrefixToCheck' = m_nextPrefixToCheck + 1
    /\ UNCHANGED <<m_objectsToKeep, m_treesToCheck, m_numErrors, added, roots, pending, late,
                   changes, runs>>

\* An object cannot be removed: the rest of its directory is left alone.
RemoveFails ==
    /\ pending = {} /\ m_numErrors = 0
    /\ m_treesToCheck = {} /\ m_nextPrefixToCheck < NumPrefixes
    /\ "remove" \in Failures
    /\ \E left \in SUBSET Garbage \ {{}} : store' = (store \ Garbage) \cup left
    /\ late' = late \cup (Garbage \cap store')
    /\ m_nextPrefixToCheck' = m_nextPrefixToCheck + 1
    /\ UNCHANGED <<m_objectsToKeep, m_treesToCheck, m_numErrors, added, roots, pending,
                   changes, runs>>

----------------------------------------------------------------------------
(* Its environment. *)

\* A user operation between two slices: the commits are R now, what they reach is
\* there; other objects may have been added, or removed with their last reference.
Change ==
    /\ changes < MaxChanges
    /\ \E R \in SUBSET CommitIds, S \in SUBSET ObjectIds : \E D \in SUBSET (store \cup S) :
         /\ R \subseteq S /\ S \subseteq D /\ Closed(S)
         /\ store' = D /\ roots' = R /\ pending' = R
         /\ late' = late \cup { o \in D \ store : PrefixOf[o] < m_nextPrefixToCheck }
    /\ changes' = changes + 1
    /\ UNCHANGED <<collector, runs>>

\* The server starts again, or the administrator: a run from scratch.
Restart ==
    /\ runs < MaxRuns
    /\ m_objectsToKeep' = {} /\ m_treesToCheck' = {}
    /\ m_nextPrefixToCheck' = 0 /\ m_numErrors' = 0
    /\ added' = {} /\ late' = {} /\ pending' = roots
    /\ runs' = runs + 1
    /\ UNCHANGED <<store, roots, changes>>

GCNext ==
    \/ \E c \in CommitIds : AddCommit(c) \/ AddCommitFails(c)
    \/ \E t \in TreeIds : CheckObject(t) \/ CheckObjectFails(t)
    \/ RemoveGarbageObjects
    \/ RemoveFails
    \/ Change
    \/ Restart

GCSpec == GCInit /\ [][GCNext]_gcVars

\* The caller tells the collector the commits, and then calls it until it is done.
GCFairness ==
    /\ \A c \in CommitIds : WF_gcVars(c \in pending /\ (AddCommit(c) \/ AddCommitFails(c)))
    /\ \A t \in TreeIds : WF_gcVars(CheckObject(t) \/ CheckObjectFails(t))
    /\ WF_gcVars(RemoveGarbageObjects \/ RemoveFails)

GCFairSpec == GCSpec /\ GCFairness

----------------------------------------------------------------------------
(* Properties. *)

\* Every variable has its type.
GCTypeOK ==
    /\ store \subseteq ObjectIds /\ roots \subseteq CommitIds /\ pending \subseteq roots
    /\ m_objectsToKeep \subseteq ObjectIds /\ m_treesToCheck \subseteq TreeIds
    /\ m_nextPrefixToCheck \in 0..NumPrefixes /\ m_numErrors \in Nat
    /\ added \subseteq CommitIds /\ late \subseteq ObjectIds
    /\ changes \in Nat /\ runs \in Nat

\* Whatever a master or snapshot commit reaches stays in the store, however user
\* operations, slices of the collector, failing reads and restarts interleave
\* (garbagecollector.hpp:34-37; garbagecollector.cpp:101-106).
NothingLost == WholeStore(roots, store)

\* An object that a directory still has when the collector is past it is one to keep, or
\* was added after that, or could not be removed: nothing is skipped, although commits
\* are added while objects are being removed (garbagecollector.cpp:100, 185).
NothingSkipped ==
    \A o \in store : PrefixOf[o] < m_nextPrefixToCheck => o \in m_objectsToKeep \cup late

\* Only what the commits reach is kept: a run from scratch leaves no garbage
\* (garbagecollector.hpp:36-37).
OnlyReachableKept ==
    \A S \in SUBSET ObjectIds :
        added \subseteq S /\ Closed(S) => m_objectsToKeep \cup m_treesToCheck \subseteq S

\* When users no longer change the store, the collector comes to its end, although the
\* same commits are added again and again, or it stops with an error
\* (garbagecollector.hpp:39-40).
Done == m_treesToCheck = {} /\ m_nextPrefixToCheck = NumPrefixes
Completes == <>[](Done \/ m_numErrors > 0)
=============================================================================
