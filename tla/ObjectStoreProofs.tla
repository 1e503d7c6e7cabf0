------------------------- MODULE ObjectStoreProofs -------------------------
(***************************************************************************)
(* ObjectStore, for all contents, names and snapshots, however many        *)
(* operations there are: as long as no removal was cut short, counters are *)
(* exact and nothing that is in use is removed, and what users see changes *)
(* by one operation at a time, and by a failure or crash only where a      *)
(* reference is being written.  And its GarbageCollector, for every set of *)
(* objects and however they mention each other: nothing that a commit      *)
(* reaches is removed, nothing is skipped, and only what commits reach is  *)
(* kept.                                                                   *)
(***************************************************************************)
EXTENDS ObjectStore, GarbageCollector, ListLemmas, SequenceTheorems, FiniteSetTheorems, TLAPS

----------------------------------------------------------------------------
(* The objects there are when directories do not nest.                     *)

Blobs == { Blob(c) : c \in Data }
SubEntries == UNION { [N -> Blobs] : N \in SUBSET Files }
SubTrees == { Tree(E) : E \in SubEntries }
RootEntries ==
    { E \in UNION { [N -> Blobs \cup SubTrees] : N \in SUBSET Names } :
        \A n \in DOMAIN E \cap Files : E[n] \in Blobs }
RootTrees == { Tree(E) : E \in RootEntries }
Commits == { Commit(t) : t \in RootTrees }
Objects == Blobs \cup RootTrees \cup Commits
Ids == Objects \cup {Nil, Missing}

View(c) == [root |-> TreeOf(c), sub |-> SubOf(TreeOf(c))]

\* The steps that an operation can have to do
Steps ==
    [op : {"link", "unlink", "fail"}, id : Ids]
      \cup [op : {"add", "erase"}, id : Objects]
      \cup [op : {"master"}, id : Commits]
      \cup [op : {"tag"}, id : Commits \cup {Nil, Missing}, tag : Tags]
      \cup { [op |-> "succeed", id |-> c, root |-> TreeOf(c), sub |-> SubOf(TreeOf(c))] :
               c \in Commits \cup {Nil} }

\* Also those of a server whose directories are not those of its commit
AnySteps ==
    [op : {"link", "unlink", "fail"}, id : Ids]
      \cup [op : {"add", "erase"}, id : Objects]
      \cup [op : {"master"}, id : Commits]
      \cup [op : {"tag"}, id : Commits \cup {Nil, Missing}, tag : Tags]
      \cup [op : {"succeed"}, id : Commits \cup {Nil}, root : RootTrees \cup {Nil},
            sub : SubTrees \cup {Missing}]

\* How often o mentions id
Occ(o, id) == Cardinality(Places(o, id))
Is(a, b) == IF a = b THEN 1 ELSE 0

\* By how much a step raises the counter of id, minus the mentions of id that it adds,
\* while master is m and snapshots are g
Weight(step, id, m, g) ==
    CASE step.op = "link" -> Is(step.id, id)
      [] step.op = "unlink" -> - Is(step.id, id)
      [] step.op = "add" -> Is(step.id, id) - Occ(step.id, id)
      [] step.op = "master" -> Is(m, id) - Is(step.id, id)
      [] step.op = "tag" -> Is(g[step.tag], id) - Is(step.id, id)
      [] OTHER -> 0
Weights(s, id, m, g) == [i \in 1..Len(s) |-> Weight(s[i], id, m, g)]
Net(s, id, m, g) == Total(Weights(s, id, m, g))

\* The steps from place k on
From(s, k) == SubSeq(s, k, Len(s))

----------------------------------------------------------------------------
(* An operation first adds and links objects, then writes a reference,     *)
(* then gives up what is no longer mentioned, unless it will fail.         *)

\* After the reference is written, or when there is nothing to do
Cleaning(s) ==
    /\ \A i \in DOMAIN s : s[i].op \in {"unlink", "erase", "succeed"}
    /\ \A i \in DOMAIN s : s[i].op = "succeed" => i = Len(s)

\* The operation will find out that it cannot be done.
Failing(s) ==
    /\ s # <<>> /\ s[Len(s)].op = "fail"
    /\ \A i \in DOMAIN s : i # Len(s) => s[i].op \in {"add", "link"}
    /\ \A i \in DOMAIN s : s[i].op = "add" => Content(s[i].id) = <<>>

\* Place r is where the reference is written.
Writing(s, r) ==
    /\ r \in DOMAIN s
    /\ \A i \in DOMAIN s : i < r => s[i].op \in {"add", "link", "unlink"}
    /\ \A i \in DOMAIN s : i > r => s[i].op \in {"unlink", "succeed"}
    /\ \A i \in DOMAIN s : s[i].op = "succeed" => i = Len(s)
    /\ \/ /\ s[r].op = "master" /\ r # Len(s)
          /\ s[Len(s)].op = "succeed" /\ s[Len(s)].id = s[r].id
       \/ /\ s[r].op = "tag"
          /\ \A i \in DOMAIN s : s[i].op # "succeed"

\* Until then, no counter is lower than it has to be after the remaining steps, and what
\* is added is one of the objects that are mentioned later.
Covered(s, r, m, g) ==
    /\ \A k \in 1..r : \A id \in Objects : Net(From(s, k), id, m, g) <= 0
    /\ \A k \in 1..(r-1) : s[k].op = "add" => Net(From(s, k + 1), s[k].id, m, g) <= -1

\* What is linked exists, and what is unlinked belongs to an object that will be linked.
Linkable(s, r, D) ==
    /\ \A i \in 1..(r-1) : s[i].op = "link" => s[i].id \in D \cup {Nil, Missing}
    /\ \A i \in 1..(r-1) : s[i].op = "unlink" =>
          \E j \in (i+1)..(r-1) :
             s[j].op = "link" /\ s[j].id \in D /\ s[i].id \in ToSet(Content(s[j].id))

Sound(s, r, D, m, g) == Writing(s, r) /\ Covered(s, r, m, g) /\ Linkable(s, r, D)

\* Objects that are linked before the operation fails exist, too.
Hopeless(s, D) ==
    /\ Failing(s)
    /\ \A i \in DOMAIN s : s[i].op = "link" => s[i].id \in D \cup {Nil, Missing}

Staged ==
    \/ Cleaning(todo)
    \/ Hopeless(todo, disk)
    \/ \E r \in DOMAIN todo : Sound(todo, r, disk, master, tags)

----------------------------------------------------------------------------
(* The inductive invariant.                                                *)

Erasing == { todo[i].id : i \in { i \in DOMAIN todo : todo[i].op = "erase" } }
Live == disk \ Erasing
Refs(id, m, g) == Cardinality({ t \in Tags : g[t] = id }) + Is(m, id)
Uses(S, id, m, g) == Cardinality(Mentions(S, id)) + Refs(id, m, g)
Known(id) == IF Tracked(id) THEN m_refCounter[id] ELSE 0

Types ==
    /\ disk \in SUBSET Objects /\ IsFiniteSet(disk)
    /\ master \in Commits \cup {Nil}
    /\ tags \in [Tags -> Commits \cup {Nil, Missing}]
    /\ m_refCounter \in [DOMAIN m_refCounter -> Nat \ {0}]
    /\ DOMAIN m_refCounter \subseteq Live
    /\ m_id \in { View(c) : c \in Commits \cup {Nil} }
    /\ m_commitId \in Commits \cup {Nil}
    /\ todo \in Seq(Steps)
    /\ up \in BOOLEAN /\ torn \in BOOLEAN /\ leaked \in BOOLEAN

\* A counter that is known, with what the remaining steps will add to it, is the number of
\* mentions; it is too high after a failure.  What is not on disk is not mentioned.
Counted ==
    \A id \in Objects : Tracked(id) \/ id \notin Live =>
        IF Failing(todo) THEN Known(id) >= Uses(Live, id, master, tags)
        ELSE LET n == Known(id) + Net(todo, id, master, tags)
             IN  /\ n >= Uses(Live, id, master, tags)
                 /\ ~leaked => n = Uses(Live, id, master, tags)

\* What mentions an object with a counter has one, too.
TrackedUp ==
    \A o \in Live : \A id \in ToSet(Content(o)) : Tracked(id) => Tracked(o)

\* The server works with the tree of master, which it is told after it has written it.
Current ==
    IF Cleaning(todo) /\ \E i \in DOMAIN todo : todo[i].op = "succeed"
    THEN todo[Len(todo)].id = master
    ELSE m_commitId = master /\ m_id = View(master)

----------------------------------------------------------------------------
(* What users see.                                                         *)

\* What a commit says about each path
Image(c) ==
    [p \in Paths |-> IF Len(p) = 1 THEN Look(Entries(TreeOf(c)), p[1])
                     ELSE Look(Entries(SubOf(TreeOf(c))), p[2])]

\* The changes of FileTree: from files f to g
HasPlace(f, p) == Len(p) = 1 \/ f[SubSeq(p, 1, Len(p) - 1)] = "dir"
Changes(f, g) ==
    \E p \in Paths :
        \/ HasPlace(f, p) /\ f[p] = "none" /\ g = [f EXCEPT ![p] = "dir"]
        \/ /\ \A q \in Paths : f[q] # "none" /\ Len(q) > Len(p) => SubSeq(q, 1, Len(p)) # p
           /\ g = [f EXCEPT ![p] = "none"]
        \/ \E c \in Data : HasPlace(f, p) /\ f[p] # "dir" /\ g = [f EXCEPT ![p] = c]

\* The reference that s will write is what the user asks for.
Asked(s) ==
    \A i \in DOMAIN s :
        /\ s[i].op = "master" => Changes(Image(master), Image(s[i].id))
        /\ s[i].op = "tag" =>
              s[i].id \in {ReadMaster, Missing} \/ \E u \in Tags : tags[u] = s[i].id
Intended == Asked(todo)

----------------------------------------------------------------------------
(* All of the invariant: after a removal that was not finished, counters   *)
(* are wrong, but nothing is missing; a restart makes the server sound     *)
(* again, unless users had it work with these counters.                    *)

Typed ==
    /\ disk \in SUBSET Objects /\ IsFiniteSet(disk)
    /\ master \in Commits \cup {Nil}
    /\ tags \in [Tags -> Commits \cup {Nil, Missing}]
    /\ m_refCounter \in [DOMAIN m_refCounter -> Nat \ {0}]
    /\ DOMAIN m_refCounter \subseteq Objects
    /\ m_id \in [root : RootTrees \cup {Nil}, sub : SubTrees \cup {Missing}]
    /\ m_commitId \in Commits \cup {Nil}
    /\ todo \in Seq(AnySteps)
    /\ up \in BOOLEAN /\ torn \in BOOLEAN /\ leaked \in BOOLEAN
    /\ health \in {"sound", "cut", "unsound"}

\* While the server runs
Active == Types /\ up /\ Staged /\ Counted /\ TrackedUp /\ Current

Whole == Types /\ Reached(Roots) \subseteq disk

Running == health = "sound" /\ up => Active /\ Intended
CutShort == health = "cut" => up /\ todo = <<>> /\ Whole
Down ==
    ~up => /\ todo = <<>> /\ DOMAIN m_refCounter = {} /\ torn = FALSE
           /\ health # "cut"
           /\ health = "sound" => Whole

IInv == Typed /\ Running /\ CutShort /\ Down

----------------------------------------------------------------------------
(* Objects.                                                                *)

LEMMA BlobFacts ==
    ASSUME NEW b \in Blobs
    PROVE  b.type = "blob" /\ Content(b) = <<>> /\ Entries(b) = NoEntries
  BY DEF Blobs, Blob, Content, Entries

LEMMA NilFacts ==
    /\ Nil.type = "nil" /\ Missing.type = "missing" /\ Nil # Missing
    /\ TreeOf(Nil) = Nil /\ Entries(Nil) = NoEntries
    /\ Content(Nil) = <<>> /\ Content(Missing) = <<>> /\ Entries(Missing) = NoEntries
  BY DEF Nil, Missing, TreeOf, Entries, Content

\* What entries of directories are
LEMMA EntriesFacts ==
    /\ \A E \in SubEntries : E \in [DOMAIN E -> Blobs] /\ DOMAIN E \subseteq Files
    /\ \A E \in RootEntries :
         /\ E \in [DOMAIN E -> Blobs \cup SubTrees] /\ DOMAIN E \subseteq Names
         /\ \A n \in DOMAIN E \cap Files : E[n] \in Blobs
  <1>1. ASSUME NEW E \in SubEntries PROVE E \in [DOMAIN E -> Blobs] /\ DOMAIN E \subseteq Files
    <2>1. PICK N \in SUBSET Files : E \in [N -> Blobs]
      BY DEF SubEntries
    <2> QED
      BY <2>1
  <1>2. ASSUME NEW E \in RootEntries
        PROVE  /\ E \in [DOMAIN E -> Blobs \cup SubTrees] /\ DOMAIN E \subseteq Names
               /\ \A n \in DOMAIN E \cap Files : E[n] \in Blobs
    <2>1. PICK N \in SUBSET Names : E \in [N -> Blobs \cup SubTrees]
      BY DEF RootEntries
    <2>2. \A n \in DOMAIN E \cap Files : E[n] \in Blobs
      BY DEF RootEntries
    <2> QED
      BY <2>1, <2>2
  <1> QED
    BY <1>1, <1>2

LEMMA SubEntriesAre ==
    ASSUME NEW N, N \subseteq Files, NEW E \in [N -> Blobs]
    PROVE  E \in SubEntries
  BY DEF SubEntries

LEMMA RootEntriesAre ==
    ASSUME NEW N, N \subseteq Names, NEW E \in [N -> Blobs \cup SubTrees],
           \A n \in N \cap Files : E[n] \in Blobs
    PROVE  E \in RootEntries
  BY DEF RootEntries

LEMMA SubRoot == SubEntries \subseteq RootEntries /\ SubTrees \subseteq RootTrees
  <1>1. ASSUME NEW E \in SubEntries PROVE E \in RootEntries
    <2>1. E \in [DOMAIN E -> Blobs] /\ DOMAIN E \subseteq Files
      BY EntriesFacts
    <2>2. E \in [DOMAIN E -> Blobs \cup SubTrees] /\ DOMAIN E \subseteq Names
      BY <2>1 DEF Names
    <2>3. \A n \in DOMAIN E \cap Files : E[n] \in Blobs
      BY <2>1
    <2> QED
      BY <2>2, <2>3, RootEntriesAre
  <1> QED
    BY <1>1 DEF SubTrees, RootTrees

LEMMA TreeFacts ==
    ASSUME NEW t \in RootTrees
    PROVE  /\ t.type = "tree" /\ Entries(t) \in RootEntries /\ t = Tree(Entries(t))
           /\ Content(t) = Listed(Entries(t))
           /\ t \in SubTrees => Entries(t) \in SubEntries
  <1>1. PICK E \in RootEntries : t = Tree(E)
    BY DEF RootTrees
  <1>2. t.type = "tree" /\ t.entries = E
    BY <1>1 DEF Tree
  <1>3. Entries(t) = E /\ Content(t) = Listed(E)
    BY <1>2 DEF Entries, Content
  <1>4. ASSUME t \in SubTrees PROVE Entries(t) \in SubEntries
    <2>1. PICK F \in SubEntries : t = Tree(F)
      BY <1>4 DEF SubTrees
    <2>2. t.entries = F
      BY <2>1 DEF Tree
    <2> QED
      BY <1>2, <1>3, <2>2
  <1> QED
    BY <1>1, <1>2, <1>3, <1>4

LEMMA TreeIs ==
    /\ \A E \in RootEntries : Tree(E) \in RootTrees /\ Entries(Tree(E)) = E
    /\ \A E \in SubEntries : Tree(E) \in SubTrees
  <1>1. ASSUME NEW E \in RootEntries PROVE Tree(E) \in RootTrees /\ Entries(Tree(E)) = E
    BY DEF RootTrees, Tree, Entries
  <1> QED
    BY <1>1 DEF SubTrees

LEMMA NoEntriesFacts ==
    NoEntries \in SubEntries /\ NoEntries \in RootEntries /\ DOMAIN NoEntries = {}
  <1>1. DOMAIN NoEntries = {}
    BY DEF NoEntries
  <1>2. NoEntries \in [{} -> Blobs]
    BY DEF NoEntries
  <1> QED
    BY <1>1, <1>2, SubEntriesAre, SubRoot

LEMMA CommitFacts ==
    ASSUME NEW c \in Commits
    PROVE  /\ c.type = "commit" /\ TreeOf(c) \in RootTrees /\ c = Commit(TreeOf(c))
           /\ Content(c) = <<TreeOf(c)>>
  <1>1. PICK t \in RootTrees : c = Commit(t)
    BY DEF Commits
  <1>2. c.type = "commit" /\ c.tree = t
    BY <1>1 DEF Commit
  <1> QED
    BY <1>1, <1>2 DEF TreeOf, Content

LEMMA CommitIs ==
    ASSUME NEW t \in RootTrees
    PROVE  Commit(t) \in Commits /\ TreeOf(Commit(t)) = t
  BY DEF Commits, Commit, TreeOf

\* The kinds of objects exclude each other.
LEMMA Disjoint ==
    /\ Blobs \cap RootTrees = {} /\ Blobs \cap Commits = {} /\ RootTrees \cap Commits = {}
    /\ Nil \notin Objects /\ Missing \notin Objects
  <1>1. \A b \in Blobs : b.type = "blob"
    BY BlobFacts
  <1>2. \A b \in RootTrees : b.type = "tree"
    BY TreeFacts
  <1>3. \A b \in Commits : b.type = "commit"
    BY CommitFacts
  <1>4. Nil.type = "nil" /\ Missing.type = "missing"
    BY NilFacts
  <1> HIDE DEF Nil, Missing
  <1> QED
    BY <1>1, <1>2, <1>3, <1>4 DEF Objects

\* The tree of the root and its subdirectory
LEMMA SubFacts ==
    ASSUME NEW t \in RootTrees \cup {Nil}
    PROVE  /\ Entries(t) \in RootEntries
           /\ SubOf(t) \in SubTrees \cup {Missing}
           /\ SubOf(t) # Missing => Dir \in DOMAIN Entries(t) /\ Entries(t)[Dir] = SubOf(t)
           /\ Dir \in DOMAIN Entries(t) /\ Entries(t)[Dir] \notin Blobs
                => SubOf(t) = Entries(t)[Dir]
           /\ Dir \in DOMAIN Entries(t) /\ Entries(t)[Dir] \in Blobs => SubOf(t) = Missing
           /\ Dir \notin DOMAIN Entries(t) => SubOf(t) = Missing
  <1> DEFINE E == Entries(t)
  <1>1. E \in RootEntries
    BY TreeFacts, NilFacts, NoEntriesFacts
  <1>2. \A n \in DOMAIN E : E[n] \in Blobs \cup SubTrees
    BY <1>1, EntriesFacts
  <1>3. SubOf(t) = IF Dir \in DOMAIN E /\ E[Dir].type = "tree" THEN E[Dir] ELSE Missing
    BY DEF SubOf
  <1>4. \A b \in Blobs : b.type # "tree" /\ b # Missing
    BY BlobFacts, Disjoint DEF Objects
  <1>5. \A b \in SubTrees : b.type = "tree" /\ b # Missing /\ b \notin Blobs
    BY TreeFacts, SubRoot, Disjoint DEF Objects
  <1> HIDE DEF E
  <1> QED
    <2>1. CASE Dir \in DOMAIN E /\ E[Dir] \in Blobs
      BY <1>1, <1>3, <1>4, <2>1 DEF E
    <2>2. CASE Dir \in DOMAIN E /\ E[Dir] \notin Blobs
      BY <1>1, <1>2, <1>3, <1>5, <2>2 DEF E
    <2>3. CASE Dir \notin DOMAIN E
      BY <1>1, <1>3, <2>3 DEF E
    <2> QED
      BY <2>1, <2>2, <2>3

\* The names in a tree object
LEMMA SortedFacts ==
    ASSUME NEW E, DOMAIN E \subseteq Names
    PROVE  /\ Sorted(E) \in Seq(Names) /\ IsInjective(Sorted(E))
           /\ ToSet(Sorted(E)) = DOMAIN E
           /\ Len(Sorted(E)) \in Nat /\ DOMAIN Sorted(E) = 1..Len(Sorted(E))
           /\ \A i \in 1..Len(Sorted(E)) : Sorted(E)[i] \in DOMAIN E
           /\ \A n \in DOMAIN E : \E i \in 1..Len(Sorted(E)) : Sorted(E)[i] = n
  <1>1. NameOrder \in Seq(Names) /\ IsInjective(NameOrder) /\ ToSet(NameOrder) = Names
    BY NamesAssumption
  <1> DEFINE s == Sorted(E)
  <1>2. s \in Seq(Names) /\ IsInjective(s) /\ ToSet(s) = ToSet(NameOrder) \cap DOMAIN E
    BY <1>1, KeptList DEF Sorted
  <1>3. ToSet(s) = DOMAIN E
    BY <1>1, <1>2
  <1> HIDE DEF s
  <1>4. Len(s) \in Nat /\ DOMAIN s = 1..Len(s)
    BY <1>2
  <1>5. ToSet(s) = { s[i] : i \in 1..Len(s) }
    BY <1>4 DEF ToSet
  <1> QED
    BY <1>2, <1>3, <1>4, <1>5 DEF s

LEMMA FiniteNames ==
    /\ IsFiniteSet(Names) /\ IsFiniteSet(Tags)
    /\ \A S \in SUBSET Names : IsFiniteSet(S) /\ Cardinality(S) \in Nat
  <1>1. IsFiniteSet(Names)
    BY NamesAssumption, DistinctCardinality
  <1>2. ASSUME NEW S \in SUBSET Names PROVE IsFiniteSet(S) /\ Cardinality(S) \in Nat
    BY <1>1, <1>2, FS_Subset, FS_CardinalityType
  <1> QED
    BY <1>1, <1>2, TagsAssumption

\* What a tree mentions, as a list
LEMMA ListedFacts ==
    ASSUME NEW E, DOMAIN E \subseteq Names, NEW S, \A n \in DOMAIN E : E[n] \in S
    PROVE  /\ Listed(E) \in Seq(S)
           /\ Len(Listed(E)) = Len(Sorted(E))
           /\ \A i \in 1..Len(Sorted(E)) : Listed(E)[i] = E[Sorted(E)[i]]
           /\ ToSet(Listed(E)) = { E[n] : n \in DOMAIN E }
  <1> DEFINE s == Sorted(E)
             l == Len(s)
  <1>1. /\ l \in Nat /\ DOMAIN s = 1..l
        /\ \A i \in 1..l : s[i] \in DOMAIN E
        /\ \A n \in DOMAIN E : \E i \in 1..l : s[i] = n
    BY SortedFacts
  <1>2. Listed(E) = [i \in 1..l |-> E[s[i]]]
    BY <1>1 DEF Listed
  <1> HIDE DEF s, l
  <1>3. Listed(E) \in Seq(S) /\ Len(Listed(E)) = l /\ DOMAIN Listed(E) = 1..l
    BY <1>1, <1>2
  <1>4. ToSet(Listed(E)) = { Listed(E)[i] : i \in 1..l }
    BY <1>3 DEF ToSet
  <1>5. ToSet(Listed(E)) = { E[n] : n \in DOMAIN E }
    BY <1>1, <1>2, <1>4
  <1> QED
    BY <1>2, <1>3, <1>5 DEF s, l

\* The names of E that have id; there are as many as places in the list.
Held(E, id) == { n \in DOMAIN E : E[n] = id }

LEMMA HeldPlaces ==
    ASSUME NEW E, DOMAIN E \subseteq Names, NEW id
    PROVE  LET P == { i \in DOMAIN Listed(E) : Listed(E)[i] = id } IN
           /\ IsFiniteSet(P) /\ IsFiniteSet(Held(E, id))
           /\ Cardinality(P) = Cardinality(Held(E, id)) /\ Cardinality(P) \in Nat
  <1> DEFINE s == Sorted(E)
             l == Len(s)
             P == { i \in DOMAIN Listed(E) : Listed(E)[i] = id }
             f == [i \in P |-> s[i]]
  <1>1. /\ l \in Nat /\ DOMAIN s = 1..l /\ IsInjective(s)
        /\ \A i \in 1..l : s[i] \in DOMAIN E
        /\ \A n \in DOMAIN E : \E i \in 1..l : s[i] = n
    BY SortedFacts
  <1>2. /\ DOMAIN Listed(E) = 1..l
        /\ \A i \in 1..l : Listed(E)[i] = E[s[i]]
    BY <1>1 DEF Listed
  <1> HIDE DEF s, l
  <1>3. P = { i \in 1..l : E[s[i]] = id }
    BY <1>2
  <1> HIDE DEF P
  <1>4. f \in [P -> Held(E, id)]
    BY <1>1, <1>3 DEF Held
  <1>5. ASSUME NEW i \in P, NEW j \in P, f[i] = f[j] PROVE i = j
    <2>1. i \in DOMAIN s /\ j \in DOMAIN s /\ s[i] = s[j]
      BY <1>1, <1>3, <1>5
    <2> QED
      BY <1>1, <2>1 DEF IsInjective
  <1>6. ASSUME NEW n \in Held(E, id) PROVE \E i \in P : f[i] = n
    <2>1. PICK i \in 1..l : s[i] = n
      BY <1>1 DEF Held
    <2>2. i \in P
      BY <1>3, <2>1 DEF Held
    <2> QED
      BY <2>1, <2>2
  <1> HIDE DEF f
  <1>7. f \in Bijection(P, Held(E, id))
    <2>1. f \in Injection(P, Held(E, id))
      BY <1>4, <1>5 DEF Injection, IsInjective
    <2>2. f \in Surjection(P, Held(E, id))
      BY <1>4, <1>6 DEF Surjection
    <2> QED
      BY <2>1, <2>2 DEF Bijection
  <1>8. IsFiniteSet(P)
    <2>1. 1 \in Int /\ l \in Int
      BY <1>1
    <2>2. IsFiniteSet(1..l)
      BY <2>1, FS_Interval
    <2> QED
      BY <1>3, <2>2, FS_Subset
  <1>9. ExistsBijection(P, Held(E, id))
    BY <1>7 DEF ExistsBijection
  <1>10. IsFiniteSet(Held(E, id)) /\ Cardinality(Held(E, id)) = Cardinality(P)
    BY <1>8, <1>9, FS_Bijection
  <1>11. Cardinality(P) \in Nat
    BY <1>8, FS_CardinalityType
  <1> QED
    BY <1>8, <1>10, <1>11 DEF P

\* What objects mention
LEMMA ContentFacts ==
    /\ \A o \in Ids : Content(o) \in Seq(Objects)
    /\ \A b \in Blobs : ToSet(Content(b)) = {}
    /\ ToSet(Content(Nil)) = {} /\ ToSet(Content(Missing)) = {}
    /\ \A t \in RootTrees : ToSet(Content(t)) = { Entries(t)[n] : n \in DOMAIN Entries(t) }
    /\ \A c \in Commits : ToSet(Content(c)) = {TreeOf(c)}
  <1>0. <<>> \in Seq(Objects) /\ ToSet(<<>>) = {}
    BY DEF ToSet
  <1>1. \A b \in Blobs \cup {Nil, Missing} : Content(b) = <<>>
    BY BlobFacts, NilFacts
  <1>2. ASSUME NEW t \in RootTrees
        PROVE  /\ Content(t) \in Seq(Objects)
               /\ ToSet(Content(t)) = { Entries(t)[n] : n \in DOMAIN Entries(t) }
    <2> DEFINE E == Entries(t)
    <2>1. E \in RootEntries /\ Content(t) = Listed(E)
      BY TreeFacts
    <2> HIDE DEF E
    <2>2. DOMAIN E \subseteq Names /\ \A n \in DOMAIN E : E[n] \in Blobs \cup SubTrees
      BY <2>1, EntriesFacts
    <2>3. \A n \in DOMAIN E : E[n] \in Objects
      BY <2>2, SubRoot DEF Objects
    <2>4. Listed(E) \in Seq(Objects) /\ ToSet(Listed(E)) = { E[n] : n \in DOMAIN E }
      BY <2>2, <2>3, ListedFacts
    <2> QED
      BY <2>1, <2>4 DEF E
  <1>3. ASSUME NEW c \in Commits
        PROVE  Content(c) \in Seq(Objects) /\ ToSet(Content(c)) = {TreeOf(c)}
    <2>1. Content(c) = <<TreeOf(c)>> /\ TreeOf(c) \in Objects
      BY CommitFacts DEF Objects
    <2> QED
      BY <2>1 DEF ToSet
  <1>4. ASSUME NEW o \in Ids PROVE Content(o) \in Seq(Objects)
    BY <1>0, <1>1, <1>2, <1>3 DEF Ids, Objects
  <1> HIDE DEF Nil, Missing
  <1> QED
    BY <1>0, <1>1, <1>2, <1>3, <1>4

\* How often they do
LEMMA PlacesFacts ==
    ASSUME NEW o \in Ids, NEW id
    PROVE  /\ IsFiniteSet(Places(o, id)) /\ Occ(o, id) \in Nat
           /\ Places(o, id) \subseteq 1..Len(Content(o))
           /\ Occ(o, id) = 0 <=> id \notin ToSet(Content(o))
  <1>1. Content(o) \in Seq(Objects)
    BY ContentFacts
  <1>2. Len(Content(o)) \in Nat /\ DOMAIN Content(o) = 1..Len(Content(o))
    BY <1>1
  <1>3. IsFiniteSet(1..Len(Content(o)))
    BY <1>2, FS_Interval
  <1>4. Places(o, id) \subseteq 1..Len(Content(o))
    BY <1>2 DEF Places
  <1>5. IsFiniteSet(Places(o, id))
    BY <1>3, <1>4, FS_Subset
  <1>6. Occ(o, id) \in Nat /\ (Occ(o, id) = 0 <=> Places(o, id) = {})
    BY <1>5, FS_CardinalityType, FS_EmptySet DEF Occ
  <1>7. Places(o, id) = {} <=> id \notin ToSet(Content(o))
    BY DEF Places, ToSet
  <1> QED
    BY <1>4, <1>5, <1>6, <1>7

LEMMA OccFacts ==
    ASSUME NEW id
    PROVE  /\ \A b \in Blobs \cup {Nil, Missing} : Occ(b, id) = 0
           /\ \A t \in RootTrees : Occ(t, id) = Cardinality(Held(Entries(t), id))
           /\ \A c \in Commits : Occ(c, id) = Is(TreeOf(c), id)
  <1>1. ASSUME NEW b \in Blobs \cup {Nil, Missing} PROVE Occ(b, id) = 0
    <2>1. b \in Ids /\ ToSet(Content(b)) = {}
      BY ContentFacts DEF Ids, Objects
    <2> QED
      BY <2>1, PlacesFacts
  <1>2. ASSUME NEW t \in RootTrees PROVE Occ(t, id) = Cardinality(Held(Entries(t), id))
    <2>1. Entries(t) \in RootEntries /\ Content(t) = Listed(Entries(t))
      BY TreeFacts
    <2>2. DOMAIN Entries(t) \subseteq Names
      BY <2>1, EntriesFacts
    <2>3. Places(t, id) = { i \in DOMAIN Listed(Entries(t)) : Listed(Entries(t))[i] = id }
      BY <2>1 DEF Places
    <2> QED
      BY <2>2, <2>3, HeldPlaces DEF Occ
  <1>3. ASSUME NEW c \in Commits PROVE Occ(c, id) = Is(TreeOf(c), id)
    <2>1. Content(c) = <<TreeOf(c)>>
      BY CommitFacts
    <2>2. Places(c, id) = { i \in {1} : TreeOf(c) = id }
      BY <2>1 DEF Places
    <2>3. CASE TreeOf(c) = id
      <3>1. Places(c, id) = {1}
        BY <2>2, <2>3
      <3> QED
        BY <2>3, <3>1, FS_Singleton DEF Occ, Is
    <2>4. CASE TreeOf(c) # id
      <3>1. Places(c, id) = {}
        BY <2>2, <2>4
      <3> QED
        BY <2>4, <3>1, FS_EmptySet DEF Occ, Is
    <2> QED
      BY <2>3, <2>4
  <1> QED
    BY <1>1, <1>2, <1>3

\* Counting the mentions of finitely many objects
LEMMA MentionsFacts ==
    ASSUME NEW S, S \subseteq Objects, IsFiniteSet(S), NEW id
    PROVE  /\ IsFiniteSet(Mentions(S, id)) /\ Cardinality(Mentions(S, id)) \in Nat
           /\ Cardinality(Mentions(S, id)) = 0 <=> \A o \in S : id \notin ToSet(Content(o))
  <1> DEFINE M(o) == {o} \X Places(o, id)
             T == { M(o) : o \in S }
             f == [o \in S |-> M(o)]
  <1>1. f \in Surjection(S, T)
    BY DEF Surjection
  <1>2. IsFiniteSet(T)
    <2> HIDE DEF f, T
    <2> QED
      BY <1>1, FS_Surjection
  <1>3. \A o \in S : IsFiniteSet(Places(o, id))
    BY PlacesFacts DEF Ids
  <1>4. \A o \in S : IsFiniteSet(M(o))
    BY <1>3, FS_Product, FS_Singleton
  <1>5. \A m \in T : IsFiniteSet(m)
    BY <1>4
  <1>6. Mentions(S, id) = UNION T
    BY DEF Mentions
  <1>7. IsFiniteSet(Mentions(S, id))
    BY <1>2, <1>5, <1>6, FS_UNION
  <1>8. Mentions(S, id) = {} <=> \A o \in S : id \notin ToSet(Content(o))
    <2>0. \A o \in S : {o} \X Places(o, id) \subseteq Mentions(S, id)
      BY DEF Mentions
    <2>1. Mentions(S, id) = {} <=> \A o \in S : Places(o, id) = {}
      <3>1. ASSUME Mentions(S, id) = {}, NEW o \in S PROVE Places(o, id) = {}
        <4>1. ASSUME NEW i \in Places(o, id) PROVE FALSE
          <5>1. <<o, i>> \in Mentions(S, id)
            BY <2>0, <4>1
          <5> QED
            BY <3>1, <5>1
        <4> QED
          BY <4>1
      <3>2. ASSUME Mentions(S, id) # {} PROVE \E o \in S : Places(o, id) # {}
        <4>1. PICK m : m \in Mentions(S, id)
          BY <3>2
        <4>2. PICK o \in S : m \in {o} \X Places(o, id)
          BY <4>1 DEF Mentions
        <4> QED
          BY <4>2
      <3> QED
        BY <3>1, <3>2
    <2>2. \A o \in S : Places(o, id) = {} <=> id \notin ToSet(Content(o))
      BY DEF Places, ToSet
    <2> QED
      BY <2>1, <2>2
  <1> QED
    BY <1>7, <1>8, FS_CardinalityType, FS_EmptySet

LEMMA MentionsAdd ==
    ASSUME NEW S, S \subseteq Objects, IsFiniteSet(S), NEW o \in Objects \ S, NEW id
    PROVE  Cardinality(Mentions(S \cup {o}, id)) = Cardinality(Mentions(S, id)) + Occ(o, id)
  <1> DEFINE A == Mentions(S, id)
             B == {o} \X Places(o, id)
  <1>1. Mentions(S \cup {o}, id) = A \cup B
    BY DEF Mentions
  <1>2. A \cap B = {}
    BY DEF Mentions
  <1>3. IsFiniteSet(A) /\ Cardinality(A) \in Nat
    BY MentionsFacts
  <1>4. IsFiniteSet(Places(o, id)) /\ Occ(o, id) \in Nat
    BY PlacesFacts DEF Ids
  <1>5. IsFiniteSet({o}) /\ Cardinality({o}) = 1
    BY FS_Singleton
  <1>6. IsFiniteSet(B) /\ Cardinality(B) = Occ(o, id)
    <2>1. IsFiniteSet(B) /\ Cardinality(B) = Cardinality({o}) * Cardinality(Places(o, id))
      BY <1>4, <1>5, FS_Product
    <2> HIDE DEF B
    <2> QED
      BY <1>4, <1>5, <2>1 DEF Occ
  <1> HIDE DEF A, B
  <1>7. Cardinality(A \cup B) = Cardinality(A) + Cardinality(B) - Cardinality(A \cap B)
    BY <1>3, <1>6, FS_Union
  <1>8. Cardinality(A \cap B) = 0
    BY <1>2, FS_EmptySet
  <1>9. Cardinality(A \cup B) = Cardinality(A) + Occ(o, id)
    BY <1>3, <1>4, <1>6, <1>7, <1>8
  <1> QED
    BY <1>1, <1>9 DEF A

----------------------------------------------------------------------------
(* Steps, and what they do to counters.                                    *)

LEMMA StepFacts ==
    ASSUME NEW x \in Steps
    PROVE  /\ x.op \in {"link", "unlink", "fail", "add", "erase", "master", "tag", "succeed"}
           /\ x.id \in Ids
           /\ x.op \in {"add", "erase"} => x.id \in Objects
           /\ x.op = "master" => x.id \in Commits
           /\ x.op = "tag" => x.tag \in Tags /\ x.id \in Commits \cup {Nil, Missing}
           /\ x.op = "succeed" => /\ x.id \in Commits \cup {Nil}
                                  /\ x.root = TreeOf(x.id) /\ x.sub = SubOf(TreeOf(x.id))
  <1>0. Objects \subseteq Ids /\ Commits \subseteq Ids /\ Nil \in Ids /\ Missing \in Ids
    BY DEF Ids, Objects
  <1> HIDE DEF Nil, Missing, Objects, Commits, Ids
  <1>1. CASE x \in [op : {"link", "unlink", "fail"}, id : Ids]
    BY <1>1
  <1>2. CASE x \in [op : {"add", "erase"}, id : Objects]
    BY <1>0, <1>2
  <1>3. CASE x \in [op : {"master"}, id : Commits]
    BY <1>0, <1>3
  <1>4. CASE x \in [op : {"tag"}, id : Commits \cup {Nil, Missing}, tag : Tags]
    BY <1>0, <1>4
  <1>5. CASE x \in { [op |-> "succeed", id |-> c, root |-> TreeOf(c), sub |-> SubOf(TreeOf(c))] :
                       c \in Commits \cup {Nil} }
    BY <1>0, <1>5
  <1> QED
    BY <1>1, <1>2, <1>3, <1>4, <1>5 DEF Steps

LEMMA StepIs ==
    /\ \A id \in Ids : \A op \in {"link", "unlink", "fail"} : [op |-> op, id |-> id] \in Steps
    /\ \A id \in Objects : \A op \in {"add", "erase"} : [op |-> op, id |-> id] \in Steps
    /\ \A id \in Commits : [op |-> "master", id |-> id] \in Steps
    /\ \A id \in Commits \cup {Nil, Missing} : \A t \in Tags :
          [op |-> "tag", id |-> id, tag |-> t] \in Steps
    /\ \A c \in Commits \cup {Nil} :
          [op |-> "succeed", id |-> c, root |-> TreeOf(c), sub |-> SubOf(TreeOf(c))] \in Steps
  BY DEF Steps

LEMMA WeightType ==
    ASSUME NEW x \in Steps, NEW id, NEW m, NEW g
    PROVE  Weight(x, id, m, g) \in Int
  <1>1. x.op \in {"link", "unlink", "fail", "add", "erase", "master", "tag", "succeed"}
        /\ x.id \in Ids
    BY StepFacts
  <1>2. Occ(x.id, id) \in Nat
    BY <1>1, PlacesFacts
  <1>3. Is(x.id, id) \in Int /\ Is(m, id) \in Int /\ Is(g[x.tag], id) \in Int
    BY DEF Is
  <1> QED
    BY <1>2, <1>3 DEF Weight

LEMMA NetType ==
    ASSUME NEW s \in Seq(Steps), NEW id, NEW m, NEW g
    PROVE  /\ Weights(s, id, m, g) \in Seq(Int) /\ Len(Weights(s, id, m, g)) = Len(s)
           /\ \A i \in 1..Len(s) : Weights(s, id, m, g)[i] = Weight(s[i], id, m, g)
           /\ Net(s, id, m, g) \in Int
  <1>1. Len(s) \in Nat /\ \A i \in 1..Len(s) : s[i] \in Steps
    BY LenProperties, ElementOfSeq
  <1>2. \A i \in 1..Len(s) : Weight(s[i], id, m, g) \in Int
    BY <1>1, WeightType
  <1> DEFINE w == Weights(s, id, m, g)
             l == Len(s)
  <1>3. w = [i \in 1..l |-> Weight(s[i], id, m, g)]
    BY DEF Weights
  <1> HIDE DEF l, w
  <1>4. w \in Seq(Int) /\ Len(w) = l
    BY <1>1, <1>2, <1>3 DEF l
  <1>5. PICK f : Sums(f, w, Len(w))
    BY <1>4, TotalSums
  <1>6. Total(w) \in Int
    BY <1>4, <1>5, TotalIs
  <1> QED
    BY <1>3, <1>4, <1>6 DEF l, w, Net

LEMMA NetEmpty ==
    ASSUME NEW id, NEW m, NEW g
    PROVE  Net(<<>>, id, m, g) = 0
  <1>1. Weights(<<>>, id, m, g) = <<>>
    BY DEF Weights
  <1> QED
    BY <1>1, TotalEmpty DEF Net

\* Sums of what a list and another contain, as one sequence
LEMMA TotalJoin ==
    ASSUME NEW v \in Seq(Int), NEW w \in Seq(Int), NEW z \in Seq(Int),
           Len(z) = Len(v) + Len(w),
           \A i \in 1..Len(v) : z[i] = v[i],
           \A i \in 1..Len(w) : z[Len(v) + i] = w[i]
    PROVE  Total(z) = Total(v) + Total(w)
  <1>0. Len(v) \in Nat /\ Len(w) \in Nat
    BY LenProperties
  <1>1. /\ v \o w \in Seq(Int) /\ Len(v \o w) = Len(v) + Len(w)
        /\ \A i \in 1..(Len(v) + Len(w)) :
             (v \o w)[i] = IF i <= Len(v) THEN v[i] ELSE w[i - Len(v)]
    BY ConcatProperties
  <1>2. ASSUME NEW i \in 1..Len(z) PROVE z[i] = (v \o w)[i]
    <2>1. CASE i <= Len(v)
      <3>1. i \in 1..Len(v)
        BY <1>0, <2>1
      <3> QED
        BY <1>1, <2>1, <3>1
    <2>2. CASE ~(i <= Len(v))
      <3>1. i - Len(v) \in 1..Len(w) /\ Len(v) + (i - Len(v)) = i
        BY <1>0, <2>2
      <3>2. z[Len(v) + (i - Len(v))] = w[i - Len(v)]
        BY <3>1
      <3> QED
        BY <1>1, <2>2, <3>1, <3>2
    <2> QED
      BY <2>1, <2>2
  <1>3. z = v \o w
    BY <1>1, <1>2, SeqEqual
  <1> QED
    BY <1>3, TotalConcat

LEMMA NetConcat ==
    ASSUME NEW s \in Seq(Steps), NEW t \in Seq(Steps), NEW id, NEW m, NEW g
    PROVE  Net(s \o t, id, m, g) = Net(s, id, m, g) + Net(t, id, m, g)
  <1> DEFINE u == s \o t
             W(v) == Weights(v, id, m, g)
  <1>0. Len(s) \in Nat /\ Len(t) \in Nat
    BY LenProperties
  <1>1. /\ u \in Seq(Steps) /\ Len(u) = Len(s) + Len(t)
        /\ \A i \in 1..(Len(s) + Len(t)) : u[i] = IF i <= Len(s) THEN s[i] ELSE t[i - Len(s)]
    BY ConcatProperties
  <1> HIDE DEF u
  <1>2. /\ W(s) \in Seq(Int) /\ Len(W(s)) = Len(s)
        /\ \A i \in 1..Len(s) : W(s)[i] = Weight(s[i], id, m, g)
    BY NetType
  <1>3. /\ W(t) \in Seq(Int) /\ Len(W(t)) = Len(t)
        /\ \A i \in 1..Len(t) : W(t)[i] = Weight(t[i], id, m, g)
    BY NetType
  <1>4. /\ W(u) \in Seq(Int) /\ Len(W(u)) = Len(u)
        /\ \A i \in 1..Len(u) : W(u)[i] = Weight(u[i], id, m, g)
    BY <1>1, NetType
  <1> HIDE DEF W
  <1>5. ASSUME NEW i \in 1..Len(s) PROVE W(u)[i] = W(s)[i]
    <2>1. i \in 1..(Len(s) + Len(t)) /\ i <= Len(s)
      BY <1>0
    <2> QED
      BY <1>1, <1>2, <1>4, <2>1
  <1>6. ASSUME NEW i \in 1..Len(t) PROVE W(u)[Len(s) + i] = W(t)[i]
    <2>1. Len(s) + i \in 1..(Len(s) + Len(t)) /\ ~(Len(s) + i <= Len(s)) /\ (Len(s) + i) - Len(s) = i
      BY <1>0
    <2>2. u[Len(s) + i] = t[i]
      BY <1>1, <2>1
    <2> QED
      BY <1>1, <1>3, <1>4, <2>1, <2>2
  <1>7. Total(W(u)) = Total(W(s)) + Total(W(t))
    <2>1. Len(W(u)) = Len(W(s)) + Len(W(t))
      BY <1>1, <1>2, <1>3, <1>4
    <2>2. \A i \in 1..Len(W(s)) : W(u)[i] = W(s)[i]
      BY <1>2, <1>5
    <2>3. \A i \in 1..Len(W(t)) : W(u)[Len(W(s)) + i] = W(t)[i]
      BY <1>2, <1>3, <1>6
    <2> QED
      BY <1>2, <1>3, <1>4, <2>1, <2>2, <2>3, TotalJoin
  <1> QED
    BY <1>7 DEF u, W, Net

LEMMA NetOne ==
    ASSUME NEW x \in Steps, NEW id, NEW m, NEW g
    PROVE  Net(<<x>>, id, m, g) = Weight(x, id, m, g) /\ <<x>> \in Seq(Steps)
  <1>1. Weight(x, id, m, g) \in Int
    BY WeightType
  <1>2. Weights(<<x>>, id, m, g) = <<Weight(x, id, m, g)>>
    BY DEF Weights
  <1> QED
    BY <1>1, <1>2, TotalOne DEF Net

\* What the first step does, and the others
LEMMA NetHead ==
    ASSUME NEW s \in Seq(Steps), s # <<>>, NEW id, NEW m, NEW g
    PROVE  Net(s, id, m, g) = Weight(Head(s), id, m, g) + Net(Tail(s), id, m, g)
  <1>1. Head(s) \in Steps /\ Tail(s) \in Seq(Steps)
    BY HeadTailProperties
  <1>2. s = <<Head(s)>> \o Tail(s)
    <2>0. Len(s) \in Nat \ {0}
      BY EmptySeq
    <2>1. <<Head(s)>> \in Seq(Steps) /\ Len(<<Head(s)>>) = 1
      BY <1>1
    <2>2. /\ Len(Tail(s)) = Len(s) - 1
          /\ \A i \in 1..Len(Tail(s)) : Tail(s)[i] = s[i+1]
      BY HeadTailProperties
    <2>3. /\ <<Head(s)>> \o Tail(s) \in Seq(Steps)
          /\ Len(<<Head(s)>> \o Tail(s)) = 1 + (Len(s) - 1)
          /\ \A i \in 1..(1 + (Len(s) - 1)) : (<<Head(s)>> \o Tail(s))[i] =
                IF i <= 1 THEN <<Head(s)>>[i] ELSE Tail(s)[i - 1]
      BY <1>1, <2>1, <2>2, ConcatProperties
    <2>4. 1 + (Len(s) - 1) = Len(s)
      BY <2>0
    <2>5. ASSUME NEW i \in 1..Len(s) PROVE s[i] = (<<Head(s)>> \o Tail(s))[i]
      <3>1. CASE i = 1
        BY <2>3, <2>4, <3>1
      <3>2. CASE i # 1
        <4>1. i - 1 \in 1..Len(Tail(s)) /\ (i - 1) + 1 = i /\ ~(i <= 1)
          BY <2>0, <2>2, <3>2
        <4> QED
          BY <2>2, <2>3, <2>4, <4>1
      <3> QED
        BY <3>1, <3>2
    <2> QED
      BY <2>3, <2>4, <2>5, SeqEqual
  <1> DEFINE x == Head(s)
             h == <<x>>
             t == Tail(s)
  <1>3. h \in Seq(Steps) /\ Net(h, id, m, g) = Weight(x, id, m, g)
    BY <1>1, NetOne
  <1>4. t \in Seq(Steps) /\ s = h \o t
    BY <1>1, <1>2
  <1> HIDE DEF h, t
  <1>5. Net(h \o t, id, m, g) = Net(h, id, m, g) + Net(t, id, m, g)
    BY <1>3, <1>4, NetConcat
  <1> QED
    BY <1>3, <1>4, <1>5 DEF t

\* Steps that only link, or only give up
LEMMA NetLinks ==
    ASSUME NEW s \in Seq(Steps), \A i \in 1..Len(s) : s[i].op = "link", NEW id, NEW m, NEW g
    PROVE  /\ Net(s, id, m, g) \in Nat
           /\ Net(s, id, m, g) = Cardinality({ i \in 1..Len(s) : s[i].id = id })
  <1> DEFINE w == Weights(s, id, m, g)
             M == { i \in 1..Len(s) : s[i].id = id }
  <1>1. w \in Seq(Int) /\ Len(w) = Len(s) /\ \A i \in 1..Len(s) : w[i] = Weight(s[i], id, m, g)
    BY NetType
  <1>2. \A i \in 1..Len(s) : w[i] = IF i \in M THEN 1 ELSE 0
    BY <1>1 DEF Weight, Is
  <1>3. M \subseteq 1..Len(w)
    BY <1>1
  <1> HIDE DEF w, M
  <1>4. Cardinality(M) \in Nat /\ Total(w) = Cardinality(M)
    BY <1>1, <1>2, <1>3, TotalMarks
  <1> QED
    BY <1>4 DEF w, M, Net

LEMMA NetUnlinks ==
    ASSUME NEW s \in Seq(Steps), \A i \in 1..Len(s) : s[i].op = "unlink", NEW id, NEW m, NEW g
    PROVE  /\ Cardinality({ i \in 1..Len(s) : s[i].id = id }) \in Nat
           /\ Net(s, id, m, g) = - Cardinality({ i \in 1..Len(s) : s[i].id = id })
  <1> DEFINE w == Weights(s, id, m, g)
             M == { i \in 1..Len(s) : s[i].id = id }
             c == -1
  <1>1. w \in Seq(Int) /\ Len(w) = Len(s) /\ \A i \in 1..Len(s) : w[i] = Weight(s[i], id, m, g)
    BY NetType
  <1>2. \A i \in 1..Len(s) : w[i] = IF i \in M THEN c ELSE 0
    BY <1>1 DEF Weight, Is
  <1>3. M \subseteq 1..Len(w) /\ c \in {-1, 1} /\ c # 1
    BY <1>1
  <1> HIDE DEF w, M, c
  <1>4. Cardinality(M) \in Nat /\ Total(w) = - Cardinality(M)
    BY <1>1, <1>2, <1>3, TotalMarks
  <1> QED
    BY <1>4 DEF w, M, Net

LEMMA NetCleaning ==
    ASSUME NEW s \in Seq(Steps),
           \A i \in 1..Len(s) : s[i].op \in {"unlink", "erase", "succeed", "fail"},
           NEW id, NEW m, NEW g
    PROVE  /\ Net(s, id, m, g) <= 0
           /\ \A m2, g2 : Net(s, id, m2, g2) = Net(s, id, m, g)
  <1>1. /\ Weights(s, id, m, g) \in Seq(Int) /\ Len(Weights(s, id, m, g)) = Len(s)
        /\ \A i \in 1..Len(s) : Weights(s, id, m, g)[i] = Weight(s[i], id, m, g)
    BY NetType
  <1>2. \A i \in 1..Len(s) : Weight(s[i], id, m, g) <= 0
    BY DEF Weight, Is
  <1>3. Total(Weights(s, id, m, g)) <= 0
    BY <1>1, <1>2, TotalSign
  <1>4. ASSUME NEW m2, NEW g2 PROVE Weights(s, id, m2, g2) = Weights(s, id, m, g)
    <2>1. \A i \in 1..Len(s) : Weight(s[i], id, m2, g2) = Weight(s[i], id, m, g)
      BY DEF Weight
    <2> QED
      BY <2>1 DEF Weights
  <1> QED
    BY <1>3, <1>4 DEF Net

----------------------------------------------------------------------------
(* Lists of steps, in two parts, and without their first step.             *)

LEMMA FromFacts ==
    ASSUME NEW s \in Seq(Steps), NEW k \in 1..(Len(s)+1)
    PROVE  /\ From(s, k) \in Seq(Steps) /\ Len(From(s, k)) = Len(s) - k + 1
           /\ \A i \in 1..(Len(s) - k + 1) : From(s, k)[i] = s[k + i - 1]
  <1>1. Len(s) \in Nat /\ \A i \in 1..Len(s) : s[i] \in Steps
    BY LenProperties, ElementOfSeq
  <1>2. k \in Int /\ Len(s) \in Int /\ \A i \in k..Len(s) : s[i] \in Steps
    BY <1>1
  <1>3. /\ SubSeq(s, k, Len(s)) \in Seq(Steps)
        /\ Len(SubSeq(s, k, Len(s))) = IF k <= Len(s) THEN Len(s) - k + 1 ELSE 0
        /\ \A i \in 1..(Len(s) - k + 1) : SubSeq(s, k, Len(s))[i] = s[k + i - 1]
    BY <1>2, SubSeqProperties
  <1>4. (IF k <= Len(s) THEN Len(s) - k + 1 ELSE 0) = Len(s) - k + 1
    BY <1>1
  <1> QED
    BY <1>3, <1>4 DEF From

LEMMA FromFirst ==
    ASSUME NEW s \in Seq(Steps)
    PROVE  From(s, 1) = s
  BY SubSeqFull DEF From

LEMMA TailFacts ==
    ASSUME NEW s \in Seq(Steps), s # <<>>
    PROVE  /\ Head(s) \in Steps /\ Head(s) = s[1] /\ Tail(s) \in Seq(Steps)
           /\ Len(s) \in Nat \ {0} /\ Len(Tail(s)) = Len(s) - 1
           /\ DOMAIN s = 1..Len(s) /\ DOMAIN Tail(s) = 1..(Len(s) - 1)
           /\ \A i \in 1..(Len(s) - 1) : Tail(s)[i] = s[i+1]
           /\ \A i \in 2..Len(s) : s[i] = Tail(s)[i-1]
           /\ \A k \in 1..Len(s) : From(Tail(s), k) = From(s, k + 1)
  <1>1. /\ Head(s) \in Steps /\ Tail(s) \in Seq(Steps) /\ Len(Tail(s)) = Len(s) - 1
        /\ \A i \in 1..Len(Tail(s)) : Tail(s)[i] = s[i+1]
    BY HeadTailProperties
  <1>2. Len(s) \in Nat \ {0} /\ DOMAIN s = 1..Len(s) /\ Head(s) = s[1]
    BY EmptySeq, LenProperties
  <1> DEFINE t == Tail(s)
             l == Len(s)
  <1>3. DOMAIN t = 1..Len(t)
    BY <1>1, LenProperties
  <1> HIDE DEF t, l
  <1>4. DOMAIN t = 1..(l - 1) /\ \A i \in 1..(l - 1) : t[i] = s[i+1]
    BY <1>1, <1>3 DEF t, l
  <1>5. ASSUME NEW i \in 2..l PROVE s[i] = t[i-1]
    <2>1. i - 1 \in 1..(l - 1) /\ (i - 1) + 1 = i
      BY <1>2 DEF l
    <2> QED
      BY <1>4, <2>1
  <1>6. ASSUME NEW k \in 1..l PROVE From(t, k) = From(s, k + 1)
    <2>0. l \in Nat /\ Len(t) = l - 1 /\ t \in Seq(Steps)
      BY <1>1, <1>2 DEF t, l
    <2>1. k \in 1..(Len(t) + 1) /\ k + 1 \in 1..(Len(s) + 1)
      BY <2>0 DEF l
    <2>2. /\ From(t, k) \in Seq(Steps) /\ Len(From(t, k)) = Len(t) - k + 1
          /\ \A i \in 1..(Len(t) - k + 1) : From(t, k)[i] = t[k + i - 1]
      BY <2>0, <2>1, FromFacts
    <2>3. /\ From(s, k + 1) \in Seq(Steps) /\ Len(From(s, k + 1)) = Len(s) - (k + 1) + 1
          /\ \A i \in 1..(Len(s) - (k + 1) + 1) : From(s, k + 1)[i] = s[(k + 1) + i - 1]
      BY <2>1, FromFacts
    <2>4. Len(t) - k + 1 = l - k /\ Len(s) - (k + 1) + 1 = l - k
      BY <2>0 DEF l
    <2>5. ASSUME NEW i \in 1..(l - k) PROVE From(t, k)[i] = From(s, k + 1)[i]
      <3>1. k + i - 1 \in 1..(l - 1) /\ (k + i - 1) + 1 = (k + 1) + i - 1
        BY <2>0
      <3> QED
        BY <1>4, <2>2, <2>3, <2>4, <3>1
    <2> QED
      BY <2>2, <2>3, <2>4, <2>5, SeqEqual
  <1> QED
    BY <1>1, <1>2, <1>4, <1>5, <1>6 DEF t, l

\* s is a and then b.
Joined(s, a, b) ==
    /\ s \in Seq(Steps) /\ Len(s) = Len(a) + Len(b) /\ DOMAIN s = 1..(Len(a) + Len(b))
    /\ Len(a) \in Nat /\ Len(b) \in Nat
    /\ DOMAIN a = 1..Len(a) /\ DOMAIN b = 1..Len(b)
    /\ \A i \in 1..Len(a) : s[i] = a[i]
    /\ \A i \in 1..Len(b) : s[Len(a) + i] = b[i]
    /\ \A k \in 1..(Len(b)+1) : From(s, Len(a) + k) = From(b, k)
    /\ \A k \in 1..Len(a) : From(s, k) = From(a, k) \o b

LEMMA JoinFacts ==
    ASSUME NEW a \in Seq(Steps), NEW b \in Seq(Steps), NEW s, s = a \o b
    PROVE  Joined(s, a, b)
  <1> DEFINE l == Len(a)
             m == Len(b)
  <1>0. l \in Nat /\ m \in Nat /\ DOMAIN a = 1..l /\ DOMAIN b = 1..m
    BY LenProperties
  <1>1. /\ s \in Seq(Steps) /\ Len(s) = l + m
        /\ \A i \in 1..(l + m) : s[i] = IF i <= l THEN a[i] ELSE b[i - l]
    BY ConcatProperties
  <1>2. DOMAIN s = 1..(l + m)
    BY <1>1, LenProperties
  <1> HIDE DEF l, m
  <1>3. ASSUME NEW i \in 1..l PROVE s[i] = a[i]
    BY <1>0, <1>1
  <1>4. ASSUME NEW i \in 1..m PROVE s[l + i] = b[i]
    <2>1. l + i \in 1..(l + m) /\ ~(l + i <= l) /\ (l + i) - l = i
      BY <1>0
    <2> QED
      BY <1>1, <2>1
  <1>5. ASSUME NEW k \in 1..(m+1) PROVE From(s, l + k) = From(b, k)
    <2>1. l + k \in 1..(Len(s) + 1) /\ Len(s) - (l + k) + 1 = m - k + 1
      BY <1>0, <1>1
    <2>2. /\ From(s, l + k) \in Seq(Steps) /\ Len(From(s, l + k)) = m - k + 1
          /\ \A i \in 1..(m - k + 1) : From(s, l + k)[i] = s[(l + k) + i - 1]
      BY <1>1, <2>1, FromFacts
    <2>3. /\ From(b, k) \in Seq(Steps) /\ Len(From(b, k)) = m - k + 1
          /\ \A i \in 1..(m - k + 1) : From(b, k)[i] = b[k + i - 1]
      BY FromFacts DEF m
    <2>4. ASSUME NEW i \in 1..(m - k + 1) PROVE From(s, l + k)[i] = From(b, k)[i]
      <3>1. k + i - 1 \in 1..m /\ l + (k + i - 1) = (l + k) + i - 1
        BY <1>0
      <3>2. s[l + (k + i - 1)] = b[k + i - 1]
        BY <1>4, <3>1
      <3> QED
        BY <2>2, <2>3, <3>1, <3>2
    <2> QED
      BY <2>2, <2>3, <2>4, SeqEqual
  <1>6. ASSUME NEW k \in 1..l PROVE From(s, k) = From(a, k) \o b
    <2>1. k \in 1..(Len(s) + 1) /\ k \in 1..(Len(a) + 1)
      BY <1>0, <1>1 DEF l
    <2>2. /\ From(s, k) \in Seq(Steps) /\ Len(From(s, k)) = (l + m) - k + 1
          /\ \A i \in 1..((l + m) - k + 1) : From(s, k)[i] = s[k + i - 1]
      BY <1>1, <2>1, FromFacts
    <2> DEFINE f == From(a, k)
    <2>3. /\ f \in Seq(Steps) /\ Len(f) = l - k + 1
          /\ \A i \in 1..(l - k + 1) : f[i] = a[k + i - 1]
      BY <2>1, FromFacts DEF l
    <2> HIDE DEF f
    <2>4. /\ f \o b \in Seq(Steps) /\ Len(f \o b) = Len(f) + Len(b)
          /\ \A i \in 1..(Len(f) + Len(b)) : (f \o b)[i] = IF i <= Len(f) THEN f[i] ELSE b[i - Len(f)]
      BY <2>3, ConcatProperties
    <2>5. Len(f) + Len(b) = (l + m) - k + 1
      BY <1>0, <2>3 DEF m
    <2>6. ASSUME NEW i \in 1..((l + m) - k + 1) PROVE From(s, k)[i] = (f \o b)[i]
      <3>1. From(s, k)[i] = s[k + i - 1] /\ k + i - 1 \in 1..(l + m)
        BY <1>0, <2>2
      <3>2. CASE i <= Len(f)
        <4>1. k + i - 1 \in 1..l /\ i \in 1..(l - k + 1)
          BY <1>0, <2>3, <3>2
        <4> QED
          BY <1>3, <2>3, <2>4, <2>5, <3>1, <3>2, <4>1
      <3>3. CASE ~(i <= Len(f))
        <4>1. ~(k + i - 1 <= l) /\ (k + i - 1) - l = i - Len(f)
          BY <1>0, <2>3, <3>3
        <4> QED
          BY <1>1, <2>4, <2>5, <3>1, <3>3, <4>1
      <3> QED
        BY <3>2, <3>3
    <2>7. From(s, k) = f \o b
      BY <2>2, <2>4, <2>5, <2>6, SeqEqual
    <2> QED
      BY <2>7 DEF f
  <1> QED
    BY <1>0, <1>1, <1>2, <1>3, <1>4, <1>5, <1>6 DEF l, m, Joined

----------------------------------------------------------------------------
(* Stages of an operation.                                                 *)

LEMMA Stages ==
    ASSUME NEW s \in Seq(Steps)
    PROVE  /\ Cleaning(<<>>)
           /\ Failing(s) => ~Cleaning(s)
           /\ \A r, D, m, g : Sound(s, r, D, m, g) => ~Failing(s) /\ ~Cleaning(s)
  <1>1. Cleaning(<<>>)
    BY DEF Cleaning
  <1>2. Len(s) \in Nat /\ DOMAIN s = 1..Len(s) /\ (s # <<>> => Len(s) \in DOMAIN s)
    BY LenProperties, EmptySeq
  <1>3. Failing(s) => ~Cleaning(s)
    BY <1>2 DEF Failing, Cleaning
  <1>4. ASSUME NEW r, NEW D, NEW m, NEW g, Sound(s, r, D, m, g)
        PROVE  ~Failing(s) /\ ~Cleaning(s)
    <2>1. r \in DOMAIN s /\ s[r].op \in {"master", "tag"}
      BY <1>4 DEF Sound, Writing
    <2>2. ~Failing(s)
      BY <2>1 DEF Failing
    <2>3. ~Cleaning(s)
      BY <2>1 DEF Cleaning
    <2> QED
      BY <2>2, <2>3
  <1> QED
    BY <1>1, <1>3, <1>4

LEMMA CleaningTail ==
    ASSUME NEW s \in Seq(Steps), s # <<>>, Cleaning(s)
    PROVE  Cleaning(Tail(s))
  <1> DEFINE l == Len(s)
             t == Tail(s)
  <1>1. /\ l \in Nat \ {0} /\ DOMAIN s = 1..l /\ DOMAIN t = 1..(l-1) /\ Len(t) = l - 1
        /\ \A i \in 1..(l-1) : t[i] = s[i+1]
    BY TailFacts
  <1>2. /\ \A i \in 1..l : s[i].op \in {"unlink", "erase", "succeed"}
        /\ \A i \in 1..l : s[i].op = "succeed" => i = l
    BY <1>1 DEF Cleaning
  <1> HIDE DEF l, t
  <1>3. ASSUME NEW i \in 1..(l-1)
        PROVE  /\ t[i].op \in {"unlink", "erase", "succeed"}
               /\ t[i].op = "succeed" => i = l - 1
    <2>1. i + 1 \in 1..l
      BY <1>1
    <2> QED
      BY <1>1, <1>2, <2>1
  <1> QED
    BY <1>1, <1>3 DEF Cleaning, t

LEMMA HopelessTail ==
    ASSUME NEW s \in Seq(Steps), s # <<>>, NEW D, NEW D2, D \subseteq D2, Hopeless(s, D),
           Head(s).op # "fail"
    PROVE  Hopeless(Tail(s), D2)
  <1> DEFINE l == Len(s)
             t == Tail(s)
  <1>1. /\ l \in Nat \ {0} /\ DOMAIN s = 1..l /\ DOMAIN t = 1..(l-1) /\ Len(t) = l - 1
        /\ Head(s) = s[1] /\ t \in Seq(Steps)
        /\ \A i \in 1..(l-1) : t[i] = s[i+1]
    BY TailFacts
  <1>2. /\ s[l].op = "fail"
        /\ \A i \in 1..l : i # l => s[i].op \in {"add", "link"}
        /\ \A i \in 1..l : s[i].op = "add" => Content(s[i].id) = <<>>
        /\ \A i \in 1..l : s[i].op = "link" => s[i].id \in D \cup {Nil, Missing}
    BY <1>1 DEF Hopeless, Failing
  <1> HIDE DEF l, t
  <1>3. l # 1 /\ l - 1 \in 1..(l-1) /\ (l - 1) + 1 = l
    BY <1>1, <1>2
  <1>4. t # <<>>
    BY <1>1, <1>3, EmptySeq
  <1>5. t[l-1].op = "fail"
    BY <1>1, <1>2, <1>3
  <1>6. ASSUME NEW i \in 1..(l-1)
        PROVE  /\ i # l - 1 => t[i].op \in {"add", "link"}
               /\ t[i].op = "add" => Content(t[i].id) = <<>>
               /\ t[i].op = "link" => t[i].id \in D2 \cup {Nil, Missing}
    <2>1. i + 1 \in 1..l /\ (i + 1 = l <=> i = l - 1) /\ t[i] = s[i+1]
      BY <1>1
    <2> HIDE DEF Nil, Missing
    <2> QED
      BY <1>2, <2>1
  <1> QED
    BY <1>1, <1>4, <1>5, <1>6 DEF Hopeless, Failing, t

\* When the reference is written, only what is given up remains.
LEMMA WrittenTail ==
    ASSUME NEW s \in Seq(Steps), Writing(s, 1)
    PROVE  /\ s # <<>> /\ Cleaning(Tail(s))
           /\ Head(s).op = "tag" => \A i \in DOMAIN Tail(s) : Tail(s)[i].op # "succeed"
           /\ Head(s).op = "master" =>
                 /\ Len(Tail(s)) \in DOMAIN Tail(s)
                 /\ Tail(s)[Len(Tail(s))].op = "succeed"
                 /\ Tail(s)[Len(Tail(s))].id = Head(s).id
  <1> DEFINE l == Len(s)
             t == Tail(s)
  <1>0. s # <<>>
    BY DEF Writing
  <1>1. /\ l \in Nat \ {0} /\ DOMAIN s = 1..l /\ DOMAIN t = 1..(l-1) /\ Len(t) = l - 1
        /\ Head(s) = s[1]
        /\ \A i \in 1..(l-1) : t[i] = s[i+1]
    BY <1>0, TailFacts
  <1>2. /\ \A i \in 1..l : i > 1 => s[i].op \in {"unlink", "succeed"}
        /\ \A i \in 1..l : s[i].op = "succeed" => i = l
        /\ \/ s[1].op = "master" /\ 1 # l /\ s[l].op = "succeed" /\ s[l].id = s[1].id
           \/ s[1].op = "tag" /\ \A i \in 1..l : s[i].op # "succeed"
    BY <1>1 DEF Writing
  <1> HIDE DEF l, t
  <1>3. ASSUME NEW i \in 1..(l-1)
        PROVE  /\ t[i].op \in {"unlink", "erase", "succeed"}
               /\ t[i].op = "succeed" => i = l - 1
               /\ s[1].op = "tag" => t[i].op # "succeed"
    <2>1. i + 1 \in 1..l /\ i + 1 > 1 /\ t[i] = s[i+1]
      BY <1>1
    <2> QED
      BY <1>2, <2>1
  <1>4. ASSUME s[1].op = "master"
        PROVE  l - 1 \in 1..(l-1) /\ t[l-1].op = "succeed" /\ t[l-1].id = s[1].id
    <2>1. l - 1 \in 1..(l-1) /\ (l-1) + 1 = l
      BY <1>1, <1>2, <1>4
    <2> QED
      BY <1>1, <1>2, <1>4, <2>1
  <1> QED
    BY <1>0, <1>1, <1>3, <1>4 DEF Cleaning, t

LEMMA SoundTail ==
    ASSUME NEW s \in Seq(Steps), NEW r, NEW D, NEW m, NEW g, Sound(s, r, D, m, g), r # 1,
           NEW D2, D \subseteq D2
    PROVE  /\ s # <<>> /\ r - 1 \in DOMAIN Tail(s) /\ Sound(Tail(s), r - 1, D2, m, g)
           /\ Head(s).op \in {"add", "link", "unlink"}
  <1> DEFINE l == Len(s)
             t == Tail(s)
  <1>0. s # <<>>
    BY DEF Sound, Writing
  <1>1. /\ l \in Nat \ {0} /\ DOMAIN s = 1..l /\ DOMAIN t = 1..(l-1) /\ Len(t) = l - 1
        /\ Head(s) = s[1] /\ t \in Seq(Steps)
        /\ \A i \in 1..(l-1) : t[i] = s[i+1]
        /\ \A k \in 1..l : From(t, k) = From(s, k + 1)
    BY <1>0, TailFacts
  <1>2. /\ r \in 1..l
        /\ \A i \in 1..l : i < r => s[i].op \in {"add", "link", "unlink"}
        /\ \A i \in 1..l : i > r => s[i].op \in {"unlink", "succeed"}
        /\ \A i \in 1..l : s[i].op = "succeed" => i = l
        /\ \/ s[r].op = "master" /\ r # l /\ s[l].op = "succeed" /\ s[l].id = s[r].id
           \/ s[r].op = "tag" /\ \A i \in 1..l : s[i].op # "succeed"
    BY <1>1 DEF Sound, Writing
  <1>3. /\ \A k \in 1..r : \A id \in Objects : Net(From(s, k), id, m, g) <= 0
        /\ \A k \in 1..(r-1) : s[k].op = "add" => Net(From(s, k + 1), s[k].id, m, g) <= -1
    BY DEF Sound, Covered
  <1>4. /\ \A i \in 1..(r-1) : s[i].op = "link" => s[i].id \in D \cup {Nil, Missing}
        /\ \A i \in 1..(r-1) : s[i].op = "unlink" =>
             \E j \in (i+1)..(r-1) :
               s[j].op = "link" /\ s[j].id \in D /\ s[i].id \in ToSet(Content(s[j].id))
    BY DEF Sound, Linkable
  <1> HIDE DEF l, t, Nil, Missing
  <1>5. r - 1 \in 1..(l-1) /\ r \in Nat /\ 1 < r /\ t[r-1] = s[r] /\ s[1].op \in {"add", "link", "unlink"}
    <2>1. r - 1 \in 1..(l-1) /\ r \in Nat /\ 1 < r /\ (r-1) + 1 = r /\ 1 \in 1..l
      BY <1>1, <1>2
    <2> QED
      BY <1>1, <1>2, <2>1
  <1>6. Writing(t, r - 1)
    <2>1. ASSUME NEW i \in 1..(l-1)
          PROVE  /\ i < r - 1 => t[i].op \in {"add", "link", "unlink"}
                 /\ i > r - 1 => t[i].op \in {"unlink", "succeed"}
                 /\ t[i].op = "succeed" => i = l - 1
                 /\ s[r].op = "tag" => t[i].op # "succeed"
      <3>1. /\ i + 1 \in 1..l /\ t[i] = s[i+1]
            /\ (i < r - 1 <=> i + 1 < r) /\ (i > r - 1 <=> i + 1 > r)
            /\ (i + 1 = l <=> i = l - 1)
        BY <1>1, <1>2, <1>5
      <3> QED
        BY <1>2, <3>1
    <2>2. ASSUME s[r].op = "master"
          PROVE  r - 1 # l - 1 /\ t[l-1].op = "succeed" /\ t[l-1].id = t[r-1].id
      <3>1. l - 1 \in 1..(l-1) /\ (l-1) + 1 = l /\ r - 1 # l - 1
        BY <1>1, <1>2, <1>5, <2>2
      <3>2. t[l-1] = s[l]
        BY <1>1, <3>1
      <3> QED
        BY <1>2, <1>5, <2>2, <3>1, <3>2
    <2> QED
      BY <1>1, <1>2, <1>5, <2>1, <2>2 DEF Writing
  <1>7. Covered(t, r - 1, m, g)
    <2>1. ASSUME NEW k \in 1..(r-1), NEW id \in Objects PROVE Net(From(t, k), id, m, g) <= 0
      <3>1. k + 1 \in 1..r /\ k \in 1..l
        BY <1>1, <1>2, <1>5
      <3> QED
        BY <1>1, <1>3, <3>1
    <2>2. ASSUME NEW k \in 1..((r-1)-1), t[k].op = "add"
          PROVE  Net(From(t, k + 1), t[k].id, m, g) <= -1
      <3>1. k + 1 \in 1..(r-1) /\ k + 1 \in 1..l /\ k \in 1..(l-1)
        BY <1>1, <1>2, <1>5
      <3>2. t[k] = s[k+1] /\ From(t, k + 1) = From(s, (k + 1) + 1)
        BY <1>1, <3>1
      <3> QED
        BY <1>3, <2>2, <3>1, <3>2
    <2> QED
      BY <2>1, <2>2 DEF Covered
  <1>8. Linkable(t, r - 1, D2)
    <2>1. ASSUME NEW i \in 1..((r-1)-1), t[i].op = "link" PROVE t[i].id \in D2 \cup {Nil, Missing}
      <3>1. i + 1 \in 1..(r-1) /\ t[i] = s[i+1]
        BY <1>1, <1>2, <1>5
      <3> QED
        BY <1>4, <2>1, <3>1
    <2>2. ASSUME NEW i \in 1..((r-1)-1), t[i].op = "unlink"
          PROVE  \E j \in (i+1)..((r-1)-1) :
                   t[j].op = "link" /\ t[j].id \in D2 /\ t[i].id \in ToSet(Content(t[j].id))
      <3>1. i + 1 \in 1..(r-1) /\ t[i] = s[i+1]
        BY <1>1, <1>2, <1>5
      <3>2. PICK j \in ((i+1)+1)..(r-1) :
              s[j].op = "link" /\ s[j].id \in D /\ s[i+1].id \in ToSet(Content(s[j].id))
        BY <1>4, <2>2, <3>1
      <3>3. j - 1 \in (i+1)..((r-1)-1) /\ j - 1 \in 1..(l-1) /\ (j - 1) + 1 = j
        BY <1>1, <1>2, <1>5
      <3>4. t[j-1] = s[j]
        BY <1>1, <3>3
      <3> QED
        BY <3>1, <3>2, <3>3, <3>4
    <2> QED
      BY <2>1, <2>2 DEF Linkable
  <1> QED
    BY <1>0, <1>1, <1>5, <1>6, <1>7, <1>8 DEF Sound, t

\* Giving up never raises a counter, whatever the references are.
LEMMA CleaningNet ==
    ASSUME NEW s \in Seq(Steps), Cleaning(s), NEW id, NEW m, NEW g
    PROVE  /\ Net(s, id, m, g) <= 0
           /\ \A m2, g2 : Net(s, id, m2, g2) = Net(s, id, m, g)
  <1>1. \A i \in 1..Len(s) : s[i].op \in {"unlink", "erase", "succeed", "fail"}
    BY DEF Cleaning
  <1> QED
    BY <1>1, NetCleaning

\* Steps a before a list of steps s that writes a reference
LEMMA SoundJoin ==
    ASSUME NEW a \in Seq(Steps), NEW s \in Seq(Steps), NEW r, NEW D, NEW m, NEW g,
           Sound(s, r, D, m, g),
           \A i \in 1..Len(a) : a[i].op \in {"add", "link", "unlink"},
           \A k \in 1..Len(a) : \A id \in Objects : Net(From(a, k) \o s, id, m, g) <= 0,
           \A k \in 1..Len(a) : a[k].op = "add" => Net(From(a, k + 1) \o s, a[k].id, m, g) <= -1,
           \A i \in 1..Len(a) : a[i].op = "link" => a[i].id \in D \cup {Nil, Missing},
           \A i \in 1..Len(a) : a[i].op = "unlink" =>
              \E j \in 1..(r-1) :
                s[j].op = "link" /\ s[j].id \in D /\ a[i].id \in ToSet(Content(s[j].id))
    PROVE  Sound(a \o s, Len(a) + r, D, m, g) /\ Len(a) + r \in DOMAIN (a \o s)
  <1> DEFINE t == a \o s
             n == Len(a)
             l == Len(s)
             q == n + r
  <1>t. t = a \o s
    OBVIOUS
  <1> HIDE DEF t
  <1>1. /\ t \in Seq(Steps) /\ Len(t) = n + l /\ DOMAIN t = 1..(n + l)
        /\ n \in Nat /\ l \in Nat /\ DOMAIN s = 1..l
        /\ \A i \in 1..n : t[i] = a[i]
        /\ \A i \in 1..l : t[n + i] = s[i]
        /\ \A k \in 1..(l+1) : From(t, n + k) = From(s, k)
        /\ \A k \in 1..n : From(t, k) = From(a, k) \o s
    <2>1. Joined(t, a, s)
      BY <1>t, JoinFacts
    <2> QED
      BY <2>1 DEF Joined
  <1>2. /\ r \in 1..l
        /\ \A i \in 1..l : i < r => s[i].op \in {"add", "link", "unlink"}
        /\ \A i \in 1..l : i > r => s[i].op \in {"unlink", "succeed"}
        /\ \A i \in 1..l : s[i].op = "succeed" => i = l
        /\ \/ s[r].op = "master" /\ r # l /\ s[l].op = "succeed" /\ s[l].id = s[r].id
           \/ s[r].op = "tag" /\ \A i \in 1..l : s[i].op # "succeed"
    BY <1>1 DEF Sound, Writing
  <1>3. /\ \A k \in 1..r : \A id \in Objects : Net(From(s, k), id, m, g) <= 0
        /\ \A k \in 1..(r-1) : s[k].op = "add" => Net(From(s, k + 1), s[k].id, m, g) <= -1
    BY DEF Sound, Covered
  <1>4. /\ \A i \in 1..(r-1) : s[i].op = "link" => s[i].id \in D \cup {Nil, Missing}
        /\ \A i \in 1..(r-1) : s[i].op = "unlink" =>
             \E j \in (i+1)..(r-1) :
               s[j].op = "link" /\ s[j].id \in D /\ s[i].id \in ToSet(Content(s[j].id))
    BY DEF Sound, Linkable
  <1>f. From(t, n + 1) = s
    <2>1. From(t, n + 1) = From(s, 1)
      BY <1>1
    <2> QED
      BY <2>1, FromFirst
  <1>a. \A k \in 1..n : \A id \in Objects : Net(From(t, k), id, m, g) <= 0
    BY <1>1
  <1>b. \A k \in 1..n : a[k].op = "add" => Net(From(t, k + 1), a[k].id, m, g) <= -1
    <2> SUFFICES ASSUME NEW k \in 1..n, a[k].op = "add"
                 PROVE  Net(From(t, k + 1), a[k].id, m, g) <= -1
      OBVIOUS
    <2>1. Net(From(a, k + 1) \o s, a[k].id, m, g) <= -1
      OBVIOUS
    <2>2. CASE k < n
      <3>1. k + 1 \in 1..n
        BY <1>1, <2>2
      <3>2. From(t, k + 1) = From(a, k + 1) \o s
        BY <1>1, <3>1
      <3> QED
        BY <2>1, <3>2
    <2>3. CASE k = n
      <3>1. n + 1 \in 1..(Len(a) + 1) /\ Len(a) - (n + 1) + 1 = 0
        BY <1>1
      <3>2. From(a, n + 1) \in Seq(Steps) /\ Len(From(a, n + 1)) = 0
        BY <3>1, FromFacts
      <3>3. From(a, n + 1) = <<>>
        BY <3>2, EmptySeq
      <3>4. <<>> \o s = s
        BY ConcatEmptySeq
      <3> QED
        BY <1>f, <2>1, <2>3, <3>3, <3>4
    <2> QED
      BY <1>1, <2>2, <2>3
  <1> HIDE DEF t, n, l, Nil, Missing
  <1>0. r \in Nat /\ q \in 1..(n + l) /\ t[q] = s[r] /\ q - n = r
    BY <1>1, <1>2
  <1>5. \A i \in 1..(n + l) : i <= n \/ (i - n \in 1..l /\ n + (i - n) = i /\ t[i] = s[i - n])
    <2> SUFFICES ASSUME NEW i \in 1..(n + l), ~(i <= n)
                 PROVE  i - n \in 1..l /\ n + (i - n) = i /\ t[i] = s[i - n]
      OBVIOUS
    <2>1. i - n \in 1..l /\ n + (i - n) = i
      BY <1>1
    <2>2. t[n + (i - n)] = s[i - n]
      BY <1>1, <2>1
    <2> QED
      BY <2>1, <2>2
  <1>6. Writing(t, q)
    <2>1. ASSUME NEW i \in 1..(n + l)
          PROVE  /\ i < q => t[i].op \in {"add", "link", "unlink"}
                 /\ i > q => t[i].op \in {"unlink", "succeed"}
                 /\ t[i].op = "succeed" => i = n + l
                 /\ s[r].op = "tag" => t[i].op # "succeed"
      <3>1. CASE i <= n
        <4>1. i \in 1..n /\ t[i] = a[i] /\ ~(i > q)
          BY <1>0, <1>1, <1>2, <3>1
        <4>2. t[i].op \in {"add", "link", "unlink"}
          BY <4>1 DEF n
        <4> QED
          BY <4>1, <4>2
      <3>2. CASE ~(i <= n)
        <4>1. /\ i - n \in 1..l /\ t[i] = s[i - n]
              /\ (i < q <=> i - n < r) /\ (i > q <=> i - n > r) /\ (i - n = l => i = n + l)
          BY <1>0, <1>1, <1>5, <3>2
        <4> QED
          BY <1>2, <4>1
      <3> QED
        BY <3>1, <3>2
    <2>2. ASSUME s[r].op = "master"
          PROVE  q # n + l /\ t[n + l].op = "succeed" /\ t[n + l].id = t[q].id
      <3>1. l \in 1..l /\ q # n + l
        BY <1>0, <1>1, <1>2, <2>2
      <3>2. t[n + l] = s[l]
        BY <1>1, <3>1
      <3> QED
        BY <1>0, <1>2, <2>2, <3>1, <3>2
    <2> QED
      BY <1>0, <1>1, <1>2, <2>1, <2>2 DEF Writing
  <1>7. Covered(t, q, m, g)
    <2>1. ASSUME NEW k \in 1..q, NEW id \in Objects PROVE Net(From(t, k), id, m, g) <= 0
      <3>1. CASE k <= n
        <4>1. k \in 1..n
          BY <1>1, <3>1
        <4> QED
          BY <1>a, <4>1
      <3>2. CASE ~(k <= n)
        <4>1. k - n \in 1..r /\ k - n \in 1..(l+1) /\ n + (k - n) = k
          BY <1>0, <1>1, <1>2, <3>2
        <4>2. From(t, n + (k - n)) = From(s, k - n)
          BY <1>1, <4>1
        <4> QED
          BY <1>3, <4>1, <4>2
      <3> QED
        BY <3>1, <3>2
    <2>2. ASSUME NEW k \in 1..(q-1), t[k].op = "add"
          PROVE  Net(From(t, k + 1), t[k].id, m, g) <= -1
      <3>1. CASE k <= n
        <4>1. k \in 1..n /\ t[k] = a[k]
          BY <1>1, <3>1
        <4> QED
          BY <1>b, <2>2, <4>1
      <3>2. CASE ~(k <= n)
        <4>1. /\ k - n \in 1..(r-1) /\ (k - n) + 1 \in 1..(l+1) /\ n + ((k - n) + 1) = k + 1
              /\ k \in 1..(n + l)
          BY <1>0, <1>1, <1>2, <3>2
        <4>2. From(t, n + ((k - n) + 1)) = From(s, (k - n) + 1) /\ t[k] = s[k - n]
          BY <1>1, <1>5, <3>2, <4>1
        <4> QED
          BY <1>3, <2>2, <4>1, <4>2
      <3> QED
        BY <3>1, <3>2
    <2> QED
      BY <2>1, <2>2 DEF Covered
  <1>8. Linkable(t, q, D)
    <2>1. ASSUME NEW i \in 1..(q-1), t[i].op = "link" PROVE t[i].id \in D \cup {Nil, Missing}
      <3>1. CASE i <= n
        <4>1. i \in 1..n /\ t[i] = a[i]
          BY <1>1, <3>1
        <4> QED
          BY <2>1, <4>1 DEF n
      <3>2. CASE ~(i <= n)
        <4>1. i - n \in 1..(r-1) /\ i \in 1..(n + l) /\ t[i] = s[i - n]
          BY <1>0, <1>1, <1>2, <1>5, <3>2
        <4> QED
          BY <1>4, <2>1, <4>1
      <3> QED
        BY <3>1, <3>2
    <2>2. ASSUME NEW i \in 1..(q-1), t[i].op = "unlink"
          PROVE  \E j \in (i+1)..(q-1) :
                   t[j].op = "link" /\ t[j].id \in D /\ t[i].id \in ToSet(Content(t[j].id))
      <3>1. CASE i <= n
        <4>1. i \in 1..n /\ t[i] = a[i]
          BY <1>1, <3>1
        <4>2. PICK j \in 1..(r-1) :
                s[j].op = "link" /\ s[j].id \in D /\ a[i].id \in ToSet(Content(s[j].id))
          BY <2>2, <4>1 DEF n
        <4>3. n + j \in (i+1)..(q-1) /\ j \in 1..l
          BY <1>0, <1>1, <1>2, <4>1
        <4>4. t[n + j] = s[j]
          BY <1>1, <4>3
        <4> QED
          BY <4>1, <4>2, <4>3, <4>4
      <3>2. CASE ~(i <= n)
        <4>1. i - n \in 1..(r-1) /\ i \in 1..(n + l) /\ t[i] = s[i - n]
          BY <1>0, <1>1, <1>2, <1>5, <3>2
        <4>2. PICK j \in ((i - n)+1)..(r-1) :
                s[j].op = "link" /\ s[j].id \in D /\ s[i - n].id \in ToSet(Content(s[j].id))
          BY <1>4, <2>2, <4>1
        <4>3. n + j \in (i+1)..(q-1) /\ j \in 1..l
          BY <1>0, <1>1, <1>2, <4>1
        <4>4. t[n + j] = s[j]
          BY <1>1, <4>3
        <4> QED
          BY <4>1, <4>2, <4>3, <4>4
      <3> QED
        BY <3>1, <3>2
    <2> QED
      BY <2>1, <2>2 DEF Linkable
  <1> QED
    BY <1>0, <1>1, <1>6, <1>7, <1>8 DEF Sound, t, n

LEMMA DoFacts ==
    ASSUME NEW op, NEW id, [op |-> op, id |-> id] \in Steps
    PROVE  /\ Do(op, id) \in Seq(Steps) /\ Len(Do(op, id)) = 1 /\ Do(op, id) # <<>>
           /\ Do(op, id)[1].op = op /\ Do(op, id)[1].id = id
           /\ \A i, m, g : Net(Do(op, id), i, m, g) = Weight([op |-> op, id |-> id], i, m, g)
  <1> DEFINE e == [op |-> op, id |-> id]
  <1>1. e \in Steps /\ e.op = op /\ e.id = id
    OBVIOUS
  <1>2. Do(op, id) = <<e>>
    BY DEF Do
  <1> HIDE DEF e
  <1>3. <<e>> \in Seq(Steps) /\ Len(<<e>>) = 1 /\ <<e>>[1] = e /\ <<e>> # <<>>
    BY <1>1
  <1>4. \A i, m, g : Net(<<e>>, i, m, g) = Weight(e, i, m, g)
    BY <1>1, NetOne
  <1> QED
    BY <1>1, <1>2, <1>3, <1>4 DEF e

\* An object is added whose mentions follow.
LEMMA SoundAdd ==
    ASSUME NEW x \in Objects, NEW s \in Seq(Steps), NEW r, NEW D, NEW m, NEW g,
           Sound(s, r, D, m, g),
           \A id \in Objects : Net(Do("add", x) \o s, id, m, g) <= 0, Net(s, x, m, g) <= -1
    PROVE  Sound(Do("add", x) \o s, 1 + r, D, m, g) /\ 1 + r \in DOMAIN (Do("add", x) \o s)
  <1> DEFINE a == Do("add", x)
  <1>1. a \in Seq(Steps) /\ Len(a) = 1 /\ a[1].op = "add" /\ a[1].id = x
    BY StepIs, DoFacts
  <1>2. From(a, 1) = a
    BY <1>1, FromFirst
  <1>3. From(a, 1 + 1) = <<>>
    <2>1. 1 + 1 \in 1..(Len(a) + 1) /\ Len(a) - (1 + 1) + 1 = 0
      BY <1>1
    <2>2. From(a, 1 + 1) \in Seq(Steps) /\ Len(From(a, 1 + 1)) = 0
      BY <1>1, <2>1, FromFacts
    <2> QED
      BY <2>2, EmptySeq
  <1>4. <<>> \o s = s
    BY ConcatEmptySeq
  <1> HIDE DEF a, Nil, Missing
  <1>5. 1..Len(a) = {1}
    BY <1>1
  <1>6. \A k \in 1..Len(a) : \A id \in Objects : Net(From(a, k) \o s, id, m, g) <= 0
    BY <1>2, <1>5 DEF a
  <1>7. \A k \in 1..Len(a) : a[k].op = "add" => Net(From(a, k + 1) \o s, a[k].id, m, g) <= -1
    BY <1>1, <1>3, <1>4, <1>5
  <1>8. Sound(a \o s, Len(a) + r, D, m, g) /\ Len(a) + r \in DOMAIN (a \o s)
    BY <1>1, <1>5, <1>6, <1>7, SoundJoin
  <1> QED
    BY <1>1, <1>8 DEF a

LEMMA SoundLinks ==
    ASSUME NEW a \in Seq(Steps), NEW s \in Seq(Steps), NEW r, NEW D, NEW m, NEW g,
           Sound(s, r, D, m, g),
           \A i \in 1..Len(a) : a[i].op = "link" /\ a[i].id \in D \cup {Nil, Missing},
           \A id \in Objects : Net(a \o s, id, m, g) <= 0
    PROVE  Sound(a \o s, Len(a) + r, D, m, g) /\ Len(a) + r \in DOMAIN (a \o s)
  <1> HIDE DEF Nil, Missing
  <1>1. ASSUME NEW k \in 1..Len(a), NEW id \in Objects PROVE Net(From(a, k) \o s, id, m, g) <= 0
    <2> DEFINE b == SubSeq(a, 1, k - 1)
               c == From(a, k)
    <2>0. Len(a) \in Nat /\ k \in 1..(Len(a) + 1)
      BY LenProperties
    <2>1. c \in Seq(Steps)
      BY <2>0, FromFacts
    <2>2. /\ b \in Seq(Steps)
          /\ \A i \in 1..Len(b) : b[i].op = "link"
      <3>1. \A i \in 1..(k-1) : a[i] \in Steps
        BY <2>0, ElementOfSeq
      <3>2. /\ b \in Seq(Steps) /\ Len(b) = IF 1 <= k - 1 THEN (k-1) - 1 + 1 ELSE 0
            /\ \A i \in 1..((k-1) - 1 + 1) : b[i] = a[1 + i - 1]
        BY <2>0, <3>1, SubSeqProperties
      <3> HIDE DEF b
      <3>3. ASSUME NEW i \in 1..Len(b) PROVE b[i].op = "link"
        <4>1. i \in 1..((k-1) - 1 + 1) /\ 1 + i - 1 = i /\ i \in 1..Len(a)
          BY <2>0, <3>2
        <4> QED
          BY <3>2, <4>1
      <3> QED
        BY <3>2, <3>3
    <2>3. a = b \o c
      <3>1. k - 1 \in (1 - 1)..Len(a) /\ Len(a) \in (k - 1)..Len(a) /\ 1 \in 1..(Len(a) + 1)
        BY <2>0
      <3>2. SubSeq(a, 1, k - 1) \o SubSeq(a, (k - 1) + 1, Len(a)) = SubSeq(a, 1, Len(a))
        BY <3>1, ConcatAdjacentSubSeq
      <3>3. SubSeq(a, 1, Len(a)) = a /\ (k - 1) + 1 = k
        BY <2>0, SubSeqFull
      <3> QED
        BY <3>2, <3>3 DEF From
    <2> HIDE DEF b, c
    <2>4. Net(b, id, m, g) \in Nat
      BY <2>2, NetLinks
    <2>5. Net(a, id, m, g) = Net(b, id, m, g) + Net(c, id, m, g)
      BY <2>1, <2>2, <2>3, NetConcat
    <2>6. Net(a \o s, id, m, g) = Net(a, id, m, g) + Net(s, id, m, g)
      BY NetConcat
    <2>7. Net(c \o s, id, m, g) = Net(c, id, m, g) + Net(s, id, m, g)
      BY <2>1, NetConcat
    <2>8. Net(c, id, m, g) \in Int /\ Net(s, id, m, g) \in Int /\ Net(a, id, m, g) \in Int
      BY <2>1, NetType
    <2>9. Net(a \o s, id, m, g) <= 0
      OBVIOUS
    <2>10. Net(c, id, m, g) + Net(s, id, m, g) <= 0
      BY <2>4, <2>5, <2>6, <2>8, <2>9
    <2> QED
      BY <2>7, <2>10 DEF c
  <1> QED
    BY <1>1, SoundJoin

\* What an object mentions is given up because the object is linked then.
LEMMA SoundUnlinks ==
    ASSUME NEW a \in Seq(Steps), NEW s \in Seq(Steps), NEW r, NEW D, NEW m, NEW g,
           Sound(s, r, D, m, g), r # 1, s[1].op = "link", s[1].id \in D,
           \A i \in 1..Len(a) : a[i].op = "unlink" /\ a[i].id \in ToSet(Content(s[1].id))
    PROVE  Sound(a \o s, Len(a) + r, D, m, g) /\ Len(a) + r \in DOMAIN (a \o s)
  <1> HIDE DEF Nil, Missing
  <1>1. r \in 1..Len(s) /\ Len(s) \in Nat
    BY LenProperties DEF Sound, Writing
  <1>2. 1 \in 1..(r-1) /\ 1 \in 1..r
    BY <1>1
  <1>3. From(s, 1) = s
    BY FromFirst
  <1>4. ASSUME NEW k \in 1..Len(a), NEW id \in Objects PROVE Net(From(a, k) \o s, id, m, g) <= 0
    <2> DEFINE c == From(a, k)
    <2>0. Len(a) \in Nat /\ k \in 1..(Len(a) + 1)
      BY LenProperties
    <2>1. c \in Seq(Steps) /\ \A i \in 1..Len(c) : c[i].op = "unlink"
      <3>1. /\ c \in Seq(Steps) /\ Len(c) = Len(a) - k + 1
            /\ \A i \in 1..(Len(a) - k + 1) : c[i] = a[k + i - 1]
        BY <2>0, FromFacts
      <3> HIDE DEF c
      <3>2. ASSUME NEW i \in 1..Len(c) PROVE c[i].op = "unlink"
        <4>1. k + i - 1 \in 1..Len(a)
          BY <2>0, <3>1
        <4> QED
          BY <3>1, <4>1
      <3> QED
        BY <3>1, <3>2
    <2> HIDE DEF c
    <2>2. Net(c, id, m, g) <= 0 /\ Net(c, id, m, g) \in Int /\ Net(s, id, m, g) \in Int
      <3>1. \A i \in 1..Len(c) : c[i].op \in {"unlink", "erase", "succeed", "fail"}
        BY <2>1
      <3> QED
        BY <2>1, <3>1, NetCleaning, NetType
    <2>3. Net(s, id, m, g) <= 0
      BY <1>2, <1>3 DEF Sound, Covered
    <2>4. Net(c \o s, id, m, g) = Net(c, id, m, g) + Net(s, id, m, g)
      BY <2>1, NetConcat
    <2> QED
      BY <2>2, <2>3, <2>4 DEF c
  <1>5. \A i \in 1..Len(a) : a[i].op = "unlink" =>
          \E j \in 1..(r-1) :
            s[j].op = "link" /\ s[j].id \in D /\ a[i].id \in ToSet(Content(s[j].id))
    BY <1>2
  <1> QED
    BY <1>4, <1>5, SoundJoin

\* Steps before a failure
LEMMA HopelessJoin ==
    ASSUME NEW a \in Seq(Steps), NEW s \in Seq(Steps), NEW D, Hopeless(s, D),
           \A i \in 1..Len(a) :
              \/ a[i].op = "link" /\ a[i].id \in D \cup {Nil, Missing}
              \/ a[i].op = "add" /\ Content(a[i].id) = <<>>
    PROVE  Hopeless(a \o s, D)
  <1> DEFINE t == a \o s
             n == Len(a)
             l == Len(s)
  <1>1. /\ t \in Seq(Steps) /\ Len(t) = n + l /\ DOMAIN t = 1..(n + l)
        /\ n \in Nat /\ l \in Nat /\ DOMAIN s = 1..l
        /\ \A i \in 1..n : t[i] = a[i]
        /\ \A i \in 1..l : t[n + i] = s[i]
    <2>1. Joined(t, a, s)
      BY JoinFacts
    <2> QED
      BY <2>1 DEF Joined
  <1>2. /\ s # <<>> /\ s[l].op = "fail"
        /\ \A i \in 1..l : i # l => s[i].op \in {"add", "link"}
        /\ \A i \in 1..l : s[i].op = "add" => Content(s[i].id) = <<>>
        /\ \A i \in 1..l : s[i].op = "link" => s[i].id \in D \cup {Nil, Missing}
    BY <1>1 DEF Hopeless, Failing
  <1>3. l \in 1..l
    BY <1>2, EmptySeq
  <1>c. \A i \in 1..n : \/ a[i].op = "link" /\ a[i].id \in D \cup {Nil, Missing}
                        \/ a[i].op = "add" /\ Content(a[i].id) = <<>>
    OBVIOUS
  <1> HIDE DEF t, n, l, Nil, Missing
  <1>4. t # <<>> /\ t[n + l].op = "fail"
    BY <1>1, <1>2, <1>3, EmptySeq
  <1>5. ASSUME NEW i \in 1..(n + l)
        PROVE  /\ i # n + l => t[i].op \in {"add", "link"}
               /\ t[i].op = "add" => Content(t[i].id) = <<>>
               /\ t[i].op = "link" => t[i].id \in D \cup {Nil, Missing}
    <2>1. CASE i <= n
      <3>1. i \in 1..n /\ t[i] = a[i]
        BY <1>1, <2>1
      <3> QED
        BY <1>c, <3>1
    <2>2. CASE ~(i <= n)
      <3>1. i - n \in 1..l /\ n + (i - n) = i /\ (i # n + l => i - n # l)
        BY <1>1, <2>2
      <3>2. t[n + (i - n)] = s[i - n]
        BY <1>1, <3>1
      <3> QED
        BY <1>2, <3>1, <3>2
    <2> QED
      BY <2>1, <2>2
  <1> QED
    BY <1>1, <1>4, <1>5 DEF Hopeless, Failing, t

----------------------------------------------------------------------------
(* What operations plan to do, between operations.                         *)

\* Between operations
Settled ==
    /\ Types /\ ~Nested /\ todo = <<>>
    /\ m_commitId = master /\ m_id = View(master)
    /\ \A o \in disk : ToSet(Content(o)) \subseteq disk
    /\ Roots \subseteq disk \cup {Nil, Missing}

\* s writes c to master.
Planned(s, c) ==
    /\ s \in Seq(Steps)
    /\ \E r \in DOMAIN s : Sound(s, r, disk, master, tags)
    /\ \A i \in DOMAIN s : s[i].op # "tag" /\ (s[i].op = "master" => s[i].id = c)

\* By how much s raises the counter of id
Raises(s, id) == Net(s, id, master, tags)

LEMMA PlanAdd ==
    ASSUME NEW s, NEW c, Planned(s, c), NEW x \in Objects,
           \A id \in Objects : Raises(s, id) + Is(x, id) - Occ(x, id) <= 0,
           Raises(s, x) <= -1
    PROVE  /\ Planned(Do("add", x) \o s, c)
           /\ \A id \in Objects :
                Raises(Do("add", x) \o s, id) = Raises(s, id) + Is(x, id) - Occ(x, id)
  <1> DEFINE a == Do("add", x)
             e == [op |-> "add", id |-> x]
  <1>1. s \in Seq(Steps)
    BY DEF Planned
  <1>2. /\ a \in Seq(Steps) /\ Len(a) = 1 /\ a[1].op = "add"
        /\ \A id : Raises(a, id) = Weight(e, id, master, tags)
    <2>1. e \in Steps
      BY StepIs
    <2>2. \A id : Net(Do("add", x), id, master, tags) = Weight(e, id, master, tags)
      BY <2>1, DoFacts
    <2> QED
      BY <2>1, <2>2, DoFacts DEF Raises
  <1>3. ASSUME NEW id \in Objects
        PROVE  Raises(a \o s, id) = Raises(s, id) + Is(x, id) - Occ(x, id)
    <2>1. Weight(e, id, master, tags) = Is(x, id) - Occ(x, id)
      BY DEF Weight
    <2>2. Is(x, id) \in Int /\ Occ(x, id) \in Int /\ Raises(s, id) \in Int
      BY <1>1, PlacesFacts, NetType DEF Is, Ids, Raises
    <2>3. Raises(a \o s, id) = Raises(a, id) + Raises(s, id)
      BY <1>1, <1>2, NetConcat DEF Raises
    <2> HIDE DEF a, e
    <2> QED
      BY <1>2, <2>1, <2>2, <2>3
  <1>4. \A id \in Objects : Net(a \o s, id, master, tags) <= 0
    BY <1>3 DEF Raises
  <1>5. PICK r \in DOMAIN s : Sound(s, r, disk, master, tags)
    BY DEF Planned
  <1>6. Sound(a \o s, 1 + r, disk, master, tags) /\ 1 + r \in DOMAIN (a \o s)
    <2>1. Net(s, x, master, tags) <= -1
      BY DEF Raises
    <2> QED
      BY <1>1, <1>4, <1>5, <2>1, SoundAdd
  <1>7. \A i \in DOMAIN s : s[i].op # "tag" /\ (s[i].op = "master" => s[i].id = c)
    BY DEF Planned
  <1> HIDE DEF a
  <1> DEFINE t == a \o s
  <1>8. Joined(t, a, s)
    BY <1>1, <1>2, JoinFacts
  <1> HIDE DEF t
  <1>9. t \in Seq(Steps)
    BY <1>8 DEF Joined
  <1>10. ASSUME NEW i \in DOMAIN t
         PROVE  t[i].op # "tag" /\ (t[i].op = "master" => t[i].id = c)
    <2>1. i \in 1..(1 + Len(s)) /\ Len(s) \in Nat
      BY <1>2, <1>8 DEF Joined
    <2>2. CASE i = 1
      <3>1. t[1] = a[1]
        BY <1>2, <1>8 DEF Joined
      <3> QED
        BY <1>2, <2>2, <3>1
    <2>3. CASE i # 1
      <3>1. i - 1 \in 1..Len(s) /\ 1 + (i - 1) = i
        BY <2>1, <2>3
      <3>2. t[1 + (i - 1)] = s[i - 1] /\ i - 1 \in DOMAIN s
        BY <1>2, <1>8, <3>1 DEF Joined
      <3> QED
        BY <1>7, <3>1, <3>2
    <2> QED
      BY <2>2, <2>3
  <1>11. Planned(t, c)
    <2>1. \E k \in DOMAIN t : Sound(t, k, disk, master, tags)
      BY <1>6 DEF t
    <2> QED
      BY <1>9, <1>10, <2>1 DEF Planned
  <1> QED
    BY <1>3, <1>11 DEF a, t

LEMMA PlanLinks ==
    ASSUME NEW s, NEW c, Planned(s, c), NEW a \in Seq(Steps),
           \A i \in 1..Len(a) : a[i].op = "link" /\ a[i].id \in disk \cup {Nil, Missing},
           \A id \in Objects : Raises(a, id) + Raises(s, id) <= 0
    PROVE  /\ Planned(a \o s, c)
           /\ \A id : Raises(a \o s, id) = Raises(a, id) + Raises(s, id)
  <1>1. s \in Seq(Steps)
    BY DEF Planned
  <1>2. \A id : Raises(a \o s, id) = Raises(a, id) + Raises(s, id)
    BY <1>1, NetConcat DEF Raises
  <1>3. \A id \in Objects : Net(a \o s, id, master, tags) <= 0
    BY <1>2 DEF Raises
  <1>4. PICK r \in DOMAIN s : Sound(s, r, disk, master, tags)
    BY DEF Planned
  <1>5. Sound(a \o s, Len(a) + r, disk, master, tags) /\ Len(a) + r \in DOMAIN (a \o s)
    BY <1>1, <1>3, <1>4, SoundLinks
  <1>6. \A i \in DOMAIN s : s[i].op # "tag" /\ (s[i].op = "master" => s[i].id = c)
    BY DEF Planned
  <1> DEFINE t == a \o s
             n == Len(a)
  <1>7. Joined(t, a, s)
    BY <1>1, JoinFacts
  <1>8. \A i \in 1..n : a[i].op = "link"
    OBVIOUS
  <1> HIDE DEF t, n
  <1>9. ASSUME NEW i \in DOMAIN t
        PROVE  t[i].op # "tag" /\ (t[i].op = "master" => t[i].id = c)
    <2>1. i \in 1..(n + Len(s)) /\ Len(s) \in Nat /\ n \in Nat
      BY <1>7 DEF Joined, n
    <2>2. CASE i <= n
      <3>1. i \in 1..n
        BY <2>1, <2>2
      <3>2. t[i] = a[i]
        BY <1>7, <3>1 DEF Joined, n
      <3> QED
        BY <1>8, <3>1, <3>2
    <2>3. CASE ~(i <= n)
      <3>1. i - n \in 1..Len(s) /\ n + (i - n) = i
        BY <2>1, <2>3
      <3>2. t[n + (i - n)] = s[i - n] /\ i - n \in DOMAIN s
        BY <1>7, <3>1 DEF Joined, n
      <3> QED
        BY <1>6, <3>1, <3>2
    <2> QED
      BY <2>2, <2>3
  <1>10. t \in Seq(Steps)
    BY <1>7 DEF Joined
  <1>11. \E k \in DOMAIN t : Sound(t, k, disk, master, tags)
    BY <1>5 DEF t
  <1>12. Planned(t, c)
    BY <1>9, <1>10, <1>11 DEF Planned
  <1> QED
    BY <1>2, <1>12 DEF t

\* Links of what a directory has, and unlinks of what an object mentions
LEMMA LinksFacts ==
    ASSUME NEW E \in RootEntries, NEW D, \A n \in DOMAIN E : E[n] \in D
    PROVE  /\ Links(E) \in Seq(Steps)
           /\ \A i \in 1..Len(Links(E)) : Links(E)[i].op = "link" /\ Links(E)[i].id \in D
           /\ \A id, m, g : Net(Links(E), id, m, g) = Cardinality(Held(E, id))
           /\ \A id : Cardinality(Held(E, id)) \in Nat
  <1> DEFINE c == Listed(E)
             s == Links(E)
             l == Len(c)
  <1>1. DOMAIN E \subseteq Names /\ \A n \in DOMAIN E : E[n] \in Blobs \cup SubTrees
    BY EntriesFacts
  <1>2. \A n \in DOMAIN E : E[n] \in D \cap Ids
    BY <1>1, SubRoot DEF Ids, Objects
  <1>3. c \in Seq(D \cap Ids)
    BY <1>1, <1>2, ListedFacts
  <1>4. l \in Nat /\ DOMAIN c = 1..l /\ \A i \in 1..l : c[i] \in D \cap Ids
    BY <1>3, LenProperties, ElementOfSeq
  <1>5. s = [i \in DOMAIN c |-> [op |-> "link", id |-> c[i]]]
    BY DEF Links, All
  <1>0. \A id : \A P : P = { i \in DOMAIN c : c[i] = id } =>
          Cardinality(P) = Cardinality(Held(E, id)) /\ Cardinality(P) \in Nat
    BY <1>1, HeldPlaces
  <1> HIDE DEF c, s, l
  <1>6. \A i \in 1..l : [op |-> "link", id |-> c[i]] \in Steps
    BY <1>4, StepIs
  <1>7. s \in Seq(Steps) /\ Len(s) = l
    BY <1>4, <1>5, <1>6
  <1>8. \A i \in 1..l : s[i].op = "link" /\ s[i].id = c[i]
    BY <1>4, <1>5
  <1>9. ASSUME NEW id, NEW m, NEW g
        PROVE  /\ Net(s, id, m, g) = Cardinality(Held(E, id))
               /\ Cardinality(Held(E, id)) \in Nat
    <2>1. Net(s, id, m, g) = Cardinality({ i \in 1..Len(s) : s[i].id = id })
      BY <1>7, <1>8, NetLinks
    <2>2. { i \in 1..Len(s) : s[i].id = id } = { i \in DOMAIN c : c[i] = id }
      BY <1>4, <1>7, <1>8
    <2> QED
      BY <1>0, <2>1, <2>2
  <1> QED
    BY <1>4, <1>7, <1>8, <1>9 DEF s

LEMMA UnlinksFacts ==
    ASSUME NEW o \in Objects
    PROVE  /\ Unlinks(o) \in Seq(Steps)
           /\ \A i \in 1..Len(Unlinks(o)) :
                Unlinks(o)[i].op = "unlink" /\ Unlinks(o)[i].id \in ToSet(Content(o))
           /\ \A id, m, g : Net(Unlinks(o), id, m, g) = - Occ(o, id)
  <1> DEFINE c == Content(o)
             s == Unlinks(o)
             l == Len(c)
  <1>3. c \in Seq(Objects)
    BY ContentFacts DEF Ids
  <1>4. l \in Nat /\ DOMAIN c = 1..l /\ \A i \in 1..l : c[i] \in Objects
    BY <1>3, LenProperties, ElementOfSeq
  <1>5. s = [i \in DOMAIN c |-> [op |-> "unlink", id |-> c[i]]]
    BY DEF Unlinks, All
  <1>a. \A i \in 1..l : c[i] \in ToSet(c)
    BY <1>4 DEF ToSet
  <1>b. \A id : Places(o, id) = { i \in DOMAIN c : c[i] = id }
    BY DEF Places
  <1> HIDE DEF c, s, l
  <1>6. \A i \in 1..l : [op |-> "unlink", id |-> c[i]] \in Steps
    BY <1>4, StepIs DEF Ids
  <1>7. s \in Seq(Steps) /\ Len(s) = l
    BY <1>4, <1>5, <1>6
  <1>8. \A i \in 1..l : s[i].op = "unlink" /\ s[i].id = c[i]
    BY <1>4, <1>5
  <1>9. ASSUME NEW id, NEW m, NEW g PROVE Net(s, id, m, g) = - Occ(o, id)
    <2>1. Net(s, id, m, g) = - Cardinality({ i \in 1..Len(s) : s[i].id = id })
      BY <1>7, <1>8, NetUnlinks
    <2>2. { i \in 1..Len(s) : s[i].id = id } = Places(o, id)
      BY <1>4, <1>7, <1>8, <1>b
    <2> QED
      BY <2>1, <2>2 DEF Occ
  <1> QED
    BY <1>7, <1>8, <1>9, <1>a DEF s, c

\* With and without one entry
LEMMA WithEntries ==
    ASSUME NEW n, NEW x
    PROVE  /\ \A E \in RootEntries :
                /\ Others(E, n) \in RootEntries /\ Before(E, n) \in RootEntries
                /\ n \in Names /\ x \in Blobs \cup SubTrees /\ (n \in Files => x \in Blobs)
                     => With(E, n, x) \in RootEntries
           /\ \A E \in SubEntries :
                /\ Others(E, n) \in SubEntries /\ Before(E, n) \in SubEntries
                /\ n \in Files /\ x \in Blobs => With(E, n, x) \in SubEntries
  <1>1. ASSUME NEW E \in RootEntries, NEW N, N \subseteq DOMAIN E
        PROVE  Restrict(E, N) \in RootEntries
    <2>1. /\ DOMAIN E \subseteq Names /\ \A k \in DOMAIN E : E[k] \in Blobs \cup SubTrees
          /\ \A k \in DOMAIN E \cap Files : E[k] \in Blobs
      BY EntriesFacts
    <2>2. Restrict(E, N) = [k \in N |-> E[k]]
      BY DEF Restrict
    <2>3. Restrict(E, N) \in [N -> Blobs \cup SubTrees] /\ N \subseteq Names
          /\ \A k \in N \cap Files : Restrict(E, N)[k] \in Blobs
      BY <1>1, <2>1, <2>2
    <2> QED
      BY <2>3, RootEntriesAre
  <1>2. ASSUME NEW E \in SubEntries, NEW N, N \subseteq DOMAIN E
        PROVE  Restrict(E, N) \in SubEntries
    <2>1. DOMAIN E \subseteq Files /\ \A k \in DOMAIN E : E[k] \in Blobs
      BY EntriesFacts
    <2>2. Restrict(E, N) = [k \in N |-> E[k]]
      BY DEF Restrict
    <2>3. Restrict(E, N) \in [N -> Blobs] /\ N \subseteq Files
      BY <1>2, <2>1, <2>2
    <2> QED
      BY <2>3, SubEntriesAre
  <1>3. ASSUME NEW E \in RootEntries, n \in Names, x \in Blobs \cup SubTrees,
               n \in Files => x \in Blobs
        PROVE  With(E, n, x) \in RootEntries
    <2>1. /\ DOMAIN E \subseteq Names /\ \A k \in DOMAIN E : E[k] \in Blobs \cup SubTrees
          /\ \A k \in DOMAIN E \cap Files : E[k] \in Blobs
      BY EntriesFacts
    <2> DEFINE W == With(E, n, x)
               N == DOMAIN E \cup {n}
    <2>2. W = [k \in N |-> IF k = n THEN x ELSE E[k]]
      BY DEF With
    <2>3. W \in [N -> Blobs \cup SubTrees] /\ N \subseteq Names /\ \A k \in N \cap Files : W[k] \in Blobs
      BY <1>3, <2>1, <2>2
    <2> QED
      BY <2>3, RootEntriesAre
  <1>4. ASSUME NEW E \in SubEntries, n \in Files, x \in Blobs
        PROVE  With(E, n, x) \in SubEntries
    <2>1. DOMAIN E \subseteq Files /\ \A k \in DOMAIN E : E[k] \in Blobs
      BY EntriesFacts
    <2> DEFINE W == With(E, n, x)
               N == DOMAIN E \cup {n}
    <2>2. W = [k \in N |-> IF k = n THEN x ELSE E[k]]
      BY DEF With
    <2>3. W \in [N -> Blobs] /\ N \subseteq Files
      BY <1>4, <2>1, <2>2
    <2> QED
      BY <2>3, SubEntriesAre
  <1> QED
    BY <1>1, <1>2, <1>3, <1>4 DEF Others, Before

LEMMA HeldWith ==
    ASSUME NEW E \in RootEntries, NEW n, NEW x, NEW id
    PROVE  /\ Cardinality(Held(Others(E, n), id)) \in Nat
           /\ Cardinality(Held(With(E, n, x), id)) =
                Cardinality(Held(Others(E, n), id)) + Is(x, id)
  <1> DEFINE O == Others(E, n)
             W == With(E, n, x)
             A == Held(O, id)
             B == Held(W, id)
  <1>0. /\ DOMAIN W = DOMAIN E \cup {n} /\ W[n] = x
        /\ \A k \in DOMAIN E : k # n => W[k] = E[k]
        /\ DOMAIN O = DOMAIN E \ {n}
        /\ \A k \in DOMAIN E : k # n => O[k] = E[k]
    BY DEF With, Others, Restrict
  <1> HIDE DEF O, W
  <1>1. IsFiniteSet(A) /\ Cardinality(A) \in Nat /\ n \notin A
    <2>1. DOMAIN E \subseteq Names
      BY EntriesFacts
    <2>2. A \subseteq Names /\ n \notin A
      BY <1>0, <2>1 DEF Held
    <2> QED
      BY <2>2, FiniteNames
  <1>2. CASE x = id
    <2>1. B = A \cup {n}
      BY <1>0, <1>2 DEF Held
    <2> HIDE DEF A, B
    <2>2. Cardinality(A \cup {n}) = Cardinality(A) + 1
      BY <1>1, FS_AddElement
    <2>3. Cardinality(B) = Cardinality(A) + Is(x, id) /\ Cardinality(A) \in Nat
      BY <1>1, <1>2, <2>1, <2>2 DEF Is
    <2> QED
      BY <2>3 DEF A, B, O, W
  <1>3. CASE x # id
    <2>1. B = A
      BY <1>0, <1>3 DEF Held
    <2> HIDE DEF A, B
    <2>2. Cardinality(B) = Cardinality(A) + Is(x, id) /\ Cardinality(A) \in Nat
      BY <1>1, <1>3, <2>1 DEF Is
    <2> QED
      BY <2>2 DEF A, B, O, W
  <1> QED
    BY <1>2, <1>3

LEMMA SettledFacts ==
    ASSUME Settled
    PROVE  /\ master \in Commits \cup {Nil} /\ m_commitId = master
           /\ m_id.root = TreeOf(master) /\ m_id.sub = SubOf(TreeOf(master))
           /\ m_id["root"] = m_id.root /\ m_id["sub"] = m_id.sub
           /\ m_id.root \in RootTrees \cup {Nil} /\ master \in disk \cup {Nil}
           /\ m_id.root \in disk \cup {Nil}
           /\ m_id.sub \in SubTrees \cup {Missing} /\ m_id.sub = SubOf(m_id.root)
           /\ \A t \in Tags : tags[t] \in disk \cup {Nil, Missing}
           /\ disk \subseteq Objects
  <1>1. /\ master \in Commits \cup {Nil} /\ m_commitId = master /\ m_id = View(master)
        /\ disk \subseteq Objects /\ \A o \in disk : ToSet(Content(o)) \subseteq disk
        /\ Roots \subseteq disk \cup {Nil, Missing}
        /\ tags \in [Tags -> Commits \cup {Nil, Missing}]
    BY DEF Settled, Types
  <1> DEFINE R == TreeOf(master)
             S == SubOf(R)
  <1>2. R \in RootTrees \cup {Nil}
    BY <1>1, CommitFacts, NilFacts
  <1>3. S \in SubTrees \cup {Missing}
    BY <1>2, SubFacts
  <1> HIDE DEF S
  <1>4. /\ m_id.root = R /\ m_id.sub = S /\ m_id["root"] = m_id.root /\ m_id["sub"] = m_id.sub
    <2>1. m_id = [root |-> R, sub |-> S]
      BY <1>1 DEF View, S
    <2> HIDE DEF R
    <2> QED
      BY <2>1
  <1>5. master \in disk \cup {Nil} /\ \A t \in Tags : tags[t] \in disk \cup {Nil, Missing}
    <2>1. master \in Roots /\ \A t \in Tags : tags[t] \in Roots
      BY <1>1 DEF Roots, Range
    <2>2. Missing \notin Commits /\ Missing # Nil
      BY Disjoint, NilFacts DEF Objects
    <2> HIDE DEF Nil, Missing, Roots
    <2> QED
      BY <1>1, <2>1, <2>2
  <1>6. R \in disk \cup {Nil}
    <2>1. CASE master = Nil
      BY <2>1, NilFacts
    <2>2. CASE master # Nil
      <3>1. master \in Commits /\ master \in disk
        BY <1>1, <1>5, <2>2
      <3>2. TreeOf(master) \in ToSet(Content(master))
        BY <3>1, ContentFacts
      <3> QED
        BY <1>1, <3>1, <3>2
    <2> QED
      BY <2>1, <2>2
  <1> HIDE DEF R, Nil, Missing
  <1> QED
    BY <1>1, <1>2, <1>3, <1>4, <1>5, <1>6 DEF R, S

LEMMA HandlerFacts ==
    ASSUME Settled, NEW h \in Handlers
    PROVE  /\ h \in {"root", "sub"} /\ NamesIn(h) \subseteq Names
           /\ Entries(m_id[h]) \in RootEntries
           /\ \A n \in DOMAIN Entries(m_id[h]) : Entries(m_id[h])[n] \in disk
           /\ h = "sub" =>
                /\ NamesIn(h) = Files
                /\ Entries(m_id[h]) \in SubEntries /\ m_id.sub \in SubTrees
                /\ Dir \in DOMAIN Entries(m_id.root)
                /\ Entries(m_id.root)[Dir] = m_id.sub
  <1>1. /\ m_id["root"] = m_id.root /\ m_id["sub"] = m_id.sub
        /\ m_id.root \in RootTrees \cup {Nil}
        /\ m_id.root \in disk \cup {Nil}
        /\ m_id.sub \in SubTrees \cup {Missing} /\ m_id.sub = SubOf(m_id.root)
    BY SettledFacts
  <1>2. \A o \in disk : ToSet(Content(o)) \subseteq disk
    BY DEF Settled
  <1>3. /\ h \in {"root", "sub"} /\ (h = "sub" => m_id.sub # Missing)
    BY DEF Handlers
  <1>4. /\ NamesIn(h) \subseteq Names /\ (h = "sub" => NamesIn(h) = Files)
    BY <1>3 DEF Settled, NamesIn, Names
  <1>5. ASSUME NEW t \in RootTrees \cup {Nil}, t \in disk \cup {Nil}
        PROVE  Entries(t) \in RootEntries /\ \A n \in DOMAIN Entries(t) : Entries(t)[n] \in disk
    <2>1. CASE t = Nil
      BY <2>1, NilFacts, NoEntriesFacts
    <2>2. CASE t # Nil
      <3>1. t \in RootTrees /\ t \in disk
        BY <1>5, <2>2
      <3>2. /\ Entries(t) \in RootEntries
            /\ ToSet(Content(t)) = { Entries(t)[n] : n \in DOMAIN Entries(t) }
        BY <3>1, TreeFacts, ContentFacts
      <3> QED
        BY <1>2, <3>1, <3>2
    <2> QED
      BY <2>1, <2>2
  <1>6. CASE h = "root"
    BY <1>1, <1>3, <1>4, <1>5, <1>6
  <1>7. CASE h = "sub"
    <2>1. m_id.sub # Missing
      BY <1>3, <1>7
    <2>2. /\ m_id.sub \in SubTrees /\ Dir \in DOMAIN Entries(m_id.root)
          /\ Entries(m_id.root)[Dir] = m_id.sub
      BY <1>1, <2>1, SubFacts
    <2>3. m_id.sub \in disk
      BY <1>1, <1>5, <2>2
    <2>4. m_id.sub \in RootTrees /\ Entries(m_id.sub) \in SubEntries
      BY <2>2, SubRoot, TreeFacts
    <2>5. Entries(m_id.sub) \in RootEntries /\ \A n \in DOMAIN Entries(m_id.sub) : Entries(m_id.sub)[n] \in disk
      BY <1>5, <2>3, <2>4
    <2> QED
      BY <1>1, <1>4, <1>7, <2>2, <2>4, <2>5
  <1> QED
    BY <1>3, <1>6, <1>7

\* So handlers can read what they need.
LEMMA ReadableFacts ==
    ASSUME Settled, NEW h \in Handlers
    PROVE  /\ Readable(m_id[h]) /\ Readable(m_id.root)
           /\ \A n \in DOMAIN Entries(m_id[h]) : Readable(Entries(m_id[h])[n])
  <1>1. /\ m_id["root"] = m_id.root /\ m_id["sub"] = m_id.sub
        /\ m_id.root \in disk \cup {Nil}
    BY SettledFacts
  <1>2. /\ h \in {"root", "sub"} /\ \A n \in DOMAIN Entries(m_id[h]) : Entries(m_id[h])[n] \in disk
        /\ h = "sub" => Dir \in DOMAIN Entries(m_id.root) /\ Entries(m_id.root)[Dir] = m_id.sub
    BY HandlerFacts
  <1>3. \A n \in DOMAIN Entries(m_id.root) : Entries(m_id.root)[n] \in disk
    <2>1. "root" \in Handlers
      BY DEF Handlers
    <2>2. \A n \in DOMAIN Entries(m_id["root"]) : Entries(m_id["root"])[n] \in disk
      BY <2>1, HandlerFacts
    <2> QED
      BY <1>1, <2>2
  <1>4. m_id[h] \in disk \cup {Nil}
    <2> HIDE DEF Nil
    <2> QED
      BY <1>1, <1>2, <1>3
  <1> QED
    BY <1>1, <1>2, <1>4 DEF Readable

\* Three or four lists, however they are put together
LEMMA Associate ==
    ASSUME NEW a \in Seq(Steps), NEW b \in Seq(Steps), NEW c \in Seq(Steps), NEW d \in Seq(Steps)
    PROVE  ((a \o b) \o c) \o d = a \o (b \o (c \o d))
  <1>1. a \o b \in Seq(Steps) /\ c \o d \in Seq(Steps)
    BY ConcatProperties
  <1> DEFINE e == a \o b
             f == c \o d
  <1>2. (e \o c) \o d = e \o f
    <2>1. e \in Seq(Steps)
      BY <1>1
    <2> HIDE DEF e
    <2> QED
      BY <2>1, ConcatAssociative
  <1>3. (a \o b) \o f = a \o (b \o f)
    <2>1. f \in Seq(Steps)
      BY <1>1
    <2> HIDE DEF f
    <2> QED
      BY <2>1, ConcatAssociative
  <1> QED
    BY <1>2, <1>3

LEMMA UpdateRootPlan ==
    ASSUME Settled, NEW T \in RootTrees
    PROVE  /\ Planned(UpdateRoot(T, SubOf(T)), Commit(T))
           /\ \A id \in Objects : Raises(UpdateRoot(T, SubOf(T)), id) = - Is(T, id)
  <1> DEFINE C == Commit(T)
             e2 == [op |-> "master", id |-> C]
             e3 == [op |-> "unlink", id |-> m_commitId]
             e4 == [op |-> "succeed", id |-> C, root |-> T, sub |-> SubOf(T)]
             u == <<e2>> \o (<<e3>> \o <<e4>>)
  <1>0. C \in Commits /\ TreeOf(C) = T /\ C \in Objects /\ master \in Commits \cup {Nil}
        /\ m_commitId = master /\ C # T
    BY CommitIs, SettledFacts, Disjoint DEF Objects
  <1>1. /\ e2 \in Steps /\ e2.op = "master" /\ e2.id = C
        /\ e3 \in Steps /\ e3.op = "unlink" /\ e3.id = master
        /\ e4 \in Steps /\ e4.op = "succeed" /\ e4.id = C
    <2>1. C \in Ids /\ master \in Ids
      BY <1>0 DEF Ids, Objects
    <2>2. e2 \in Steps /\ e3 \in Steps
      BY <1>0, <2>1, StepIs
    <2>3. e4 \in Steps
      <3>1. \A c \in Commits \cup {Nil} :
              [op |-> "succeed", id |-> c, root |-> TreeOf(c), sub |-> SubOf(TreeOf(c))] \in Steps
        BY StepIs
      <3> HIDE DEF C, Nil
      <3> QED
        BY <1>0, <3>1
    <2> QED
      BY <1>0, <2>2, <2>3
  <1>2. UpdateRoot(T, SubOf(T)) = Do("add", C) \o u
    <2> DEFINE e1 == [op |-> "add", id |-> C]
    <2>1. e1 \in Steps
      BY <1>0, StepIs
    <2>2. UpdateRoot(T, SubOf(T)) = ((<<e1>> \o <<e2>>) \o <<e3>>) \o <<e4>>
      BY DEF UpdateRoot, Do, Succeed
    <2>3. Do("add", C) = <<e1>>
      BY DEF Do
    <2> HIDE DEF e1, e2, e3, e4
    <2>4. <<e1>> \in Seq(Steps) /\ <<e2>> \in Seq(Steps) /\ <<e3>> \in Seq(Steps) /\ <<e4>> \in Seq(Steps)
      BY <1>1, <2>1
    <2>5. ((<<e1>> \o <<e2>>) \o <<e3>>) \o <<e4>> = <<e1>> \o (<<e2>> \o (<<e3>> \o <<e4>>))
      BY <2>4, Associate
    <2> QED
      BY <2>2, <2>3, <2>5
  <1> HIDE DEF e2, e3, e4, C
  <1>3. /\ u \in Seq(Steps) /\ Len(u) = 3 /\ u[1] = e2 /\ u[2] = e3 /\ u[3] = e4
    BY <1>1
  <1>4. DOMAIN u = 1..3
    BY <1>3, LenProperties
  <1>5. ASSUME NEW id \in Objects PROVE Net(u, id, master, tags) = - Is(C, id)
    <2>1. /\ Weight(e2, id, master, tags) = Is(master, id) - Is(C, id)
          /\ Weight(e3, id, master, tags) = - Is(master, id)
          /\ Weight(e4, id, master, tags) = 0
      BY <1>1 DEF Weight
    <2>2. <<e2>> \in Seq(Steps) /\ <<e3>> \in Seq(Steps) /\ <<e4>> \in Seq(Steps)
      BY <1>1
    <2>3. /\ Net(<<e2>>, id, master, tags) = Weight(e2, id, master, tags)
          /\ Net(<<e3>>, id, master, tags) = Weight(e3, id, master, tags)
          /\ Net(<<e4>>, id, master, tags) = Weight(e4, id, master, tags)
      BY <1>1, NetOne
    <2> DEFINE a == <<e2>>
               b == <<e3>>
               c == <<e4>>
    <2>4. a \in Seq(Steps) /\ b \in Seq(Steps) /\ c \in Seq(Steps)
      BY <2>2
    <2> HIDE DEF a, b, c
    <2>5. Net(b \o c, id, master, tags) = Net(b, id, master, tags) + Net(c, id, master, tags)
      BY <2>4, NetConcat
    <2>6. b \o c \in Seq(Steps)
      BY <2>4, ConcatProperties
    <2> DEFINE f == b \o c
    <2>7. f \in Seq(Steps)
      BY <2>6
    <2> HIDE DEF f
    <2>8. Net(a \o f, id, master, tags) = Net(a, id, master, tags) + Net(f, id, master, tags)
      BY <2>4, <2>7, NetConcat
    <2>9. Is(master, id) \in Int /\ Is(C, id) \in Int
      BY DEF Is
    <2>10. u = a \o f
      BY DEF a, b, c, f
    <2>11. Net(f, id, master, tags) = - Is(master, id)
      BY <2>1, <2>3, <2>5, <2>9 DEF f, b, c
    <2>12. Net(a, id, master, tags) = Is(master, id) - Is(C, id)
      BY <2>1, <2>3 DEF a
    <2> HIDE DEF u
    <2> QED
      BY <2>8, <2>9, <2>10, <2>11, <2>12
  <1> HIDE DEF u
  <1>6. Writing(u, 1)
    BY <1>1, <1>3, <1>4 DEF Writing
  <1>7. Sound(u, 1, disk, master, tags)
    <2>1. Covered(u, 1, master, tags)
      <3>1. From(u, 1) = u
        BY <1>3, FromFirst
      <3>2. \A id \in Objects : Net(From(u, 1), id, master, tags) <= 0
        BY <1>5, <3>1 DEF Is
      <3> QED
        BY <3>2 DEF Covered
    <2>2. Linkable(u, 1, disk)
      BY DEF Linkable
    <2> QED
      BY <1>6, <2>1, <2>2 DEF Sound
  <1>8. Planned(u, C)
    <2>1. \A i \in DOMAIN u : u[i].op # "tag" /\ (u[i].op = "master" => u[i].id = C)
      BY <1>1, <1>3, <1>4
    <2> QED
      BY <1>3, <1>4, <1>7, <2>1 DEF Planned
  <1>9. \A id \in Objects : Raises(u, id) = - Is(C, id)
    BY <1>5 DEF Raises
  <1>10. \A id \in Objects : Occ(C, id) = Is(T, id)
    BY <1>0, OccFacts
  <1>11. /\ \A id \in Objects : Raises(u, id) + Is(C, id) - Occ(C, id) = - Is(T, id)
         /\ \A id \in Objects : Raises(u, id) + Is(C, id) - Occ(C, id) <= 0
         /\ Raises(u, C) <= -1
    BY <1>0, <1>9, <1>10 DEF Is
  <1>12. /\ Planned(Do("add", C) \o u, C)
         /\ \A id \in Objects :
              Raises(Do("add", C) \o u, id) = Raises(u, id) + Is(C, id) - Occ(C, id)
    BY <1>0, <1>8, <1>11, PlanAdd
  <1> QED
    BY <1>2, <1>11, <1>12 DEF C

LEMMA ReplaceRootPlan ==
    ASSUME Settled, NEW E \in RootEntries
    PROVE  /\ Planned(ReplaceRoot(E, SubOf(Tree(E))), Commit(Tree(E)))
           /\ \A id \in Objects :
                /\ Raises(ReplaceRoot(E, SubOf(Tree(E))), id) = - Cardinality(Held(E, id))
                /\ Cardinality(Held(E, id)) \in Nat
  <1> DEFINE T == Tree(E)
             s == UpdateRoot(T, SubOf(T))
  <1>1. T \in RootTrees /\ Entries(T) = E /\ T \in Objects
    BY TreeIs DEF Objects
  <1>2. Planned(s, Commit(T)) /\ \A id \in Objects : Raises(s, id) = - Is(T, id)
    BY <1>1, UpdateRootPlan
  <1>3. \A id \in Objects : Occ(T, id) = Cardinality(Held(E, id)) /\ Occ(T, id) \in Nat
    BY <1>1, OccFacts, PlacesFacts DEF Ids
  <1>4. ReplaceRoot(E, SubOf(Tree(E))) = Do("add", T) \o s
    BY DEF ReplaceRoot
  <1> HIDE DEF s, T
  <1>5. /\ \A id \in Objects : Raises(s, id) + Is(T, id) - Occ(T, id) = - Occ(T, id)
        /\ \A id \in Objects : Raises(s, id) + Is(T, id) - Occ(T, id) <= 0
        /\ Raises(s, T) <= -1
    BY <1>1, <1>2, <1>3 DEF Is
  <1>6. /\ Planned(Do("add", T) \o s, Commit(T))
        /\ \A id \in Objects :
             Raises(Do("add", T) \o s, id) = Raises(s, id) + Is(T, id) - Occ(T, id)
    BY <1>1, <1>2, <1>5, PlanAdd
  <1> QED
    BY <1>3, <1>4, <1>5, <1>6 DEF T

\* The root's tree when directory h has entries E
NewRoot(h, E) ==
    IF h = "sub" THEN Tree(With(Entries(m_id.root), Dir, Tree(E))) ELSE Tree(E)

LEMMA ReplaceSubPlan ==
    ASSUME Settled, "sub" \in Handlers, NEW E \in SubEntries
    PROVE  /\ Planned(ReplaceSub(E), Commit(NewRoot("sub", E)))
           /\ \A id \in Objects :
                /\ Raises(ReplaceSub(E), id) = - Cardinality(Held(E, id))
                /\ Cardinality(Held(E, id)) \in Nat
           /\ NewRoot("sub", E) \in RootTrees
  <1> DEFINE R == Entries(m_id.root)
             S == Tree(E)
             W == With(R, Dir, S)
             O == Others(R, Dir)
             a == Links(O)
             s == ReplaceRoot(W, S)
             C == Commit(Tree(W))
  <1>1. /\ R \in RootEntries /\ Dir \in DOMAIN R /\ \A n \in DOMAIN R : R[n] \in disk
    <2>1. "root" \in Handlers /\ Dir \in DOMAIN R
      BY HandlerFacts DEF Handlers
    <2>2. m_id["root"] = m_id.root
      BY SettledFacts
    <2>3. Entries(m_id["root"]) \in RootEntries
          /\ \A n \in DOMAIN Entries(m_id["root"]) : Entries(m_id["root"])[n] \in disk
      BY <2>1, HandlerFacts
    <2> QED
      BY <2>1, <2>2, <2>3
  <1>2. /\ S \in SubTrees /\ S \in RootTrees /\ S \in Objects /\ Entries(S) = E
        /\ E \in RootEntries
    BY TreeIs, SubRoot DEF Objects
  <1>3. S # m_id.root
    <2>1. DOMAIN E \subseteq Files
      BY EntriesFacts
    <2> QED
      BY <1>1, <1>2, <2>1, NamesAssumption
  <1>4. W \in RootEntries /\ O \in RootEntries
    <2>1. Dir \in Names /\ Dir \notin Files
      BY NamesAssumption DEF Names
    <2> HIDE DEF R, S
    <2> QED
      BY <1>1, <1>2, <2>1, WithEntries
  <1>5. SubOf(Tree(W)) = S
    <2>1. Tree(W) \in RootTrees /\ Entries(Tree(W)) = W
      BY <1>4, TreeIs
    <2>2. Dir \in DOMAIN W /\ W[Dir] = S
      BY DEF With
    <2>3. S \notin Blobs
      BY <1>2, Disjoint
    <2> HIDE DEF W, S
    <2> QED
      BY <2>1, <2>2, <2>3, SubFacts
  <1>6. ReplaceSub(E) = Do("add", S) \o (a \o s)
    <2>1. Readable(m_id.root)
      BY ReadableFacts
    <2> QED
      BY <1>3, <2>1 DEF ReplaceSub
  <1>7. C = Commit(NewRoot("sub", E)) /\ Tree(W) = NewRoot("sub", E) /\ Tree(W) \in RootTrees
    BY <1>4, TreeIs DEF NewRoot
  <1>8. /\ Planned(s, C)
        /\ \A id \in Objects : Raises(s, id) = - Cardinality(Held(W, id))
    BY <1>4, <1>5, ReplaceRootPlan
  <1>9. \A n \in DOMAIN O : O[n] \in disk \cup {Nil, Missing}
    BY <1>1 DEF Others, Restrict
  <1>10. /\ a \in Seq(Steps)
         /\ \A i \in 1..Len(a) : a[i].op = "link" /\ a[i].id \in disk \cup {Nil, Missing}
         /\ \A id : Raises(a, id) = Cardinality(Held(O, id))
    <2> DEFINE D == disk \cup {Nil, Missing}
    <2>1. \A n \in DOMAIN O : O[n] \in D
      BY <1>9
    <2> HIDE DEF O, D
    <2>2. /\ Links(O) \in Seq(Steps)
          /\ \A i \in 1..Len(Links(O)) : Links(O)[i].op = "link" /\ Links(O)[i].id \in D
          /\ \A id, m, g : Net(Links(O), id, m, g) = Cardinality(Held(O, id))
      BY <1>4, <2>1, LinksFacts
    <2> QED
      BY <2>2 DEF D, Raises
  <1>11. \A id \in Objects : /\ Cardinality(Held(O, id)) \in Nat
                             /\ Cardinality(Held(W, id)) = Cardinality(Held(O, id)) + Is(S, id)
                             /\ Is(S, id) \in {0, 1} /\ Is(S, S) = 1
    <2> HIDE DEF R, S
    <2> QED
      BY <1>1, HeldWith DEF Is
  <1>12. \A id \in Objects : /\ Occ(S, id) = Cardinality(Held(E, id)) /\ Occ(S, id) \in Nat
    BY <1>2, OccFacts, PlacesFacts DEF Ids
  <1> HIDE DEF R, S, W, O, a, s, C
  <1>13. \A id \in Objects : Raises(a, id) + Raises(s, id) = - Is(S, id)
    BY <1>8, <1>10, <1>11
  <1> DEFINE t == a \o s
  <1>14. Planned(t, C) /\ \A id \in Objects : Raises(t, id) = - Is(S, id)
    <2>1. \A id \in Objects : Raises(a, id) + Raises(s, id) <= 0
      BY <1>11, <1>13
    <2>2. Planned(a \o s, C) /\ \A id : Raises(a \o s, id) = Raises(a, id) + Raises(s, id)
      BY <1>8, <1>10, <2>1, PlanLinks
    <2> QED
      BY <1>13, <2>2
  <1> HIDE DEF t
  <1>15. /\ \A id \in Objects : Raises(t, id) + Is(S, id) - Occ(S, id) = - Occ(S, id)
         /\ \A id \in Objects : Raises(t, id) + Is(S, id) - Occ(S, id) <= 0
         /\ Raises(t, S) <= -1
    <2>1. \A id \in Objects : Is(S, id) \in Int /\ Occ(S, id) \in Nat /\ Raises(t, id) = - Is(S, id)
      BY <1>11, <1>12, <1>14
    <2> QED
      BY <1>2, <1>11, <2>1
  <1>16. /\ Planned(Do("add", S) \o t, C)
         /\ \A id \in Objects :
              Raises(Do("add", S) \o t, id) = Raises(t, id) + Is(S, id) - Occ(S, id)
    BY <1>2, <1>14, <1>15, PlanAdd
  <1> QED
    BY <1>6, <1>7, <1>12, <1>15, <1>16 DEF t

\* The directory's handler stores its new tree, and its parent's.
Store(h, E, sub) == IF h = "sub" THEN ReplaceSub(E) ELSE ReplaceRoot(E, sub)

LEMMA StorePlan ==
    ASSUME Settled, NEW h \in Handlers, NEW E \in RootEntries, h = "sub" => E \in SubEntries,
           NEW sub, h = "root" => sub = SubOf(Tree(E))
    PROVE  /\ Planned(Store(h, E, sub), Commit(NewRoot(h, E)))
           /\ \A id \in Objects :
                /\ Raises(Store(h, E, sub), id) = - Cardinality(Held(E, id))
                /\ Cardinality(Held(E, id)) \in Nat
           /\ NewRoot(h, E) \in RootTrees
  <1>1. h \in {"root", "sub"}
    BY HandlerFacts
  <1>2. CASE h = "root"
    BY <1>2, ReplaceRootPlan, TreeIs DEF Store, NewRoot
  <1>3. CASE h = "sub"
    BY <1>3, ReplaceSubPlan DEF Store
  <1> QED
    BY <1>1, <1>2, <1>3

\* Links and then a failure
LEMMA HopelessLinks ==
    ASSUME Settled, NEW E \in RootEntries, \A n \in DOMAIN E : E[n] \in disk
    PROVE  Links(E) \o Fail \in Seq(Steps) /\ Hopeless(Links(E) \o Fail, disk)
  <1> DEFINE a == Links(E)
             D == disk \cup {Nil, Missing}
             f == [op |-> "fail", id |-> Nil]
  <1>1. f \in Steps /\ f.op = "fail" /\ Fail = <<f>>
    <2>1. Nil \in Ids
      BY DEF Ids
    <2> QED
      BY <2>1, StepIs DEF Fail, Do
  <1>2. \A n \in DOMAIN E : E[n] \in D
    OBVIOUS
  <1> HIDE DEF D, f
  <1>3. a \in Seq(Steps) /\ \A i \in 1..Len(a) : a[i].op = "link" /\ a[i].id \in D
    BY <1>2, LinksFacts
  <1> HIDE DEF a
  <1> DEFINE s == <<f>>
  <1>4. s \in Seq(Steps) /\ Len(s) = 1 /\ DOMAIN s = 1..1 /\ s[1].op = "fail" /\ s # <<>>
    BY <1>1
  <1> HIDE DEF s
  <1>5. Hopeless(s, disk)
    <2>1. \A i \in DOMAIN s : i = 1 /\ s[i].op = "fail"
      BY <1>4
    <2> QED
      BY <1>4, <2>1 DEF Hopeless, Failing
  <1>6. Hopeless(a \o s, disk)
    BY <1>3, <1>4, <1>5, HopelessJoin DEF D
  <1>7. a \o s \in Seq(Steps)
    BY <1>3, <1>4, ConcatProperties
  <1> QED
    BY <1>1, <1>6, <1>7 DEF a, s

\* A directory is stored after all its entries have been linked.
LEMMA LinkedStorePlan ==
    ASSUME Settled, NEW h \in Handlers, NEW E \in RootEntries, h = "sub" => E \in SubEntries,
           NEW sub, h = "root" => sub = SubOf(Tree(E)),
           NEW O \in RootEntries, \A n \in DOMAIN O : O[n] \in disk,
           \A id \in Objects : Cardinality(Held(O, id)) <= Cardinality(Held(E, id))
    PROVE  /\ Planned(Links(O) \o Store(h, E, sub), Commit(NewRoot(h, E)))
           /\ \A id \in Objects :
                Raises(Links(O) \o Store(h, E, sub), id) =
                  Cardinality(Held(O, id)) - Cardinality(Held(E, id))
           /\ NewRoot(h, E) \in RootTrees
  <1> DEFINE a == Links(O)
             D == disk \cup {Nil, Missing}
             s == Store(h, E, sub)
             C == Commit(NewRoot(h, E))
  <1>1. \A n \in DOMAIN O : O[n] \in D
    OBVIOUS
  <1> HIDE DEF D
  <1>2. /\ a \in Seq(Steps) /\ \A i \in 1..Len(a) : a[i].op = "link" /\ a[i].id \in D
        /\ \A id, m, g : Net(a, id, m, g) = Cardinality(Held(O, id))
        /\ \A id : Cardinality(Held(O, id)) \in Nat
    BY <1>1, LinksFacts
  <1>3. /\ Planned(s, C) /\ NewRoot(h, E) \in RootTrees
        /\ \A id \in Objects : /\ Raises(s, id) = - Cardinality(Held(E, id))
                               /\ Cardinality(Held(E, id)) \in Nat
    BY StorePlan
  <1> HIDE DEF a, s, C
  <1>4. \A id \in Objects : /\ Raises(a, id) + Raises(s, id) =
                                 Cardinality(Held(O, id)) - Cardinality(Held(E, id))
                            /\ Raises(a, id) + Raises(s, id) <= 0
    BY <1>2, <1>3 DEF Raises
  <1>5. Planned(a \o s, C) /\ \A id : Raises(a \o s, id) = Raises(a, id) + Raises(s, id)
    BY <1>2, <1>3, <1>4, PlanLinks DEF D
  <1> QED
    BY <1>3, <1>4, <1>5 DEF a, s, C

\* updateDirectoryEntry() and removeDirectoryEntry(), as planned
Refused(h, n, x, allowReplace) ==
    LET E == Entries(m_id[h])
    IN  n \in DOMAIN E /\ (E[n].type # x.type \/ ~allowReplace)

LEMMA UpdatePlan ==
    ASSUME Settled, NEW h \in Handlers, NEW n \in NamesIn(h), NEW x \in Blobs \cup SubTrees,
           h = "sub" \/ n \in Files => x \in Blobs, NEW allowReplace \in BOOLEAN
    PROVE  LET s == UpdateEntry(h, n, x, allowReplace)
               new == NewRoot(h, With(Entries(m_id[h]), n, x)) IN
           /\ Refused(h, n, x, allowReplace) => s \in Seq(Steps) /\ Hopeless(s, disk)
           /\ ~Refused(h, n, x, allowReplace) =>
                /\ Planned(s, Commit(new)) /\ new \in RootTrees
                /\ \A id \in Objects : Raises(s, id) = - Is(x, id)
  <1> DEFINE s == UpdateEntry(h, n, x, allowReplace)
             E == Entries(m_id[h])
             W == With(E, n, x)
             O == Others(E, n)
             B == Before(E, n)
             sub == IF n = Dir THEN SubOf(Tree(W)) ELSE m_id.sub
             bad == Refused(h, n, x, allowReplace)
  <1>1. /\ h \in {"root", "sub"} /\ n \in Names /\ E \in RootEntries
        /\ \A k \in DOMAIN E : E[k] \in disk
        /\ h = "sub" => n \in Files /\ E \in SubEntries
    BY HandlerFacts
  <1>2. /\ W \in RootEntries /\ O \in RootEntries /\ B \in RootEntries
        /\ h = "sub" => W \in SubEntries
    <2> HIDE DEF E
    <2> QED
      BY <1>1, WithEntries
  <1>3. /\ \A k \in DOMAIN O : O[k] \in disk
        /\ \A k \in DOMAIN B : B[k] \in disk
    BY <1>1 DEF Others, Before, Restrict
  <1>4. h = "root" => sub = SubOf(Tree(W))
    <2> SUFFICES ASSUME h = "root", n # Dir PROVE m_id.sub = SubOf(Tree(W))
      OBVIOUS
    <2>1. m_id["root"] = m_id.root /\ m_id.sub = SubOf(m_id.root)
      BY SettledFacts
    <2>2. Entries(Tree(W)) = W /\ E = Entries(m_id.root)
      BY <1>2, <2>1, TreeIs
    <2>3. /\ Dir \in DOMAIN W <=> Dir \in DOMAIN E
          /\ Dir \in DOMAIN E => W[Dir] = E[Dir]
      BY DEF With
    <2> HIDE DEF W, E
    <2> QED
      BY <2>1, <2>2, <2>3 DEF SubOf
  <1>5. s = IF bad THEN Links(B) \o Fail ELSE Links(O) \o Store(h, W, sub)
    BY ReadableFacts DEF UpdateEntry, Store, Refused
  <1>6. \A id \in Objects :
           /\ Cardinality(Held(O, id)) <= Cardinality(Held(W, id))
           /\ Cardinality(Held(O, id)) - Cardinality(Held(W, id)) = - Is(x, id)
    <2> SUFFICES ASSUME NEW id \in Objects
                 PROVE  /\ Cardinality(Held(O, id)) <= Cardinality(Held(W, id))
                        /\ Cardinality(Held(O, id)) - Cardinality(Held(W, id)) = - Is(x, id)
      OBVIOUS
    <2> HIDE DEF E
    <2>1. /\ Cardinality(Held(O, id)) \in Nat
          /\ Cardinality(Held(W, id)) = Cardinality(Held(O, id)) + Is(x, id)
      BY <1>1, HeldWith
    <2> QED
      BY <2>1 DEF Is
  <1> HIDE DEF W, O, B, E, sub
  <1>7. Links(B) \o Fail \in Seq(Steps) /\ Hopeless(Links(B) \o Fail, disk)
    BY <1>2, <1>3, HopelessLinks
  <1>8. /\ Planned(Links(O) \o Store(h, W, sub), Commit(NewRoot(h, W)))
        /\ \A id \in Objects :
             Raises(Links(O) \o Store(h, W, sub), id) =
               Cardinality(Held(O, id)) - Cardinality(Held(W, id))
        /\ NewRoot(h, W) \in RootTrees
    BY <1>2, <1>3, <1>4, <1>6, LinkedStorePlan
  <1> HIDE DEF s, bad
  <1>9. bad => s \in Seq(Steps) /\ Hopeless(s, disk)
    BY <1>5, <1>7
  <1>10. ~bad => /\ Planned(s, Commit(NewRoot(h, W))) /\ NewRoot(h, W) \in RootTrees
                 /\ \A id \in Objects : Raises(s, id) = - Is(x, id)
    BY <1>5, <1>6, <1>8
  <1> QED
    BY <1>9, <1>10 DEF s, bad, W, E

Removable(h, n, type) ==
    LET E == Entries(m_id[h])
    IN  n \in DOMAIN E /\ E[n].type = type /\ (type = "tree" => DOMAIN Entries(E[n]) = {})

LEMMA RemovePlan ==
    ASSUME Settled, NEW h \in Handlers, NEW n, NEW type \in {"blob", "tree"}
    PROVE  LET s == RemoveEntry(h, n, type)
               new == NewRoot(h, Others(Entries(m_id[h]), n)) IN
           /\ ~Removable(h, n, type) => s \in Seq(Steps) /\ Hopeless(s, disk)
           /\ Removable(h, n, type) =>
                /\ Planned(s, Commit(new)) /\ new \in RootTrees
                /\ \A id \in Objects : Raises(s, id) = 0
  <1> DEFINE s == RemoveEntry(h, n, type)
             E == Entries(m_id[h])
             O == Others(E, n)
             B == Before(E, n)
             sub == SubOf(Tree(O))
             good == Removable(h, n, type)
  <1>1. /\ h \in {"root", "sub"} /\ E \in RootEntries
        /\ \A k \in DOMAIN E : E[k] \in disk
        /\ h = "sub" => E \in SubEntries
    BY HandlerFacts
  <1>2. /\ O \in RootEntries /\ B \in RootEntries
        /\ h = "sub" => O \in SubEntries
    <2> HIDE DEF E
    <2> QED
      BY <1>1, WithEntries
  <1>3. /\ \A k \in DOMAIN O : O[k] \in disk
        /\ \A k \in DOMAIN B : B[k] \in disk
    BY <1>1 DEF Others, Before, Restrict
  <1>4. s = IF n \notin DOMAIN E THEN Links(E) \o Fail
            ELSE IF ~good THEN Links(B) \o Fail ELSE Links(O) \o Store(h, O, sub)
    <2>1. Readable(m_id[h]) /\ (n \in DOMAIN E => Readable(E[n]))
      BY ReadableFacts
    <2> QED
      BY <2>1 DEF RemoveEntry, Store, Removable
  <1>5. n \notin DOMAIN E => ~good
    BY DEF Removable
  <1>6. \A id \in Objects : Cardinality(Held(O, id)) \in Nat
    <2> HIDE DEF E
    <2> QED
      BY <1>1, HeldWith
  <1> HIDE DEF O, B, E, sub
  <1>7. /\ Links(B) \o Fail \in Seq(Steps) /\ Hopeless(Links(B) \o Fail, disk)
        /\ Links(E) \o Fail \in Seq(Steps) /\ Hopeless(Links(E) \o Fail, disk)
    BY <1>1, <1>2, <1>3, HopelessLinks
  <1>8. /\ Planned(Links(O) \o Store(h, O, sub), Commit(NewRoot(h, O)))
        /\ \A id \in Objects :
             Raises(Links(O) \o Store(h, O, sub), id) =
               Cardinality(Held(O, id)) - Cardinality(Held(O, id))
        /\ NewRoot(h, O) \in RootTrees
    <2>1. \A id \in Objects : Cardinality(Held(O, id)) <= Cardinality(Held(O, id))
      BY <1>6
    <2>2. h = "root" => sub = SubOf(Tree(O))
      BY DEF sub
    <2> QED
      BY <1>2, <1>3, <2>1, <2>2, LinkedStorePlan
  <1> HIDE DEF s, good
  <1>9. ~good => s \in Seq(Steps) /\ Hopeless(s, disk)
    BY <1>4, <1>7
  <1>10. good => /\ Planned(s, Commit(NewRoot(h, O))) /\ NewRoot(h, O) \in RootTrees
                 /\ \A id \in Objects : Raises(s, id) = 0
    BY <1>4, <1>5, <1>6, <1>8
  <1> QED
    BY <1>9, <1>10 DEF s, good, O, E

----------------------------------------------------------------------------
(* What users see of a plan.                                               *)

LEMMA ImageFacts ==
    ASSUME ~Nested
    PROVE  /\ Paths = { <<n>> : n \in Names } \cup { <<Dir, n>> : n \in Files }
           /\ \A c : /\ Image(c) = [p \in Paths |-> Image(c)[p]]
                     /\ \A n \in Names : Image(c)[<<n>>] = Look(Entries(TreeOf(c)), n)
                     /\ \A n \in Files :
                          Image(c)[<<Dir, n>>] = Look(Entries(SubOf(TreeOf(c))), n)
  <1>1. Paths = { <<n>> : n \in Names } \cup { <<Dir, n>> : n \in Files }
    BY DEF Paths, NamesIn
  <1>2. ASSUME NEW c PROVE Image(c) = [p \in Paths |-> Image(c)[p]]
    BY DEF Image
  <1>3. ASSUME NEW c, NEW n \in Names PROVE Image(c)[<<n>>] = Look(Entries(TreeOf(c)), n)
    <2>1. <<n>> \in Paths /\ Len(<<n>>) = 1 /\ <<n>>[1] = n
      BY <1>1
    <2> QED
      BY <2>1 DEF Image
  <1>4. ASSUME NEW c, NEW n \in Files
        PROVE  Image(c)[<<Dir, n>>] = Look(Entries(SubOf(TreeOf(c))), n)
    <2>1. <<Dir, n>> \in Paths /\ Len(<<Dir, n>>) = 2 /\ <<Dir, n>>[2] = n
      BY <1>1
    <2> QED
      BY <2>1 DEF Image
  <1> QED
    BY <1>1, <1>2, <1>3, <1>4

LEMMA LookFacts ==
    ASSUME NEW E, NEW n, NEW x, NEW k
    PROVE  /\ k # n => /\ Look(With(E, n, x), k) = Look(E, k)
                       /\ Look(Others(E, n), k) = Look(E, k)
           /\ Look(With(E, n, x), n) = IF x.type = "blob" THEN x.data ELSE "dir"
           /\ Look(Others(E, n), n) = "none"
  BY DEF Look, With, Others, Restrict

LEMMA PairFacts ==
    ASSUME NEW n, NEW k
    PROVE  /\ Len(<<n, k>>) = 2 /\ SubSeq(<<n, k>>, 1, 1) = <<n>>
           /\ SubSeq(<<n, k>>, 1, Len(<<n, k>>) - 1) = <<n>>
  <1> DEFINE t == <<n, k>>
             u == SubSeq(t, 1, 1)
  <1>1. t \in Seq({n, k}) /\ Len(t) = 2 /\ t[1] = n
    OBVIOUS
  <1> HIDE DEF t
  <1>2. u \in Seq({n, k}) /\ Len(u) = 1 /\ u[1] = n
    BY <1>1, SubSeqProperties
  <1>3. Len(t) - 1 = 1
    BY <1>1
  <1>4. u = <<n>>
    <2> HIDE DEF u
    <2> QED
      BY <1>2
  <1> QED
    BY <1>1, <1>3, <1>4 DEF t, u

\* Where users see entry n of directory h
PathOf(h, n) == IF h = "sub" THEN <<Dir, n>> ELSE <<n>>

LEMMA PathFacts ==
    ASSUME Settled, NEW h \in Handlers, NEW n \in NamesIn(h)
    PROVE  /\ PathOf(h, n) \in Paths
           /\ Image(master)[PathOf(h, n)] = Look(Entries(m_id[h]), n)
           /\ HasPlace(Image(master), PathOf(h, n))
  <1> DEFINE f == Image(master)
  <1>1. /\ h \in {"root", "sub"} /\ n \in Names /\ (h = "sub" => n \in Files)
        /\ h = "sub" => /\ m_id.sub \in SubTrees
                        /\ Dir \in DOMAIN Entries(m_id.root)
                        /\ Entries(m_id.root)[Dir] = m_id.sub
    BY HandlerFacts
  <1>2. /\ Paths = { <<k>> : k \in Names } \cup { <<Dir, k>> : k \in Files }
        /\ \A k \in Names : f[<<k>>] = Look(Entries(TreeOf(master)), k)
        /\ \A k \in Files : f[<<Dir, k>>] = Look(Entries(SubOf(TreeOf(master))), k)
    BY ImageFacts DEF Settled
  <1>3. /\ m_id.root = TreeOf(master) /\ m_id.sub = SubOf(TreeOf(master))
        /\ m_id["root"] = m_id.root /\ m_id["sub"] = m_id.sub
    BY SettledFacts
  <1> HIDE DEF f
  <1>4. CASE h = "root"
    <2>1. PathOf(h, n) = <<n>> /\ Len(<<n>>) = 1
      BY <1>4 DEF PathOf
    <2> QED
      BY <1>1, <1>2, <1>3, <1>4, <2>1 DEF HasPlace, f
  <1>5. CASE h = "sub"
    <2>1. PathOf(h, n) = <<Dir, n>> /\ Len(<<Dir, n>>) = 2
          /\ SubSeq(<<Dir, n>>, 1, Len(<<Dir, n>>) - 1) = <<Dir>>
      BY <1>5, PairFacts DEF PathOf
    <2>2. m_id.sub.type = "tree"
      BY <1>1, <1>5, SubRoot, TreeFacts
    <2>3. Look(Entries(m_id.root), Dir) = "dir"
      BY <1>1, <1>5, <2>2 DEF Look
    <2>4. f[<<Dir>>] = "dir"
      BY <1>2, <1>3, <2>3 DEF Names
    <2>5. HasPlace(f, <<Dir, n>>)
      BY <2>1, <2>4 DEF HasPlace
    <2> QED
      BY <1>1, <1>2, <1>3, <1>5, <2>1, <2>5 DEF f
  <1> QED
    BY <1>1, <1>4, <1>5

\* The new commit of the root differs at one path.
LEMMA NewRootImage ==
    ASSUME Settled, NEW h \in Handlers, NEW n \in NamesIn(h),
           NEW G \in RootEntries, h = "sub" => G \in SubEntries,
           h = "root" => \A k \in Files :
              Look(Entries(SubOf(Tree(G))), k) = Look(Entries(m_id.sub), k),
           \A k \in Names : k # n => Look(G, k) = Look(Entries(m_id[h]), k)
    PROVE  Image(Commit(NewRoot(h, G))) = [Image(master) EXCEPT ![PathOf(h, n)] = Look(G, n)]
  <1> DEFINE f == Image(master)
             T == NewRoot(h, G)
             C == Commit(T)
             g == Image(C)
             p == PathOf(h, n)
  <1>1. /\ h \in {"root", "sub"} /\ n \in Names /\ (h = "sub" => n \in Files)
        /\ h = "sub" => /\ m_id.sub \in SubTrees
                        /\ Dir \in DOMAIN Entries(m_id.root)
                        /\ Entries(m_id.root)[Dir] = m_id.sub
    BY HandlerFacts
  <1>2. /\ Paths = { <<k>> : k \in Names } \cup { <<Dir, k>> : k \in Files }
        /\ f = [q \in Paths |-> f[q]] /\ g = [q \in Paths |-> g[q]]
        /\ \A k \in Names : f[<<k>>] = Look(Entries(TreeOf(master)), k)
        /\ \A k \in Files : f[<<Dir, k>>] = Look(Entries(SubOf(TreeOf(master))), k)
        /\ \A k \in Names : g[<<k>>] = Look(Entries(TreeOf(C)), k)
        /\ \A k \in Files : g[<<Dir, k>>] = Look(Entries(SubOf(TreeOf(C))), k)
    BY ImageFacts DEF Settled
  <1>3. /\ m_id.root = TreeOf(master) /\ m_id.sub = SubOf(TreeOf(master))
        /\ m_id["root"] = m_id.root /\ m_id["sub"] = m_id.sub
        /\ m_id.root \in RootTrees \cup {Nil}
    BY SettledFacts
  <1>4. TreeOf(C) = T
    BY DEF Commit, TreeOf
  <1>5. p \in Paths
    BY PathFacts
  <1>6. CASE h = "root"
    <2>1. T = Tree(G) /\ Entries(T) = G
      BY <1>6, TreeIs DEF NewRoot
    <2>2. p = <<n>>
      BY <1>6 DEF PathOf
    <2>a. \A k \in Names : k # n => Look(G, k) = Look(Entries(TreeOf(master)), k)
      BY <1>3, <1>6
    <2>b. \A k \in Files : Look(Entries(SubOf(T)), k) = Look(Entries(SubOf(TreeOf(master))), k)
      BY <1>3, <1>6, <2>1
    <2> HIDE DEF f, g, T, C, p
    <2>3. \A k \in Names : g[<<k>>] = IF k = n THEN Look(G, n) ELSE f[<<k>>]
      <3> SUFFICES ASSUME NEW k \in Names
                   PROVE  g[<<k>>] = IF k = n THEN Look(G, n) ELSE f[<<k>>]
        OBVIOUS
      <3>1. g[<<k>>] = Look(Entries(T), k) /\ f[<<k>>] = Look(Entries(TreeOf(master)), k)
        BY <1>2, <1>4
      <3> QED
        BY <2>1, <2>a, <3>1
    <2>4. \A k \in Files : g[<<Dir, k>>] = f[<<Dir, k>>]
      BY <1>2, <1>4, <2>b
    <2>5. \A k \in Names : <<k>> = p <=> k = n
      BY <2>2
    <2>6. \A k \in Files : <<Dir, k>> # p
      BY <2>2
    <2>7. \A q \in Paths : g[q] = IF q = p THEN Look(G, n) ELSE f[q]
      <3> SUFFICES ASSUME NEW q \in Paths PROVE g[q] = IF q = p THEN Look(G, n) ELSE f[q]
        OBVIOUS
      <3>1. CASE \E k \in Names : q = <<k>>
        BY <2>3, <2>5, <3>1
      <3>2. CASE \E k \in Files : q = <<Dir, k>>
        BY <2>4, <2>6, <3>2
      <3> QED
        BY <1>2, <3>1, <3>2
    <2>8. g = [f EXCEPT ![p] = Look(G, n)]
      BY <1>2, <2>7
    <2> QED
      BY <2>8 DEF f, g, T, C, p
  <1>7. CASE h = "sub"
    <2> DEFINE R == Entries(m_id.root)
               S == Tree(G)
               W == With(R, Dir, S)
    <2>1. S \in SubTrees /\ S \in RootTrees /\ Entries(S) = G
      BY <1>7, TreeIs, SubRoot
    <2>2. R \in RootEntries
      BY <1>3, SubFacts
    <2>3. Dir \in Names /\ Dir \notin Files
      BY NamesAssumption DEF Names
    <2>4. W \in RootEntries
      <3> HIDE DEF R, S
      <3> QED
        BY <2>1, <2>2, <2>3, WithEntries
    <2>5. T = Tree(W) /\ Entries(T) = W /\ T \in RootTrees
      BY <1>7, <2>4, TreeIs DEF NewRoot
    <2>6. W[Dir] = S /\ Dir \in DOMAIN W /\ S \notin Blobs
      <3>1. S \notin Blobs
        BY <2>1, Disjoint
      <3> HIDE DEF S, R
      <3> QED
        BY <3>1 DEF With
    <2>7. S.type = "tree" /\ m_id.sub.type = "tree"
      BY <1>1, <1>7, <2>1, SubRoot, TreeFacts
    <2>8. \A k \in Names : Look(W, k) = Look(R, k)
      <3>1. Look(R, Dir) = "dir"
        BY <1>1, <1>7, <2>7 DEF Look
      <3> HIDE DEF S, R
      <3>2. Look(W, Dir) = "dir"
        BY <2>7, LookFacts
      <3>3. \A k \in Names : k # Dir => Look(W, k) = Look(R, k)
        BY LookFacts
      <3> HIDE DEF W
      <3> QED
        BY <3>1, <3>2, <3>3
    <2> HIDE DEF S, W
    <2>9. SubOf(T) = S
      BY <2>5, <2>6, SubFacts
    <2>10. p = <<Dir, n>>
      BY <1>7 DEF PathOf
    <2>a. \A k \in Names : k # n => Look(G, k) = Look(Entries(SubOf(TreeOf(master))), k)
      BY <1>3, <1>7
    <2> HIDE DEF f, g, T, C, p
    <2>11. \A k \in Names : g[<<k>>] = f[<<k>>]
      BY <1>2, <1>3, <1>4, <2>5, <2>8
    <2>12. \A k \in Files : g[<<Dir, k>>] = IF k = n THEN Look(G, n) ELSE f[<<Dir, k>>]
      BY <1>2, <1>4, <2>1, <2>9, <2>a DEF Names
    <2>13. \A k \in Names : <<k>> # p
      BY <2>10
    <2>14. \A k \in Files : <<Dir, k>> = p <=> k = n
      BY <2>10
    <2>15. \A q \in Paths : g[q] = IF q = p THEN Look(G, n) ELSE f[q]
      <3> SUFFICES ASSUME NEW q \in Paths PROVE g[q] = IF q = p THEN Look(G, n) ELSE f[q]
        OBVIOUS
      <3>1. CASE \E k \in Names : q = <<k>>
        BY <2>11, <2>13, <3>1
      <3>2. CASE \E k \in Files : q = <<Dir, k>>
        BY <2>12, <2>14, <3>2
      <3> QED
        BY <1>2, <3>1, <3>2
    <2>16. g = [f EXCEPT ![p] = Look(G, n)]
      BY <1>2, <2>15
    <2> QED
      BY <2>16 DEF f, g, T, C, p
  <1> QED
    BY <1>1, <1>6, <1>7

----------------------------------------------------------------------------
(* What user operations plan to do.                                        *)

Fits(s) ==
    /\ s \in Seq(Steps)
    /\ \/ Hopeless(s, disk)
       \/ /\ \E r \in DOMAIN s : Sound(s, r, disk, master, tags)
          /\ \A id \in Objects : Raises(s, id) = 0

LEMMA FitsPlanned ==
    ASSUME NEW s, NEW c, Planned(s, c), \A id \in Objects : Raises(s, id) = 0,
           Changes(Image(master), Image(c))
    PROVE  Fits(s) /\ Asked(s)
  BY DEF Planned, Fits, Asked

LEMMA FitsHopeless ==
    ASSUME NEW s \in Seq(Steps), Hopeless(s, disk)
    PROVE  Fits(s) /\ Asked(s)
  <1>1. ASSUME NEW i \in DOMAIN s PROVE s[i].op \in {"add", "link", "fail"}
    BY DEF Hopeless, Failing
  <1> QED
    BY <1>1 DEF Fits, Asked

\* One step, and then a plan that fails
LEMMA HopelessFirst ==
    ASSUME NEW op, NEW x, [op |-> op, id |-> x] \in Steps,
           \/ op = "link" /\ x \in disk
           \/ op = "add" /\ Content(x) = <<>>,
           NEW s \in Seq(Steps), Hopeless(s, disk)
    PROVE  Fits(Do(op, x) \o s) /\ Asked(Do(op, x) \o s)
  <1> DEFINE a == Do(op, x)
  <1>1. a \in Seq(Steps) /\ Len(a) = 1 /\ a[1].op = op /\ a[1].id = x
    BY DoFacts
  <1> HIDE DEF a
  <1>2. \A i \in 1..Len(a) :
           \/ a[i].op = "link" /\ a[i].id \in disk \cup {Nil, Missing}
           \/ a[i].op = "add" /\ Content(a[i].id) = <<>>
    <2>1. \A i \in 1..Len(a) : i = 1
      BY <1>1
    <2> HIDE DEF Nil, Missing
    <2> QED
      BY <1>1, <2>1
  <1>3. Hopeless(a \o s, disk)
    BY <1>1, <1>2, HopelessJoin
  <1>4. a \o s \in Seq(Steps)
    BY <1>1, ConcatProperties
  <1> DEFINE t == a \o s
  <1>5. t \in Seq(Steps) /\ Hopeless(t, disk)
    BY <1>3, <1>4
  <1> HIDE DEF t
  <1>6. Fits(t) /\ Asked(t)
    BY <1>5, FitsHopeless
  <1> QED
    BY <1>6 DEF a, t

\* One step for x, and then a plan that mentions x
LEMMA PlanFirst ==
    ASSUME Settled, NEW op, NEW x \in Objects, NEW s, NEW c, Planned(s, c),
           \/ op = "link" /\ x \in disk
           \/ op = "add" /\ Content(x) = <<>>,
           \A id \in Objects : Raises(s, id) = - Is(x, id),
           Changes(Image(master), Image(c))
    PROVE  Fits(Do(op, x) \o s) /\ Asked(Do(op, x) \o s)
  <1> DEFINE a == Do(op, x)
             t == a \o s
  <1>0. \A id : Is(x, id) \in {0, 1} /\ Is(x, x) = 1
    BY DEF Is
  <1>1. CASE op = "link" /\ x \in disk
    <2> DEFINE e == [op |-> op, id |-> x]
    <2>1. e \in Steps /\ e.op = "link" /\ e.id = x
      BY <1>1, StepIs DEF Ids
    <2>2. /\ a \in Seq(Steps) /\ Len(a) = 1 /\ a[1].op = "link" /\ a[1].id = x
          /\ \A i, m, g : Net(a, i, m, g) = Weight(e, i, m, g)
      BY <1>1, <2>1, DoFacts
    <2>3. \A i, m, g : Weight(e, i, m, g) = Is(x, i)
      BY <1>1 DEF Weight
    <2> HIDE DEF a, e
    <2>4. \A id : Raises(a, id) = Is(x, id)
      BY <2>2, <2>3 DEF Raises
    <2>5. \A i \in 1..Len(a) : a[i].op = "link" /\ a[i].id \in disk \cup {Nil, Missing}
      <3>1. \A i \in 1..Len(a) : i = 1
        BY <2>2
      <3> HIDE DEF Nil, Missing
      <3> QED
        BY <1>1, <2>2, <3>1
    <2>6. \A id \in Objects : Raises(a, id) + Raises(s, id) = 0
      BY <1>0, <2>4
    <2>7. \A id \in Objects : Raises(a, id) + Raises(s, id) <= 0
      BY <2>6
    <2>8. Planned(t, c) /\ \A id : Raises(t, id) = Raises(a, id) + Raises(s, id)
      BY <2>2, <2>5, <2>7, PlanLinks
    <2> HIDE DEF t
    <2>9. \A id \in Objects : Raises(t, id) = 0
      BY <2>6, <2>8
    <2>10. Fits(t) /\ Asked(t)
      BY <2>8, <2>9, FitsPlanned
    <2> QED
      BY <2>10 DEF a, t
  <1>2. CASE op = "add" /\ Content(x) = <<>>
    <2>1. \A id \in Objects : Occ(x, id) = 0
      <3>1. ToSet(Content(x)) = {}
        BY <1>2 DEF ToSet
      <3> QED
        BY <3>1, PlacesFacts DEF Ids
    <2>2. /\ \A id \in Objects : Raises(s, id) + Is(x, id) - Occ(x, id) = 0
          /\ Raises(s, x) <= -1
      BY <1>0, <2>1
    <2>3. \A id \in Objects : Raises(s, id) + Is(x, id) - Occ(x, id) <= 0
      BY <2>2
    <2>4. /\ Planned(Do("add", x) \o s, c)
          /\ \A id \in Objects :
               Raises(Do("add", x) \o s, id) = Raises(s, id) + Is(x, id) - Occ(x, id)
      BY <2>2, <2>3, PlanAdd
    <2>5. t = Do("add", x) \o s
      BY <1>2
    <2> HIDE DEF t
    <2>6. Planned(t, c) /\ \A id \in Objects : Raises(t, id) = 0
      BY <2>2, <2>4, <2>5
    <2>7. Fits(t) /\ Asked(t)
      BY <2>6, FitsPlanned
    <2> QED
      BY <2>7 DEF t
  <1> QED
    BY <1>1, <1>2

\* The subdirectory is what it was when the root's entry for it is what it was, and has no
\* files when it was not there, or was empty.
LEMMA SubUnchanged ==
    ASSUME Settled, NEW G \in RootEntries, NEW n \in Names,
           LET E == Entries(m_id.root) IN
           /\ \A k \in DOMAIN E \cup DOMAIN G : k # n =>
                 k \in DOMAIN E /\ k \in DOMAIN G /\ G[k] = E[k]
           /\ \A H \in {E, G} : n = Dir /\ Dir \in DOMAIN H =>
                 H[Dir] \in Blobs \/ DOMAIN Entries(H[Dir]) = {}
    PROVE  \A k \in Files : Look(Entries(SubOf(Tree(G))), k) = Look(Entries(m_id.sub), k)
  <1> DEFINE E == Entries(m_id.root)
  <1>1. /\ m_id.root \in RootTrees \cup {Nil} /\ m_id.sub = SubOf(m_id.root)
    BY SettledFacts
  <1>2. Tree(G) \in RootTrees /\ Entries(Tree(G)) = G
    BY TreeIs
  <1>3. CASE n # Dir
    <2>1. Dir \in DOMAIN E <=> Dir \in DOMAIN G
      BY <1>3
    <2>2. Dir \in DOMAIN E => E[Dir] = G[Dir]
      BY <1>3
    <2>3. SubOf(Tree(G)) = SubOf(m_id.root)
      BY <1>2, <2>1, <2>2 DEF SubOf
    <2> QED
      BY <1>1, <2>3
  <1>4. CASE n = Dir
    <2>1. ASSUME NEW T \in RootTrees \cup {Nil},
                 Dir \in DOMAIN Entries(T) =>
                    Entries(T)[Dir] \in Blobs \/ DOMAIN Entries(Entries(T)[Dir]) = {}
          PROVE  \A k : Look(Entries(SubOf(T)), k) = "none"
      <3>1. DOMAIN Entries(SubOf(T)) = {}
        <4>1. CASE SubOf(T) = Missing
          BY <4>1, NilFacts, NoEntriesFacts
        <4>2. CASE SubOf(T) # Missing
          <5>1. Dir \in DOMAIN Entries(T) /\ Entries(T)[Dir] = SubOf(T)
            BY <4>2, SubFacts
          <5>2. Entries(T)[Dir] \notin Blobs
            BY <4>2, <5>1, SubFacts
          <5> QED
            BY <2>1, <5>1, <5>2
        <4> QED
          BY <4>1, <4>2
      <3> QED
        BY <3>1 DEF Look
    <2>2. \A k : Look(Entries(SubOf(Tree(G))), k) = "none"
      BY <1>2, <1>4, <2>1
    <2>3. \A k : Look(Entries(SubOf(m_id.root)), k) = "none"
      BY <1>1, <1>4, <2>1
    <2> QED
      BY <1>1, <2>2, <2>3
  <1> QED
    BY <1>3, <1>4

\* What the entries of directories are, by their types
LEMMA EntryFacts ==
    ASSUME Settled, NEW h \in Handlers, NEW n \in DOMAIN Entries(m_id[h])
    PROVE  LET x == Entries(m_id[h])[n] IN
           /\ x \in Blobs \cup SubTrees /\ x \in disk /\ x \in Objects
           /\ x.type = "blob" => x \in Blobs
           /\ x.type # "blob" => x \in SubTrees /\ x.type = "tree"
           /\ x \in Blobs => x.data \in Data /\ x = Blob(x.data)
  <1> DEFINE E == Entries(m_id[h])
             x == E[n]
  <1>1. E \in RootEntries /\ x \in disk
    BY HandlerFacts
  <1> HIDE DEF E
  <1>2. x \in Blobs \cup SubTrees
    BY <1>1, EntriesFacts DEF E
  <1>3. x \in SubTrees => x.type = "tree" /\ x \in RootTrees
    BY SubRoot, TreeFacts
  <1>4. x \in Blobs => x.type = "blob" /\ x.data \in Data /\ x = Blob(x.data)
    BY DEF Blobs, Blob
  <1>5. x \in Objects
    BY <1>2, <1>3 DEF Objects
  <1> HIDE DEF x
  <1> QED
    BY <1>1, <1>2, <1>3, <1>4, <1>5 DEF x, E

\* A file is written.
LEMMA UpdateAsked ==
    ASSUME Settled, NEW h \in Handlers, NEW n \in NamesIn(h), NEW c \in Data,
           ~Refused(h, n, Blob(c), TRUE)
    PROVE  Changes(Image(master),
                   Image(Commit(NewRoot(h, With(Entries(m_id[h]), n, Blob(c))))))
  <1> DEFINE E == Entries(m_id[h])
             b == Blob(c)
             G == With(E, n, b)
             p == PathOf(h, n)
             f == Image(master)
             g == Image(Commit(NewRoot(h, G)))
  <1>1. /\ h \in {"root", "sub"} /\ n \in Names /\ E \in RootEntries
        /\ h = "sub" => n \in Files /\ E \in SubEntries
    BY HandlerFacts
  <1>2. b \in Blobs /\ b.type = "blob" /\ b.data = c
    BY DEF Blobs, Blob
  <1>3. n \in DOMAIN E => E[n] \in Blobs /\ Look(E, n) \in Data
    <2> SUFFICES ASSUME n \in DOMAIN E PROVE E[n] \in Blobs /\ Look(E, n) \in Data
      OBVIOUS
    <2>1. E[n].type = "blob"
      BY <1>2 DEF Refused
    <2>2. E[n] \in Blobs /\ E[n].data \in Data
      BY <2>1, EntryFacts
    <2> HIDE DEF E
    <2> QED
      BY <2>1, <2>2 DEF Look
  <1>4. Look(E, n) # "dir"
    <2>1. n \notin DOMAIN E => Look(E, n) = "none"
      BY DEF Look
    <2> HIDE DEF E
    <2> QED
      BY <1>3, <2>1, DataAssumption
  <1>5. G \in RootEntries /\ (h = "sub" => G \in SubEntries)
    <2> HIDE DEF E, b
    <2> QED
      BY <1>1, <1>2, WithEntries
  <1>6. /\ DOMAIN G = DOMAIN E \cup {n} /\ G[n] = b
        /\ \A k \in DOMAIN E : k # n => G[k] = E[k]
    BY DEF With
  <1>7. /\ \A k \in Names : k # n => Look(G, k) = Look(E, k)
        /\ Look(G, n) = c
    <2> HIDE DEF E, b
    <2> QED
      BY <1>2, LookFacts
  <1>8. h = "root" => \A k \in Files : Look(Entries(SubOf(Tree(G))), k) = Look(Entries(m_id.sub), k)
    <2> SUFFICES ASSUME h = "root"
                 PROVE  \A k \in Files : Look(Entries(SubOf(Tree(G))), k) = Look(Entries(m_id.sub), k)
      OBVIOUS
    <2>1. E = Entries(m_id.root)
      BY SettledFacts
    <2> HIDE DEF E, G, b
    <2>2. \A k \in DOMAIN E \cup DOMAIN G : k # n =>
             k \in DOMAIN E /\ k \in DOMAIN G /\ G[k] = E[k]
      BY <1>6
    <2>3. \A H \in {E, G} : n = Dir /\ Dir \in DOMAIN H => H[Dir] \in Blobs
      BY <1>2, <1>3, <1>6
    <2> QED
      BY <1>1, <1>5, <2>1, <2>2, <2>3, SubUnchanged
  <1>9. /\ p \in Paths /\ f[p] = Look(E, n) /\ HasPlace(f, p)
    BY PathFacts
  <1> HIDE DEF G
  <1>10. g = [f EXCEPT ![p] = c]
    <2>1. Image(Commit(NewRoot(h, G))) = [Image(master) EXCEPT ![PathOf(h, n)] = Look(G, n)]
      BY <1>5, <1>7, <1>8, NewRootImage
    <2> QED
      BY <1>7, <2>1
  <1> HIDE DEF f, g, p, E
  <1>11. Changes(f, g)
    BY <1>4, <1>9, <1>10 DEF Changes
  <1> QED
    BY <1>11 DEF f, g, G, E, b

\* An empty directory is made.
LEMMA MakeAsked ==
    ASSUME Settled, NEW h \in Handlers, Dir \in NamesIn(h),
           ~Refused(h, Dir, Tree(NoEntries), FALSE)
    PROVE  Changes(Image(master),
                   Image(Commit(NewRoot(h, With(Entries(m_id[h]), Dir, Tree(NoEntries))))))
  <1> DEFINE E == Entries(m_id[h])
             b == Tree(NoEntries)
             G == With(E, Dir, b)
             p == PathOf(h, Dir)
             f == Image(master)
             g == Image(Commit(NewRoot(h, G)))
  <1>1. /\ h = "root" /\ Dir \in Names /\ E \in RootEntries /\ Dir \notin DOMAIN E
    <2>1. /\ h \in {"root", "sub"} /\ E \in RootEntries /\ (h = "sub" => NamesIn(h) = Files)
      BY HandlerFacts
    <2>2. Dir \notin Files /\ Dir \in Names
      BY NamesAssumption DEF Names
    <2>3. Dir \notin DOMAIN E
      BY DEF Refused
    <2> QED
      BY <2>1, <2>2, <2>3
  <1>2. b \in SubTrees /\ b.type = "tree" /\ DOMAIN Entries(b) = {}
    <2>1. b \in SubTrees /\ Entries(b) = NoEntries /\ DOMAIN NoEntries = {}
      BY NoEntriesFacts, TreeIs
    <2> QED
      BY <2>1, SubRoot, TreeFacts
  <1>3. Look(E, Dir) = "none"
    BY <1>1 DEF Look
  <1>4. G \in RootEntries
    <2>1. Dir \notin Files
      BY NamesAssumption
    <2> HIDE DEF E, b
    <2> QED
      BY <1>1, <1>2, <2>1, WithEntries
  <1>5. /\ DOMAIN G = DOMAIN E \cup {Dir} /\ G[Dir] = b
        /\ \A k \in DOMAIN E : k # Dir => G[k] = E[k]
    BY DEF With
  <1>6. /\ \A k \in Names : k # Dir => Look(G, k) = Look(E, k)
        /\ Look(G, Dir) = "dir"
    <2> HIDE DEF E, b
    <2> QED
      BY <1>2, LookFacts
  <1>7. \A k \in Files : Look(Entries(SubOf(Tree(G))), k) = Look(Entries(m_id.sub), k)
    <2>1. E = Entries(m_id.root)
      BY <1>1, SettledFacts
    <2> HIDE DEF E, G, b
    <2>2. \A k \in DOMAIN E \cup DOMAIN G : k # Dir =>
             k \in DOMAIN E /\ k \in DOMAIN G /\ G[k] = E[k]
      BY <1>5
    <2>3. \A H \in {E, G} : Dir = Dir /\ Dir \in DOMAIN H =>
             H[Dir] \in Blobs \/ DOMAIN Entries(H[Dir]) = {}
      BY <1>1, <1>2, <1>5
    <2> QED
      BY <1>1, <1>4, <2>1, <2>2, <2>3, SubUnchanged
  <1>8. /\ p \in Paths /\ f[p] = Look(E, Dir) /\ HasPlace(f, p)
    BY PathFacts
  <1> HIDE DEF G
  <1>9. g = [f EXCEPT ![p] = "dir"]
    <2>1. Image(Commit(NewRoot(h, G))) = [Image(master) EXCEPT ![PathOf(h, Dir)] = Look(G, Dir)]
      <3>1. h # "sub"
        BY <1>1
      <3> QED
        BY <1>4, <1>6, <1>7, <3>1, NewRootImage
    <2> QED
      BY <1>6, <2>1
  <1> HIDE DEF f, g, p, E
  <1>10. Changes(f, g)
    BY <1>3, <1>8, <1>9 DEF Changes
  <1> QED
    BY <1>10 DEF f, g, G, E, b

\* A file, or an empty directory, is removed.
LEMMA RemoveAsked ==
    ASSUME Settled, NEW h \in Handlers, NEW n \in NamesIn(h), NEW type \in {"blob", "tree"},
           Removable(h, n, type)
    PROVE  Changes(Image(master), Image(Commit(NewRoot(h, Others(Entries(m_id[h]), n)))))
  <1> DEFINE E == Entries(m_id[h])
             G == Others(E, n)
             p == PathOf(h, n)
             f == Image(master)
             g == Image(Commit(NewRoot(h, G)))
  <1>1. /\ h \in {"root", "sub"} /\ n \in Names /\ E \in RootEntries
        /\ h = "sub" => n \in Files /\ E \in SubEntries
    BY HandlerFacts
  <1>2. n \in DOMAIN E /\ (E[n] \in Blobs \/ DOMAIN Entries(E[n]) = {})
    <2>1. /\ n \in DOMAIN E /\ E[n].type = type
          /\ type = "tree" => DOMAIN Entries(E[n]) = {}
      BY DEF Removable
    <2>2. E[n].type = "blob" => E[n] \in Blobs
      BY <2>1, EntryFacts
    <2> QED
      BY <2>1, <2>2
  <1>3. G \in RootEntries /\ (h = "sub" => G \in SubEntries)
    <2> HIDE DEF E
    <2> QED
      BY <1>1, WithEntries
  <1>4. /\ DOMAIN G = DOMAIN E \ {n}
        /\ \A k \in DOMAIN E : k # n => G[k] = E[k]
    BY DEF Others, Restrict
  <1>5. /\ \A k \in Names : k # n => Look(G, k) = Look(E, k)
        /\ Look(G, n) = "none"
    <2> HIDE DEF E
    <2> QED
      BY LookFacts
  <1>6. h = "root" =>
          /\ \A k \in Files : Look(Entries(SubOf(Tree(G))), k) = Look(Entries(m_id.sub), k)
          /\ n = Dir => \A k \in Files : Look(Entries(m_id.sub), k) = "none"
    <2> SUFFICES ASSUME h = "root"
                 PROVE  /\ \A k \in Files :
                             Look(Entries(SubOf(Tree(G))), k) = Look(Entries(m_id.sub), k)
                        /\ n = Dir => \A k \in Files : Look(Entries(m_id.sub), k) = "none"
      OBVIOUS
    <2>1. E = Entries(m_id.root)
      BY SettledFacts
    <2> HIDE DEF E, G
    <2>2. \A k \in DOMAIN E \cup DOMAIN G : k # n =>
             k \in DOMAIN E /\ k \in DOMAIN G /\ G[k] = E[k]
      BY <1>4
    <2>3. \A H \in {E, G} : n = Dir /\ Dir \in DOMAIN H =>
             H[Dir] \in Blobs \/ DOMAIN Entries(H[Dir]) = {}
      BY <1>2, <1>4
    <2>4. \A k \in Files : Look(Entries(SubOf(Tree(G))), k) = Look(Entries(m_id.sub), k)
      BY <1>1, <1>3, <2>1, <2>2, <2>3, SubUnchanged
    <2>5. n = Dir => \A k \in Files : Look(Entries(SubOf(Tree(G))), k) = "none"
      <3> SUFFICES ASSUME n = Dir
                   PROVE  \A k \in Files : Look(Entries(SubOf(Tree(G))), k) = "none"
        OBVIOUS
      <3>1. Tree(G) \in RootTrees /\ Entries(Tree(G)) = G /\ Dir \notin DOMAIN G
        BY <1>3, <1>4, TreeIs
      <3>2. SubOf(Tree(G)) = Missing
        BY <3>1, SubFacts
      <3>3. DOMAIN Entries(Missing) = {}
        BY NilFacts, NoEntriesFacts
      <3> QED
        BY <3>2, <3>3 DEF Look
    <2> QED
      BY <2>4, <2>5
  <1>7. /\ p \in Paths /\ f[p] = Look(E, n) /\ HasPlace(f, p)
    BY PathFacts
  <1>8. g = [f EXCEPT ![p] = "none"]
    <2> HIDE DEF G
    <2>1. Image(Commit(NewRoot(h, G))) = [Image(master) EXCEPT ![PathOf(h, n)] = Look(G, n)]
      BY <1>3, <1>5, <1>6, NewRootImage
    <2> QED
      BY <1>5, <2>1
  <1>9. ASSUME NEW q \in Paths, f[q] # "none", Len(q) > Len(p)
        PROVE  SubSeq(q, 1, Len(p)) # p
    <2>1. /\ Paths = { <<k>> : k \in Names } \cup { <<Dir, k>> : k \in Files }
          /\ \A k \in Files : f[<<Dir, k>>] = Look(Entries(SubOf(TreeOf(master))), k)
      BY ImageFacts DEF Settled
    <2>2. m_id.sub = SubOf(TreeOf(master))
      BY SettledFacts
    <2>3. p = IF h = "sub" THEN <<Dir, n>> ELSE <<n>>
      BY DEF PathOf
    <2> HIDE DEF f, p
    <2>4. \A k, m : Len(<<k>>) = 1 /\ Len(<<m, k>>) = 2
      OBVIOUS
    <2>5. CASE h = "sub"
      <3>1. Len(p) = 2
        BY <2>3, <2>4, <2>5
      <3>2. Len(q) \in {1, 2}
        BY <2>1, <2>4
      <3>3. Len(q) > 2 /\ ~(1 > 2) /\ ~(2 > 2)
        BY <1>9, <3>1
      <3> QED
        BY <3>2, <3>3
    <2>6. CASE h # "sub"
      <3>1. Len(p) = 1 /\ p = <<n>>
        BY <2>3, <2>4, <2>6
      <3>2. PICK k \in Files : q = <<Dir, k>>
        <4>1. Len(q) > 1 /\ ~(1 > 1)
          BY <1>9, <3>1
        <4> QED
          BY <2>1, <2>4, <4>1
      <3>3. SubSeq(q, 1, Len(p)) = <<Dir>>
        BY <3>1, <3>2, PairFacts
      <3>4. n # Dir
        <4>1. f[q] = Look(Entries(m_id.sub), k)
          BY <2>1, <2>2, <3>2
        <4> QED
          BY <1>1, <1>6, <1>9, <2>6, <4>1
      <3> QED
        BY <3>1, <3>3, <3>4
    <2> QED
      BY <2>5, <2>6
  <1> HIDE DEF f, g, p, E, G
  <1>10. Changes(f, g)
    BY <1>7, <1>8, <1>9 DEF Changes
  <1> QED
    BY <1>10 DEF f, g, G, E

LEMMA WriteFilePlan ==
    ASSUME Settled, NEW h \in Handlers, NEW n \in NamesIn(h), NEW c \in Data,
           NEW op, op = "add" \/ (op = "link" /\ Blob(c) \in disk)
    PROVE  LET s == Do(op, Blob(c)) \o UpdateEntry(h, n, Blob(c), TRUE)
           IN  Fits(s) /\ Asked(s)
  <1> DEFINE b == Blob(c)
             u == UpdateEntry(h, n, b, TRUE)
             C == Commit(NewRoot(h, With(Entries(m_id[h]), n, b)))
  <1>1. b \in Blobs /\ b \in Objects /\ Content(b) = <<>>
    <2>1. b \in Blobs
      BY DEF Blobs
    <2> HIDE DEF b
    <2> QED
      BY <2>1, BlobFacts DEF Objects
  <1>2. op \in {"add", "link"} /\ (op = "link" => b \in disk)
    OBVIOUS
  <1>3. [op |-> op, id |-> b] \in Steps
    <2>1. b \in Ids
      BY <1>1 DEF Ids
    <2> HIDE DEF b
    <2> QED
      BY <1>1, <1>2, <2>1, StepIs
  <1>4. ~Refused(h, n, b, TRUE) => Changes(Image(master), Image(C))
    BY UpdateAsked
  <1> HIDE DEF b
  <1>5. /\ Refused(h, n, b, TRUE) => u \in Seq(Steps) /\ Hopeless(u, disk)
        /\ ~Refused(h, n, b, TRUE) =>
             Planned(u, C) /\ \A id \in Objects : Raises(u, id) = - Is(b, id)
    BY <1>1, UpdatePlan
  <1> HIDE DEF u, C
  <1>6. CASE Refused(h, n, b, TRUE)
    <2>1. Fits(Do(op, b) \o u) /\ Asked(Do(op, b) \o u)
      BY <1>1, <1>2, <1>3, <1>5, <1>6, HopelessFirst
    <2> QED
      BY <2>1 DEF u, b
  <1>7. CASE ~Refused(h, n, b, TRUE)
    <2>1. Fits(Do(op, b) \o u) /\ Asked(Do(op, b) \o u)
      BY <1>1, <1>2, <1>4, <1>5, <1>7, PlanFirst
    <2> QED
      BY <2>1 DEF u, b
  <1> QED
    BY <1>6, <1>7

LEMMA CreateDirectoryPlan ==
    ASSUME Settled, NEW h \in Handlers, Dir \in NamesIn(h)
    PROVE  LET s == Do("add", Tree(NoEntries)) \o UpdateEntry(h, Dir, Tree(NoEntries), FALSE)
           IN  Fits(s) /\ Asked(s)
  <1> DEFINE b == Tree(NoEntries)
             u == UpdateEntry(h, Dir, b, FALSE)
             C == Commit(NewRoot(h, With(Entries(m_id[h]), Dir, b)))
  <1>1. b \in SubTrees /\ b \in Objects /\ Content(b) = <<>>
    <2>1. b \in SubTrees /\ b \in RootTrees /\ Entries(b) = NoEntries /\ DOMAIN NoEntries = {}
      BY NoEntriesFacts, TreeIs, SubRoot
    <2> HIDE DEF b
    <2>2. Content(b) \in Seq(Objects) /\ ToSet(Content(b)) = {}
      <3>1. ToSet(Content(b)) = { Entries(b)[n] : n \in DOMAIN Entries(b) }
        BY <2>1, ContentFacts
      <3>2. b \in Ids
        BY <2>1 DEF Ids, Objects
      <3> QED
        BY <2>1, <3>1, <3>2, ContentFacts
    <2> DEFINE l == Content(b)
    <2>3. l \in Seq(Objects) /\ ToSet(l) = {}
      BY <2>2
    <2> HIDE DEF l
    <2>4. l = <<>>
      <3>1. Len(l) \in Nat /\ DOMAIN l = 1..Len(l)
        BY <2>3
      <3>2. Len(l) = 0
        <4> SUFFICES ASSUME Len(l) > 0 PROVE FALSE
          BY <3>1
        <4>1. l[1] \in ToSet(l)
          BY <3>1 DEF ToSet
        <4> QED
          BY <2>3, <4>1
      <3> QED
        BY <2>3, <3>2, EmptySeq
    <2> QED
      BY <2>1, <2>4 DEF l, Objects
  <1>2. h # "sub" /\ Dir \notin Files
    <2>1. h = "sub" => NamesIn(h) = Files
      BY HandlerFacts
    <2> QED
      BY <2>1, NamesAssumption
  <1>3. [op |-> "add", id |-> b] \in Steps
    <2> HIDE DEF b
    <2> QED
      BY <1>1, StepIs
  <1>4. ~Refused(h, Dir, b, FALSE) => Changes(Image(master), Image(C))
    BY MakeAsked
  <1> HIDE DEF b
  <1>5. /\ Refused(h, Dir, b, FALSE) => u \in Seq(Steps) /\ Hopeless(u, disk)
        /\ ~Refused(h, Dir, b, FALSE) =>
             Planned(u, C) /\ \A id \in Objects : Raises(u, id) = - Is(b, id)
    BY <1>1, <1>2, UpdatePlan
  <1> HIDE DEF u, C
  <1>6. CASE Refused(h, Dir, b, FALSE)
    <2>1. Fits(Do("add", b) \o u) /\ Asked(Do("add", b) \o u)
      BY <1>1, <1>3, <1>5, <1>6, HopelessFirst
    <2> QED
      BY <2>1 DEF u, b
  <1>7. CASE ~Refused(h, Dir, b, FALSE)
    <2>1. Fits(Do("add", b) \o u) /\ Asked(Do("add", b) \o u)
      BY <1>1, <1>4, <1>5, <1>7, PlanFirst
    <2> QED
      BY <2>1 DEF u, b
  <1> QED
    BY <1>6, <1>7

LEMMA RemoveFits ==
    ASSUME Settled, NEW h \in Handlers, NEW n \in NamesIn(h), NEW type \in {"blob", "tree"}
    PROVE  Fits(RemoveEntry(h, n, type)) /\ Asked(RemoveEntry(h, n, type))
  <1> DEFINE u == RemoveEntry(h, n, type)
             C == Commit(NewRoot(h, Others(Entries(m_id[h]), n)))
  <1>1. /\ ~Removable(h, n, type) => u \in Seq(Steps) /\ Hopeless(u, disk)
        /\ Removable(h, n, type) => Planned(u, C) /\ \A id \in Objects : Raises(u, id) = 0
    BY RemovePlan
  <1>2. Removable(h, n, type) => Changes(Image(master), Image(C))
    BY RemoveAsked
  <1> HIDE DEF u, C
  <1>3. Fits(u) /\ Asked(u)
    BY <1>1, <1>2, FitsPlanned, FitsHopeless
  <1> QED
    BY <1>3 DEF u

\* A snapshot is written or removed; then what it was is given up.
LEMMA TagPlan ==
    ASSUME Settled, NEW t \in Tags, NEW id \in Commits \cup {Nil, Missing},
           id \in {ReadMaster, Missing} \/ \E u \in Tags : tags[u] = id
    PROVE  LET s == SetTag(t, id) \o UnlinkTag(t) IN
           /\ s \in Seq(Steps) /\ Sound(s, 1, disk, master, tags) /\ 1 \in DOMAIN s
           /\ \A i \in Objects : Raises(s, i) = - Is(id, i)
           /\ Asked(s)
  <1> DEFINE e == [op |-> "tag", id |-> id, tag |-> t]
             a == SetTag(t, id)
             b == UnlinkTag(t)
             old == tags[t]
  <1>1. old \in Commits \cup {Nil, Missing} /\ Missing \notin Objects
    BY Disjoint DEF Settled, Types
  <1>2. e \in Steps /\ e.op = "tag" /\ e.id = id /\ e.tag = t /\ a = <<e>>
    BY StepIs DEF SetTag
  <1>3. \A i : Weight(e, i, master, tags) = Is(old, i) - Is(id, i)
    BY DEF Weight
  <1> HIDE DEF e, a
  <1>4. /\ a \in Seq(Steps) /\ Len(a) = 1 /\ a[1] = e
        /\ \A i : Raises(a, i) = Is(old, i) - Is(id, i)
    BY <1>2, <1>3, NetOne DEF Raises
  <1>5. /\ b \in Seq(Steps) /\ \A i \in 1..Len(b) : b[i].op = "unlink"
        /\ \A i \in Objects : Raises(b, i) = - Is(old, i)
    <2>1. CASE old = Missing
      <3>1. b = <<>>
        BY <2>1 DEF UnlinkTag
      <3>2. \A i \in Objects : Is(old, i) = 0
        BY <1>1, <2>1 DEF Is
      <3>3. \A i : Raises(<<>>, i) = 0
        BY NetEmpty DEF Raises
      <3>4. \A i \in Objects : Raises(b, i) = - Is(old, i)
        BY <3>1, <3>2, <3>3
      <3>5. b \in Seq(Steps) /\ \A i \in 1..Len(b) : b[i].op = "unlink"
        BY <3>1
      <3> QED
        BY <3>4, <3>5
    <2>2. CASE old # Missing
      <3> DEFINE x == [op |-> "unlink", id |-> old]
      <3>1. old \in Ids
        BY <1>1 DEF Ids, Objects
      <3>2. x \in Steps
        BY <3>1, StepIs
      <3>3. b = Do("unlink", old)
        BY <2>2 DEF UnlinkTag
      <3>4. /\ b \in Seq(Steps) /\ Len(b) = 1 /\ b[1].op = "unlink"
            /\ \A i, m, g : Net(b, i, m, g) = Weight(x, i, m, g)
        BY <3>2, <3>3, DoFacts
      <3>5. \A i, m, g : Weight(x, i, m, g) = - Is(old, i)
        BY DEF Weight
      <3> HIDE DEF b, x
      <3>6. \A i \in 1..Len(b) : b[i].op = "unlink"
        <4>1. \A i \in 1..Len(b) : i = 1
          BY <3>4
        <4> QED
          BY <3>4, <4>1
      <3>7. \A i \in Objects : Raises(b, i) = - Is(old, i)
        BY <3>4, <3>5 DEF Raises
      <3> QED
        BY <3>4, <3>6, <3>7
    <2> QED
      BY <2>1, <2>2
  <1> HIDE DEF b
  <1> DEFINE s == a \o b
  <1>6. Joined(s, a, b)
    BY <1>4, <1>5, JoinFacts
  <1>7. \A i \in Objects : Raises(s, i) = - Is(id, i)
    <2> SUFFICES ASSUME NEW i \in Objects PROVE Raises(s, i) = - Is(id, i)
      OBVIOUS
    <2>1. Raises(s, i) = Raises(a, i) + Raises(b, i)
      BY <1>4, <1>5, NetConcat DEF Raises
    <2>2. Is(old, i) \in Int /\ Is(id, i) \in Int
      BY DEF Is
    <2> HIDE DEF s, old
    <2> QED
      BY <1>4, <1>5, <2>1, <2>2
  <1> HIDE DEF s, old
  <1>8. s \in Seq(Steps) /\ 1 \in DOMAIN s /\ DOMAIN s = 1..Len(s) /\ Len(s) \in Nat
        /\ s[1].op = "tag" /\ s[1].id = id
    <2>1. s \in Seq(Steps) /\ DOMAIN s = 1..(1 + Len(b)) /\ Len(b) \in Nat /\ s[1] = a[1]
      BY <1>4, <1>6 DEF Joined
    <2> QED
      BY <1>2, <1>4, <2>1
  <1>9. \A i \in DOMAIN s : i > 1 => s[i].op = "unlink"
    <2> SUFFICES ASSUME NEW i \in DOMAIN s, i > 1 PROVE s[i].op = "unlink"
      OBVIOUS
    <2>1. i \in 1..(1 + Len(b)) /\ Len(b) \in Nat
      BY <1>4, <1>6 DEF Joined
    <2>2. i - 1 \in 1..Len(b) /\ 1 + (i - 1) = i
      BY <2>1
    <2>3. s[1 + (i - 1)] = b[i - 1]
      BY <1>4, <1>6, <2>2 DEF Joined
    <2> QED
      BY <1>5, <2>2, <2>3
  <1>10. Writing(s, 1)
    <2>1. \A i \in DOMAIN s : s[i].op # "succeed"
      <3> SUFFICES ASSUME NEW i \in DOMAIN s PROVE s[i].op # "succeed"
        OBVIOUS
      <3>1. i = 1 \/ i > 1
        BY <1>8
      <3> QED
        BY <1>8, <1>9, <3>1
    <2>2. \A i \in DOMAIN s : ~(i < 1)
      BY <1>8
    <2> QED
      BY <1>8, <1>9, <2>1, <2>2 DEF Writing
  <1>11. Sound(s, 1, disk, master, tags)
    <2>1. Covered(s, 1, master, tags)
      <3>1. From(s, 1) = s
        BY <1>8, FromFirst
      <3>2. \A i \in Objects : Net(From(s, 1), i, master, tags) <= 0
        BY <1>7, <3>1 DEF Is, Raises
      <3> QED
        BY <3>2 DEF Covered
    <2>2. Linkable(s, 1, disk)
      BY DEF Linkable
    <2> QED
      BY <1>10, <2>1, <2>2 DEF Sound
  <1>12. Asked(s)
    <2> SUFFICES ASSUME NEW i \in DOMAIN s
                 PROVE  /\ s[i].op # "master"
                        /\ s[i].op = "tag" =>
                             s[i].id \in {ReadMaster, Missing} \/ \E u \in Tags : tags[u] = s[i].id
      BY DEF Asked
    <2>1. i = 1 \/ i > 1
      BY <1>8
    <2> QED
      BY <1>8, <1>9, <2>1
  <1> QED
    BY <1>7, <1>8, <1>11, <1>12 DEF s, a, b

LEMMA RemoveSnapshotPlan ==
    ASSUME Settled, NEW t \in Tags
    PROVE  Fits(SetTag(t, Missing) \o UnlinkTag(t)) /\ Asked(SetTag(t, Missing) \o UnlinkTag(t))
  <1> DEFINE s == SetTag(t, Missing) \o UnlinkTag(t)
  <1>1. /\ s \in Seq(Steps) /\ Sound(s, 1, disk, master, tags) /\ 1 \in DOMAIN s
        /\ \A i \in Objects : Raises(s, i) = - Is(Missing, i)
        /\ Asked(s)
    BY TagPlan
  <1>2. \A i \in Objects : Is(Missing, i) = 0
    BY Disjoint DEF Is
  <1> HIDE DEF s
  <1>3. Fits(s)
    BY <1>1, <1>2 DEF Fits
  <1> QED
    BY <1>1, <1>3 DEF s

LEMMA UpdateTagPlan ==
    ASSUME Settled, NEW t \in Tags, NEW id, id = ReadMaster \/ \E u \in Tags : tags[u] = id,
           id # Missing
    PROVE  Fits(UpdateTag(t, id)) /\ Asked(UpdateTag(t, id))
  <1> DEFINE a == Do("link", id)
             s == SetTag(t, id) \o UnlinkTag(t)
             e == [op |-> "link", id |-> id]
             w == a \o s
  <1>1. id \in Commits \cup {Nil} /\ id \in disk \cup {Nil, Missing} /\ id \in Ids
    <2>1. master \in Commits \cup {Nil} /\ \A u \in Tags : tags[u] \in Commits \cup {Nil, Missing}
      BY DEF Settled, Types
    <2>2. master \in disk \cup {Nil} /\ \A u \in Tags : tags[u] \in disk \cup {Nil, Missing}
      BY SettledFacts
    <2>3. ReadMaster \in {master, Nil}
      BY DEF ReadMaster
    <2> HIDE DEF Nil, Missing
    <2> QED
      BY <2>1, <2>2, <2>3 DEF Ids, Objects
  <1>2. /\ s \in Seq(Steps) /\ Sound(s, 1, disk, master, tags) /\ 1 \in DOMAIN s
        /\ \A i \in Objects : Raises(s, i) = - Is(id, i)
        /\ Asked(s)
    <2>1. id \in Commits \cup {Nil, Missing} /\ (id \in {ReadMaster, Missing} \/ \E u \in Tags : tags[u] = id)
      BY <1>1
    <2> QED
      BY <2>1, TagPlan
  <1>3. /\ a \in Seq(Steps) /\ Len(a) = 1 /\ a[1].op = "link" /\ a[1].id = id
        /\ \A i : Raises(a, i) = Is(id, i)
    <2>1. e \in Steps
      BY <1>1, StepIs
    <2>2. /\ a \in Seq(Steps) /\ Len(a) = 1 /\ a[1].op = "link" /\ a[1].id = id
          /\ \A i, m, g : Net(a, i, m, g) = Weight(e, i, m, g)
      BY <2>1, DoFacts
    <2>3. \A i, m, g : Weight(e, i, m, g) = Is(id, i)
      BY DEF Weight
    <2> HIDE DEF a, e
    <2> QED
      BY <2>2, <2>3 DEF Raises
  <1>4. UpdateTag(t, id) = w
    <2> DEFINE b == SetTag(t, id)
               c == UnlinkTag(t)
    <2>1. UpdateTag(t, id) = (a \o b) \o c
      BY DEF UpdateTag
    <2>2. b \in Seq(Steps) /\ c \in Seq(Steps)
      <3>1. [op |-> "tag", id |-> id, tag |-> t] \in Steps
        BY <1>1, StepIs
      <3>2. b \in Seq(Steps)
        BY <3>1 DEF SetTag
      <3>3. tags[t] \in Ids
        BY DEF Settled, Types, Ids, Objects
      <3>4. [op |-> "unlink", id |-> tags[t]] \in Steps
        BY <3>3, StepIs
      <3>5. c \in Seq(Steps)
        BY <3>4 DEF UnlinkTag, Do
      <3> QED
        BY <3>2, <3>5
    <2> HIDE DEF a, b, c
    <2>a. a \in Seq(Steps) /\ b \in Seq(Steps) /\ c \in Seq(Steps)
      BY <1>3, <2>2
    <2>3. (a \o b) \o c = a \o (b \o c)
      BY <2>a, ConcatAssociative
    <2> QED
      BY <2>1, <2>3 DEF b, c
  <1> HIDE DEF a, s
  <1>5. \A i \in 1..Len(a) : a[i].op = "link" /\ a[i].id \in disk \cup {Nil, Missing}
    <2>1. \A i \in 1..Len(a) : i = 1
      BY <1>3
    <2> HIDE DEF Nil, Missing
    <2> QED
      BY <1>1, <1>3, <2>1
  <1>6. /\ \A i \in Objects : Raises(w, i) = 0
        /\ \A i \in Objects : Net(w, i, master, tags) <= 0
    <2>1. \A i \in Objects : Raises(w, i) = Raises(a, i) + Raises(s, i)
      BY <1>2, <1>3, NetConcat DEF Raises
    <2>2. \A i : Is(id, i) \in Int
      BY DEF Is
    <2> HIDE DEF w
    <2>3. \A i \in Objects : Raises(w, i) = 0
      BY <1>2, <1>3, <2>1, <2>2
    <2> QED
      BY <2>3 DEF Raises
  <1>7. Sound(w, Len(a) + 1, disk, master, tags) /\ Len(a) + 1 \in DOMAIN w
    BY <1>2, <1>3, <1>5, <1>6, SoundLinks
  <1>8. w \in Seq(Steps)
    BY <1>2, <1>3, ConcatProperties
  <1>9. Asked(w)
    <2>1. Joined(w, a, s)
      BY <1>2, <1>3, JoinFacts
    <2> HIDE DEF w
    <2> SUFFICES ASSUME NEW i \in DOMAIN w
                 PROVE  /\ w[i].op = "master" => Changes(Image(master), Image(w[i].id))
                        /\ w[i].op = "tag" =>
                             w[i].id \in {ReadMaster, Missing} \/ \E u \in Tags : tags[u] = w[i].id
      BY DEF Asked
    <2>2. i \in 1..(1 + Len(s)) /\ Len(s) \in Nat /\ DOMAIN s = 1..Len(s)
      BY <1>3, <2>1 DEF Joined
    <2>3. CASE i = 1
      <3>1. w[1] = a[1]
        BY <1>3, <2>1 DEF Joined
      <3> QED
        BY <1>3, <2>3, <3>1
    <2>4. CASE i # 1
      <3>1. i - 1 \in DOMAIN s /\ 1 + (i - 1) = i
        BY <2>2, <2>4
      <3>2. w[1 + (i - 1)] = s[i - 1]
        BY <1>3, <2>1, <2>2, <3>1 DEF Joined
      <3>3. w[i] = s[i - 1]
        BY <3>1, <3>2
      <3> QED
        BY <1>2, <3>1, <3>3 DEF Asked
    <2> QED
      BY <2>3, <2>4
  <1> HIDE DEF w
  <1>10. Fits(w)
    BY <1>6, <1>7, <1>8 DEF Fits
  <1> QED
    BY <1>4, <1>9, <1>10

\* What users ask for
UserOp ==
    \/ \E h \in Handlers : \E n \in NamesIn(h) :
         \/ \E x \in Data : CreateFile(h, n, x)
         \/ \E g \in Handlers : \E k \in Files : CopyFile(h, n, g, k)
         \/ RemoveFile(h, n)
    \/ \E h \in Handlers : CreateDirectory(h) \/ RemoveDirectory(h)
    \/ \E t \in Tags : CreateSnapshot(t) \/ RemoveSnapshot(t)
    \/ \E t, u \in Tags : CopySnapshot(t, u)

LEMMA UserOpPlan ==
    ASSUME Settled, UserOp
    PROVE  \E s : Fits(s) /\ Asked(s) /\ Begin(s)
  <1>1. CASE \E h \in Handlers : \E n \in NamesIn(h) : \E x \in Data : CreateFile(h, n, x)
    <2>1. PICK h \in Handlers : \E n \in NamesIn(h) : \E x \in Data : CreateFile(h, n, x)
      BY <1>1
    <2>2. PICK n \in NamesIn(h) : \E x \in Data : CreateFile(h, n, x)
      BY <2>1
    <2> QED
      BY <2>2, WriteFilePlan DEF CreateFile
  <1>2. CASE \E h \in Handlers : \E n \in NamesIn(h) : \E g \in Handlers : \E k \in Files :
               CopyFile(h, n, g, k)
    <2>0. PICK h \in Handlers : \E n \in NamesIn(h) : \E g \in Handlers : \E k \in Files :
             CopyFile(h, n, g, k)
      BY <1>2
    <2>1. PICK n \in NamesIn(h) : \E g \in Handlers : \E k \in Files : CopyFile(h, n, g, k)
      BY <2>0
    <2>a. PICK g \in Handlers, k \in Files : CopyFile(h, n, g, k)
      BY <2>1
    <2> DEFINE x == Entries(m_id[g])[k]
               s == Do("link", x) \o UpdateEntry(h, n, x, TRUE)
    <2>2. k \in DOMAIN Entries(m_id[g]) /\ x.type = "blob" /\ Begin(s)
      BY <2>a DEF CopyFile
    <2>3. x.data \in Data /\ x = Blob(x.data) /\ x \in disk
      BY <2>2, EntryFacts
    <2> HIDE DEF x
    <2>4. Fits(Do("link", Blob(x.data)) \o UpdateEntry(h, n, Blob(x.data), TRUE))
          /\ Asked(Do("link", Blob(x.data)) \o UpdateEntry(h, n, Blob(x.data), TRUE))
      BY <2>3, WriteFilePlan
    <2>5. Fits(s) /\ Asked(s)
      BY <2>3, <2>4
    <2> QED
      BY <2>2, <2>5
  <1>3. CASE \E h \in Handlers : \E n \in NamesIn(h) : RemoveFile(h, n)
    BY <1>3, RemoveFits DEF RemoveFile
  <1>4. CASE \E h \in Handlers : CreateDirectory(h)
    BY <1>4, CreateDirectoryPlan DEF CreateDirectory
  <1>5. CASE \E h \in Handlers : RemoveDirectory(h)
    BY <1>5, RemoveFits DEF RemoveDirectory
  <1>6. CASE \E t \in Tags : CreateSnapshot(t)
    <2>1. ReadMaster # Missing
      BY SettledFacts, CommitFacts, NilFacts DEF ReadMaster
    <2> QED
      BY <1>6, <2>1, UpdateTagPlan DEF CreateSnapshot
  <1>7. CASE \E t \in Tags : RemoveSnapshot(t)
    BY <1>7, RemoveSnapshotPlan DEF RemoveSnapshot
  <1>8. CASE \E t, u \in Tags : CopySnapshot(t, u)
    BY <1>8, UpdateTagPlan DEF CopySnapshot
  <1> QED
    BY <1>1, <1>2, <1>3, <1>4, <1>5, <1>6, <1>7, <1>8 DEF UserOp

----------------------------------------------------------------------------
(* What the invariant says about objects.                                  *)

LEMMA UsesFacts ==
    ASSUME NEW S, S \subseteq Objects, IsFiniteSet(S), NEW id, NEW m, NEW g
    PROVE  /\ Uses(S, id, m, g) \in Nat /\ Refs(id, m, g) \in Nat
           /\ Cardinality(Mentions(S, id)) \in Nat
           /\ Uses(S, id, m, g) = Cardinality(Mentions(S, id)) + Refs(id, m, g)
           /\ Uses(S, id, m, g) = 0 <=>
                /\ \A o \in S : id \notin ToSet(Content(o))
                /\ m # id /\ \A t \in Tags : g[t] # id
  <1> DEFINE T == { t \in Tags : g[t] = id }
             a == Cardinality(Mentions(S, id))
             b == Cardinality(T)
  <1>1. a \in Nat /\ (a = 0 <=> \A o \in S : id \notin ToSet(Content(o)))
    BY MentionsFacts
  <1>2. IsFiniteSet(T) /\ b \in Nat
    BY TagsAssumption, FS_Subset, FS_CardinalityType
  <1>3. b = 0 <=> T = {}
    BY <1>2, FS_EmptySet
  <1>4. T = {} <=> \A t \in Tags : g[t] # id
    OBVIOUS
  <1>5. Is(m, id) \in {0, 1} /\ (Is(m, id) = 0 <=> m # id)
    BY DEF Is
  <1>6. Refs(id, m, g) = b + Is(m, id) /\ Uses(S, id, m, g) = a + Refs(id, m, g)
    BY DEF Refs, Uses
  <1> HIDE DEF a, b, T
  <1>7. /\ Refs(id, m, g) \in Nat /\ Uses(S, id, m, g) \in Nat
        /\ Uses(S, id, m, g) = 0 <=> a = 0 /\ b = 0 /\ Is(m, id) = 0
    <2> DEFINE u == Uses(S, id, m, g)
               v == Refs(id, m, g)
               i == Is(m, id)
    <2>1. v = b + i /\ u = a + v /\ i \in {0, 1}
      BY <1>5, <1>6
    <2> HIDE DEF u, v, i
    <2>2. v \in Nat /\ u \in Nat /\ (u = 0 <=> a = 0 /\ b = 0 /\ i = 0)
      BY <1>1, <1>2, <2>1
    <2> QED
      BY <2>2 DEF u, v, i
  <1> QED
    BY <1>1, <1>3, <1>4, <1>5, <1>6, <1>7 DEF a

LEMMA LiveFacts ==
    ASSUME Types
    PROVE  /\ Live \subseteq disk /\ Live \subseteq Objects /\ IsFiniteSet(Live)
           /\ DOMAIN m_refCounter \subseteq Live
           /\ todo \in Seq(Steps)
           /\ \A id : Known(id) \in Nat /\ (~Tracked(id) => Known(id) = 0)
           /\ \A id : Tracked(id) => Known(id) = m_refCounter[id] /\ Known(id) # 0
           /\ \A id : Tracked(id) => id \in Live /\ id \in Objects
           /\ \A id : Uses(Live, id, master, tags) \in Nat
           /\ \A id : Net(todo, id, master, tags) \in Int
  <1>1. /\ Live \subseteq disk /\ Live \subseteq Objects
        /\ DOMAIN m_refCounter \subseteq Live /\ todo \in Seq(Steps)
    BY DEF Types, Live
  <1>2. IsFiniteSet(Live)
    BY <1>1, FS_Subset DEF Types
  <1>3. \A id : Tracked(id) => m_refCounter[id] \in Nat \ {0}
    BY DEF Types, Tracked
  <1>4. /\ \A id : Known(id) \in Nat /\ (~Tracked(id) => Known(id) = 0)
        /\ \A id : Tracked(id) => Known(id) = m_refCounter[id] /\ Known(id) # 0
    BY <1>3 DEF Known
  <1>5. \A id : Tracked(id) => id \in Live /\ id \in Objects
    BY <1>1 DEF Tracked
  <1>6. \A id : Uses(Live, id, master, tags) \in Nat
    BY <1>1, <1>2, UsesFacts
  <1>7. \A id : Net(todo, id, master, tags) \in Int
    BY <1>1, NetType
  <1> QED
    BY <1>1, <1>2, <1>4, <1>5, <1>6, <1>7

\* The stages, one by one
LEMMA StageFacts ==
    ASSUME Types, Staged
    PROVE  /\ Failing(todo) <=> Hopeless(todo, disk)
           /\ ~Cleaning(todo) => Erasing = {} /\ Live = disk
           /\ ~Failing(todo) => \A id \in Objects : Net(todo, id, master, tags) <= 0
           /\ ~Cleaning(todo) /\ ~Failing(todo) =>
                \E r \in DOMAIN todo : Sound(todo, r, disk, master, tags)
  <1>1. todo \in Seq(Steps)
    BY DEF Types
  <1>2. Failing(todo) <=> Hopeless(todo, disk)
    BY <1>1, Stages DEF Staged, Hopeless
  <1>3. ~Cleaning(todo) => Erasing = {}
    <2> SUFFICES ASSUME ~Cleaning(todo), NEW i \in DOMAIN todo, todo[i].op = "erase" PROVE FALSE
      BY DEF Erasing
    <2>1. CASE Hopeless(todo, disk)
      BY <2>1 DEF Hopeless, Failing
    <2>2. CASE \E r \in DOMAIN todo : Sound(todo, r, disk, master, tags)
      <3>1. PICK r \in DOMAIN todo : Writing(todo, r)
        BY <2>2 DEF Sound
      <3>2. r \in Int /\ i \in Int
        <4>1. DOMAIN todo = 1..Len(todo)
          BY <1>1
        <4> QED
          BY <4>1
      <3>3. i < r \/ i = r \/ i > r
        BY <3>2
      <3> QED
        BY <3>1, <3>3 DEF Writing
    <2> QED
      BY <2>1, <2>2 DEF Staged
  <1>4. ASSUME ~Failing(todo), NEW id \in Objects PROVE Net(todo, id, master, tags) <= 0
    <2>1. CASE Cleaning(todo)
      BY <1>1, <2>1, CleaningNet
    <2>2. CASE \E r \in DOMAIN todo : Sound(todo, r, disk, master, tags)
      <3>1. PICK r \in DOMAIN todo : Covered(todo, r, master, tags)
        BY <2>2 DEF Sound
      <3>2. 1 \in 1..r
        <4>1. DOMAIN todo = 1..Len(todo) /\ Len(todo) \in Nat
          BY <1>1
        <4> QED
          BY <4>1
      <3>3. From(todo, 1) = todo
        BY <1>1, FromFirst
      <3> QED
        BY <3>1, <3>2, <3>3 DEF Covered
    <2> QED
      BY <1>2, <1>4, <2>1, <2>2 DEF Staged
  <1> QED
    BY <1>2, <1>3, <1>4 DEF Staged, Live

\* What does not exist, or is being removed, is not mentioned.
LEMMA NotMentioned ==
    ASSUME Active
    PROVE  /\ \A id \in Objects \ Live : Uses(Live, id, master, tags) = 0
           /\ \A o \in Live : ToSet(Content(o)) \subseteq Live
           /\ Roots \subseteq Live \cup {Nil, Missing}
  <1> DEFINE u(id) == Uses(Live, id, master, tags)
  <1>1. ASSUME NEW id \in Objects, id \notin Live PROVE u(id) = 0
    <2>1. /\ Known(id) = 0 /\ u(id) \in Nat
      BY <1>1, LiveFacts DEF Active
    <2> HIDE DEF u
    <2>2. CASE Failing(todo)
      <3>1. Known(id) >= u(id)
        BY <1>1, <2>2 DEF Active, Counted, u
      <3> QED
        BY <2>1, <3>1
    <2>3. CASE ~Failing(todo)
      <3> DEFINE n == Net(todo, id, master, tags)
      <3>1. n <= 0 /\ n \in Int
        BY <2>3, StageFacts, LiveFacts DEF Active
      <3>2. Known(id) + n >= u(id)
        BY <1>1, <2>3 DEF Active, Counted, u
      <3> HIDE DEF n
      <3> QED
        BY <2>1, <3>1, <3>2
    <2> QED
      BY <2>2, <2>3
  <1>2. Live \subseteq Objects /\ IsFiniteSet(Live)
    BY LiveFacts DEF Active
  <1>3. \A id \in Objects : id \notin Live =>
           /\ \A o \in Live : id \notin ToSet(Content(o))
           /\ master # id /\ \A t \in Tags : tags[t] # id
    BY <1>1, <1>2, UsesFacts
  <1>4. \A o \in Live : ToSet(Content(o)) \subseteq Objects
    <2>1. \A o \in Live : Content(o) \in Seq(Objects)
      BY <1>2, ContentFacts DEF Ids
    <2> QED
      BY <2>1 DEF ToSet
  <1>5. Roots \subseteq Live \cup {Nil, Missing}
    <2>1. master \in Objects \cup {Nil} /\ \A t \in Tags : tags[t] \in Objects \cup {Nil, Missing}
      BY DEF Active, Types, Objects
    <2>2. DOMAIN tags = Tags
      BY DEF Active, Types
    <2> HIDE DEF Nil, Missing
    <2> QED
      BY <1>3, <2>1, <2>2 DEF Roots, Range
  <1> QED
    BY <1>1, <1>3, <1>4, <1>5

LEMMA IdleSettled ==
    ASSUME Active, todo = <<>>, ~Nested
    PROVE  Settled
  <1>1. Erasing = {} /\ Live = disk
    BY DEF Erasing, Live
  <1>2. m_commitId = master /\ m_id = View(master)
    BY DEF Active, Current
  <1> QED
    BY <1>1, <1>2, NotMentioned DEF Active, Settled

----------------------------------------------------------------------------
(* Each step keeps the invariant.                                          *)

\* What the first step is, by the stage
LEMMA HeadFacts ==
    ASSUME Active, todo # <<>>
    PROVE  /\ Head(todo) \in Steps /\ This \in Ids /\ todo[1] = Head(todo)
           /\ Head(todo).op \in {"add", "erase"} => This \in Objects
           /\ Tail(todo) \in Seq(Steps)
           /\ Len(todo) \in Nat \ {0} /\ DOMAIN todo = 1..Len(todo) /\ 1 \in DOMAIN todo
           /\ Cleaning(todo) => Head(todo).op \in {"unlink", "erase", "succeed"}
           /\ Failing(todo) => Head(todo).op \in {"add", "link", "fail"}
           /\ \A id : Net(todo, id, master, tags) =
                        Weight(Head(todo), id, master, tags) + Net(Tail(todo), id, master, tags)
           /\ \A id : Net(Tail(todo), id, master, tags) \in Int
           /\ \A id : Weight(Head(todo), id, master, tags) \in Int
  <1>1. todo \in Seq(Steps)
    BY DEF Active, Types
  <1>2. /\ Head(todo) \in Steps /\ todo[1] = Head(todo) /\ Tail(todo) \in Seq(Steps)
        /\ Len(todo) \in Nat \ {0} /\ DOMAIN todo = 1..Len(todo)
    BY <1>1, TailFacts
  <1>3. 1 \in DOMAIN todo /\ Len(todo) \in DOMAIN todo
    BY <1>2
  <1>4. This \in Ids /\ (Head(todo).op \in {"add", "erase"} => This \in Objects)
    BY <1>2, StepFacts DEF This
  <1>5. Cleaning(todo) => Head(todo).op \in {"unlink", "erase", "succeed"}
    BY <1>2, <1>3 DEF Cleaning
  <1>6. Failing(todo) => Head(todo).op \in {"add", "link", "fail"}
    BY <1>2, <1>3 DEF Failing
  <1>7. \A id : Net(todo, id, master, tags) =
                  Weight(Head(todo), id, master, tags) + Net(Tail(todo), id, master, tags)
    BY <1>1, NetHead
  <1>8. \A id : /\ Net(Tail(todo), id, master, tags) \in Int
                /\ Weight(Head(todo), id, master, tags) \in Int
    BY <1>2, NetType, WeightType
  <1> QED
    BY <1>2, <1>3, <1>4, <1>5, <1>6, <1>7, <1>8

\* A step before the reference is written
LEMMA EarlyTail ==
    ASSUME Active, todo # <<>>, Head(todo).op \in {"add", "link"}, NEW D, disk \subseteq D
    PROVE  /\ ~Cleaning(todo) /\ Erasing = {} /\ Live = disk
           /\ Failing(Tail(todo)) <=> Failing(todo)
           /\ Failing(todo) => Hopeless(Tail(todo), D)
           /\ ~Failing(todo) => \E r \in DOMAIN Tail(todo) : Sound(Tail(todo), r, D, master, tags)
           /\ ~Cleaning(Tail(todo))
  <1>1. ~Cleaning(todo) /\ Erasing = {} /\ Live = disk
    BY HeadFacts, StageFacts DEF Active
  <1>2. todo \in Seq(Steps) /\ Tail(todo) \in Seq(Steps)
    BY HeadFacts DEF Active, Types
  <1>3. CASE Failing(todo)
    <2>1. Hopeless(todo, disk)
      BY <1>3, StageFacts DEF Active
    <2>2. Hopeless(Tail(todo), D)
      BY <1>2, <2>1, HopelessTail
    <2>3. Failing(Tail(todo)) /\ ~Cleaning(Tail(todo))
      BY <1>2, <2>2, Stages DEF Hopeless
    <2> QED
      BY <1>1, <1>3, <2>2, <2>3
  <1>4. CASE ~Failing(todo)
    <2>1. PICK r \in DOMAIN todo : Sound(todo, r, disk, master, tags)
      BY <1>1, <1>4, StageFacts DEF Active
    <2>2. r # 1
      <3>1. todo[r].op \in {"master", "tag"}
        BY <2>1 DEF Sound, Writing
      <3> QED
        BY <3>1, HeadFacts
    <2>3. r - 1 \in DOMAIN Tail(todo) /\ Sound(Tail(todo), r - 1, D, master, tags)
      BY <1>2, <2>1, <2>2, SoundTail
    <2>4. ~Failing(Tail(todo)) /\ ~Cleaning(Tail(todo))
      BY <1>2, <2>3, Stages
    <2> QED
      BY <1>1, <1>4, <2>3, <2>4
  <1> QED
    BY <1>3, <1>4

\* No object is being removed in these stages.
LEMMA NotErasing ==
    ASSUME NEW s \in Seq(Steps), NEW D, NEW m, NEW g,
           Hopeless(s, D) \/ \E r \in DOMAIN s : Sound(s, r, D, m, g)
    PROVE  \A i \in DOMAIN s : s[i].op # "erase"
  <1> SUFFICES ASSUME NEW i \in DOMAIN s, s[i].op = "erase" PROVE FALSE
    OBVIOUS
  <1>1. CASE Hopeless(s, D)
    BY <1>1 DEF Hopeless, Failing
  <1>2. CASE \E r \in DOMAIN s : Sound(s, r, D, m, g)
    <2>1. PICK r \in DOMAIN s : Writing(s, r)
      BY <1>2 DEF Sound
    <2>2. r \in Int /\ i \in Int
      <3>1. DOMAIN s = 1..Len(s)
        OBVIOUS
      <3> QED
        BY <3>1
    <2>3. i < r \/ i = r \/ i > r
      BY <2>2
    <2> QED
      BY <2>1, <2>3 DEF Writing
  <1> QED
    BY <1>1, <1>2

LEMMA AddNewStep ==
    ASSUME Active, AddNew
    PROVE  Active'
  <1>0. PICK x : x = This
    OBVIOUS
  <1> DEFINE T == Tail(todo)
             D == disk \cup {x}
  <1>1. /\ todo # <<>> /\ Head(todo).op = "add" /\ x \notin disk
        /\ disk' = D /\ m_refCounter' = With(m_refCounter, x, 1) /\ todo' = T
        /\ up /\ master' = master /\ tags' = tags /\ m_id' = m_id /\ m_commitId' = m_commitId
        /\ up' = up /\ torn' = torn /\ leaked' = leaked
    BY <1>0 DEF AddNew, At, Unchanged, refs
  <1>2. x \in Objects /\ T \in Seq(Steps)
    BY <1>0, <1>1, HeadFacts
  <1>3. /\ ~Cleaning(todo) /\ Erasing = {} /\ Live = disk
        /\ Failing(T) <=> Failing(todo)
        /\ Failing(todo) => Hopeless(T, D)
        /\ ~Failing(todo) => \E r \in DOMAIN T : Sound(T, r, D, master, tags)
        /\ ~Cleaning(T)
    BY <1>1, EarlyTail
  <1>4. x \notin Live /\ ~Tracked(x)
    BY <1>1, <1>3, LiveFacts DEF Active
  <1>5. Erasing' = {} /\ Live' = Live \cup {x}
    <2>1. \A i \in DOMAIN T : T[i].op # "erase"
      BY <1>2, <1>3, NotErasing
    <2>2. Erasing' = {}
      BY <1>1, <2>1 DEF Erasing
    <2> QED
      BY <1>1, <1>3, <2>2 DEF Live
  <1>6. /\ DOMAIN m_refCounter' = DOMAIN m_refCounter \cup {x}
        /\ m_refCounter' = [k \in DOMAIN m_refCounter \cup {x} |-> m_refCounter'[k]]
        /\ m_refCounter'[x] = 1 /\ \A k \in DOMAIN m_refCounter : k # x => m_refCounter'[k] = m_refCounter[k]
    BY <1>1 DEF With
  <1>7. /\ \A id : Tracked(id)' <=> Tracked(id) \/ id = x
        /\ Known(x)' = 1 /\ \A id : id # x => Known(id)' = Known(id)
    BY <1>6 DEF Tracked, Known
  <1>8. Types'
    <2>1. /\ m_refCounter \in [DOMAIN m_refCounter -> Nat \ {0}]
          /\ DOMAIN m_refCounter \subseteq Live
      BY DEF Active, Types
    <2>2. /\ m_refCounter' \in [DOMAIN m_refCounter' -> Nat \ {0}]
          /\ DOMAIN m_refCounter' \subseteq Live'
      BY <1>5, <1>6, <2>1
    <2>3. D \in SUBSET Objects /\ IsFiniteSet(D)
      BY <1>2, FS_AddElement DEF Active, Types
    <2> QED
      BY <1>1, <1>2, <2>2, <2>3 DEF Active, Types
  <1>9. Staged'
    BY <1>1, <1>3 DEF Staged
  <1>10. Counted'
    <2> SUFFICES ASSUME NEW id \in Objects, Tracked(id)' \/ id \notin Live'
                 PROVE  IF Failing(T) THEN Known(id)' >= Uses(Live', id, master, tags)
                        ELSE LET n == Known(id)' + Net(T, id, master, tags)
                             IN  /\ n >= Uses(Live', id, master, tags)
                                 /\ ~leaked => n = Uses(Live', id, master, tags)
      BY <1>1 DEF Counted
    <2>1. Tracked(id) \/ id \notin Live
      BY <1>4, <1>5, <1>7
    <2> DEFINE u == Uses(Live, id, master, tags)
               v == Uses(Live', id, master, tags)
               o == Occ(x, id)
               k == Known(id)
               l == Known(id)'
               m == Net(todo, id, master, tags)
               n == Net(T, id, master, tags)
               i == Is(x, id)
    <2>2. v = u + o /\ u \in Nat /\ o \in Nat
      <3>1. Live \subseteq Objects /\ IsFiniteSet(Live) /\ u \in Nat
        BY LiveFacts DEF Active
      <3>2. Cardinality(Mentions(Live \cup {x}, id)) = Cardinality(Mentions(Live, id)) + o
        BY <1>2, <1>4, <3>1, MentionsAdd
      <3>3. o \in Nat
        BY <1>2, PlacesFacts DEF Ids
      <3>4. /\ Cardinality(Mentions(Live, id)) \in Nat /\ Refs(id, master, tags) \in Nat
            /\ u = Cardinality(Mentions(Live, id)) + Refs(id, master, tags)
        BY <3>1, UsesFacts
      <3>5. v = Cardinality(Mentions(Live \cup {x}, id)) + Refs(id, master, tags)
        BY <1>5 DEF Uses
      <3> HIDE DEF u, v, o
      <3> QED
        BY <3>1, <3>2, <3>3, <3>4, <3>5
    <2>3. l = k + i /\ k \in Nat /\ i \in {0, 1}
      <3>1. k \in Nat /\ (~Tracked(id) => k = 0)
        BY LiveFacts DEF Active
      <3>2. CASE id = x
        BY <1>4, <1>7, <3>1, <3>2 DEF Is
      <3>3. CASE id # x
        BY <1>7, <3>1, <3>3 DEF Is
      <3> QED
        BY <3>2, <3>3
    <2>4. m = (i - o) + n /\ n \in Int /\ m \in Int
      <3>1. m = Weight(Head(todo), id, master, tags) + n /\ n \in Int
        BY <1>1, HeadFacts
      <3>2. Weight(Head(todo), id, master, tags) = i - o
        BY <1>0, <1>1 DEF Weight, This
      <3> HIDE DEF m, n, o, i
      <3> QED
        BY <2>2, <2>3, <3>1, <3>2
    <2>5. IF Failing(todo) THEN k >= u
          ELSE k + m >= u /\ (~leaked => k + m = u)
      BY <2>1 DEF Active, Counted
    <2>6. Failing(todo) => o = 0
      <3> SUFFICES ASSUME Failing(todo) PROVE o = 0
        OBVIOUS
      <3>1. Content(x) = <<>>
        BY <1>0, <1>1, HeadFacts DEF Failing, This
      <3>2. id \notin ToSet(Content(x))
        BY <3>1 DEF ToSet
      <3> QED
        BY <1>2, <3>2, PlacesFacts DEF Ids
    <2> HIDE DEF u, v, o, k, l, m, n, i
    <2>7. CASE Failing(todo)
      <3>1. k >= u /\ o = 0
        BY <2>5, <2>6, <2>7
      <3>2. l >= v
        BY <2>2, <2>3, <3>1
      <3> QED
        BY <1>3, <2>7, <3>2 DEF l, v
    <2>8. CASE ~Failing(todo)
      <3>1. k + m >= u /\ (~leaked => k + m = u)
        BY <2>5, <2>8
      <3>2. l + n >= v
        BY <2>2, <2>3, <2>4, <3>1
      <3>3. ~leaked => l + n = v
        BY <2>2, <2>3, <2>4, <3>1
      <3> QED
        BY <1>3, <2>8, <3>2, <3>3 DEF l, n, v
    <2> QED
      BY <2>7, <2>8
  <1>11. TrackedUp'
    <2> SUFFICES ASSUME NEW o \in Live', NEW id \in ToSet(Content(o)), Tracked(id)'
                 PROVE  Tracked(o)'
      BY DEF TrackedUp
    <2>1. CASE o = x
      BY <1>7, <2>1
    <2>2. CASE o # x
      <3>1. o \in Live
        BY <1>5, <2>2
      <3>2. id \in Live
        BY <3>1, NotMentioned
      <3>3. Tracked(id)
        BY <1>4, <1>7, <3>2
      <3> QED
        BY <1>7, <3>1, <3>3 DEF Active, TrackedUp
    <2> QED
      BY <2>1, <2>2
  <1>12. Current'
    BY <1>1, <1>3 DEF Active, Current
  <1> QED
    BY <1>1, <1>8, <1>9, <1>10, <1>11, <1>12 DEF Active

\* What a step adds to a counter, the remaining steps will not add.
LEMMA CountedSame ==
    ASSUME Active, Live' = Live, master' = master, tags' = tags, leaked' = leaked,
           Failing(todo') <=> Failing(todo),
           \A id \in Objects : Tracked(id)' <=> Tracked(id),
           \A id \in Objects : Tracked(id) \/ id \notin Live =>
              /\ Known(id)' + Net(todo', id, master, tags) =
                   Known(id) + Net(todo, id, master, tags)
              /\ Failing(todo) => Known(id)' >= Known(id),
           \A id \in Objects : Known(id)' \in Nat
    PROVE  Counted'
  <1> SUFFICES ASSUME NEW id \in Objects, Tracked(id)' \/ id \notin Live'
               PROVE  IF Failing(todo') THEN Known(id)' >= Uses(Live, id, master, tags)
                      ELSE LET n == Known(id)' + Net(todo', id, master, tags)
                           IN  /\ n >= Uses(Live, id, master, tags)
                               /\ ~leaked => n = Uses(Live, id, master, tags)
    BY DEF Counted
  <1> DEFINE u == Uses(Live, id, master, tags)
             k == Known(id)
             l == Known(id)'
             m == Net(todo, id, master, tags)
             n == Net(todo', id, master, tags)
  <1>1. /\ l + n = k + m
        /\ Failing(todo) => l >= k
        /\ IF Failing(todo) THEN k >= u ELSE k + m >= u /\ (~leaked => k + m = u)
    BY DEF Active, Counted
  <1>2. k \in Nat /\ l \in Nat /\ u \in Nat
    BY LiveFacts DEF Active
  <1> HIDE DEF u, k, l, m, n
  <1>3. CASE Failing(todo)
    <2>1. l >= u
      BY <1>1, <1>2, <1>3
    <2> QED
      BY <1>3, <2>1 DEF l, u
  <1>4. CASE ~Failing(todo)
    <2>1. l + n >= u /\ (~leaked => l + n = u)
      BY <1>1, <1>4
    <2> QED
      BY <1>4, <2>1 DEF l, n, u
  <1> QED
    BY <1>3, <1>4

LEMMA AddExistingStep ==
    ASSUME Active, AddExisting
    PROVE  Active'
  <1>0. PICK x : x = This
    OBVIOUS
  <1> DEFINE T == Tail(todo)
             U == Unlinks(x)
             L == Do("link", x)
             e == [op |-> "link", id |-> x]
             t == L \o T
             w == U \o t
  <1>1. /\ todo # <<>> /\ Head(todo).op = "add" /\ Head(todo).id = x /\ x \in disk
        /\ todo' = (U \o L) \o T
        /\ up /\ disk' = disk /\ m_refCounter' = m_refCounter
        /\ master' = master /\ tags' = tags /\ m_id' = m_id /\ m_commitId' = m_commitId
        /\ up' = up /\ torn' = torn /\ leaked' = leaked
    BY <1>0 DEF AddExisting, At, Unchanged, refs, This
  <1>2. x \in Objects /\ x \in Ids /\ T \in Seq(Steps)
    BY <1>0, <1>1, HeadFacts
  <1>3. /\ ~Cleaning(todo) /\ Erasing = {} /\ Live = disk
        /\ Failing(T) <=> Failing(todo)
        /\ Failing(todo) => Hopeless(T, disk)
        /\ ~Failing(todo) => \E r \in DOMAIN T : Sound(T, r, disk, master, tags)
        /\ ~Cleaning(T)
    BY <1>1, EarlyTail
  <1>4. /\ U \in Seq(Steps)
        /\ \A i \in 1..Len(U) : U[i].op = "unlink" /\ U[i].id \in ToSet(Content(x))
        /\ \A id, m, g : Net(U, id, m, g) = - Occ(x, id)
    BY <1>2, UnlinksFacts
  <1>5. /\ L \in Seq(Steps) /\ Len(L) = 1 /\ L[1].op = "link" /\ L[1].id = x
        /\ \A id, m, g : Net(L, id, m, g) = Is(x, id)
    <2>1. e \in Steps
      BY <1>2, StepIs
    <2>2. /\ L \in Seq(Steps) /\ Len(L) = 1 /\ L[1].op = "link" /\ L[1].id = x
          /\ \A id, m, g : Net(L, id, m, g) = Weight(e, id, m, g)
      BY <2>1, DoFacts
    <2>3. \A id, m, g : Weight(e, id, m, g) = Is(x, id)
      BY DEF Weight
    <2> HIDE DEF L, e
    <2> QED
      BY <2>2, <2>3
  <1>6. \A id : Is(x, id) \in {0, 1} /\ Is(x, x) = 1 /\ (id # x => Is(x, id) = 0)
    BY DEF Is
  <1> HIDE DEF U, L, T, e
  <1>7. \A i \in 1..Len(L) : L[i].op = "link" /\ L[i].id \in disk \cup {Nil, Missing}
    <2>1. \A i \in 1..Len(L) : i = 1
      BY <1>5
    <2> HIDE DEF Nil, Missing
    <2> QED
      BY <1>1, <1>5, <2>1
  <1>8. t \in Seq(Steps) /\ w \in Seq(Steps) /\ todo' = w
    <2>1. t \in Seq(Steps)
      BY <1>2, <1>5, ConcatProperties
    <2>2. w \in Seq(Steps)
      <3> HIDE DEF t
      <3> QED
        BY <1>4, <2>1, ConcatProperties
    <2>3. U \in Seq(Steps) /\ L \in Seq(Steps) /\ T \in Seq(Steps)
      BY <1>2, <1>4, <1>5
    <2>4. (U \o L) \o T = U \o (L \o T)
      BY <2>3, ConcatAssociative
    <2> QED
      BY <1>1, <2>1, <2>2, <2>4
  <1>9. /\ \A id, m, g : Net(t, id, m, g) = Is(x, id) + Net(T, id, m, g)
        /\ \A id, m, g : Net(w, id, m, g) = - Occ(x, id) + Net(t, id, m, g)
    <2>1. \A id, m, g : Net(t, id, m, g) = Net(L, id, m, g) + Net(T, id, m, g)
      BY <1>2, <1>5, NetConcat
    <2> HIDE DEF t
    <2>2. \A id, m, g : Net(w, id, m, g) = Net(U, id, m, g) + Net(t, id, m, g)
      BY <1>4, <1>8, NetConcat
    <2> QED
      BY <1>4, <1>5, <2>1, <2>2
  <1>10. ASSUME Failing(todo)
         PROVE  Hopeless(w, disk) /\ Failing(w) /\ ~Cleaning(w)
    <2>1. Hopeless(t, disk)
      BY <1>2, <1>3, <1>5, <1>7, <1>10, HopelessJoin
    <2>2. Len(U) = 0
      <3>1. Content(x) = <<>>
        BY <1>1, <1>10, HeadFacts DEF Failing
      <3>2. ~ (1 \in 1..Len(U))
        BY <1>4, <3>1 DEF ToSet
      <3>3. Len(U) \in Nat
        BY <1>4
      <3> QED
        BY <3>2, <3>3
    <2> HIDE DEF t
    <2>3. Hopeless(w, disk)
      <3>1. \A i \in 1..Len(U) :
              \/ U[i].op = "link" /\ U[i].id \in disk \cup {Nil, Missing}
              \/ U[i].op = "add" /\ Content(U[i].id) = <<>>
        BY <2>2
      <3> QED
        BY <1>4, <1>8, <2>1, <3>1, HopelessJoin
    <2>4. Failing(w) /\ ~Cleaning(w)
      BY <1>8, <2>3, Stages DEF Hopeless
    <2> HIDE DEF w
    <2> QED
      BY <2>3, <2>4
  <1>11. ASSUME ~Failing(todo)
         PROVE  /\ \E r \in DOMAIN w : Sound(w, r, disk, master, tags)
                /\ ~Failing(w) /\ ~Cleaning(w)
    <2>1. PICK r \in DOMAIN T : Sound(T, r, disk, master, tags)
      BY <1>3, <1>11
    <2>2. r \in Nat \ {0}
      <3>1. DOMAIN T = 1..Len(T)
        BY <1>2
      <3> QED
        BY <3>1
    <2>3. \A id \in Objects : Net(t, id, master, tags) <= 0
      <3> SUFFICES ASSUME NEW id \in Objects PROVE Net(t, id, master, tags) <= 0
        OBVIOUS
      <3> DEFINE n == Net(T, id, master, tags)
      <3>1. n <= 0 /\ n \in Int
        <4>1. From(T, 1) = T /\ 1 \in 1..r
          BY <1>2, <2>2, FromFirst
        <4>2. n <= 0
          BY <2>1, <4>1 DEF Sound, Covered
        <4> QED
          BY <1>2, <4>2, NetType
      <3>2. id = x => n <= -1
        <4>1. PICK q \in DOMAIN todo : Sound(todo, q, disk, master, tags)
          BY <1>3, <1>11, StageFacts DEF Active
        <4>2. q # 1 /\ q \in Nat
          <5>1. todo[q].op \in {"master", "tag"}
            BY <4>1 DEF Sound, Writing
          <5>2. q \in 1..Len(todo) /\ todo[1].op = "add"
            BY <1>1, HeadFacts
          <5> QED
            BY <5>1, <5>2
        <4>3. 1 \in 1..(q-1) /\ todo[1].op = "add" /\ todo[1].id = x
          <5>1. q \in 1..Len(todo) /\ Len(todo) \in Nat
            BY <1>1, HeadFacts
          <5>2. todo[1].op = "add" /\ todo[1].id = x
            BY <1>1, HeadFacts
          <5> QED
            BY <4>2, <5>1, <5>2
        <4>4. Net(From(todo, 1 + 1), x, master, tags) <= -1
          BY <4>1, <4>3 DEF Sound, Covered
        <4>5. From(T, 1) = From(todo, 1 + 1) /\ From(T, 1) = T
          <5>1. /\ todo \in Seq(Steps) /\ \A k \in 1..Len(todo) : From(Tail(todo), k) = From(todo, k + 1)
            BY <1>1, TailFacts DEF Active, Types
          <5>2. 1 \in 1..Len(todo)
            BY <1>1, HeadFacts
          <5> QED
            BY <1>2, <5>1, <5>2, FromFirst DEF T
        <4> QED
          BY <4>4, <4>5
      <3>3. Net(t, id, master, tags) = Is(x, id) + n
        BY <1>9
      <3> HIDE DEF n, t
      <3> QED
        BY <1>6, <3>1, <3>2, <3>3
    <2>4. Sound(t, Len(L) + r, disk, master, tags) /\ Len(L) + r \in DOMAIN t
      BY <1>2, <1>5, <1>7, <2>1, <2>3, SoundLinks
    <2>5. t[1].op = "link" /\ t[1].id = x /\ Len(L) + r # 1
      <3>1. Joined(t, L, T)
        BY <1>2, <1>5, JoinFacts
      <3> HIDE DEF t
      <3>2. t[1] = L[1]
        BY <1>5, <3>1 DEF Joined
      <3> QED
        BY <1>5, <2>2, <3>2
    <2> HIDE DEF t
    <2>6. Sound(w, Len(U) + (Len(L) + r), disk, master, tags)
          /\ Len(U) + (Len(L) + r) \in DOMAIN w
      <3> DEFINE q == Len(L) + r
      <3>1. Sound(t, q, disk, master, tags) /\ q # 1
        BY <2>4, <2>5
      <3>2. t[1].id \in disk /\ \A i \in 1..Len(U) : U[i].op = "unlink" /\ U[i].id \in ToSet(Content(t[1].id))
        BY <1>1, <1>4, <2>5
      <3> HIDE DEF q
      <3>3. Sound(w, Len(U) + q, disk, master, tags) /\ Len(U) + q \in DOMAIN w
        BY <1>4, <1>8, <2>5, <3>1, <3>2, SoundUnlinks
      <3> QED
        BY <3>3 DEF q
    <2>7. ~Failing(w) /\ ~Cleaning(w)
      BY <1>8, <2>6, Stages
    <2> HIDE DEF w
    <2> QED
      BY <2>6, <2>7
  <1>12. /\ Failing(w) <=> Failing(todo)
         /\ ~Cleaning(w)
         /\ Hopeless(w, disk) \/ \E r \in DOMAIN w : Sound(w, r, disk, master, tags)
    <2>1. CASE Failing(todo)
      <3>1. Hopeless(w, disk) /\ Failing(w) /\ ~Cleaning(w)
        BY <1>10, <2>1
      <3> QED
        BY <2>1, <3>1
    <2>2. CASE ~Failing(todo)
      BY <1>11, <2>2
    <2> QED
      BY <2>1, <2>2
  <1> HIDE DEF w, t
  <1>13. Erasing' = {} /\ Live' = Live
    <2>1. \A i \in DOMAIN w : w[i].op # "erase"
      BY <1>8, <1>12, NotErasing
    <2>2. Erasing' = {}
      BY <1>8, <2>1 DEF Erasing
    <2> QED
      BY <1>1, <1>3, <2>2 DEF Live
  <1>14. Types'
    BY <1>1, <1>8, <1>13 DEF Active, Types
  <1>15. Staged'
    BY <1>1, <1>8, <1>12 DEF Staged
  <1>16. Counted'
    <2>1. \A id : /\ Tracked(id)' <=> Tracked(id)
                  /\ Known(id)' = Known(id)
      BY <1>1 DEF Tracked, Known
    <2>2. \A id : Net(w, id, master, tags) = Net(todo, id, master, tags)
      <3> SUFFICES ASSUME NEW id PROVE Net(w, id, master, tags) = Net(todo, id, master, tags)
        OBVIOUS
      <3>1. /\ Net(todo, id, master, tags) = Weight(Head(todo), id, master, tags) + Net(T, id, master, tags)
            /\ Net(T, id, master, tags) \in Int
        BY <1>1, HeadFacts DEF T
      <3>2. Weight(Head(todo), id, master, tags) = Is(x, id) - Occ(x, id)
        BY <1>1 DEF Weight
      <3>3. Occ(x, id) \in Nat
        BY <1>2, PlacesFacts
      <3>4. /\ Net(t, id, master, tags) = Is(x, id) + Net(T, id, master, tags)
            /\ Net(w, id, master, tags) = - Occ(x, id) + Net(t, id, master, tags)
        BY <1>9
      <3> QED
        BY <1>6, <3>1, <3>2, <3>3, <3>4
    <2>3. \A id : Known(id) \in Nat
      BY LiveFacts DEF Active
    <2> QED
      BY <1>1, <1>8, <1>12, <1>13, <2>1, <2>2, <2>3, CountedSame
  <1>17. TrackedUp'
    <2>1. \A id : Tracked(id)' <=> Tracked(id)
      BY <1>1 DEF Tracked
    <2> QED
      BY <1>13, <2>1 DEF Active, TrackedUp
  <1>18. Current'
    BY <1>1, <1>3, <1>8, <1>12 DEF Active, Current
  <1> QED
    BY <1>1, <1>14, <1>15, <1>16, <1>17, <1>18 DEF Active

LEMMA ErasingTail ==
    ASSUME Active, todo # <<>>, Head(todo).op # "erase", todo' = Tail(todo), disk' = disk
    PROVE  Erasing' = Erasing /\ Live' = Live
  <1>1. todo \in Seq(Steps)
    BY DEF Active, Types
  <1>2. /\ Head(todo) = todo[1] /\ Len(todo) \in Nat \ {0} /\ DOMAIN todo = 1..Len(todo)
        /\ DOMAIN Tail(todo) = 1..(Len(todo) - 1)
        /\ \A i \in 1..(Len(todo) - 1) : Tail(todo)[i] = todo[i+1]
        /\ \A i \in 2..Len(todo) : todo[i] = Tail(todo)[i-1]
    BY <1>1, TailFacts
  <1> DEFINE T == Tail(todo)
             l == Len(todo)
  <1>3. \A i \in DOMAIN T : i + 1 \in DOMAIN todo /\ T[i] = todo[i+1]
    BY <1>2
  <1>4. \A i \in DOMAIN todo : i = 1 \/ (i - 1 \in DOMAIN T /\ todo[i] = T[i-1])
    BY <1>2
  <1>5. Erasing' = { T[i].id : i \in { i \in DOMAIN T : T[i].op = "erase" } }
    BY DEF Erasing
  <1> HIDE DEF T
  <1>6. Erasing' = Erasing
    <2>1. ASSUME NEW z \in Erasing' PROVE z \in Erasing
      <3>1. PICK i \in DOMAIN T : T[i].op = "erase" /\ z = T[i].id
        BY <1>5, <2>1
      <3>2. i + 1 \in DOMAIN todo /\ todo[i+1].op = "erase" /\ z = todo[i+1].id
        BY <1>3, <3>1
      <3> QED
        BY <3>2 DEF Erasing
    <2>2. ASSUME NEW z \in Erasing PROVE z \in Erasing'
      <3>1. PICK i \in DOMAIN todo : todo[i].op = "erase" /\ z = todo[i].id
        BY <2>2 DEF Erasing
      <3>2. i # 1
        BY <1>2, <3>1
      <3>3. i - 1 \in DOMAIN T /\ T[i-1].op = "erase" /\ z = T[i-1].id
        BY <1>4, <3>1, <3>2
      <3> QED
        BY <1>5, <3>3
    <2> QED
      BY <2>1, <2>2
  <1> QED
    BY <1>6 DEF Live

LEMMA LinkStep ==
    ASSUME Active, Link
    PROVE  Active'
  <1>0. PICK x : x = This
    OBVIOUS
  <1> DEFINE T == Tail(todo)
  <1>1. /\ todo # <<>> /\ Head(todo).op = "link" /\ Head(todo).id = x
        /\ todo' = T
        /\ m_refCounter' = IF Tracked(x) THEN [m_refCounter EXCEPT ![x] = @ + 1] ELSE m_refCounter
        /\ up /\ disk' = disk
        /\ master' = master /\ tags' = tags /\ m_id' = m_id /\ m_commitId' = m_commitId
        /\ up' = up /\ torn' = torn /\ leaked' = leaked
    BY <1>0 DEF Link, At, Unchanged, refs, This
  <1>2. T \in Seq(Steps)
    BY <1>1, HeadFacts
  <1>3. /\ ~Cleaning(todo) /\ Erasing = {} /\ Live = disk
        /\ Failing(T) <=> Failing(todo)
        /\ Failing(todo) => Hopeless(T, disk)
        /\ ~Failing(todo) => \E r \in DOMAIN T : Sound(T, r, disk, master, tags)
        /\ ~Cleaning(T)
    BY <1>1, EarlyTail
  <1>4. x \in disk \cup {Nil, Missing}
    <2>1. CASE Failing(todo)
      <3>1. Hopeless(todo, disk)
        BY <2>1, StageFacts DEF Active
      <3> HIDE DEF Nil, Missing
      <3> QED
        BY <1>1, <3>1, HeadFacts DEF Hopeless
    <2>2. CASE ~Failing(todo)
      <3>1. PICK q \in DOMAIN todo : Sound(todo, q, disk, master, tags)
        BY <1>3, <2>2, StageFacts DEF Active
      <3>2. 1 \in 1..(q-1) /\ todo[1].op = "link" /\ todo[1].id = x
        <4>1. todo[q].op \in {"master", "tag"}
          BY <3>1 DEF Sound, Writing
        <4>2. q \in 1..Len(todo) /\ Len(todo) \in Nat /\ todo[1].op = "link" /\ todo[1].id = x
          BY <1>1, HeadFacts
        <4>3. q # 1
          BY <4>1, <4>2
        <4> QED
          BY <4>2, <4>3
      <3>3. Linkable(todo, q, disk)
        BY <3>1 DEF Sound
      <3> HIDE DEF Nil, Missing
      <3> QED
        BY <3>2, <3>3 DEF Linkable
    <2> QED
      BY <2>1, <2>2
  <1>5. Erasing' = Erasing /\ Live' = Live
    BY <1>1, ErasingTail
  <1>6. m_refCounter \in [DOMAIN m_refCounter -> Nat \ {0}]
    BY DEF Active, Types
  <1>7. /\ m_refCounter' \in [DOMAIN m_refCounter -> Nat \ {0}]
        /\ DOMAIN m_refCounter' = DOMAIN m_refCounter
        /\ Tracked(x) => m_refCounter'[x] = m_refCounter[x] + 1
        /\ \A k \in DOMAIN m_refCounter : k # x => m_refCounter'[k] = m_refCounter[k]
    BY <1>1, <1>6 DEF Tracked
  <1>8. /\ \A id : Tracked(id)' <=> Tracked(id)
        /\ Tracked(x) => Known(x)' = Known(x) + 1
        /\ ~Tracked(x) => Known(x)' = Known(x)
        /\ \A id : id # x => Known(id)' = Known(id)
    BY <1>7 DEF Tracked, Known
  <1>9. Types'
    BY <1>1, <1>2, <1>5, <1>7 DEF Active, Types
  <1>10. Staged'
    BY <1>1, <1>3 DEF Staged
  <1>11. Counted'
    <2>1. ASSUME NEW id \in Objects, Tracked(id) \/ id \notin Live
          PROVE  /\ Known(id)' + Net(T, id, master, tags) =
                      Known(id) + Net(todo, id, master, tags)
                 /\ Known(id)' >= Known(id)
      <3> DEFINE k == Known(id)
                 l == Known(id)'
                 m == Net(todo, id, master, tags)
                 n == Net(T, id, master, tags)
                 i == Is(x, id)
      <3>1. k \in Nat /\ i \in {0, 1}
        BY LiveFacts DEF Active, Is
      <3>2. l = k + i
        <4>1. CASE id = x
          <5>1. Tracked(id)
            <6>1. id # Nil /\ id # Missing
              BY <2>1, Disjoint
            <6> HIDE DEF Nil, Missing
            <6> QED
              BY <1>3, <1>4, <2>1, <4>1, <6>1
          <5> QED
            BY <1>8, <4>1, <5>1 DEF Is
        <4>2. CASE id # x
          BY <1>8, <3>1, <4>2 DEF Is
        <4> QED
          BY <4>1, <4>2
      <3>3. m = i + n /\ n \in Int
        <4>1. m = Weight(Head(todo), id, master, tags) + n /\ n \in Int
          BY <1>1, HeadFacts
        <4>2. Weight(Head(todo), id, master, tags) = i
          BY <1>1 DEF Weight
        <4> HIDE DEF m, n, i
        <4> QED
          BY <4>1, <4>2
      <3> HIDE DEF k, l, m, n, i
      <3>4. l + n = k + m /\ l >= k
        BY <3>1, <3>2, <3>3
      <3> QED
        BY <3>4 DEF k, l, m, n
    <2>2. \A id : Known(id)' \in Nat
      BY <1>7 DEF Known, Tracked
    <2> QED
      BY <1>1, <1>3, <1>5, <1>8, <2>1, <2>2, CountedSame
  <1>12. TrackedUp'
    BY <1>5, <1>8 DEF Active, TrackedUp
  <1>13. Current'
    BY <1>1, <1>3 DEF Active, Current
  <1> QED
    BY <1>1, <1>9, <1>10, <1>11, <1>12, <1>13 DEF Active

\* While it gives up what is no longer mentioned, the operation has the same result.
LEMMA CurrentTail ==
    ASSUME Active, todo # <<>>, Cleaning(todo), Head(todo).op # "succeed",
           NEW a \in Seq(Steps), \A i \in 1..Len(a) : a[i].op \in {"unlink", "erase"}
    PROVE  LET w == a \o Tail(todo)
               Ends(s) == \E i \in DOMAIN s : s[i].op = "succeed" IN
           /\ w \in Seq(Steps) /\ Cleaning(w)
           /\ Ends(w) <=> Ends(todo)
           /\ Ends(w) => w[Len(w)] = todo[Len(todo)]
  <1> DEFINE T == Tail(todo)
             w == a \o T
             l == Len(todo)
             n == Len(a)
             Ends(s) == \E i \in DOMAIN s : s[i].op = "succeed"
  <1>1. todo \in Seq(Steps)
    BY DEF Active, Types
  <1>2. /\ Head(todo) = todo[1] /\ l \in Nat \ {0} /\ DOMAIN todo = 1..l
        /\ T \in Seq(Steps) /\ Len(T) = l - 1 /\ DOMAIN T = 1..(l - 1)
        /\ \A i \in 1..(l - 1) : T[i] = todo[i+1]
    BY <1>1, TailFacts
  <1> HIDE DEF T, l
  <1>3. Joined(w, a, T)
    BY <1>2, JoinFacts
  <1>4. /\ w \in Seq(Steps) /\ Len(w) = n + (l - 1) /\ DOMAIN w = 1..(n + (l - 1)) /\ n \in Nat
        /\ \A i \in 1..n : w[i] = a[i]
        /\ \A i \in 1..(l - 1) : w[n + i] = T[i]
    BY <1>2, <1>3 DEF Joined
  <1> HIDE DEF w, n
  <1>5. \A i \in 1..n : w[i].op \in {"unlink", "erase"}
    BY <1>4 DEF n
  <1>6. \A i \in DOMAIN w : i > n => i - n + 1 \in DOMAIN todo /\ w[i] = todo[i - n + 1]
    <2> SUFFICES ASSUME NEW i \in DOMAIN w, i > n
                 PROVE  i - n + 1 \in DOMAIN todo /\ w[i] = todo[i - n + 1]
      OBVIOUS
    <2>1. i - n \in 1..(l - 1) /\ n + (i - n) = i /\ i - n + 1 \in 1..l
      BY <1>2, <1>4
    <2>2. w[n + (i - n)] = T[i - n]
      BY <1>4, <2>1
    <2> QED
      BY <1>2, <2>1, <2>2
  <1>7. \A j \in DOMAIN todo : todo[j].op = "succeed" => j = l
    BY DEF Cleaning, l
  <1>8. Cleaning(w)
    <2>1. ASSUME NEW i \in DOMAIN w
          PROVE  /\ w[i].op \in {"unlink", "erase", "succeed"}
                 /\ w[i].op = "succeed" => i = Len(w)
      <3>1. CASE i <= n
        <4>1. i \in 1..n
          BY <1>4, <3>1
        <4> QED
          BY <1>5, <4>1
      <3>2. CASE i > n
        <4>1. i - n + 1 \in DOMAIN todo /\ w[i] = todo[i - n + 1]
          BY <1>6, <3>2
        <4>2. w[i].op \in {"unlink", "erase", "succeed"}
          BY <4>1 DEF Cleaning
        <4>3. w[i].op = "succeed" => i - n + 1 = l
          BY <1>7, <4>1
        <4>4. i \in Nat
          BY <1>2, <1>4
        <4>5. i - n + 1 = l => i = Len(w)
          BY <1>2, <1>4, <4>4
        <4> QED
          BY <4>2, <4>3, <4>5
      <3>3. i <= n \/ i > n
        BY <1>2, <1>4
      <3> QED
        BY <3>1, <3>2, <3>3
    <2> QED
      BY <2>1 DEF Cleaning
  <1>9. Ends(todo) => l > 1 /\ todo[l].op = "succeed"
    <2> SUFFICES ASSUME NEW j \in DOMAIN todo, todo[j].op = "succeed"
                 PROVE  l > 1 /\ todo[l].op = "succeed"
      OBVIOUS
    <2>1. j = l /\ j # 1
      BY <1>2, <1>7
    <2> QED
      BY <1>2, <2>1
  <1>10. Ends(todo) => Ends(w)
    <2> SUFFICES ASSUME Ends(todo) PROVE Ends(w)
      OBVIOUS
    <2>1. l > 1 /\ todo[l].op = "succeed"
      BY <1>9
    <2> DEFINE i == n + (l - 1)
    <2>2. i \in DOMAIN w /\ i > n /\ i - n + 1 = l
      BY <1>2, <1>4, <2>1
    <2>3. w[i] = todo[l]
      BY <1>6, <2>2
    <2> QED
      BY <2>1, <2>2, <2>3
  <1>11. Ends(w) => Ends(todo)
    <2> SUFFICES ASSUME NEW i \in DOMAIN w, w[i].op = "succeed" PROVE Ends(todo)
      OBVIOUS
    <2>1. ~(i \in 1..n)
      BY <1>5
    <2>2. i > n
      BY <1>2, <1>4, <2>1
    <2> QED
      BY <1>6, <2>2
  <1>12. Ends(todo) => w[Len(w)] = todo[l]
    <2> SUFFICES ASSUME Ends(todo) PROVE w[Len(w)] = todo[l]
      OBVIOUS
    <2>1. l > 1
      BY <1>9
    <2> DEFINE i == Len(w)
    <2>2. i \in DOMAIN w /\ i > n /\ i - n + 1 = l
      BY <1>2, <1>4, <2>1
    <2> HIDE DEF i
    <2>3. w[i] = todo[l]
      BY <1>6, <2>2
    <2> QED
      BY <2>3 DEF i
  <1>13. /\ w \in Seq(Steps) /\ Cleaning(w)
         /\ Ends(w) <=> Ends(todo)
         /\ Ends(w) => w[Len(w)] = todo[l]
    BY <1>4, <1>8, <1>10, <1>11, <1>12
  <1> QED
    BY <1>13 DEF w, T, l

\* What is given up before the reference is written is still mentioned.
LEMMA GivenUp ==
    ASSUME Active, todo # <<>>, Head(todo).op = "unlink", ~Cleaning(todo)
    PROVE  /\ ~Failing(todo) /\ ~Failing(Tail(todo)) /\ ~Cleaning(Tail(todo))
           /\ \E r \in DOMAIN Tail(todo) : Sound(Tail(todo), r, disk, master, tags)
           /\ This \in Live /\ Uses(Live, This, master, tags) >= 1
           /\ Net(Tail(todo), This, master, tags) <= 0
  <1> DEFINE T == Tail(todo)
  <1>0. PICK x : x = This
    OBVIOUS
  <1>1. ~Failing(todo) /\ todo \in Seq(Steps) /\ T \in Seq(Steps)
    BY HeadFacts DEF Active, Types
  <1>2. Live = disk /\ \E r \in DOMAIN todo : Sound(todo, r, disk, master, tags)
    BY <1>1, StageFacts DEF Active
  <1>3. PICK q \in DOMAIN todo : Sound(todo, q, disk, master, tags)
    BY <1>2
  <1>4. q # 1 /\ 1 \in 1..(q-1) /\ todo[1].op = "unlink" /\ todo[1].id = x
    <2>1. todo[q].op \in {"master", "tag"}
      BY <1>3 DEF Sound, Writing
    <2>2. q \in 1..Len(todo) /\ Len(todo) \in Nat /\ todo[1].op = "unlink" /\ todo[1].id = x
      BY <1>0, HeadFacts DEF This
    <2>3. q # 1
      BY <2>1, <2>2
    <2> QED
      BY <2>2, <2>3
  <1>5. q - 1 \in DOMAIN T /\ Sound(T, q - 1, disk, master, tags)
    BY <1>1, <1>3, <1>4, SoundTail
  <1>6. ~Failing(T) /\ ~Cleaning(T)
    BY <1>1, <1>5, Stages
  <1>7. PICK o \in Live : x \in ToSet(Content(o))
    <2>1. PICK j \in (1+1)..(q-1) : todo[j].id \in disk /\ x \in ToSet(Content(todo[j].id))
      BY <1>3, <1>4 DEF Sound, Linkable
    <2> QED
      BY <1>2, <2>1
  <1>8. x \in Live /\ x \in Objects
    BY <1>7, NotMentioned, LiveFacts DEF Active
  <1>9. Uses(Live, x, master, tags) >= 1
    <2> DEFINE u == Uses(Live, x, master, tags)
    <2>1. u \in Nat /\ u # 0
      <3>1. Live \subseteq Objects /\ IsFiniteSet(Live)
        BY LiveFacts DEF Active
      <3> QED
        BY <1>7, <3>1, UsesFacts
    <2> HIDE DEF u
    <2>2. u >= 1
      BY <2>1
    <2> QED
      BY <2>2 DEF u
  <1>10. Net(T, x, master, tags) <= 0
    <2>1. From(T, 1) = T /\ 1 \in 1..(q-1)
      BY <1>1, <1>4, FromFirst
    <2> QED
      BY <1>5, <1>8, <2>1 DEF Sound, Covered
  <1> QED
    BY <1>0, <1>1, <1>5, <1>6, <1>8, <1>9, <1>10

LEMMA UnlinkStep ==
    ASSUME Active, Unlink
    PROVE  Active'
  <1>0. PICK x : x = This
    OBVIOUS
  <1> DEFINE T == Tail(todo)
  <1>1. /\ todo # <<>> /\ Head(todo).op = "unlink" /\ Head(todo).id = x
        /\ Tracked(x) => m_refCounter[x] # 1
        /\ todo' = T
        /\ m_refCounter' = IF Tracked(x) THEN [m_refCounter EXCEPT ![x] = @ - 1] ELSE m_refCounter
        /\ up /\ disk' = disk
        /\ master' = master /\ tags' = tags /\ m_id' = m_id /\ m_commitId' = m_commitId
        /\ up' = up /\ torn' = torn /\ leaked' = leaked
    BY <1>0 DEF Unlink, At, Unchanged, refs, This
  <1>2. T \in Seq(Steps) /\ todo \in Seq(Steps) /\ ~Failing(todo) /\ ~Failing(T)
    <2>1. T \in Seq(Steps) /\ todo \in Seq(Steps) /\ ~Failing(todo)
      BY <1>1, HeadFacts DEF Active, Types
    <2>2. CASE Cleaning(todo)
      <3>1. Cleaning(T)
        BY <1>1, <2>1, <2>2, CleaningTail
      <3> QED
        BY <2>1, <3>1, Stages
    <2>3. CASE ~Cleaning(todo)
      BY <1>1, <2>1, <2>3, GivenUp
    <2> QED
      BY <2>2, <2>3
  <1>3. Erasing' = Erasing /\ Live' = Live
    BY <1>1, ErasingTail
  <1>4. m_refCounter \in [DOMAIN m_refCounter -> Nat \ {0}]
    BY DEF Active, Types
  <1>5. /\ m_refCounter' \in [DOMAIN m_refCounter -> Nat \ {0}]
        /\ DOMAIN m_refCounter' = DOMAIN m_refCounter
        /\ Tracked(x) => m_refCounter'[x] = m_refCounter[x] - 1
        /\ \A k \in DOMAIN m_refCounter : k # x => m_refCounter'[k] = m_refCounter[k]
    <2>1. CASE ~Tracked(x)
      BY <1>1, <1>4, <2>1 DEF Tracked
    <2>2. CASE Tracked(x)
      <3>1. m_refCounter[x] - 1 \in Nat \ {0}
        BY <1>1, <1>4, <2>2 DEF Tracked
      <3> QED
        BY <1>1, <1>4, <2>2, <3>1 DEF Tracked
    <2> QED
      BY <2>1, <2>2
  <1>6. /\ \A id : Tracked(id)' <=> Tracked(id)
        /\ Tracked(x) => Known(x)' = Known(x) - 1
        /\ ~Tracked(x) => Known(x)' = Known(x)
        /\ \A id : id # x => Known(id)' = Known(id)
    BY <1>5 DEF Tracked, Known
  <1>7. Types'
    BY <1>1, <1>2, <1>3, <1>5 DEF Active, Types
  <1>8. Staged' /\ Current'
    <2>1. CASE Cleaning(todo)
      <3> DEFINE a == <<>>
                 w == a \o T
                 Ends(s) == \E i \in DOMAIN s : s[i].op = "succeed"
      <3>1. a \in Seq(Steps) /\ \A i \in 1..Len(a) : a[i].op \in {"unlink", "erase"}
        OBVIOUS
      <3>2. w = T
        BY <1>2, ConcatEmptySeq
      <3>3. Head(todo).op # "succeed"
        BY <1>1
      <3> HIDE DEF a
      <3>4. /\ Cleaning(w) /\ (Ends(w) <=> Ends(todo))
            /\ Ends(w) => w[Len(w)] = todo[Len(todo)]
        BY <1>1, <2>1, <3>1, <3>3, CurrentTail
      <3>5. /\ Cleaning(T) /\ (Ends(T) <=> Ends(todo))
            /\ Ends(T) => T[Len(T)] = todo[Len(todo)]
        BY <3>2, <3>4
      <3>6. Staged'
        BY <1>1, <3>5 DEF Staged
      <3>7. Current'
        BY <1>1, <2>1, <3>5 DEF Active, Current
      <3> QED
        BY <3>6, <3>7
    <2>2. CASE ~Cleaning(todo)
      <3>1. ~Cleaning(T) /\ \E r \in DOMAIN T : Sound(T, r, disk, master, tags)
        BY <1>1, <2>2, GivenUp
      <3>2. Staged'
        BY <1>1, <3>1 DEF Staged
      <3>3. Current'
        BY <1>1, <2>2, <3>1 DEF Active, Current
      <3> QED
        BY <3>2, <3>3
    <2> QED
      BY <2>1, <2>2
  <1>9. Counted'
    <2>1. ASSUME NEW id \in Objects, Tracked(id) \/ id \notin Live
          PROVE  Known(id)' + Net(T, id, master, tags) = Known(id) + Net(todo, id, master, tags)
      <3> DEFINE k == Known(id)
                 l == Known(id)'
                 m == Net(todo, id, master, tags)
                 n == Net(T, id, master, tags)
                 i == Is(x, id)
      <3>1. k \in Nat /\ i \in {0, 1}
        BY LiveFacts DEF Active, Is
      <3>2. m = n - i /\ n \in Int
        <4>1. m = Weight(Head(todo), id, master, tags) + n /\ n \in Int
          BY <1>1, HeadFacts
        <4>2. Weight(Head(todo), id, master, tags) = - i
          BY <1>1 DEF Weight
        <4> HIDE DEF m, n, i
        <4> QED
          BY <3>1, <4>1, <4>2
      <3>3. l = k - i
        <4>1. CASE id = x
          <5>1. Tracked(id)
            <6> SUFFICES ASSUME ~Tracked(id) PROVE FALSE
              OBVIOUS
            <6>1. id \notin Live /\ k = 0
              BY <2>1, LiveFacts DEF Active
            <6>2. Cleaning(todo)
              BY <1>0, <1>1, <4>1, <6>1, GivenUp
            <6>3. Cleaning(T)
              BY <1>1, <1>2, <6>2, CleaningTail
            <6>4. n <= 0
              BY <1>2, <6>3, CleaningNet
            <6>5. k + m >= Uses(Live, id, master, tags) /\ Uses(Live, id, master, tags) \in Nat
              BY <1>2, <2>1, LiveFacts DEF Active, Counted
            <6>6. i = 1
              BY <4>1 DEF Is
            <6> HIDE DEF k, m, n, i
            <6> QED
              BY <3>2, <6>1, <6>4, <6>5, <6>6
          <5> QED
            BY <1>6, <4>1, <5>1 DEF Is
        <4>2. CASE id # x
          BY <1>6, <3>1, <4>2 DEF Is
        <4> QED
          BY <4>1, <4>2
      <3> HIDE DEF k, l, m, n, i
      <3>4. l + n = k + m
        BY <3>1, <3>2, <3>3
      <3> QED
        BY <3>4 DEF k, l, m, n
    <2>2. \A id : Known(id)' \in Nat
      BY <1>5 DEF Known, Tracked
    <2> QED
      BY <1>1, <1>2, <1>3, <1>6, <2>1, <2>2, CountedSame
  <1>10. TrackedUp'
    BY <1>3, <1>6 DEF Active, TrackedUp
  <1> QED
    BY <1>1, <1>7, <1>8, <1>9, <1>10 DEF Active

LEMMA UnlinkLastStep ==
    ASSUME Active, UnlinkLast
    PROVE  Active'
  <1>0. PICK x : x = This
    OBVIOUS
  <1> DEFINE T == Tail(todo)
             U == Unlinks(x)
             R == Do("erase", x)
             e == [op |-> "erase", id |-> x]
             a == U \o R
             w == a \o T
             S == Live \ {x}
             Ends(s) == \E i \in DOMAIN s : s[i].op = "succeed"
  <1>1. /\ todo # <<>> /\ Head(todo).op = "unlink" /\ Head(todo).id = x
        /\ Tracked(x) /\ m_refCounter[x] = 1
        /\ todo' = w
        /\ m_refCounter' = Restrict(m_refCounter, DOMAIN m_refCounter \ {x})
        /\ up /\ disk' = disk
        /\ master' = master /\ tags' = tags /\ m_id' = m_id /\ m_commitId' = m_commitId
        /\ up' = up /\ torn' = torn /\ leaked' = leaked
    BY <1>0 DEF UnlinkLast, AtLast, At, Unchanged, refs, This
  <1>2. x \in Live /\ x \in Objects /\ x \in Ids /\ Known(x) = 1
    BY <1>1, LiveFacts DEF Active, Ids
  <1>3. T \in Seq(Steps) /\ todo \in Seq(Steps) /\ ~Failing(todo)
    BY <1>1, HeadFacts DEF Active, Types
  <1>4. \A id : /\ Net(todo, id, master, tags) = - Is(x, id) + Net(T, id, master, tags)
                /\ Net(T, id, master, tags) \in Int /\ Is(x, id) \in {0, 1}
    <2> SUFFICES ASSUME NEW id
                 PROVE  /\ Net(todo, id, master, tags) = - Is(x, id) + Net(T, id, master, tags)
                        /\ Net(T, id, master, tags) \in Int /\ Is(x, id) \in {0, 1}
      OBVIOUS
    <2>1. /\ Net(todo, id, master, tags) = Weight(Head(todo), id, master, tags) + Net(T, id, master, tags)
          /\ Net(T, id, master, tags) \in Int
      BY <1>1, HeadFacts
    <2>2. Weight(Head(todo), id, master, tags) = - Is(x, id)
      BY <1>1 DEF Weight
    <2> QED
      BY <2>1, <2>2 DEF Is
  <1>5. Cleaning(todo) /\ Cleaning(T)
    <2>1. Cleaning(todo)
      <3> SUFFICES ASSUME ~Cleaning(todo) PROVE FALSE
        OBVIOUS
      <3> DEFINE n == Net(T, x, master, tags)
                 m == Net(todo, x, master, tags)
                 u == Uses(Live, x, master, tags)
      <3>1. u >= 1 /\ n <= 0
        BY <1>0, <1>1, GivenUp
      <3>2. Known(x) + m >= u
        BY <1>1, <1>2, <1>3 DEF Active, Counted
      <3>3. u \in Nat /\ n \in Int
        BY <1>4, LiveFacts DEF Active
      <3>4. m = -1 + n
        BY <1>4 DEF Is
      <3> HIDE DEF n, m, u
      <3> QED
        BY <1>2, <3>1, <3>2, <3>3, <3>4
    <2> QED
      BY <1>1, <1>3, <2>1, CleaningTail
  <1>6. /\ U \in Seq(Steps)
        /\ \A i \in 1..Len(U) : U[i].op = "unlink" /\ U[i].id \in ToSet(Content(x))
        /\ \A id, m, g : Net(U, id, m, g) = - Occ(x, id)
    BY <1>2, UnlinksFacts
  <1>7. /\ R \in Seq(Steps) /\ Len(R) = 1 /\ R[1].op = "erase" /\ R[1].id = x
        /\ \A id, m, g : Net(R, id, m, g) = 0
    <2>1. e \in Steps
      BY <1>2, StepIs
    <2>2. /\ R \in Seq(Steps) /\ Len(R) = 1 /\ R[1].op = "erase" /\ R[1].id = x
          /\ \A id, m, g : Net(R, id, m, g) = Weight(e, id, m, g)
      BY <2>1, DoFacts
    <2>3. \A id, m, g : Weight(e, id, m, g) = 0
      BY DEF Weight
    <2> HIDE DEF R, e
    <2> QED
      BY <2>2, <2>3
  <1> HIDE DEF U, R, T, e
  <1>8. Joined(a, U, R)
    BY <1>6, <1>7, JoinFacts
  <1>9. /\ a \in Seq(Steps)
        /\ \A id : Net(a, id, master, tags) = - Occ(x, id)
        /\ \A i \in 1..Len(a) : a[i].op \in {"unlink", "erase"} /\ (a[i].op = "erase" => a[i].id = x)
        /\ \E i \in 1..Len(a) : a[i].op = "erase" /\ a[i].id = x
    <2>1. a \in Seq(Steps)
      BY <1>8 DEF Joined
    <2>2. \A id : Net(a, id, master, tags) = - Occ(x, id)
      <3> SUFFICES ASSUME NEW id PROVE Net(a, id, master, tags) = - Occ(x, id)
        OBVIOUS
      <3>1. Net(a, id, master, tags) = Net(U, id, master, tags) + Net(R, id, master, tags)
        BY <1>6, <1>7, NetConcat
      <3>2. Occ(x, id) \in Nat
        BY <1>2, PlacesFacts
      <3> HIDE DEF a
      <3> QED
        BY <1>6, <1>7, <3>1, <3>2
    <2> DEFINE n == Len(U)
    <2>3. /\ Len(a) = n + 1 /\ n \in Nat
          /\ \A i \in 1..n : a[i] = U[i]
          /\ a[n + 1] = R[1]
      BY <1>7, <1>8 DEF Joined
    <2>4. \A i \in 1..n : U[i].op = "unlink"
      BY <1>6
    <2> HIDE DEF a, n
    <2>5. \A i \in 1..Len(a) : i \in 1..n \/ i = n + 1
      BY <2>3
    <2>6. \A i \in 1..Len(a) : a[i].op \in {"unlink", "erase"} /\ (a[i].op = "erase" => a[i].id = x)
      BY <1>7, <2>3, <2>4, <2>5
    <2>7. n + 1 \in 1..Len(a) /\ a[n + 1].op = "erase" /\ a[n + 1].id = x
      BY <1>7, <2>3
    <2> QED
      BY <2>1, <2>2, <2>6, <2>7
  <1> HIDE DEF a
  <1>10. Joined(w, a, T)
    BY <1>3, <1>9, JoinFacts
  <1>11. /\ w \in Seq(Steps) /\ Cleaning(w)
         /\ Ends(w) <=> Ends(todo)
         /\ Ends(w) => w[Len(w)] = todo[Len(todo)]
    <2>1. Head(todo).op # "succeed"
      BY <1>1
    <2> QED
      BY <1>1, <1>5, <1>9, <2>1, CurrentTail DEF T
  <1>12. \A id : Net(w, id, master, tags) = - Occ(x, id) + Net(T, id, master, tags)
    <2>1. \A id : Net(w, id, master, tags) = Net(a, id, master, tags) + Net(T, id, master, tags)
      BY <1>3, <1>9, NetConcat
    <2> HIDE DEF w
    <2> QED
      BY <1>9, <2>1
  <1> HIDE DEF w
  <1>13. Erasing' = Erasing \cup {x}
    <2> DEFINE n == Len(a)
               l == Len(T)
    <2>1. /\ n \in Nat /\ l \in Nat /\ DOMAIN w = 1..(n + l)
          /\ \A i \in 1..n : w[i] = a[i]
          /\ \A i \in 1..l : w[n + i] = T[i]
      BY <1>10 DEF Joined
    <2>2. /\ DOMAIN todo = 1..(l + 1) /\ todo[1].op = "unlink"
          /\ \A i \in 1..l : T[i] = todo[i+1]
      <3>1. /\ Head(todo) = todo[1] /\ Len(todo) \in Nat \ {0} /\ DOMAIN todo = 1..Len(todo)
            /\ Len(T) = Len(todo) - 1
            /\ \A i \in 1..(Len(todo) - 1) : T[i] = todo[i+1]
        BY <1>1, <1>3, TailFacts DEF T
      <3>2. Len(todo) = l + 1
        BY <3>1
      <3> QED
        BY <1>1, <3>1, <3>2
    <2>3. PICK k \in 1..n : a[k].op = "erase" /\ a[k].id = x
      BY <1>9
    <2>4. \A i \in 1..n : a[i].op = "erase" => a[i].id = x
      BY <1>9
    <2> HIDE DEF n, l
    <2>5. Erasing' = { w[i].id : i \in { i \in DOMAIN w : w[i].op = "erase" } }
      BY <1>1 DEF Erasing
    <2>6. ASSUME NEW z \in Erasing' PROVE z \in Erasing \cup {x}
      <3>1. PICK i \in DOMAIN w : w[i].op = "erase" /\ z = w[i].id
        BY <2>5, <2>6
      <3>2. CASE i \in 1..n
        BY <2>1, <2>4, <3>1, <3>2
      <3>3. CASE i \notin 1..n
        <4>1. i - n \in 1..l /\ n + (i - n) = i /\ i - n + 1 \in 1..(l+1)
          BY <2>1, <3>3
        <4>2. w[n + (i - n)] = todo[i - n + 1]
          BY <2>1, <2>2, <4>1
        <4>3. todo[i - n + 1].op = "erase" /\ z = todo[i - n + 1].id /\ i - n + 1 \in DOMAIN todo
          BY <2>2, <3>1, <4>1, <4>2
        <4> QED
          BY <4>3 DEF Erasing
      <3> QED
        BY <3>2, <3>3
    <2>7. x \in Erasing'
      <3>1. k \in DOMAIN w /\ w[k].op = "erase" /\ w[k].id = x
        BY <2>1, <2>3
      <3> QED
        BY <2>5, <3>1
    <2>8. ASSUME NEW z \in Erasing PROVE z \in Erasing'
      <3>1. PICK i \in DOMAIN todo : todo[i].op = "erase" /\ z = todo[i].id
        BY <2>8 DEF Erasing
      <3>2. i - 1 \in 1..l /\ (i - 1) + 1 = i /\ n + (i - 1) \in DOMAIN w
        <4>1. i # 1
          BY <2>2, <3>1
        <4> QED
          BY <2>1, <2>2, <4>1
      <3>3. w[n + (i - 1)] = todo[i]
        BY <2>1, <2>2, <3>2
      <3> QED
        BY <2>5, <3>1, <3>2, <3>3
    <2> QED
      BY <2>6, <2>7, <2>8
  <1>14. Live' = S
    BY <1>1, <1>13 DEF Live
  <1>15. m_refCounter \in [DOMAIN m_refCounter -> Nat \ {0}] /\ DOMAIN m_refCounter \subseteq Live
    BY DEF Active, Types
  <1>16. /\ DOMAIN m_refCounter' = DOMAIN m_refCounter \ {x}
         /\ m_refCounter' \in [DOMAIN m_refCounter \ {x} -> Nat \ {0}]
         /\ \A k \in DOMAIN m_refCounter : k # x => m_refCounter'[k] = m_refCounter[k]
    BY <1>1, <1>15 DEF Restrict
  <1>17. /\ \A id : Tracked(id)' <=> Tracked(id) /\ id # x
         /\ Known(x)' = 0 /\ \A id : id # x => Known(id)' = Known(id)
    BY <1>16 DEF Tracked, Known
  <1>18. Types'
    <2>1. DOMAIN m_refCounter' \subseteq Live'
      BY <1>14, <1>15, <1>16
    <2> QED
      BY <1>1, <1>11, <1>16, <2>1 DEF Active, Types
  <1>19. Staged'
    BY <1>1, <1>11 DEF Staged
  <1>20. Counted'
    <2>1. ~Failing(w)
      BY <1>11, Stages
    <2> SUFFICES ASSUME NEW id \in Objects, Tracked(id)' \/ id \notin Live'
                 PROVE  LET n == Known(id)' + Net(w, id, master, tags)
                        IN  /\ n >= Uses(S, id, master, tags)
                            /\ ~leaked => n = Uses(S, id, master, tags)
      BY <1>1, <1>14, <2>1 DEF Counted
    <2> DEFINE u == Uses(Live, id, master, tags)
               v == Uses(S, id, master, tags)
               o == Occ(x, id)
               k == Known(id)
               l == Known(id)'
               m == Net(todo, id, master, tags)
               n == Net(w, id, master, tags)
               q == Net(T, id, master, tags)
               i == Is(x, id)
    <2>2. Tracked(id) \/ id \notin Live
      BY <1>1, <1>14, <1>17
    <2>3. k + m >= u /\ (~leaked => k + m = u)
      BY <1>3, <2>2 DEF Active, Counted
    <2>4. u = v + o /\ v \in Nat /\ o \in Nat
      <3>1. Live \subseteq Objects /\ IsFiniteSet(Live)
        BY LiveFacts DEF Active
      <3>2. S \subseteq Objects /\ IsFiniteSet(S) /\ x \in Objects \ S /\ S \cup {x} = Live
        BY <1>2, <3>1, FS_Subset
      <3> HIDE DEF S
      <3>3. Cardinality(Mentions(S \cup {x}, id)) = Cardinality(Mentions(S, id)) + o
        BY <3>2, MentionsAdd
      <3>4. o \in Nat
        BY <1>2, PlacesFacts
      <3>5. /\ Cardinality(Mentions(S, id)) \in Nat /\ Refs(id, master, tags) \in Nat
            /\ v = Cardinality(Mentions(S, id)) + Refs(id, master, tags) /\ v \in Nat
        BY <3>2, UsesFacts
      <3>6. u = Cardinality(Mentions(S \cup {x}, id)) + Refs(id, master, tags)
        BY <3>2 DEF Uses
      <3> HIDE DEF u, v, o
      <3> QED
        BY <3>3, <3>4, <3>5, <3>6
    <2>5. m = - i + q /\ n = - o + q /\ q \in Int /\ i \in {0, 1}
      BY <1>4, <1>12
    <2>6. l = k - i /\ k \in Nat
      <3>1. k \in Nat
        BY LiveFacts DEF Active
      <3>2. CASE id = x
        BY <1>2, <1>17, <3>1, <3>2 DEF Is
      <3>3. CASE id # x
        BY <1>17, <3>1, <3>3 DEF Is
      <3> QED
        BY <3>2, <3>3
    <2> HIDE DEF u, v, o, k, l, m, n, q, i
    <2>7. l + n >= v
      BY <2>3, <2>4, <2>5, <2>6
    <2>8. ~leaked => l + n = v
      BY <2>3, <2>4, <2>5, <2>6
    <2> QED
      BY <2>7, <2>8 DEF l, n, v
  <1>21. TrackedUp'
    BY <1>14, <1>17 DEF Active, TrackedUp
  <1>22. Current'
    <2>1. Cleaning(w) /\ (Ends(w) <=> Ends(todo))
          /\ (Ends(w) => w[Len(w)] = todo[Len(todo)])
      BY <1>11
    <2> QED
      BY <1>1, <1>5, <2>1 DEF Active, Current
  <1> QED
    BY <1>1, <1>18, <1>19, <1>20, <1>21, <1>22 DEF Active

LEMMA EraseStep ==
    ASSUME Active, Erase
    PROVE  Active'
  <1>0. PICK x : x = This
    OBVIOUS
  <1> DEFINE T == Tail(todo)
             Ends(s) == \E i \in DOMAIN s : s[i].op = "succeed"
  <1>1. /\ todo # <<>> /\ Head(todo).op = "erase" /\ Head(todo).id = x
        /\ todo' = T /\ m_refCounter' = m_refCounter
        /\ up /\ disk' = disk \ {x}
        /\ master' = master /\ tags' = tags /\ m_id' = m_id /\ m_commitId' = m_commitId
        /\ up' = up /\ torn' = torn /\ leaked' = leaked
    BY <1>0 DEF Erase, At, Unchanged, refs, This
  <1>2. /\ T \in Seq(Steps) /\ todo \in Seq(Steps) /\ ~Failing(todo)
    BY <1>1, HeadFacts DEF Active, Types
  <1>3. Cleaning(todo) /\ Cleaning(T)
    <2>1. Cleaning(todo)
      <3> SUFFICES ASSUME ~Cleaning(todo) PROVE FALSE
        OBVIOUS
      <3>1. Erasing = {}
        BY StageFacts DEF Active
      <3>2. 1 \in DOMAIN todo /\ todo[1].op = "erase"
        BY <1>1, HeadFacts
      <3> QED
        BY <3>1, <3>2 DEF Erasing
    <2> QED
      BY <1>1, <1>2, <2>1, CleaningTail
  <1>4. /\ Ends(T) <=> Ends(todo)
        /\ Ends(T) => T[Len(T)] = todo[Len(todo)]
    <2> DEFINE a == <<>>
               w == a \o T
    <2>1. a \in Seq(Steps) /\ \A i \in 1..Len(a) : a[i].op \in {"unlink", "erase"}
      OBVIOUS
    <2>2. w = T
      BY <1>2, ConcatEmptySeq
    <2>3. Head(todo).op # "succeed"
      BY <1>1
    <2> HIDE DEF a
    <2>4. /\ Cleaning(w) /\ (Ends(w) <=> Ends(todo))
          /\ Ends(w) => w[Len(w)] = todo[Len(todo)]
      BY <1>1, <1>3, <2>1, <2>3, CurrentTail
    <2> QED
      BY <2>2, <2>4
  <1>5. Live' = Live
    <2> DEFINE l == Len(T)
    <2>1. /\ DOMAIN todo = 1..(l + 1) /\ todo[1].op = "erase" /\ todo[1].id = x
          /\ l \in Nat /\ DOMAIN T = 1..l
          /\ \A i \in 1..l : T[i] = todo[i+1]
      <3>1. /\ Head(todo) = todo[1] /\ Len(todo) \in Nat \ {0} /\ DOMAIN todo = 1..Len(todo)
            /\ Len(T) = Len(todo) - 1 /\ DOMAIN T = 1..(Len(todo) - 1)
            /\ \A i \in 1..(Len(todo) - 1) : T[i] = todo[i+1]
        BY <1>1, <1>2, TailFacts
      <3>2. Len(todo) = l + 1 /\ l \in Nat /\ l = Len(todo) - 1
        BY <3>1
      <3> HIDE DEF T
      <3> QED
        BY <1>1, <3>1, <3>2
    <2> HIDE DEF T, l
    <2>2. Erasing' = { T[i].id : i \in { i \in DOMAIN T : T[i].op = "erase" } }
      BY <1>1 DEF Erasing
    <2>3. \A z : z \in Erasing <=> z = x \/ z \in Erasing'
      <3> SUFFICES ASSUME NEW z PROVE z \in Erasing <=> z = x \/ z \in Erasing'
        OBVIOUS
      <3>1. ASSUME z \in Erasing, z # x PROVE z \in Erasing'
        <4>1. PICK i \in DOMAIN todo : todo[i].op = "erase" /\ z = todo[i].id
          BY <3>1 DEF Erasing
        <4>2. i - 1 \in 1..l /\ (i - 1) + 1 = i
          <5>1. i # 1
            BY <2>1, <3>1, <4>1
          <5> QED
            BY <2>1, <5>1
        <4>3. T[i - 1] = todo[i]
          BY <2>1, <4>2
        <4> QED
          BY <2>1, <2>2, <4>1, <4>2, <4>3
      <3>2. x \in Erasing
        <4>1. 1 \in DOMAIN todo
          BY <2>1
        <4> QED
          BY <2>1, <4>1 DEF Erasing
      <3>3. ASSUME z \in Erasing' PROVE z \in Erasing
        <4>1. PICK i \in DOMAIN T : T[i].op = "erase" /\ z = T[i].id
          BY <2>2, <3>3
        <4>2. i + 1 \in DOMAIN todo /\ T[i] = todo[i+1]
          BY <2>1
        <4> QED
          BY <4>1, <4>2 DEF Erasing
      <3> QED
        BY <3>1, <3>2, <3>3
    <2> QED
      BY <1>1, <2>3 DEF Live
  <1>6. Types'
    <2>1. disk' \in SUBSET Objects /\ IsFiniteSet(disk')
      BY <1>1, FS_Subset DEF Active, Types
    <2> QED
      BY <1>1, <1>2, <1>5, <2>1 DEF Active, Types
  <1>7. Staged'
    BY <1>1, <1>3 DEF Staged
  <1>8. Counted'
    <2>1. \A id : Tracked(id)' <=> Tracked(id)
      BY <1>1 DEF Tracked
    <2>2. \A id : Known(id)' = Known(id) /\ Known(id) \in Nat
      <3>1. \A id : Known(id)' = Known(id)
        BY <1>1 DEF Known, Tracked
      <3> QED
        BY <3>1, LiveFacts DEF Active
    <2>3. \A id : Net(T, id, master, tags) = Net(todo, id, master, tags)
      <3> SUFFICES ASSUME NEW id PROVE Net(T, id, master, tags) = Net(todo, id, master, tags)
        OBVIOUS
      <3>1. /\ Net(todo, id, master, tags) = Weight(Head(todo), id, master, tags) + Net(T, id, master, tags)
            /\ Net(T, id, master, tags) \in Int
        BY <1>1, HeadFacts
      <3>2. Weight(Head(todo), id, master, tags) = 0
        BY <1>1 DEF Weight
      <3> QED
        BY <3>1, <3>2
    <2>4. ~Failing(T)
      BY <1>2, <1>3, Stages
    <2> HIDE DEF T
    <2> QED
      BY <1>1, <1>2, <1>5, <2>1, <2>2, <2>3, <2>4, CountedSame
  <1>9. TrackedUp'
    <2>1. \A id : Tracked(id)' <=> Tracked(id)
      BY <1>1 DEF Tracked
    <2> QED
      BY <1>5, <2>1 DEF Active, TrackedUp
  <1>10. Current'
    BY <1>1, <1>3, <1>4 DEF Active, Current
  <1> QED
    BY <1>1, <1>6, <1>7, <1>8, <1>9, <1>10 DEF Active

\* g becomes h when t becomes x.
Retagged(g, h, t, x) == h[t] = x /\ \A u \in Tags : u # t => h[u] = g[u]

\* How often snapshots mention id when one of them changes
LEMMA TagWritten ==
    ASSUME NEW g, NEW h, NEW t \in Tags, NEW x, NEW id, Retagged(g, h, t, x)
    PROVE  Refs(id, master, h) = Refs(id, master, g) - (Is(g[t], id) - Is(x, id))
  <1> DEFINE R == { u \in Tags \ {t} : g[u] = id }
             G == { u \in Tags : g[u] = id }
             H == { u \in Tags : h[u] = id }
  <1>1. IsFiniteSet(R) /\ t \notin R /\ Cardinality(R) \in Nat
    BY TagsAssumption, FS_Subset, FS_CardinalityType
  <1>2. /\ G = IF g[t] = id THEN R \cup {t} ELSE R
        /\ H = IF x = id THEN R \cup {t} ELSE R
    BY DEF Retagged
  <1>3. Cardinality(R \cup {t}) = Cardinality(R) + 1
    <2> HIDE DEF R
    <2> QED
      BY <1>1, FS_AddElement
  <1> HIDE DEF R, G, H
  <1>4. /\ Cardinality(G) = Cardinality(R) + Is(g[t], id)
        /\ Cardinality(H) = Cardinality(R) + Is(x, id)
    <2>1. Cardinality(G) = Cardinality(R) + Is(g[t], id)
      <3>1. CASE g[t] = id
        BY <1>2, <1>3, <3>1 DEF Is
      <3>2. CASE g[t] # id
        BY <1>1, <1>2, <3>2 DEF Is
      <3> QED
        BY <3>1, <3>2
    <2>2. Cardinality(H) = Cardinality(R) + Is(x, id)
      <3>1. CASE x = id
        BY <1>2, <1>3, <3>1 DEF Is
      <3>2. CASE x # id
        BY <1>1, <1>2, <3>2 DEF Is
      <3> QED
        BY <3>1, <3>2
    <2> QED
      BY <2>1, <2>2
  <1>5. /\ Refs(id, master, g) = Cardinality(G) + Is(master, id)
        /\ Refs(id, master, h) = Cardinality(H) + Is(master, id)
    BY DEF Refs, G, H
  <1>6. Is(g[t], id) \in {0, 1} /\ Is(x, id) \in {0, 1} /\ Is(master, id) \in {0, 1}
    BY DEF Is
  <1>7. Refs(id, master, h) = Refs(id, master, g) - (Is(g[t], id) - Is(x, id))
    <2> DEFINE r == Cardinality(R)
               a == Is(g[t], id)
               b == Is(x, id)
               c == Is(master, id)
               p == Refs(id, master, g)
               q == Refs(id, master, h)
    <2>1. p = (r + a) + c /\ q = (r + b) + c /\ r \in Nat
      BY <1>1, <1>4, <1>5
    <2> HIDE DEF r, a, b, c, p, q
    <2>2. q = p - (a - b)
      BY <1>6, <2>1 DEF a, b, c
    <2> QED
      BY <2>2 DEF a, b, p, q
  <1> QED
    BY <1>7

LEMMA WriteRefStep ==
    ASSUME Active, WriteRef
    PROVE  Active'
  <1>0. PICK x : x = This
    OBVIOUS
  <1> DEFINE T == Tail(todo)
             w(id) == Weight(Head(todo), id, master, tags)
  <1>1. /\ todo # <<>> /\ Head(todo).op \in {"master", "tag"} /\ Head(todo).id = x
        /\ Head(todo).op = "master" => master' = x /\ tags' = tags /\ torn' = FALSE
        /\ Head(todo).op = "tag" => tags' = [tags EXCEPT ![Head(todo).tag] = x]
                                   /\ master' = master /\ torn' = torn
        /\ todo' = T
        /\ up /\ disk' = disk /\ m_refCounter' = m_refCounter
        /\ m_id' = m_id /\ m_commitId' = m_commitId
        /\ up' = up /\ leaked' = leaked
    BY <1>0 DEF WriteRef, At, memory, This
  <1>2. /\ todo \in Seq(Steps) /\ T \in Seq(Steps) /\ Head(todo) \in Steps
        /\ todo[1] = Head(todo) /\ DOMAIN todo = 1..Len(todo) /\ Len(todo) \in Nat \ {0}
    BY <1>1, HeadFacts DEF Active, Types
  <1>3. ~Cleaning(todo) /\ ~Failing(todo)
    BY <1>1, HeadFacts
  <1>4. Writing(todo, 1)
    <2>1. PICK q \in DOMAIN todo : Writing(todo, q)
      BY <1>3, StageFacts DEF Active, Sound
    <2>2. ~(1 < q)
      <3>1. 1 < q => todo[1].op \in {"add", "link", "unlink"}
        BY <1>2, <2>1 DEF Writing
      <3> QED
        BY <1>1, <1>2, <3>1
    <2>3. q = 1
      BY <1>2, <2>1, <2>2
    <2> QED
      BY <2>1, <2>3
  <1>5. /\ Cleaning(T) /\ ~Failing(T)
        /\ Head(todo).op = "tag" => \A i \in DOMAIN T : T[i].op # "succeed"
        /\ Head(todo).op = "master" =>
              Len(T) \in DOMAIN T /\ T[Len(T)].op = "succeed" /\ T[Len(T)].id = x
    BY <1>1, <1>2, <1>4, WrittenTail, Stages
  <1>6. Erasing' = Erasing /\ Live' = Live /\ Erasing = {} /\ Live = disk
    BY <1>1, <1>3, ErasingTail, StageFacts DEF Active
  <1>7. /\ Head(todo).op = "master" => x \in Commits
        /\ Head(todo).op = "tag" => Head(todo).tag \in Tags /\ x \in Commits \cup {Nil, Missing}
    BY <1>1, <1>2, StepFacts
  <1>8. master \in Commits \cup {Nil} /\ tags \in [Tags -> Commits \cup {Nil, Missing}]
    BY DEF Active, Types
  <1>9. Types'
    <2>1. master' \in Commits \cup {Nil} /\ tags' \in [Tags -> Commits \cup {Nil, Missing}]
      <3> HIDE DEF Nil, Missing
      <3> QED
        BY <1>1, <1>7, <1>8
    <2>2. torn' \in BOOLEAN
      BY <1>1 DEF Active, Types
    <2> QED
      BY <1>1, <1>2, <1>6, <2>1, <2>2 DEF Active, Types
  <1>10. Staged'
    BY <1>1, <1>5 DEF Staged
  <1>11. Current'
    <2>1. m_commitId = master /\ m_id = View(master)
      BY <1>3 DEF Active, Current
    <2>2. CASE Head(todo).op = "master"
      BY <1>1, <1>5, <2>2 DEF Current
    <2>3. CASE Head(todo).op = "tag"
      BY <1>1, <1>5, <2>1, <2>3 DEF Current
    <2> QED
      BY <1>1, <2>2, <2>3
  <1>12. \A id : Refs(id, master', tags') = Refs(id, master, tags) - w(id)
    <2> SUFFICES ASSUME NEW id PROVE Refs(id, master', tags') = Refs(id, master, tags) - w(id)
      OBVIOUS
    <2>1. CASE Head(todo).op = "master"
      <3>1. w(id) = Is(master, id) - Is(x, id)
        BY <1>1, <2>1 DEF Weight
      <3> DEFINE b == Cardinality({ t \in Tags : tags[t] = id })
                 r == Refs(id, master, tags)
                 s == Refs(id, x, tags)
                 i == Is(master, id)
                 j == Is(x, id)
      <3>2. r = b + i /\ s = b + j
        BY DEF Refs
      <3>3. b \in Nat
        BY TagsAssumption, FS_Subset, FS_CardinalityType
      <3>4. i \in {0, 1} /\ j \in {0, 1}
        BY DEF Is
      <3> HIDE DEF b, r, s, i, j
      <3>5. s = r - (i - j)
        BY <3>2, <3>3, <3>4
      <3> QED
        BY <1>1, <2>1, <3>1, <3>5 DEF r, s, i, j
    <2>2. CASE Head(todo).op = "tag"
      <3> DEFINE t == Head(todo).tag
      <3>1. w(id) = Is(tags[t], id) - Is(x, id)
        BY <1>1, <2>2 DEF Weight
      <3> DEFINE V == Commits \cup {Nil, Missing}
      <3>2. t \in Tags /\ x \in V /\ tags \in [Tags -> V]
        BY <1>7, <1>8, <2>2
      <3>a. Retagged(tags, tags', t, x)
        BY <1>1, <2>2, <3>2 DEF Retagged
      <3> HIDE DEF V, t
      <3>3. Refs(id, master, tags') =
              Refs(id, master, tags) - (Is(tags[t], id) - Is(x, id))
        BY <3>2, <3>a, TagWritten
      <3> QED
        BY <1>1, <2>2, <3>1, <3>3 DEF t
    <2> QED
      BY <1>1, <2>1, <2>2
  <1>13. Counted'
    <2> SUFFICES ASSUME NEW id \in Objects, Tracked(id)' \/ id \notin Live'
                 PROVE  LET n == Known(id)' + Net(T, id, master', tags')
                        IN  /\ n >= Uses(Live', id, master', tags')
                            /\ ~leaked => n = Uses(Live', id, master', tags')
      BY <1>1, <1>5 DEF Counted
    <2> DEFINE u == Uses(Live, id, master, tags)
               v == Uses(Live', id, master', tags')
               k == Known(id)
               m == Net(todo, id, master, tags)
               n == Net(T, id, master, tags)
               c == Cardinality(Mentions(Live, id))
               r == Refs(id, master, tags)
               s == Refs(id, master', tags')
               a == w(id)
    <2>1. k + m >= u /\ (~leaked => k + m = u)
      <3>1. Tracked(id) \/ id \notin Live
        BY <1>1, <1>6 DEF Tracked
      <3> QED
        BY <1>3, <3>1 DEF Active, Counted
    <2>2. m = a + n /\ a \in Int /\ n \in Int
      BY <1>1, HeadFacts
    <2>3. Net(T, id, master', tags') = n
      <3> HIDE DEF T
      <3>1. \A m2, g2 : Net(T, id, m2, g2) = Net(T, id, master, tags)
        BY <1>2, <1>5, CleaningNet
      <3> QED
        BY <3>1
    <2>4. Known(id)' = k /\ k \in Nat
      BY <1>1, LiveFacts DEF Known, Tracked, Active
    <2>5. u = c + r /\ v = c + s
      BY <1>6 DEF Uses
    <2>6. c \in Nat /\ r \in Nat
      BY LiveFacts, UsesFacts DEF Active
    <2>7. s = r - a
      BY <1>12
    <2> HIDE DEF u, v, k, m, n, c, r, s, a
    <2>8. k + n >= v /\ (~leaked => k + n = v)
      BY <2>1, <2>2, <2>4, <2>5, <2>6, <2>7
    <2> QED
      BY <2>3, <2>4, <2>8 DEF v
  <1>14. TrackedUp'
    <2>1. \A id : Tracked(id)' <=> Tracked(id)
      BY <1>1 DEF Tracked
    <2> QED
      BY <1>6, <2>1 DEF Active, TrackedUp
  <1> QED
    BY <1>1, <1>9, <1>10, <1>11, <1>13, <1>14 DEF Active

LEMMA EndStep ==
    ASSUME Active, End
    PROVE  Active'
  <1>0. PICK x : x = This
    OBVIOUS
  <1> DEFINE T == Tail(todo)
  <1>1. /\ todo # <<>> /\ Head(todo).op = "succeed" /\ Head(todo).id = x
        /\ m_id' = [root |-> Head(todo).root, sub |-> Head(todo).sub] /\ m_commitId' = x
        /\ todo' = <<>>
        /\ up /\ disk' = disk /\ m_refCounter' = m_refCounter
        /\ master' = master /\ tags' = tags
        /\ up' = up /\ torn' = torn /\ leaked' = leaked
    BY <1>0 DEF End, At, refs, This
  <1>2. /\ todo \in Seq(Steps) /\ Tail(todo) \in Seq(Steps) /\ Head(todo) \in Steps
        /\ todo[1] = Head(todo) /\ DOMAIN todo = 1..Len(todo) /\ Len(todo) \in Nat \ {0}
        /\ 1 \in DOMAIN todo
    BY <1>1, HeadFacts DEF Active, Types
  <1>3. Cleaning(todo)
    <2>1. ~Failing(todo)
      BY <1>1, HeadFacts
    <2>2. ASSUME NEW q \in DOMAIN todo, Writing(todo, q) PROVE FALSE
      <3>1. q \in Nat /\ (q = 1 \/ 1 < q)
        BY <1>2
      <3>2. CASE q = 1
        BY <1>1, <1>2, <2>2, <3>2 DEF Writing
      <3>3. CASE 1 < q
        BY <1>1, <1>2, <2>2, <3>3 DEF Writing
      <3> QED
        BY <3>1, <3>2, <3>3
    <2> QED
      BY <2>1, <2>2, StageFacts DEF Active, Sound
  <1>4. Len(todo) = 1
    BY <1>1, <1>2, <1>3 DEF Cleaning
  <1>5. \A i \in DOMAIN todo : todo[i].op # "erase"
    <2>1. \A i \in DOMAIN todo : i = 1
      BY <1>2, <1>4
    <2> QED
      BY <1>1, <1>2, <2>1
  <1>6. Erasing = {} /\ Erasing' = {} /\ Live = disk /\ Live' = Live
    BY <1>1, <1>5 DEF Erasing, Live
  <1>7. \A id : Net(todo, id, master, tags) = 0
    <2>1. T = <<>>
      <3>1. Len(T) = 0
        BY <1>1, <1>2, <1>4, TailFacts
      <3>2. T \in Seq(Steps)
        BY <1>2
      <3> HIDE DEF T
      <3> QED
        BY <3>1, <3>2, EmptySeq
    <2>2. \A id : Weight(Head(todo), id, master, tags) = 0
      BY <1>1 DEF Weight
    <2>3. \A id : Net(todo, id, master, tags) =
                    Weight(Head(todo), id, master, tags) + Net(Tail(todo), id, master, tags)
      BY <1>1, HeadFacts
    <2> SUFFICES ASSUME NEW id PROVE Net(todo, id, master, tags) = 0
      OBVIOUS
    <2>4. Net(todo, id, master, tags) = 0 + Net(<<>>, id, master, tags)
      BY <2>1, <2>2, <2>3
    <2> QED
      BY <2>4, NetEmpty
  <1>8. x = master /\ x \in Commits \cup {Nil} /\ m_id' = View(x)
    <2>1. x = master
      BY <1>1, <1>2, <1>3, <1>4 DEF Active, Current
    <2>2. x \in Commits \cup {Nil} /\ m_id' = View(x)
      BY <1>1, <1>2, StepFacts DEF View
    <2> QED
      BY <2>1, <2>2
  <1>9. Types'
    <2>1. <<>> \in Seq(Steps)
      OBVIOUS
    <2>2. m_id' \in { View(c) : c \in Commits \cup {Nil} }
      BY <1>8
    <2> QED
      BY <1>1, <1>6, <1>8, <2>1, <2>2 DEF Active, Types
  <1>10. Staged'
    BY <1>1, <1>2, Stages DEF Staged
  <1>11. Counted'
    <2> SUFFICES ASSUME NEW id \in Objects, Tracked(id)' \/ id \notin Live'
                 PROVE  LET n == Known(id)' + Net(<<>>, id, master, tags)
                        IN  /\ n >= Uses(Live, id, master, tags)
                            /\ ~leaked => n = Uses(Live, id, master, tags)
      BY <1>1, <1>6 DEF Counted, Failing
    <2>1. Tracked(id) \/ id \notin Live
      BY <1>1, <1>6 DEF Tracked
    <2>2. ~Failing(todo)
      BY <1>2, <1>3, Stages
    <2>3. LET n == Known(id) + Net(todo, id, master, tags)
          IN  /\ n >= Uses(Live, id, master, tags)
              /\ ~leaked => n = Uses(Live, id, master, tags)
      BY <2>1, <2>2 DEF Active, Counted
    <2>4. Known(id)' = Known(id)
      BY <1>1 DEF Known, Tracked
    <2> QED
      BY <1>7, <2>3, <2>4, NetEmpty
  <1>12. TrackedUp'
    <2>1. \A id : Tracked(id)' <=> Tracked(id)
      BY <1>1 DEF Tracked
    <2> QED
      BY <1>6, <2>1 DEF Active, TrackedUp
  <1>13. Current'
    BY <1>1, <1>8 DEF Current
  <1> QED
    BY <1>1, <1>9, <1>10, <1>11, <1>12, <1>13 DEF Active

\* What was linked too early stays linked.  A reference that was truncated mentions nothing.
LEMMA ExceptionStep ==
    ASSUME Active, Exception
    PROVE  Active'
  <1>1. /\ todo # <<>> /\ Head(todo).op \in {"fail", "master", "tag", "add", "link"}
        /\ todo' = <<>> /\ leaked' = TRUE
        /\ up /\ disk' = disk /\ m_refCounter' = m_refCounter
        /\ master' = master /\ m_id' = m_id /\ m_commitId' = m_commitId
        /\ up' = up
    BY DEF Exception, At, refs, memory
  <1>2. ~Cleaning(todo)
    BY <1>1, HeadFacts
  <1>3. Erasing = {} /\ Live = disk /\ Erasing' = {} /\ Live' = Live
    <2>1. Erasing = {} /\ Live = disk
      BY <1>2, StageFacts DEF Active
    <2>2. Erasing' = {}
      BY <1>1 DEF Erasing
    <2> QED
      BY <1>1, <2>1, <2>2 DEF Live
  <1>a. /\ torn' \in BOOLEAN /\ tags' \in [Tags -> Commits \cup {Nil, Missing}]
        /\ \A id \in Objects : Refs(id, master, tags') <= Refs(id, master, tags)
    <2>1. /\ torn \in BOOLEAN /\ tags \in [Tags -> Commits \cup {Nil, Missing}]
          /\ \A id \in Objects : Refs(id, master, tags) \in Nat
      BY LiveFacts, UsesFacts DEF Active, Types
    <2>2. CASE tags' = tags
      <3>1. torn' \in BOOLEAN
        BY <2>1 DEF Exception, refs
      <3>2. \A id \in Objects : Refs(id, master, tags') <= Refs(id, master, tags)
        BY <2>1, <2>2
      <3> QED
        BY <2>1, <2>2, <3>1, <3>2
    <2>3. CASE At("tag") /\ tags' = TornTags /\ torn' = torn
      <3> DEFINE t == Head(todo).tag
      <3>1. t \in Tags
        BY <1>1, <2>3, HeadFacts, StepFacts DEF At
      <3>2. tags' = [tags EXCEPT ![t] = Missing]
        BY <2>3 DEF TornTags
      <3> HIDE DEF t
      <3>3. tags' \in [Tags -> Commits \cup {Nil, Missing}] /\ Retagged(tags, tags', t, Missing)
        <4> HIDE DEF Nil, Missing
        <4> QED
          BY <2>1, <3>1, <3>2 DEF Retagged
      <3>4. ASSUME NEW id \in Objects PROVE Refs(id, master, tags') <= Refs(id, master, tags)
        <4>1. Refs(id, master, tags') =
                Refs(id, master, tags) - (Is(tags[t], id) - Is(Missing, id))
          BY <3>1, <3>3, TagWritten
        <4>2. Is(Missing, id) = 0 /\ Is(tags[t], id) \in {0, 1}
          BY Disjoint DEF Is
        <4>3. Refs(id, master, tags) \in Nat
          BY <2>1
        <4> QED
          BY <4>1, <4>2, <4>3
      <3> QED
        BY <2>1, <2>3, <3>3, <3>4
    <2> QED
      BY <2>2, <2>3 DEF Exception, refs
  <1>4. Types'
    <2>1. <<>> \in Seq(Steps)
      OBVIOUS
    <2> QED
      BY <1>1, <1>3, <1>a, <2>1 DEF Active, Types
  <1>5. Staged'
    <2>1. <<>> \in Seq(Steps)
      OBVIOUS
    <2> QED
      BY <1>1, <2>1, Stages DEF Staged
  <1>6. Counted'
    <2> SUFFICES ASSUME NEW id \in Objects, Tracked(id)' \/ id \notin Live'
                 PROVE  Known(id)' + Net(<<>>, id, master, tags') >= Uses(Live, id, master, tags')
      BY <1>1, <1>3 DEF Counted, Failing
    <2>1. Tracked(id) \/ id \notin Live
      BY <1>1, <1>3 DEF Tracked
    <2> DEFINE k == Known(id)
               m == Net(todo, id, master, tags)
               u == Uses(Live, id, master, tags)
               v == Uses(Live, id, master, tags')
    <2>2. k \in Nat /\ m \in Int /\ u \in Nat
      BY LiveFacts DEF Active
    <2>3. IF Failing(todo) THEN k >= u ELSE k + m >= u
      BY <2>1 DEF Active, Counted
    <2>4. ~Failing(todo) => m <= 0
      BY StageFacts DEF Active
    <2>5. Known(id)' = k
      BY <1>1 DEF Known, Tracked
    <2>6. v <= u /\ v \in Nat
      <3>1. Live \subseteq Objects /\ IsFiniteSet(Live)
        BY LiveFacts DEF Active
      <3> DEFINE c == Cardinality(Mentions(Live, id))
                 p == Refs(id, master, tags)
                 q == Refs(id, master, tags')
      <3>2. u = c + p /\ v = c + q /\ c \in Nat /\ p \in Nat /\ q \in Nat
        BY <3>1, UsesFacts
      <3>3. q <= p
        BY <1>a
      <3> HIDE DEF c, p, q, u, v
      <3> QED
        BY <3>2, <3>3
    <2> HIDE DEF k, m, u, v
    <2>7. k >= u
      BY <2>2, <2>3, <2>4
    <2>8. k >= v
      BY <2>2, <2>6, <2>7
    <2> QED
      BY <2>2, <2>5, <2>6, <2>8, NetEmpty DEF v
  <1>7. TrackedUp'
    <2>1. \A id : Tracked(id)' <=> Tracked(id)
      BY <1>1 DEF Tracked
    <2> QED
      BY <1>3, <2>1 DEF Active, TrackedUp
  <1>8. Current'
    BY <1>1, <1>2 DEF Active, Current
  <1> QED
    BY <1>1, <1>4, <1>5, <1>6, <1>7, <1>8 DEF Active

LEMMA BeginStep ==
    ASSUME Active, ~Nested, UserOp
    PROVE  Active' /\ Intended'
  <1>1. todo = <<>>
    BY DEF UserOp, CreateFile, CopyFile, RemoveFile, CreateDirectory, RemoveDirectory,
           CreateSnapshot, RemoveSnapshot, CopySnapshot, Begin, Idle
  <1>2. PICK s : Fits(s) /\ Asked(s) /\ Begin(s)
    BY <1>1, IdleSettled, UserOpPlan
  <1>3. /\ todo' = s
        /\ up /\ disk' = disk /\ m_refCounter' = m_refCounter
        /\ master' = master /\ tags' = tags /\ m_id' = m_id /\ m_commitId' = m_commitId
        /\ up' = up /\ torn' = torn /\ leaked' = leaked
    BY <1>2 DEF Begin, Idle, refs, memory
  <1>4. /\ s \in Seq(Steps)
        /\ Hopeless(s, disk) \/ \E r \in DOMAIN s : Sound(s, r, disk, master, tags)
        /\ ~Hopeless(s, disk) => \A id \in Objects : Net(s, id, master, tags) = 0
    BY <1>2 DEF Fits, Raises
  <1>5. ~Cleaning(s) /\ (Hopeless(s, disk) <=> Failing(s))
    BY <1>4, Stages DEF Hopeless
  <1>6. Erasing = {} /\ Live = disk /\ Erasing' = {} /\ Live' = Live
    <2>1. \A i \in DOMAIN s : s[i].op # "erase"
      BY <1>4, NotErasing
    <2> QED
      BY <1>1, <1>3, <2>1 DEF Erasing, Live
  <1>7. Types'
    BY <1>3, <1>4, <1>6 DEF Active, Types
  <1>8. Staged'
    BY <1>3, <1>4 DEF Staged
  <1>9. Counted'
    <2> SUFFICES ASSUME NEW id \in Objects, Tracked(id)' \/ id \notin Live'
                 PROVE  IF Failing(s) THEN Known(id)' >= Uses(Live, id, master, tags)
                        ELSE LET n == Known(id)' + Net(s, id, master, tags)
                             IN  /\ n >= Uses(Live, id, master, tags)
                                 /\ ~leaked => n = Uses(Live, id, master, tags)
      BY <1>3, <1>6 DEF Counted
    <2>1. Tracked(id) \/ id \notin Live
      BY <1>3, <1>6 DEF Tracked
    <2> DEFINE k == Known(id)
               u == Uses(Live, id, master, tags)
    <2>2. k \in Nat
      BY LiveFacts DEF Active
    <2>3. LET n == k + Net(<<>>, id, master, tags) IN n >= u /\ (~leaked => n = u)
      BY <1>1, <2>1 DEF Active, Counted, Failing
    <2>4. Known(id)' = k
      BY <1>3 DEF Known, Tracked
    <2> HIDE DEF k, u
    <2>5. k >= u /\ (~leaked => k = u)
      BY <2>2, <2>3, NetEmpty
    <2>6. ~Failing(s) => Net(s, id, master, tags) = 0
      BY <1>4, <1>5
    <2> QED
      BY <2>2, <2>4, <2>5, <2>6 DEF u
  <1>10. TrackedUp'
    <2>1. \A id : Tracked(id)' <=> Tracked(id)
      BY <1>3 DEF Tracked
    <2> QED
      BY <1>6, <2>1 DEF Active, TrackedUp
  <1>11. Current'
    BY <1>1, <1>3, <1>5 DEF Active, Current
  <1>12. Intended'
    BY <1>2, <1>3 DEF Intended, Asked, ReadMaster
  <1> QED
    BY <1>3, <1>7, <1>8, <1>9, <1>10, <1>11, <1>12 DEF Active

----------------------------------------------------------------------------
(* The reference that will be written stays the one that was asked for.    *)

LEMMA AskedTail ==
    ASSUME todo \in Seq(Steps), todo # <<>>, Intended, NEW a \in Seq(Steps),
           \A i \in 1..Len(a) : a[i].op \notin {"master", "tag"}
    PROVE  Asked(a \o Tail(todo))
  <1> DEFINE T == Tail(todo)
             w == a \o T
  <1>1. /\ T \in Seq(Steps) /\ DOMAIN T = 1..(Len(todo) - 1) /\ Len(todo) \in Nat \ {0}
        /\ Len(T) = Len(todo) - 1 /\ DOMAIN todo = 1..Len(todo)
        /\ \A i \in 1..(Len(todo) - 1) : T[i] = todo[i+1]
    BY TailFacts
  <1> HIDE DEF T
  <1>2. Joined(w, a, T)
    BY <1>1, JoinFacts
  <1> HIDE DEF w
  <1>3. SUFFICES ASSUME NEW i \in DOMAIN w
        PROVE  /\ w[i].op = "master" => Changes(Image(master), Image(w[i].id))
               /\ w[i].op = "tag" =>
                     w[i].id \in {ReadMaster, Missing} \/ \E u \in Tags : tags[u] = w[i].id
    BY DEF Asked, w, T
  <1>4. DOMAIN w = 1..(Len(a) + Len(T)) /\ Len(a) \in Nat
        /\ (\A j \in 1..Len(a) : w[j] = a[j]) /\ (\A j \in 1..Len(T) : w[Len(a) + j] = T[j])
    BY <1>2 DEF Joined
  <1>5. CASE i \in 1..Len(a)
    BY <1>4, <1>5
  <1>6. CASE i \notin 1..Len(a)
    <2> DEFINE j == i - Len(a)
    <2>1. j \in 1..Len(T) /\ Len(a) + j = i
      BY <1>1, <1>4, <1>6
    <2>2. w[i] = todo[j + 1] /\ j + 1 \in DOMAIN todo
      <3>1. w[i] = T[j]
        BY <1>4, <2>1
      <3> QED
        BY <1>1, <2>1, <3>1
    <2> HIDE DEF j
    <2> QED
      BY <2>2 DEF Intended, Asked
  <1> QED
    BY <1>5, <1>6

LEMMA AskedStep ==
    ASSUME Active, Intended,
           AddNew \/ AddExisting \/ Link \/ Unlink \/ UnlinkLast \/ Erase
    PROVE  Intended'
  <1>0. PICK x : x = This
    OBVIOUS
  <1> DEFINE T == Tail(todo)
  <1>1. todo # <<>> /\ todo \in Seq(Steps) /\ T \in Seq(Steps) /\ x \in Ids
    BY <1>0, HeadFacts DEF AddNew, AddExisting, Link, Unlink, UnlinkLast, AtLast, Erase, At,
                           Active, Types
  <1>2. master' = master /\ tags' = tags /\ ReadMaster' = ReadMaster
    <2>1. master' = master /\ tags' = tags /\ torn' = torn
      BY DEF AddNew, AddExisting, Link, Unlink, UnlinkLast, Erase, Unchanged, refs
    <2> QED
      BY <2>1 DEF ReadMaster
  <1>3. Asked(T)
    <2>1. <<>> \in Seq(Steps) /\ \A i \in 1..Len(<<>>) : <<>>[i].op \notin {"master", "tag"}
      OBVIOUS
    <2>2. <<>> \o T = T
      BY <1>1, ConcatEmptySeq
    <2>3. Asked(<<>> \o T)
      BY <1>1, <2>1, AskedTail
    <2> QED
      BY <2>2, <2>3
  <1>4. CASE AddNew \/ Link \/ Unlink \/ Erase
    <2>1. todo' = T
      BY <1>4 DEF AddNew, Link, Unlink, Erase
    <2> HIDE DEF T
    <2> QED
      BY <1>2, <1>3, <2>1 DEF Intended, Asked
  <1>5. ASSUME NEW op \in {"link", "erase"}, x \in Objects,
               todo' = (Unlinks(x) \o Do(op, x)) \o T
               \/ todo' = Unlinks(x) \o (Do(op, x) \o T)
        PROVE  Intended'
    <2> DEFINE U == Unlinks(x)
               L == Do(op, x)
               a == U \o L
    <2>1. U \in Seq(Steps) /\ \A i \in 1..Len(U) : U[i].op = "unlink"
      BY <1>5, UnlinksFacts
    <2>2. L \in Seq(Steps) /\ Len(L) = 1 /\ L[1].op = op
      <3>1. [op |-> op, id |-> x] \in Steps
        BY <1>1, <1>5, StepIs
      <3> QED
        BY <3>1, DoFacts
    <2> HIDE DEF U, L
    <2>3. a \in Seq(Steps) /\ Joined(a, U, L)
      BY <2>1, <2>2, JoinFacts, ConcatProperties
    <2>4. todo' = a \o T
      <3>1. U \in Seq(Steps) /\ L \in Seq(Steps) /\ T \in Seq(Steps)
        BY <1>1, <2>1, <2>2
      <3> HIDE DEF T
      <3>2. U \o (L \o T) = (U \o L) \o T
        BY <3>1, ConcatAssociative
      <3> QED
        BY <1>5, <3>2 DEF U, L
    <2> HIDE DEF a
    <2>5. \A i \in 1..Len(a) : a[i].op \notin {"master", "tag"}
      <3> SUFFICES ASSUME NEW i \in 1..Len(a) PROVE a[i].op \notin {"master", "tag"}
        OBVIOUS
      <3>1. Len(a) = Len(U) + 1 /\ Len(U) \in Nat
        BY <2>2, <2>3 DEF Joined
      <3>2. CASE i \in 1..Len(U)
        BY <2>1, <2>3, <3>2 DEF Joined
      <3>3. CASE i \notin 1..Len(U)
        <4>1. i = Len(U) + 1 /\ 1 \in 1..Len(L)
          BY <2>2, <3>1, <3>3
        <4>2. a[i] = L[1]
          BY <2>3, <4>1 DEF Joined
        <4> QED
          BY <1>5, <2>2, <4>2
      <3> QED
        BY <3>2, <3>3
    <2>6. Asked(a \o T)
      BY <1>1, <2>3, <2>5, AskedTail
    <2> HIDE DEF T
    <2> QED
      BY <1>2, <2>4, <2>6 DEF Intended, Asked
  <1>6. CASE AddExisting
    <2>1. Head(todo).op = "add" /\ x \in Objects
      BY <1>0, <1>6, HeadFacts DEF AddExisting, At
    <2> QED
      BY <1>0, <1>5, <1>6, <2>1 DEF AddExisting
  <1>7. CASE UnlinkLast
    <2>1. x \in Objects
      BY <1>0, <1>7, LiveFacts DEF UnlinkLast, AtLast, Active
    <2> QED
      BY <1>0, <1>5, <1>7, <2>1 DEF UnlinkLast
  <1> QED
    BY <1>4, <1>6, <1>7

LEMMA EndingAsked ==
    ASSUME Active, WriteRef \/ End \/ Exception
    PROVE  Intended'
  <1>1. CASE WriteRef
    <2>1. todo # <<>> /\ todo' = Tail(todo) /\ Head(todo).op \in {"master", "tag"}
      BY <1>1 DEF WriteRef, At
    <2>2. Cleaning(Tail(todo))
      <3>1. ~Cleaning(todo) /\ ~Failing(todo)
        BY <2>1, HeadFacts
      <3>2. PICK q \in DOMAIN todo : Writing(todo, q)
        BY <3>1, StageFacts DEF Active, Sound
      <3>3. q = 1
        <4>1. todo[1] = Head(todo) /\ DOMAIN todo = 1..Len(todo) /\ Len(todo) \in Nat
          BY <2>1, HeadFacts
        <4>2. 1 < q => todo[1].op \in {"add", "link", "unlink"}
          BY <3>2, <4>1 DEF Writing
        <4> QED
          BY <2>1, <3>2, <4>1, <4>2
      <3> QED
        BY <3>2, <3>3, WrittenTail DEF Active, Types
    <2> QED
      BY <2>1, <2>2 DEF Intended, Asked, Cleaning
  <1>2. CASE End \/ Exception
    <2>1. todo' = <<>>
      BY <1>2 DEF End, Exception
    <2> QED
      BY <2>1 DEF Intended, Asked
  <1> QED
    BY <1>1, <1>2

----------------------------------------------------------------------------
(* What references reach.                                                  *)

\* A set that contains what its objects mention contains what references to it reach.
LEMMA ReachedIn ==
    ASSUME NEW R, NEW S, R \ {Nil, Missing} \subseteq S,
           \A o \in S : ToSet(Content(o)) \subseteq S
    PROVE  Reached(R) \subseteq S
  <1> DEFINE top == R \ {Nil, Missing}
             trees == Mentioned(top)
             entries == Mentioned(trees)
             nested == Mentioned(entries)
  <1>1. \A A : A \subseteq S => Mentioned(A) \subseteq S
    BY DEF Mentioned
  <1> HIDE DEF top, trees, entries, nested
  <1>2. top \subseteq S
    BY DEF top
  <1>3. trees \subseteq S
    BY <1>1, <1>2 DEF trees
  <1>4. entries \subseteq S
    BY <1>1, <1>3 DEF entries
  <1>5. nested \subseteq S
    BY <1>1, <1>4 DEF nested
  <1>6. Mentioned(nested) \subseteq S
    BY <1>1, <1>5
  <1>7. Reached(R) = top \cup trees \cup entries \cup nested \cup Mentioned(nested)
    BY DEF Reached, top, trees, entries, nested
  <1> QED
    BY <1>2, <1>3, <1>4, <1>5, <1>6, <1>7

\* What references reach is such a set: objects nest no deeper.
LEMMA ReachedFacts ==
    ASSUME NEW R, R \subseteq Commits \cup {Nil, Missing}
    PROVE  /\ Reached(R) \subseteq Objects
           /\ R \ {Nil, Missing} \subseteq Reached(R)
           /\ \A o \in Reached(R) : ToSet(Content(o)) \subseteq Reached(R)
  <1> DEFINE top == R \ {Nil, Missing}
             trees == Mentioned(top)
             entries == Mentioned(trees)
             nested == Mentioned(entries)
             rest == Mentioned(nested)
  <1>1. top \subseteq Commits
    <2> HIDE DEF Nil, Missing
    <2> QED
      OBVIOUS
  <1> HIDE DEF top
  <1>2. trees \subseteq RootTrees
    BY <1>1, ContentFacts, CommitFacts DEF Mentioned
  <1> HIDE DEF trees
  <1>3. entries \subseteq Blobs \cup SubTrees
    <2> SUFFICES ASSUME NEW t \in RootTrees, NEW x \in ToSet(Content(t))
                 PROVE  x \in Blobs \cup SubTrees
      BY <1>2 DEF Mentioned
    <2>1. PICK n \in DOMAIN Entries(t) : x = Entries(t)[n]
      BY ContentFacts
    <2> QED
      BY <2>1, TreeFacts, EntriesFacts
  <1> HIDE DEF entries
  <1>4. nested \subseteq Blobs
    <2> SUFFICES ASSUME NEW o \in Blobs \cup SubTrees, NEW x \in ToSet(Content(o))
                 PROVE  x \in Blobs
      BY <1>3 DEF Mentioned
    <2>1. o \in SubTrees
      BY ContentFacts
    <2>2. PICK n \in DOMAIN Entries(o) : x = Entries(o)[n]
      BY <2>1, ContentFacts, SubRoot
    <2> QED
      BY <2>1, <2>2, SubRoot, TreeFacts, EntriesFacts
  <1> HIDE DEF nested
  <1>5. rest = {}
    BY <1>4, ContentFacts DEF Mentioned
  <1>6. Reached(R) = top \cup trees \cup entries \cup nested \cup rest
    BY DEF Reached, top, trees, entries, nested
  <1>7. Reached(R) \subseteq Objects
    BY <1>1, <1>2, <1>3, <1>4, <1>5, <1>6, SubRoot DEF Objects
  <1>8. R \ {Nil, Missing} \subseteq Reached(R)
    BY <1>6 DEF top
  <1>9. ASSUME NEW o \in Reached(R) PROVE ToSet(Content(o)) \subseteq Reached(R)
    <2>1. CASE o \in top
      BY <1>6, <2>1 DEF trees, Mentioned
    <2>2. CASE o \in trees
      BY <1>6, <2>2 DEF entries, Mentioned
    <2>3. CASE o \in entries
      BY <1>6, <2>3 DEF nested, Mentioned
    <2>4. CASE o \in nested
      BY <1>6, <2>4 DEF Mentioned
    <2> QED
      BY <1>5, <1>6, <1>9, <2>1, <2>2, <2>3, <2>4
  <1> QED
    BY <1>7, <1>8, <1>9

LEMMA RootsFacts ==
    ASSUME Typed
    PROVE  /\ Roots \subseteq Commits \cup {Nil, Missing}
           /\ master \in Roots /\ \A t \in Tags : tags[t] \in Roots
           /\ Reached(Roots) \subseteq Objects
           /\ Roots \ {Nil, Missing} \subseteq Reached(Roots)
           /\ \A o \in Reached(Roots) : ToSet(Content(o)) \subseteq Reached(Roots)
           /\ \A id \in Objects : id \notin Reached(Roots) =>
                 master # id /\ \A t \in Tags : tags[t] # id
  <1>1. /\ Roots \subseteq Commits \cup {Nil, Missing}
        /\ master \in Roots /\ \A t \in Tags : tags[t] \in Roots
    <2> HIDE DEF Nil, Missing
    <2> QED
      BY DEF Typed, Roots, Range
  <1>2. /\ Reached(Roots) \subseteq Objects
        /\ Roots \ {Nil, Missing} \subseteq Reached(Roots)
        /\ \A o \in Reached(Roots) : ToSet(Content(o)) \subseteq Reached(Roots)
    BY <1>1, ReachedFacts
  <1>3. Nil \notin Objects /\ Missing \notin Objects
    BY Disjoint
  <1> HIDE DEF Nil, Missing
  <1> QED
    BY <1>1, <1>2, <1>3

LEMMA NilView == View(Nil) = [root |-> Nil, sub |-> Missing]
  <1>1. TreeOf(Nil) = Nil /\ Entries(Nil) = NoEntries
    BY NilFacts
  <1>2. SubOf(Nil) = Missing
    BY <1>1, NoEntriesFacts DEF SubOf
  <1> QED
    BY <1>1, <1>2 DEF View

----------------------------------------------------------------------------
(* Types, whether the server is sound or not.                              *)

LEMMA AnyStepIs ==
    /\ Steps \subseteq AnySteps
    /\ \A c \in Commits \cup {Nil}, r \in RootTrees \cup {Nil}, t \in SubTrees \cup {Missing} :
          [op |-> "succeed", id |-> c, root |-> r, sub |-> t] \in AnySteps
  <1>1. ASSUME NEW c \in Commits \cup {Nil}
        PROVE  TreeOf(c) \in RootTrees \cup {Nil} /\ SubOf(TreeOf(c)) \in SubTrees \cup {Missing}
    <2>1. TreeOf(c) \in RootTrees \cup {Nil}
      <3> HIDE DEF Nil
      <3> QED
        BY CommitFacts, NilFacts
    <2> QED
      BY <2>1, SubFacts
  <1>2. \A c \in Commits \cup {Nil}, r \in RootTrees \cup {Nil}, t \in SubTrees \cup {Missing} :
           [op |-> "succeed", id |-> c, root |-> r, sub |-> t] \in AnySteps
    <2> HIDE DEF Nil, Missing
    <2> QED
      BY DEF AnySteps
  <1> HIDE DEF Nil, Missing
  <1> QED
    BY <1>1, <1>2 DEF Steps, AnySteps

LEMMA AnySeq ==
    ASSUME NEW s \in Seq(Steps)
    PROVE  s \in Seq(AnySteps)
  <1>1. Steps \subseteq AnySteps
    BY AnyStepIs
  <1>2. Len(s) \in Nat /\ s \in [1..Len(s) -> AnySteps]
    BY <1>1, LenProperties
  <1> QED
    BY <1>2, IsASeq

LEMMA AnyJoin ==
    ASSUME NEW s \in Seq(AnySteps), NEW t \in Seq(AnySteps)
    PROVE  s \o t \in Seq(AnySteps)
  BY ConcatProperties

LEMMA AnyDo ==
    ASSUME NEW op, NEW id, [op |-> op, id |-> id] \in Steps
    PROVE  Do(op, id) \in Seq(AnySteps)
  BY DoFacts, AnySeq

LEMMA AnyLinks ==
    ASSUME NEW E \in RootEntries
    PROVE  Links(E) \in Seq(AnySteps) /\ Links(E) \o Fail \in Seq(AnySteps)
  <1>1. Links(E) \in Seq(AnySteps)
    <2> DEFINE D == { E[n] : n \in DOMAIN E }
    <2>1. \A n \in DOMAIN E : E[n] \in D
      OBVIOUS
    <2> HIDE DEF D
    <2> QED
      BY <2>1, LinksFacts, AnySeq
  <1>2. Fail \in Seq(AnySteps)
    <2>1. Nil \in Ids
      BY DEF Ids
    <2> HIDE DEF Nil
    <2>2. [op |-> "fail", id |-> Nil] \in Steps
      BY <2>1, StepIs
    <2> QED
      BY <2>2, AnyDo DEF Fail
  <1> QED
    BY <1>1, <1>2, AnyJoin

LEMMA AnySucceed ==
    ASSUME NEW c \in Commits \cup {Nil}, NEW r \in RootTrees \cup {Nil},
           NEW t \in SubTrees \cup {Missing}
    PROVE  Succeed(r, t, c) \in Seq(AnySteps)
  <1> DEFINE e == [op |-> "succeed", id |-> c, root |-> r, sub |-> t]
  <1>1. e \in AnySteps
    BY AnyStepIs
  <1>2. Succeed(r, t, c) = <<e>>
    BY DEF Succeed
  <1> HIDE DEF e
  <1> QED
    BY <1>1, <1>2

LEMMA AnyReplaceRoot ==
    ASSUME Typed, NEW E \in RootEntries, NEW t \in SubTrees \cup {Missing}
    PROVE  ReplaceRoot(E, t) \in Seq(AnySteps)
  <1> DEFINE T == Tree(E)
             C == Commit(T)
  <1>1. T \in RootTrees /\ C \in Commits
    <2>1. T \in RootTrees
      BY TreeIs
    <2> HIDE DEF T
    <2> QED
      BY <2>1, CommitIs
  <1>2. T \in Objects /\ C \in Objects /\ m_commitId \in Ids /\ m_commitId \in Commits \cup {Nil}
    BY <1>1 DEF Typed, Objects, Ids
  <1> HIDE DEF T, C, Nil, Missing
  <1>3. /\ Do("add", T) \in Seq(AnySteps) /\ Do("add", C) \in Seq(AnySteps)
        /\ Do("master", C) \in Seq(AnySteps) /\ Do("unlink", m_commitId) \in Seq(AnySteps)
    BY <1>1, <1>2, StepIs, AnyDo
  <1>4. Succeed(T, t, C) \in Seq(AnySteps)
    BY <1>1, AnySucceed
  <1>5. UpdateRoot(T, t) \in Seq(AnySteps)
    BY <1>3, <1>4, AnyJoin DEF UpdateRoot, C
  <1> QED
    BY <1>3, <1>5, AnyJoin DEF ReplaceRoot, T

LEMMA TypedRoot ==
    ASSUME Typed
    PROVE  /\ Entries(m_id.root) \in RootEntries
           /\ m_id.root \in RootTrees \cup {Nil} /\ m_id.sub \in SubTrees \cup {Missing}
           /\ m_id["root"] = m_id.root /\ m_id["sub"] = m_id.sub
  <1>1. /\ m_id.root \in RootTrees \cup {Nil} /\ m_id.sub \in SubTrees \cup {Missing}
        /\ m_id["root"] = m_id.root /\ m_id["sub"] = m_id.sub
    <2> HIDE DEF Nil, Missing
    <2> QED
      BY DEF Typed
  <1>2. CASE m_id.root = Nil
    BY <1>1, <1>2, NilFacts, NoEntriesFacts
  <1>3. CASE m_id.root # Nil
    BY <1>1, <1>3, TreeFacts
  <1> QED
    BY <1>1, <1>2, <1>3

LEMMA AnyReplaceSub ==
    ASSUME Typed, NEW E \in SubEntries
    PROVE  ReplaceSub(E) \in Seq(AnySteps)
  <1> DEFINE S == Tree(E)
             R == Entries(m_id.root)
             W == With(R, Dir, S)
             O == Others(R, Dir)
  <1>1. S \in SubTrees /\ S \in RootTrees /\ S \in Objects
    BY TreeIs, SubRoot DEF Objects
  <1> HIDE DEF S
  <1>2. R \in RootEntries /\ m_id.root \in RootTrees \cup {Nil} /\ m_commitId \in Commits \cup {Nil}
    BY TypedRoot DEF Typed
  <1> HIDE DEF R
  <1>3. W \in RootEntries /\ O \in RootEntries
    <2>1. Dir \in Names /\ Dir \notin Files
      BY NamesAssumption DEF Names
    <2> QED
      BY <1>1, <1>2, <2>1, WithEntries
  <1> HIDE DEF W, O
  <1>4. Do("add", S) \in Seq(AnySteps)
    BY <1>1, StepIs, AnyDo
  <1>5. S \in SubTrees \cup {Missing}
    BY <1>1
  <1>6. /\ Succeed(m_id.root, S, m_commitId) \in Seq(AnySteps)
        /\ ReplaceRoot(W, S) \in Seq(AnySteps)
    BY <1>2, <1>3, <1>5, AnySucceed, AnyReplaceRoot
  <1>7. Fail \in Seq(AnySteps) /\ Links(O) \o ReplaceRoot(W, S) \in Seq(AnySteps)
    <2>1. Nil \in Ids
      BY DEF Ids
    <2> HIDE DEF Nil
    <2>2. [op |-> "fail", id |-> Nil] \in Steps
      BY <2>1, StepIs
    <2> QED
      BY <1>3, <1>6, <2>2, AnyLinks, AnyDo, AnyJoin DEF Fail
  <1>8. ReplaceSub(E) = Do("add", S) \o
                          IF S = m_id.root THEN Succeed(m_id.root, S, m_commitId)
                          ELSE IF ~Readable(m_id.root) THEN Fail
                          ELSE Links(O) \o ReplaceRoot(W, S)
    BY DEF ReplaceSub, S, R, W, O
  <1>9. (IF S = m_id.root THEN Succeed(m_id.root, S, m_commitId)
         ELSE IF ~Readable(m_id.root) THEN Fail
         ELSE Links(O) \o ReplaceRoot(W, S)) \in Seq(AnySteps)
    BY <1>6, <1>7
  <1> QED
    BY <1>4, <1>8, <1>9, AnyJoin

LEMMA AnyStore ==
    ASSUME Typed, NEW h, NEW E \in RootEntries, h = "sub" => E \in SubEntries,
           NEW t \in SubTrees \cup {Missing}
    PROVE  Store(h, E, t) \in Seq(AnySteps)
  <1>1. CASE h = "sub"
    BY <1>1, AnyReplaceSub DEF Store
  <1>2. CASE h # "sub"
    BY <1>2, AnyReplaceRoot DEF Store
  <1> QED
    BY <1>1, <1>2

LEMMA TypedHandler ==
    ASSUME Typed, ~Nested, NEW h \in Handlers
    PROVE  /\ h \in {"root", "sub"} /\ NamesIn(h) \subseteq Names
           /\ Entries(m_id[h]) \in RootEntries
           /\ h = "sub" => NamesIn(h) = Files /\ Entries(m_id[h]) \in SubEntries
  <1>1. h \in {"root", "sub"} /\ (h = "sub" => m_id.sub # Missing)
    BY DEF Handlers
  <1>2. NamesIn(h) \subseteq Names /\ (h = "sub" => NamesIn(h) = Files)
    BY <1>1 DEF NamesIn, Names
  <1>3. CASE h = "root"
    BY <1>1, <1>2, <1>3, TypedRoot
  <1>4. CASE h = "sub"
    <2>1. m_id.sub \in SubTrees
      BY <1>1, <1>4, TypedRoot
    <2>2. m_id.sub \in RootTrees /\ Entries(m_id.sub) \in SubEntries
      BY <2>1, SubRoot, TreeFacts
    <2>3. Entries(m_id.sub) \in RootEntries
      BY <2>2, SubRoot
    <2> QED
      BY <1>1, <1>2, <1>4, <2>2, <2>3, TypedRoot
  <1> QED
    BY <1>1, <1>3, <1>4

LEMMA SubTyped ==
    ASSUME NEW E \in RootEntries
    PROVE  SubOf(Tree(E)) \in SubTrees \cup {Missing}
  <1>1. Tree(E) \in RootTrees
    BY TreeIs
  <1> DEFINE T == Tree(E)
  <1>2. T \in RootTrees \cup {Nil}
    BY <1>1
  <1> HIDE DEF T
  <1>3. SubOf(T) \in SubTrees \cup {Missing}
    BY <1>2, SubFacts
  <1> QED
    BY <1>3 DEF T

LEMMA AnyUpdate ==
    ASSUME Typed, ~Nested, NEW h \in Handlers, NEW n \in NamesIn(h), NEW x \in Blobs \cup SubTrees,
           h = "sub" \/ n \in Files => x \in Blobs, NEW allowReplace \in BOOLEAN
    PROVE  UpdateEntry(h, n, x, allowReplace) \in Seq(AnySteps)
  <1> DEFINE E == Entries(m_id[h])
             W == With(E, n, x)
             O == Others(E, n)
             B == Before(E, n)
             t == IF n = Dir THEN SubOf(Tree(W)) ELSE m_id.sub
  <1>1. h \in {"root", "sub"} /\ n \in Names /\ E \in RootEntries
        /\ (h = "sub" => n \in Files /\ E \in SubEntries)
    BY TypedHandler
  <1> HIDE DEF E
  <1>2. /\ W \in RootEntries /\ O \in RootEntries /\ B \in RootEntries
        /\ h = "sub" => W \in SubEntries
    BY <1>1, WithEntries
  <1>3. t \in SubTrees \cup {Missing}
    <2> HIDE DEF W
    <2> QED
      BY <1>2, SubTyped, TypedRoot
  <1> HIDE DEF W, O, B, t
  <1>4. /\ Links(O) \o Store(h, W, t) \in Seq(AnySteps)
        /\ Links(B) \o Fail \in Seq(AnySteps)
    BY <1>2, <1>3, AnyLinks, AnyStore, AnyJoin
  <1>5. Fail \in Seq(AnySteps)
    <2>1. Nil \in Ids
      BY DEF Ids
    <2> HIDE DEF Nil
    <2>2. [op |-> "fail", id |-> Nil] \in Steps
      BY <2>1, StepIs
    <2> QED
      BY <2>2, AnyDo DEF Fail
  <1>6. UpdateEntry(h, n, x, allowReplace) \in
          {Fail, Links(B) \o Fail, Links(O) \o Store(h, W, t)}
    BY DEF UpdateEntry, Store, E, W, O, B, t
  <1> QED
    BY <1>4, <1>5, <1>6

LEMMA AnyRemove ==
    ASSUME Typed, ~Nested, NEW h \in Handlers, NEW n, NEW type
    PROVE  RemoveEntry(h, n, type) \in Seq(AnySteps)
  <1> DEFINE E == Entries(m_id[h])
             O == Others(E, n)
             B == Before(E, n)
             t == SubOf(Tree(O))
  <1>1. h \in {"root", "sub"} /\ E \in RootEntries /\ (h = "sub" => E \in SubEntries)
    BY TypedHandler
  <1> HIDE DEF E
  <1>2. O \in RootEntries /\ B \in RootEntries /\ (h = "sub" => O \in SubEntries)
    BY <1>1, WithEntries
  <1> HIDE DEF O, B
  <1>3. t \in SubTrees \cup {Missing}
    BY <1>2, SubTyped
  <1> HIDE DEF t
  <1>4. /\ Links(O) \o Store(h, O, t) \in Seq(AnySteps)
        /\ Links(B) \o Fail \in Seq(AnySteps) /\ Links(E) \o Fail \in Seq(AnySteps)
    BY <1>1, <1>2, <1>3, AnyLinks, AnyStore, AnyJoin
  <1>5. Fail \in Seq(AnySteps)
    <2>1. Nil \in Ids
      BY DEF Ids
    <2> HIDE DEF Nil
    <2>2. [op |-> "fail", id |-> Nil] \in Steps
      BY <2>1, StepIs
    <2> QED
      BY <2>2, AnyDo DEF Fail
  <1>6. RemoveEntry(h, n, type) \in
          {Fail, Links(E) \o Fail, Links(B) \o Fail, Links(O) \o Store(h, O, t)}
    BY DEF RemoveEntry, Store, E, O, B, t
  <1> QED
    BY <1>4, <1>5, <1>6

LEMMA AnyTag ==
    ASSUME Typed, NEW t \in Tags, NEW id \in Commits \cup {Nil, Missing}
    PROVE  /\ SetTag(t, id) \o UnlinkTag(t) \in Seq(AnySteps)
           /\ UpdateTag(t, id) \in Seq(AnySteps)
  <1>1. tags[t] \in Ids /\ id \in Ids
    BY DEF Typed, Ids, Objects
  <1> HIDE DEF Nil, Missing
  <1>2. SetTag(t, id) \in Seq(AnySteps)
    <2> DEFINE e == [op |-> "tag", id |-> id, tag |-> t]
    <2>1. e \in Steps /\ SetTag(t, id) = <<e>>
      BY StepIs DEF SetTag
    <2> HIDE DEF e
    <2>2. <<e>> \in Seq(Steps)
      BY <2>1
    <2> QED
      BY <2>1, <2>2, AnySeq
  <1>3. UnlinkTag(t) \in Seq(AnySteps)
    <2>1. <<>> \in Seq(AnySteps)
      OBVIOUS
    <2>2. Do("unlink", tags[t]) \in Seq(AnySteps)
      BY <1>1, StepIs, AnyDo
    <2> QED
      BY <2>1, <2>2 DEF UnlinkTag
  <1>4. Do("link", id) \in Seq(AnySteps)
    BY <1>1, StepIs, AnyDo
  <1> QED
    BY <1>2, <1>3, <1>4, AnyJoin DEF UpdateTag

LEMMA AnyUserOp ==
    ASSUME Typed, ~Nested, UserOp
    PROVE  \E s \in Seq(AnySteps) : Begin(s)
  <1>0. \A c \in Data : Blob(c) \in Blobs /\ Blob(c) \in Objects /\ Blob(c) \in Ids
    BY DEF Blobs, Objects, Ids
  <1>1. CASE \E h \in Handlers : \E n \in NamesIn(h) : \E x \in Data : CreateFile(h, n, x)
    <2>1. PICK h \in Handlers : \E n \in NamesIn(h) : \E x \in Data : CreateFile(h, n, x)
      BY <1>1
    <2>2. PICK n \in NamesIn(h), x \in Data : CreateFile(h, n, x)
      BY <2>1
    <2> DEFINE b == Blob(x)
    <2>3. b \in Blobs /\ b \in Objects /\ Begin(Do("add", b) \o UpdateEntry(h, n, b, TRUE))
      BY <1>0, <2>2 DEF CreateFile
    <2> HIDE DEF b
    <2>4. Do("add", b) \in Seq(AnySteps) /\ UpdateEntry(h, n, b, TRUE) \in Seq(AnySteps)
      BY <2>3, StepIs, AnyDo, AnyUpdate
    <2> QED
      BY <2>3, <2>4, AnyJoin
  <1>2. CASE \E h \in Handlers : \E n \in NamesIn(h) : \E g \in Handlers : \E k \in Files :
               CopyFile(h, n, g, k)
    <2>0. PICK h \in Handlers : \E n \in NamesIn(h) : \E g \in Handlers : \E k \in Files :
             CopyFile(h, n, g, k)
      BY <1>2
    <2>1. PICK n \in NamesIn(h), g \in Handlers, k \in Files : CopyFile(h, n, g, k)
      BY <2>0
    <2> DEFINE b == Entries(m_id[g])[k]
    <2>2. k \in DOMAIN Entries(m_id[g]) /\ b.type = "blob"
          /\ Begin(Do("link", b) \o UpdateEntry(h, n, b, TRUE))
      BY <2>1 DEF CopyFile
    <2>3. b \in Blobs /\ b \in Ids
      <3>1. Entries(m_id[g]) \in RootEntries
        BY TypedHandler
      <3>2. k \in DOMAIN Entries(m_id[g]) \cap Files
        BY <2>2
      <3> QED
        BY <3>1, <3>2, EntriesFacts DEF Ids, Objects
    <2> HIDE DEF b
    <2>4. Do("link", b) \in Seq(AnySteps) /\ UpdateEntry(h, n, b, TRUE) \in Seq(AnySteps)
      BY <2>3, StepIs, AnyDo, AnyUpdate
    <2> QED
      BY <2>2, <2>4, AnyJoin
  <1>3. CASE \E h \in Handlers : \E n \in NamesIn(h) : RemoveFile(h, n)
    BY <1>3, AnyRemove DEF RemoveFile
  <1>4. CASE \E h \in Handlers : CreateDirectory(h)
    <2>1. PICK h \in Handlers : CreateDirectory(h)
      BY <1>4
    <2> DEFINE b == Tree(NoEntries)
    <2>2. Dir \in NamesIn(h) /\ Begin(Do("add", b) \o UpdateEntry(h, Dir, b, FALSE))
      BY <2>1 DEF CreateDirectory
    <2>3. b \in SubTrees /\ b \in Objects
      <3>1. b \in SubTrees
        BY NoEntriesFacts, TreeIs
      <3> QED
        BY <3>1, SubRoot DEF Objects
    <2> HIDE DEF b
    <2>4. h # "sub" /\ Dir \notin Files
      BY <2>2, TypedHandler, NamesAssumption
    <2>5. Do("add", b) \in Seq(AnySteps) /\ UpdateEntry(h, Dir, b, FALSE) \in Seq(AnySteps)
      BY <2>2, <2>3, <2>4, StepIs, AnyDo, AnyUpdate
    <2> QED
      BY <2>2, <2>5, AnyJoin
  <1>5. CASE \E h \in Handlers : RemoveDirectory(h)
    BY <1>5, AnyRemove DEF RemoveDirectory
  <1>6. CASE \E t \in Tags : CreateSnapshot(t)
    <2>1. ReadMaster \in Commits \cup {Nil, Missing}
      BY DEF Typed, ReadMaster
    <2> QED
      BY <1>6, <2>1, AnyTag DEF CreateSnapshot
  <1>7. CASE \E t \in Tags : RemoveSnapshot(t)
    <2>1. Missing \in Commits \cup {Nil, Missing}
      OBVIOUS
    <2> QED
      BY <1>7, <2>1, AnyTag DEF RemoveSnapshot
  <1>8. CASE \E t, u \in Tags : CopySnapshot(t, u)
    <2>1. \A t \in Tags : tags[t] \in Commits \cup {Nil, Missing}
      BY DEF Typed
    <2> QED
      BY <1>8, <2>1, AnyTag DEF CopySnapshot
  <1> QED
    BY <1>1, <1>2, <1>3, <1>4, <1>5, <1>6, <1>7, <1>8 DEF UserOp

LEMMA AnyHead ==
    ASSUME Typed, todo # <<>>
    PROVE  /\ Head(todo) \in AnySteps /\ Tail(todo) \in Seq(AnySteps) /\ This \in Ids
           /\ Head(todo).op \in {"add", "erase"} => This \in Objects
           /\ Head(todo).op = "master" => This \in Commits
           /\ Head(todo).op = "tag" => Head(todo).tag \in Tags /\ This \in Commits \cup {Nil, Missing}
           /\ Head(todo).op = "succeed" =>
                 /\ This \in Commits \cup {Nil}
                 /\ Head(todo).root \in RootTrees \cup {Nil}
                 /\ Head(todo).sub \in SubTrees \cup {Missing}
  <1>1. Head(todo) \in AnySteps /\ Tail(todo) \in Seq(AnySteps)
    BY HeadTailProperties DEF Typed
  <1>2. Objects \subseteq Ids /\ Commits \subseteq Ids /\ Nil \in Ids /\ Missing \in Ids
    BY DEF Ids, Objects
  <1> DEFINE x == Head(todo)
  <1> HIDE DEF Nil, Missing, Objects, Commits, Ids, RootTrees, SubTrees, x
  <1>3. /\ x.id \in Ids
        /\ x.op \in {"add", "erase"} => x.id \in Objects
        /\ x.op = "master" => x.id \in Commits
        /\ x.op = "tag" => x.tag \in Tags /\ x.id \in Commits \cup {Nil, Missing}
        /\ x.op = "succeed" => /\ x.id \in Commits \cup {Nil}
                               /\ x.root \in RootTrees \cup {Nil}
                               /\ x.sub \in SubTrees \cup {Missing}
    <2>0. x \in AnySteps
      BY <1>1 DEF x
    <2>1. CASE x \in [op : {"link", "unlink", "fail"}, id : Ids]
      BY <2>1
    <2>2. CASE x \in [op : {"add", "erase"}, id : Objects]
      BY <1>2, <2>2
    <2>3. CASE x \in [op : {"master"}, id : Commits]
      BY <1>2, <2>3
    <2>4. CASE x \in [op : {"tag"}, id : Commits \cup {Nil, Missing}, tag : Tags]
      BY <1>2, <2>4
    <2>5. CASE x \in [op : {"succeed"}, id : Commits \cup {Nil}, root : RootTrees \cup {Nil},
                      sub : SubTrees \cup {Missing}]
      BY <1>2, <2>5
    <2> QED
      BY <2>0, <2>1, <2>2, <2>3, <2>4, <2>5 DEF AnySteps
  <1> QED
    BY <1>1, <1>3 DEF x, This

LEMMA CounterTyped ==
    ASSUME Typed
    PROVE  /\ \A x \in Objects :
                LET c == With(m_refCounter, x, 1)
                IN  c \in [DOMAIN c -> Nat \ {0}] /\ DOMAIN c \subseteq Objects
           /\ \A x :
                LET c == Restrict(m_refCounter, DOMAIN m_refCounter \ {x})
                IN  c \in [DOMAIN c -> Nat \ {0}] /\ DOMAIN c \subseteq Objects
  <1>1. /\ m_refCounter \in [DOMAIN m_refCounter -> Nat \ {0}]
        /\ DOMAIN m_refCounter \subseteq Objects
    BY DEF Typed
  <1>2. ASSUME NEW x \in Objects
        PROVE  LET c == With(m_refCounter, x, 1)
               IN  c \in [DOMAIN c -> Nat \ {0}] /\ DOMAIN c \subseteq Objects
    <2> DEFINE c == With(m_refCounter, x, 1)
               D == DOMAIN m_refCounter \cup {x}
    <2>1. c = [k \in D |-> IF k = x THEN 1 ELSE m_refCounter[k]]
      BY DEF With
    <2>2. \A k \in D : (IF k = x THEN 1 ELSE m_refCounter[k]) \in Nat \ {0}
      BY <1>1
    <2> QED
      BY <1>1, <2>1, <2>2
  <1>3. ASSUME NEW x
        PROVE  LET c == Restrict(m_refCounter, DOMAIN m_refCounter \ {x})
               IN  c \in [DOMAIN c -> Nat \ {0}] /\ DOMAIN c \subseteq Objects
    <2> DEFINE c == Restrict(m_refCounter, DOMAIN m_refCounter \ {x})
               D == DOMAIN m_refCounter \ {x}
    <2>1. c = [k \in D |-> m_refCounter[k]]
      BY DEF Restrict
    <2>2. \A k \in D : m_refCounter[k] \in Nat \ {0}
      BY <1>1
    <2> QED
      BY <1>1, <2>1, <2>2
  <1> QED
    BY <1>2, <1>3

LEMMA TypedNext ==
    ASSUME ~Nested, Typed, [Next]_vars
    PROVE  Typed'
  <1>0. /\ disk \in SUBSET Objects /\ IsFiniteSet(disk)
        /\ <<>> \in Seq(AnySteps)
    BY DEF Typed
  <1>1. CASE UserOp
    <2>1. PICK s \in Seq(AnySteps) : Begin(s)
      BY <1>1, AnyUserOp
    <2> QED
      BY <2>1 DEF Begin, Typed, refs, memory
  <1>2. CASE AddNew
    <2>1. todo # <<>> /\ This \in Objects /\ Tail(todo) \in Seq(AnySteps)
      BY <1>2, AnyHead DEF AddNew, At
    <2>2. disk \cup {This} \in SUBSET Objects /\ IsFiniteSet(disk \cup {This})
      BY <1>0, <2>1, FS_AddElement
    <2>3. /\ m_refCounter' \in [DOMAIN m_refCounter' -> Nat \ {0}]
          /\ DOMAIN m_refCounter' \subseteq Objects
      BY <1>2, <2>1, CounterTyped DEF AddNew
    <2> QED
      BY <1>2, <2>1, <2>2, <2>3 DEF AddNew, Unchanged, Typed, refs
  <1>3. CASE AddExisting
    <2>1. todo # <<>> /\ This \in Objects /\ Tail(todo) \in Seq(AnySteps)
      BY <1>3, AnyHead DEF AddExisting, At
    <2>2. Unlinks(This) \in Seq(AnySteps)
      BY <2>1, UnlinksFacts, AnySeq
    <2>3. Do("link", This) \in Seq(AnySteps)
      <3>1. This \in Ids
        BY <2>1 DEF Ids
      <3> QED
        BY <3>1, StepIs, AnyDo
    <2>4. Unlinks(This) \o Do("link", This) \o Tail(todo) \in Seq(AnySteps)
      BY <2>1, <2>2, <2>3, AnyJoin
    <2> QED
      BY <1>3, <2>4 DEF AddExisting, Unchanged, Typed, refs
  <1>4. CASE Link \/ Unlink
    <2>1. todo # <<>> /\ Tail(todo) \in Seq(AnySteps)
      BY <1>4, AnyHead DEF Link, Unlink, At
    <2>2. /\ m_refCounter \in [DOMAIN m_refCounter -> Nat \ {0}]
          /\ DOMAIN m_refCounter \subseteq Objects
      BY DEF Typed
    <2>3. CASE ~Tracked(This)
      BY <1>4, <2>1, <2>3 DEF Link, Unlink, Unchanged, Typed, refs
    <2>4. CASE Tracked(This)
      <3>1. m_refCounter[This] \in Nat \ {0} /\ This \in DOMAIN m_refCounter
        BY <2>2, <2>4 DEF Tracked
      <3>2. /\ \E w \in Nat \ {0} : m_refCounter' = [m_refCounter EXCEPT ![This] = w]
            /\ todo' = Tail(todo) /\ disk' = disk /\ Unchanged
        <4>1. CASE Link
          <5>1. m_refCounter[This] + 1 \in Nat \ {0}
            BY <3>1
          <5> QED
            BY <2>4, <4>1, <5>1 DEF Link
        <4>2. CASE Unlink
          <5>1. m_refCounter[This] - 1 \in Nat \ {0}
            BY <2>4, <3>1, <4>2 DEF Unlink
          <5> QED
            BY <2>4, <4>2, <5>1 DEF Unlink
        <4> QED
          BY <1>4, <4>1, <4>2
      <3>3. /\ m_refCounter' \in [DOMAIN m_refCounter' -> Nat \ {0}]
            /\ DOMAIN m_refCounter' \subseteq Objects
        BY <2>2, <3>1, <3>2
      <3> QED
        BY <2>1, <3>2, <3>3 DEF Unchanged, Typed, refs
    <2> QED
      BY <2>3, <2>4
  <1>5. CASE UnlinkLast
    <2>1. todo # <<>> /\ Tail(todo) \in Seq(AnySteps) /\ This \in Objects
      BY <1>5, AnyHead DEF UnlinkLast, AtLast, At, Tracked, Typed
    <2>2. Unlinks(This) \in Seq(AnySteps)
      BY <2>1, UnlinksFacts, AnySeq
    <2>3. Do("erase", This) \in Seq(AnySteps)
      BY <2>1, StepIs, AnyDo
    <2>4. Unlinks(This) \o Do("erase", This) \o Tail(todo) \in Seq(AnySteps)
      BY <2>1, <2>2, <2>3, AnyJoin
    <2>5. /\ m_refCounter' \in [DOMAIN m_refCounter' -> Nat \ {0}]
          /\ DOMAIN m_refCounter' \subseteq Objects
      BY <1>5, CounterTyped DEF UnlinkLast
    <2> QED
      BY <1>5, <2>4, <2>5 DEF UnlinkLast, Unchanged, Typed, refs
  <1>6. CASE Erase
    <2>1. todo # <<>> /\ Tail(todo) \in Seq(AnySteps)
      BY <1>6, AnyHead DEF Erase, At
    <2>2. disk \ {This} \in SUBSET Objects /\ IsFiniteSet(disk \ {This})
      BY <1>0, FS_Subset
    <2> QED
      BY <1>6, <2>1, <2>2 DEF Erase, Unchanged, Typed, refs
  <1>7. CASE WriteRef
    <2>1. /\ todo # <<>> /\ Tail(todo) \in Seq(AnySteps)
          /\ At("master") => This \in Commits
          /\ At("tag") => Head(todo).tag \in Tags /\ This \in Commits \cup {Nil, Missing}
      BY <1>7, AnyHead DEF WriteRef, At
    <2>2. /\ master \in Commits \cup {Nil} /\ tags \in [Tags -> Commits \cup {Nil, Missing}]
          /\ torn \in BOOLEAN
      BY DEF Typed
    <2>3. /\ master' \in Commits \cup {Nil} /\ tags' \in [Tags -> Commits \cup {Nil, Missing}]
          /\ torn' \in BOOLEAN
      <3> HIDE DEF Nil, Missing, This, At
      <3> QED
        BY <1>7, <2>1, <2>2 DEF WriteRef
    <2> QED
      BY <1>7, <2>1, <2>3 DEF WriteRef, Typed, memory
  <1>8. CASE End
    <2>1. /\ This \in Commits \cup {Nil}
          /\ Head(todo).root \in RootTrees \cup {Nil}
          /\ Head(todo).sub \in SubTrees \cup {Missing}
      BY <1>8, AnyHead DEF End, At
    <2>2. /\ m_commitId' \in Commits \cup {Nil}
          /\ m_id' \in [root : RootTrees \cup {Nil}, sub : SubTrees \cup {Missing}]
      <3> HIDE DEF Nil, Missing, This
      <3> QED
        BY <1>8, <2>1 DEF End
    <2> QED
      BY <1>0, <1>8, <2>2 DEF End, Typed, refs
  <1>9. CASE Exception
    <2>1. torn' \in BOOLEAN /\ tags' \in [Tags -> Commits \cup {Nil, Missing}] /\ master' = master
      <3>1. torn \in BOOLEAN /\ tags \in [Tags -> Commits \cup {Nil, Missing}]
        BY DEF Typed
      <3>2. TornTags \in [Tags -> Commits \cup {Nil, Missing}]
        <4> HIDE DEF Nil, Missing
        <4> QED
          BY <3>1 DEF TornTags
      <3> HIDE DEF Nil, Missing, TornTags
      <3> QED
        BY <1>9, <3>1, <3>2 DEF Exception, refs
    <2> QED
      BY <1>0, <1>9, <2>1 DEF Exception, Typed, memory
  <1>10. CASE RemovalFails
    <2>1. /\ m_refCounter' \in [DOMAIN m_refCounter' -> Nat \ {0}]
          /\ DOMAIN m_refCounter' \subseteq Objects
      BY <1>10, CounterTyped DEF RemovalFails, Typed
    <2> QED
      BY <1>0, <1>10, <2>1 DEF RemovalFails, Typed, refs
  <1>11. CASE Overlook
    <2>1. todo # <<>> /\ This \in Objects /\ Tail(todo) \in Seq(AnySteps)
      BY <1>11, AnyHead DEF Overlook, At
    <2>2. /\ m_refCounter' \in [DOMAIN m_refCounter' -> Nat \ {0}]
          /\ DOMAIN m_refCounter' \subseteq Objects
      BY <1>11, <2>1, CounterTyped DEF Overlook
    <2> QED
      BY <1>11, <2>1, <2>2 DEF Overlook, Typed, refs
  <1>12. CASE Stop
    <2>1. /\ master \in Commits \cup {Nil} /\ tags \in [Tags -> Commits \cup {Nil, Missing}]
      BY DEF Typed
    <2>2. /\ master' \in Commits \cup {Nil} /\ tags' \in [Tags -> Commits \cup {Nil, Missing}]
          /\ m_commitId' \in Commits \cup {Nil}
          /\ m_id' \in [root : RootTrees \cup {Nil}, sub : SubTrees \cup {Missing}]
      <3>1. ReadMaster \in Commits \cup {Nil} /\ TornTags \in [Tags -> Commits \cup {Nil, Missing}]
        <4> HIDE DEF Nil, Missing
        <4> QED
          BY <2>1 DEF ReadMaster, TornTags
      <3> HIDE DEF Nil, Missing, ReadMaster, TornTags
      <3> QED
        BY <1>12, <2>1, <3>1 DEF Stop
    <2>3. /\ m_refCounter' \in [DOMAIN m_refCounter' -> Nat \ {0}]
          /\ DOMAIN m_refCounter' \subseteq Objects
      <3>1. m_refCounter' = [o \in {} |-> 0]
        BY <1>12 DEF Stop
      <3>2. m_refCounter' \in [{} -> Nat \ {0}] /\ DOMAIN m_refCounter' = {}
        BY <3>1
      <3> QED
        BY <3>2
    <2>4. health' \in {"sound", "cut", "unsound"} /\ disk' = disk /\ leaked' = leaked
          /\ torn' = FALSE /\ up' = FALSE /\ todo' = <<>>
      BY <1>12 DEF Stop
    <2> QED
      BY <1>0, <2>2, <2>3, <2>4 DEF Typed
  <1>13. CASE StartCrashes
    <2>1. PICK o : disk' = disk \ {o}
      BY <1>13 DEF StartCrashes
    <2>2. disk' \in SUBSET Objects /\ IsFiniteSet(disk')
      BY <1>0, <2>1, FS_Subset
    <2> QED
      BY <1>13, <2>2 DEF StartCrashes, Typed, refs, memory
  <1>14. ASSUME NEW collect \in BOOLEAN, Start(collect) PROVE Typed'
    <2>1. disk' \in SUBSET Objects /\ IsFiniteSet(disk')
      <3>1. disk' \subseteq disk
        BY <1>14 DEF Start
      <3> QED
        BY <1>0, <3>1, FS_Subset
    <2>2. master \in Commits \cup {Nil}
      BY DEF Typed
    <2>3. TreeOf(master) \in RootTrees \cup {Nil}
      BY <2>2, CommitFacts, NilFacts
    <2>4. SubOf(TreeOf(master)) \in SubTrees \cup {Missing}
      BY <2>3, SubFacts
    <2>5. m_id' \in [root : RootTrees \cup {Nil}, sub : SubTrees \cup {Missing}]
      <3> HIDE DEF Nil, Missing
      <3> QED
        BY <1>14, <2>3, <2>4 DEF Start
    <2>6. health' \in {"sound", "cut", "unsound"}
      BY <1>14 DEF Start, Typed
    <2> QED
      BY <1>14, <2>1, <2>2, <2>5, <2>6 DEF Start, Typed, refs
  <1>15. CASE UNCHANGED vars
    BY <1>15 DEF vars, refs, memory, Typed
  <1> QED
    BY <1>1, <1>2, <1>3, <1>4, <1>5, <1>6, <1>7, <1>8, <1>9, <1>10, <1>11, <1>12, <1>13,
       <1>14, <1>15 DEF Next, UserOp

----------------------------------------------------------------------------
(* What references reach is stored.                                        *)

LEMMA ActiveStored ==
    ASSUME Active
    PROVE  Reached(Roots) \subseteq Live /\ Reached(Roots) \subseteq disk
  <1>1. Roots \ {Nil, Missing} \subseteq Live /\ \A o \in Live : ToSet(Content(o)) \subseteq Live
    BY NotMentioned
  <1>2. Reached(Roots) \subseteq Live
    BY <1>1, ReachedIn
  <1> QED
    BY <1>2 DEF Live

\* Nothing that a reference reaches is missing, unless the server is unsound.
LEMMA Stored ==
    ASSUME IInv, health # "unsound"
    PROVE  Reached(Roots) \subseteq disk
  <1>1. CASE health = "sound" /\ up
    BY <1>1, ActiveStored DEF IInv, Running
  <1>2. CASE health = "sound" /\ ~up
    BY <1>2 DEF IInv, Down, Whole
  <1>3. CASE health = "cut"
    BY <1>3 DEF IInv, CutShort, Whole
  <1> QED
    BY <1>1, <1>2, <1>3 DEF IInv, Typed

\* Fewer references reach less.
LEMMA Fewer ==
    ASSUME Typed, NEW R, R \ {Nil, Missing} \subseteq Roots
    PROVE  Reached(R) \subseteq Reached(Roots)
  <1> DEFINE S == Reached(Roots)
  <1>1. Roots \ {Nil, Missing} \subseteq S /\ \A o \in S : ToSet(Content(o)) \subseteq S
    BY RootsFacts
  <1> HIDE DEF S
  <1>2. R \ {Nil, Missing} \subseteq S
    BY <1>1
  <1>3. Reached(R) \subseteq S
    BY <1>1, <1>2, ReachedIn
  <1> QED
    BY <1>3 DEF S

----------------------------------------------------------------------------
(* The server ends and starts.                                             *)

\* While it does nothing, Types is what it needs to be sound later.
LEMMA Resting ==
    ASSUME Typed, todo = <<>>, DOMAIN m_refCounter \subseteq disk,
           m_id \in { View(c) : c \in Commits \cup {Nil} }
    PROVE  Types /\ Erasing = {} /\ Live = disk
  <1>1. Erasing = {} /\ Live = disk
    BY DEF Erasing, Live
  <1>2. todo \in Seq(Steps)
    OBVIOUS
  <1> QED
    BY <1>1, <1>2 DEF Typed, Types

\* References after the end of the server are those before it, but what is torn is lost.
LEMMA StopRoots ==
    ASSUME Typed, Typed', Stop
    PROVE  Roots' \ {Nil, Missing} \subseteq Roots
  <1>1. /\ tags \in [Tags -> Commits \cup {Nil, Missing}]
        /\ tags' \in [Tags -> Commits \cup {Nil, Missing}]
    BY DEF Typed
  <1>2. master' \in {Nil, master} /\ \A t \in Tags : tags'[t] \in {Missing, tags[t]}
    <2> HIDE DEF Nil, Missing
    <2>1. ReadMaster \in {Nil, master}
      BY DEF ReadMaster
    <2>2. \A t \in Tags : TornTags[t] \in {Missing, tags[t]}
      BY <1>1 DEF TornTags
    <2> HIDE DEF ReadMaster, TornTags
    <2> QED
      BY <2>1, <2>2 DEF Stop
  <1> HIDE DEF Nil, Missing
  <1> QED
    BY <1>1, <1>2 DEF Roots, Range

LEMMA StopStep ==
    ASSUME IInv, Typed', Stop
    PROVE  IInv'
  <1>1. /\ up' = FALSE /\ todo' = <<>> /\ m_refCounter' = [o \in {} |-> 0] /\ torn' = FALSE
        /\ m_id' = View(Nil) /\ disk' = disk
        /\ health' \in {"sound", "unsound"}
        /\ health' = "sound" => health # "unsound" \/ Reached(Roots') \subseteq disk
    BY NilView DEF Stop
  <1>2. health' = "sound" => Reached(Roots)' \subseteq disk'
    <2>1. CASE health = "unsound"
      <3>1. health' = "sound" => Reached(Roots') \subseteq disk
        BY <1>1, <2>1
      <3> QED
        BY <1>1, <3>1 DEF Reached
    <2>2. CASE health # "unsound"
      <3>1. Reached(Roots) \subseteq disk
        BY <2>2, Stored
      <3>2. Reached(Roots') \subseteq Reached(Roots)
        BY StopRoots, Fewer DEF IInv
      <3>3. Reached(Roots') \subseteq disk
        BY <3>1, <3>2
      <3> QED
        BY <1>1, <3>3 DEF Reached
    <2> QED
      BY <2>1, <2>2
  <1>3. Types'
    <2>1. m_id' \in { View(c) : c \in Commits \cup {Nil} }
      <3> HIDE DEF Nil
      <3> QED
        BY <1>1
    <2>2. DOMAIN m_refCounter' \subseteq disk'
      BY <1>1
    <2>3. (Typed /\ todo = <<>> /\ DOMAIN m_refCounter \subseteq disk
             /\ m_id \in { View(c) : c \in Commits \cup {Nil} })'
      BY <1>1, <2>1, <2>2
    <2> QED
      BY <2>3, Resting, PTL
  <1>4. DOMAIN m_refCounter' = {}
    BY <1>1
  <1> QED
    BY <1>1, <1>2, <1>3, <1>4 DEF IInv, Running, CutShort, Down, Whole

\* The server has just started.
Fresh ==
    /\ Types /\ up /\ todo = <<>> /\ DOMAIN m_refCounter = {}
    /\ m_commitId = master /\ m_id = View(master)
    /\ \A id \in Objects \ disk : Uses(disk, id, master, tags) = 0

LEMMA Started == Fresh => Active
  <1> SUFFICES ASSUME Fresh PROVE Active
    OBVIOUS
  <1> USE DEF Fresh
  <1>1. Erasing = {} /\ Live = disk
    BY DEF Erasing, Live
  <1>2. Staged
    <2>1. <<>> \in Seq(Steps)
      OBVIOUS
    <2> QED
      BY <2>1, Stages DEF Staged
  <1>3. Counted
    <2> SUFFICES ASSUME NEW id \in Objects, Tracked(id) \/ id \notin Live
                 PROVE  Known(id) + Net(<<>>, id, master, tags) = Uses(Live, id, master, tags)
      <3> SUFFICES ASSUME NEW id \in Objects, Tracked(id) \/ id \notin Live
                   PROVE  LET n == Known(id) + Net(<<>>, id, master, tags)
                          IN  /\ n >= Uses(Live, id, master, tags)
                              /\ ~leaked => n = Uses(Live, id, master, tags)
        BY DEF Counted, Failing
      <3>1. Uses(Live, id, master, tags) \in Nat
        BY LiveFacts
      <3> QED
        BY <3>1
    <2>1. Known(id) = 0 /\ id \notin Live
      BY DEF Known, Tracked
    <2> QED
      BY <1>1, <2>1, NetEmpty
  <1>4. TrackedUp
    BY DEF TrackedUp, Tracked
  <1>5. Current
    BY DEF Current
  <1> QED
    BY <1>2, <1>3, <1>4, <1>5 DEF Active

\* What the garbage collector keeps does not mention what it removes, and what is stored
\* does not mention what is missing, if the start has found it so.
LEMMA Unused ==
    ASSUME Typed, NEW S, S \subseteq Objects, IsFiniteSet(S), Reached(Roots) \subseteq S,
           \A o \in S : ToSet(Content(o)) \subseteq S
    PROVE  \A id \in Objects \ S : Uses(S, id, master, tags) = 0
  <1> SUFFICES ASSUME NEW id \in Objects \ S
               PROVE  Uses(S, id, master, tags) = 0
    OBVIOUS
  <1>1. /\ \A o \in S : id \notin ToSet(Content(o))
        /\ id \notin Reached(Roots)
    OBVIOUS
  <1>2. master # id /\ \A t \in Tags : tags[t] # id
    BY <1>1, RootsFacts
  <1> QED
    BY <1>1, <1>2, UsesFacts

LEMMA StartStep ==
    ASSUME IInv, Typed', NEW collect \in BOOLEAN, Start(collect)
    PROVE  IInv'
  <1>1. /\ ~up /\ todo = <<>> /\ DOMAIN m_refCounter = {} /\ health # "cut"
        /\ disk' = IF collect THEN disk \cap Reached(Roots) ELSE disk
        /\ m_commitId' = master /\ m_id' = View(master)
        /\ up' = TRUE /\ leaked' = FALSE
        /\ master' = master /\ tags' = tags /\ m_refCounter' = m_refCounter
        /\ todo' = todo /\ health' \in {"sound", "unsound"}
        /\ health' = "sound" => health = "sound" /\ (collect \/ Mentioned(disk) \subseteq disk)
    BY DEF Start, IInv, Typed, Down, refs, View
  <1>2. CASE health' = "unsound"
    BY <1>1, <1>2 DEF IInv, Running, CutShort, Down
  <1>3. CASE health' = "sound"
    <2>1. Reached(Roots) \subseteq disk /\ disk \subseteq Objects
      BY <1>1, <1>3 DEF IInv, Down, Whole, Typed
    <2>2. /\ disk' \subseteq Objects /\ IsFiniteSet(disk') /\ Reached(Roots) \subseteq disk'
          /\ \A o \in disk' : ToSet(Content(o)) \subseteq disk'
      <3>1. disk' \subseteq Objects /\ IsFiniteSet(disk')
        BY DEF Typed
      <3>2. CASE collect
        <4>1. disk' = Reached(Roots)
          BY <1>1, <2>1, <3>2
        <4>2. \A o \in Reached(Roots) : ToSet(Content(o)) \subseteq Reached(Roots)
          BY RootsFacts DEF IInv
        <4> QED
          BY <3>1, <4>1, <4>2
      <3>3. CASE ~collect
        <4>1. disk' = disk /\ Mentioned(disk) \subseteq disk
          BY <1>1, <1>3, <3>3
        <4>2. \A o \in disk : ToSet(Content(o)) \subseteq disk
          BY <4>1 DEF Mentioned
        <4> QED
          BY <2>1, <3>1, <4>1, <4>2
      <3> QED
        BY <3>2, <3>3
    <2>3. \A id \in Objects \ disk' : Uses(disk', id, master, tags) = 0
      BY <2>2, Unused DEF IInv
    <2>4. (\A id \in Objects \ disk : Uses(disk, id, master, tags) = 0)'
      BY <1>1, <2>3
    <2>5. Types'
      <3>1. m_id' \in { View(c) : c \in Commits \cup {Nil} }
        <4>1. master \in Commits \cup {Nil}
          BY DEF IInv, Typed
        <4> QED
          BY <1>1, <4>1
      <3>2. DOMAIN m_refCounter' \subseteq disk' /\ todo' = <<>>
        BY <1>1
      <3>3. (Typed /\ todo = <<>> /\ DOMAIN m_refCounter \subseteq disk
               /\ m_id \in { View(c) : c \in Commits \cup {Nil} })'
        BY <3>1, <3>2
      <3> QED
        BY <3>3, Resting, PTL
    <2>6. Fresh'
      BY <1>1, <2>4, <2>5 DEF Fresh
    <2>7. Active'
      BY <2>6, Started, PTL
    <2>8. Intended'
      BY <1>1 DEF Intended, Asked
    <2> QED
      BY <1>1, <1>3, <2>7, <2>8 DEF IInv, Running, CutShort, Down
  <1> QED
    BY <1>1, <1>2, <1>3

LEMMA StartCrashesStep ==
    ASSUME IInv, Typed', StartCrashes
    PROVE  IInv'
  <1>1. PICK o \in disk \ Reached(Roots) : disk' = disk \ {o}
    BY DEF StartCrashes
  <1>2. /\ ~up /\ todo = <<>> /\ DOMAIN m_refCounter = {} /\ torn = FALSE /\ health # "cut"
        /\ master' = master /\ tags' = tags /\ torn' = torn /\ m_refCounter' = m_refCounter
        /\ m_id' = m_id /\ todo' = todo /\ up' = up /\ health' = health
    BY DEF StartCrashes, IInv, Down, refs, memory
  <1>3. ASSUME health = "sound" PROVE Whole'
    <2>1. Whole
      BY <1>2, <1>3 DEF IInv, Down
    <2>2. Reached(Roots)' = Reached(Roots)
      BY <1>2 DEF Roots, Reached
    <2>3. Reached(Roots)' \subseteq disk'
      BY <1>1, <2>1, <2>2 DEF Whole
    <2>4. m_id' \in { View(c) : c \in Commits \cup {Nil} }
      BY <1>2, <2>1 DEF Whole, Types
    <2>5. (Typed /\ todo = <<>> /\ DOMAIN m_refCounter \subseteq disk
             /\ m_id \in { View(c) : c \in Commits \cup {Nil} })'
      BY <1>2, <2>4
    <2>6. Types'
      BY <2>5, Resting, PTL
    <2> QED
      BY <2>3, <2>6 DEF Whole
  <1> QED
    BY <1>2, <1>3 DEF IInv, Running, CutShort, Down

\* A removal that is not finished leaves counters and mentions that do not agree, but what
\* references reach is stored.
LEMMA RemovalFailsStep ==
    ASSUME IInv, Typed', RemovalFails
    PROVE  IInv'
  <1>1. /\ up /\ todo # <<>> /\ todo' = <<>> /\ up' = up
        /\ master' = master /\ tags' = tags /\ disk' = disk /\ m_id' = m_id
        /\ health' = IF health = "sound" THEN "cut" ELSE health
        /\ DOMAIN m_refCounter' \subseteq DOMAIN m_refCounter
    <2>1. DOMAIN Restrict(m_refCounter, DOMAIN m_refCounter \ {This}) \subseteq DOMAIN m_refCounter
      BY DEF Restrict
    <2> QED
      BY <2>1 DEF RemovalFails, AtLast, At, refs
  <1>2. CASE health = "sound"
    <2>1. Active
      BY <1>1, <1>2 DEF IInv, Running
    <2>2. Reached(Roots) \subseteq disk /\ DOMAIN m_refCounter \subseteq disk
      BY <2>1, ActiveStored, LiveFacts DEF Active
    <2>3. Reached(Roots)' \subseteq disk'
      BY <1>1, <2>2 DEF Roots, Reached
    <2>4. m_id' \in { View(c) : c \in Commits \cup {Nil} }
      BY <1>1, <2>1 DEF Active, Types
    <2>5. (Typed /\ todo = <<>> /\ DOMAIN m_refCounter \subseteq disk
             /\ m_id \in { View(c) : c \in Commits \cup {Nil} })'
      BY <1>1, <2>2, <2>4
    <2>6. Types'
      BY <2>5, Resting, PTL
    <2> QED
      BY <1>1, <1>2, <2>3, <2>6 DEF IInv, Running, CutShort, Down, Whole
  <1>3. CASE health # "sound"
    <2>1. health = "unsound"
      BY <1>1, <1>3 DEF IInv, CutShort, Typed
    <2> QED
      BY <1>1, <2>1 DEF IInv, Running, CutShort, Down
  <1> QED
    BY <1>2, <1>3

----------------------------------------------------------------------------
(* The invariant holds.                                                    *)

LEMMA ActiveInv ==
    ASSUME Typed, Active, Intended, health = "sound"
    PROVE  IInv
  BY DEF IInv, Active, Running, CutShort, Down

LEMMA UnsoundInv ==
    ASSUME Typed, up, health = "unsound"
    PROVE  IInv
  BY DEF IInv, Running, CutShort, Down

LEMMA InitInv == Init => IInv
  <1> SUFFICES ASSUME Init PROVE IInv
    OBVIOUS
  <1>1. Typed
    <2>1. {} \in SUBSET Objects /\ IsFiniteSet({}) /\ <<>> \in Seq(AnySteps)
      BY FS_EmptySet
    <2>2. tags \in [Tags -> Commits \cup {Nil, Missing}]
      <3> HIDE DEF Nil, Missing
      <3> QED
        BY DEF Init
    <2>3. m_id \in [root : RootTrees \cup {Nil}, sub : SubTrees \cup {Missing}]
      <3> HIDE DEF Nil, Missing
      <3> QED
        BY DEF Init
    <2>4. m_refCounter \in [{} -> Nat \ {0}] /\ DOMAIN m_refCounter = {}
      BY DEF Init
    <2>5. master \in Commits \cup {Nil} /\ m_commitId \in Commits \cup {Nil}
      <3> HIDE DEF Nil
      <3> QED
        BY DEF Init
    <2> QED
      BY <2>1, <2>2, <2>3, <2>4, <2>5 DEF Init, Typed
  <1>2. Types
    <2>1. m_id \in { View(c) : c \in Commits \cup {Nil} }
      <3>1. m_id = View(Nil)
        BY NilView DEF Init
      <3> HIDE DEF Nil
      <3> QED
        BY <3>1
    <2>2. todo = <<>> /\ DOMAIN m_refCounter \subseteq disk
      BY DEF Init
    <2> QED
      BY <1>1, <2>1, <2>2, Resting
  <1>3. \A id \in Objects \ disk : Uses(disk, id, master, tags) = 0
    <2> SUFFICES ASSUME NEW id \in Objects PROVE Uses({}, id, master, tags) = 0
      BY DEF Init
    <2>1. Nil # id /\ Missing # id
      BY Disjoint
    <2>2. master # id /\ \A t \in Tags : tags[t] # id
      <3> HIDE DEF Nil, Missing
      <3> QED
        BY <2>1 DEF Init
    <2>3. {} \subseteq Objects /\ IsFiniteSet({})
      BY FS_EmptySet
    <2> QED
      BY <2>2, <2>3, UsesFacts
  <1>4. Fresh
    <2>1. m_commitId = master /\ m_id = View(master)
      BY NilView DEF Init
    <2> QED
      BY <1>2, <1>3, <2>1 DEF Init, Fresh
  <1>5. Intended /\ health = "sound"
    BY DEF Init, Intended, Asked
  <1> QED
    BY <1>1, <1>4, <1>5, Started, ActiveInv

\* The steps of an operation, which keep a sound server sound.
Working ==
    \/ AddNew \/ AddExisting \/ Link \/ Unlink \/ UnlinkLast \/ Erase
    \/ WriteRef \/ End \/ Exception

LEMMA WorkingStep ==
    ASSUME IInv, Typed', Working
    PROVE  IInv'
  <1>1. up /\ todo # <<>> /\ up' = up /\ health' = health
    BY DEF Working, AddNew, AddExisting, Link, Unlink, UnlinkLast, AtLast, Erase, WriteRef, End,
           Exception, At, Unchanged
  <1>2. CASE health = "sound"
    <2>1. Active /\ Intended
      BY <1>1, <1>2 DEF IInv, Running
    <2>2. Active'
      BY <2>1, AddNewStep, AddExistingStep, LinkStep, UnlinkStep, UnlinkLastStep, EraseStep,
         WriteRefStep, EndStep, ExceptionStep DEF Working
    <2>3. Intended'
      BY <2>1, AskedStep, EndingAsked DEF Working
    <2>4. (Typed /\ Active /\ Intended /\ health = "sound")'
      BY <1>1, <1>2, <2>2, <2>3
    <2> QED
      BY <2>4, ActiveInv, PTL
  <1>3. CASE health # "sound"
    <2>1. (Typed /\ up /\ health = "unsound")'
      BY <1>1, <1>3 DEF IInv, CutShort, Typed
    <2> QED
      BY <2>1, UnsoundInv, PTL
  <1> QED
    BY <1>2, <1>3

LEMMA UserOpStep ==
    ASSUME ~Nested, IInv, Typed', UserOp
    PROVE  IInv'
  <1>1. /\ up /\ up' = up
        /\ health' = IF health = "sound" THEN health ELSE "unsound"
    BY DEF UserOp, CreateFile, CopyFile, RemoveFile, CreateDirectory, RemoveDirectory,
           CreateSnapshot, RemoveSnapshot, CopySnapshot, Begin, Idle
  <1>2. CASE health = "sound"
    <2>1. Active
      BY <1>1, <1>2 DEF IInv, Running
    <2>2. Active' /\ Intended'
      BY <2>1, BeginStep
    <2>3. (Typed /\ Active /\ Intended /\ health = "sound")'
      BY <1>1, <1>2, <2>2
    <2> QED
      BY <2>3, ActiveInv, PTL
  <1>3. CASE health # "sound"
    <2>1. (Typed /\ up /\ health = "unsound")'
      BY <1>1, <1>3
    <2> QED
      BY <2>1, UnsoundInv, PTL
  <1> QED
    BY <1>2, <1>3

LEMMA StutterStep ==
    ASSUME IInv, UNCHANGED vars
    PROVE  IInv'
  <1>1. /\ UNCHANGED <<disk, master, tags, torn, m_refCounter, m_id, m_commitId, todo, up, leaked>>
        /\ health' = health
    BY DEF vars, refs, memory
  <1>2. /\ Erasing' = Erasing /\ Live' = Live /\ Roots' = Roots /\ ReadMaster' = ReadMaster
        /\ \A id : (Tracked(id)' <=> Tracked(id)) /\ Known(id)' = Known(id)
    BY <1>1 DEF Erasing, Live, Roots, Tracked, Known, ReadMaster
  <1>3. Typed' <=> Typed
    BY <1>1 DEF Typed
  <1>4. Types' <=> Types
    BY <1>1, <1>2 DEF Types
  <1>5. Intended' <=> Intended
    BY <1>1, <1>2 DEF Intended, Asked
  <1>6. Staged' <=> Staged
    BY <1>1 DEF Staged
  <1>7. Counted' <=> Counted
    BY <1>1, <1>2 DEF Counted
  <1>8. TrackedUp' <=> TrackedUp
    BY <1>2 DEF TrackedUp
  <1>9. Current' <=> Current
    BY <1>1 DEF Current
  <1>10. Active' <=> Active
    BY <1>1, <1>4, <1>6, <1>7, <1>8, <1>9 DEF Active
  <1>11. Whole' <=> Whole
    BY <1>1, <1>2, <1>4 DEF Whole, Reached
  <1> QED
    BY <1>1, <1>3, <1>5, <1>10, <1>11 DEF IInv, Running, CutShort, Down

LEMMA NextInv ==
    ASSUME ~Nested, IInv, [Next]_vars
    PROVE  IInv'
  <1>1. Typed'
    BY TypedNext DEF IInv
  <1>2. CASE UserOp
    BY <1>1, <1>2, UserOpStep
  <1>3. CASE Working
    BY <1>1, <1>3, WorkingStep
  <1>4. CASE RemovalFails
    BY <1>1, <1>4, RemovalFailsStep
  <1>5. CASE Overlook
    <2>1. (Typed /\ up /\ health = "unsound")'
      BY <1>1, <1>5 DEF Overlook, At
    <2> QED
      BY <2>1, UnsoundInv, PTL
  <1>6. CASE Stop
    BY <1>1, <1>6, StopStep
  <1>7. ASSUME NEW collect \in BOOLEAN, Start(collect) PROVE IInv'
    BY <1>1, <1>7, StartStep
  <1>8. CASE StartCrashes
    BY <1>1, <1>8, StartCrashesStep
  <1>9. CASE UNCHANGED vars
    BY <1>9, StutterStep
  <1> QED
    BY <1>2, <1>3, <1>4, <1>5, <1>6, <1>7, <1>8, <1>9 DEF Next, UserOp, Working

\* All of it holds in every reachable state, for any contents, names and snapshots, with
\* failures, crashes and restarts.  The subdirectory must not have one of its own name: that
\* is a case in which updateDirectoryReference() does not tell the parent (directoryhandler.cpp).
THEOREM Invariance == ASSUME ~Nested PROVE Spec => []IInv
  <1>1. Init => IInv
    BY InitInv
  <1>2. IInv /\ [Next]_vars => IInv'
    BY NextInv
  <1> QED
    BY <1>1, <1>2, PTL DEF Spec

----------------------------------------------------------------------------
(* What it says about the store.                                           *)

LEMMA TypesOK == Typed => TypeOK
  <1> SUFFICES ASSUME Typed PROVE TypeOK
    OBVIOUS
  <1>1. \A o \in disk : o.type \in {"blob", "tree", "commit"}
    BY BlobFacts, TreeFacts, CommitFacts DEF Typed, Objects
  <1>2. \A c \in Commits \cup {Nil, Missing} : c.type \in {"nil", "missing", "commit"}
    BY CommitFacts, NilFacts
  <1>3. master.type \in {"nil", "commit"} /\ m_commitId.type \in {"nil", "commit"}
    BY CommitFacts, NilFacts DEF Typed
  <1>4. \A t \in Tags : tags[t].type \in {"nil", "missing", "commit"}
    BY <1>2 DEF Typed
  <1>5. m_id.root.type \in {"nil", "tree"} /\ m_id.sub.type \in {"missing", "tree"}
    BY TypedRoot, SubRoot, TreeFacts, NilFacts
  <1>6. /\ \A o \in DOMAIN m_refCounter : m_refCounter[o] \in Nat \ {0}
        /\ {torn, up, leaked} \subseteq BOOLEAN
        /\ health \in {"sound", "cut", "unsound"}
    BY DEF Typed
  <1> QED
    BY <1>1, <1>3, <1>4, <1>5, <1>6 DEF TypeOK

\* Every variable has its type, whatever users, failures and restarts do to directories,
\* snapshots and the server: objects are files, trees and commits, counters are positive.
THEOREM TypeCorrect == ASSUME ~Nested PROVE Spec => []TypeOK
  <1>1. IInv => TypeOK
    BY TypesOK DEF IInv
  <1> QED
    BY <1>1, Invariance, PTL

LEMMA IdleExact ==
    ASSUME IInv, Idle, health = "sound"
    PROVE  /\ Active /\ Live = disk
           /\ \A id : Tracked(id) =>
                /\ id \in disk /\ id \in Objects
                /\ m_refCounter[id] \in Nat
                /\ Uses(disk, id, master, tags) \in Nat
                /\ m_refCounter[id] >= Uses(disk, id, master, tags)
                /\ ~leaked => m_refCounter[id] = Uses(disk, id, master, tags)
  <1>1. Active /\ todo = <<>>
    BY DEF Idle, IInv, Running
  <1>2. Live = disk
    BY <1>1 DEF Live, Erasing
  <1> SUFFICES ASSUME NEW id, Tracked(id)
               PROVE  /\ id \in disk /\ id \in Objects
                      /\ m_refCounter[id] \in Nat
                      /\ Uses(disk, id, master, tags) \in Nat
                      /\ m_refCounter[id] >= Uses(disk, id, master, tags)
                      /\ ~leaked => m_refCounter[id] = Uses(disk, id, master, tags)
    BY <1>1, <1>2
  <1> DEFINE k == Known(id)
             u == Uses(disk, id, master, tags)
  <1>3. id \in disk /\ id \in Objects /\ m_refCounter[id] = k /\ k \in Nat /\ u \in Nat
    BY <1>1, <1>2, LiveFacts DEF Active
  <1>4. LET n == k + Net(<<>>, id, master, tags) IN n >= u /\ (~leaked => n = u)
    BY <1>1, <1>2, <1>3 DEF Active, Counted, Failing
  <1> HIDE DEF k, u
  <1>5. k >= u /\ (~leaked => k = u)
    BY <1>3, <1>4, NetEmpty
  <1> QED
    BY <1>3, <1>5 DEF u

\* Between operations a known counter is the number of mentions of its object, by objects
\* and by references, and too high only after a failed operation, whatever addObject(),
\* linkObject() and unlinkObject() have shared, counted and removed (objectstore.cpp): as long
\* as no removal was left unfinished (objectstore.cpp:256-281), no file of an object was taken
\* for missing, and no start found objects without what they mention.
THEOREM Exact == ASSUME ~Nested PROVE Spec => []CountersExact
  <1>1. ASSUME IInv PROVE CountersExact
    <2>1. TypeOK
      BY <1>1, TypesOK DEF IInv
    <2>2. ASSUME Idle, health = "sound", NEW id \in DOMAIN m_refCounter
          PROVE  /\ id \in disk
                 /\ \/ m_refCounter[id] = Count(id)
                    \/ leaked /\ m_refCounter[id] > Count(id)
      <3> DEFINE k == m_refCounter[id]
                 u == Uses(disk, id, master, tags)
                 a == Cardinality(Mentions(disk, id))
                 b == Cardinality({ t \in Tags : tags[t] = id })
      <3>1. /\ id \in disk /\ k \in Nat /\ u \in Nat /\ k >= u
            /\ ~leaked => k = u
        BY <1>1, <2>2, IdleExact DEF Tracked
      <3>2. u = a + (b + Is(master, id)) /\ Count(id) = a + b + Is(master, id)
        BY DEF Uses, Refs, Count, Is
      <3>3. a \in Nat /\ b \in Nat /\ Is(master, id) \in {0, 1}
        <4>1. disk \subseteq Objects /\ IsFiniteSet(disk)
          BY <1>1 DEF IInv, Typed
        <4> QED
          BY <4>1, MentionsFacts, TagsAssumption, FS_Subset, FS_CardinalityType DEF Is
      <3> HIDE DEF a, b, k, u
      <3>4. Count(id) = u
        BY <3>2, <3>3
      <3>5. k = u \/ (leaked /\ k > u)
        <4>1. leaked \in BOOLEAN
          BY <1>1 DEF IInv, Typed
        <4> QED
          BY <3>1, <4>1
      <3> QED
        BY <3>1, <3>4, <3>5 DEF k
    <2> QED
      BY <2>1, <2>2 DEF CountersExact
  <1> QED
    BY <1>1, Invariance, PTL

\* Between operations the root and its subdirectory are what master says: a change of a
\* directory arrives in its parents (DirectoryHandler, RootUpdater), and one that fails
\* before master is written leaves all of them unchanged.  One that fails in unlinkObject(),
\* after master was written (root.cpp:118-122), does not, and ends the sound state.
THEOREM Arrives == ASSUME ~Nested PROVE Spec => []StoredCurrent
  <1>1. ASSUME IInv PROVE StoredCurrent
    <2>1. Idle /\ health = "sound" => m_commitId = master /\ m_id = View(master)
      BY <1>1, Stages DEF IInv, Running, Active, Current, Idle
    <2> QED
      BY <2>1 DEF StoredCurrent, View
  <1> QED
    BY <1>1, Invariance, PTL

\* An object with a counter is the object of a reference, or another one mentions it.
LEMMA Mentioner ==
    ASSUME IInv, Idle, ~leaked, health = "sound", NEW id, Tracked(id)
    PROVE  \/ id \in Reached(Roots)
           \/ \E o : Tracked(o) /\ o \in Objects /\ id \in ToSet(Content(o))
  <1>1. /\ Active /\ Live = disk /\ id \in Objects
        /\ m_refCounter[id] = Uses(disk, id, master, tags)
        /\ m_refCounter[id] # 0
    <2>1. Active /\ Live = disk
      BY IdleExact
    <2>2. id \in Objects /\ m_refCounter[id] = Uses(disk, id, master, tags)
      BY IdleExact
    <2>3. m_refCounter[id] # 0
      BY <2>1, LiveFacts DEF Active
    <2> QED
      BY <2>1, <2>2, <2>3
  <1>2. disk \subseteq Objects /\ IsFiniteSet(disk)
    BY DEF IInv, Typed
  <1>3. ~ /\ \A o \in disk : id \notin ToSet(Content(o))
          /\ master # id /\ \A t \in Tags : tags[t] # id
    BY <1>1, <1>2, UsesFacts
  <1>4. CASE master = id \/ \E t \in Tags : tags[t] = id
    BY <1>1, <1>4, RootsFacts DEF IInv
  <1>5. CASE \E o \in disk : id \in ToSet(Content(o))
    BY <1>1, <1>2, <1>5 DEF Active, TrackedUp
  <1> QED
    BY <1>3, <1>4, <1>5

\* Between operations nothing has a counter that no reference reaches, unless an operation
\* failed: unlinkObject() has removed the old trees, up to what they share with new ones.
THEOREM Clean == ASSUME ~Nested PROVE Spec => []NoGarbage
  <1>1. ASSUME IInv PROVE NoGarbage
    <2> SUFFICES ASSUME Idle, ~leaked, health = "sound", NEW id, Tracked(id)
                 PROVE  id \in Reached(Roots)
      BY DEF NoGarbage, Tracked
    <2> DEFINE Found == Reached(Roots)
    <2>1. \A o \in Found : ToSet(Content(o)) \subseteq Found
      BY <1>1, RootsFacts DEF IInv
    <2>2. \A x : Tracked(x) =>
             x \in Found \/ \E o \in Objects : Tracked(o) /\ x \in ToSet(Content(o))
      BY <1>1, Mentioner
    <2>3. \A x : Tracked(x) => x \in Objects
      BY <1>1, IdleExact
    <2> HIDE DEF Found
    <2>4. /\ \A t \in RootTrees : ToSet(Content(t)) \subseteq Blobs \cup SubTrees
          /\ \A t \in SubTrees : ToSet(Content(t)) \subseteq Blobs
          /\ \A c \in Commits : ToSet(Content(c)) \subseteq RootTrees
          /\ \A b \in Blobs : ToSet(Content(b)) = {}
      <3>1. \A t \in RootTrees : ToSet(Content(t)) = { Entries(t)[n] : n \in DOMAIN Entries(t) }
        BY ContentFacts
      <3>2. \A t \in RootTrees : ToSet(Content(t)) \subseteq Blobs \cup SubTrees
        BY <3>1, TreeFacts, EntriesFacts
      <3>3. \A t \in SubTrees : ToSet(Content(t)) \subseteq Blobs
        BY <3>1, SubRoot, TreeFacts, EntriesFacts
      <3> QED
        BY <3>2, <3>3, ContentFacts, CommitFacts
    <2>5. /\ Blobs \cap RootTrees = {} /\ Blobs \cap Commits = {} /\ RootTrees \cap Commits = {}
          /\ SubTrees \subseteq RootTrees /\ Objects = Blobs \cup RootTrees \cup Commits
      BY Disjoint, SubRoot DEF Objects
    <2>6. ASSUME NEW c \in Commits, Tracked(c) PROVE c \in Found
      BY <2>2, <2>4, <2>5, <2>6
    <2>7. ASSUME NEW t \in RootTrees, t \notin SubTrees, Tracked(t) PROVE t \in Found
      <3> SUFFICES ASSUME NEW o \in Objects, Tracked(o), t \in ToSet(Content(o)) PROVE t \in Found
        BY <2>2, <2>7
      <3>1. o \in Commits
        BY <2>4, <2>5, <2>7
      <3> QED
        BY <2>1, <2>6, <3>1
    <2>8. ASSUME NEW t \in SubTrees, Tracked(t) PROVE t \in Found
      <3> SUFFICES ASSUME NEW o \in Objects, Tracked(o), t \in ToSet(Content(o)) PROVE t \in Found
        BY <2>2, <2>8
      <3>1. o \in Commits \/ (o \in RootTrees /\ o \notin SubTrees)
        BY <2>4, <2>5, <2>8
      <3> QED
        BY <2>1, <2>6, <2>7, <3>1
    <2>9. ASSUME NEW b \in Blobs, Tracked(b) PROVE b \in Found
      <3> SUFFICES ASSUME NEW o \in Objects, Tracked(o), b \in ToSet(Content(o)) PROVE b \in Found
        BY <2>2, <2>9
      <3>1. o \in RootTrees
        BY <2>4, <2>5, <2>9
      <3> QED
        BY <2>1, <2>7, <2>8, <3>1
    <2> QED
      BY <2>3, <2>5, <2>6, <2>7, <2>8, <2>9 DEF Found
  <1> QED
    BY <1>1, Invariance, PTL

----------------------------------------------------------------------------
(* The store is a tree of files with snapshots.                            *)

\* A reference shows what its commit says.
Shown(c) == IF c = Missing THEN [p \in Paths |-> "absent"] ELSE Image(c)
Snapshots == [t \in Tags |-> IF tags[t] = Missing THEN [p \in Paths |-> "absent"]
                             ELSE Read(tags[t])]
Sight == Read(master) = Image(master) /\ Snapshots = [t \in Tags |-> Shown(tags[t])]

LEMMA Seen == IInv /\ health # "unsound" => Sight
  <1> SUFFICES ASSUME IInv, health # "unsound"
               PROVE  Read(master) = Image(master) /\ Snapshots = [t \in Tags |-> Shown(tags[t])]
    BY DEF Sight
  <1>1. ASSUME NEW c \in Roots PROVE Read(c) = Image(c)
    <2>1. Reached({c}) \subseteq Reached(Roots)
      <3> HIDE DEF Nil, Missing
      <3>1. {c} \ {Nil, Missing} \subseteq Roots
        BY <1>1
      <3> QED
        BY <3>1, Fewer DEF IInv
    <2>2. Reached({c}) \subseteq disk
      BY <2>1, Stored
    <2> QED
      BY <2>2 DEF Read, Image
  <1>2. master \in Roots /\ \A t \in Tags : tags[t] \in Roots
    BY RootsFacts DEF IInv
  <1>3. \A t \in Tags : (IF tags[t] = Missing THEN [p \in Paths |-> "absent"]
                         ELSE Read(tags[t])) = Shown(tags[t])
    BY <1>1, <1>2 DEF Shown
  <1> QED
    BY <1>1, <1>2, <1>3 DEF Snapshots

\* The tree of no commit is empty, and can always be read.
LEMMA NilImage == Image(Nil) = [p \in Paths |-> "none"]
  <1>1. TreeOf(Nil) = Nil /\ SubOf(Nil) = Missing
    <2>1. View(Nil) = [root |-> Nil, sub |-> Missing]
      BY NilView
    <2>2. View(Nil).root = TreeOf(Nil) /\ View(Nil).sub = SubOf(TreeOf(Nil))
      BY DEF View
    <2>3. TreeOf(Nil) = Nil
      BY NilFacts
    <2> HIDE DEF Nil, Missing
    <2> QED
      BY <2>1, <2>2, <2>3
  <1>2. \A n : Look(Entries(Nil), n) = "none" /\ Look(Entries(Missing), n) = "none"
    BY NilFacts, NoEntriesFacts DEF Look
  <1> HIDE DEF Nil, Missing
  <1> QED
    BY <1>1, <1>2 DEF Image

LEMMA NilReached == Reached({Nil}) = {}
  <1>1. {Nil} \ {Nil, Missing} \subseteq {}
    OBVIOUS
  <1>2. Reached({Nil}) \subseteq {}
    BY <1>1, ReachedIn
  <1> QED
    BY <1>2

LEMMA NilRead == Read(Nil) = [p \in Paths |-> "none"]
  <1>1. Read(Nil) = Image(Nil)
    BY NilReached DEF Read, Image
  <1> QED
    BY <1>1, NilImage

LEMMA InitSeen == Init => Files_and_Snapshots!Init
  <1> SUFFICES ASSUME Init PROVE Files_and_Snapshots!Init
    OBVIOUS
  <1>1. Snapshots = [t \in Tags |-> Shown(tags[t])]
    <2>1. health # "unsound"
      BY DEF Init
    <2> QED
      BY <2>1, InitInv, Seen DEF Sight
  <1>2. Read(master) = [p \in Paths |-> "none"] /\ torn = FALSE
    BY NilRead DEF Init
  <1>3. Snapshots = [t \in Tags |-> [p \in Paths |-> "absent"]]
    BY <1>1 DEF Init, Shown
  <1> QED
    BY <1>2, <1>3 DEF Files_and_Snapshots!Init, Files_and_Snapshots!None,
           Files_and_Snapshots!Nothing, Files_and_Snapshots!Absent, Snapshots

\* A new commit is one change of the files.
LEMMA MasterSeen ==
    ASSUME Snapshots' = Snapshots, torn' = FALSE, Changes(Read(master), Read(master)')
    PROVE  Files_and_Snapshots!Next
  <1> DEFINE f == Read(master)
             g == Read(master)'
  <1>0. /\ \A p : Files_and_Snapshots!HasParent(p) <=> HasPlace(f, p)
        /\ Files_and_Snapshots!None = "none" /\ Files_and_Snapshots!Directory = "dir"
    BY DEF Files_and_Snapshots!HasParent, Files_and_Snapshots!None,
           Files_and_Snapshots!Directory, HasPlace
  <1>1. PICK p \in Paths :
          \/ HasPlace(f, p) /\ f[p] = "none" /\ g = [f EXCEPT ![p] = "dir"]
          \/ /\ \A q \in Paths : f[q] # "none" /\ Len(q) > Len(p) => SubSeq(q, 1, Len(p)) # p
             /\ g = [f EXCEPT ![p] = "none"]
          \/ \E c \in Data : HasPlace(f, p) /\ f[p] # "dir" /\ g = [f EXCEPT ![p] = c]
    BY DEF Changes
  <1>2. CASE HasPlace(f, p) /\ f[p] = "none" /\ g = [f EXCEPT ![p] = "dir"]
    <2>1. Files_and_Snapshots!MakeDirectory(p)
      BY <1>0, <1>2 DEF Files_and_Snapshots!MakeDirectory, Snapshots
    <2> QED
      BY <2>1 DEF Files_and_Snapshots!Next, Files_and_Snapshots!ChangeFiles
  <1>3. CASE /\ \A q \in Paths : f[q] # "none" /\ Len(q) > Len(p) => SubSeq(q, 1, Len(p)) # p
             /\ g = [f EXCEPT ![p] = "none"]
    <2>1. Files_and_Snapshots!Delete(p)
      BY <1>0, <1>3 DEF Files_and_Snapshots!Delete, Snapshots
    <2> QED
      BY <2>1 DEF Files_and_Snapshots!Next, Files_and_Snapshots!ChangeFiles
  <1>4. CASE \E c \in Data : HasPlace(f, p) /\ f[p] # "dir" /\ g = [f EXCEPT ![p] = c]
    <2>1. PICK c \in Data : Files_and_Snapshots!Put(p, c)
      BY <1>0, <1>4 DEF Files_and_Snapshots!Put, Snapshots
    <2> QED
      BY <2>1 DEF Files_and_Snapshots!Next, Files_and_Snapshots!ChangeFiles
  <1> QED
    BY <1>1, <1>2, <1>3, <1>4

\* A new commit of a snapshot is one change of the snapshots.
LEMMA TagSeen ==
    ASSUME Read(master)' = Read(master), torn' = torn, NEW t \in Tags,
           \/ Snapshots' = [Snapshots EXCEPT ![t] = IF torn THEN [p \in Paths |-> "none"]
                                                    ELSE Read(master)]
           \/ Snapshots' = [Snapshots EXCEPT ![t] = [p \in Paths |-> "absent"]]
           \/ \E u \in Tags : Snapshots' = [Snapshots EXCEPT ![t] = Snapshots[u]]
    PROVE  Files_and_Snapshots!Next
  <1>1. CASE Snapshots' = [Snapshots EXCEPT ![t] = IF torn THEN [p \in Paths |-> "none"]
                                                   ELSE Read(master)]
    BY <1>1 DEF Files_and_Snapshots!TakeSnapshot, Snapshots, Files_and_Snapshots!Nothing,
                Files_and_Snapshots!None,
                Files_and_Snapshots!Next, Files_and_Snapshots!ChangeSnapshots
  <1>2. CASE Snapshots' = [Snapshots EXCEPT ![t] = [p \in Paths |-> "absent"]]
    BY <1>2 DEF Files_and_Snapshots!DropSnapshot, Files_and_Snapshots!Absent, Snapshots,
                Files_and_Snapshots!Next, Files_and_Snapshots!ChangeSnapshots
  <1>3. CASE \E u \in Tags : Snapshots' = [Snapshots EXCEPT ![t] = Snapshots[u]]
    <2>1. PICK u \in Tags : Files_and_Snapshots!CopySnapshot(u, t)
      BY <1>3 DEF Files_and_Snapshots!CopySnapshot, Snapshots
    <2> QED
      BY <2>1 DEF Snapshots, Files_and_Snapshots!Next, Files_and_Snapshots!ChangeSnapshots
  <1> QED
    BY <1>1, <1>2, <1>3

\* References that are damaged
Marred ==
    /\ \/ Read(master)' = Read(master) /\ torn' = torn
       \/ /\ At("master") \/ torn
          /\ \/ torn' = TRUE /\ Read(master)' = Read(master)
             \/ torn' = FALSE /\ Read(master)' = [p \in Paths |-> "none"]
    /\ \/ Snapshots' = Snapshots
       \/ /\ At("tag")
          /\ \E t \in Tags : Snapshots' = [Snapshots EXCEPT ![t] = [p \in Paths |-> "absent"]]

\* What is seen after a reference is written
LEMMA WriteRefSeen ==
    ASSUME IInv, health # "unsound", Sight, Sight', WriteRef
    PROVE  Files_and_Snapshots!Next
  <1>1. /\ Read(master) = Image(master) /\ Snapshots = [t \in Tags |-> Shown(tags[t])]
        /\ Read(master)' = Image(master') /\ Snapshots' = [t \in Tags |-> Shown(tags'[t])]
    BY DEF Sight
  <1>2. health = "sound" /\ up /\ Active /\ Intended
    <2>1. up /\ todo # <<>>
      BY DEF WriteRef, At
    <2>2. health = "sound"
      BY <2>1 DEF IInv, CutShort, Typed
    <2> QED
      BY <2>1, <2>2 DEF IInv, Running
  <1>3. todo # <<>> /\ todo[1] = Head(todo) /\ 1 \in DOMAIN todo /\ Head(todo) \in Steps
    BY <1>2, HeadFacts DEF WriteRef, At
  <1>4. CASE At("master") /\ master' = This /\ torn' = FALSE /\ tags' = tags
    <2>1. Changes(Image(master), Image(This))
      BY <1>2, <1>3, <1>4 DEF Intended, Asked, At, This
    <2>2. Changes(Read(master), Read(master)') /\ Snapshots' = Snapshots
      BY <1>1, <1>4, <2>1
    <2> QED
      BY <1>4, <2>2, MasterSeen
  <1>5. CASE /\ At("tag") /\ tags' = [tags EXCEPT ![Head(todo).tag] = This]
             /\ UNCHANGED <<master, torn>>
    <2> DEFINE t == Head(todo).tag
    <2>1. PICK x : x = This
      OBVIOUS
    <2>2. t \in Tags
      BY <1>3, <1>5, StepFacts DEF At
    <2>3. x \in {ReadMaster, Missing} \/ \E u \in Tags : tags[u] = x
      BY <1>2, <1>3, <1>5, <2>1 DEF Intended, Asked, At, This
    <2>4. tags' = [tags EXCEPT ![t] = x] /\ tags \in [Tags -> Commits \cup {Nil, Missing}]
      BY <1>5, <2>1 DEF IInv, Typed
    <2>5. master # Missing /\ Nil # Missing
      BY CommitFacts, NilFacts DEF IInv, Typed
    <2> HIDE DEF t, Missing, Nil
    <2>6. tags'[t] = x /\ \A u \in Tags : u # t => tags'[u] = tags[u]
      BY <2>2, <2>4
    <2>7. Snapshots' = [Snapshots EXCEPT ![t] = Shown(x)]
      BY <1>1, <2>2, <2>6
    <2>8. Read(master)' = Read(master) /\ torn' = torn
      BY <1>1, <1>5
    <2>9. CASE x = ReadMaster
      <3>1. Shown(x) = IF torn THEN [p \in Paths |-> "none"] ELSE Read(master)
        BY <1>1, <2>5, <2>9, NilImage DEF Shown, ReadMaster
      <3> QED
        BY <2>2, <2>7, <2>8, <3>1, TagSeen
    <2>10. CASE x = Missing
      <3>1. Shown(x) = [p \in Paths |-> "absent"]
        BY <2>10 DEF Shown
      <3> QED
        BY <2>2, <2>7, <2>8, <3>1, TagSeen
    <2>11. CASE \E u \in Tags : tags[u] = x
      <3>1. PICK u \in Tags : tags[u] = x
        BY <2>11
      <3>2. Shown(x) = Snapshots[u]
        BY <1>1, <3>1
      <3> QED
        BY <2>2, <2>7, <2>8, <3>1, <3>2, TagSeen
    <2> QED
      BY <2>3, <2>9, <2>10, <2>11
  <1> QED
    BY <1>4, <1>5 DEF WriteRef

\* What is seen after the file of a snapshot is torn, while objects are the same
LEMMA TornTagSeen ==
    ASSUME Typed, At("tag"), tags' = TornTags, disk' = disk
    PROVE  \E t \in Tags : Snapshots' = [Snapshots EXCEPT ![t] = [p \in Paths |-> "absent"]]
  <1> DEFINE t == Head(todo).tag
  <1>1. t \in Tags
    BY AnyHead DEF At
  <1>2. tags' = [tags EXCEPT ![t] = Missing] /\ tags \in [Tags -> Commits \cup {Nil, Missing}]
    BY DEF TornTags, Typed
  <1>3. \A c : Read(c)' = Read(c)
    BY DEF Read
  <1> HIDE DEF t, Missing, Nil
  <1>4. tags'[t] = Missing /\ \A u \in Tags : u # t => tags'[u] = tags[u]
    BY <1>1, <1>2
  <1>5. Snapshots' = [u \in Tags |-> IF tags'[u] = Missing THEN [p \in Paths |-> "absent"]
                                     ELSE Read(tags'[u])]
    BY <1>3 DEF Snapshots
  <1>6. Snapshots' = [Snapshots EXCEPT ![t] = [p \in Paths |-> "absent"]]
    BY <1>1, <1>4, <1>5 DEF Snapshots
  <1> QED
    BY <1>1, <1>6

LEMMA SameTagsSeen ==
    ASSUME tags' = tags, disk' = disk
    PROVE  Snapshots' = Snapshots
  BY DEF Snapshots, Read

LEMMA ExceptionSeen ==
    ASSUME Typed, Exception
    PROVE  Marred
  <1>1. disk' = disk
    BY DEF Exception
  <1>2. master' = master /\ Read(master)' = Read(master)
    <2>1. master' = master
      BY DEF Exception, refs
    <2> QED
      BY <1>1, <2>1 DEF Read
  <1>3. CASE UNCHANGED refs
    BY <1>1, <1>2, <1>3, SameTagsSeen DEF refs, Marred
  <1>4. CASE At("master") /\ torn' = TRUE /\ UNCHANGED <<master, tags>>
    BY <1>1, <1>2, <1>4, SameTagsSeen DEF Marred
  <1>5. CASE At("tag") /\ This # Missing /\ tags' = TornTags /\ UNCHANGED <<master, torn>>
    BY <1>1, <1>2, <1>5, TornTagSeen DEF Marred
  <1> QED
    BY <1>3, <1>4, <1>5 DEF Exception

LEMMA StopSeen ==
    ASSUME Typed, Stop
    PROVE  Marred
  <1>1. disk' = disk /\ torn' = FALSE /\ torn \in BOOLEAN
    BY DEF Stop, Typed
  <1>2. Snapshots' = Snapshots
          \/ /\ At("tag")
             /\ \E t \in Tags : Snapshots' = [Snapshots EXCEPT ![t] = [p \in Paths |-> "absent"]]
    <2>1. tags' = tags \/ (At("tag") /\ tags' = TornTags)
      BY DEF Stop
    <2> QED
      BY <1>1, <2>1, SameTagsSeen, TornTagSeen
  <1>3. master' = ReadMaster \/ (At("master") /\ master' = Nil)
    BY DEF Stop
  <1>4. CASE ~torn /\ master' = master
    <2>1. Read(master)' = Read(master)
      BY <1>1, <1>4 DEF Read
    <2> QED
      BY <1>1, <1>2, <1>4, <2>1 DEF Marred
  <1>5. CASE (At("master") \/ torn) /\ master' = Nil
    <2>1. Reached({master})' = {}
      <3>1. Reached({master'}) = {}
        BY <1>5, NilReached
      <3> QED
        BY <3>1 DEF Reached
    <2>2. Read(master)' = Image(master')
      BY <2>1 DEF Read, Image
    <2>3. Read(master)' = [p \in Paths |-> "none"]
      BY <1>5, <2>2, NilImage
    <2> QED
      BY <1>1, <1>2, <1>5, <2>3 DEF Marred
  <1> QED
    BY <1>1, <1>3, <1>4, <1>5 DEF ReadMaster

LEMMA NextSeen ==
    ASSUME IInv, IInv', [Next]_vars
    PROVE  Files_and_Snapshots!Next \/ Marred \/ health' = "unsound"
  <1> SUFFICES ASSUME health' # "unsound"
               PROVE  Files_and_Snapshots!Next \/ Marred
    OBVIOUS
  <1>1. CASE Stop
    BY <1>1, StopSeen DEF IInv
  <1>2. CASE Exception
    BY <1>2, ExceptionSeen DEF IInv
  <1>3. ASSUME ~Stop, ~Exception, ~WriteRef
        PROVE  master' = master /\ tags' = tags /\ torn' = torn
    BY <1>3 DEF Next, vars, CreateFile, CopyFile, RemoveFile, CreateDirectory, RemoveDirectory,
           CreateSnapshot, RemoveSnapshot, CopySnapshot, Begin, AddNew, AddExisting, Link, Unlink,
           UnlinkLast, Erase, End, RemovalFails, Overlook, Start, StartCrashes, Unchanged, refs
  <1>4. ASSUME ~Stop
        PROVE  health # "unsound"
    BY <1>4 DEF Next, vars, CreateFile, CopyFile, RemoveFile, CreateDirectory, RemoveDirectory,
           CreateSnapshot, RemoveSnapshot, CopySnapshot, Begin, AddNew, AddExisting, Link, Unlink,
           UnlinkLast, Erase, WriteRef, End, Exception, RemovalFails, Overlook, Start,
           StartCrashes, Unchanged, refs
  <1>5. ASSUME ~Stop PROVE Sight /\ Sight'
    <2>1. Sight
      BY <1>4, <1>5, Seen
    <2>2. (IInv /\ health # "unsound")'
      OBVIOUS
    <2>3. Sight'
      BY <2>2, Seen, PTL
    <2> QED
      BY <2>1, <2>3
  <1>6. CASE ~Stop /\ WriteRef
    BY <1>4, <1>5, <1>6, WriteRefSeen
  <1>7. CASE ~Stop /\ ~Exception /\ ~WriteRef
    BY <1>3, <1>5, <1>7 DEF Sight, Marred
  <1> QED
    BY <1>1, <1>2, <1>6, <1>7

\* The store implements FileTree, as long as the server is sound: each operation has its
\* effect at once, when its reference is written, or none, and restarts and garbage collection
\* have none.  Failures and crashes have none, either, except on the reference that is being
\* written (createFile() of filesystemhandler.cpp truncates it first).  A removal that is cut
\* short, by an error in unlinkObject() or a crash (objectstore.cpp:256-281), changes nothing
\* that users see; what they see after the next operation, or after a start that finds
\* objects without what they mention and does not collect them, is not promised.
THEOREM Implements == ASSUME ~Nested PROVE Spec => Promised
  <1>1. Init => Files_and_Snapshots!Init
    BY InitSeen
  <1>2. ASSUME IInv, IInv', [Next]_vars
        PROVE  \/ Files_and_Snapshots!Next
               \/ /\ \/ Files_and_Snapshots!SameFiles
                     \/ Files_and_Snapshots!DamageFiles /\ (At("master") \/ torn)
                  /\ \/ Files_and_Snapshots!SameSnapshots
                     \/ Files_and_Snapshots!DamageSnapshot /\ At("tag")
               \/ health' = "unsound"
    <2>1. Files_and_Snapshots!Next \/ Marred \/ health' = "unsound"
      BY <1>2, NextSeen
    <2>2. CASE Marred
      <3>1. Files_and_Snapshots!SameFiles
              \/ (Files_and_Snapshots!DamageFiles /\ (At("master") \/ torn))
        BY <2>2 DEF Marred, Files_and_Snapshots!SameFiles, Files_and_Snapshots!DamageFiles,
               Files_and_Snapshots!Nothing, Files_and_Snapshots!None
      <3>2. Files_and_Snapshots!SameSnapshots
              \/ (Files_and_Snapshots!DamageSnapshot /\ At("tag"))
        BY <2>2 DEF Marred, Snapshots, Files_and_Snapshots!SameSnapshots,
               Files_and_Snapshots!DamageSnapshot, Files_and_Snapshots!Absent
      <3> QED
        BY <3>1, <3>2
    <2> QED
      BY <2>1, <2>2
  <1>3. Spec => []IInv
    BY Invariance
  <1> QED
    BY <1>1, <1>2, <1>3, PTL DEF Spec, Promised

----------------------------------------------------------------------------
(* The garbage collector, with users that change the store between its     *)
(* slices.                                                                 *)

(* What the collector knows, as long as it could read everything: it keeps  *)
(* the commits it was told, and what a kept object mentions it keeps, too,  *)
(* or will look at.                                                         *)
Remembered ==
    m_numErrors = 0 =>
        /\ roots \ pending \subseteq m_objectsToKeep
        /\ \A o \in m_objectsToKeep \ BlobIds :
              Child[o] \subseteq m_objectsToKeep \cup m_treesToCheck

GCInv == GCTypeOK /\ Remembered /\ NothingLost /\ NothingSkipped /\ OnlyReachableKept

(* What an object mentions. *)
LEMMA Children ==
    /\ \A o \in ObjectIds \ BlobIds : Child[o] \subseteq TreeIds \cup BlobIds
    /\ \A c \in CommitIds : Child[c] \subseteq TreeIds
  BY ChildAssumption DEF ObjectIds

(* When no tree is left to be checked, removing what is not kept leaves the *)
(* store whole.                                                             *)
LEMMA Removal ==
    ASSUME GCInv, pending = {}, m_numErrors = 0, m_treesToCheck = {},
           NEW D, store \cap m_objectsToKeep \subseteq D
    PROVE  WholeStore(roots, D)
  <1>1. PICK S \in SUBSET store : roots \subseteq S /\ Closed(S)
    BY DEF GCInv, NothingLost, WholeStore
  <1> DEFINE T == S \cap m_objectsToKeep
  <1>2. T \in SUBSET D
    BY <1>1
  <1>3. roots \subseteq T
    BY <1>1 DEF GCInv, Remembered
  <1>4. Closed(T)
    <2> SUFFICES ASSUME NEW o \in T \ BlobIds PROVE Child[o] \subseteq T
      BY DEF Closed
    <2>1. Child[o] \subseteq S
      BY <1>1 DEF Closed
    <2>2. Child[o] \subseteq m_objectsToKeep
      BY DEF GCInv, Remembered
    <2> QED
      BY <2>1, <2>2
  <1> QED
    BY <1>2, <1>3, <1>4 DEF WholeStore

LEMMA GCInitInv == GCInit => GCInv
  <1> SUFFICES ASSUME GCInit PROVE GCInv
    OBVIOUS
  <1>1. GCTypeOK
    BY PrefixAssumption DEF GCInit, GCTypeOK
  <1>2. Remembered
    BY DEF GCInit, Remembered
  <1>3. NothingLost
    BY DEF GCInit, NothingLost
  <1>4. NothingSkipped
    BY PrefixAssumption, <1>1 DEF GCInit, NothingSkipped, GCTypeOK
  <1>5. OnlyReachableKept
    BY DEF GCInit, OnlyReachableKept
  <1> QED
    BY <1>1, <1>2, <1>3, <1>4, <1>5 DEF GCInv

(* addCommit() and checkObject() change what is known, but not the store. *)
LEMMA TellInv ==
    ASSUME GCInv, NEW c \in CommitIds, AddCommit(c) \/ AddCommitFails(c)
    PROVE  GCInv'
  <1>0. GCTypeOK /\ Remembered /\ NothingLost /\ NothingSkipped /\ OnlyReachableKept
    BY DEF GCInv
  <1>1. Child[c] \subseteq TreeIds
    BY Children
  <1>2. GCTypeOK'
    BY <1>0, <1>1 DEF GCTypeOK, AddCommit, AddCommitFails, TellCommit, ObjectIds
  <1>3. Remembered'
    <2>1. CASE AddCommit(c)
      <3> SUFFICES ASSUME m_numErrors = 0 PROVE Remembered'
        BY <2>1 DEF Remembered, AddCommit, TellCommit
      <3>1. (roots \ pending \subseteq m_objectsToKeep)'
        BY <1>0, <2>1 DEF Remembered, AddCommit, TellCommit
      <3>2. ASSUME NEW o \in m_objectsToKeep' \ BlobIds
            PROVE  Child[o] \subseteq m_objectsToKeep' \cup m_treesToCheck'
        <4>1. CASE o \in m_objectsToKeep
          BY <1>0, <2>1, <3>2, <4>1 DEF Remembered, AddCommit, TellCommit
        <4>2. CASE o \notin m_objectsToKeep
          <5>1. o = c /\ m_treesToCheck' = m_treesToCheck \cup (Child[c] \ m_objectsToKeep)
            BY <2>1, <3>2, <4>2 DEF AddCommit, TellCommit
          <5> QED
            BY <2>1, <5>1 DEF AddCommit, TellCommit
        <4> QED
          BY <4>1, <4>2
      <3> QED
        BY <3>1, <3>2 DEF Remembered
    <2>2. CASE AddCommitFails(c)
      BY <1>0, <2>2 DEF Remembered, GCTypeOK, AddCommitFails
    <2> QED
      BY <2>1, <2>2
  <1>4. NothingLost'
    BY <1>0 DEF NothingLost, AddCommit, AddCommitFails, TellCommit
  <1>5. NothingSkipped'
    BY <1>0 DEF NothingSkipped, AddCommit, AddCommitFails, TellCommit
  <1>6. OnlyReachableKept'
    <2> SUFFICES ASSUME NEW S \in SUBSET ObjectIds, added' \subseteq S, Closed(S)
                 PROVE  m_objectsToKeep' \cup m_treesToCheck' \subseteq S
      BY DEF OnlyReachableKept
    <2>1. m_objectsToKeep \cup m_treesToCheck \subseteq S /\ c \in S
      BY <1>0 DEF OnlyReachableKept, AddCommit, AddCommitFails, TellCommit
    <2>2. Child[c] \subseteq S
      BY <2>1, ChildAssumption DEF Closed
    <2> QED
      BY <2>1, <2>2 DEF AddCommit, AddCommitFails, TellCommit
  <1> QED
    BY <1>2, <1>3, <1>4, <1>5, <1>6 DEF GCInv

LEMMA CheckInv ==
    ASSUME GCInv, NEW t \in TreeIds, CheckObject(t) \/ CheckObjectFails(t)
    PROVE  GCInv'
  <1>0. GCTypeOK /\ Remembered /\ NothingLost /\ NothingSkipped /\ OnlyReachableKept
    BY DEF GCInv
  <1>1. PICK K \in SUBSET Child[t] : Note(t, K) /\ (CheckObject(t) => K = Child[t])
    BY DEF CheckObject, CheckObjectFails
  <1>2. t \in m_treesToCheck /\ t \notin BlobIds /\ K \subseteq TreeIds \cup BlobIds
    BY <1>1, Children, ChildAssumption DEF CheckObject, CheckObjectFails, ObjectIds
  <1>3. /\ UNCHANGED <<added, store, roots, pending, changes, runs>>
        /\ late' = {}
        /\ m_numErrors' = m_numErrors \/ m_numErrors' = m_numErrors + 1
        /\ CheckObjectFails(t) => m_numErrors' = m_numErrors + 1
    BY DEF CheckObject, CheckObjectFails
  <1>4. GCTypeOK'
    BY <1>0, <1>1, <1>2, <1>3, PrefixAssumption DEF GCTypeOK, Note, ObjectIds
  <1>5. Remembered'
    <2> SUFFICES ASSUME m_numErrors' = 0 PROVE Remembered'
      BY DEF Remembered
    <2>1. m_numErrors = 0 /\ K = Child[t]
      BY <1>0, <1>1, <1>3 DEF GCTypeOK
    <2>2. (roots \ pending \subseteq m_objectsToKeep)'
      BY <1>0, <1>1, <1>3, <2>1 DEF Remembered, Note
    <2>3. ASSUME NEW o \in m_objectsToKeep' \ BlobIds
          PROVE  Child[o] \subseteq m_objectsToKeep' \cup m_treesToCheck'
      <3>1. CASE o = t
        BY <1>1, <1>2, <2>1, <3>1 DEF Note
      <3>2. CASE o # t
        <4>1. o \in m_objectsToKeep \ BlobIds
          BY <1>1, <2>3, <3>2 DEF Note
        <4> QED
          BY <1>0, <1>1, <2>1, <4>1 DEF Remembered, Note
      <3> QED
        BY <3>1, <3>2
    <2> QED
      BY <2>2, <2>3 DEF Remembered
  <1>6. NothingLost'
    BY <1>0, <1>3 DEF NothingLost
  <1>7. NothingSkipped'
    BY <1>1, <1>3, <1>0, PrefixAssumption DEF NothingSkipped, Note, GCTypeOK
  <1>8. OnlyReachableKept'
    <2> SUFFICES ASSUME NEW S \in SUBSET ObjectIds, added \subseteq S, Closed(S)
                 PROVE  m_objectsToKeep' \cup m_treesToCheck' \subseteq S
      BY <1>3 DEF OnlyReachableKept
    <2>1. m_objectsToKeep \cup m_treesToCheck \subseteq S
      BY <1>0 DEF OnlyReachableKept
    <2>2. K \subseteq S
      BY <1>1, <1>2, <2>1 DEF Closed
    <2> QED
      BY <1>1, <2>1, <2>2, <1>2 DEF Note
  <1> QED
    BY <1>4, <1>5, <1>6, <1>7, <1>8 DEF GCInv

LEMMA RemoveInv ==
    ASSUME GCInv, RemoveGarbageObjects \/ RemoveFails
    PROVE  GCInv'
  <1>0. GCTypeOK /\ Remembered /\ NothingLost /\ NothingSkipped /\ OnlyReachableKept
    BY DEF GCInv
  <1>1. /\ pending = {} /\ m_numErrors = 0 /\ m_treesToCheck = {}
        /\ m_nextPrefixToCheck < NumPrefixes
        /\ m_nextPrefixToCheck' = m_nextPrefixToCheck + 1
        /\ UNCHANGED <<m_objectsToKeep, m_treesToCheck, m_numErrors, added, roots, pending>>
        /\ UNCHANGED <<changes, runs>>
    BY DEF RemoveGarbageObjects, RemoveFails
  <1>2. /\ store \ Garbage \subseteq store' /\ store' \subseteq store
        /\ late \subseteq late' /\ late' \subseteq late \cup store
        /\ Garbage \cap store' \subseteq late'
    BY DEF RemoveGarbageObjects, RemoveFails, Garbage
  <1>3. GCTypeOK'
    BY <1>0, <1>1, <1>2, PrefixAssumption DEF GCTypeOK
  <1>4. Remembered'
    BY <1>0, <1>1 DEF Remembered
  <1>5. NothingLost'
    <2>1. store \cap m_objectsToKeep \subseteq store'
      BY <1>2 DEF Garbage
    <2>2. WholeStore(roots, store')
      BY <1>1, <2>1, Removal
    <2> QED
      BY <1>1, <2>2 DEF NothingLost
  <1>6. NothingSkipped'
    <2> SUFFICES ASSUME NEW o \in store', PrefixOf[o] < m_nextPrefixToCheck'
                 PROVE  o \in m_objectsToKeep' \cup late'
      BY DEF NothingSkipped
    <2>1. o \in store /\ PrefixOf[o] \in Nat /\ m_nextPrefixToCheck \in Nat
      BY <1>0, <1>2, PrefixAssumption DEF GCTypeOK
    <2>2. CASE PrefixOf[o] < m_nextPrefixToCheck
      BY <1>0, <1>1, <1>2, <2>1, <2>2 DEF NothingSkipped
    <2>3. CASE PrefixOf[o] = m_nextPrefixToCheck
      BY <1>1, <1>2, <2>1, <2>3 DEF Garbage
    <2> QED
      BY <1>1, <2>1, <2>2, <2>3
  <1>7. OnlyReachableKept'
    BY <1>0, <1>1 DEF OnlyReachableKept
  <1> QED
    BY <1>3, <1>4, <1>5, <1>6, <1>7 DEF GCInv

LEMMA ChangeInv ==
    ASSUME GCInv, Change
    PROVE  GCInv'
  <1>0. GCTypeOK /\ Remembered /\ NothingLost /\ NothingSkipped /\ OnlyReachableKept
    BY DEF GCInv
  <1>1. PICK R \in SUBSET CommitIds, S \in SUBSET ObjectIds : \E D \in SUBSET (store \cup S) :
          /\ R \subseteq S /\ S \subseteq D /\ Closed(S)
          /\ store' = D /\ roots' = R /\ pending' = R
          /\ late' = late \cup { o \in D \ store : PrefixOf[o] < m_nextPrefixToCheck }
    BY DEF Change
  <1>2. UNCHANGED collector /\ changes' = changes + 1 /\ runs' = runs
    BY DEF Change
  <1>3. GCTypeOK'
    BY <1>0, <1>1, <1>2 DEF GCTypeOK, collector
  <1>4. Remembered'
    BY <1>0, <1>1, <1>2 DEF Remembered, collector
  <1>5. NothingLost'
    BY <1>1 DEF NothingLost, WholeStore
  <1>6. NothingSkipped'
    BY <1>0, <1>1, <1>2 DEF NothingSkipped, collector
  <1>7. OnlyReachableKept'
    BY <1>0, <1>2 DEF OnlyReachableKept, collector
  <1> QED
    BY <1>3, <1>4, <1>5, <1>6, <1>7 DEF GCInv

LEMMA RestartInv ==
    ASSUME GCInv, Restart
    PROVE  GCInv'
  <1>0. GCTypeOK /\ NothingLost
    BY DEF GCInv
  <1>1. GCTypeOK'
    BY <1>0, PrefixAssumption DEF GCTypeOK, Restart
  <1>2. Remembered'
    BY <1>0 DEF Remembered, Restart, GCTypeOK
  <1>3. NothingLost'
    BY <1>0 DEF NothingLost, Restart
  <1>4. NothingSkipped'
    BY <1>0, PrefixAssumption DEF NothingSkipped, Restart, GCTypeOK
  <1>5. OnlyReachableKept'
    BY DEF OnlyReachableKept, Restart
  <1> QED
    BY <1>1, <1>2, <1>3, <1>4, <1>5 DEF GCInv

LEMMA GCNextInv == GCInv /\ [GCNext]_gcVars => GCInv'
  <1> SUFFICES ASSUME GCInv, [GCNext]_gcVars PROVE GCInv'
    OBVIOUS
  <1>1. CASE \E c \in CommitIds : AddCommit(c) \/ AddCommitFails(c)
    BY <1>1, TellInv
  <1>2. CASE \E t \in TreeIds : CheckObject(t) \/ CheckObjectFails(t)
    BY <1>2, CheckInv
  <1>3. CASE RemoveGarbageObjects \/ RemoveFails
    BY <1>3, RemoveInv
  <1>4. CASE Change
    BY <1>4, ChangeInv
  <1>5. CASE Restart
    BY <1>5, RestartInv
  <1>6. CASE UNCHANGED gcVars
    BY <1>6 DEF GCInv, GCTypeOK, Remembered, NothingLost, NothingSkipped, OnlyReachableKept, gcVars, collector
  <1> QED
    BY <1>1, <1>2, <1>3, <1>4, <1>5, <1>6 DEF GCNext

(* The inductive invariant holds throughout. *)
THEOREM GCInvariance == GCSpec => []GCInv
  <1> QED
    BY GCInitInv, GCNextInv, PTL DEF GCSpec

(* Every variable has its type (garbagecollector.hpp:101-106). *)
THEOREM GCTypeCorrect == GCSpec => []GCTypeOK
  <1>1. GCInv => GCTypeOK
    BY DEF GCInv
  <1> QED
    BY GCInvariance, <1>1, PTL

(* Whatever the master and snapshot commits reach stays in the store, for *)
(* every store and every interleaving of user operations, slices of the   *)
(* collector, failures and restarts (garbagecollector.cpp:101-106).       *)
THEOREM Safety == GCSpec => []NothingLost
  <1>1. GCInv => NothingLost
    BY DEF GCInv
  <1> QED
    BY GCInvariance, <1>1, PTL

(* Directories that the removal has left behind have no garbage but what was *)
(* added after that or could not be removed (garbagecollector.cpp:100, 185). *)
THEOREM Completeness == GCSpec => []NothingSkipped
  <1>1. GCInv => NothingSkipped
    BY DEF GCInv
  <1> QED
    BY GCInvariance, <1>1, PTL

(* What is kept is in every closed set of objects that has the commits: the *)
(* collector keeps only what they reach (garbagecollector.hpp:36-37).       *)
THEOREM Precision == GCSpec => []OnlyReachableKept
  <1>1. GCInv => OnlyReachableKept
    BY DEF GCInv
  <1> QED
    BY GCInvariance, <1>1, PTL
=============================================================================
