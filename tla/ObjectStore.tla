----------------------------- MODULE ObjectStore -----------------------------
(***************************************************************************)
(* server::file::ca: directories and files stored by their content.        *)
(* Objects with the same content are one object; reference counters, which *)
(* are lost when the server ends, say when it can be removed.  Each user   *)
(* operation makes a new tree up to the root, and a commit for it.         *)
(***************************************************************************)
EXTENDS Integers, Sequences, FiniteSets, SequencesExt, Functions, Lists

CONSTANTS
    Data,           \* contents of files
    Files,          \* names of files, in all directories
    Dir,            \* name of the only directory in the root
    Nested,         \* whether it can have a directory of the same name
    NameOrder,      \* sequence of all names, as a tree object has them
    Tags,           \* names of snapshots
    MaxOps, MaxStarts, \* bounds: operations, and starts of the server
    Faults          \* subset of {"crash", "error"}

Names == Files \cup {Dir}

ASSUME NamesAssumption ==
    /\ Dir \notin Files
    /\ NameOrder \in Seq(Names) /\ ToSet(NameOrder) = Names /\ IsInjective(NameOrder)
ASSUME TagsAssumption == IsFiniteSet(Tags)
ASSUME DataAssumption == Data \cap {"none", "dir"} = {}
ASSUME BoundsAssumption == MaxOps \in Nat /\ MaxStarts \in Nat /\ Nested \in BOOLEAN

VARIABLES
    disk,           \* Ids of the objects in directory "objects"
    master, tags,   \* commits in the files of directory "refs"
    torn,           \* the file of master was truncated, and not written again
    m_refCounter,   \* InternalReferenceCounter: counters of some Ids
    m_id,           \* ContentUpdater of the root and its subdirectory: its tree
    m_commitId,     \* RootUpdater: the commit of the root's tree
    todo,           \* what the operation in progress will still do
    up,             \* whether the server runs
    leaked,         \* history: an operation failed, and left counters too high
    health,         \* history: "sound"; "cut", a removal was not finished; "unsound",
                    \* the server works with counters or objects left by one
    ops, starts

memory == <<m_refCounter, m_id, m_commitId>>
refs == <<master, tags, torn>>
vars == <<disk, refs, memory, todo, up, leaked, health, ops, starts>>

Idle == up /\ todo = <<>>

----------------------------------------------------------------------------
(* Objects.  An object is its own Id.                                      *)

Nil == [type |-> "nil"]
Missing == [type |-> "missing"]
Blob(x) == [type |-> "blob", data |-> x]
Tree(E) == [type |-> "tree", entries |-> E]
Commit(t) == [type |-> "commit", tree |-> t]

\* getObject() of a tree: its entries, by name; getCommit()
NoEntries == [n \in {} |-> Nil]
Entries(t) == IF t.type = "tree" THEN t.entries ELSE NoEntries
TreeOf(c) == IF c.type = "commit" THEN c.tree ELSE Nil

\* E with id as entry n, and without n
With(E, n, id) == [k \in DOMAIN E \cup {n} |-> IF k = n THEN id ELSE E[k]]
Others(E, n) == Restrict(E, DOMAIN E \ {n})

\* Entries E as a tree object has them, and those before name n
Sorted(E) == Kept(NameOrder, DOMAIN E)
Listed(E) == [i \in DOMAIN Sorted(E) |-> E[Sorted(E)[i]]]
Position(n) == CHOOSE i \in DOMAIN NameOrder : NameOrder[i] = n
Before(E, n) == Restrict(E, { k \in DOMAIN E : Position(k) < Position(n) })

\* What an object mentions
Content(o) ==
    CASE o.type = "tree" -> Listed(o.entries)
      [] o.type = "commit" -> <<o.tree>>
      [] OTHER -> <<>>

\* The objects that commits R reach
Mentioned(S) == UNION { ToSet(Content(o)) : o \in S }
Reached(R) ==
    LET top == R \ {Nil, Missing}
        trees == Mentioned(top)
        entries == Mentioned(trees)
        nested == Mentioned(entries)
    IN  top \cup trees \cup entries \cup nested \cup Mentioned(nested)

Roots == {master} \cup Range(tags)

\* getMasterCommitId(), while master is what the file had; objects that can be read
ReadMaster == IF torn THEN Nil ELSE master
Readable(id) == id \in disk \cup {Nil}

Init ==
    /\ disk = {} /\ master = Nil /\ tags = [t \in Tags |-> Missing] /\ torn = FALSE
    /\ m_refCounter = [o \in {} |-> 0]
    /\ m_id = [root |-> Nil, sub |-> Missing] /\ m_commitId = Nil
    /\ todo = <<>>
    /\ up = TRUE
    /\ leaked = FALSE /\ health = "sound"
    /\ ops = 0 /\ starts = 1

----------------------------------------------------------------------------
(* Operations, as sequences of steps.  What a step does is below.          *)

Do(op, id) == <<[op |-> op, id |-> id]>>
All(op, ids) == [i \in DOMAIN ids |-> [op |-> op, id |-> ids[i]]]
Links(E) == All("link", Listed(E))
Unlinks(o) == All("unlink", Content(o))
Fail == Do("fail", Nil)

\* The handlers have these trees, and this commit, when the operation has succeeded.
Succeed(root, sub, commit) ==
    <<[op |-> "succeed", id |-> commit, root |-> root, sub |-> sub]>>

SubOf(root) ==
    LET E == Entries(root) IN
    IF Dir \in DOMAIN E /\ E[Dir].type = "tree" THEN E[Dir] ELSE Missing

\* Mutant: the old tree is given up before the new one is in place.
UpdateEarly(root, sub) ==
    Do("unlink", m_commitId) \o Do("add", Commit(root)) \o Do("master", Commit(root))
      \o Succeed(root, sub, Commit(root))

\* Mutant: the root keeps the commit it started with.
UpdateOnce(root, sub) ==
    Do("add", Commit(root)) \o Do("master", Commit(root)) \o Do("unlink", m_commitId)
      \o Succeed(root, sub, m_commitId)

\* Mutant: the old tree is not given up.
UpdateForgetting(root, sub) ==
    Do("add", Commit(root)) \o Do("master", Commit(root)) \o Succeed(root, sub, Commit(root))

\* RootUpdater::updateDirectoryReference()
UpdateRoot(root, sub) ==
    Do("add", Commit(root)) \o Do("master", Commit(root)) \o Do("unlink", m_commitId)
      \o Succeed(root, sub, Commit(root))

\* replaceDirectory(): new entries E of the root; sub is the subdirectory then.
ReplaceRoot(E, sub) == Do("add", Tree(E)) \o UpdateRoot(Tree(E), sub)

\* replaceDirectory(): new entries E of the subdirectory.  Its parent is updated, unless
\* that has the very tree that is to be stored (as its m_id, not as its entry).
ReplaceSub(E) ==
    LET R == Entries(m_id.root) IN
    Do("add", Tree(E))
      \o IF Tree(E) = m_id.root THEN Succeed(m_id.root, Tree(E), m_commitId)
         ELSE IF ~Readable(m_id.root) THEN Fail
         ELSE Links(Others(R, Dir)) \o ReplaceRoot(With(R, Dir, Tree(E)), Tree(E))

\* updateDirectoryEntry() with newId id
UpdateEntry(h, n, id, allowReplace) ==
    LET E == Entries(m_id[h])
        new == With(E, n, id)
    IN  IF ~Readable(m_id[h]) THEN Fail
        ELSE IF n \in DOMAIN E /\ (E[n].type # id.type \/ ~allowReplace)
        THEN Links(Before(E, n)) \o Fail
        ELSE Links(Others(E, n))
             \o IF h = "sub" THEN ReplaceSub(new)
                ELSE ReplaceRoot(new, IF n = Dir THEN SubOf(Tree(new)) ELSE m_id.sub)

\* removeDirectoryEntry(); then the directory's subdirectories are read anew.
RemoveEntry(h, n, type) ==
    LET E == Entries(m_id[h])
        new == Others(E, n)
    IN  IF ~Readable(m_id[h]) THEN Fail
        ELSE IF n \notin DOMAIN E THEN Links(E) \o Fail
        ELSE IF E[n].type # type
                \/ (type = "tree" /\ (~Readable(E[n]) \/ DOMAIN Entries(E[n]) # {}))
        THEN Links(Before(E, n)) \o Fail
        ELSE Links(new) \o IF h = "sub" THEN ReplaceSub(new)
                           ELSE ReplaceRoot(new, SubOf(Tree(new)))

\* updateCommitId() of a snapshot, and removeSnapshot()
SetTag(t, id) == <<[op |-> "tag", id |-> id, tag |-> t]>>
UnlinkTag(t) == IF tags[t] = Missing THEN <<>> ELSE Do("unlink", tags[t])
UpdateTag(t, id) == Do("link", id) \o SetTag(t, id) \o UnlinkTag(t)

----------------------------------------------------------------------------
(* User operations.                                                        *)

Handlers == IF m_id.sub = Missing THEN {"root"} ELSE {"root", "sub"}
NamesIn(h) == IF h = "root" \/ Nested THEN Names ELSE Files

\* An operation after a removal that was not finished works with what that left.
Begin(steps) ==
    /\ Idle /\ ops < MaxOps
    /\ todo' = steps /\ ops' = ops + 1
    /\ health' = IF health = "sound" THEN health ELSE "unsound"
    /\ UNCHANGED <<disk, refs, memory, up, leaked, starts>>

CreateFile(h, n, x) == Begin(Do("add", Blob(x)) \o UpdateEntry(h, n, Blob(x), TRUE))

\* The source has been looked up before.
CopyFile(h, n, g, k) ==
    LET E == Entries(m_id[g]) IN
    /\ k \in DOMAIN E /\ E[k].type = "blob"
    /\ Begin(Do("link", E[k]) \o UpdateEntry(h, n, E[k], TRUE))

CreateDirectory(h) ==
    /\ Dir \in NamesIn(h)
    /\ Begin(Do("add", Tree(NoEntries)) \o UpdateEntry(h, Dir, Tree(NoEntries), FALSE))

RemoveFile(h, n) == Begin(RemoveEntry(h, n, "blob"))
RemoveDirectory(h) == Dir \in NamesIn(h) /\ Begin(RemoveEntry(h, Dir, "tree"))

CreateSnapshot(t) == Begin(UpdateTag(t, ReadMaster))
CopySnapshot(t, u) == tags[t] # Missing /\ Begin(UpdateTag(u, tags[t]))
RemoveSnapshot(t) == tags[t] # Missing /\ Begin(SetTag(t, Missing) \o UnlinkTag(t))

----------------------------------------------------------------------------
(* Steps. *)

At(op) == up /\ todo # <<>> /\ Head(todo).op = op
This == Head(todo).id
Tracked(id) == id \in DOMAIN m_refCounter
Unchanged == UNCHANGED <<refs, m_id, m_commitId, up, leaked, health, ops, starts>>

\* addObject() of new content, ...
AddNew ==
    /\ At("add") /\ This \notin disk
    /\ disk' = disk \cup {This}
    /\ m_refCounter' = With(m_refCounter, This, 1)
    /\ todo' = Tail(todo)
    /\ Unchanged

\* Mutant: what the caller linked for a new object stays linked.
AddLinked ==
    /\ At("add") /\ This \in disk
    /\ todo' = Do("link", This) \o Tail(todo)
    /\ UNCHANGED <<disk, m_refCounter>> /\ Unchanged

\* ... and of content that exists
AddExisting ==
    /\ At("add") /\ This \in disk
    /\ todo' = Unlinks(This) \o Do("link", This) \o Tail(todo)
    /\ UNCHANGED <<disk, m_refCounter>> /\ Unchanged

Link ==
    /\ At("link")
    /\ m_refCounter' = IF Tracked(This) THEN [m_refCounter EXCEPT ![This] = @ + 1]
                       ELSE m_refCounter
    /\ todo' = Tail(todo)
    /\ UNCHANGED disk /\ Unchanged

\* unlinkObject(): the counter is unknown, or remains positive, ...
Unlink ==
    /\ At("unlink")
    /\ Tracked(This) => m_refCounter[This] # 1
    /\ m_refCounter' = IF Tracked(This) THEN [m_refCounter EXCEPT ![This] = @ - 1]
                       ELSE m_refCounter
    /\ todo' = Tail(todo)
    /\ UNCHANGED disk /\ Unchanged

\* ... or the object goes, after what it mentions.
AtLast == At("unlink") /\ Tracked(This) /\ m_refCounter[This] = 1

UnlinkLast ==
    /\ AtLast
    /\ This.type = "blob" \/ This \in disk
    /\ m_refCounter' = Restrict(m_refCounter, DOMAIN m_refCounter \ {This})
    /\ todo' = Unlinks(This) \o Do("erase", This) \o Tail(todo)
    /\ UNCHANGED disk /\ Unchanged

Erase ==
    /\ At("erase") /\ This \in disk
    /\ disk' = disk \ {This}
    /\ todo' = Tail(todo)
    /\ UNCHANGED m_refCounter /\ Unchanged

\* A file in directory "refs" is written, or removed.
WriteRef ==
    /\ \/ At("master") /\ master' = This /\ torn' = FALSE /\ tags' = tags
       \/ /\ At("tag") /\ tags' = [tags EXCEPT ![Head(todo).tag] = This]
          /\ UNCHANGED <<master, torn>>
    /\ todo' = Tail(todo)
    /\ UNCHANGED <<disk, memory, up, leaked, health, ops, starts>>

End ==
    /\ At("succeed")
    /\ m_id' = [root |-> Head(todo).root, sub |-> Head(todo).sub] /\ m_commitId' = This
    /\ todo' = <<>>
    /\ UNCHANGED <<disk, refs, m_refCounter, up, leaked, health, ops, starts>>

----------------------------------------------------------------------------
(* Failures.  File operations fail if there are "error"s (bound: when none *)
(* has failed since the start), or if the object is missing.               *)

Failure == "error" \in Faults /\ ~leaked

\* createFile() truncates before it writes: a snapshot whose file is empty is missing.
TornTags == IF At("tag") THEN [tags EXCEPT ![Head(todo).tag] = Missing] ELSE tags

\* An exception ends the operation: a precondition is not met; a directory that is to be
\* linked again, an object or a reference cannot be read or written, and the file of the
\* reference may be truncated; ...
Exception ==
    /\ At("fail") \/ (Failure /\ \E op \in {"link", "add", "master", "tag"} : At(op))
    /\ \/ UNCHANGED refs
       \/ At("master") /\ torn' = TRUE /\ UNCHANGED <<master, tags>>
       \/ At("tag") /\ This # Missing /\ tags' = TornTags /\ UNCHANGED <<master, torn>>
    /\ todo' = <<>> /\ leaked' = TRUE
    /\ UNCHANGED <<disk, memory, up, health, ops, starts>>

\* ... or an object that is given up cannot be read, so that what it mentions remains
\* linked, or its file not be removed, when what it mentions has been given up already.
\* The caller then does not take over the new tree.
RemovalFails ==
    /\ \/ /\ AtLast /\ This.type # "blob" /\ (Failure \/ This \notin disk)
          /\ m_refCounter' = Restrict(m_refCounter, DOMAIN m_refCounter \ {This})
       \/ At("erase") /\ (Failure \/ This \notin disk) /\ UNCHANGED m_refCounter
    /\ todo' = <<>> /\ leaked' = TRUE
    /\ health' = IF health = "sound" THEN "cut" ELSE health
    /\ UNCHANGED <<disk, refs, m_id, m_commitId, up, ops, starts>>

\* addObject() takes an object whose file cannot be opened for a new one.
Overlook ==
    /\ At("add") /\ This \in disk /\ Failure
    /\ m_refCounter' = With(m_refCounter, This, 1)
    /\ todo' = Tail(todo) /\ leaked' = TRUE
    /\ health' = "unsound"
    /\ UNCHANGED <<disk, refs, m_id, m_commitId, up, ops, starts>>

----------------------------------------------------------------------------
(* The server ends and starts.                                             *)

\* It ends regularly, or crashes during an operation, also while it writes a reference.
\* What an unsound one leaves behind is sound if references reach nothing that is missing.
Stop ==
    /\ up
    /\ Idle \/ "crash" \in Faults
    /\ \/ master' = ReadMaster /\ tags' = tags
       \/ At("master") /\ master' = Nil /\ tags' = tags
       \/ At("tag") /\ This # Missing /\ master' = ReadMaster /\ tags' = TornTags
    /\ torn' = FALSE
    /\ up' = FALSE /\ todo' = <<>>
    /\ m_refCounter' = [o \in {} |-> 0]
    /\ m_id' = [root |-> Nil, sub |-> Missing] /\ m_commitId' = Nil
    /\ health' = IF health = "unsound" /\ ~(Reached(Roots') \subseteq disk)
                 THEN "unsound" ELSE "sound"
    /\ UNCHANGED <<disk, leaked, ops, starts>>

\* Garbage collection at the start, if it is wanted, refuses to work without all trees.
Collectable == \A o \in Reached(Roots) \ disk : o.type = "blob"

\* Without it, an object that was not removed but mentions removed ones may be found.
Start(collect) ==
    /\ ~up /\ starts < MaxStarts
    /\ Readable(master) /\ (collect => Collectable)
    /\ disk' = IF collect THEN disk \cap Reached(Roots) ELSE disk
    /\ m_commitId' = master
    /\ m_id' = [root |-> TreeOf(master), sub |-> SubOf(TreeOf(master))]
    /\ up' = TRUE /\ leaked' = FALSE
    /\ health' = IF collect \/ Mentioned(disk) \subseteq disk THEN health ELSE "unsound"
    /\ starts' = starts + 1
    /\ UNCHANGED <<refs, m_refCounter, todo, ops>>

\* The garbage collection does not finish.
StartCrashes ==
    /\ ~up /\ "crash" \in Faults
    /\ Collectable
    /\ \E o \in disk \ Reached(Roots) : disk' = disk \ {o}
    /\ UNCHANGED <<refs, memory, todo, up, leaked, health, ops, starts>>

Next ==
    \/ \E h \in Handlers : \E n \in NamesIn(h) :
         \/ \E x \in Data : CreateFile(h, n, x)
         \/ \E g \in Handlers : \E k \in Files : CopyFile(h, n, g, k)
         \/ RemoveFile(h, n)
    \/ \E h \in Handlers : CreateDirectory(h) \/ RemoveDirectory(h)
    \/ \E t \in Tags : CreateSnapshot(t) \/ RemoveSnapshot(t)
    \/ \E t, u \in Tags : CopySnapshot(t, u)
    \/ AddNew \/ AddExisting \/ Link \/ Unlink \/ UnlinkLast \/ Erase
    \/ WriteRef \/ End \/ Exception \/ RemovalFails \/ Overlook
    \/ Stop \/ StartCrashes \/ \E collect \in BOOLEAN : Start(collect)

Spec == Init /\ [][Next]_vars

----------------------------------------------------------------------------
(* Properties. *)

\* Every variable has its type.
TypeOK ==
    /\ \A o \in disk : o.type \in {"blob", "tree", "commit"}
    /\ master.type \in {"nil", "commit"}
    /\ \A t \in Tags : tags[t].type \in {"nil", "missing", "commit"}
    /\ \A o \in DOMAIN m_refCounter : m_refCounter[o] \in Nat \ {0}
    /\ m_id.root.type \in {"nil", "tree"} /\ m_id.sub.type \in {"missing", "tree"}
    /\ m_commitId.type \in {"nil", "commit"}
    /\ {torn, up, leaked} \subseteq BOOLEAN /\ health \in {"sound", "cut", "unsound"}

\* The places at which objects S mention id; all mentions of id
Places(o, id) == { i \in DOMAIN Content(o) : Content(o)[i] = id }
Mentions(S, id) == UNION { {o} \X Places(o, id) : o \in S }
Count(id) ==
    Cardinality(Mentions(disk, id)) + Cardinality({ t \in Tags : tags[t] = id })
      + IF master = id THEN 1 ELSE 0

\* Between operations of a sound server, a counter that is known says how often the object
\* is mentioned by objects and by references, although equal objects are shared, counters
\* are lost when the server ends, and trees are linked before it turns out that they exist;
\* it is never too low, and too high only after a failed operation (objectstore.cpp:207-212).
CountersExact ==
    /\ TypeOK
    /\ Idle /\ health = "sound" =>
          \A id \in DOMAIN m_refCounter :
             /\ id \in disk
             /\ \/ m_refCounter[id] = Count(id)
                \/ leaked /\ m_refCounter[id] > Count(id)

\* What the server itself stored, and no longer uses, it has removed: between operations,
\* each object with a counter is in use, unless an operation failed (objects without one
\* remain until the next garbage collection; objectstore.hpp:36-40).
NoGarbage == Idle /\ ~leaked /\ health = "sound" => DOMAIN m_refCounter \subseteq Reached(Roots)

\* Between operations of a sound server, master is the tree that users see and work with: a
\* change of a directory arrives in its parent and the root, and one that fails does not
\* arrive in some of them (referenceupdater.hpp:14-16).
StoredCurrent ==
    Idle /\ health = "sound" =>
       /\ m_commitId = master
       /\ m_id.root = TreeOf(master)
       /\ m_id.sub = SubOf(m_id.root)

\* What the store promises, FileTree: with master and snapshots read through the objects
\* that are stored, each operation has its effect at once or not at all; failures, crashes,
\* restarts and garbage collection have none, except on the tree while its reference is being
\* written or was not written to the end, and on a snapshot whose reference is being written
\* (filesystemhandler.cpp:55).  An unsound server promises nothing any more.
Look(E, n) == IF n \notin DOMAIN E THEN "none"
              ELSE IF E[n].type = "blob" THEN E[n].data ELSE "dir"
Paths == { <<n>> : n \in Names } \cup { <<Dir, n>> : n \in NamesIn("sub") }
Read(c) ==
    IF ~(Reached({c}) \subseteq disk) THEN [p \in Paths |-> "lost"]
    ELSE LET E == Entries(TreeOf(c)) IN
         [p \in Paths |-> IF Len(p) = 1 THEN Look(E, p[1])
                          ELSE Look(Entries(SubOf(TreeOf(c))), p[2])]

Files_and_Snapshots == INSTANCE FileTree WITH
    files <- Read(master),
    unreadable <- torn,
    snaps <- [t \in Tags |-> IF tags[t] = Missing THEN [p \in Paths |-> "absent"]
                             ELSE Read(tags[t])]

Promised ==
    /\ Files_and_Snapshots!Init
    /\ [][\/ Files_and_Snapshots!Next
          \/ /\ \/ Files_and_Snapshots!SameFiles
                \/ Files_and_Snapshots!DamageFiles /\ (At("master") \/ torn)
             /\ \/ Files_and_Snapshots!SameSnapshots
                \/ Files_and_Snapshots!DamageSnapshot /\ At("tag")
          \/ health' = "unsound"]_(Files_and_Snapshots!vars)

\* "If we create an object anew, we can set the reference counter safely"
\* (referencecounter.hpp:22): what references reach is stored, whatever is created anew.
Complete == Reached(Roots) \subseteq disk

\* Master "represents the current status" (root.hpp:35): between operations its tree is
\* that of the root directory.
RootCurrent == Idle /\ ~torn => m_id.root = TreeOf(master)
=============================================================================
