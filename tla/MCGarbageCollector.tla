------------------------ MODULE MCGarbageCollector ------------------------
(* An instance of GarbageCollector for model checking. *)
EXTENDS GarbageCollector, TLC

\* A directory with a file and a subdirectory, which the other version moved to the top.
MCCommits == {"c1", "c2"}
MCTrees == {"t", "u"}
MCBlobs == {"b", "x"}
MCChild == "c1" :> {"t"} @@ "c2" :> {"u"} @@ "t" :> {"u", "b"} @@ "u" :> {"x"}
MCPrefixOf == [o \in ObjectIds |-> IF o \in {"c1", "u", "b"} THEN 0 ELSE 1]
=============================================================================
