--------------------------- MODULE MCObjectStore ---------------------------
(* Instances of ObjectStore for model checking. *)
EXTENDS ObjectStore, TLC

CONSTANTS x, y

DirFirst == <<"d", "f">>
TwoContents == {x, y}

\* No content is special.
ContentSymmetry == Permutations(TwoContents)
=============================================================================
