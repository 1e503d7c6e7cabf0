--------------------------- MODULE MCProcessList ---------------------------
(* Instances of ProcessList for TLC. *)
EXTENDS ProcessList

TwoPriorities == {50, 99}
=============================================================================
