----------------------------- MODULE MCHostCron -----------------------------
(* Instances of HostCron for model checking. *)
EXTENDS HostCron

NoGame == {}
OneGame == {1}
TwoGames == {1, 2}

(* Kept() does what its recursive definition is meant to do. *)
ASSUME KeptSelects ==
    \A n \in 0..4 : \A s \in [1..n -> 1..3], K \in SUBSET (1..3) :
        Kept(s, K) = SelectSeq(s, LAMBDA x : x \in K)

=============================================================================
