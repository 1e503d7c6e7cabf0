-------------------------- MODULE MCSessionRouter --------------------------
(* Instances of SessionRouter for model checking. *)
EXTENDS SessionRouter

CONSTANTS s1, s2, s3

TwoIds == {s1, s2}
ThreeIds == {s1, s2, s3}
IdSymmetry == Permutations(Ids)

OneDir == {"d"}
TwoDirs == {"d", "e"}
Modes == { f \in [Dirs -> {"W", "R", ""}] : \E d \in Dirs : f[d] # "" }

\* Sessions that write both directories or one
Writers == {[d |-> "W", e |-> "W"], [d |-> "", e |-> "W"]}
=============================================================================
