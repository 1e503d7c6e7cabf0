------------------------------- MODULE Lists -------------------------------
(***************************************************************************)
(* Lists whose entries are removed by their value, as a recursive function *)
(* about which facts can be proved (ListLemmas), and whose entries are     *)
(* counted by their kind.                                                  *)
(***************************************************************************)
EXTENDS Sequences, Integers, FiniteSets

\* What std::list::remove() and remove_if() leave when they remove what is not
\* in K: the other entries of s, in their order.
Kept(s, K) ==
    LET prefix[n \in 0..Len(s)] ==
            IF n = 0 THEN <<>>
            ELSE IF s[n] \in K THEN Append(prefix[n-1], s[n]) ELSE prefix[n-1]
    IN  prefix[Len(s)]

\* How many entries of s are in M
Number(s, M) == Cardinality({ i \in DOMAIN s : s[i] \in M })
=============================================================================
