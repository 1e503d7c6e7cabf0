----------------------------- MODULE ListLemmas -----------------------------
(***************************************************************************)
(* What Lists!Kept returns. The recursive function is unfolded with an     *)
(* induction over a set of numbers, which follows from the well-           *)
(* foundedness of < on the natural numbers.  Then, lists without           *)
(* duplicates: what changing them does to their sets of entries; sums;     *)
(* and queues: how many entries are of a kind, and which precede which.    *)
(***************************************************************************)
EXTENDS Lists, SequencesExt, SequenceTheorems, WellFoundedInduction, FiniteSetTheorems,
        TLAPS

\* Induction on the natural numbers for a set instead of an operator: the
\* least number outside of S would have a predecessor in S.
LEMMA Induction ==
    ASSUME NEW S, 0 \in S, \A n \in Nat : n \in S => n + 1 \in S
    PROVE  Nat \subseteq S
<1> DEFINE T == Nat \ S
<1> SUFFICES ASSUME T # {} PROVE FALSE
  OBVIOUS
<1>1. PICK x \in T : \A y \in T : <<y, x>> \notin OpToRel(<, Nat)
  <2>1. T \subseteq Nat
    OBVIOUS
  <2>2. QED
    BY <2>1, NatLessThanWellFounded, WFMin
<1>2. \A y \in T : ~(y < x)
  BY <1>1 DEF OpToRel
<1>3. x # 0 /\ x \in Nat
  OBVIOUS
<1>4. x - 1 \in Nat /\ x - 1 \in S
  BY <1>2, <1>3
<1>5. (x - 1) + 1 \in S
  BY <1>4
<1> QED
  BY <1>3, <1>5

\* The n-th value of the function in the definition of Kept, from the values
\* F before it.
Step(s, K, F, n) == IF n = 0 THEN <<>>
            ELSE IF s[n] \in K THEN Append(F[n-1], s[n]) ELSE F[n-1]

\* f gives for each entry of r its place among the first n entries of s: r
\* consists of the entries that are in K, in their order.
Selects(f, r, s, K, n) ==
    /\ f \in [1..Len(r) -> 1..n]
    /\ \A i, j \in 1..Len(r) : i < j => f[i] < f[j]
    /\ \A i \in 1..Len(r) : r[i] = s[f[i]]
    /\ \A j \in 1..n : s[j] \in K => \E i \in 1..Len(r) : f[i] = j

\* The recursive function in the definition of Kept exists.
LEMMA PrefixesExist ==
    ASSUME NEW S, NEW s \in Seq(S), NEW K
    PROVE  \E F : F = [n \in 0..Len(s) |-> Step(s, K, F, n)]
<1> DEFINE Good == { m \in Nat : \E F : F = [n \in 0..m |-> Step(s, K, F, n)] }
<1>1. 0 \in Good
  <2> DEFINE F == [n \in 0..0 |-> <<>>]
  <2>1. F = [n \in 0..0 |-> Step(s, K, F, n)]
    BY DEF Step
  <2>. QED
    BY <2>1
<1>2. ASSUME NEW m \in Nat, m \in Good PROVE m + 1 \in Good
  <2>1. PICK F : F = [n \in 0..m |-> Step(s, K, F, n)]
    BY <1>2
  <2> DEFINE H == [n \in 0..(m+1) |-> IF n = m + 1 THEN Step(s, K, F, n) ELSE F[n]]
  <2>2. \A n \in 0..(m+1) : H[n] = Step(s, K, H, n)
    <3> SUFFICES ASSUME NEW n \in 0..(m+1) PROVE H[n] = Step(s, K, H, n)
      OBVIOUS
    <3>1. H[n] = Step(s, K, F, n)
      BY <2>1
    <3>2. n # 0 => H[n-1] = F[n-1]
      OBVIOUS
    <3> HIDE DEF H
    <3>. QED
      BY <3>1, <3>2 DEF Step
  <2>3. H = [n \in 0..(m+1) |-> Step(s, K, H, n)]
    <3>1. H = [n \in 0..(m+1) |-> H[n]]
      OBVIOUS
    <3> HIDE DEF H
    <3>. QED
      BY <2>2, <3>1, Zenon
  <2> HIDE DEF H
  <2>. QED
    BY <2>3
<1>3. Len(s) \in Good
  <2> HIDE DEF Good
  <2>. QED
    BY <1>1, <1>2, Induction
<1>. QED
  BY <1>3

\* One more entry that is in K is selected.
LEMMA SelectOneMore ==
    ASSUME NEW S, NEW r \in Seq(S), NEW s, NEW K, NEW n \in Nat, NEW f, Selects(f, r, s, K, n)
    PROVE  \E g : Selects(g, Append(r, s[n+1]), s, K, n + 1)
<1> DEFINE l == Len(r)
           t == Append(r, s[n+1])
           g == [i \in 1..(l+1) |-> IF i = l + 1 THEN n + 1 ELSE f[i]]
<1>1. l \in Nat /\ Len(t) = l + 1
  OBVIOUS
<1>2. /\ \A i \in 1..l : t[i] = r[i]
      /\ t[l+1] = s[n+1]
  OBVIOUS
<1>3. /\ f \in [1..l -> 1..n]
      /\ \A i, j \in 1..l : i < j => f[i] < f[j]
      /\ \A i \in 1..l : r[i] = s[f[i]]
      /\ \A j \in 1..n : s[j] \in K => \E i \in 1..l : f[i] = j
  BY DEF Selects
<1> HIDE DEF l, t
<1>4. \A i \in 1..l : g[i] = f[i] /\ f[i] \in 1..n
  BY <1>1, <1>3
<1>5. g[l+1] = n + 1
  BY <1>1
<1>6. g \in [1..(l+1) -> 1..(n+1)]
  BY <1>1, <1>3
<1> HIDE DEF g
<1>7. \A i \in 1..(l+1) : t[i] = s[g[i]]
  BY <1>1, <1>2, <1>3, <1>4, <1>5
<1>8. \A i, j \in 1..(l+1) : i < j => g[i] < g[j]
  BY <1>1, <1>3, <1>4, <1>5
<1>9. ASSUME NEW j \in 1..(n+1), s[j] \in K PROVE \E i \in 1..(l+1) : g[i] = j
  <2>1. CASE j = n + 1
    BY <1>1, <1>5, <2>1
  <2>2. CASE j # n + 1
    <3>1. PICK i \in 1..l : f[i] = j
      BY <1>3, <1>9, <2>2
    <3>2. i \in 1..(l+1) /\ g[i] = j
      BY <1>1, <1>4, <3>1
    <3>. QED
      BY <3>2
  <2>. QED
    BY <2>1, <2>2
<1>10. Selects(g, t, s, K, n + 1)
  BY <1>1, <1>6, <1>7, <1>8, <1>9 DEF Selects
<1>. QED
  BY <1>10 DEF t

\* What std::list::remove(), or a loop that erases entries, leaves of a list:
\* the other entries, all of them, in their order.
LEMMA KeptFacts ==
    ASSUME NEW S, NEW s \in Seq(S), NEW K
    PROVE  /\ Kept(s, K) \in Seq(S \cap K)
           /\ \E f : Selects(f, Kept(s, K), s, K, Len(s))
<1> DEFINE F == CHOOSE F : F = [n \in 0..Len(s) |-> IF n = 0 THEN <<>>
            ELSE IF s[n] \in K THEN Append(F[n-1], s[n]) ELSE F[n-1]]
<1>1. Kept(s, K) = F[Len(s)]
  BY Zenon DEF Kept
<1>2. F = [n \in 0..Len(s) |-> Step(s, K, F, n)]
  <2>1. \E G : G = [n \in 0..Len(s) |-> IF n = 0 THEN <<>>
            ELSE IF s[n] \in K THEN Append(G[n-1], s[n]) ELSE G[n-1]]
    <3>1. \E G : G = [n \in 0..Len(s) |-> Step(s, K, G, n)]
      BY PrefixesExist
    <3>. QED
      BY <3>1 DEF Step
  <2>2. F = [n \in 0..Len(s) |-> IF n = 0 THEN <<>>
            ELSE IF s[n] \in K THEN Append(F[n-1], s[n]) ELSE F[n-1]]
    BY <2>1, Zenon
  <2> HIDE DEF F
  <2>. QED
    BY <2>2, Zenon DEF Step
<1> HIDE DEF F
<1> DEFINE Good == { n \in Nat : n <= Len(s) => /\ F[n] \in Seq(S \cap K)
                                                /\ \E f : Selects(f, F[n], s, K, n) }
<1>3. 0 \in Good
  <2>1. F[0] = <<>>
    BY <1>2 DEF Step
  <2> DEFINE f == [i \in 1..0 |-> 0]
  <2>2. Selects(f, <<>>, s, K, 0)
    BY DEF Selects
  <2>3. <<>> \in Seq(S \cap K)
    OBVIOUS
  <2> HIDE DEF f
  <2>. QED
    BY <2>1, <2>2, <2>3
<1>4. ASSUME NEW n \in Nat, n \in Good PROVE n + 1 \in Good
  <2> SUFFICES ASSUME n + 1 <= Len(s)
               PROVE  F[n+1] \in Seq(S \cap K) /\ \E f : Selects(f, F[n+1], s, K, n+1)
    OBVIOUS
  <2>1. F[n] \in Seq(S \cap K)
    BY <1>4
  <2>2. PICK f : Selects(f, F[n], s, K, n)
    BY <1>4
  <2>3. F[n+1] = IF s[n+1] \in K THEN Append(F[n], s[n+1]) ELSE F[n]
    <3>1. n + 1 \in 0..Len(s) /\ n + 1 # 0 /\ (n + 1) - 1 = n
      OBVIOUS
    <3>2. F[n+1] = Step(s, K, F, n + 1)
      BY <1>2, <3>1
    <3>. QED
      BY <3>1, <3>2 DEF Step
  <2>4. CASE s[n+1] \notin K
    BY <2>1, <2>2, <2>3, <2>4 DEF Selects
  <2>5. CASE s[n+1] \in K
    <3>1. s[n+1] \in S \cap K
      BY <2>5
    <3>2. Append(F[n], s[n+1]) \in Seq(S \cap K)
      BY <2>1, <3>1
    <3>. QED
      BY <2>1, <2>2, <2>3, <2>5, <3>2, SelectOneMore
  <2>. QED
    BY <2>4, <2>5
<1>5. Len(s) \in Good
  <2> HIDE DEF Good
  <2>. QED
    BY <1>3, <1>4, Induction
<1>. QED
  BY <1>1, <1>5

-----------------------------------------------------------------------------
(* Lists of different entries. *)

\* What remains of a list of different entries is one.
LEMMA KeptList ==
    ASSUME NEW S, NEW list \in Seq(S), IsInjective(list), NEW K
    PROVE  LET t == Kept(list, K) IN
           /\ t \in Seq(S) /\ IsInjective(t) /\ Len(t) <= Len(list)
           /\ ToSet(t) = ToSet(list) \cap K
<1> DEFINE t == Kept(list, K)
<1>1. t \in Seq(S \cap K) /\ t \in Seq(S)
  <2>1. t \in Seq(S \cap K)
    BY KeptFacts
  <2> HIDE DEF t
  <2>2. \A i \in 1..Len(t) : t[i] \in S
    BY <2>1
  <2>. QED
    BY <2>1, <2>2
<1>2. PICK f : Selects(f, t, list, K, Len(list))
  BY KeptFacts
<1>3. /\ f \in [1..Len(t) -> 1..Len(list)]
      /\ \A i, j \in 1..Len(t) : i < j => f[i] < f[j]
      /\ \A i \in 1..Len(t) : t[i] = list[f[i]]
      /\ \A j \in 1..Len(list) : list[j] \in K => \E i \in 1..Len(t) : f[i] = j
  BY <1>2 DEF Selects
<1>4. /\ Len(t) \in Nat /\ DOMAIN t = 1..Len(t) /\ Len(list) \in Nat /\ DOMAIN list = 1..Len(list)
      /\ \A i \in DOMAIN t : t[i] \in K
  BY <1>1
<1> HIDE DEF t
<1>5. \A i, j \in 1..Len(t) : f[i] = f[j] => i = j
  <2> SUFFICES ASSUME NEW i \in 1..Len(t), NEW j \in 1..Len(t), f[i] = f[j] PROVE i = j
    OBVIOUS
  <2>1. f[i] \in Int /\ ~(f[i] < f[j]) /\ ~(f[j] < f[i])
    BY <1>3, <1>4
  <2>2. ~(i < j) /\ ~(j < i)
    BY <1>3, <2>1
  <2>. QED
    BY <2>2
<1>6. IsInjective(t)
  <2> SUFFICES ASSUME NEW i \in 1..Len(t), NEW j \in 1..Len(t), t[i] = t[j] PROVE i = j
    BY <1>4 DEF IsInjective
  <2>1. f[i] \in DOMAIN list /\ f[j] \in DOMAIN list /\ list[f[i]] = list[f[j]]
    BY <1>3, <1>4
  <2>. QED
    BY <1>5, <2>1 DEF IsInjective
<1>7. Len(t) <= Len(list)
  <2>1. f \in Injection(1..Len(t), 1..Len(list))
    BY <1>3, <1>4, <1>5 DEF Injection, IsInjective
  <2>2. IsFiniteSet(1..Len(list)) /\ Cardinality(1..Len(list)) = Len(list) /\ Cardinality(1..Len(t)) = Len(t)
    <3>1. 1 \in Int /\ Len(t) \in Int /\ Len(list) \in Int
      BY <1>4
    <3>2. /\ IsFiniteSet(1..Len(list))
          /\ Cardinality(1..Len(list)) = IF 1 > Len(list) THEN 0 ELSE Len(list) - 1 + 1
          /\ Cardinality(1..Len(t)) = IF 1 > Len(t) THEN 0 ELSE Len(t) - 1 + 1
      BY <3>1, FS_Interval
    <3>. QED
      BY <1>4, <3>2
  <2>. QED
    BY <2>1, <2>2, FS_Injection
<1>8. ToSet(t) = ToSet(list) \cap K
  <2>1. \A i \in 1..Len(t) : t[i] \in ToSet(list) /\ t[i] \in K
    BY <1>3, <1>4 DEF ToSet
  <2>2. ASSUME NEW j \in 1..Len(list), list[j] \in K PROVE list[j] \in ToSet(t)
    BY <1>3, <1>4, <2>2 DEF ToSet
  <2>. QED
    BY <1>4, <2>1, <2>2 DEF ToSet
<1>. QED
  BY <1>1, <1>6, <1>7, <1>8 DEF t

\* Such a list is as long as the set of its entries is large.
LEMMA DistinctCardinality ==
    ASSUME NEW S, NEW list \in Seq(S), IsInjective(list)
    PROVE  IsFiniteSet(ToSet(list)) /\ Cardinality(ToSet(list)) = Len(list)
<1>1. Len(list) \in Nat /\ DOMAIN list = 1..Len(list) /\ list \in [1..Len(list) -> ToSet(list)]
  BY DEF ToSet
<1>2. list \in Bijection(1..Len(list), ToSet(list))
  <2>1. list \in Injection(1..Len(list), ToSet(list))
    BY <1>1 DEF Injection, IsInjective
  <2>2. \A x \in ToSet(list) : \E i \in 1..Len(list) : list[i] = x
    BY <1>1 DEF ToSet
  <2>3. list \in Surjection(1..Len(list), ToSet(list))
    BY <1>1, <2>2 DEF Surjection
  <2>. QED
    BY <2>1, <2>3 DEF Bijection
<1>3. IsFiniteSet(1..Len(list)) /\ Cardinality(1..Len(list)) = Len(list)
  <2>1. 1 \in Int /\ Len(list) \in Int
    BY <1>1
  <2>2. /\ IsFiniteSet(1..Len(list))
        /\ Cardinality(1..Len(list)) = IF 1 > Len(list) THEN 0 ELSE Len(list) - 1 + 1
    BY <2>1, FS_Interval
  <2>. QED
    BY <1>1, <2>2
<1>4. Cardinality(1..Len(list)) = Cardinality(ToSet(list)) /\ IsFiniteSet(ToSet(list))
  <2>1. ExistsBijection(1..Len(list), ToSet(list))
    BY <1>2 DEF ExistsBijection
  <2>. QED
    BY <1>3, <2>1, FS_Bijection
<1>. QED
  BY <1>3, <1>4

\* Removing one entry.
LEMMA RemovedOne ==
    ASSUME NEW S, NEW list \in Seq(S), IsInjective(list), NEW x \in ToSet(list)
    PROVE  LET t == Kept(list, S \ {x}) IN
           /\ t \in Seq(S) /\ IsInjective(t)
           /\ ToSet(t) = ToSet(list) \ {x}
           /\ Len(t) = Len(list) - 1
<1> DEFINE t == Kept(list, S \ {x})
<1>1. t \in Seq(S) /\ IsInjective(t) /\ ToSet(t) = ToSet(list) \cap (S \ {x})
  BY KeptList
<1> HIDE DEF t
<1>2. ToSet(list) \subseteq S
  BY DEF ToSet
<1>3. ToSet(t) = ToSet(list) \ {x}
  BY <1>1, <1>2
<1>4. /\ IsFiniteSet(ToSet(list)) /\ Cardinality(ToSet(list)) = Len(list)
      /\ Cardinality(ToSet(t)) = Len(t)
  BY <1>1, DistinctCardinality
<1>5. Cardinality(ToSet(list) \ {x}) = Cardinality(ToSet(list)) - 1
  BY <1>4, FS_RemoveElement
<1>. QED
  BY <1>1, <1>3, <1>4, <1>5 DEF t

\* Adding one entry.
LEMMA AppendOne ==
    ASSUME NEW S, NEW list \in Seq(S), NEW x \in S
    PROVE  LET t == Append(list, x) IN
           /\ t \in Seq(S) /\ t # <<>> /\ Len(t) = Len(list) + 1
           /\ (\A i \in 1..Len(list) : t[i] = list[i]) /\ t[Len(list) + 1] = x
           /\ ToSet(t) = ToSet(list) \cup {x}
           /\ list # <<>> => Head(t) = Head(list)
           /\ IsInjective(list) /\ x \notin ToSet(list) => IsInjective(t)
<1> DEFINE t == Append(list, x)
           l == Len(list)
<1>1. l \in Nat /\ DOMAIN list = 1..l
  OBVIOUS
<1>2. t \in Seq(S) /\ t # <<>> /\ Len(t) = l + 1 /\ DOMAIN t = 1..(l + 1)
  <2>1. t \in Seq(S) /\ Len(t) = l + 1
    OBVIOUS
  <2>2. t # <<>>
    BY <1>1, <2>1
  <2>3. DOMAIN t = 1..(l + 1)
    BY <1>1, <2>1
  <2>. QED
    BY <2>1, <2>2, <2>3
<1>3. (\A i \in 1..l : t[i] = list[i]) /\ t[l + 1] = x
  OBVIOUS
<1>4. list # <<>> => Head(t) = Head(list)
  <2>1. list # <<>> => 1 \in 1..l /\ Head(list) = list[1]
    OBVIOUS
  <2>2. Head(t) = t[1]
    BY <1>2
  <2>. QED
    BY <1>3, <2>1, <2>2
<1> HIDE DEF t, l
<1>5. ToSet(t) = ToSet(list) \cup {x}
  BY <1>1, <1>2, <1>3 DEF ToSet
<1>6. ASSUME IsInjective(list), x \notin ToSet(list) PROVE IsInjective(t)
  <2>1. \A i, j \in 1..l : list[i] = list[j] => i = j
    BY <1>1, <1>6 DEF IsInjective
  <2>2. \A i \in 1..l : list[i] # x
    BY <1>1, <1>6 DEF ToSet
  <2>3. ASSUME NEW i \in 1..(l + 1), NEW j \in 1..(l + 1), t[i] = t[j] PROVE i = j
    <3>1. (i \in 1..l \/ i = l + 1) /\ (j \in 1..l \/ j = l + 1)
      BY <1>1
    <3>. QED
      BY <1>3, <2>1, <2>2, <2>3, <3>1
  <2>. QED
    BY <1>2, <2>3 DEF IsInjective
<1>. QED
  BY <1>2, <1>3, <1>4, <1>5, <1>6 DEF t, l

\* Adding a list.
LEMMA Concatenated ==
    ASSUME NEW S, NEW a \in Seq(S), NEW b \in Seq(S)
    PROVE  LET t == a \o b IN
           /\ t \in Seq(S) /\ Len(t) = Len(a) + Len(b)
           /\ ToSet(t) = ToSet(a) \cup ToSet(b)
           /\ a # <<>> => t # <<>> /\ Head(t) = Head(a)
           /\ IsInjective(a) /\ IsInjective(b) /\ ToSet(a) \cap ToSet(b) = {} => IsInjective(t)
<1> DEFINE t == a \o b
           l == Len(a)
           m == Len(b)
<1>1. l \in Nat /\ m \in Nat /\ DOMAIN a = 1..l /\ DOMAIN b = 1..m
  OBVIOUS
<1>2. t \in Seq(S) /\ Len(t) = l + m /\ DOMAIN t = 1..(l + m)
  OBVIOUS
<1>3. /\ \A i \in 1..l : t[i] = a[i]
      /\ \A i \in 1..m : t[i + l] = b[i]
  OBVIOUS
<1>4. a # <<>> => t # <<>> /\ Head(t) = Head(a)
  <2>1. a # <<>> => 1 \in 1..l /\ Head(a) = a[1]
    OBVIOUS
  <2>2. a # <<>> => t # <<>> /\ Head(t) = t[1]
    BY <1>2, <2>1
  <2>. QED
    BY <1>3, <2>1, <2>2
<1> HIDE DEF t, l, m
<1>5. \A i \in 1..(l + m) : i \in 1..l \/ (i - l \in 1..m /\ t[i] = b[i - l])
  <2> SUFFICES ASSUME NEW i \in 1..(l + m), i \notin 1..l PROVE i - l \in 1..m /\ t[i] = b[i - l]
    OBVIOUS
  <2>1. i - l \in 1..m /\ (i - l) + l = i
    BY <1>1
  <2>. QED
    BY <1>3, <2>1
<1>6. \A i \in 1..m : i + l \in 1..(l + m)
  BY <1>1
<1>7. 1..l \subseteq 1..(l + m)
  BY <1>1
<1>8. ToSet(t) = ToSet(a) \cup ToSet(b)
  <2>1. \A i \in 1..(l + m) : t[i] \in ToSet(a) \cup ToSet(b)
    BY <1>1, <1>3, <1>5 DEF ToSet
  <2>2. \A i \in 1..l : a[i] \in ToSet(t)
    BY <1>2, <1>3, <1>7 DEF ToSet
  <2>3. \A i \in 1..m : b[i] \in ToSet(t)
    BY <1>2, <1>3, <1>6 DEF ToSet
  <2>. QED
    BY <1>1, <1>2, <2>1, <2>2, <2>3 DEF ToSet
<1>9. ASSUME IsInjective(a), IsInjective(b), ToSet(a) \cap ToSet(b) = {} PROVE IsInjective(t)
  <2>1. /\ \A i, j \in 1..l : a[i] = a[j] => i = j
        /\ \A i, j \in 1..m : b[i] = b[j] => i = j
    BY <1>1, <1>9 DEF IsInjective
  <2>2. \A i \in 1..l, j \in 1..m : a[i] # b[j]
    BY <1>1, <1>9 DEF ToSet
  <2>3. ASSUME NEW i \in 1..(l + m), NEW j \in 1..(l + m), t[i] = t[j] PROVE i = j
    <3>1. CASE i \in 1..l
      BY <1>3, <1>5, <2>1, <2>2, <2>3, <3>1
    <3>2. CASE i \notin 1..l /\ j \in 1..l
      BY <1>3, <1>5, <2>2, <2>3, <3>2
    <3>3. CASE i \notin 1..l /\ j \notin 1..l
      <4>1. i - l = j - l
        BY <1>5, <2>1, <2>3, <3>3
      <4>. QED
        BY <1>1, <4>1
    <3>. QED
      BY <3>1, <3>2, <3>3
  <2>. QED
    BY <1>2, <2>3 DEF IsInjective
<1>. QED
  BY <1>2, <1>4, <1>8, <1>9 DEF t, l, m

\* The first of a list, and the others
LEMMA HeadTail ==
    ASSUME NEW S, NEW l \in Seq(S), l # <<>>
    PROVE  Head(l) \in ToSet(l) /\ Tail(l) \in Seq(S) /\ ToSet(Tail(l)) \subseteq ToSet(l)
<1> DEFINE t == Tail(l)
<1>1. Len(l) \in Nat \ {0} /\ DOMAIN l = 1..Len(l) /\ Head(l) = l[1] /\ t \in Seq(S)
  OBVIOUS
<1>2. Len(t) = Len(l) - 1 /\ DOMAIN t = 1..Len(t)
  OBVIOUS
<1>3. \A j \in 1..Len(t) : t[j] = l[j + 1] /\ j + 1 \in 1..Len(l)
  BY <1>1, <1>2
<1>4. 1 \in 1..Len(l)
  BY <1>1
<1> HIDE DEF t
<1>5. Head(l) \in ToSet(l) /\ ToSet(t) \subseteq ToSet(l)
  BY <1>1, <1>2, <1>3, <1>4 DEF ToSet
<1>. QED
  BY <1>1, <1>5 DEF t


-----------------------------------------------------------------------------
(* Sums. *)

\* The sum of a sequence of numbers
Total(s) ==
    LET sum[n \in 0..Len(s)] == IF n = 0 THEN 0 ELSE sum[n-1] + s[n]
    IN  sum[Len(s)]

\* f gives the sums of the first n numbers of s, for n up to m.
Sums(f, s, m) ==
    /\ f \in [0..m -> Int]
    /\ f[0] = 0
    /\ \A n \in 1..m : f[n] = f[n-1] + s[n]

\* There are such sums, ...
LEMMA SumsExist ==
    ASSUME NEW s \in Seq(Int)
    PROVE  \E f : Sums(f, s, Len(s))
<1> DEFINE l == Len(s)
           Good == { m \in Nat : m <= l => \E f : Sums(f, s, m) }
<1>1. l \in Nat /\ \A n \in 1..l : s[n] \in Int
  OBVIOUS
<1> HIDE DEF l
<1>2. 0 \in Good
  <2>1. Sums([n \in 0..0 |-> 0], s, 0)
    BY DEF Sums
  <2>. QED
    BY <2>1
<1>3. ASSUME NEW m \in Nat, m \in Good PROVE m + 1 \in Good
  <2>1. ASSUME m + 1 <= l PROVE \E f : Sums(f, s, m + 1)
    <3>1. PICK f : Sums(f, s, m)
      BY <1>1, <1>3, <2>1
    <3> DEFINE h == [n \in 0..(m+1) |-> IF n = m + 1 THEN f[m] + s[m+1] ELSE f[n]]
    <3>2. f \in [0..m -> Int] /\ f[0] = 0 /\ \A n \in 1..m : f[n] = f[n-1] + s[n]
      BY <3>1 DEF Sums
    <3>3. m + 1 \in 1..l /\ m \in 0..m /\ s[m+1] \in Int /\ f[m] \in Int
      BY <1>1, <2>1, <3>2
    <3>4. h \in [0..(m+1) -> Int] /\ h[0] = 0
      BY <3>2, <3>3
    <3>5. ASSUME NEW n \in 1..(m+1) PROVE h[n] = h[n-1] + s[n]
      <4>1. n - 1 \in 0..m /\ h[n-1] = f[n-1]
        OBVIOUS
      <4>2. CASE n = m + 1
        BY <4>1, <4>2
      <4>3. CASE n # m + 1
        <5>1. n \in 1..m /\ h[n] = f[n]
          BY <4>3
        <5>. QED
          BY <3>2, <4>1, <5>1
      <4>. QED
        BY <4>2, <4>3
    <3> HIDE DEF h
    <3>. QED
      BY <3>4, <3>5 DEF Sums
  <2>. QED
    BY <2>1
<1>4. l \in Good
  <2> HIDE DEF Good
  <2>. QED
    BY <1>1, <1>2, <1>3, Induction
<1>. QED
  BY <1>1, <1>4 DEF l

\* ... and Total is the last one.
LEMMA TotalSums ==
    ASSUME NEW s \in Seq(Int)
    PROVE  \E f : Sums(f, s, Len(s)) /\ Total(s) = f[Len(s)]
<1> DEFINE l == Len(s)
           Next1(F, n) == IF n = 0 THEN 0 ELSE F[n-1] + s[n]
<1>1. l \in Nat /\ \A n \in 1..l : s[n] \in Int
  OBVIOUS
<1>2. PICK F : Sums(F, s, l)
  BY SumsExist
<1> HIDE DEF l
<1>3. F \in [0..l -> Int] /\ F[0] = 0 /\ \A n \in 1..l : F[n] = F[n-1] + s[n]
  BY <1>2 DEF Sums
<1>4. \A n \in 0..l : F[n] = Next1(F, n)
  <2>1. \A n \in 0..l : n # 0 => n \in 1..l
    BY <1>1
  <2>. QED
    BY <1>3, <2>1
<1> DEFINE sum == CHOOSE f : f = [n \in 0..Len(s) |-> IF n = 0 THEN 0 ELSE f[n-1] + s[n]]
<1>6. sum = [n \in 0..l |-> Next1(sum, n)]
  <2>1. F = [n \in 0..l |-> F[n]]
    BY <1>3
  <2> HIDE DEF Next1
  <2>2. F = [n \in 0..l |-> Next1(F, n)]
    BY <1>4, <2>1, Zenon
  <2>3. sum = CHOOSE f : f = [n \in 0..l |-> Next1(f, n)]
    BY DEF Next1, l
  <2> HIDE DEF sum
  <2>. QED
    BY <2>2, <2>3
<1>7. Total(s) = sum[l]
  BY DEF Total, l
<1> HIDE DEF sum
<1>8. /\ sum[0] = 0
      /\ \A n \in 1..l : sum[n] = sum[n-1] + s[n]
  <2>1. \A n \in 0..l : sum[n] = Next1(sum, n)
    <3> HIDE DEF Next1
    <3>. QED
      BY <1>6
  <2>2. 0 \in 0..l /\ \A n \in 1..l : n \in 0..l /\ n # 0
    BY <1>1
  <2>. QED
    BY <2>1, <2>2
<1> DEFINE Same == { m \in Nat : m <= l => sum[m] \in Int }
<1>9. 0 \in Same
  BY <1>8
<1>10. ASSUME NEW m \in Nat, m \in Same PROVE m + 1 \in Same
  <2> SUFFICES ASSUME m + 1 <= l PROVE sum[m+1] \in Int
    OBVIOUS
  <2>1. m + 1 \in 1..l /\ (m + 1) - 1 = m /\ sum[m] \in Int
    BY <1>1, <1>10
  <2>2. sum[m+1] = sum[(m+1)-1] + s[m+1] /\ s[m+1] \in Int
    BY <1>1, <1>8, <2>1
  <2>. QED
    BY <2>1, <2>2
<1>11. \A m \in 0..l : sum[m] \in Int
  <2>1. Nat \subseteq Same
    <3> HIDE DEF Same
    <3>. QED
      BY <1>9, <1>10, Induction
  <2>. QED
    BY <1>1, <2>1
<1>12. sum \in [0..l -> Int]
  <2>1. DOMAIN sum = 0..l /\ sum = [n \in 0..l |-> sum[n]]
    <3> HIDE DEF Next1
    <3>. QED
      BY <1>6
  <2>. QED
    BY <1>11, <2>1
<1>. QED
  BY <1>7, <1>8, <1>12 DEF Sums, l

\* Sums of two sequences that begin alike are equal.
LEMMA SumsAgree ==
    ASSUME NEW s, NEW t, NEW m \in Nat, NEW f, NEW g, Sums(f, s, m), Sums(g, t, m),
           \A n \in 1..m : s[n] = t[n]
    PROVE  f[m] = g[m]
<1> DEFINE Good == { n \in Nat : n <= m => f[n] = g[n] }
<1>1. /\ f[0] = 0 /\ \A n \in 1..m : f[n] = f[n-1] + s[n]
      /\ g[0] = 0 /\ \A n \in 1..m : g[n] = g[n-1] + t[n]
  BY DEF Sums
<1>2. 0 \in Good
  BY <1>1
<1>3. ASSUME NEW n \in Nat, n \in Good PROVE n + 1 \in Good
  <2>1. ASSUME n + 1 <= m PROVE f[n+1] = g[n+1]
    <3>1. n + 1 \in 1..m /\ (n + 1) - 1 = n /\ f[n] = g[n]
      BY <1>3, <2>1
    <3>2. f[n+1] = f[(n+1)-1] + s[n+1] /\ g[n+1] = g[(n+1)-1] + t[n+1] /\ s[n+1] = t[n+1]
      BY <1>1, <3>1
    <3>. QED
      BY <3>1, <3>2
  <2>. QED
    BY <2>1
<1>4. Nat \subseteq Good
  <2> HIDE DEF Good
  <2>. QED
    BY <1>2, <1>3, Induction
<1>. QED
  BY <1>4

LEMMA TotalIs ==
    ASSUME NEW s \in Seq(Int), NEW f, Sums(f, s, Len(s))
    PROVE  Total(s) = f[Len(s)] /\ Total(s) \in Int
<1>1. PICK g : Sums(g, s, Len(s)) /\ Total(s) = g[Len(s)]
  BY TotalSums
<1>2. Len(s) \in Nat /\ Len(s) \in 0..Len(s)
  OBVIOUS
<1>3. f[Len(s)] = g[Len(s)]
  BY <1>1, <1>2, SumsAgree
<1>. QED
  BY <1>1, <1>2, <1>3 DEF Sums

\* The sum of nothing, of one number, and of two sequences
LEMMA TotalEmpty == Total(<<>>) = 0
<1>1. <<>> \in Seq(Int) /\ Len(<<>>) = 0
  OBVIOUS
<1>2. Sums([n \in 0..0 |-> 0], <<>>, 0)
  BY DEF Sums
<1>3. Total(<<>>) = [n \in 0..0 |-> 0][0]
  BY <1>1, <1>2, TotalIs, Zenon
<1>. QED
  BY <1>3

LEMMA TotalOne ==
    ASSUME NEW x \in Int
    PROVE  Total(<<x>>) = x
<1> DEFINE f == [n \in 0..1 |-> IF n = 0 THEN 0 ELSE x]
<1>1. <<x>> \in Seq(Int) /\ Len(<<x>>) = 1
  OBVIOUS
<1>2. Sums(f, <<x>>, 1)
  BY DEF Sums
<1>3. f[1] = x
  OBVIOUS
<1> HIDE DEF f
<1>4. Total(<<x>>) = f[1]
  BY <1>1, <1>2, TotalIs
<1>. QED
  BY <1>3, <1>4

LEMMA TotalConcat ==
    ASSUME NEW s \in Seq(Int), NEW t \in Seq(Int)
    PROVE  Total(s \o t) = Total(s) + Total(t) /\ Total(s) \in Int /\ Total(t) \in Int
<1> DEFINE l == Len(s)
           m == Len(t)
           u == s \o t
<1>1. l \in Nat /\ m \in Nat /\ u \in Seq(Int) /\ Len(u) = l + m
  OBVIOUS
<1>2. (\A i \in 1..l : u[i] = s[i]) /\ (\A i \in (l+1)..(l+m) : u[i] = t[i-l])
  OBVIOUS
<1>3. PICK f : Sums(f, s, l) /\ Total(s) = f[l]
  BY TotalSums
<1>4. PICK g : Sums(g, t, m) /\ Total(t) = g[m]
  BY TotalSums
<1> DEFINE h == [n \in 0..(l+m) |-> IF n <= l THEN f[n] ELSE f[l] + g[n-l]]
<1> HIDE DEF l, m, u
<1>5. f \in [0..l -> Int] /\ f[0] = 0 /\ \A n \in 1..l : f[n] = f[n-1] + s[n]
  BY <1>3 DEF Sums
<1>6. g \in [0..m -> Int] /\ g[0] = 0 /\ \A n \in 1..m : g[n] = g[n-1] + t[n]
  BY <1>4 DEF Sums
<1>7. f[l] \in Int /\ g[m] \in Int
  BY <1>1, <1>5, <1>6
<1>8. Sums(h, u, l + m)
  <2>1. h \in [0..(l+m) -> Int]
    <3>1. ASSUME NEW n \in 0..(l+m) PROVE (IF n <= l THEN f[n] ELSE f[l] + g[n-l]) \in Int
      <4>1. CASE n <= l
        BY <1>1, <1>5, <4>1
      <4>2. CASE ~(n <= l)
        <5>1. n - l \in 0..m
          BY <1>1, <4>2
        <5>. QED
          BY <1>6, <1>7, <4>2, <5>1
      <4>. QED
        BY <4>1, <4>2
    <3>. QED
      BY <3>1
  <2>2. h[0] = 0
    BY <1>1, <1>5
  <2>3. ASSUME NEW n \in 1..(l+m) PROVE h[n] = h[n-1] + u[n]
    <3>1. CASE n <= l
      <4>1. n \in 1..l /\ h[n] = f[n] /\ h[n-1] = f[n-1]
        BY <1>1, <3>1
      <4>. QED
        BY <1>2, <1>5, <4>1
    <3>2. CASE n = l + 1
      <4>1. h[n] = f[l] + g[1] /\ h[n-1] = f[l] /\ n - l = 1 /\ 1 \in 1..m /\ n \in (l+1)..(l+m)
        BY <1>1, <3>2
      <4>2. g[1] = g[1-1] + t[1] /\ t[1] \in Int
        <5>1. t[1] \in Int
          BY <4>1 DEF m
        <5>. QED
          BY <1>6, <4>1, <5>1
      <4>3. u[n] = t[1]
        BY <1>2, <4>1
      <4>. QED
        BY <1>6, <1>7, <4>1, <4>2, <4>3
    <3>3. CASE n > l + 1
      <4>1. /\ h[n] = f[l] + g[n-l] /\ h[n-1] = f[l] + g[(n-1)-l] /\ (n-1) - l = (n-l) - 1
            /\ n - l \in 1..m /\ n \in (l+1)..(l+m) /\ (n-1)-l \in 0..m
        BY <1>1, <3>3
      <4>2. g[n-l] = g[(n-l)-1] + t[n-l] /\ u[n] = t[n-l] /\ g[(n-l)-1] \in Int
        BY <1>2, <1>6, <4>1
      <4>3. t[n-l] \in Int
        BY <4>1 DEF m
      <4>. QED
        BY <1>7, <4>1, <4>2, <4>3
    <3>. QED
      BY <1>1, <3>1, <3>2, <3>3
  <2> HIDE DEF h
  <2>. QED
    BY <2>1, <2>2, <2>3 DEF Sums
<1>9. h[l+m] = f[l] + g[m]
  <2>1. CASE m = 0
    BY <1>1, <1>5, <1>6, <2>1
  <2>2. CASE m > 0
    <3>1. ~(l + m <= l) /\ (l + m) - l = m
      BY <1>1, <2>2
    <3>. QED
      BY <1>1, <3>1
  <2>. QED
    BY <1>1, <2>1, <2>2
<1> HIDE DEF h
<1>10. Total(u) = h[l+m]
  BY <1>1, <1>8, TotalIs
<1>. QED
  BY <1>3, <1>4, <1>7, <1>9, <1>10 DEF u

\* A sequence that is c, 1 or -1, at places M, and 0 elsewhere
LEMMA TotalMarks ==
    ASSUME NEW s \in Seq(Int), NEW c \in {-1, 1}, NEW M, M \subseteq 1..Len(s),
           \A i \in 1..Len(s) : s[i] = IF i \in M THEN c ELSE 0
    PROVE  /\ IsFiniteSet(M) /\ Cardinality(M) \in Nat
           /\ Total(s) = IF c = 1 THEN Cardinality(M) ELSE - Cardinality(M)
<1> DEFINE l == Len(s)
           Below(n) == M \cap 1..n
           sign(n) == IF c = 1 THEN n ELSE - n
           f == [n \in 0..l |-> sign(Cardinality(Below(n)))]
<1>1. l \in Nat
  OBVIOUS
<1>2. \A n \in Nat : IsFiniteSet(Below(n)) /\ Cardinality(Below(n)) \in Nat
  <2> SUFFICES ASSUME NEW n \in Nat PROVE IsFiniteSet(Below(n))
    BY FS_CardinalityType
  <2>1. IsFiniteSet(1..n)
    BY FS_Interval
  <2>. QED
    BY <2>1, FS_Intersection
<1>3. Cardinality(Below(0)) = 0
  <2>1. Below(0) = {}
    OBVIOUS
  <2> HIDE DEF Below
  <2>. QED
    BY <2>1, FS_EmptySet
<1>4. ASSUME NEW n \in 1..l PROVE f[n] = f[n-1] + s[n]
  <2>1. n - 1 \in 0..l /\ n \in 0..l /\ n - 1 \in Nat /\ n \in Nat
    BY <1>1
  <2>2. CASE n \in M
    <3>1. Below(n) = Below(n-1) \cup {n} /\ n \notin Below(n-1)
      BY <2>1, <2>2
    <3>2. IsFiniteSet(Below(n-1)) /\ Cardinality(Below(n-1)) \in Nat
      BY <1>2, <2>1
    <3>3. s[n] = c
      BY <2>2
    <3> HIDE DEF Below
    <3>4. Cardinality(Below(n)) = Cardinality(Below(n-1)) + 1
      BY <3>1, <3>2, FS_AddElement
    <3>5. f[n] = sign(Cardinality(Below(n-1)) + 1) /\ f[n-1] = sign(Cardinality(Below(n-1)))
      BY <2>1, <3>4
    <3>. QED
      BY <3>2, <3>3, <3>5
  <2>3. CASE n \notin M
    <3>1. Below(n) = Below(n-1)
      BY <2>1, <2>3
    <3>2. Cardinality(Below(n-1)) \in Nat
      BY <1>2, <2>1
    <3>3. s[n] = 0
      BY <2>3
    <3> HIDE DEF Below
    <3>5. f[n] = sign(Cardinality(Below(n-1))) /\ f[n-1] = sign(Cardinality(Below(n-1)))
      BY <2>1, <3>1
    <3>. QED
      BY <3>2, <3>3, <3>5
  <2>. QED
    BY <2>2, <2>3
<1>5. f \in [0..l -> Int]
  <2>1. ASSUME NEW n \in 0..l PROVE Cardinality(Below(n)) \in Nat
    <3>1. n \in Nat
      BY <1>1
    <3> HIDE DEF Below
    <3>. QED
      BY <1>2, <3>1
  <2> HIDE DEF Below
  <2>. QED
    BY <2>1
<1>6. f[0] = 0 /\ f[l] = sign(Cardinality(Below(l)))
  <2> HIDE DEF Below
  <2>. QED
    BY <1>1, <1>3
<1>7. Below(l) = M
  OBVIOUS
<1> HIDE DEF f
<1>8. Sums(f, s, l)
  BY <1>4, <1>5, <1>6 DEF Sums
<1>9. Total(s) = f[l]
  BY <1>8, TotalIs
<1>. QED
  <2>1. IsFiniteSet(Below(l)) /\ Cardinality(Below(l)) \in Nat
    BY <1>1, <1>2
  <2> HIDE DEF Below, l
  <2>. QED
    BY <1>6, <1>7, <1>9, <2>1

\* A sum of numbers that are not positive is not positive.
LEMMA TotalSign ==
    ASSUME NEW s \in Seq(Int), \A i \in 1..Len(s) : s[i] <= 0
    PROVE  Total(s) <= 0
<1> DEFINE l == Len(s)
<1>1. l \in Nat /\ \A i \in 1..l : s[i] \in Int
  OBVIOUS
<1>2. PICK f : Sums(f, s, l) /\ Total(s) = f[l]
  BY TotalSums
<1> HIDE DEF l
<1>3. f \in [0..l -> Int] /\ f[0] = 0 /\ \A n \in 1..l : f[n] = f[n-1] + s[n]
  BY <1>2 DEF Sums
<1> DEFINE Good == { n \in Nat : n <= l => f[n] <= 0 }
<1>4. 0 \in Good
  BY <1>3
<1>5. ASSUME NEW n \in Nat, n \in Good PROVE n + 1 \in Good
  <2>1. ASSUME n + 1 <= l PROVE f[n+1] <= 0
    <3>1. n + 1 \in 1..l /\ (n + 1) - 1 = n /\ f[n] <= 0 /\ n \in 0..l
      BY <1>1, <1>5, <2>1
    <3>2. f[n+1] = f[(n+1)-1] + s[n+1] /\ s[n+1] \in Int /\ s[n+1] <= 0 /\ f[n] \in Int
      BY <1>1, <1>3, <3>1 DEF l
    <3>. QED
      BY <3>1, <3>2
  <2>. QED
    BY <2>1
<1>6. Nat \subseteq Good
  <2> HIDE DEF Good
  <2>. QED
    BY <1>4, <1>5, Induction
<1>. QED
  BY <1>1, <1>2, <1>6

\* The places of a concatenation
LEMMA ConcatPlaces ==
    ASSUME NEW S, NEW s \in Seq(S), NEW t \in Seq(S)
    PROVE  /\ DOMAIN (s \o t) = 1..(Len(s) + Len(t))
           /\ \A i \in 1..(Len(s) + Len(t)) : (s \o t)[i] = IF i <= Len(s) THEN s[i] ELSE t[i - Len(s)]
  OBVIOUS

-----------------------------------------------------------------------------
(* How many entries of a list are in a set.                                *)

\* The places of these entries are finitely many; there is none, or one.
LEMMA NumberType ==
    ASSUME NEW S, NEW s \in Seq(S)
    PROVE  \A M : /\ IsFiniteSet({ i \in DOMAIN s : s[i] \in M })
                  /\ Number(s, M) \in Nat
                  /\ Number(s, M) = 0 <=> \A i \in DOMAIN s : s[i] \notin M
<1> SUFFICES ASSUME NEW M
             PROVE  /\ IsFiniteSet({ i \in DOMAIN s : s[i] \in M })
                    /\ Number(s, M) \in Nat
                    /\ Number(s, M) = 0 <=> \A i \in DOMAIN s : s[i] \notin M
  OBVIOUS
<1> DEFINE P == { i \in DOMAIN s : s[i] \in M }
<1>1. IsFiniteSet(1..Len(s)) /\ P \in SUBSET (1..Len(s))
  BY FS_Interval
<1>2. IsFiniteSet(P)
  BY <1>1, FS_Subset
<1>3. Cardinality(P) \in Nat /\ (Cardinality(P) = 0 <=> P = {})
  BY <1>2, FS_CardinalityType, FS_EmptySet
<1>. QED
  BY <1>2, <1>3 DEF Number

LEMMA NumberEmpty == \A M : Number(<<>>, M) = 0
<1> SUFFICES ASSUME NEW M PROVE Number(<<>>, M) = 0
  OBVIOUS
<1>1. { i \in DOMAIN <<>> : <<>>[i] \in M } = {}
  OBVIOUS
<1>. QED
  BY <1>1, FS_EmptySet DEF Number

LEMMA NumberConcat ==
    ASSUME NEW S, NEW s \in Seq(S), NEW t \in Seq(S)
    PROVE  \A M : Number(s \o t, M) = Number(s, M) + Number(t, M)
<1> SUFFICES ASSUME NEW M PROVE Number(s \o t, M) = Number(s, M) + Number(t, M)
  OBVIOUS
<1> DEFINE n == Len(s)
           m == Len(t)
           u == s \o t
           P == { i \in DOMAIN s : s[i] \in M }
           Q == { i \in DOMAIN t : t[i] \in M }
           R == { i \in DOMAIN u : u[i] \in M /\ i > n }
           f == [i \in Q |-> n + i]
<1>1. n \in Nat /\ m \in Nat /\ DOMAIN s = 1..n /\ DOMAIN t = 1..m
  OBVIOUS
<1>2. /\ DOMAIN u = 1..(n+m)
      /\ \A i \in 1..n : u[i] = s[i]
      /\ \A i \in 1..m : u[n+i] = t[i]
  <2>1. u \in Seq(S) /\ Len(u) = n + m
    OBVIOUS
  <2>2. \A i \in 1..(n+m) : u[i] = IF i <= n THEN s[i] ELSE t[i-n]
    BY ConcatPlaces
  <2>. QED
    BY <1>1, <2>1, <2>2
<1> HIDE DEF n, m, u
<1>3. { i \in DOMAIN u : u[i] \in M } = P \cup R /\ P \cap R = {}
  BY <1>1, <1>2
<1>4. /\ \A i \in Q : f[i] \in R
      /\ \A j \in R : j - n \in Q /\ f[j-n] = j
      /\ \A i, j \in Q : f[i] = f[j] => i = j
  BY <1>1, <1>2
<1>5. f \in [Q -> R]
  BY <1>4
<1>6. f \in Bijection(Q, R)
  <2> HIDE DEF f, Q, R
  <2>1. f \in Injection(Q, R)
    BY <1>4, <1>5 DEF Injection, IsInjective
  <2>2. f \in Surjection(Q, R)
    BY <1>4, <1>5 DEF Surjection
  <2>. QED
    BY <2>1, <2>2 DEF Bijection
<1>7. IsFiniteSet(P) /\ IsFiniteSet(Q)
  BY NumberType
<1> HIDE DEF f, P, Q, R
<1>8. IsFiniteSet(R) /\ Cardinality(R) = Cardinality(Q)
  BY <1>6, <1>7, FS_Bijection DEF ExistsBijection
<1>9. Cardinality(P \cup R) = Cardinality(P) + Cardinality(R) - Cardinality({})
  BY <1>3, <1>7, <1>8, FS_Union
<1>10. Cardinality(P) \in Nat /\ Cardinality(R) \in Nat /\ Cardinality({}) = 0
  BY <1>7, <1>8, FS_CardinalityType, FS_EmptySet
<1>11. Cardinality(P \cup R) = Cardinality(P) + Cardinality(Q)
  BY <1>8, <1>9, <1>10
<1>. QED
  BY <1>3, <1>11 DEF Number, u, P, Q

LEMMA NumberOne == \A x, M : Number(<<x>>, M) = IF x \in M THEN 1 ELSE 0
<1> SUFFICES ASSUME NEW x, NEW M PROVE Number(<<x>>, M) = IF x \in M THEN 1 ELSE 0
  OBVIOUS
<1>1. { i \in DOMAIN <<x>> : <<x>>[i] \in M } = IF x \in M THEN {1} ELSE {}
  OBVIOUS
<1>. QED
  BY <1>1, FS_EmptySet, FS_Singleton DEF Number

LEMMA NumberAppend ==
    ASSUME NEW S, NEW s \in Seq(S), NEW x \in S
    PROVE  \A M : Number(Append(s, x), M) = Number(s, M) + IF x \in M THEN 1 ELSE 0
<1>1. Append(s, x) = s \o <<x>> /\ <<x>> \in Seq(S)
  OBVIOUS
<1>2. \A M : Number(s \o <<x>>, M) = Number(s, M) + Number(<<x>>, M)
  BY <1>1, NumberConcat
<1>. QED
  BY <1>1, <1>2, NumberOne

LEMMA NumberTail ==
    ASSUME NEW S, NEW s \in Seq(S), s # <<>>
    PROVE  \A M : Number(s, M) = Number(Tail(s), M) + IF Head(s) \in M THEN 1 ELSE 0
<1>1. s = <<Head(s)>> \o Tail(s) /\ <<Head(s)>> \in Seq(S) /\ Tail(s) \in Seq(S)
  OBVIOUS
<1>2. \A M : Number(<<Head(s)>> \o Tail(s), M) = Number(<<Head(s)>>, M) + Number(Tail(s), M)
  BY <1>1, NumberConcat
<1>3. \A M : Number(Tail(s), M) \in Nat
  BY <1>1, NumberType
<1> SUFFICES ASSUME NEW M PROVE Number(s, M) = Number(Tail(s), M) + IF Head(s) \in M THEN 1 ELSE 0
  OBVIOUS
<1>4. Number(s, M) = Number(<<Head(s)>> \o Tail(s), M)
  BY <1>1
<1>5. Number(<<Head(s)>>, M) = IF Head(s) \in M THEN 1 ELSE 0
  BY NumberOne
<1>. QED
  BY <1>2, <1>3, <1>4, <1>5

LEMMA FrontLast ==
    ASSUME NEW S, NEW s \in Seq(S), s # <<>>
    PROVE  /\ Front(s) \in Seq(S) /\ Last(s) \in S /\ s = Append(Front(s), Last(s))
           /\ Len(Front(s)) = Len(s) - 1 /\ DOMAIN Front(s) = 1..(Len(s) - 1)
           /\ \A i \in 1..(Len(s) - 1) : Front(s)[i] = s[i]
           /\ Last(s) = s[Len(s)] /\ Len(s) \in DOMAIN s
<1>1. Len(s) \in Nat \ {0} /\ DOMAIN s = 1..Len(s)
  OBVIOUS
<1>2. Last(s) = s[Len(s)] /\ Last(s) \in S /\ Len(s) \in DOMAIN s
  BY <1>1 DEF Last
<1>3. Front(s) = SubSeq(s, 1, Len(s) - 1)
  BY DEF Front
<1>4. /\ Front(s) \in Seq(S) /\ Len(Front(s)) = Len(s) - 1 /\ DOMAIN Front(s) = 1..(Len(s) - 1)
      /\ \A i \in 1..(Len(s) - 1) : Front(s)[i] = s[i]
  BY <1>1, <1>3
<1>5. s = Append(Front(s), Last(s))
  <2> DEFINE f == Front(s)
             x == Last(s)
             t == Append(f, x)
  <2>1. f \in Seq(S) /\ x \in S /\ Len(f) + 1 = Len(s)
    BY <1>1, <1>2, <1>4
  <2>2. (\A i \in 1..(Len(s) - 1) : f[i] = s[i]) /\ x = s[Len(s)]
    BY <1>2, <1>4
  <2> HIDE DEF f, x
  <2>3. /\ t \in Seq(S) /\ Len(t) = Len(f) + 1
        /\ \A i \in 1..Len(f) : t[i] = f[i]
        /\ t[Len(f) + 1] = x
    BY <2>1, AppendProperties
  <2> HIDE DEF t
  <2>4. \A i \in 1..Len(s) : t[i] = s[i]
    BY <1>1, <2>1, <2>2, <2>3
  <2>5. t = s
    BY <2>1, <2>3, <2>4, SeqEqual
  <2>. QED
    BY <2>5 DEF f, x, t
<1>. QED
  BY <1>2, <1>4, <1>5

LEMMA NumberFront ==
    ASSUME NEW S, NEW s \in Seq(S), s # <<>>
    PROVE  \A M : Number(s, M) = Number(Front(s), M) + IF Last(s) \in M THEN 1 ELSE 0
<1>1. Front(s) \in Seq(S) /\ Last(s) \in S /\ s = Append(Front(s), Last(s))
  BY FrontLast
<1>2. \A M : Number(Append(Front(s), Last(s)), M) = Number(Front(s), M) + IF Last(s) \in M THEN 1 ELSE 0
  BY <1>1, NumberAppend
<1>. QED
  BY <1>1, <1>2

\* One entry more or less, of those that are in both sets
LEMMA NumberSame ==
    ASSUME NEW S, NEW s \in Seq(S), NEW t, DOMAIN t = DOMAIN s, NEW M, NEW N,
           \A i \in DOMAIN s : s[i] \in M <=> t[i] \in N
    PROVE  Number(s, M) = Number(t, N)
<1>1. { i \in DOMAIN s : s[i] \in M } = { i \in DOMAIN t : t[i] \in N }
  OBVIOUS
<1>. QED
  BY <1>1 DEF Number

LEMMA NumberUnion ==
    ASSUME NEW S, NEW s \in Seq(S), NEW M, NEW N, M \cap N = {}
    PROVE  Number(s, M \cup N) = Number(s, M) + Number(s, N)
<1> DEFINE P == { i \in DOMAIN s : s[i] \in M }
           Q == { i \in DOMAIN s : s[i] \in N }
<1>1. { i \in DOMAIN s : s[i] \in M \cup N } = P \cup Q /\ P \cap Q = {}
  OBVIOUS
<1>0. /\ Number(s, M \cup N) = Cardinality(P \cup Q)
      /\ Number(s, M) = Cardinality(P) /\ Number(s, N) = Cardinality(Q)
  BY <1>1 DEF Number
<1>2. IsFiniteSet(P) /\ IsFiniteSet(Q)
  BY NumberType
<1> HIDE DEF P, Q
<1>3. Cardinality(P \cup Q) = Cardinality(P) + Cardinality(Q) - Cardinality({})
  BY <1>1, <1>2, FS_Union
<1>4. Cardinality(P) \in Nat /\ Cardinality(Q) \in Nat /\ Cardinality({}) = 0
  BY <1>2, FS_CardinalityType, FS_EmptySet
<1>. QED
  BY <1>0, <1>1, <1>3, <1>4

\* There is at most one such entry.
LEMMA NumberAtMostOne ==
    ASSUME NEW S, NEW s \in Seq(S), NEW M,
           \A i, j \in DOMAIN s : s[i] \in M /\ s[j] \in M => i = j
    PROVE  Number(s, M) <= 1
<1> DEFINE P == { i \in DOMAIN s : s[i] \in M }
<1>1. Number(s, M) = Cardinality(P) /\ \A i, j \in P : i = j
  BY DEF Number
<1> HIDE DEF P
<1>2. P = {} \/ \E x : P = {x}
  <2>1. CASE P # {}
    <3>1. PICK x \in P : TRUE
      BY <2>1
    <3>2. P = {x}
      BY <1>1, <3>1
    <3>. QED
      BY <3>2
  <2>. QED
    BY <2>1
<1>3. \A x : Cardinality({x}) = 1
  BY FS_Singleton
<1>4. Cardinality({}) = 0
  BY FS_EmptySet
<1>5. Cardinality(P) = 0 \/ Cardinality(P) = 1
  BY <1>2, <1>3, <1>4, Zenon
<1>. QED
  BY <1>1, <1>5

\* What is kept of a list has as many entries of each kind that is kept.
LEMMA NumberKept ==
    ASSUME NEW S, NEW s \in Seq(S), NEW K
    PROVE  \A M : Number(Kept(s, K), M) = Number(s, K \cap M)
<1> SUFFICES ASSUME NEW M PROVE Number(Kept(s, K), M) = Number(s, K \cap M)
  OBVIOUS
<1> DEFINE t == Kept(s, K)
           P == { i \in DOMAIN t : t[i] \in M }
           Q == { i \in DOMAIN s : s[i] \in K \cap M }
<1>1. t \in Seq(S \cap K)
  BY KeptFacts
<1>2. PICK f : Selects(f, t, s, K, Len(s))
  BY KeptFacts
<1> HIDE DEF t
<1>3. Len(t) \in Nat /\ DOMAIN t = 1..Len(t) /\ DOMAIN s = 1..Len(s) /\ \A i \in DOMAIN t : t[i] \in K
  BY <1>1
<1>4. /\ f \in [1..Len(t) -> 1..Len(s)]
      /\ \A i, j \in 1..Len(t) : i < j => f[i] < f[j]
      /\ \A i \in 1..Len(t) : t[i] = s[f[i]]
      /\ \A j \in 1..Len(s) : s[j] \in K => \E i \in 1..Len(t) : f[i] = j
  BY <1>2 DEF Selects
<1> DEFINE g == [i \in P |-> f[i]]
<1>5. \A i \in P : i \in 1..Len(t) /\ g[i] = f[i] /\ g[i] \in Q
  BY <1>3, <1>4
<1>6. \A i, j \in P : g[i] = g[j] => i = j
  <2> SUFFICES ASSUME NEW i \in P, NEW j \in P, g[i] = g[j] PROVE i = j
    OBVIOUS
  <2>1. f[i] = f[j] /\ f[i] \in Int /\ i \in 1..Len(t) /\ j \in 1..Len(t)
    BY <1>3, <1>4
  <2>. QED
    BY <1>4, <2>1
<1>7. \A j \in Q : \E i \in P : g[i] = j
  <2> SUFFICES ASSUME NEW j \in Q PROVE \E i \in P : g[i] = j
    OBVIOUS
  <2>1. PICK i \in 1..Len(t) : f[i] = j
    BY <1>3, <1>4
  <2>2. i \in P
    BY <1>3, <1>4, <2>1
  <2>. QED
    BY <2>1, <2>2
<1>8. g \in [P -> Q]
  BY <1>5
<1>9. IsFiniteSet(P)
  BY <1>1, NumberType
<1> HIDE DEF g, P, Q
<1>10. g \in Bijection(P, Q)
  BY <1>6, <1>7, <1>8 DEF Bijection, Injection, Surjection, IsInjective
<1>11. Cardinality(P) = Cardinality(Q)
  BY <1>9, <1>10, FS_Bijection DEF ExistsBijection
<1>. QED
  BY <1>11 DEF Number, P, Q, t

-----------------------------------------------------------------------------
(* Lists by the entries they have.                                         *)

Has(s, x) == \E i \in DOMAIN s : s[i] = x

LEMMA HasNumber ==
    ASSUME NEW S, NEW s \in Seq(S)
    PROVE  /\ \A x, M : Has(s, x) /\ x \in M => Number(s, M) >= 1
           /\ \A M : Number(s, M) >= 1 => \E x \in M : Has(s, x)
           /\ \A x : Has(s, x) => x \in S
<1>1. ASSUME NEW x, NEW M, Has(s, x), x \in M PROVE Number(s, M) >= 1
  <2>1. /\ Number(s, M) \in Nat
        /\ Number(s, M) = 0 <=> \A i \in DOMAIN s : s[i] \notin M
    BY NumberType
  <2>2. PICK i \in DOMAIN s : s[i] = x
    BY <1>1 DEF Has
  <2>. QED
    BY <1>1, <2>1, <2>2
<1>2. ASSUME NEW M, Number(s, M) >= 1 PROVE \E x \in M : Has(s, x)
  <2>1. Number(s, M) # 0
    BY <1>2
  <2>2. PICK i \in DOMAIN s : s[i] \in M
    BY <2>1, NumberType
  <2>. QED
    BY <2>2 DEF Has
<1>3. \A x : Has(s, x) => x \in S
  BY DEF Has
<1>. QED
  BY <1>1, <1>2, <1>3

LEMMA HasTail ==
    ASSUME NEW S, NEW s \in Seq(S), s # <<>>
    PROVE  \A x : Has(s, x) <=> x = Head(s) \/ Has(Tail(s), x)
<1> SUFFICES ASSUME NEW x PROVE Has(s, x) <=> x = Head(s) \/ Has(Tail(s), x)
  OBVIOUS
<1>1. /\ Len(s) \in Nat \ {0} /\ DOMAIN s = 1..Len(s) /\ DOMAIN Tail(s) = 1..(Len(s) - 1)
      /\ \A j \in 1..(Len(s) - 1) : Tail(s)[j] = s[j+1]
      /\ Head(s) = s[1]
  OBVIOUS
<1>2. ASSUME Has(s, x), x # Head(s) PROVE Has(Tail(s), x)
  <2>1. PICK i \in DOMAIN s : s[i] = x
    BY <1>2 DEF Has
  <2>2. i - 1 \in DOMAIN Tail(s) /\ Tail(s)[i-1] = x
    BY <1>1, <1>2, <2>1
  <2>. QED
    BY <2>2 DEF Has
<1>3. ASSUME Has(Tail(s), x) PROVE Has(s, x)
  <2>1. PICK i \in DOMAIN Tail(s) : Tail(s)[i] = x
    BY <1>3 DEF Has
  <2>2. i + 1 \in DOMAIN s /\ s[i+1] = x
    BY <1>1, <2>1
  <2>. QED
    BY <2>2 DEF Has
<1>4. x = Head(s) => Has(s, x)
  BY <1>1 DEF Has
<1>. QED
  BY <1>2, <1>3, <1>4

LEMMA HasConcat ==
    ASSUME NEW S, NEW s \in Seq(S), NEW t \in Seq(S)
    PROVE  \A x : Has(s \o t, x) <=> Has(s, x) \/ Has(t, x)
<1> SUFFICES ASSUME NEW x PROVE Has(s \o t, x) <=> Has(s, x) \/ Has(t, x)
  OBVIOUS
<1> DEFINE n == Len(s)
           u == s \o t
<1>1. n \in Nat /\ DOMAIN s = 1..n /\ DOMAIN t = 1..Len(t) /\ Len(t) \in Nat
  OBVIOUS
<1>2. /\ DOMAIN u = 1..(n + Len(t))
      /\ \A i \in 1..(n+Len(t)) : u[i] = IF i <= n THEN s[i] ELSE t[i-n]
  BY ConcatPlaces
<1> HIDE DEF n, u
<1>3. ASSUME Has(u, x) PROVE Has(s, x) \/ Has(t, x)
  <2>1. PICK i \in DOMAIN u : u[i] = x
    BY <1>3 DEF Has
  <2>2. CASE i <= n
    BY <1>1, <1>2, <2>1, <2>2 DEF Has
  <2>3. CASE i > n
    <3>1. i - n \in DOMAIN t /\ t[i-n] = x
      BY <1>1, <1>2, <2>1, <2>3
    <3>. QED
      BY <3>1 DEF Has
  <2>. QED
    BY <1>1, <1>2, <2>1, <2>2, <2>3
<1>4. ASSUME Has(s, x) PROVE Has(u, x)
  <2>1. PICK i \in DOMAIN s : s[i] = x
    BY <1>4 DEF Has
  <2>2. i \in DOMAIN u /\ u[i] = x
    BY <1>1, <1>2, <2>1
  <2>. QED
    BY <2>2 DEF Has
<1>5. ASSUME Has(t, x) PROVE Has(u, x)
  <2>1. PICK i \in DOMAIN t : t[i] = x
    BY <1>5 DEF Has
  <2>2. n + i \in DOMAIN u /\ u[n+i] = x
    <3>1. n + i \in 1..(n + Len(t)) /\ ~(n + i <= n) /\ (n + i) - n = i
      BY <1>1, <2>1
    <3>. QED
      BY <1>2, <2>1, <3>1
  <2>. QED
    BY <2>2 DEF Has
<1>. QED
  BY <1>3, <1>4, <1>5 DEF u

LEMMA HasOne == \A x, y : Has(<<x>>, y) <=> y = x
  BY DEF Has

LEMMA HasAppend ==
    ASSUME NEW S, NEW s \in Seq(S), NEW y \in S
    PROVE  \A x : Has(Append(s, y), x) <=> Has(s, x) \/ x = y
<1>1. Append(s, y) = s \o <<y>> /\ <<y>> \in Seq(S)
  OBVIOUS
<1>2. \A x : Has(s \o <<y>>, x) <=> Has(s, x) \/ Has(<<y>>, x)
  BY <1>1, HasConcat
<1>. QED
  BY <1>1, <1>2, HasOne

LEMMA HasKept ==
    ASSUME NEW S, NEW s \in Seq(S), NEW K
    PROVE  \A x : Has(Kept(s, K), x) <=> Has(s, x) /\ x \in K
<1> DEFINE t == Kept(s, K)
<1>1. t \in Seq(S \cap K)
  BY KeptFacts
<1>2. PICK f : Selects(f, t, s, K, Len(s))
  BY KeptFacts
<1> HIDE DEF t
<1>3. Len(t) \in Nat /\ DOMAIN t = 1..Len(t) /\ DOMAIN s = 1..Len(s) /\ \A i \in DOMAIN t : t[i] \in K
  BY <1>1
<1>4. /\ f \in [1..Len(t) -> 1..Len(s)]
      /\ \A i \in 1..Len(t) : t[i] = s[f[i]]
      /\ \A j \in 1..Len(s) : s[j] \in K => \E i \in 1..Len(t) : f[i] = j
  BY <1>2 DEF Selects
<1> SUFFICES ASSUME NEW x PROVE Has(t, x) <=> Has(s, x) /\ x \in K
  BY DEF t
<1>5. ASSUME Has(t, x) PROVE Has(s, x) /\ x \in K
  <2>1. PICK i \in DOMAIN t : t[i] = x
    BY <1>5 DEF Has
  <2>2. f[i] \in DOMAIN s /\ s[f[i]] = x /\ x \in K
    BY <1>3, <1>4, <2>1
  <2>. QED
    BY <2>2 DEF Has
<1>6. ASSUME Has(s, x), x \in K PROVE Has(t, x)
  <2>1. PICK j \in DOMAIN s : s[j] = x
    BY <1>6 DEF Has
  <2>2. PICK i \in 1..Len(t) : f[i] = j
    BY <1>3, <1>4, <1>6, <2>1
  <2>3. t[i] = x
    BY <1>4, <2>1, <2>2
  <2>. QED
    BY <1>3, <2>2, <2>3 DEF Has
<1>. QED
  BY <1>5, <1>6

-----------------------------------------------------------------------------
(* The order of two entries, and entries that are followed by others.      *)

\* Entries x and y of s, in this order
Precedes(s, x, y) == \E i, j \in DOMAIN s : i < j /\ s[i] = x /\ s[j] = y

\* Each entry of s that is in A has one that is in B after it.
Followed(s, A, B) ==
    \A i \in DOMAIN s : s[i] \in A => \E j \in DOMAIN s : i < j /\ s[j] \in B

LEMMA PrecedesTail ==
    ASSUME NEW S, NEW s \in Seq(S), s # <<>>, NEW x, NEW y, Precedes(s, x, y), Head(s) # x
    PROVE  Precedes(Tail(s), x, y)
<1>1. PICK i \in DOMAIN s, j \in DOMAIN s : i < j /\ s[i] = x /\ s[j] = y
  BY DEF Precedes
<1>2. i # 1
  BY <1>1
<1>3. i - 1 \in DOMAIN Tail(s) /\ j - 1 \in DOMAIN Tail(s) /\ i - 1 < j - 1
  BY <1>1, <1>2
<1>4. Tail(s)[i-1] = x /\ Tail(s)[j-1] = y
  BY <1>1, <1>2, <1>3
<1>. QED
  BY <1>3, <1>4 DEF Precedes

LEMMA PrecedesConcat ==
    ASSUME NEW S, NEW s \in Seq(S), NEW t \in Seq(S), NEW x, NEW y,
           \/ Precedes(s, x, y)
           \/ Precedes(t, x, y)
           \/ (\E i \in DOMAIN s : s[i] = x) /\ (\E i \in DOMAIN t : t[i] = y)
    PROVE  Precedes(s \o t, x, y)
<1> DEFINE n == Len(s)
           u == s \o t
<1>1. n \in Nat /\ DOMAIN s = 1..n /\ DOMAIN t = 1..Len(t) /\ Len(t) \in Nat
  OBVIOUS
<1>2. /\ DOMAIN u = 1..(n + Len(t))
      /\ \A i \in 1..n : u[i] = s[i]
      /\ \A i \in 1..Len(t) : u[n+i] = t[i]
  <2>1. \A i \in 1..(n+Len(t)) : u[i] = IF i <= n THEN s[i] ELSE t[i-n]
    BY ConcatPlaces
  <2>2. DOMAIN u = 1..(n + Len(t))
    OBVIOUS
  <2>. QED
    BY <1>1, <2>1, <2>2
<1> HIDE DEF n, u
<1>3. CASE Precedes(s, x, y)
  <2>1. PICK i \in DOMAIN s, j \in DOMAIN s : i < j /\ s[i] = x /\ s[j] = y
    BY <1>3 DEF Precedes
  <2>2. i \in DOMAIN u /\ j \in DOMAIN u /\ u[i] = x /\ u[j] = y
    BY <1>1, <1>2, <2>1
  <2>. QED
    BY <2>1, <2>2 DEF Precedes, u
<1>4. CASE Precedes(t, x, y)
  <2>1. PICK i \in DOMAIN t, j \in DOMAIN t : i < j /\ t[i] = x /\ t[j] = y
    BY <1>4 DEF Precedes
  <2>2. n + i \in DOMAIN u /\ n + j \in DOMAIN u /\ u[n+i] = x /\ u[n+j] = y /\ n + i < n + j
    BY <1>1, <1>2, <2>1
  <2>. QED
    BY <2>2 DEF Precedes, u
<1>5. CASE (\E i \in DOMAIN s : s[i] = x) /\ (\E i \in DOMAIN t : t[i] = y)
  <2>1. PICK i \in DOMAIN s, j \in DOMAIN t : s[i] = x /\ t[j] = y
    BY <1>5
  <2>2. i \in DOMAIN u /\ n + j \in DOMAIN u /\ u[i] = x /\ u[n+j] = y /\ i < n + j
    BY <1>1, <1>2, <2>1
  <2>. QED
    BY <2>2 DEF Precedes, u
<1>. QED
  BY <1>3, <1>4, <1>5

LEMMA PrecedesKept ==
    ASSUME NEW S, NEW s \in Seq(S), NEW K, NEW x \in K, NEW y \in K, Precedes(s, x, y)
    PROVE  Precedes(Kept(s, K), x, y)
<1> DEFINE t == Kept(s, K)
<1>1. t \in Seq(S \cap K)
  BY KeptFacts
<1>2. PICK f : Selects(f, t, s, K, Len(s))
  BY KeptFacts
<1> HIDE DEF t
<1>3. Len(t) \in Nat /\ DOMAIN t = 1..Len(t) /\ DOMAIN s = 1..Len(s)
  BY <1>1
<1>4. /\ f \in [1..Len(t) -> 1..Len(s)]
      /\ \A i, j \in 1..Len(t) : i < j => f[i] < f[j]
      /\ \A i \in 1..Len(t) : t[i] = s[f[i]]
      /\ \A j \in 1..Len(s) : s[j] \in K => \E i \in 1..Len(t) : f[i] = j
  BY <1>2 DEF Selects
<1>5. PICK i \in DOMAIN s, j \in DOMAIN s : i < j /\ s[i] = x /\ s[j] = y
  BY DEF Precedes
<1>6. PICK a \in 1..Len(t) : f[a] = i
  BY <1>3, <1>4, <1>5
<1>7. PICK b \in 1..Len(t) : f[b] = j
  BY <1>3, <1>4, <1>5
<1>8. a < b
  BY <1>3, <1>4, <1>5, <1>6, <1>7
<1>9. t[a] = x /\ t[b] = y
  BY <1>4, <1>5, <1>6, <1>7
<1>. QED
  BY <1>3, <1>8, <1>9 DEF Precedes, t

LEMMA FollowedTail ==
    ASSUME NEW S, NEW s \in Seq(S), s # <<>>, NEW A, NEW B, Followed(s, A, B)
    PROVE  Followed(Tail(s), A, B)
<1> SUFFICES ASSUME NEW i \in DOMAIN Tail(s), Tail(s)[i] \in A
             PROVE  \E j \in DOMAIN Tail(s) : i < j /\ Tail(s)[j] \in B
  BY DEF Followed
<1>1. /\ Len(s) \in Nat \ {0} /\ DOMAIN s = 1..Len(s) /\ DOMAIN Tail(s) = 1..(Len(s) - 1)
      /\ \A j \in 1..(Len(s) - 1) : Tail(s)[j] = s[j+1]
  OBVIOUS
<1>2. i + 1 \in DOMAIN s /\ s[i+1] \in A
  BY <1>1
<1>3. PICK j \in DOMAIN s : i + 1 < j /\ s[j] \in B
  BY <1>2 DEF Followed
<1>4. j - 1 \in DOMAIN Tail(s) /\ i < j - 1 /\ Tail(s)[j-1] \in B
  BY <1>1, <1>3
<1>. QED
  BY <1>4

\* New entries keep it when one of them follows, or when none of them has to be followed.
LEMMA FollowedConcat ==
    ASSUME NEW S, NEW s \in Seq(S), NEW t \in Seq(S), NEW A, NEW B,
           Followed(t, A, B),
           Followed(s, A, B) \/ \E i \in DOMAIN t : t[i] \in B
    PROVE  Followed(s \o t, A, B)
<1> DEFINE n == Len(s)
           u == s \o t
<1>1. n \in Nat /\ DOMAIN s = 1..n /\ DOMAIN t = 1..Len(t) /\ Len(t) \in Nat
  OBVIOUS
<1>2. /\ DOMAIN u = 1..(n + Len(t))
      /\ \A i \in 1..n : u[i] = s[i]
      /\ \A i \in 1..Len(t) : u[n+i] = t[i]
  <2>1. \A i \in 1..(n+Len(t)) : u[i] = IF i <= n THEN s[i] ELSE t[i-n]
    BY ConcatPlaces
  <2>2. DOMAIN u = 1..(n + Len(t))
    OBVIOUS
  <2>. QED
    BY <1>1, <2>1, <2>2
<1> HIDE DEF n, u
<1> SUFFICES ASSUME NEW i \in DOMAIN u, u[i] \in A PROVE \E j \in DOMAIN u : i < j /\ u[j] \in B
  BY DEF Followed, u
<1>3. CASE i <= n
  <2>1. i \in DOMAIN s /\ s[i] \in A
    BY <1>1, <1>2, <1>3
  <2>2. CASE Followed(s, A, B)
    <3>1. PICK j \in DOMAIN s : i < j /\ s[j] \in B
      BY <2>1, <2>2 DEF Followed
    <3>. QED
      BY <1>1, <1>2, <3>1
  <2>3. CASE \E j \in DOMAIN t : t[j] \in B
    <3>1. PICK j \in DOMAIN t : t[j] \in B
      BY <2>3
    <3>2. n + j \in DOMAIN u /\ u[n+j] \in B /\ i < n + j
      BY <1>1, <1>2, <1>3, <3>1
    <3>. QED
      BY <3>2
  <2>. QED
    BY <2>2, <2>3
<1>4. CASE i > n
  <2>1. i - n \in DOMAIN t /\ t[i-n] \in A
    BY <1>1, <1>2, <1>4
  <2>2. PICK j \in DOMAIN t : i - n < j /\ t[j] \in B
    BY <2>1 DEF Followed
  <2>3. n + j \in DOMAIN u /\ u[n+j] \in B /\ i < n + j
    BY <1>1, <1>2, <2>1, <2>2
  <2>. QED
    BY <2>3
<1>. QED
  BY <1>1, <1>2, <1>3, <1>4

LEMMA FollowedNone ==
    ASSUME NEW s, NEW A, NEW B, \A i \in DOMAIN s : s[i] \notin A
    PROVE  Followed(s, A, B)
  BY DEF Followed

\* A bounded set of numbers that is not empty has a least and a greatest element.
LEMMA Extremes ==
    ASSUME NEW n \in Nat, NEW T, T \subseteq 1..n, T # {}
    PROVE  /\ \E x \in T : \A y \in T : x <= y
           /\ \E x \in T : \A y \in T : x >= y
<1> DEFINE Low == { m \in Nat : m <= n /\ (\E x \in T : x <= m) => \E x \in T : \A y \in T : x <= y }
           Up == { m \in Nat : m <= n /\ (\E x \in T : x >= n - m) => \E x \in T : \A y \in T : x >= y }
<1>1. 0 \in Low /\ 0 \in Up
  <2>1. ~(\E x \in T : x <= 0)
    OBVIOUS
  <2>2. ASSUME NEW x \in T, x >= n - 0 PROVE \A y \in T : x >= y
    BY <2>2
  <2>. QED
    BY <2>1, <2>2
<1>2. ASSUME NEW m \in Nat, m \in Low PROVE m + 1 \in Low
  <2> SUFFICES ASSUME m + 1 <= n, NEW z \in T, z <= m + 1 PROVE \E x \in T : \A y \in T : x <= y
    OBVIOUS
  <2>1. CASE \E x \in T : x <= m
    BY <1>2, <2>1
  <2>2. CASE ~\E x \in T : x <= m
    <3>1. \A y \in T : z <= y
      BY <2>2
    <3>. QED
      BY <3>1
  <2>. QED
    BY <2>1, <2>2
<1>3. ASSUME NEW m \in Nat, m \in Up PROVE m + 1 \in Up
  <2> SUFFICES ASSUME m + 1 <= n, NEW z \in T, z >= n - (m + 1) PROVE \E x \in T : \A y \in T : x >= y
    OBVIOUS
  <2>1. CASE \E x \in T : x >= n - m
    BY <1>3, <2>1
  <2>2. CASE ~\E x \in T : x >= n - m
    <3>1. \A y \in T : z >= y
      BY <2>2
    <3>. QED
      BY <3>1
  <2>. QED
    BY <2>1, <2>2
<1>4. n \in Low /\ n \in Up
  <2> HIDE DEF Low, Up
  <2>. QED
    BY <1>1, <1>2, <1>3, Induction
<1>5. PICK z \in T : z \in 1..n
  OBVIOUS
<1>6. z <= n /\ z >= n - n
  BY <1>5
<1>. QED
  BY <1>4, <1>6

-----------------------------------------------------------------------------
(* Entries of one kind that all come before those of another kind.         *)
AllBefore(s, A, B) == \A i, j \in DOMAIN s : s[i] \in A /\ s[j] \in B => i < j

LEMMA BeforeTail ==
    ASSUME NEW S, NEW s \in Seq(S), s # <<>>, NEW A, NEW B, AllBefore(s, A, B)
    PROVE  /\ AllBefore(Tail(s), A, B)
           /\ Head(s) \in B => Number(s, A) = 0
<1>1. /\ Len(s) \in Nat \ {0} /\ DOMAIN s = 1..Len(s) /\ DOMAIN Tail(s) = 1..(Len(s) - 1)
      /\ \A j \in 1..(Len(s) - 1) : Tail(s)[j] = s[j+1]
      /\ Head(s) = s[1]
  OBVIOUS
<1>2. ASSUME NEW i \in DOMAIN Tail(s), NEW j \in DOMAIN Tail(s), Tail(s)[i] \in A, Tail(s)[j] \in B
      PROVE  i < j
  <2>1. i + 1 \in DOMAIN s /\ j + 1 \in DOMAIN s /\ s[i+1] \in A /\ s[j+1] \in B
    BY <1>1, <1>2
  <2>2. i + 1 < j + 1
    BY <2>1 DEF AllBefore
  <2>. QED
    BY <1>1, <2>2
<1>3. ASSUME Head(s) \in B PROVE Number(s, A) = 0
  <2>1. ASSUME NEW i \in DOMAIN s, s[i] \in A PROVE FALSE
    <3>1. i < 1
      BY <1>1, <1>3, <2>1 DEF AllBefore
    <3>. QED
      BY <1>1, <3>1
  <2>. QED
    BY <2>1, NumberType
<1>. QED
  BY <1>2, <1>3 DEF AllBefore

LEMMA BeforeConcat ==
    ASSUME NEW S, NEW s \in Seq(S), NEW t \in Seq(S), NEW A, NEW B,
           AllBefore(s, A, B), AllBefore(t, A, B), Number(s, B) = 0 \/ Number(t, A) = 0
    PROVE  AllBefore(s \o t, A, B)
<1> DEFINE n == Len(s)
           u == s \o t
<1>1. n \in Nat /\ DOMAIN s = 1..n /\ DOMAIN t = 1..Len(t) /\ Len(t) \in Nat
  OBVIOUS
<1>2. /\ DOMAIN u = 1..(n + Len(t))
      /\ \A i \in 1..(n+Len(t)) : u[i] = IF i <= n THEN s[i] ELSE t[i-n]
  BY ConcatPlaces
<1> HIDE DEF n, u
<1>3. (\A i \in DOMAIN s : s[i] \notin B) \/ (\A i \in DOMAIN t : t[i] \notin A)
  BY NumberType
<1> SUFFICES ASSUME NEW i \in DOMAIN u, NEW j \in DOMAIN u, u[i] \in A, u[j] \in B PROVE i < j
  BY DEF AllBefore, u
<1>4. CASE i <= n /\ j <= n
  BY <1>1, <1>2, <1>4 DEF AllBefore
<1>5. CASE i > n /\ j > n
  <2>1. i - n \in DOMAIN t /\ j - n \in DOMAIN t /\ t[i-n] \in A /\ t[j-n] \in B
    BY <1>1, <1>2, <1>5
  <2>2. i - n < j - n
    BY <2>1 DEF AllBefore
  <2>. QED
    BY <1>1, <1>2, <2>2
<1>6. CASE i <= n /\ j > n
  BY <1>1, <1>2, <1>6
<1>7. CASE i > n /\ j <= n
  <2>1. i - n \in DOMAIN t /\ t[i-n] \in A /\ j \in DOMAIN s /\ s[j] \in B
    BY <1>1, <1>2, <1>7
  <2>. QED
    BY <1>3, <2>1
<1>. QED
  BY <1>1, <1>2, <1>4, <1>5, <1>6, <1>7

LEMMA NumberPart ==
    ASSUME NEW S, NEW s \in Seq(S), NEW M, NEW N, M \subseteq N
    PROVE  Number(s, M) <= Number(s, N)
<1>1. Number(s, M \cup (N \ M)) = Number(s, M) + Number(s, N \ M)
  BY NumberUnion
<1>2. M \cup (N \ M) = N
  OBVIOUS
<1>3. Number(s, M) \in Nat /\ Number(s, N \ M) \in Nat
  BY NumberType
<1>4. Number(s, N) = Number(s, M) + Number(s, N \ M)
  BY <1>1, <1>2
<1>. QED
  BY <1>3, <1>4
=============================================================================
