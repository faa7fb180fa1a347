----------------------------- MODULE ListProofs -----------------------------
(***************************************************************************)
(* What Ascending and Kept return, for any finite set of numbers and any   *)
(* list.                                                                   *)
(***************************************************************************)
EXTENDS Lists, FiniteSetTheorems, TLAPS

\* Every set of numbers has a least one.
LEMMA LeastOf ==
  ASSUME NEW S, S \subseteq Nat, S # {}
  PROVE  \E x \in S : \A y \in S : x <= y
<1>1. PICK x \in S : \A y \in S : <<y, x>> \notin OpToRel(<, Nat)
  BY NatLessThanWellFounded, WFMin
<1>2. \A y \in S : ~ (y < x)
  BY <1>1, Zenon DEF OpToRel
<1>3. \A y \in S : x <= y
  BY <1>2, SMT
<1> QED BY <1>3

\* f lists S in ascending order.
Enumerates(f, S) ==
  /\ f \in [1..Cardinality(S) -> S]
  /\ \A i, j \in 1..Cardinality(S) : i < j => f[i] < f[j]

\* Every finite set of numbers has such a list.
LEMMA EnumerationExists ==
  ASSUME NEW S, IsFiniteSet(S), S \subseteq Nat
  PROVE  \E f : Enumerates(f, S)
<1> DEFINE Bad == {n \in Nat : \E T : /\ IsFiniteSet(T) /\ T \subseteq Nat
                                      /\ Cardinality(T) = n
                                      /\ ~ \E f : Enumerates(f, T)}
<1>1. SUFFICES Bad = {}
  BY <1>1, FS_CardinalityType
<1>2. SUFFICES ASSUME Bad # {} PROVE FALSE
  OBVIOUS
<1>3. PICK n \in Bad : \A m \in Bad : n <= m
  <2> HIDE DEF Bad
  <2>1. Bad \subseteq Nat
    BY DEF Bad
  <2> QED BY <1>2, <2>1, LeastOf
<1>4. PICK T : /\ IsFiniteSet(T) /\ T \subseteq Nat /\ Cardinality(T) = n
               /\ ~ \E f : Enumerates(f, T)
  OBVIOUS
<1>5. n \in Nat
  OBVIOUS
<1>6. CASE T = {}
  <2>1. Cardinality(T) = 0
    BY <1>6, FS_EmptySet
  <2>2. Enumerates([i \in 1..0 |-> i], T)
    BY <2>1 DEF Enumerates
  <2> QED BY <1>4, <2>2
<1>7. CASE T # {}
  <2>1. PICK m \in T : \A y \in T : m <= y
    BY <1>4, <1>7, LeastOf
  <2> DEFINE R == T \ {m}
  <2>2. IsFiniteSet(R) /\ Cardinality(R) = n - 1 /\ R \subseteq Nat
    BY <1>4, <2>1, FS_RemoveElement
  <2>3. n - 1 \in Nat
    BY <2>2, FS_CardinalityType
  <2>4. n - 1 \notin Bad
    BY <1>3, <1>5
  <2>5. PICK g : Enumerates(g, R)
    BY <2>2, <2>3, <2>4
  <2> HIDE DEF Bad
  <2> DEFINE f == [i \in 1..n |-> IF i = 1 THEN m ELSE g[i - 1]]
  <2>6. \A i \in 2..n : g[i - 1] \in R
    <3>1. g \in [1..(n - 1) -> R]
      BY <2>2, <2>5 DEF Enumerates
    <3>2. \A i \in 2..n : i - 1 \in 1..(n - 1)
      BY <1>5
    <3> QED BY <3>1, <3>2
  <2>7. f \in [1..n -> T]
    BY <2>6, <1>5
  <2>8. ASSUME NEW i \in 1..n, NEW j \in 1..n, i < j PROVE f[i] < f[j]
    <3>1. CASE i = 1
      <4>1. f[i] = m /\ f[j] = g[j - 1] /\ g[j - 1] \in R
        <5>1. j \in 2..n /\ j # 1
          BY <3>1, <2>8, <1>5
        <5> QED BY <3>1, <5>1, <2>6, <1>5
      <4>2. m \in Nat /\ g[j - 1] \in Nat /\ m <= g[j - 1] /\ m # g[j - 1]
        BY <4>1, <2>1, <1>4
      <4> HIDE DEF f
      <4> QED BY <4>1, <4>2
    <3>2. CASE i # 1
      <4>1. f[i] = g[i - 1] /\ f[j] = g[j - 1]
        BY <3>2, <2>8, <1>5
      <4>2. i - 1 \in 1..Cardinality(R) /\ j - 1 \in 1..Cardinality(R) /\ i - 1 < j - 1
        BY <3>2, <2>8, <2>2, <1>5
      <4> QED BY <4>1, <4>2, <2>5 DEF Enumerates
    <3> QED BY <3>1, <3>2
  <2>9. Enumerates(f, T)
    BY <2>7, <2>8, <1>4 DEF Enumerates
  <2> QED BY <2>9, <1>4
<1> QED BY <1>6, <1>7

\* What a list of a set's elements in ascending order is.
LEMMA AscendingLists ==
  ASSUME NEW S, IsFiniteSet(S), S \subseteq Nat
  PROVE  /\ Cardinality(S) \in Nat
         /\ Ascending(S) \in [1..Cardinality(S) -> S]
         /\ \A i, j \in 1..Cardinality(S) : i < j => Ascending(S)[i] < Ascending(S)[j]
         /\ \A i, j \in 1..Cardinality(S) : Ascending(S)[i] = Ascending(S)[j] => i = j
         /\ \A x \in S : \E i \in 1..Cardinality(S) : Ascending(S)[i] = x
<1>1. Cardinality(S) \in Nat
  BY FS_CardinalityType
<1>2. Enumerates(Ascending(S), S)
  BY EnumerationExists DEF Ascending, Enumerates
<1> DEFINE a == Ascending(S)
           n == Cardinality(S)
<1> HIDE DEF a, n
<1>3. /\ a \in [1..n -> S]
      /\ \A i, j \in 1..n : i < j => a[i] < a[j]
  BY <1>2 DEF Enumerates, a, n
<1>4. ASSUME NEW i \in 1..n, NEW j \in 1..n, a[i] = a[j] PROVE i = j
  <2>1. a[i] \in Nat /\ a[j] \in Nat
    BY <1>3
  <2>2. ~ (i < j) /\ ~ (j < i)
    BY <1>3, <1>4, <2>1
  <2> QED BY <2>2, <1>1 DEF n
<1>5. a \in Injection(1..n, S)
  BY <1>3, <1>4 DEF Injection, IsInjective
<1>6. Cardinality(1..n) = n
  BY <1>1, FS_Interval DEF n
<1>7. a \in Surjection(1..n, S)
  BY <1>5, <1>6, FS_Injection DEF n
<1>8. \A x \in S : \E i \in 1..n : a[i] = x
  BY <1>7 DEF Surjection
<1> QED BY <1>1, <1>3, <1>4, <1>8 DEF a, n

\* Kept keeps the places of I, and their order.
LEMMA KeptPlaces ==
  ASSUME NEW T, NEW list \in Seq(T), NEW I, I \subseteq DOMAIN list
  PROVE  /\ Kept(list, I) \in Seq(T)
         /\ Len(Kept(list, I)) <= Len(list)
         /\ \E at \in [1..Len(Kept(list, I)) -> I] :
              /\ \A k \in 1..Len(Kept(list, I)) : Kept(list, I)[k] = list[at[k]]
              /\ \A j, k \in 1..Len(Kept(list, I)) : j < k => at[j] < at[k]
              /\ \A i \in I : \E k \in 1..Len(Kept(list, I)) : at[k] = i
<1> DEFINE a == Ascending(I)
           n == Cardinality(I)
           kept == [k \in 1..n |-> list[a[k]]]
<1>1. DOMAIN list = 1..Len(list) /\ Len(list) \in Nat
  OBVIOUS
<1> DEFINE m == Len(list)
<1>2. IsFiniteSet(1..m) /\ Cardinality(1..m) = m
  <2> HIDE DEF m
  <2>1. m \in Nat
    BY <1>1 DEF m
  <2> QED BY <2>1, FS_Interval
<1>3. IsFiniteSet(I) /\ I \subseteq Nat /\ n <= Len(list)
  <2>1. I \in SUBSET (1..m)
    BY <1>1
  <2> QED BY <1>1, <1>2, <2>1, FS_Subset
<1>4. /\ n \in Nat
      /\ a \in [1..n -> I]
      /\ \A i, j \in 1..n : i < j => a[i] < a[j]
      /\ \A x \in I : \E i \in 1..n : a[i] = x
  BY <1>3, AscendingLists
<1> HIDE DEF a, n
<1>5. kept \in Seq(T) /\ Len(kept) = n /\ DOMAIN kept = 1..n
  <2>1. \A k \in 1..n : list[a[k]] \in T
    BY <1>4
  <2> QED BY <2>1, <1>4
<1>6. \A k \in 1..n : kept[k] = list[a[k]]
  OBVIOUS
<1>7. Kept(list, I) = kept
  BY DEF Kept, a, n
<1> HIDE DEF kept
<1> QED BY <1>3, <1>4, <1>5, <1>6, <1>7, ZenonT(120)
=============================================================================
