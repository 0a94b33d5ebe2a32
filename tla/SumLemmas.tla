------------------------------ MODULE SumLemmas ------------------------------
(***************************************************************************)
(* Sums over finite sets, as SumFunctionOnSet of FiniteSetsExt folds them. *)
(* The fold takes the elements in the order CHOOSE picks them; from here   *)
(* on no proof depends on that order.  Induction over the set is the       *)
(* well-foundedness of < on the naturals, applied to its cardinality.      *)
(***************************************************************************)
EXTENDS Integers, FiniteSetsExt, FiniteSetTheorems, TLAPS

\* Induction over the natural numbers, for a set instead of a predicate.
LEMMA NatSetInduction ==
  ASSUME NEW G, 0 \in G, \A n \in Nat : n \in G => n + 1 \in G
  PROVE  Nat \subseteq G
<1> SUFFICES ASSUME ~(Nat \subseteq G) PROVE FALSE OBVIOUS
<1> DEFINE B == Nat \ G
<1>1. B \subseteq Nat /\ B # {} OBVIOUS
<1>2. PICK m \in B : \A k \in B : <<k, m>> \notin OpToRel(<, Nat)
  BY <1>1, WFMin, NatLessThanWellFounded, Zenon
<1>3. \A k \in Nat : k < m => k \in G
  BY <1>2 DEF OpToRel
<1>4. m # 0 OBVIOUS
<1>5. m - 1 \in Nat /\ m - 1 < m /\ (m - 1) + 1 = m BY <1>4
<1> QED BY <1>3, <1>5

\* Induction over a finite set: what holds of a set when it holds of the set
\* without any one element holds of every subset.
LEMMA SetInduction ==
  ASSUME NEW D, IsFiniteSet(D), NEW G,
         \A s \in SUBSET D : (\A x \in s : s \ {x} \in G) => s \in G
  PROVE  SUBSET D \subseteq G
<1> DEFINE N == {n \in Nat : \A s \in SUBSET D : Cardinality(s) = n => s \in G}
<1>1. \A s \in SUBSET D : IsFiniteSet(s) /\ Cardinality(s) \in Nat
  BY FS_Subset, FS_CardinalityType
<1>2. 0 \in N
  BY <1>1, FS_EmptySet
<1>3. ASSUME NEW n \in Nat, n \in N PROVE n + 1 \in N
  <2> SUFFICES ASSUME NEW s \in SUBSET D, Cardinality(s) = n + 1 PROVE s \in G
    OBVIOUS
  <2>2. ASSUME NEW x \in s PROVE s \ {x} \in G
    <3>1. Cardinality(s \ {x}) = n BY <1>1, FS_RemoveElement
    <3> QED BY <3>1, <1>3
  <2> QED BY <2>2
<1> HIDE DEF N
<1>4. Nat \subseteq N BY <1>2, <1>3, NatSetInduction
<1> QED BY <1>4, <1>1 DEF N
-----------------------------------------------------------------------------
\* The fold, with its choice of the next element named.
Picked(s) == CHOOSE x \in s : TRUE
Folded(f, it, s) == IF s = {} THEN 0 ELSE f[Picked(s)] + it[s \ {Picked(s)}]
Fold(f, S) == CHOOSE it : it = [s \in SUBSET S |-> Folded(f, it, s)]

\* A sum is the fold over all subsets, at the whole set.
LEMMA SumUnfolds ==
  ASSUME NEW f, NEW S
  PROVE  SumFunctionOnSet(f, S) = Fold(f, S)[S]
BY DEF SumFunctionOnSet, FoldFunctionOnSet, MapThenFoldSet, Fold, Folded, Picked

\* The next element is one of the set.
LEMMA PickedIsIn == ASSUME NEW s, s # {} PROVE Picked(s) \in s
BY DEF Picked

\* The recursion has a solution: one for the sets of up to n + 1 elements is
\* built from one for those of up to n.
LEMMA FoldExists ==
  ASSUME NEW f, NEW S, IsFiniteSet(S)
  PROVE  \E it : it = [s \in SUBSET S |-> Folded(f, it, s)]
<1> DEFINE Good(it, n) == \A s \in SUBSET S : Cardinality(s) <= n => it[s] = Folded(f, it, s)
           N == {n \in Nat : \E it : Good(it, n)}
<1>1. \A s \in SUBSET S : IsFiniteSet(s) /\ Cardinality(s) \in Nat
  BY FS_Subset, FS_CardinalityType
<1>2. 0 \in N
  <2> DEFINE it == [s \in SUBSET S |-> 0]
  <2>1. \A s \in SUBSET S : Cardinality(s) <= 0 => s = {} BY <1>1, FS_EmptySet
  <2>2. Good(it, 0) BY <2>1 DEF Folded
  <2> QED BY <2>2
<1>3. ASSUME NEW n \in Nat, n \in N PROVE n + 1 \in N
  <2>1. PICK it : Good(it, n) BY <1>3
  <2> DEFINE jt == [s \in SUBSET S |-> Folded(f, it, s)]
  <2>2. \A s \in SUBSET S : Cardinality(s) <= n => jt[s] = it[s] BY <2>1
  <2>3. ASSUME NEW s \in SUBSET S, Cardinality(s) <= n + 1 PROVE jt[s] = Folded(f, jt, s)
    <3>1. CASE s = {} BY <3>1 DEF Folded
    <3>2. CASE s # {}
      <4> DEFINE r == s \ {Picked(s)}
      <4>1. Picked(s) \in s BY <3>2, PickedIsIn
      <4>2. Cardinality(r) = Cardinality(s) - 1 BY <4>1, <1>1, FS_RemoveElement
      <4>3. r \in SUBSET S /\ Cardinality(r) <= n BY <4>2, <2>3, <1>1
      <4>4. jt[r] = it[r] BY <4>3, <2>2
      <4> QED BY <4>4 DEF Folded
    <3> QED BY <3>1, <3>2
  <2>4. Good(jt, n + 1) BY <2>3
  <2> HIDE DEF jt
  <2> QED BY <2>4
<1>4. Cardinality(S) \in N
  <2> HIDE DEF N
  <2> QED BY <1>2, <1>3, NatSetInduction, FS_CardinalityType
<1>5. PICK it : Good(it, Cardinality(S)) BY <1>4
<1>6. \A s \in SUBSET S : Cardinality(s) <= Cardinality(S) BY FS_Subset
<1> DEFINE jt == [s \in SUBSET S |-> it[s]]
<1>7. \A s \in SUBSET S : Folded(f, it, s) = Folded(f, jt, s)
  BY DEF Folded
<1>8. jt = [s \in SUBSET S |-> Folded(f, jt, s)]
  BY <1>5, <1>6, <1>7
<1> HIDE DEF jt
<1> QED BY <1>8

\* The fold satisfies its own recursion.
LEMMA FoldIs ==
  ASSUME NEW f, NEW S, IsFiniteSet(S)
  PROVE  \A s \in SUBSET S : Fold(f, S)[s] = Folded(f, Fold(f, S), s)
<1>1. Fold(f, S) = [s \in SUBSET S |-> Folded(f, Fold(f, S), s)]
  BY FoldExists DEF Fold
<1> DEFINE F == Fold(f, S)
<1> HIDE DEF F
<1>2. \A s \in SUBSET S : F[s] = Folded(f, F, s) BY <1>1 DEF F
<1> QED BY <1>2 DEF F

\* A sum does not depend on the set it is folded within.
LEMMA FoldsAgree ==
  ASSUME NEW f, NEW S, IsFiniteSet(S), NEW T \in SUBSET S
  PROVE  Fold(f, S)[T] = SumFunctionOnSet(f, T)
<1> DEFINE F == Fold(f, S)
           H == Fold(f, T)
           G == {s \in SUBSET T : F[s] = H[s]}
<1>1. IsFiniteSet(T) BY FS_Subset
<1>2. \A s \in SUBSET T : F[s] = Folded(f, F, s) /\ H[s] = Folded(f, H, s)
  BY <1>1, FoldIs
<1> HIDE DEF F, H
<1>3. ASSUME NEW s \in SUBSET T, \A x \in s : s \ {x} \in G PROVE s \in G
  BY <1>2, <1>3, PickedIsIn DEF Folded
<1>4. T \in G
  <2> HIDE DEF G
  <2> QED BY <1>1, <1>3, SetInduction
<1> QED BY <1>4, SumUnfolds DEF F, H

\* A sum takes out the element that is picked.
LEMMA SumPicks ==
  ASSUME NEW f, NEW S, IsFiniteSet(S), S # {}
  PROVE  SumFunctionOnSet(f, S) = f[Picked(S)] + SumFunctionOnSet(f, S \ {Picked(S)})
<1>1. SumFunctionOnSet(f, S) = Folded(f, Fold(f, S), S) BY SumUnfolds, FoldIs
<1>2. Fold(f, S)[S \ {Picked(S)}] = SumFunctionOnSet(f, S \ {Picked(S)})
  BY FoldsAgree
<1> QED BY <1>1, <1>2 DEF Folded

\* The empty sum.
LEMMA SumOfNone == ASSUME NEW f PROVE SumFunctionOnSet(f, {}) = 0
BY SumUnfolds, FoldIs, FS_EmptySet DEF Folded

\* A sum of integers is an integer.
LEMMA SumIsInt ==
  ASSUME NEW f, NEW S, IsFiniteSet(S), \A x \in S : f[x] \in Int
  PROVE  SumFunctionOnSet(f, S) \in Int
<1> DEFINE G == {s \in SUBSET S : SumFunctionOnSet(f, s) \in Int}
<1>1. ASSUME NEW s \in SUBSET S, \A x \in s : s \ {x} \in G PROVE s \in G
  <2>1. CASE s = {} BY <2>1, SumOfNone
  <2>2. CASE s # {}
    <3>1. IsFiniteSet(s) /\ Picked(s) \in s BY <2>2, PickedIsIn, FS_Subset
    <3>2. SumFunctionOnSet(f, s) = f[Picked(s)] + SumFunctionOnSet(f, s \ {Picked(s)})
      BY <2>2, <3>1, SumPicks
    <3>3. s \ {Picked(s)} \in G BY <1>1, <3>1
    <3> QED BY <3>1, <3>2, <3>3
  <2> QED BY <2>1, <2>2
<1>2. S \in G
  <2> HIDE DEF G
  <2> QED BY <1>1, SetInduction
<1> QED BY <1>2

\* A sum of naturals is a natural.
LEMMA SumIsNat ==
  ASSUME NEW f, NEW S, IsFiniteSet(S), \A x \in S : f[x] \in Nat
  PROVE  SumFunctionOnSet(f, S) \in Nat
<1> DEFINE G == {s \in SUBSET S : SumFunctionOnSet(f, s) \in Nat}
<1>1. ASSUME NEW s \in SUBSET S, \A x \in s : s \ {x} \in G PROVE s \in G
  <2>1. CASE s = {} BY <2>1, SumOfNone
  <2>2. CASE s # {}
    <3>1. IsFiniteSet(s) /\ Picked(s) \in s BY <2>2, PickedIsIn, FS_Subset
    <3>2. SumFunctionOnSet(f, s) = f[Picked(s)] + SumFunctionOnSet(f, s \ {Picked(s)})
      BY <2>2, <3>1, SumPicks
    <3>3. s \ {Picked(s)} \in G BY <1>1, <3>1
    <3> QED BY <3>1, <3>2, <3>3
  <2> QED BY <2>1, <2>2
<1>2. S \in G
  <2> HIDE DEF G
  <2> QED BY <1>1, SetInduction
<1> QED BY <1>2

\* Any element may be taken out first: the sum does not depend on the order.
LEMMA SumTakesOut ==
  ASSUME NEW f, NEW S, IsFiniteSet(S), \A x \in S : f[x] \in Int, NEW x \in S
  PROVE  SumFunctionOnSet(f, S) = f[x] + SumFunctionOnSet(f, S \ {x})
<1> DEFINE Sum(s) == SumFunctionOnSet(f, s)
           G == {s \in SUBSET S : \A y \in s : Sum(s) = f[y] + Sum(s \ {y})}
<1>0. \A s \in SUBSET S : IsFiniteSet(s) /\ Sum(s) \in Int BY FS_Subset, SumIsInt
<1>1. ASSUME NEW s \in SUBSET S, \A y \in s : s \ {y} \in G PROVE s \in G
  <2> SUFFICES ASSUME NEW y \in s PROVE Sum(s) = f[y] + Sum(s \ {y}) OBVIOUS
  <2> DEFINE p == Picked(s)
  <2>1. p \in s BY PickedIsIn
  <2>2. Sum(s) = f[p] + Sum(s \ {p}) BY <1>0, SumPicks
  <2>3. CASE y = p BY <2>2, <2>3
  <2>4. CASE y # p
    <3> HIDE DEF Sum, p
    <3>1. Sum(s \ {p}) = f[y] + Sum((s \ {p}) \ {y}) BY <1>1, <2>1, <2>4
    <3>2. Sum(s \ {y}) = f[p] + Sum((s \ {y}) \ {p}) BY <1>1, <2>1, <2>4
    <3>3. (s \ {p}) \ {y} = (s \ {y}) \ {p} OBVIOUS
    <3>4. f[y] \in Int /\ f[p] \in Int /\ Sum((s \ {y}) \ {p}) \in Int BY <1>0, <2>1
    <3>5. Sum((s \ {p}) \ {y}) = Sum((s \ {y}) \ {p}) BY <3>3
    <3> QED BY <3>1, <3>2, <3>4, <3>5, <2>2
  <2> QED BY <2>3, <2>4
<1>2. S \in G
  <2> HIDE DEF G
  <2> QED BY <1>1, SetInduction
<1> QED BY <1>2

\* Equal summands give equal sums.
LEMMA SumsAgree ==
  ASSUME NEW f, NEW g, NEW S, IsFiniteSet(S), \A x \in S : f[x] = g[x]
  PROVE  SumFunctionOnSet(f, S) = SumFunctionOnSet(g, S)
<1> DEFINE G == {s \in SUBSET S : SumFunctionOnSet(f, s) = SumFunctionOnSet(g, s)}
<1>1. ASSUME NEW s \in SUBSET S, \A x \in s : s \ {x} \in G PROVE s \in G
  <2>1. CASE s = {} BY <2>1, SumOfNone
  <2>2. CASE s # {}
    <3>1. IsFiniteSet(s) /\ Picked(s) \in s BY <2>2, PickedIsIn, FS_Subset
    <3>2. /\ SumFunctionOnSet(f, s) = f[Picked(s)] + SumFunctionOnSet(f, s \ {Picked(s)})
          /\ SumFunctionOnSet(g, s) = g[Picked(s)] + SumFunctionOnSet(g, s \ {Picked(s)})
      BY <2>2, <3>1, SumPicks
    <3>3. s \ {Picked(s)} \in G BY <1>1, <3>1
    <3> QED BY <3>1, <3>2, <3>3
  <2> QED BY <2>1, <2>2
<1>2. S \in G
  <2> HIDE DEF G
  <2> QED BY <1>1, SetInduction
<1> QED BY <1>2

\* The sum over two disjoint sets.
LEMMA SumOfUnion ==
  ASSUME NEW f, NEW S, IsFiniteSet(S), NEW T, IsFiniteSet(T), S \cap T = {},
         \A x \in S \cup T : f[x] \in Int
  PROVE  SumFunctionOnSet(f, S \cup T) = SumFunctionOnSet(f, S) + SumFunctionOnSet(f, T)
<1> DEFINE Sum(s) == SumFunctionOnSet(f, s)
           G == {t \in SUBSET T : Sum(S \cup t) = Sum(S) + Sum(t)}
<1>1. \A t \in SUBSET T : IsFiniteSet(t) /\ IsFiniteSet(S \cup t)
  BY FS_Subset, FS_Union
<1>2. \A t \in SUBSET T : Sum(t) \in Int /\ Sum(S) \in Int
  BY <1>1, SumIsInt
<1>3. \A U : IsFiniteSet(U) /\ (\A y \in U : f[y] \in Int) =>
        \A x \in U : Sum(U) = f[x] + Sum(U \ {x})
  BY SumTakesOut
<1>4. Sum({}) = 0 BY SumOfNone
<1> HIDE DEF Sum
<1>5. ASSUME NEW t \in SUBSET T, \A x \in t : t \ {x} \in G PROVE t \in G
  <2>1. CASE t = {}
    <3>1. S \cup t = S BY <2>1
    <3>2. Sum(S \cup t) = Sum(S) + Sum(t) BY <1>2, <1>4, <2>1, <3>1
    <3> QED BY <3>2
  <2>2. CASE t # {}
    <3>1. PICK x \in t : TRUE BY <2>2
    <3>2. (S \cup t) \ {x} = S \cup (t \ {x}) OBVIOUS
    <3>3. Sum(S \cup t) = f[x] + Sum((S \cup t) \ {x}) BY <1>1, <1>3
    <3>4. Sum(t) = f[x] + Sum(t \ {x}) BY <1>1, <1>3
    <3>5. Sum(S \cup (t \ {x})) = Sum(S) + Sum(t \ {x}) BY <1>5, <3>1
    <3>6. f[x] \in Int /\ Sum(S) \in Int /\ Sum(t \ {x}) \in Int BY <1>2, <3>1
    <3>7. Sum((S \cup t) \ {x}) = Sum(S \cup (t \ {x})) BY <3>2
    <3>8. Sum(S \cup t) = Sum(S) + Sum(t) BY <3>3, <3>4, <3>5, <3>6, <3>7
    <3> QED BY <3>8
  <2> QED BY <2>1, <2>2
<1>6. T \in G
  <2> HIDE DEF G
  <2> QED BY <1>5, SetInduction
<1> QED BY <1>6 DEF Sum

\* The sum of sums, summand by summand.
LEMMA SumOfSums ==
  ASSUME NEW S, IsFiniteSet(S), NEW f, NEW g, NEW h,
         \A x \in S : f[x] \in Int /\ g[x] \in Int /\ h[x] = f[x] + g[x]
  PROVE  SumFunctionOnSet(h, S) = SumFunctionOnSet(f, S) + SumFunctionOnSet(g, S)
<1> DEFINE G == {s \in SUBSET S :
                   SumFunctionOnSet(h, s) = SumFunctionOnSet(f, s) + SumFunctionOnSet(g, s)}
<1>0. \A s \in SUBSET S : IsFiniteSet(s) BY FS_Subset
<1>1. ASSUME NEW s \in SUBSET S, \A x \in s : s \ {x} \in G PROVE s \in G
  <2>1. CASE s = {} BY <2>1, SumOfNone
  <2>2. CASE s # {}
    <3>1. PICK x \in s : TRUE BY <2>2
    <3>2. /\ \A y \in s : f[y] \in Int
          /\ \A y \in s : g[y] \in Int
          /\ \A y \in s : h[y] \in Int
      OBVIOUS
    <3>3. /\ SumFunctionOnSet(f, s) = f[x] + SumFunctionOnSet(f, s \ {x})
          /\ SumFunctionOnSet(g, s) = g[x] + SumFunctionOnSet(g, s \ {x})
          /\ SumFunctionOnSet(h, s) = h[x] + SumFunctionOnSet(h, s \ {x})
      BY <1>0, <3>1, <3>2, SumTakesOut
    <3>4. SumFunctionOnSet(f, s \ {x}) \in Int /\ SumFunctionOnSet(g, s \ {x}) \in Int
      BY <1>0, <3>2, SumIsInt
    <3>5. SumFunctionOnSet(h, s \ {x}) = SumFunctionOnSet(f, s \ {x}) + SumFunctionOnSet(g, s \ {x})
      BY <1>1, <3>1
    <3>6. f[x] \in Int /\ g[x] \in Int /\ h[x] = f[x] + g[x] BY <3>1
    <3> QED BY <3>3, <3>4, <3>5, <3>6
  <2> QED BY <2>1, <2>2
<1>2. S \in G
  <2> HIDE DEF G
  <2> QED BY <1>1, SetInduction
<1> QED BY <1>2

\* The sum of one summand.
LEMMA SumOfOne ==
  ASSUME NEW f, NEW x, f[x] \in Int
  PROVE  SumFunctionOnSet(f, {x}) = f[x]
<1>1. IsFiniteSet({x}) /\ {x} \ {x} = {}
  BY FS_Singleton
<1>2. SumFunctionOnSet(f, {x}) = f[x] + SumFunctionOnSet(f, {x} \ {x})
  BY <1>1, SumTakesOut
<1> QED BY <1>1, <1>2, SumOfNone

\* One summand more.
LEMMA SumExtends ==
  ASSUME NEW f, NEW g, NEW S, IsFiniteSet(S), NEW x, x \notin S,
         \A y \in S : f[y] \in Int /\ g[y] = f[y], g[x] \in Int
  PROVE  SumFunctionOnSet(g, S \cup {x}) = SumFunctionOnSet(f, S) + g[x]
<1>1. IsFiniteSet({x}) /\ S \cap {x} = {} /\ \A y \in S \cup {x} : g[y] \in Int
  BY FS_Singleton
<1>2. SumFunctionOnSet(g, S \cup {x}) = SumFunctionOnSet(g, S) + SumFunctionOnSet(g, {x})
  BY <1>1, SumOfUnion
<1>3. SumFunctionOnSet(g, S) = SumFunctionOnSet(f, S)
  BY SumsAgree
<1> QED BY <1>2, <1>3, SumOfOne

\* Larger summands give a larger sum.
LEMMA SumIsMonotone ==
  ASSUME NEW S, IsFiniteSet(S), NEW f, NEW g,
         \A x \in S : f[x] \in Int /\ g[x] \in Int /\ f[x] <= g[x]
  PROVE  SumFunctionOnSet(f, S) <= SumFunctionOnSet(g, S)
<1> DEFINE d == [x \in S |-> g[x] - f[x]]
<1>1. \A x \in S : f[x] \in Int /\ d[x] \in Int /\ g[x] = f[x] + d[x] OBVIOUS
<1>2. \A x \in S : d[x] \in Nat OBVIOUS
<1> HIDE DEF d
<1>3. SumFunctionOnSet(g, S) = SumFunctionOnSet(f, S) + SumFunctionOnSet(d, S)
  BY <1>1, SumOfSums
<1>4. SumFunctionOnSet(d, S) \in Nat /\ SumFunctionOnSet(f, S) \in Int
  BY <1>1, <1>2, SumIsNat, SumIsInt
<1> QED BY <1>3, <1>4

\* A sum of zeros.
LEMMA SumOfZeros ==
  ASSUME NEW f, NEW S, IsFiniteSet(S), \A x \in S : f[x] = 0
  PROVE  SumFunctionOnSet(f, S) = 0
<1>1. SumFunctionOnSet(f, S) = SumFunctionOnSet(f, S) + SumFunctionOnSet(f, S)
  BY SumOfSums
<1>2. PICK n \in Int : n = SumFunctionOnSet(f, S) BY SumIsInt
<1>3. n = n + n BY <1>1, <1>2
<1>4. n = 0 BY <1>3
<1> QED BY <1>2, <1>4

\* A part of a sum of naturals is at most the whole.
LEMMA SumOfPart ==
  ASSUME NEW f, NEW S, IsFiniteSet(S), NEW T \in SUBSET S, \A x \in S : f[x] \in Nat
  PROVE  SumFunctionOnSet(f, T) <= SumFunctionOnSet(f, S)
<1>1. IsFiniteSet(T) /\ IsFiniteSet(S \ T) BY FS_Subset
<1>2. S = T \cup (S \ T) /\ T \cap (S \ T) = {} OBVIOUS
<1>3. SumFunctionOnSet(f, S) = SumFunctionOnSet(f, T) + SumFunctionOnSet(f, S \ T)
  BY <1>1, <1>2, SumOfUnion
<1>4. SumFunctionOnSet(f, T) \in Nat /\ SumFunctionOnSet(f, S \ T) \in Nat
  BY <1>1, SumIsNat
<1> QED BY <1>3, <1>4

\* Two functions that differ in one place.
LEMMA SumChanges ==
  ASSUME NEW f, NEW g, NEW S, IsFiniteSet(S), NEW x \in S,
         \A y \in S : f[y] \in Int /\ g[y] \in Int, \A y \in S \ {x} : g[y] = f[y]
  PROVE  SumFunctionOnSet(g, S) = SumFunctionOnSet(f, S) - f[x] + g[x]
<1>1. /\ SumFunctionOnSet(f, S) = f[x] + SumFunctionOnSet(f, S \ {x})
      /\ SumFunctionOnSet(g, S) = g[x] + SumFunctionOnSet(g, S \ {x})
  BY SumTakesOut
<1>2. IsFiniteSet(S \ {x}) BY FS_Subset
<1>3. SumFunctionOnSet(f, S \ {x}) = SumFunctionOnSet(g, S \ {x}) BY <1>2, SumsAgree
<1>4. SumFunctionOnSet(f, S \ {x}) \in Int BY <1>2, SumIsInt
<1> QED BY <1>1, <1>3, <1>4

\* A sum over groups is the sum of the sums of the groups.  The groups and
\* their union are given by what is in them.
LEMMA SumOfGroups ==
  ASSUME NEW S, IsFiniteSet(S), NEW f, \A x \in S : f[x] \in Int, NEW g,
         NEW R, IsFiniteSet(R), NEW One, NEW All \in SUBSET S, NEW h,
         \A r \in R : One[r] \subseteq S /\ \A x \in S : x \in One[r] <=> g[x] = r,
         \A x \in S : x \in All <=> g[x] \in R,
         \A r \in R : h[r] = SumFunctionOnSet(f, One[r])
  PROVE  SumFunctionOnSet(h, R) = SumFunctionOnSet(f, All)
<1> DEFINE Of(s) == {x \in S : g[x] \in s}
           G == {s \in SUBSET R : SumFunctionOnSet(h, s) = SumFunctionOnSet(f, Of(s))}
<1>1. \A s : IsFiniteSet(Of(s)) /\ \A x \in Of(s) : f[x] \in Int
  <2>1. \A s : Of(s) \in SUBSET S OBVIOUS
  <2> HIDE DEF Of
  <2> QED BY <2>1, FS_Subset
<1>2. \A r \in R : IsFiniteSet(One[r]) /\ \A x \in One[r] : f[x] \in Int
  BY FS_Subset
<1>3. \A r \in R : h[r] = SumFunctionOnSet(f, One[r]) /\ h[r] \in Int
  BY <1>2, SumIsInt
<1>4. ASSUME NEW s \in SUBSET R, \A r \in s : s \ {r} \in G PROVE s \in G
  <2>1. CASE s = {}
    <3>1. Of(s) = {} BY <2>1
    <3>2. SumFunctionOnSet(h, s) = 0 /\ SumFunctionOnSet(f, Of(s)) = 0
      BY <2>1, <3>1, SumOfNone
    <3> QED BY <3>2
  <2>2. CASE s # {}
    <3>1. PICK r \in s : TRUE BY <2>2
    <3>2. /\ Of(s) = Of(s \ {r}) \cup One[r] /\ Of(s \ {r}) \cap One[r] = {}
      OBVIOUS
    <3>3. IsFiniteSet(s) /\ \A q \in s : h[q] \in Int BY <1>3, FS_Subset
    <3>4. SumFunctionOnSet(h, s) = h[r] + SumFunctionOnSet(h, s \ {r})
      BY <3>1, <3>3, SumTakesOut
    <3>5. SumFunctionOnSet(f, Of(s)) = SumFunctionOnSet(f, Of(s \ {r})) + SumFunctionOnSet(f, One[r])
      <4> HIDE DEF Of
      <4>1. IsFiniteSet(Of(s \ {r})) /\ IsFiniteSet(One[r]) BY <1>1, <1>2
      <4>2. \A x \in Of(s \ {r}) \cup One[r] : f[x] \in Int BY <1>1, <1>2
      <4> DEFINE rest == Of(s \ {r})
                 group == One[r]
      <4>3. /\ IsFiniteSet(rest) /\ IsFiniteSet(group) /\ rest \cap group = {}
            /\ \A x \in rest \cup group : f[x] \in Int
        BY <3>2, <4>1, <4>2
      <4> HIDE DEF rest, group
      <4>4. SumFunctionOnSet(f, rest \cup group) = SumFunctionOnSet(f, rest) + SumFunctionOnSet(f, group)
        BY <4>3, SumOfUnion
      <4> QED BY <3>2, <4>4 DEF rest, group
    <3>6. SumFunctionOnSet(h, s \ {r}) = SumFunctionOnSet(f, Of(s \ {r})) BY <1>4, <3>1
    <3>7. SumFunctionOnSet(f, Of(s \ {r})) \in Int
      <4> HIDE DEF Of
      <4> QED BY <1>1, SumIsInt
    <3>8. h[r] = SumFunctionOnSet(f, One[r]) /\ h[r] \in Int BY <1>3, <3>1
    <3> HIDE DEF Of
    <3>9. SumFunctionOnSet(h, s) = SumFunctionOnSet(f, Of(s)) BY <3>4, <3>5, <3>6, <3>7, <3>8
    <3> QED BY <3>9
  <2> QED BY <2>1, <2>2
<1>5. R \in G
  <2> HIDE DEF G
  <2> QED BY <1>4, SetInduction
<1>6. Of(R) = All
  OBVIOUS
<1> QED BY <1>5, <1>6
=============================================================================
