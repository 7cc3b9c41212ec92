------------------------- MODULE AggregateTheorems -------------------------
(***************************************************************************)
(* Facts about what the models take of finite sets: sums of a function     *)
(* over a set, and the greatest element of a set of numbers.  They need    *)
(* induction over finite sets, which is here the existence of a smallest   *)
(* member in every set of counterexamples.                                 *)
(***************************************************************************)
EXTENDS Integers, FiniteSets, FiniteSetsExt, Functions, FiniteSetTheorems,
        WellFoundedInduction, TLAPS

\* The proper subset relation is well founded on the subsets of a finite set:
\* every non-empty set of them has a smallest member.
LEMMA SmallestSubset ==
  ASSUME NEW S, IsFiniteSet(S), NEW T \in SUBSET (SUBSET S), T # {}
  PROVE  \E s \in T : \A r \in T : r \subseteq s => r = s
<1>1. IsWellFoundedOn(StrictSubsetOrdering(S), FiniteSubsetsOf(S))
  BY FS_StrictSubsetOrderingWellFounded
<1>2. T \subseteq FiniteSubsetsOf(S)
  BY FS_FiniteSubsetsOfFinite
<1>3. PICK s \in T : \A r \in T : ~ (<<r, s>> \in StrictSubsetOrdering(S))
  BY <1>1, <1>2, WFMin
<1>4. ASSUME NEW r \in T, r \subseteq s, r # s
      PROVE  <<r, s>> \in StrictSubsetOrdering(S)
  BY <1>4, SMT DEF StrictSubsetOrdering
<1>5. \A r \in T : r \subseteq s => r = s
  BY <1>3, <1>4
<1> QED BY <1>5

\* The function that a sum is computed with: on each subset of S, the sum of f.
Pick(s) == CHOOSE x \in s : TRUE
SumStep(g, f, s) == IF s = {} THEN 0 ELSE f[Pick(s)] + g[s \ {Pick(s)}]
Sums(g, f, S) == g = [s \in SUBSET S |-> SumStep(g, f, s)]

\* The sum is the last entry of a function that adds one member at a time.
LEMMA SumUnfolded ==
  ASSUME NEW f, NEW S
  PROVE  SumFunctionOnSet(f, S) = (CHOOSE g : Sums(g, f, S))[S]
BY DEF SumFunctionOnSet, FoldFunctionOnSet, MapThenFoldSet, Sums, SumStep, Pick

\* The member a sum takes next is a member.
LEMMA PickIn == ASSUME NEW s, s # {} PROVE Pick(s) \in s
BY DEF Pick

\* f summed up in steps: g[s] for every subset s of S.
SumsOn(g, f, S) == \A s \in SUBSET S : g[s] = SumStep(g, f, s)

\* There is at most one such function,
LEMMA SumsUnique ==
  ASSUME NEW S, IsFiniteSet(S), NEW f, NEW g, NEW h, SumsOn(g, f, S), SumsOn(h, f, S)
  PROVE  \A s \in SUBSET S : g[s] = h[s]
<1> DEFINE T == {s \in SUBSET S : g[s] # h[s]}
<1> SUFFICES ASSUME T # {} PROVE FALSE
  OBVIOUS
<1>1. PICK s \in T : \A r \in T : r \subseteq s => r = s
  <2>1. T \in SUBSET (SUBSET S)
    OBVIOUS
  <2> HIDE DEF T
  <2> QED BY <2>1, SmallestSubset
<1>2. /\ s \in SUBSET S /\ g[s] # h[s]
      /\ g[s] = SumStep(g, f, s) /\ h[s] = SumStep(h, f, s)
  BY <1>1 DEF SumsOn
<1>3. s # {}
  BY <1>2 DEF SumStep
<1>4. Pick(s) \in s /\ s \ {Pick(s)} \in SUBSET S /\ s \ {Pick(s)} # s
  BY <1>2, <1>3, PickIn
<1>5. g[s \ {Pick(s)}] = h[s \ {Pick(s)}]
  BY <1>1, <1>4
<1> QED BY <1>2, <1>3, <1>5 DEF SumStep

\* and there is one.
LEMMA SumsExist ==
  ASSUME NEW S, IsFiniteSet(S), NEW f
  PROVE  \E g : SumsOn(g, f, S)
<1> DEFINE T == {s \in SUBSET S : ~ \E g : SumsOn(g, f, s)}
           G(r) == CHOOSE g : SumsOn(g, f, r)
<1> SUFFICES ASSUME T # {} PROVE FALSE
  BY DEF SumsOn
<1>1. PICK s \in T : \A r \in T : r \subseteq s => r = s
  <2>1. T \in SUBSET (SUBSET S)
    OBVIOUS
  <2> HIDE DEF T
  <2> QED BY <2>1, SmallestSubset
<1>2. s \in SUBSET S /\ ~ \E g : SumsOn(g, f, s)
  BY <1>1
<1>3. \A r \in SUBSET s : r # s => SumsOn(G(r), f, r)
  <2> SUFFICES ASSUME NEW r \in SUBSET s, r # s PROVE \E g : SumsOn(g, f, r)
    OBVIOUS
  <2> QED BY <1>1, <1>2
<1> DEFINE g == [r \in SUBSET s |->
                   IF r # s THEN G(r)[r]
                   ELSE IF s = {} THEN 0 ELSE f[Pick(s)] + G(s \ {Pick(s)})[s \ {Pick(s)}]]
<1> HIDE DEF T, G
<1>4. ASSUME NEW r \in SUBSET s PROVE g[r] = SumStep(g, f, r)
  <2>1. CASE r = s
    <3>1. CASE s = {}
      BY <2>1, <3>1 DEF SumStep
    <3>2. CASE s # {}
      <4>1. Pick(s) \in s /\ s \ {Pick(s)} \in SUBSET s /\ s \ {Pick(s)} # s
        BY <3>2, PickIn
      <4>2. g[s \ {Pick(s)}] = G(s \ {Pick(s)})[s \ {Pick(s)}]
        BY <4>1
      <4>3. g[s] = f[Pick(s)] + G(s \ {Pick(s)})[s \ {Pick(s)}]
        BY <3>2
      <4> QED BY <2>1, <3>2, <4>2, <4>3 DEF SumStep
    <3> QED BY <3>1, <3>2
  <2>2. CASE r # s
    <3>1. g[r] = G(r)[r] /\ G(r)[r] = SumStep(G(r), f, r)
      BY <2>2, <1>3 DEF SumsOn
    <3>2. CASE r = {}
      BY <3>1, <3>2 DEF SumStep
    <3>3. CASE r # {}
      <4> DEFINE q == r \ {Pick(r)}
      <4>1. q \in SUBSET r /\ q \in SUBSET s /\ q # s /\ IsFiniteSet(q)
        BY <1>2, <2>2, <3>3, PickIn, FS_Subset
      <4>2. SumsOn(G(q), f, q) /\ SumsOn(G(r), f, r)
        BY <4>1, <1>3, <2>2
      <4>3. SumsOn(G(r), f, q)
        BY <4>1, <4>2 DEF SumsOn
      <4>4. G(r)[q] = G(q)[q]
        <5> HIDE DEF q
        <5> QED BY <4>1, <4>2, <4>3, SumsUnique
      <4>5. g[q] = G(q)[q]
        BY <4>1
      <4> QED BY <3>1, <3>3, <4>4, <4>5 DEF SumStep
    <3> QED BY <3>2, <3>3
  <2> QED BY <2>1, <2>2
<1>5. SumsOn(g, f, s)
  BY <1>4 DEF SumsOn
<1> QED BY <1>2, <1>5

\* A sum over a finite set, one element at a time.
LEMMA SumByPick ==
  ASSUME NEW S, IsFiniteSet(S), NEW f
  PROVE  /\ S = {} => SumFunctionOnSet(f, S) = 0
         /\ S # {} => SumFunctionOnSet(f, S)
                        = f[Pick(S)] + SumFunctionOnSet(f, S \ {Pick(S)})
<1> DEFINE G(s) == CHOOSE g : Sums(g, f, s)
<1>1. ASSUME NEW s, IsFiniteSet(s) PROVE SumsOn(G(s), f, s)
  <2>1. PICK h : SumsOn(h, f, s)
    BY <1>1, SumsExist
  <2> DEFINE k == [r \in SUBSET s |-> h[r]]
  <2>2. ASSUME NEW r \in SUBSET s PROVE h[r] = SumStep(k, f, r)
    <3>1. h[r] = SumStep(h, f, r)
      BY <2>1 DEF SumsOn
    <3>2. r # {} => r \ {Pick(r)} \in SUBSET s
      OBVIOUS
    <3> QED BY <3>1, <3>2 DEF SumStep
  <2>3. Sums(k, f, s)
    BY <2>2 DEF Sums
  <2>4. Sums(G(s), f, s)
    BY <2>3
  <2> HIDE DEF G
  <2> QED BY <2>4 DEF Sums, SumsOn
<1>2. SumFunctionOnSet(f, S) = G(S)[S] /\ G(S)[S] = SumStep(G(S), f, S)
  BY <1>1, SumUnfolded DEF SumsOn
<1>3. CASE S = {}
  BY <1>2, <1>3 DEF SumStep
<1>4. CASE S # {}
  <2> DEFINE q == S \ {Pick(S)}
  <2>1. q \in SUBSET S /\ IsFiniteSet(q)
    BY FS_Subset
  <2>2. SumsOn(G(q), f, q) /\ SumsOn(G(S), f, S)
    BY <1>1, <2>1
  <2>3. SumsOn(G(S), f, q)
    BY <2>1, <2>2 DEF SumsOn
  <2>4. G(S)[q] = G(q)[q]
    <3> HIDE DEF q, G
    <3> QED BY <2>1, <2>2, <2>3, SumsUnique
  <2>5. SumFunctionOnSet(f, q) = G(q)[q]
    BY SumUnfolded
  <2> QED BY <1>2, <1>4, <2>4, <2>5 DEF SumStep
<1> QED BY <1>3, <1>4

\* A sum does not depend on the order: any element may be taken first.
THEOREM SumRemove ==
  ASSUME NEW S, IsFiniteSet(S), NEW f, \A x \in S : f[x] \in Int
  PROVE  /\ SumFunctionOnSet(f, S) \in Int
         /\ S = {} => SumFunctionOnSet(f, S) = 0
         /\ \A x \in S : SumFunctionOnSet(f, S) = f[x] + SumFunctionOnSet(f, S \ {x})
<1> DEFINE Sum(s) == SumFunctionOnSet(f, s)
           P(s) == /\ Sum(s) \in Int
                   /\ \A x \in s : Sum(s) = f[x] + Sum(s \ {x})
           T == {s \in SUBSET S : ~ P(s)}
<1>1. ASSUME NEW s \in SUBSET S
      PROVE  /\ s = {} => Sum(s) = 0
             /\ s # {} => Sum(s) = f[Pick(s)] + Sum(s \ {Pick(s)})
  BY FS_Subset, SumByPick
<1>2. ASSUME T # {} PROVE FALSE
  <2>1. PICK s \in T : \A r \in T : r \subseteq s => r = s
    <3>1. T \in SUBSET (SUBSET S)
      OBVIOUS
    <3> HIDE DEF T
    <3> QED BY <1>2, <3>1, SmallestSubset
  <2>2. s \in SUBSET S /\ ~ P(s)
    BY <2>1
  <2>3. \A r \in SUBSET s : r # s => P(r)
    BY <2>1, <2>2
  <2> HIDE DEF T
  <2>4. s # {}
    <3> SUFFICES ASSUME s = {} PROVE FALSE
      OBVIOUS
    <3>1. Sum(s) = 0
      BY <1>1, <2>2
    <3> QED BY <2>2, <3>1
  <2> DEFINE c == Pick(s)
  <2>5. c \in s /\ s \ {c} \in SUBSET s /\ s \ {c} # s
    BY <2>4, PickIn
  <2>6. Sum(s) = f[c] + Sum(s \ {c})
    BY <1>1, <2>2, <2>4
  <2>7. P(s \ {c})
    BY <2>3, <2>5
  <2> HIDE DEF c, Sum
  <2>8. f[c] \in Int /\ Sum(s) \in Int
    BY <2>2, <2>5, <2>6, <2>7
  <2>9. ASSUME NEW x \in s PROVE Sum(s) = f[x] + Sum(s \ {x})
    <3>1. CASE x = c
      BY <2>6, <3>1
    <3>2. CASE x # c
      <4>1. Sum(s \ {c}) = f[x] + Sum((s \ {c}) \ {x})
        BY <2>7, <3>2
      <4>2. P(s \ {x}) /\ P((s \ {c}) \ {x})
        <5>1. s \ {x} \in SUBSET s /\ s \ {x} # s
          OBVIOUS
        <5>2. (s \ {c}) \ {x} \in SUBSET s /\ (s \ {c}) \ {x} # s
          OBVIOUS
        <5> HIDE DEF P
        <5> QED BY <2>3, <5>1, <5>2
      <4>3. Sum(s \ {x}) = f[c] + Sum((s \ {x}) \ {c})
        BY <4>2, <2>5, <3>2
      <4>4. Sum((s \ {x}) \ {c}) = Sum((s \ {c}) \ {x})
        <5>1. (s \ {x}) \ {c} = (s \ {c}) \ {x}
          OBVIOUS
        <5> QED BY <5>1
      <4>5. f[x] \in Int /\ Sum((s \ {c}) \ {x}) \in Int
        BY <2>2, <4>2
      <4> QED BY <2>6, <2>8, <4>1, <4>3, <4>4, <4>5
    <3> QED BY <3>1, <3>2
  <2> QED BY <2>2, <2>8, <2>9
<1>3. P(S) /\ (S = {} => Sum(S) = 0)
  BY <1>1, <1>2
<1> QED BY <1>3

\* f may change outside S,
THEOREM SumSame ==
  ASSUME NEW S, IsFiniteSet(S), NEW f, NEW g, \A x \in S : f[x] \in Int /\ g[x] = f[x]
  PROVE  SumFunctionOnSet(g, S) = SumFunctionOnSet(f, S)
<1> DEFINE T == {s \in SUBSET S : SumFunctionOnSet(g, s) # SumFunctionOnSet(f, s)}
<1> SUFFICES ASSUME T # {} PROVE FALSE
  OBVIOUS
<1>1. PICK s \in T : \A r \in T : r \subseteq s => r = s
  <2>1. T \in SUBSET (SUBSET S)
    OBVIOUS
  <2> HIDE DEF T
  <2> QED BY <2>1, SmallestSubset
<1>2. s \in SUBSET S /\ IsFiniteSet(s) /\ SumFunctionOnSet(g, s) # SumFunctionOnSet(f, s)
  BY <1>1, FS_Subset
<1>3. /\ s = {} => SumFunctionOnSet(f, s) = 0 /\ SumFunctionOnSet(g, s) = 0
      /\ \A x \in s : /\ SumFunctionOnSet(f, s) = f[x] + SumFunctionOnSet(f, s \ {x})
                      /\ SumFunctionOnSet(g, s) = g[x] + SumFunctionOnSet(g, s \ {x})
  <2>1. \A x \in s : f[x] \in Int /\ g[x] \in Int
    BY <1>2
  <2> QED BY <1>2, <2>1, SumRemove
<1>4. PICK x \in s : TRUE
  BY <1>2, <1>3
<1>5. SumFunctionOnSet(g, s \ {x}) = SumFunctionOnSet(f, s \ {x})
  BY <1>1, <1>2, <1>4
<1> HIDE DEF T
<1> QED BY <1>2, <1>3, <1>4, <1>5

\* and a change at one element of S changes the sum by as much.
THEOREM SumChange ==
  ASSUME NEW S, IsFiniteSet(S), NEW f, NEW g, NEW x \in S,
         \A y \in S : f[y] \in Int /\ g[y] \in Int /\ (y # x => g[y] = f[y])
  PROVE  /\ SumFunctionOnSet(f, S) \in Int
         /\ SumFunctionOnSet(g, S) = SumFunctionOnSet(f, S) + g[x] - f[x]
<1> DEFINE R == S \ {x}
<1>1. IsFiniteSet(R) /\ \A y \in R : f[y] \in Int /\ g[y] = f[y]
  BY FS_Subset
<1>2. SumFunctionOnSet(g, R) = SumFunctionOnSet(f, R)
  <2> HIDE DEF R
  <2> QED BY <1>1, SumSame
<1>3. /\ SumFunctionOnSet(f, S) = f[x] + SumFunctionOnSet(f, R)
      /\ SumFunctionOnSet(f, S) \in Int
  <2>1. \A y \in S : f[y] \in Int
    OBVIOUS
  <2> QED BY <2>1, SumRemove
<1>4. SumFunctionOnSet(g, S) = g[x] + SumFunctionOnSet(g, R)
  <2>1. \A y \in S : g[y] \in Int
    OBVIOUS
  <2> QED BY <2>1, SumRemove
<1>5. SumFunctionOnSet(f, R) \in Int
  <2>1. \A y \in R : f[y] \in Int
    BY <1>1
  <2> QED BY <1>1, <2>1, SumRemove
<1>6. f[x] \in Int /\ g[x] \in Int
  OBVIOUS
<1> HIDE DEF R
<1> QED BY <1>2, <1>3, <1>4, <1>5, <1>6

\* Who contributes at most one, and nothing outside A, sums up to at most the
\* size of A.
THEOREM SumAtMostCardinality ==
  ASSUME NEW S, IsFiniteSet(S), NEW f, NEW A,
         \A x \in S : f[x] \in Int /\ f[x] <= 1 /\ (x \notin A => f[x] <= 0)
  PROVE  SumFunctionOnSet(f, S) <= Cardinality(S \cap A)
<1> DEFINE T == {s \in SUBSET S : ~ (SumFunctionOnSet(f, s) <= Cardinality(s \cap A))}
<1> SUFFICES ASSUME T # {} PROVE FALSE
  OBVIOUS
<1>1. PICK s \in T : \A r \in T : r \subseteq s => r = s
  <2>1. T \in SUBSET (SUBSET S)
    OBVIOUS
  <2> HIDE DEF T
  <2> QED BY <2>1, SmallestSubset
<1>2. /\ s \in SUBSET S /\ IsFiniteSet(s)
      /\ ~ (SumFunctionOnSet(f, s) <= Cardinality(s \cap A))
  BY <1>1, FS_Subset
<1>3. /\ s = {} => SumFunctionOnSet(f, s) = 0
      /\ \A x \in s : SumFunctionOnSet(f, s) = f[x] + SumFunctionOnSet(f, s \ {x})
  BY <1>2, SumRemove
<1>4. s # {}
  <2> SUFFICES ASSUME s = {} PROVE FALSE
    OBVIOUS
  <2>1. Cardinality(s \cap A) = 0
    <3>1. s \cap A = {}
      OBVIOUS
    <3> QED BY <3>1, FS_EmptySet
  <2> QED BY <1>2, <1>3, <2>1
<1>5. PICK x \in s : TRUE
  BY <1>4
<1> DEFINE q == s \ {x}
<1>6. q \in SUBSET S /\ IsFiniteSet(q) /\ q # s /\ q \subseteq s
  BY <1>2, <1>5, FS_Subset
<1>7. SumFunctionOnSet(f, q) <= Cardinality(q \cap A)
  BY <1>1, <1>6
<1>8. SumFunctionOnSet(f, q) \in Int
  BY <1>6, SumRemove
<1> HIDE DEF T
<1>9. IsFiniteSet(s \cap A) /\ IsFiniteSet(q \cap A)
  BY <1>2, <1>6, FS_Subset, FS_Intersection
<1>10. Cardinality(s \cap A) \in Nat /\ Cardinality(q \cap A) \in Nat
  BY <1>9, FS_CardinalityType
<1>11. f[x] \in Int /\ f[x] <= 1 /\ (x \notin A => f[x] <= 0)
  BY <1>2, <1>5
<1>12. CASE x \in A
  <2>1. q \cap A = (s \cap A) \ {x} /\ x \in s \cap A
    BY <1>5, <1>12
  <2>2. Cardinality(q \cap A) = Cardinality(s \cap A) - 1
    BY <1>9, <2>1, FS_RemoveElement
  <2> HIDE DEF q
  <2> QED BY <1>2, <1>3, <1>5, <1>7, <1>8, <1>10, <1>11, <2>2 DEF q
<1>13. CASE x \notin A
  <2>1. q \cap A = s \cap A
    BY <1>13
  <2>2. f[x] <= 0 /\ SumFunctionOnSet(f, s) = f[x] + SumFunctionOnSet(f, q)
    BY <1>3, <1>5, <1>11, <1>13
  <2> HIDE DEF q
  <2> QED BY <1>2, <1>7, <1>8, <1>10, <1>11, <2>1, <2>2
<1> QED BY <1>12, <1>13

\* The sum of nothing but zeros.
THEOREM SumOfZeros ==
  ASSUME NEW S, IsFiniteSet(S), NEW f, \A x \in S : f[x] = 0
  PROVE  SumFunctionOnSet(f, S) = 0
<1> DEFINE T == {s \in SUBSET S : SumFunctionOnSet(f, s) # 0}
<1> SUFFICES ASSUME T # {} PROVE FALSE
  OBVIOUS
<1>1. PICK s \in T : \A r \in T : r \subseteq s => r = s
  <2>1. T \in SUBSET (SUBSET S)
    OBVIOUS
  <2> HIDE DEF T
  <2> QED BY <2>1, SmallestSubset
<1>2. s \in SUBSET S /\ IsFiniteSet(s) /\ SumFunctionOnSet(f, s) # 0
  BY <1>1, FS_Subset
<1>3. /\ s = {} => SumFunctionOnSet(f, s) = 0
      /\ \A x \in s : SumFunctionOnSet(f, s) = f[x] + SumFunctionOnSet(f, s \ {x})
  BY <1>2, SumRemove
<1>4. PICK x \in s : TRUE
  BY <1>2, <1>3
<1>5. SumFunctionOnSet(f, s \ {x}) = 0
  BY <1>1, <1>2, <1>4
<1>6. f[x] = 0
  BY <1>2, <1>4
<1> HIDE DEF T
<1> QED BY <1>2, <1>3, <1>4, <1>5, <1>6

\* What is not negative sums up to no less when there is more of it.
THEOREM SumSubset ==
  ASSUME NEW S, IsFiniteSet(S), NEW f, \A x \in S : f[x] \in Nat
  PROVE  \A R \in SUBSET S : /\ SumFunctionOnSet(f, R) \in Nat
                             /\ SumFunctionOnSet(f, R) <= SumFunctionOnSet(f, S)
<1> DEFINE Sum(s) == SumFunctionOnSet(f, s)
           P(s) == \A r \in SUBSET s : Sum(r) \in Nat /\ Sum(r) <= Sum(s)
           T == {s \in SUBSET S : ~ P(s)}
<1> SUFFICES ASSUME T # {} PROVE FALSE
  OBVIOUS
<1>1. PICK s \in T : \A r \in T : r \subseteq s => r = s
  <2>1. T \in SUBSET (SUBSET S)
    OBVIOUS
  <2> HIDE DEF T
  <2> QED BY <2>1, SmallestSubset
<1>2. s \in SUBSET S /\ IsFiniteSet(s) /\ ~ P(s)
  BY <1>1, FS_Subset
<1>3. \A r \in SUBSET s : r # s => P(r)
  BY <1>1, <1>2
<1>4. /\ s = {} => Sum(s) = 0
      /\ \A x \in s : Sum(s) = f[x] + Sum(s \ {x})
  <2>1. \A x \in s : f[x] \in Int
    BY <1>2
  <2> QED BY <1>2, <2>1, SumRemove
<1>5. ASSUME NEW x \in s PROVE Sum(s) \in Nat /\ Sum(s \ {x}) <= Sum(s)
  <2> DEFINE q == s \ {x}
  <2>1. q \in SUBSET s /\ q # s
    BY <1>5
  <2>2. Sum(q) \in Nat
    BY <1>3, <2>1
  <2>3. f[x] \in Nat /\ Sum(s) = f[x] + Sum(q)
    BY <1>2, <1>4
  <2> HIDE DEF q, Sum
  <2>4. Sum(s) \in Nat /\ Sum(q) <= Sum(s)
    BY <2>2, <2>3
  <2> QED BY <2>4 DEF q
<1>6. Sum(s) \in Nat
  <2>1. CASE s = {}
    BY <1>4, <2>1
  <2>2. CASE s # {}
    BY <1>5, <2>2
  <2> QED BY <2>1, <2>2
<1>7. ASSUME NEW r \in SUBSET s PROVE Sum(r) \in Nat /\ Sum(r) <= Sum(s)
  <2>1. CASE r = s
    <3> HIDE DEF Sum
    <3> QED BY <1>6, <2>1
  <2>2. CASE r # s
    <3>1. PICK x \in s : x \notin r
      BY <1>7, <2>2
    <3> DEFINE q == s \ {x}
    <3>2. q \in SUBSET s /\ q # s /\ r \in SUBSET q
      BY <3>1, <1>7
    <3>3. Sum(r) \in Nat /\ Sum(r) <= Sum(q) /\ Sum(q) \in Nat
      <4>1. P(q)
        BY <1>3, <3>2
      <4> HIDE DEF q, Sum
      <4> QED BY <3>2, <4>1
    <3>4. Sum(q) <= Sum(s)
      BY <1>5
    <3> HIDE DEF q, Sum
    <3> QED BY <1>6, <3>3, <3>4
  <2> QED BY <2>1, <2>2
<1>8. P(s)
  BY <1>7
<1> QED BY <1>2, <1>8

\* A non-empty finite set of integers has a greatest element.
THEOREM MaxIsGreatest ==
  ASSUME NEW S, IsFiniteSet(S)
  PROVE  S # {} /\ S \subseteq Int => Max(S) \in S /\ \A x \in S : x <= Max(S)
<1>0. \A U \in SUBSET (SUBSET S) :
        U # {} => \E s \in U : \A r \in U : r \subseteq s => r = s
  BY SmallestSubset
<1> SUFFICES ASSUME S \subseteq Int, S # {} PROVE Max(S) \in S /\ \A x \in S : x <= Max(S)
  OBVIOUS
<1> DEFINE T == {s \in SUBSET S : s # {} /\ ~ \E x \in s : \A y \in s : y <= x}
<1>1. T = {}
  <2> SUFFICES ASSUME T # {} PROVE FALSE
    OBVIOUS
  <2>1. PICK s \in T : \A r \in T : r \subseteq s => r = s
    <3>1. T \in SUBSET (SUBSET S)
      OBVIOUS
    <3> HIDE DEF T
    <3> QED BY <1>0, <3>1, Zenon
  <2>2. s \in SUBSET S /\ s # {} /\ ~ \E x \in s : \A y \in s : y <= x
    BY <2>1
  <2>3. PICK x \in s : TRUE
    BY <2>2
  <2> DEFINE q == s \ {x}
  <2>4. q \notin T /\ q \in SUBSET S
    BY <2>1, <2>2, <2>3
  <2>5. CASE q = {}
    <3>1. \A y \in s : y <= x
      BY <2>2, <2>3, <2>5
    <3> QED BY <2>2, <2>3, <3>1
  <2>6. CASE q # {}
    <3>1. PICK z \in q : \A y \in q : y <= z
      BY <2>4, <2>6
    <3>2. x \in Int /\ z \in Int /\ z \in s /\ s \subseteq Int
      BY <2>2, <2>3, <2>4, <3>1
    <3>3. \A y \in s : y = x \/ y <= z
      BY <3>1
    <3>4. CASE x <= z
      BY <2>2, <3>2, <3>3, <3>4
    <3>5. CASE z <= x
      <4>1. \A y \in s : y <= x
        BY <3>2, <3>3, <3>5
      <4> QED BY <2>2, <4>1
    <3> QED BY <3>2, <3>4, <3>5
  <2> QED BY <2>5, <2>6
<1>2. \E x \in S : \A y \in S : y <= x
  BY <1>1
<1>3. \E x \in S : \A y \in S : x >= y
  BY <1>2
<1>4. Max(S) \in S /\ \A y \in S : Max(S) >= y
  <2>1. Max(S) = CHOOSE x \in S : \A y \in S : x >= y
    BY DEF Max
  <2> QED BY <1>3, <2>1, Zenon
<1> QED BY <1>4

\* The smaller of two integers.
LEMMA LeastOfTwo ==
  \A a, b \in Int : Min({a, b}) \in {a, b} /\ Min({a, b}) <= a /\ Min({a, b}) <= b
<1> SUFFICES ASSUME NEW a \in Int, NEW b \in Int
             PROVE  Min({a, b}) \in {a, b} /\ Min({a, b}) <= a /\ Min({a, b}) <= b
  OBVIOUS
<1>1. \E x \in {a, b} : \A y \in {a, b} : x =< y
  OBVIOUS
<1>2. Min({a, b}) = CHOOSE x \in {a, b} : \A y \in {a, b} : x =< y
  BY DEF Min
<1>3. Min({a, b}) \in {a, b} /\ \A y \in {a, b} : Min({a, b}) =< y
  BY <1>1, <1>2, Zenon
<1> QED BY <1>3
=============================================================================
