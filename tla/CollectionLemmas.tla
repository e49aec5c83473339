-------------------------- MODULE CollectionLemmas --------------------------
(* Facts about the collections that the caches are made of: sums over      *)
(* finite sets, lists without repetitions and largest elements.  The       *)
(* definitions they are about (MapThenSumSet, RemoveAt, Front, Range, Max) *)
(* are those of the community modules.                                     *)
EXTENDS Integers, SequencesExt, SequenceTheorems, FiniteSetTheorems, WellFoundedInduction, TLAPS

----------------------------------------------------------------------------
(* Induction, stated with a set in place of a predicate.                   *)

LEMMA NatSetInduction ==
  ASSUME NEW T, 0 \in T, \A n \in Nat : n \in T => n + 1 \in T
  PROVE  Nat \subseteq T
<1> SUFFICES ASSUME Nat \ T # {} PROVE FALSE
  OBVIOUS
<1> DEFINE R == OpToRel(<, Nat)
<1>1. PICK x \in Nat \ T : \A y \in Nat \ T : ~(<<y, x>> \in R)
  <2>1. IsWellFoundedOn(R, Nat)
    BY NatLessThanWellFounded
  <2> HIDE DEF R
  <2> QED
    BY <2>1, WFMin
<1>2. x # 0 /\ x - 1 \in Nat
  OBVIOUS
<1>3. <<x - 1, x>> \in R
  BY <1>2 DEF OpToRel
<1>4. x - 1 \in T
  BY <1>1, <1>2, <1>3
<1> QED
  BY <1>2, <1>4

----------------------------------------------------------------------------
(* Sums.                                                                   *)

\* The sum of f over S.
Total(f, S) == MapThenSumSet(LAMBDA k : f[k], S)

\* The element that a sum over s takes out first, and the recursion it follows.
One(s) == CHOOSE x \in s : TRUE
Turn(f, g, s) == IF s = {} THEN 0 ELSE f[One(s)] + g[s \ {One(s)}]
Solves(f, D, g) == g = [s \in D |-> Turn(f, g, s)]

\* The subsets of S with up to n elements.
Small(S, n) == {s \in SUBSET S : Cardinality(s) <= n}

LEMMA OneIsIn ==
  ASSUME NEW s, s # {}
  PROVE  One(s) \in s
  BY DEF One

LEMMA WithoutOne ==
  ASSUME NEW S, IsFiniteSet(S), NEW s \in SUBSET S, s # {}, NEW n \in Nat, Cardinality(s) <= n + 1
  PROVE  s \ {One(s)} \in Small(S, n)
<1>1. IsFiniteSet(s) /\ One(s) \in s
  BY FS_Subset, OneIsIn
<1>2. Cardinality(s) \in Nat /\ Cardinality(s \ {One(s)}) = Cardinality(s) - 1
  BY <1>1, FS_RemoveElement, FS_CardinalityType
<1> QED
  BY <1>2 DEF Small

LEMMA OnlyEmptyIsSmall ==
  ASSUME NEW S, IsFiniteSet(S), NEW s \in Small(S, 0)
  PROVE  s = {}
<1>1. IsFiniteSet(s) /\ Cardinality(s) <= 0
  BY FS_Subset DEF Small
<1> QED
  BY <1>1, FS_EmptySet, FS_CardinalityType

LEMMA RecursionHasSolution ==
  ASSUME NEW f, NEW S, IsFiniteSet(S)
  PROVE  \E g : Solves(f, SUBSET S, g)
<1> DEFINE T == {n \in Nat : \E g : Solves(f, Small(S, n), g)}
<1>1. 0 \in T
  <2> DEFINE g == [s \in Small(S, 0) |-> 0]
  <2>1. ASSUME NEW s \in Small(S, 0) PROVE s = {}
    BY OnlyEmptyIsSmall
  <2>2. [s \in Small(S, 0) |-> 0] = [s \in Small(S, 0) |-> Turn(f, g, s)]
    BY <2>1 DEF Turn
  <2>3. Solves(f, Small(S, 0), g)
    BY <2>2 DEF Solves
  <2> QED
    BY <2>3
<1>2. ASSUME NEW n \in Nat, n \in T PROVE n + 1 \in T
  <2>1. PICK g : Solves(f, Small(S, n), g)
    BY <1>2
  <2> DEFINE h == [s \in Small(S, n + 1) |-> Turn(f, g, s)]
  <2>2. ASSUME NEW s \in Small(S, n) PROVE h[s] = g[s]
    <3>1. s \in Small(S, n + 1)
      BY FS_Subset, FS_CardinalityType DEF Small
    <3>2. g[s] = Turn(f, g, s)
      BY <2>1 DEF Solves
    <3> QED
      BY <3>1, <3>2
  <2>3. ASSUME NEW s \in Small(S, n + 1) PROVE Turn(f, g, s) = Turn(f, h, s)
    <3>1. CASE s = {}
      BY <3>1 DEF Turn
    <3>2. CASE s # {}
      <4>1. s \ {One(s)} \in Small(S, n)
        BY <3>2, WithoutOne DEF Small
      <4>2. h[s \ {One(s)}] = g[s \ {One(s)}]
        BY <2>2, <4>1
      <4> HIDE DEF h
      <4> QED
        BY <4>2 DEF Turn
    <3> QED
      BY <3>1, <3>2
  <2>4. Solves(f, Small(S, n + 1), h)
    <3>1. h = [s \in Small(S, n + 1) |-> Turn(f, h, s)]
      BY <2>3
    <3> QED
      BY <3>1 DEF Solves
  <2> QED
    BY <2>4
<1>3. Cardinality(S) \in T
  <2> HIDE DEF T
  <2> QED
    BY <1>1, <1>2, NatSetInduction, FS_CardinalityType
<1>4. Small(S, Cardinality(S)) = SUBSET S
  BY FS_Subset DEF Small
<1> QED
  BY <1>3, <1>4

\* Total follows the recursion it is defined by.
LEMMA TotalSolves ==
  ASSUME NEW f, NEW S, IsFiniteSet(S)
  PROVE  \E g : Solves(f, SUBSET S, g) /\ Total(f, S) = g[S]
<1> DEFINE g == CHOOSE h : Solves(f, SUBSET S, h)
<1>1. Solves(f, SUBSET S, g)
  BY RecursionHasSolution
<1>2. Total(f, S) = g[S]
  BY DEF Total, MapThenSumSet, MapThenFoldSet, Solves, Turn, One
<1> QED
  BY <1>1, <1>2

LEMMA SolutionsAgree ==
  ASSUME NEW f, NEW S, NEW U, NEW g, NEW h, IsFiniteSet(S), U \subseteq S,
         Solves(f, SUBSET S, g), Solves(f, SUBSET U, h)
  PROVE  g[U] = h[U]
<1> DEFINE T == {n \in Nat : \A s \in Small(U, n) : g[s] = h[s]}
<1>1. IsFiniteSet(U)
  BY FS_Subset
<1>2. ASSUME NEW s \in SUBSET U PROVE g[s] = Turn(f, g, s) /\ h[s] = Turn(f, h, s)
  BY DEF Solves
<1>3. 0 \in T
  <2>1. ASSUME NEW s \in Small(U, 0) PROVE s = {}
    BY <1>1, OnlyEmptyIsSmall
  <2> QED
    BY <1>2, <2>1 DEF Turn
<1>4. ASSUME NEW n \in Nat, n \in T PROVE n + 1 \in T
  <2> SUFFICES ASSUME NEW s \in Small(U, n + 1) PROVE g[s] = h[s]
    OBVIOUS
  <2>1. CASE s = {}
    BY <1>2, <2>1 DEF Turn, Small
  <2>2. CASE s # {}
    <3>1. s \ {One(s)} \in Small(U, n)
      BY <1>1, <2>2, WithoutOne DEF Small
    <3>2. g[s \ {One(s)}] = h[s \ {One(s)}]
      BY <1>4, <3>1
    <3> QED
      BY <1>2, <2>2, <3>2 DEF Turn, Small
  <2> QED
    BY <2>1, <2>2
<1>5. Cardinality(U) \in T
  <2> HIDE DEF T
  <2> QED
    BY <1>1, <1>3, <1>4, NatSetInduction, FS_CardinalityType
<1>6. U \in Small(U, Cardinality(U))
  BY <1>1, FS_CardinalityType DEF Small
<1> QED
  BY <1>5, <1>6

LEMMA TotalEmpty ==
  ASSUME NEW f
  PROVE  Total(f, {}) = 0
<1>1. PICK g : Solves(f, SUBSET {}, g) /\ Total(f, {}) = g[{}]
  BY TotalSolves, FS_EmptySet
<1>2. g[{}] = Turn(f, g, {})
  BY <1>1 DEF Solves
<1> QED
  BY <1>1, <1>2 DEF Turn

LEMMA SolutionIsTotal ==
  ASSUME NEW f, NEW S, NEW U, NEW g, IsFiniteSet(S), U \subseteq S, Solves(f, SUBSET S, g)
  PROVE  g[U] = Total(f, U)
<1>1. PICK h : Solves(f, SUBSET U, h) /\ Total(f, U) = h[U]
  BY TotalSolves, FS_Subset
<1> QED
  BY <1>1, SolutionsAgree

LEMMA TotalTurn ==
  ASSUME NEW f, NEW S, IsFiniteSet(S), S # {}
  PROVE  Total(f, S) = f[One(S)] + Total(f, S \ {One(S)})
<1>1. PICK g : Solves(f, SUBSET S, g) /\ Total(f, S) = g[S]
  BY TotalSolves
<1>2. g[S] = f[One(S)] + g[S \ {One(S)}]
  BY <1>1 DEF Solves, Turn
<1>3. S \ {One(S)} \subseteq S
  OBVIOUS
<1> QED
  BY <1>1, <1>2, <1>3, SolutionIsTotal

LEMMA TotalIsNat ==
  ASSUME NEW D, NEW f \in [D -> Nat], NEW S \in SUBSET D, IsFiniteSet(S)
  PROVE  Total(f, S) \in Nat
<1> DEFINE T == {n \in Nat : \A s \in Small(S, n) : Total(f, s) \in Nat}
<1>1. 0 \in T
  <2>1. ASSUME NEW s \in Small(S, 0) PROVE s = {}
    BY OnlyEmptyIsSmall
  <2> QED
    BY <2>1, TotalEmpty
<1>2. ASSUME NEW n \in Nat, n \in T PROVE n + 1 \in T
  <2> SUFFICES ASSUME NEW s \in Small(S, n + 1) PROVE Total(f, s) \in Nat
    OBVIOUS
  <2>1. CASE s = {}
    BY <2>1, TotalEmpty
  <2>2. CASE s # {}
    <3>1. s \ {One(s)} \in Small(S, n) /\ One(s) \in D /\ IsFiniteSet(s)
      BY <2>2, WithoutOne, OneIsIn, FS_Subset DEF Small
    <3>2. Total(f, s \ {One(s)}) \in Nat
      BY <1>2, <3>1
    <3>3. Total(f, s) = f[One(s)] + Total(f, s \ {One(s)})
      BY <2>2, <3>1, TotalTurn
    <3> QED
      BY <3>1, <3>2, <3>3
  <2> QED
    BY <2>1, <2>2
<1>3. Cardinality(S) \in T
  <2> HIDE DEF T
  <2> QED
    BY <1>1, <1>2, NatSetInduction, FS_CardinalityType
<1>4. S \in Small(S, Cardinality(S))
  BY FS_CardinalityType DEF Small
<1> QED
  BY <1>3, <1>4

(* The sum does not depend on the order in which elements are taken.       *)
LEMMA TotalWithout ==
  ASSUME NEW D, NEW f \in [D -> Nat], NEW S \in SUBSET D, IsFiniteSet(S), NEW k \in S
  PROVE  Total(f, S) = f[k] + Total(f, S \ {k})
<1> DEFINE T == {n \in Nat : \A s \in Small(S, n) : \A j \in s : Total(f, s) = f[j] + Total(f, s \ {j})}
<1>1. 0 \in T
  <2>1. ASSUME NEW s \in Small(S, 0) PROVE s = {}
    BY OnlyEmptyIsSmall
  <2> QED
    BY <2>1
<1>2. ASSUME NEW n \in Nat, n \in T PROVE n + 1 \in T
  <2> SUFFICES ASSUME NEW s \in Small(S, n + 1), NEW j \in s
               PROVE  Total(f, s) = f[j] + Total(f, s \ {j})
    OBVIOUS
  <2> DEFINE o == One(s)
  <2>1. s \ {o} \in Small(S, n) /\ o \in s /\ s \subseteq D /\ IsFiniteSet(s)
    BY WithoutOne, OneIsIn, FS_Subset DEF Small
  <2>2. Total(f, s) = f[o] + Total(f, s \ {o})
    BY <2>1, TotalTurn
  <2>3. CASE j = o
    BY <2>2, <2>3
  <2>4. CASE j # o
    <3>1. Total(f, s \ {o}) = f[j] + Total(f, (s \ {o}) \ {j})
      BY <1>2, <2>1, <2>4
    <3>2. s \ {j} \in Small(S, n)
      <4>1. Cardinality(s \ {j}) = Cardinality(s) - 1 /\ Cardinality(s) \in Nat
        BY <2>1, FS_RemoveElement, FS_CardinalityType
      <4> QED
        BY <4>1 DEF Small
    <3>3. (s \ {j}) \ {o} = (s \ {o}) \ {j}
      OBVIOUS
    <3>4. Total(f, s \ {j}) = f[o] + Total(f, (s \ {o}) \ {j})
      BY <1>2, <2>1, <2>4, <3>2, <3>3
    <3>5. IsFiniteSet((s \ {o}) \ {j}) /\ (s \ {o}) \ {j} \in SUBSET D
      BY <2>1, FS_Subset
    <3>6. Total(f, (s \ {o}) \ {j}) \in Nat
      BY <3>5, TotalIsNat
    <3>7. f[j] \in Nat /\ f[o] \in Nat
      BY <2>1
    <3>8. \A a, b, c \in Nat : a + (b + c) = b + (a + c)
      OBVIOUS
    <3> QED
      BY <2>2, <3>1, <3>4, <3>6, <3>7, <3>8
  <2> QED
    BY <2>3, <2>4
<1>3. Cardinality(S) \in T
  <2> HIDE DEF T
  <2> QED
    BY <1>1, <1>2, NatSetInduction, FS_CardinalityType
<1>4. S \in Small(S, Cardinality(S))
  BY FS_CardinalityType DEF Small
<1> QED
  BY <1>3, <1>4
(* A sum is split between a part of the set and the rest.                  *)
LEMMA TotalSplit ==
  ASSUME NEW D, NEW f \in [D -> Nat], NEW S \in SUBSET D, IsFiniteSet(S), NEW U \in SUBSET S
  PROVE  Total(f, S) = Total(f, S \ U) + Total(f, U)
<1> DEFINE T == {n \in Nat : \A s \in Small(U, n) : Total(f, S) = Total(f, S \ s) + Total(f, s)}
<1>0. IsFiniteSet(U) /\ Total(f, S) \in Nat
  BY FS_Subset, TotalIsNat
<1>1. 0 \in T
  <2>1. ASSUME NEW s \in Small(U, 0) PROVE s = {}
    BY <1>0, OnlyEmptyIsSmall
  <2>2. S \ {} = S
    OBVIOUS
  <2>3. Total(f, S) = Total(f, S \ {}) + Total(f, {})
    BY <1>0, <2>2, TotalEmpty
  <2> QED
    BY <2>1, <2>3
<1>2. ASSUME NEW n \in Nat, n \in T PROVE n + 1 \in T
  <2> SUFFICES ASSUME NEW s \in Small(U, n + 1) PROVE Total(f, S) = Total(f, S \ s) + Total(f, s)
    OBVIOUS
  <2>1. CASE s = {}
    <3>1. S \ {} = S
      OBVIOUS
    <3> QED
      BY <1>0, <2>1, <3>1, TotalEmpty
  <2>2. CASE s # {}
    <3>1. PICK o : o = One(s)
      OBVIOUS
    <3>2. s \ {o} \in Small(U, n) /\ o \in s /\ s \subseteq U /\ IsFiniteSet(s)
      BY <1>0, <2>2, <3>1, WithoutOne, OneIsIn, FS_Subset DEF Small
    <3>3. Total(f, S) = Total(f, S \ (s \ {o})) + Total(f, s \ {o})
      BY <1>2, <3>2
    <3>4. o \in S \ (s \ {o}) /\ (S \ (s \ {o})) \ {o} = S \ s /\ s \in SUBSET D
      BY <3>2
    <3>5. IsFiniteSet(S \ (s \ {o})) /\ IsFiniteSet(S \ s) /\ IsFiniteSet(s \ {o})
      BY <3>2, FS_Subset
    <3>6. Total(f, S \ (s \ {o})) = f[o] + Total(f, S \ s)
      BY <3>4, <3>5, TotalWithout
    <3>7. Total(f, s) = f[o] + Total(f, s \ {o})
      BY <3>2, <3>4, TotalWithout
    <3>8. Total(f, S \ s) \in Nat /\ Total(f, s \ {o}) \in Nat /\ f[o] \in Nat
      BY <3>2, <3>4, <3>5, TotalIsNat
    <3>9. \A a, b, c \in Nat : (a + b) + c = b + (a + c)
      OBVIOUS
    <3> QED
      BY <3>3, <3>6, <3>7, <3>8, <3>9
  <2> QED
    BY <2>1, <2>2
<1>3. Cardinality(U) \in T
  <2> HIDE DEF T
  <2> QED
    BY <1>0, <1>1, <1>2, NatSetInduction, FS_CardinalityType
<1>4. U \in Small(U, Cardinality(U))
  BY <1>0, FS_CardinalityType DEF Small
<1> QED
  BY <1>3, <1>4

\* Finite sets of numbers are bounded.
LEMMA FiniteIsBounded ==
  ASSUME NEW S \in SUBSET Nat, IsFiniteSet(S)
  PROVE  \E n \in Nat : \A i \in S : i <= n
<1> DEFINE T == {m \in Nat : \A s \in Small(S, m) : \E n \in Nat : \A i \in s : i <= n}
<1>1. 0 \in T
  <2>1. ASSUME NEW s \in Small(S, 0) PROVE s = {}
    BY OnlyEmptyIsSmall
  <2> QED
    BY <2>1
<1>2. ASSUME NEW m \in Nat, m \in T PROVE m + 1 \in T
  <2> SUFFICES ASSUME NEW s \in Small(S, m + 1), s # {} PROVE \E n \in Nat : \A i \in s : i <= n
    OBVIOUS
  <2>1. s \ {One(s)} \in Small(S, m) /\ One(s) \in s /\ s \subseteq Nat
    BY WithoutOne, OneIsIn DEF Small
  <2>2. PICK n \in Nat : \A i \in s \ {One(s)} : i <= n
    BY <1>2, <2>1
  <2>3. PICK k \in Nat : k = One(s)
    BY <2>1
  <2>4. \A i \in s : i <= n + k
    BY <2>1, <2>2, <2>3
  <2> QED
    BY <2>4
<1>3. Cardinality(S) \in T
  <2> HIDE DEF T
  <2> QED
    BY <1>1, <1>2, NatSetInduction, FS_CardinalityType
<1>4. S \in Small(S, Cardinality(S))
  BY FS_CardinalityType DEF Small
<1> QED
  BY <1>3, <1>4

----------------------------------------------------------------------------
(* Sequences without repetitions.                                          *)

Distinct(s) == \A i, j \in 1..Len(s) : s[i] = s[j] => i = j

LEMMA InRange ==
  ASSUME NEW S, NEW s \in Seq(S), NEW e
  PROVE  e \in Range(s) <=> \E i \in 1..Len(s) : s[i] = e
  BY LenProperties DEF Range

\* A new element at the front.
LEMMA PushedFront ==
  ASSUME NEW S, NEW s \in Seq(S), Distinct(s), NEW k \in S, k \notin Range(s)
  PROVE  <<k>> \o s \in Seq(S) /\ Distinct(<<k>> \o s) /\ Range(<<k>> \o s) = Range(s) \cup {k}
<1> DEFINE t == <<k>> \o s
<1>1. <<k>> \in Seq(S) /\ Len(<<k>>) = 1 /\ <<k>>[1] = k
  OBVIOUS
<1>2. Len(s) \in Nat
  BY LenProperties
<1>3. t \in Seq(S) /\ Len(t) = 1 + Len(s)
      /\ \A i \in 1..(1 + Len(s)) : t[i] = IF i <= 1 THEN <<k>>[i] ELSE s[i - 1]
  BY <1>1, ConcatProperties
<1>4. t[1] = k /\ \A i \in 1..Len(s) : t[i + 1] = s[i]
  BY <1>1, <1>2, <1>3
<1> HIDE DEF t
<1>5. \A i \in 1..Len(t) : i = 1 \/ (i - 1 \in 1..Len(s) /\ t[i] = s[i - 1])
  BY <1>2, <1>3
<1>6. \A i \in 1..Len(s) : s[i] # k
  BY InRange
<1>7. Distinct(t)
  <2> SUFFICES ASSUME NEW i \in 1..Len(t), NEW j \in 1..Len(t), t[i] = t[j] PROVE i = j
    BY DEF Distinct
  <2>1. CASE i = 1 /\ j = 1
    BY <2>1
  <2>2. CASE i # 1 /\ j = 1
    BY <1>4, <1>5, <1>6, <2>2
  <2>3. CASE i = 1 /\ j # 1
    BY <1>4, <1>5, <1>6, <2>3
  <2>4. CASE i # 1 /\ j # 1
    <3>1. i - 1 = j - 1
      BY <1>5, <2>4 DEF Distinct
    <3> QED
      BY <1>2, <1>3, <3>1
  <2> QED
    BY <2>1, <2>2, <2>3, <2>4
<1>8. Range(t) = Range(s) \cup {k}
  <2>1. ASSUME NEW e \in Range(t) PROVE e \in Range(s) \cup {k}
    <3>1. PICK i \in 1..Len(t) : t[i] = e
      BY <1>3, <2>1, InRange
    <3> QED
      BY <1>4, <1>5, <3>1, InRange
  <2>2. ASSUME NEW e \in Range(s) PROVE e \in Range(t)
    <3>1. PICK i \in 1..Len(s) : s[i] = e
      BY <2>2, InRange
    <3>2. i + 1 \in 1..Len(t) /\ t[i + 1] = e
      BY <1>2, <1>3, <1>4, <3>1
    <3> QED
      BY <1>3, <3>2, InRange
  <2>3. k \in Range(t)
    <3>1. 1 \in 1..Len(t) /\ t[1] = k
      BY <1>2, <1>3, <1>4
    <3> QED
      BY <1>3, <3>1, InRange
  <2> QED
    BY <2>1, <2>2, <2>3
<1> QED
  BY <1>3, <1>7, <1>8 DEF t

\* An element taken out.
LEMMA PushedBack ==
  ASSUME NEW S, NEW s \in Seq(S), Distinct(s), NEW k \in S, k \notin Range(s)
  PROVE  Append(s, k) \in Seq(S) /\ Distinct(Append(s, k)) /\ Range(Append(s, k)) = Range(s) \cup {k}
<1> DEFINE t == Append(s, k)
<1>1. /\ t \in Seq(S) /\ Len(s) \in Nat /\ Len(t) = Len(s) + 1 /\ t[Len(t)] = k
      /\ \A i \in 1..Len(s) : t[i] = s[i]
  BY AppendProperties, LenProperties
<1> HIDE DEF t
<1>2. \A i \in 1..Len(s) : s[i] # k
  BY InRange
<1>3. Distinct(t)
  BY <1>1, <1>2 DEF Distinct
<1>4. ASSUME NEW e PROVE e \in Range(t) <=> e \in Range(s) \cup {k}
  <2>1. e \in Range(t) <=> \E i \in 1..Len(t) : t[i] = e
    BY <1>1, InRange
  <2>2. (\E i \in 1..Len(t) : t[i] = e) <=> (\E i \in 1..Len(s) : s[i] = e) \/ k = e
    BY <1>1
  <2> QED
    BY <2>1, <2>2, InRange
<1> QED
  BY <1>1, <1>3, <1>4 DEF t

LEMMA TakenOut ==
  ASSUME NEW S, NEW s \in Seq(S), Distinct(s), NEW p \in 1..Len(s)
  PROVE  /\ RemoveAt(s, p) \in Seq(S) /\ Distinct(RemoveAt(s, p))
         /\ Range(RemoveAt(s, p)) = Range(s) \ {s[p]}
<1> DEFINE a == SubSeq(s, 1, p - 1)
           b == SubSeq(s, p + 1, Len(s))
           t == a \o b
<1>1. Len(s) \in Nat /\ p \in Nat /\ \A i \in 1..Len(s) : s[i] \in S
  BY LenProperties, ElementOfSeq
<1>2. a \in Seq(S) /\ Len(a) = p - 1 /\ \A i \in 1..(p - 1) : a[i] = s[i]
  <2>1. \A i \in 1..(p - 1) : s[i] \in S
    BY <1>1
  <2> HIDE DEF a
  <2>2. /\ a \in Seq(S) /\ Len(a) = IF 1 <= p - 1 THEN p - 1 - 1 + 1 ELSE 0
        /\ \A i \in 1..(p - 1 - 1 + 1) : a[i] = s[1 + i - 1]
    BY <1>1, <2>1, SubSeqProperties DEF a
  <2> QED
    BY <1>1, <2>2
<1>3. b \in Seq(S) /\ Len(b) = Len(s) - p /\ \A i \in 1..(Len(s) - p) : b[i] = s[p + i]
  <2>1. \A i \in (p + 1)..Len(s) : s[i] \in S
    BY <1>1
  <2> HIDE DEF b
  <2>2. /\ b \in Seq(S) /\ Len(b) = IF p + 1 <= Len(s) THEN Len(s) - (p + 1) + 1 ELSE 0
        /\ \A i \in 1..(Len(s) - (p + 1) + 1) : b[i] = s[(p + 1) + i - 1]
    BY <1>1, <2>1, SubSeqProperties DEF b
  <2> QED
    BY <1>1, <2>2
<1> HIDE DEF a, b
<1>4. /\ t \in Seq(S) /\ Len(t) = Len(a) + Len(b)
      /\ \A i \in 1..(Len(a) + Len(b)) : t[i] = IF i <= Len(a) THEN a[i] ELSE b[i - Len(a)]
  BY <1>2, <1>3, ConcatProperties
<1> HIDE DEF t
<1>5. Len(t) = Len(s) - 1
      /\ \A i \in 1..Len(t) : t[i] = IF i < p THEN s[i] ELSE s[i + 1]
  <2>1. Len(t) = Len(s) - 1
    BY <1>1, <1>2, <1>3, <1>4
  <2>2. ASSUME NEW i \in 1..Len(t), i < p PROVE t[i] = s[i]
    BY <1>1, <1>2, <1>3, <1>4, <2>2
  <2>3. ASSUME NEW i \in 1..Len(t), i >= p PROVE t[i] = s[i + 1]
    <3> DEFINE n == i - (p - 1)
    <3>1. n \in 1..(Len(s) - p) /\ p + n = i + 1
      BY <1>1, <2>1, <2>3
    <3>2. i \in 1..(Len(a) + Len(b)) /\ ~(i <= Len(a)) /\ i - Len(a) = n
      BY <1>1, <1>2, <1>3, <1>4, <2>3
    <3> HIDE DEF n
    <3>3. t[i] = b[n]
      BY <1>4, <3>2
    <3> QED
      BY <1>3, <3>1, <3>3
  <2> QED
    BY <1>1, <2>1, <2>2, <2>3
<1>6. Distinct(t)
  <2> SUFFICES ASSUME NEW i \in 1..Len(t), NEW j \in 1..Len(t), t[i] = t[j] PROVE i = j
    BY DEF Distinct
  <2>1. i \in 1..Len(s) /\ i + 1 \in 1..Len(s) /\ j \in 1..Len(s) /\ j + 1 \in 1..Len(s)
    BY <1>1, <1>5
  <2> QED
    BY <1>1, <1>5, <2>1 DEF Distinct
<1>7. Range(t) = Range(s) \ {s[p]}
  <2>1. ASSUME NEW e \in Range(t) PROVE e \in Range(s) \ {s[p]}
    <3>1. PICK i \in 1..Len(t) : t[i] = e
      BY <1>4, <2>1, InRange
    <3>2. PICK j \in 1..Len(s) : s[j] = e /\ j # p
      BY <1>1, <1>5, <3>1
    <3>3. e \in Range(s)
      BY <3>2, InRange
    <3> QED
      BY <3>2, <3>3 DEF Distinct
  <2>2. ASSUME NEW e \in Range(s) \ {s[p]} PROVE e \in Range(t)
    <3>1. PICK j \in 1..Len(s) : s[j] = e
      BY <2>2, InRange
    <3>2. j # p
      BY <2>2, <3>1
    <3>3. \E i \in 1..Len(t) : t[i] = e
      <4>1. CASE j < p
        BY <1>1, <1>5, <3>1, <4>1
      <4>2. CASE j > p
        <5>1. j - 1 \in 1..Len(t) /\ t[j - 1] = s[(j - 1) + 1]
          BY <1>1, <1>5, <4>2
        <5> QED
          BY <1>1, <3>1, <5>1
      <4> QED
        BY <1>1, <3>2, <4>1, <4>2
    <3> QED
      BY <1>4, <3>3, InRange
  <2> QED
    BY <2>1, <2>2
<1>8. RemoveAt(s, p) = t
  BY DEF RemoveAt, a, b, t
<1> QED
  BY <1>4, <1>6, <1>7, <1>8

\* The last element taken off.
LEMMA LastTaken ==
  ASSUME NEW S, NEW s \in Seq(S), Distinct(s), s # <<>>
  PROVE  /\ Front(s) \in Seq(S) /\ Distinct(Front(s))
         /\ Range(Front(s)) = Range(s) \ {Last(s)}
         /\ Last(s) \in Range(s)
<1>1. Len(s) \in 1..Len(s) /\ Len(s) \in Nat \ {0}
  BY EmptySeq
<1>2. Front(s) = RemoveAt(s, Len(s))
  <2>1. SubSeq(s, Len(s) + 1, Len(s)) = <<>>
    BY <1>1, SubSeqEmpty
  <2>2. \A i \in 1..(Len(s) - 1) : s[i] \in S
    BY <1>1, ElementOfSeq
  <2>3. SubSeq(s, 1, Len(s) - 1) \in Seq(S)
    BY <1>1, <2>2, SubSeqProperties
  <2>4. SubSeq(s, 1, Len(s) - 1) \o <<>> = SubSeq(s, 1, Len(s) - 1)
    BY <2>3, ConcatEmptySeq
  <2> QED
    BY <2>1, <2>4 DEF Front, RemoveAt
<1>3. Last(s) \in Range(s)
  BY <1>1, InRange DEF Last
<1> QED
  BY <1>1, <1>2, <1>3, TakenOut DEF Last

\* A list cut in two.
LEMMA FrontPart ==
  ASSUME NEW S, NEW s \in Seq(S), Distinct(s), NEW n \in 0..Len(s)
  PROVE  /\ SubSeq(s, 1, n) \in Seq(S) /\ Len(SubSeq(s, 1, n)) = n /\ Distinct(SubSeq(s, 1, n))
         /\ \A i \in 1..n : SubSeq(s, 1, n)[i] = s[i]
<1> SUFFICES ASSUME NEW a, a = SubSeq(s, 1, n)
             PROVE  a \in Seq(S) /\ Len(a) = n /\ Distinct(a) /\ \A i \in 1..n : a[i] = s[i]
  OBVIOUS
<1>1. Len(s) \in Nat /\ n \in Nat /\ \A i \in 1..Len(s) : s[i] \in S
  BY LenProperties, ElementOfSeq
<1>2. a \in Seq(S) /\ Len(a) = n /\ \A i \in 1..n : a[i] = s[i]
  <2>1. \A i \in 1..n : s[i] \in S
    BY <1>1
  <2>2. /\ a \in Seq(S) /\ Len(a) = IF 1 <= n THEN n - 1 + 1 ELSE 0
        /\ \A i \in 1..(n - 1 + 1) : a[i] = s[1 + i - 1]
    BY <1>1, <2>1, SubSeqProperties
  <2> QED
    BY <1>1, <2>2
<1>3. Distinct(a)
  <2> SUFFICES ASSUME NEW i \in 1..n, NEW j \in 1..n, a[i] = a[j] PROVE i = j
    BY <1>2 DEF Distinct
  <2>1. s[i] = s[j] /\ i \in 1..Len(s) /\ j \in 1..Len(s)
    BY <1>1, <1>2
  <2> QED
    BY <2>1 DEF Distinct
<1> QED
  BY <1>2, <1>3

\* The two parts share no element.
LEMMA Divided ==
  ASSUME NEW S, NEW s \in Seq(S), Distinct(s), NEW n \in 0..Len(s)
  PROVE  /\ Range(SubSeq(s, n + 1, Len(s))) \subseteq Range(s)
         /\ Range(SubSeq(s, 1, n)) = Range(s) \ Range(SubSeq(s, n + 1, Len(s)))
<1> SUFFICES ASSUME NEW a, a = SubSeq(s, 1, n), NEW b, b = SubSeq(s, n + 1, Len(s))
             PROVE  Range(b) \subseteq Range(s) /\ Range(a) = Range(s) \ Range(b)
  OBVIOUS
<1>1. Len(s) \in Nat /\ n \in Nat /\ \A i \in 1..Len(s) : s[i] \in S
  BY LenProperties, ElementOfSeq
<1>2. a \in Seq(S) /\ Len(a) = n /\ \A i \in 1..n : a[i] = s[i]
  BY FrontPart
<1>3. b \in Seq(S) /\ Len(b) = Len(s) - n /\ \A i \in 1..(Len(s) - n) : b[i] = s[n + i]
  <2>1. \A i \in (n + 1)..Len(s) : s[i] \in S
    BY <1>1
  <2>2. /\ b \in Seq(S) /\ Len(b) = IF n + 1 <= Len(s) THEN Len(s) - (n + 1) + 1 ELSE 0
        /\ \A i \in 1..(Len(s) - (n + 1) + 1) : b[i] = s[(n + 1) + i - 1]
    BY <1>1, <2>1, SubSeqProperties
  <2> QED
    BY <1>1, <2>2
<1>5. ASSUME NEW e \in Range(b) PROVE e \in Range(s) /\ e \notin Range(a)
  <2>1. PICK j \in 1..Len(b) : b[j] = e
    BY <1>3, <1>5, InRange
  <2>2. n + j \in 1..Len(s) /\ s[n + j] = e /\ j > 0
    BY <1>1, <1>3, <2>1
  <2>3. ASSUME NEW i \in 1..Len(a) PROVE a[i] # e
    BY <1>1, <1>2, <2>2 DEF Distinct
  <2> QED
    BY ZenonT(60), <1>2, <2>2, <2>3, InRange
<1>6. ASSUME NEW e \in Range(a) PROVE e \in Range(s)
  <2>1. PICK i \in 1..Len(a) : a[i] = e
    BY <1>2, <1>6, InRange
  <2>2. i \in 1..Len(s) /\ s[i] = e
    BY <1>1, <1>2, <2>1
  <2> QED
    BY <2>2, InRange
<1>7. ASSUME NEW e \in Range(s), e \notin Range(b) PROVE e \in Range(a)
  <2>1. PICK i \in 1..Len(s) : s[i] = e
    BY <1>7, InRange
  <2>2. CASE i <= n
    <3>1. i \in 1..Len(a) /\ a[i] = e
      BY <1>1, <1>2, <2>1, <2>2
    <3> QED
      BY <1>2, <3>1, InRange
  <2>3. CASE i > n
    <3>1. i - n \in 1..Len(b) /\ b[i - n] = s[n + (i - n)] /\ n + (i - n) = i
      BY <1>1, <1>3, <2>1, <2>3
    <3> QED
      BY <1>3, <1>7, <2>1, <3>1, InRange
  <2> QED
    BY <1>1, <2>2, <2>3
<1>8. Range(b) \subseteq Range(s) /\ Range(a) = Range(s) \ Range(b)
  BY <1>5, <1>6, <1>7
<1> QED
  BY <1>8

\* A list without repetitions is as long as the set of its elements is large.
LEMMA LengthCounts ==
  ASSUME NEW S, NEW s \in Seq(S), Distinct(s)
  PROVE  IsFiniteSet(Range(s)) /\ Cardinality(Range(s)) = Len(s)
<1>1. s \in [1..Len(s) -> S] /\ Len(s) \in Nat /\ DOMAIN s = 1..Len(s)
  BY LenProperties
<1>2. s \in Bijection(1..Len(s), Range(s))
  <2>1. s \in [1..Len(s) -> Range(s)]
    BY <1>1 DEF Range
  <2>2. s \in Injection(1..Len(s), Range(s))
    BY <2>1 DEF Injection, IsInjective, Distinct
  <2>3. \A e \in Range(s) : \E i \in 1..Len(s) : s[i] = e
    BY InRange
  <2> QED
    BY <2>1, <2>2, <2>3 DEF Bijection, Surjection
<1>3. ExistsBijection(1..Len(s), Range(s))
  BY <1>2 DEF ExistsBijection
<1>4. PICK n \in Nat : n = Len(s)
  BY <1>1
<1>5. IsFiniteSet(1..n) /\ Cardinality(1..n) = IF 1 > n THEN 0 ELSE n - 1 + 1
  BY FS_Interval
<1>6. Cardinality(1..n) = n
  BY <1>5
<1> QED
  BY <1>3, <1>4, <1>5, <1>6, FS_Bijection

----------------------------------------------------------------------------
(* Largest elements.                                                       *)

LEMMA LargestIsIn ==
  ASSUME NEW S \in SUBSET Nat, S # {}, NEW bound \in Nat, \A x \in S : x <= bound
  PROVE  Max(S) \in S /\ \A x \in S : x <= Max(S)
<1> DEFINE T == {n \in Nat : \A U \in SUBSET (0..n) : U # {} => \E x \in U : \A y \in U : x >= y}
<1>1. 0 \in T
  <2>1. ASSUME NEW U \in SUBSET (0..0), U # {} PROVE \E x \in U : \A y \in U : x >= y
    <3>1. PICK x \in U : TRUE
      BY <2>1
    <3>2. \A y \in U : y = 0
      OBVIOUS
    <3> QED
      BY <3>1, <3>2
  <2> QED
    BY <2>1
<1>2. ASSUME NEW n \in Nat, n \in T PROVE n + 1 \in T
  <2>1. ASSUME NEW U \in SUBSET (0..(n + 1)), U # {} PROVE \E x \in U : \A y \in U : x >= y
    <3>1. CASE n + 1 \in U
      BY <3>1
    <3>2. CASE n + 1 \notin U
      <4>1. U \in SUBSET (0..n)
        BY <3>2
      <4> QED
        BY <1>2, <2>1, <4>1
    <3> QED
      BY <3>1, <3>2
  <2> QED
    BY <2>1
<1>3. bound \in T
  <2> HIDE DEF T
  <2> QED
    BY <1>1, <1>2, NatSetInduction
<1>4. S \in SUBSET (0..bound)
  OBVIOUS
<1>5. PICK x \in S : \A y \in S : x >= y
  BY <1>3, <1>4
<1> QED
  BY <1>5 DEF Max

LEMMA SmallestIsIn ==
  ASSUME NEW S \in SUBSET Nat, S # {}
  PROVE  Min(S) \in S /\ \A x \in S : Min(S) <= x
<1> DEFINE T == {n \in Nat : n \in S => \E x \in S : \A y \in S : x <= y}
           U == {n \in Nat : \A k \in 0..n : k \in T}
<1>1. 0 \in U
  OBVIOUS
<1>2. ASSUME NEW n \in Nat, n \in U PROVE n + 1 \in U
  <2>1. n + 1 \in T
    <3>1. CASE \E k \in 0..n : k \in S
      BY <1>2, <3>1
    <3>2. CASE \A k \in 0..n : k \notin S
      BY <3>2
    <3> QED
      BY <3>1, <3>2
  <2> QED
    BY <1>2, <2>1
<1>3. Nat \subseteq U
  <2> HIDE DEF U
  <2> QED
    BY <1>1, <1>2, NatSetInduction
<1>4. \E x \in S : \A y \in S : x <= y
  <2>1. PICK n \in S : n \in U
    BY <1>3
  <2>2. n \in T
    BY <2>1
  <2> QED
    BY <2>1, <2>2
<1> QED
  BY <1>4 DEF Min
=============================================================================
