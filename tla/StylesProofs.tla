---------------------------- MODULE StylesProofs ----------------------------
(***************************************************************************)
(* What Styles proves: the choice of a style and its version, for every    *)
(* manifest; the age of a legacy style that is served; and that the        *)
(* listing is true.                                                        *)
(***************************************************************************)
EXTENDS Styles, CollectionLemmas

----------------------------------------------------------------------------
(* The loop of latestStyle.                                                *)

\* best after entry i, and the history of best up to entry n.
Better(m, id, i, b) ==
  IF m[i].id = id /\ (b = 0 \/ VersionLess(m[b].version, m[i].version)) THEN i ELSE b
IsBest(m, id, n, g) == g = [i \in 0..n |-> IF i = 0 THEN 0 ELSE Better(m, id, i, g[i - 1])]

\* A manifest as the code iterates over it.
Listable(m) == m \in Seq(Range(m))

LEMMA Entries ==
  ASSUME NEW m, Listable(m)
  PROVE  Len(m) \in Nat /\ DOMAIN m = 1..Len(m) /\ (m # <<>> <=> Len(m) # 0)
BY LenProperties, EmptySeq DEF Listable

LEMMA BestExists ==
  ASSUME NEW m, NEW id, NEW n \in Nat
  PROVE  \E g : IsBest(m, id, n, g)
<1> DEFINE T == {k \in Nat : \E g : IsBest(m, id, k, g)}
<1>1. 0 \in T
  <2> DEFINE g == [i \in 0..0 |-> 0]
  <2>1. g = [i \in 0..0 |-> IF i = 0 THEN 0 ELSE Better(m, id, i, g[i - 1])]
    OBVIOUS
  <2>2. IsBest(m, id, 0, g)
    BY <2>1 DEF IsBest
  <2> QED
    BY <2>2
<1>2. ASSUME NEW k \in Nat, k \in T PROVE k + 1 \in T
  <2>1. PICK g : IsBest(m, id, k, g)
    BY <1>2
  <2> DEFINE h == [i \in 0..(k + 1) |-> IF i = 0 THEN 0 ELSE Better(m, id, i, g[i - 1])]
  <2>2. ASSUME NEW i \in 1..(k + 1) PROVE h[i - 1] = g[i - 1]
    BY <2>1 DEF IsBest
  <2>3. ASSUME NEW i \in 0..(k + 1)
        PROVE  h[i] = IF i = 0 THEN 0 ELSE Better(m, id, i, h[i - 1])
    <3>1. CASE i = 0
      BY <3>1
    <3>2. CASE i # 0
      <4>1. i \in 1..(k + 1) /\ h[i] = Better(m, id, i, g[i - 1])
        BY <3>2
      <4>2. h[i - 1] = g[i - 1]
        BY <2>2, <4>1
      <4> HIDE DEF h
      <4> QED
        BY <3>2, <4>1, <4>2
    <3> QED
      BY <3>1, <3>2
  <2>4. IsBest(m, id, k + 1, h)
    <3> SUFFICES h = [i \in 0..(k + 1) |-> IF i = 0 THEN 0 ELSE Better(m, id, i, h[i - 1])]
      BY DEF IsBest
    <3> DOMAIN h = 0..(k + 1) /\ h = [i \in DOMAIN h |-> h[i]]
      OBVIOUS
    <3> HIDE DEF h
    <3> QED
      BY <2>3
  <2> QED
    BY <2>4
<1> HIDE DEF T
<1>3. Nat \subseteq T
  BY <1>1, <1>2, NatSetInduction
<1> QED
  BY <1>3 DEF T

LEMMA LatestByLoop ==
  ASSUME NEW m, NEW id, Len(m) \in Nat
  PROVE  \E g : IsBest(m, id, Len(m), g) /\ LatestStyle(m, id) = g[Len(m)]
<1> DEFINE g == CHOOSE h : IsBest(m, id, Len(m), h)
<1>1. IsBest(m, id, Len(m), g)
  BY BestExists
<1>2. LatestStyle(m, id) = g[Len(m)]
  BY DEF LatestStyle, IsBest, Better
<1> QED
  BY <1>1, <1>2

\* latestStyle finds an entry with that id if and only if there is one.
LEMMA LatestFound ==
  ASSUME NEW m, NEW id, Listable(m)
  PROVE  /\ LatestStyle(m, id) \in 0..Len(m)
         /\ LatestStyle(m, id) # 0 => m[LatestStyle(m, id)].id = id
         /\ (\E j \in DOMAIN m : m[j].id = id) => LatestStyle(m, id) # 0
<1>1. PICK g : IsBest(m, id, Len(m), g) /\ LatestStyle(m, id) = g[Len(m)]
  BY LatestByLoop, Entries
<1> DEFINE Right(i) == /\ g[i] \in 0..i
                       /\ g[i] # 0 => m[g[i]].id = id
                       /\ g[i] = 0 => \A j \in 1..i : m[j].id # id
           T == {i \in Nat : i <= Len(m) => Right(i)}
<1>2. Len(m) \in Nat /\ DOMAIN m = 1..Len(m)
  BY Entries
<1>3. 0 \in T
  BY <1>1, <1>2 DEF IsBest
<1>4. ASSUME NEW i \in Nat, i \in T PROVE i + 1 \in T
  <2> SUFFICES ASSUME i + 1 <= Len(m) PROVE Right(i + 1)
    OBVIOUS
  <2>1. g[i + 1] = Better(m, id, i + 1, g[i])
    BY <1>1, <1>2 DEF IsBest
  <2>2. Right(i)
    BY <1>2, <1>4
  <2> QED
    BY <2>1, <2>2 DEF Better
<1> HIDE DEF T
<1>5. Len(m) \in T
  BY <1>2, <1>3, <1>4, NatSetInduction
<1> QED
  BY <1>1, <1>2, <1>5 DEF T

LEMMA DefaultFound ==
  ASSUME NEW m, Listable(m)
  PROVE  /\ m = <<>> => DefaultStyle(m) = 0
         /\ m # <<>> => \E k \in DOMAIN m :
              /\ DefaultStyle(m) = LatestStyle(m, m[k].id)
              /\ Marked(m) # {} => k \in Marked(m)
<1>1. CASE m = <<>>
  BY <1>1 DEF DefaultStyle
<1>2. CASE m # <<>> /\ Marked(m) # {}
  <2>1. Marked(m) \in SUBSET Nat
    BY Entries DEF Marked
  <2>2. Min(Marked(m)) \in Marked(m)
    BY <1>2, <2>1, SmallestIsIn
  <2>3. DefaultStyle(m) = LatestStyle(m, m[Min(Marked(m))].id)
    BY <1>2 DEF DefaultStyle
  <2> QED
    BY <1>2, <2>2, <2>3 DEF Marked
<1>3. CASE m # <<>> /\ Marked(m) = {}
  <2>1. 1 \in DOMAIN m
    BY <1>3, Entries
  <2>2. DefaultStyle(m) = LatestStyle(m, m[1].id)
    BY <1>3 DEF DefaultStyle
  <2> QED
    BY <1>3, <2>1, <2>2
<1> QED
  BY <1>1, <1>2, <1>3

----------------------------------------------------------------------------
(* The loop of releaseStyles, before it sorts.                             *)

Further(m, i, s) ==
  IF \E j \in 1..(i - 1) : m[j].id = m[i].id THEN s ELSE Append(s, LatestStyle(m, m[i].id))
IsOut(m, n, g) == g = [i \in 0..n |-> IF i = 0 THEN <<>> ELSE Further(m, i, g[i - 1])]

LEMMA OutExists ==
  ASSUME NEW m, NEW n \in Nat
  PROVE  \E g : IsOut(m, n, g)
<1> DEFINE T == {k \in Nat : \E g : IsOut(m, k, g)}
<1>1. 0 \in T
  <2> DEFINE g == [i \in 0..0 |-> <<>>]
  <2>1. g = [i \in 0..0 |-> IF i = 0 THEN <<>> ELSE Further(m, i, g[i - 1])]
    OBVIOUS
  <2>2. IsOut(m, 0, g)
    BY <2>1 DEF IsOut
  <2> QED
    BY <2>2
<1>2. ASSUME NEW k \in Nat, k \in T PROVE k + 1 \in T
  <2>1. PICK g : IsOut(m, k, g)
    BY <1>2
  <2> DEFINE h == [i \in 0..(k + 1) |-> IF i = 0 THEN <<>> ELSE Further(m, i, g[i - 1])]
  <2>2. ASSUME NEW i \in 1..(k + 1) PROVE h[i - 1] = g[i - 1]
    BY <2>1 DEF IsOut
  <2>3. ASSUME NEW i \in 0..(k + 1)
        PROVE  h[i] = IF i = 0 THEN <<>> ELSE Further(m, i, h[i - 1])
    <3>1. CASE i = 0
      BY <3>1
    <3>2. CASE i # 0
      <4>1. i \in 1..(k + 1) /\ h[i] = Further(m, i, g[i - 1])
        BY <3>2
      <4>2. h[i - 1] = g[i - 1]
        BY <2>2, <4>1
      <4> HIDE DEF h
      <4> QED
        BY <3>2, <4>1, <4>2
    <3> QED
      BY <3>1, <3>2
  <2>4. IsOut(m, k + 1, h)
    <3> SUFFICES h = [i \in 0..(k + 1) |-> IF i = 0 THEN <<>> ELSE Further(m, i, h[i - 1])]
      BY DEF IsOut
    <3> DOMAIN h = 0..(k + 1) /\ h = [i \in DOMAIN h |-> h[i]]
      OBVIOUS
    <3> HIDE DEF h
    <3> QED
      BY <2>3
  <2> QED
    BY <2>4
<1> HIDE DEF T
<1>3. Nat \subseteq T
  BY <1>1, <1>2, NatSetInduction
<1> QED
  BY <1>3 DEF T

\* The newest versions of the ids of the first n entries.
Newest(m, n) == {LatestStyle(m, m[j].id) : j \in 1..n}

\* Every id gets one entry, of its newest version.
LEMMA OutIsNewest ==
  ASSUME NEW m, Listable(m), NEW g, IsOut(m, Len(m), g)
  PROVE  /\ g[Len(m)] \in Seq(1..Len(m)) /\ Distinct(g[Len(m)])
         /\ Range(g[Len(m)]) = Newest(m, Len(m))
<1> DEFINE Right(i) == g[i] \in Seq(1..Len(m)) /\ Distinct(g[i]) /\ Range(g[i]) = Newest(m, i)
           T == {i \in Nat : i <= Len(m) => Right(i)}
<1>1. Len(m) \in Nat /\ DOMAIN m = 1..Len(m)
  BY Entries
<1>2. 0 \in T
  <2>1. g[0] = <<>>
    BY <1>1 DEF IsOut
  <2>2. <<>> \in Seq(1..Len(m)) /\ Distinct(<<>>) /\ Range(<<>>) = {} /\ Newest(m, 0) = {}
    BY DEF Distinct, Range, Newest
  <2> QED
    BY <2>1, <2>2
<1>3. ASSUME NEW i \in Nat, i \in T PROVE i + 1 \in T
  <2> SUFFICES ASSUME i + 1 <= Len(m) PROVE Right(i + 1)
    OBVIOUS
  <2> DEFINE l == LatestStyle(m, m[i + 1].id)
  <2>1. g[i + 1] = Further(m, i + 1, g[i])
    BY <1>1 DEF IsOut
  <2>2. Right(i)
    BY <1>1, <1>3
  <2>3. Newest(m, i + 1) = Newest(m, i) \cup {l}
    <3>1. 1..(i + 1) = (1..i) \cup {i + 1}
      OBVIOUS
    <3> QED
      BY <3>1 DEF Newest
  <2>4. CASE \E j \in 1..i : m[j].id = m[i + 1].id
    <3>1. l \in Newest(m, i)
      BY <2>4 DEF Newest
    <3>2. g[i + 1] = g[i]
      BY <2>1, <2>4 DEF Further
    <3> HIDE DEF l
    <3> QED
      BY <2>2, <2>3, <3>1, <3>2
  <2>5. CASE ~\E j \in 1..i : m[j].id = m[i + 1].id
    <3>1. l \in 1..Len(m) /\ m[l].id = m[i + 1].id
      <4>1. i + 1 \in DOMAIN m
        BY <1>1
      <4>2. l \in 0..Len(m) /\ l # 0 /\ m[l].id = m[i + 1].id
        BY <4>1, LatestFound
      <4> HIDE DEF l
      <4> QED
        BY <1>1, <4>2
    <3>2. l \notin Newest(m, i)
      <4> SUFFICES ASSUME NEW j \in 1..i, l = LatestStyle(m, m[j].id) PROVE FALSE
        BY DEF Newest
      <4>1. j \in DOMAIN m
        BY <1>1
      <4>2. m[LatestStyle(m, m[j].id)].id = m[j].id
        BY <4>1, LatestFound
      <4> QED
        BY <2>5, <3>1, <4>2
    <3>3. g[i + 1] = Append(g[i], l)
      BY <2>1, <2>5 DEF Further
    <3>4. l \notin Range(g[i])
      BY <2>2, <3>2
    <3> HIDE DEF l
    <3>5. /\ Append(g[i], l) \in Seq(1..Len(m)) /\ Distinct(Append(g[i], l))
          /\ Range(Append(g[i], l)) = Range(g[i]) \cup {l}
      BY <2>2, <3>1, <3>4, PushedBack
    <3> QED
      BY <2>2, <2>3, <3>3, <3>5
  <2> QED
    BY <2>4, <2>5
<1> HIDE DEF T
<1>4. Len(m) \in T
  BY <1>1, <1>2, <1>3, NatSetInduction, SMTT(30)
<1> QED
  BY <1>1, <1>4 DEF T

LEMMA OutByLoop ==
  ASSUME NEW m, Listable(m), m # <<>>
  PROVE  \E out : /\ out \in Seq(1..Len(m)) /\ Distinct(out) /\ Range(out) = Newest(m, Len(m))
                  /\ ReleaseStyles(m) =
                       LET p == CHOOSE i \in DOMAIN out : m[out[i]].id = m[DefaultStyle(m)].id
                       IN <<out[p]>> \o RemoveAt(out, p)
<1> DEFINE g == CHOOSE h : IsOut(m, Len(m), h)
           out == g[Len(m)]
           p == CHOOSE i \in DOMAIN out : m[out[i]].id = m[DefaultStyle(m)].id
<1>1. IsOut(m, Len(m), g)
  BY Entries, OutExists
<1>2. out \in Seq(1..Len(m)) /\ Distinct(out) /\ Range(out) = Newest(m, Len(m))
  <2> HIDE DEF g
  <2> QED
    BY <1>1, OutIsNewest
<1>3. ReleaseStyles(m) = <<out[p]>> \o RemoveAt(out, p)
  BY Zenon DEF ReleaseStyles, IsOut, Further
<1> HIDE DEF g
<1> QED
  BY <1>2, <1>3, Zenon

\* The release's part of the listing: the newest version of each id, the default style first.
LEMMA ReleaseStylesAreNewest ==
  ASSUME NEW m, Listable(m), m # <<>>
  PROVE  /\ Range(ReleaseStyles(m)) = Newest(m, Len(m))
         /\ ReleaseStyles(m)[1] = DefaultStyle(m)
<1>1. PICK out : /\ out \in Seq(1..Len(m)) /\ Distinct(out) /\ Range(out) = Newest(m, Len(m))
                 /\ ReleaseStyles(m) =
                      LET p == CHOOSE i \in DOMAIN out : m[out[i]].id = m[DefaultStyle(m)].id
                      IN <<out[p]>> \o RemoveAt(out, p)
  BY OutByLoop
<1> DEFINE d == DefaultStyle(m)
           p == CHOOSE i \in DOMAIN out : m[out[i]].id = m[d].id
<1>2. Len(m) \in Nat /\ DOMAIN m = 1..Len(m)
  BY Entries
<1>3. PICK k \in DOMAIN m : d = LatestStyle(m, m[k].id)
  BY DefaultFound
<1>4. d \in 1..Len(m) /\ m[d].id = m[k].id
  <2>1. d \in 0..Len(m) /\ d # 0 /\ m[d].id = m[k].id
    BY <1>3, LatestFound
  <2> HIDE DEF d
  <2> QED
    BY <1>2, <2>1
<1>5. d \in Range(out)
  BY <1>1, <1>2, <1>3 DEF Newest
<1>6. Len(out) \in Nat /\ DOMAIN out = 1..Len(out)
  BY <1>1, LenProperties
<1>7. p \in DOMAIN out /\ m[out[p]].id = m[d].id
  <2>1. \E i \in DOMAIN out : out[i] = d
    BY <1>5 DEF Range
  <2> QED
    BY <2>1
<1>8. out[p] = d
  <2>1. out[p] \in Newest(m, Len(m))
    BY <1>1, <1>7 DEF Range
  <2>2. PICK j \in 1..Len(m) : out[p] = LatestStyle(m, m[j].id)
    BY <2>1 DEF Newest
  <2>3. m[LatestStyle(m, m[j].id)].id = m[j].id
    BY <1>2, LatestFound
  <2>4. m[j].id = m[k].id
    BY <1>4, <1>7, <2>2, <2>3
  <2> QED
    BY <1>3, <2>2, <2>4
<1>9. ReleaseStyles(m) = <<d>> \o RemoveAt(out, p)
  BY <1>1, <1>8
<1> HIDE DEF p, d
<1>10. /\ RemoveAt(out, p) \in Seq(1..Len(m)) /\ Distinct(RemoveAt(out, p))
       /\ Range(RemoveAt(out, p)) = Range(out) \ {d}
  BY <1>1, <1>6, <1>7, <1>8, TakenOut
<1>11. Range(<<d>> \o RemoveAt(out, p)) = Range(RemoveAt(out, p)) \cup {d}
  BY <1>4, <1>10, PushedFront
<1>12. (<<d>> \o RemoveAt(out, p))[1] = d
  <2>1. <<d>> \in Seq(1..Len(m)) /\ Len(<<d>>) = 1 /\ <<d>>[1] = d
    BY <1>4
  <2>2. Len(RemoveAt(out, p)) \in Nat
    BY <1>10, LenProperties
  <2>3. \A i \in 1..Len(<<d>>) + Len(RemoveAt(out, p)) : (<<d>> \o RemoveAt(out, p))[i] =
             IF i <= Len(<<d>>) THEN <<d>>[i] ELSE RemoveAt(out, p)[i - Len(<<d>>)]
    BY <2>1, <1>10, ConcatProperties
  <2> QED
    BY <2>1, <2>2, <2>3
<1> QED
  BY <1>1, <1>5, <1>9, <1>10, <1>11, <1>12 DEF d

\* An entry that is listed is the newest one of its id.
LEMMA ListedIsNewest ==
  ASSUME NEW m, Listable(m), m # <<>>, NEW i \in Range(ReleaseStyles(m))
  PROVE  i \in DOMAIN m /\ i # 0 /\ LatestStyle(m, m[i].id) = i
<1>1. Len(m) \in Nat /\ DOMAIN m = 1..Len(m)
  BY Entries
<1>2. PICK j \in 1..Len(m) : i = LatestStyle(m, m[j].id)
  BY ReleaseStylesAreNewest DEF Newest
<1>3. i \in 0..Len(m) /\ i # 0 /\ m[i].id = m[j].id
  BY <1>1, <1>2, LatestFound
<1> QED
  BY <1>1, <1>2, <1>3

LEMMA VersionFound ==
  ASSUME NEW m, Listable(m), Validate(m), NEW i \in DOMAIN m
  PROVE  FindStyle(m, m[i].id, m[i].version) = i
<1> DEFINE S == {0} \cup {j \in DOMAIN m : m[j].id = m[i].id /\ m[j].version = m[i].version}
<1>1. Len(m) \in Nat /\ DOMAIN m = 1..Len(m) /\ i \in 1..Len(m)
  BY Entries
<1>2. S \in SUBSET Nat /\ S # {} /\ \A x \in S : x <= Len(m)
  BY <1>1
<1>3. i \in S /\ \A j \in S : j = 0 \/ j = i
  BY DEF Validate
<1> HIDE DEF S
<1>4. Max(S) \in S /\ \A x \in S : x <= Max(S)
  BY <1>1, <1>2, LargestIsIn
<1>5. Max(S) = i
  BY <1>1, <1>3, <1>4
<1> QED
  BY <1>5 DEF FindStyle, S

(* The URLs of a style agree, for every manifest that Validate accepts     *)
(* (releaseStyles, serveReleaseName, serveReleaseVariant): the style that  *)
(* the aliases stand for is the first one listed and the marked one, and   *)
(* what is listed is what both kinds of URLs serve.                        *)
THEOREM URLsOfAStyleAgree ==
  ASSUME NEW m, Listable(m), m # <<>>, Validate(m)
  PROVE  URLsAgree(m)
<1> DEFINE listed == ReleaseStyles(m)
<1>1. ASSUME NEW v \in Variants PROVE NamedStyle(m, v) = listed[1]
  BY ReleaseStylesAreNewest DEF NamedStyle
<1>2. ASSUME NEW i \in Marked(m) PROVE m[i].id = m[listed[1]].id
  <2>1. PICK k \in DOMAIN m : DefaultStyle(m) = LatestStyle(m, m[k].id) /\ k \in Marked(m)
    BY DefaultFound
  <2>2. k = i
    BY <2>1 DEF Validate, Marked
  <2>3. m[LatestStyle(m, m[k].id)].id = m[k].id
    BY <2>1, LatestFound
  <2>4. listed[1] = DefaultStyle(m)
    BY ReleaseStylesAreNewest
  <2> QED
    BY <2>1, <2>2, <2>3, <2>4
<1>3. ASSUME NEW i \in Range(listed), NEW v \in m[i].variants, NEW version \in {NoVersion, m[i].version}
      PROVE  ReleaseVariant(m, m[i].id, version, v) = Found(m[i], v)
  <2>1. i \in DOMAIN m /\ i # 0 /\ LatestStyle(m, m[i].id) = i
    BY ListedIsNewest
  <2>2. FindStyle(m, m[i].id, m[i].version) = i
    BY <2>1, VersionFound
  <2>3. (IF version = NoVersion THEN LatestStyle(m, m[i].id) ELSE FindStyle(m, m[i].id, version)) = i
    BY <2>1, <2>2
  <2> QED
    BY <2>1, <2>3 DEF ReleaseVariant
<1> QED
  BY <1>1, <1>2, <1>3 DEF URLsAgree

\* Among versions of one kind, what is not newer than one is not newer than a later choice.
LEMMA NewerStill ==
  ASSUME NEW a \in Versions, NEW b \in Versions, NEW c \in Versions,
         Number[a] >= 0 <=> Number[c] >= 0, Number[b] >= 0 <=> Number[c] >= 0,
         ~Newer(a, b), VersionLess(b, c)
  PROVE  ~Newer(a, c)
<1>1. /\ Number[a] \in Int /\ Number[b] \in Int /\ Number[c] \in Int
      /\ Text[a] \in Nat /\ Text[b] \in Nat /\ Text[c] \in Nat
  BY StylesAssumption
<1>2. CASE Number[c] >= 0
  <2>1. Number[a] >= 0 /\ Number[b] >= 0
    BY <1>2
  <2>2. Number[b] < Number[c] /\ ~(Number[a] > Number[b])
    BY <1>2, <2>1 DEF Newer, VersionLess
  <2> QED
    BY <1>1, <2>1, <2>2 DEF Newer
<1>3. CASE ~(Number[c] >= 0)
  <2>1. ~(Number[a] >= 0) /\ ~(Number[b] >= 0)
    BY <1>3
  <2>2. Text[b] < Text[c] /\ ~(Text[a] > Text[b])
    BY <1>3, <2>1 DEF Newer, VersionLess
  <2> QED
    BY <1>1, <2>1, <2>2 DEF Newer
<1> QED
  BY <1>2, <1>3

(* The version served as the newest one (latestStyle, versionLess): for    *)
(* every manifest, no entry of the id has a larger number, or sorts after  *)
(* it where neither is a number, unless it comes earlier and the versions  *)
(* of the id are of both kinds.                                            *)
THEOREM NewestIsServed ==
  ASSUME NEW m, Listable(m), \A i \in DOMAIN m : m[i].version \in Versions, NEW id
  PROVE  NewestServed(m, id)
<1> DEFINE versions == {m[j].version : j \in {k \in DOMAIN m : m[k].id = id}}
           mixed == \E v, w \in versions : Number[v] >= 0 /\ Number[w] < 0
           V(j) == m[j].version
<1>1. Len(m) \in Nat /\ DOMAIN m = 1..Len(m)
  BY Entries
<1>2. PICK g : IsBest(m, id, Len(m), g) /\ LatestStyle(m, id) = g[Len(m)]
  BY <1>1, LatestByLoop
<1>3. \A j \in 1..Len(m) : Number[V(j)] \in Int /\ Text[V(j)] \in Nat
  BY <1>1, StylesAssumption
<1>4. ~mixed => \A j, k \in 1..Len(m) : m[j].id = id /\ m[k].id = id =>
                  (Number[V(j)] >= 0 <=> Number[V(k)] >= 0)
  <2> SUFFICES ASSUME ~mixed, NEW j \in 1..Len(m), NEW k \in 1..Len(m), m[j].id = id, m[k].id = id
               PROVE  Number[V(j)] >= 0 <=> Number[V(k)] >= 0
    OBVIOUS
  <2>1. V(j) \in versions /\ V(k) \in versions
    BY <1>1
  <2> HIDE DEF versions
  <2> QED
    BY <1>3, <2>1
<1> HIDE DEF mixed
<1> DEFINE Right(i) ==
      /\ g[i] \in 0..i
      /\ g[i] # 0 => m[g[i]].id = id
      /\ \A j \in 1..i : m[j].id = id =>
           g[i] # 0 /\ ((mixed /\ j < g[i]) \/ ~Newer(V(j), V(g[i])))
           T == {i \in Nat : i <= Len(m) => Right(i)}
<1>5. 0 \in T
  BY <1>1, <1>2 DEF IsBest
<1>6. ASSUME NEW i \in Nat, i \in T PROVE i + 1 \in T
  <2> SUFFICES ASSUME i + 1 <= Len(m) PROVE Right(i + 1)
    OBVIOUS
  <2>1. g[i + 1] = Better(m, id, i + 1, g[i])
    BY <1>1, <1>2 DEF IsBest
  <2>2. Right(i)
    BY <1>1, <1>6
  <2>3. CASE m[i + 1].id # id
    <3>1. g[i + 1] = g[i]
      BY <2>1, <2>3 DEF Better
    <3> QED
      BY <2>2, <2>3, <3>1
  <2>4. CASE m[i + 1].id = id /\ g[i] = 0
    <3>1. g[i + 1] = i + 1
      BY <2>1, <2>4 DEF Better
    <3>2. \A j \in 1..i : m[j].id # id
      BY <2>2, <2>4
    <3>3. ~Newer(V(i + 1), V(i + 1))
      BY <1>1, <1>3 DEF Newer
    <3> QED
      BY <2>4, <3>1, <3>2, <3>3
  <2>5. CASE m[i + 1].id = id /\ g[i] # 0 /\ VersionLess(V(g[i]), V(i + 1))
    <3>1. g[i + 1] = i + 1
      BY <2>1, <2>5 DEF Better
    <3>2. g[i] \in 1..i /\ m[g[i]].id = id
      BY <2>2, <2>5
    <3>3. ASSUME NEW j \in 1..(i + 1), m[j].id = id
          PROVE  (mixed /\ j < i + 1) \/ ~Newer(V(j), V(i + 1))
      <4>1. CASE j = i + 1
        BY <1>1, <1>3, <4>1 DEF Newer
      <4>2. CASE j \in 1..i /\ ~mixed
        <5>1. ~Newer(V(j), V(g[i]))
          BY <2>2, <3>3, <4>2
        <5>2. /\ Number[V(j)] >= 0 <=> Number[V(i + 1)] >= 0
              /\ Number[V(g[i])] >= 0 <=> Number[V(i + 1)] >= 0
          BY <1>1, <1>4, <2>5, <3>2, <3>3, <4>2
        <5>3. V(j) \in Versions /\ V(i + 1) \in Versions /\ V(g[i]) \in Versions
          BY <1>1, <3>2, <4>2
        <5> QED
          BY <2>5, <5>1, <5>2, <5>3, NewerStill
      <4>3. CASE j \in 1..i /\ mixed
        BY <4>3
      <4> QED
        BY <4>1, <4>2, <4>3
    <3> QED
      BY <2>5, <3>1, <3>3
  <2>6. CASE m[i + 1].id = id /\ g[i] # 0 /\ ~VersionLess(V(g[i]), V(i + 1))
    <3>1. g[i + 1] = g[i]
      BY <2>1, <2>6 DEF Better
    <3>2. g[i] \in 1..i /\ m[g[i]].id = id
      BY <2>2, <2>6
    <3>3. ~Newer(V(i + 1), V(g[i]))
      <4>1. /\ Number[V(i + 1)] \in Int /\ Number[V(g[i])] \in Int
            /\ Text[V(i + 1)] \in Nat /\ Text[V(g[i])] \in Nat
        BY <1>3, <3>2
      <4> QED
        BY <2>6, <4>1 DEF Newer, VersionLess
    <3>4. ASSUME NEW j \in 1..(i + 1), m[j].id = id
          PROVE  g[i] # 0 /\ ((mixed /\ j < g[i]) \/ ~Newer(V(j), V(g[i])))
      <4>1. CASE j = i + 1
        BY <2>6, <3>3, <4>1
      <4>2. CASE j \in 1..i
        BY <2>2, <3>4, <4>2
      <4> QED
        BY <4>1, <4>2
    <3> QED
      BY <3>1, <3>2, <3>4
  <2> QED
    BY <2>3, <2>4, <2>5, <2>6
<1>7. Right(Len(m))
  <2> HIDE DEF T
  <2>1. Len(m) \in T
    BY <1>1, <1>5, <1>6, NatSetInduction
  <2> QED
    BY <1>1, <2>1 DEF T
<1> QED
  BY <1>1, <1>2, <1>7 DEF NewestServed, mixed

(* For any drafts, the newest version of each style is the one served.     *)
THEOREM DraftsServeTheNewest == Spec => []LatestIsNewest
<1>1. LatestIsNewest
  <2>1. ASSUME NEW m \in Drafts, NEW i \in DOMAIN m PROVE NewestServed(m, m[i].id)
    BY ManifestsAreValid, NewestIsServed DEF Listable
  <2> QED BY <2>1 DEF LatestIsNewest
<1> QED BY <1>1, PTL

(* For any drafts, the listing, the aliases and both kinds of style URLs   *)
(* agree.                                                                  *)
THEOREM DraftsAgree == Spec => []StylesAgree
<1>1. StylesAgree
  <2>1. ASSUME NEW m \in Drafts, m # <<>> PROVE URLsAgree(m)
    BY <2>1, ManifestsAreValid, URLsOfAStyleAgree DEF Listable
  <2> QED BY <2>1 DEF StylesAgree
<1> QED BY <1>1, PTL

----------------------------------------------------------------------------
(* The inductive invariant.                                                *)

Kind == {"file", "none", "dir", "link", "dangling"}
Step == {"idle", "lookup", "read", "store", "release", "list"}

\* A file has a modification time, nothing else has one.
IsEntry(f) == /\ f = [kind |-> f.kind, mtime |-> f.mtime, parses |-> f.parses]
              /\ f.kind \in Kind /\ f.mtime \in 0..clock /\ (f.mtime > 0 <=> f.kind = "file")

Shaped(q) ==
  q = [step |-> q.step, name |-> q.name, mtime |-> q.mtime, text |-> q.text, status |-> q.status,
       body |-> q.body, have |-> q.have, quiet |-> q.quiet]
IsRequest(q) ==
  /\ Shaped(q)
  /\ q.step \in Step /\ q.mtime \in 0..clock /\ q.text \in 0..clock

TypeOK ==
  /\ clock \in Nat \ {0}
  /\ DOMAIN dir = Files /\ dir = [n \in Files |-> dir[n]] /\ \A n \in Files : IsEntry(dir[n])
  /\ tmplCache \in [Files -> [modTime : Nat, text : 0..clock]]
  /\ active \in Manifests \cup {NoRelease}
  /\ DOMAIN req = Requests /\ req = [r \in Requests |-> req[r]] /\ \A r \in Requests : IsRequest(req[r])

\* The text under n is no newer than the file, if there is one.
NotAhead(n, text) == dir[n].kind = "file" => text <= dir[n].mtime

\* A cached text is no older than the modification time it is stored with.
CacheIsSound ==
  \A n \in Files : tmplCache[n].text # 0 =>
    tmplCache[n].modTime <= tmplCache[n].text /\ NotAhead(n, tmplCache[n].text)

\* A request on its way to a legacy style knows a modification time the file had, has if quiet.
Reading(q) ==
  /\ q.name \in Files /\ q.name \in Proper /\ q.status = 0
  /\ NotAhead(q.name, q.mtime)
  /\ q.quiet => dir[q.name].mtime = q.mtime /\ Exists(q.name)
  /\ q.step = "store" => /\ q.mtime <= q.text /\ NotAhead(q.name, q.text)
                         /\ q.quiet => q.text = q.mtime

Releasing(q) ==
  /\ q.mtime = 0 /\ q.status = 0 /\ q.name \in Proper /\ q.name \in Names
  /\ q.quiet => ~Exists(q.name)

BeingListed(q) == q.name = "" /\ q.mtime = 0 /\ q.status = 0 /\ (q.quiet => q.have = LegacyNames)

InFlight(q) ==
  /\ q.step \in {"lookup", "read", "store"} => Reading(q)
  /\ q.step = "release" => Releasing(q)
  /\ q.step = "list" => BeingListed(q)

Current(q) == q.mtime > 0 /\ q.status = 200 =>
  q.body[1] >= q.mtime /\ (q.quiet => q.body = <<q.mtime>>)

AgeInvariant ==
  /\ TypeOK /\ CacheIsSound
  /\ \A r \in Requests : InFlight(req[r]) /\ Current(req[r])

\* What the active release has under a name.
NamedEntry(m, name) == m[NamedStyle(m, name)]
InRelease(m, name) ==
  m # NoRelease /\ NamedStyle(m, name) # 0
    /\ NamedVariant(NamedEntry(m, name), name) \in NamedEntry(m, name).variants

\* The answer to a request while nothing changed.
Answered(q) ==
  q.step = "idle" /\ q.quiet /\ q.name # "" /\ Plain(q.name) =>
    IF q.name \in LegacyNames THEN q.status = 200 /\ Len(q.body) = 1
    ELSE IF InRelease(active, q.name)
         THEN /\ q.status = 200
              /\ q.body = Found(NamedEntry(active, q.name), NamedVariant(NamedEntry(active, q.name), q.name))
         ELSE q.status = 404

HasListed(q) ==
  q.step = "idle" /\ q.quiet /\ q.name = "" /\ Len(q.body) = 1 => q.body[1] = Listing(active, LegacyNames)

ListingInvariant ==
  AgeInvariant /\ \A r \in Requests : Answered(req[r]) /\ HasListed(req[r])

----------------------------------------------------------------------------
(* The age of a served style.                                              *)

LEMMA EntryMade ==
  ASSUME NEW kind \in Kind, NEW t \in 0..clock, NEW parses, t > 0 <=> kind = "file",
         NEW f, f = [kind |-> kind, mtime |-> t, parses |-> parses]
  PROVE  IsEntry(f)
<1>1. f.kind = kind /\ f.mtime = t /\ f.parses = parses
  OBVIOUS
<1> QED
  BY <1>1 DEF IsEntry

LEMMA FileMade ==
  ASSUME NEW t \in 1..clock, NEW parses
  PROVE  IsEntry(File(t, parses)) /\ File(t, parses).kind = "file" /\ File(t, parses).mtime = t
<1>1. File(t, parses) = [kind |-> "file", mtime |-> t, parses |-> parses]
  BY DEF File
<1>2. "file" \in Kind /\ t \in 0..clock /\ t > 0
  BY DEF Kind
<1> HIDE DEF File
<1> QED
  BY <1>1, <1>2, EntryMade

LEMMA OtherMade ==
  ASSUME NEW kind \in Kind \ {"file"}, clock \in Nat
  PROVE  IsEntry(Other(kind)) /\ Other(kind).kind = kind /\ Other(kind).mtime = 0
<1>1. PICK f : f = NoFile
  OBVIOUS
<1>2. PICK g : g = [f EXCEPT !.kind = kind]
  OBVIOUS
<1>3. Other(kind) = g
  BY <1>1, <1>2 DEF Other
<1>4. g = [kind |-> kind, mtime |-> 0, parses |-> FALSE]
  BY <1>1, <1>2 DEF NoFile
<1>5. 0 \in 0..clock /\ (0 > 0 <=> kind = "file")
  OBVIOUS
<1>6. IsEntry(g)
  BY <1>4, <1>5, EntryMade
<1> QED
  BY <1>3, <1>4, <1>6

LEMMA IdleMade ==
  ASSUME NEW name, NEW status, NEW body, clock \in Nat
  PROVE  /\ IsRequest(Idle(name, status, body)) /\ InFlight(Idle(name, status, body))
         /\ Current(Idle(name, status, body)) /\ Idle(name, status, body).step = "idle"
<1>1. PICK q : q = Idle(name, status, body)
  OBVIOUS
<1>2. q.step = "idle" /\ q.mtime = 0 /\ q.text = 0
  BY <1>1 DEF Idle
<1>3. Shaped(q)
  BY <1>1 DEF Idle, Shaped
<1>4. IsRequest(q) /\ InFlight(q) /\ Current(q)
  BY <1>2, <1>3 DEF IsRequest, InFlight, Current, Step
<1> QED
  BY <1>1, <1>2, <1>4

LEMMA AgeInit == Init => AgeInvariant
<1> SUFFICES ASSUME Init PROVE AgeInvariant
  OBVIOUS
<1>1. PICK made \in SUBSET Files, others \in [Files -> Kinds] :
        dir = [n \in Files |-> IF n \in made THEN File(1, TRUE) ELSE Other(others[n])]
  BY DEF Init
<1>0. clock = 1
  BY DEF Init
<1>2. \A n \in Files : IsEntry(dir[n])
  <2> TAKE n \in Files
  <2>1. CASE n \in made
    <3>1. dir[n] = File(1, TRUE)
      BY <1>1, <2>1
    <3>2. 1 \in 1..clock
      BY <1>0
    <3> QED
      BY <3>1, <3>2, FileMade
  <2>2. CASE n \notin made
    <3>1. others[n] \in Kind \ {"file"}
      BY StylesAssumption DEF Kind
    <3>2. dir[n] = Other(others[n])
      BY <1>1, <2>2
    <3> QED
      BY <1>0, <3>1, <3>2, OtherMade
  <2> QED
    BY <2>1, <2>2
<1>3. \A r \in Requests : IsRequest(req[r]) /\ InFlight(req[r]) /\ Current(req[r])
  <2> TAKE r \in Requests
  <2>1. req[r] = Idle("", 0, <<>>)
    BY DEF Init, NoRequest
  <2> QED
    BY <1>0, <2>1, IdleMade
<1>4. TypeOK
  <2>1. tmplCache \in [Files -> [modTime : Nat, text : 0..clock]]
    BY <1>0 DEF Init
  <2>2. DOMAIN req = Requests /\ req = [r \in Requests |-> req[r]]
    BY DEF Init
  <2>3. DOMAIN dir = Files /\ dir = [n \in Files |-> dir[n]]
    BY <1>1
  <2>4. active \in Manifests \cup {NoRelease}
    BY DEF Init
  <2> QED
    BY <1>0, <1>2, <1>3, <2>1, <2>2, <2>3, <2>4 DEF TypeOK
<1>5. CacheIsSound
  <2>1. \A n \in Files : tmplCache[n].text = 0
    BY DEF Init
  <2> QED
    BY <2>1 DEF CacheIsSound
<1> QED
  BY <1>3, <1>4, <1>5 DEF AgeInvariant

\* A step of one request that leaves the rest alone.
LEMMA OneRequest ==
  ASSUME AgeInvariant, UNCHANGED <<dir, tmplCache, active, clock>>, NEW r \in Requests, NEW q,
         req' = [req EXCEPT ![r] = q], IsRequest(q), InFlight(q), Current(q)
  PROVE  AgeInvariant'
<1>1. \A s \in Requests : req'[s] = IF s = r THEN q ELSE req[s]
  BY DEF AgeInvariant, TypeOK
<1>2. \A s \in Requests : IsRequest(req'[s]) /\ InFlight(req'[s]) /\ Current(req'[s])
  BY <1>1 DEF AgeInvariant, TypeOK
<1>3. \A n \in Files : IsEntry(dir[n])'
  BY DEF AgeInvariant, TypeOK, IsEntry
<1>4. TypeOK'
  <2>1. \A s \in Requests : IsRequest(req[s])'
    BY <1>2 DEF IsRequest
  <2>2. DOMAIN req' = Requests /\ req' = [s \in Requests |-> req'[s]]
    BY DEF AgeInvariant, TypeOK
  <2> QED
    BY <1>3, <2>1, <2>2 DEF AgeInvariant, TypeOK
<1>5. CacheIsSound'
  BY DEF AgeInvariant, CacheIsSound, NotAhead
<1>6. \A s \in Requests : InFlight(req[s])' /\ Current(req[s])'
  BY ZenonT(60), <1>2 DEF InFlight, Reading, Releasing, BeingListed, Current, NotAhead, Exists,
     LegacyNames, Listed
<1> QED
  BY <1>4, <1>5, <1>6 DEF AgeInvariant

\* An answer that is no legacy style.
LEMMA PlainAnswer ==
  ASSUME AgeInvariant, UNCHANGED <<dir, tmplCache, active, clock>>, NEW r \in Requests,
         NEW name, NEW status, NEW body, req' = [req EXCEPT ![r] = Idle(name, status, body)]
  PROVE  AgeInvariant'
<1>1. clock \in Nat
  BY DEF AgeInvariant, TypeOK
<1> QED
  BY <1>1, IdleMade, OneRequest

LEMMA GetAge ==
  ASSUME AgeInvariant, NEW r \in Requests, NEW n \in Names, Get(r, n)
  PROVE  AgeInvariant'
<1>1. CASE n \notin Proper
  <2>1. req' = [req EXCEPT ![r] = Idle(n, 400, <<>>)]
    BY <1>1 DEF Get
  <2>2. UNCHANGED <<dir, tmplCache, active, clock>>
    BY DEF Get
  <2> QED
    BY ZenonT(60), <2>1, <2>2, PlainAnswer
<1>2. CASE n \in Proper /\ Exists(n)
  <2>0. PICK idle : idle = Idle(n, 0, <<>>)
    OBVIOUS
  <2>a. PICK q : q = [idle EXCEPT !.step = "lookup", !.mtime = dir[n].mtime]
    OBVIOUS
  <2>1. req' = [req EXCEPT ![r] = q]
    BY <1>2, <2>0, <2>a DEF Get
  <2>2. q = [step |-> "lookup", name |-> n, mtime |-> dir[n].mtime, text |-> 0, status |-> 0, body |-> <<>>,
             have |-> {}, quiet |-> TRUE]
    BY <2>0, <2>a DEF Idle
  <2>3. n \in Files /\ dir[n].mtime \in 0..clock
    BY <1>2 DEF Exists, AgeInvariant, TypeOK, IsEntry
  <2>4. IsRequest(q)
    BY <2>2, <2>3 DEF IsRequest, Shaped, Step, AgeInvariant, TypeOK
  <2>5. InFlight(q) /\ Current(q)
    BY <1>2, <2>2, <2>3 DEF InFlight, Reading, Current, NotAhead
  <2> QED
    BY <2>1, <2>4, <2>5, OneRequest DEF Get
<1>3. CASE n \in Proper /\ ~Exists(n)
  <2>0. PICK idle : idle = Idle(n, 0, <<>>)
    OBVIOUS
  <2>a. PICK q : q = [idle EXCEPT !.step = "release"]
    OBVIOUS
  <2>1. req' = [req EXCEPT ![r] = q]
    BY <1>3, <2>0, <2>a DEF Get
  <2>2. q = [step |-> "release", name |-> n, mtime |-> 0, text |-> 0, status |-> 0, body |-> <<>>,
             have |-> {}, quiet |-> TRUE]
    BY <2>0, <2>a DEF Idle
  <2>4. IsRequest(q)
    BY <2>2 DEF IsRequest, Shaped, Step, AgeInvariant, TypeOK
  <2>5. InFlight(q) /\ Current(q)
    BY <1>3, <2>2 DEF InFlight, Releasing, Current
  <2> QED
    BY <2>1, <2>4, <2>5, OneRequest DEF Get
<1> QED
  BY <1>1, <1>2, <1>3

\* What Answer makes of a request.
LEMMA AnswerAge ==
  ASSUME AgeInvariant, UNCHANGED <<dir, tmplCache, active, clock>>, NEW r \in Requests,
         NEW status, NEW body, Answer(r, status, body),
         req[r].mtime > 0 /\ status = 200 =>
           body[1] >= req[r].mtime /\ (req[r].quiet => body = <<req[r].mtime>>)
  PROVE  AgeInvariant'
<1>0. PICK idle : idle = Idle(req[r].name, status, body)
  OBVIOUS
<1>a. PICK q : q = [idle EXCEPT !.quiet = req[r].quiet, !.mtime = req[r].mtime]
  OBVIOUS
<1>1. req' = [req EXCEPT ![r] = q]
  BY <1>0, <1>a DEF Answer, AgeInvariant, TypeOK
<1>2. q = [step |-> "idle", name |-> req[r].name, mtime |-> req[r].mtime, text |-> 0, status |-> status,
           body |-> body, have |-> {}, quiet |-> req[r].quiet]
  BY <1>0, <1>a DEF Idle
<1>3. req[r].mtime \in 0..clock /\ 0 \in 0..clock
  BY DEF AgeInvariant, TypeOK, IsRequest
<1>4. IsRequest(q)
  BY <1>2, <1>3 DEF IsRequest, Shaped, Step
<1>5. InFlight(q) /\ Current(q)
  BY <1>2 DEF InFlight, Current
<1> QED
  BY <1>1, <1>4, <1>5, OneRequest

\* What a request that fails becomes.
LEMMA FailsMakes ==
  ASSUME AgeInvariant, NEW r \in Requests, Fails(r)
  PROVE  \E q : /\ req' = [req EXCEPT ![r] = q] /\ q.step = "idle" /\ q.quiet = FALSE
               /\ IsRequest(q) /\ InFlight(q) /\ Current(q)
<1>0. PICK name, status, body, calm : name = req[r].name /\ status = 500 /\ body = <<>> /\ calm = FALSE
  OBVIOUS
<1>1. PICK idle : idle = Idle(name, status, body)
  OBVIOUS
<1>2. PICK q : q = [idle EXCEPT !.quiet = calm]
  OBVIOUS
<1>3. req' = [req EXCEPT ![r] = q]
  BY ZenonT(60), <1>0, <1>1, <1>2 DEF Fails, AgeInvariant, TypeOK
<1>4. q = [step |-> "idle", name |-> name, mtime |-> 0, text |-> 0, status |-> status,
           body |-> body, have |-> {}, quiet |-> calm]
  BY <1>1, <1>2 DEF Idle
<1>5. q.step = "idle" /\ q.mtime = 0 /\ q.text = 0 /\ q.quiet = calm /\ Shaped(q)
  BY <1>4 DEF Shaped
<1>6. IsRequest(q) /\ InFlight(q) /\ Current(q)
  BY <1>5 DEF IsRequest, InFlight, Current, Step, AgeInvariant, TypeOK
<1> QED
  BY <1>0, <1>3, <1>5, <1>6

LEMMA FailsAge ==
  ASSUME AgeInvariant, UNCHANGED <<dir, tmplCache, active, clock>>, NEW r \in Requests, Fails(r)
  PROVE  AgeInvariant'
<1>1. PICK q : req' = [req EXCEPT ![r] = q] /\ IsRequest(q) /\ InFlight(q) /\ Current(q)
  BY FailsMakes
<1> QED
  BY <1>1, OneRequest

LEMMA DeniedAge ==
  ASSUME AgeInvariant, NEW r \in Requests, Denied(r)
  PROVE  AgeInvariant'
<1>1. UNCHANGED <<dir, tmplCache, active, clock>> /\ Fails(r)
  BY DEF Denied
<1> QED
  BY <1>1, FailsAge

LEMMA LookupAge ==
  ASSUME AgeInvariant, NEW r \in Requests, LookupTemplate(r)
  PROVE  AgeInvariant'
<1> DEFINE n == req[r].name
           cached == tmplCache[n]
<1>1. /\ req[r].step = "lookup" /\ Reading(req[r]) /\ IsRequest(req[r]) /\ n \in Files
      /\ UNCHANGED <<dir, tmplCache, active, clock>>
  BY DEF LookupTemplate, AgeInvariant, TypeOK, InFlight, Reading
<1>2. CASE cached.text # 0 /\ cached.modTime = req[r].mtime
  <2>1. Answer(r, 200, <<cached.text>>) \/ Fails(r)
    BY <1>2 DEF LookupTemplate, Render
  <2>2. cached.modTime \in Nat /\ cached.text \in Nat
    BY <1>1 DEF AgeInvariant, TypeOK
  <2>3. cached.text >= req[r].mtime
    BY <1>1, <1>2, <2>2 DEF AgeInvariant, CacheIsSound
  <2>4. ASSUME req[r].mtime > 0, req[r].quiet PROVE cached.text = req[r].mtime
    <3>1. dir[n].mtime = req[r].mtime /\ IsEntry(dir[n])
      BY <1>1, <2>4 DEF Reading, AgeInvariant, TypeOK
    <3>2. dir[n].kind = "file"
      BY <2>4, <3>1 DEF IsEntry
    <3>3. cached.text <= dir[n].mtime
      BY <1>1, <1>2, <3>2 DEF AgeInvariant, CacheIsSound, NotAhead
    <3> QED
      BY SMTT(30), <1>1, <2>2, <2>3, <3>1, <3>3 DEF IsRequest, AgeInvariant, TypeOK
  <2> HIDE DEF cached, n
  <2> QED
    BY <1>1, <2>1, <2>3, <2>4, AnswerAge, FailsAge
<1>3. CASE ~(cached.text # 0 /\ cached.modTime = req[r].mtime)
  <2>1. PICK q : q = [req[r] EXCEPT !.step = "read"]
    OBVIOUS
  <2>2. req' = [req EXCEPT ![r] = q]
    BY <1>3, <2>1 DEF LookupTemplate, Goto, AgeInvariant, TypeOK
  <2>3. q = [step |-> "read", name |-> req[r].name, mtime |-> req[r].mtime, text |-> req[r].text,
             status |-> req[r].status, body |-> req[r].body, have |-> req[r].have, quiet |-> req[r].quiet]
    BY <1>1, <2>1 DEF IsRequest, Shaped
  <2>4. IsRequest(q)
    BY <1>1, <2>3 DEF IsRequest, Shaped, Step
  <2>5. InFlight(q) /\ Current(q)
    BY <1>1, <2>3 DEF InFlight, Reading, Current
  <2> QED
    BY <1>1, <2>2, <2>4, <2>5, OneRequest
<1> QED
  BY <1>2, <1>3

LEMMA ReadAge ==
  ASSUME AgeInvariant, NEW r \in Requests, ReadTemplate(r)
  PROVE  AgeInvariant'
<1> DEFINE file == dir[req[r].name]
<1>1. /\ req[r].step = "read" /\ Reading(req[r]) /\ IsRequest(req[r]) /\ IsEntry(file)
      /\ UNCHANGED <<dir, tmplCache, active, clock>>
  BY DEF ReadTemplate, AgeInvariant, TypeOK, InFlight, Reading
<1>2. CASE file.kind = "file" /\ file.parses
  <2>1. PICK q : q = [req[r] EXCEPT !.step = "store", !.text = file.mtime]
    OBVIOUS
  <2>2. req' = [req EXCEPT ![r] = q]
    BY <1>2, <2>1 DEF ReadTemplate, AgeInvariant, TypeOK
  <2>3. q = [step |-> "store", name |-> req[r].name, mtime |-> req[r].mtime, text |-> file.mtime,
             status |-> req[r].status, body |-> req[r].body, have |-> req[r].have, quiet |-> req[r].quiet]
    BY <1>1, <2>1 DEF IsRequest, Shaped
  <2>4. IsRequest(q)
    BY <1>1, <2>3 DEF IsRequest, Shaped, Step, IsEntry
  <2>5. Reading(q)
    BY <1>1, <1>2, <2>3 DEF Reading, NotAhead, IsEntry, AgeInvariant, TypeOK
  <2>6. InFlight(q) /\ Current(q)
    BY <2>3, <2>5 DEF InFlight, Reading, Current
  <2> QED
    BY <1>1, <2>2, <2>4, <2>6, OneRequest
<1>3. CASE ~(file.kind = "file" /\ file.parses)
  <2>1. Answer(r, 500, <<>>)
    BY <1>3 DEF ReadTemplate
  <2> QED
    BY <1>1, <2>1, AnswerAge
<1> QED
  BY <1>2, <1>3

LEMMA ServeReleaseAge ==
  ASSUME AgeInvariant, NEW r \in Requests, ServeReleaseName(r)
  PROVE  AgeInvariant'
<1>1. req[r].step = "release" /\ req[r].mtime = 0 /\ UNCHANGED <<dir, tmplCache, active, clock>>
  BY DEF ServeReleaseName, AgeInvariant, InFlight, Releasing
<1>2. PICK status, body : Answer(r, status, body)
  BY DEF ServeReleaseName
<1> QED
  BY <1>1, <1>2, AnswerAge

LEMMA GetVariantAge ==
  ASSUME AgeInvariant, NEW r \in Requests, NEW id, NEW version, NEW variant,
         GetVariant(r, id, version, variant)
  PROVE  AgeInvariant'
<1>1. UNCHANGED <<dir, tmplCache, active, clock>>
  BY DEF GetVariant
<1> DEFINE body == IF active = NoRelease THEN <<>> ELSE ReleaseVariant(active, id, version, variant)
           status == CASE id \notin Proper                                            -> 400
                       [] id \in Proper /\ variant \in Variants /\ active = NoRelease -> 503
                       [] id \in Proper /\ body # <<>>                                -> 200
                       [] OTHER                                                       -> 404
<1>2. req' = [req EXCEPT ![r] = Idle("", status, body)]
  BY DEF GetVariant
<1> HIDE DEF status, body
<1> QED
  BY <1>1, <1>2, PlainAnswer

LEMMA ListAge ==
  ASSUME AgeInvariant, NEW r \in Requests, List(r)
  PROVE  AgeInvariant'
<1>1. PICK idle : idle = NoRequest
  OBVIOUS
<1>2. PICK q : q = [idle EXCEPT !.step = "list", !.have = LegacyNames]
  OBVIOUS
<1>3. req' = [req EXCEPT ![r] = q]
  BY <1>1, <1>2 DEF List
<1>4. q = [step |-> "list", name |-> "", mtime |-> 0, text |-> 0, status |-> 0,
           body |-> <<>>, have |-> LegacyNames, quiet |-> TRUE]
  BY <1>1, <1>2 DEF Idle, NoRequest
<1>5. q.step = "list" /\ q.name = "" /\ q.status = 0 /\ q.have = LegacyNames /\ Shaped(q)
  BY <1>4 DEF Shaped
<1>7. q.mtime = 0 /\ q.text = 0
  BY <1>4
<1>8. ~(q.mtime > 0)
  BY <1>7
<1>6. IsRequest(q) /\ InFlight(q) /\ Current(q)
  <2>1. 0 \in 0..clock
    BY DEF AgeInvariant, TypeOK
  <2>2. IsRequest(q)
    BY <1>5, <1>7, <2>1 DEF IsRequest, Step
  <2>3. BeingListed(q)
    BY <1>5, <1>7 DEF BeingListed
  <2>4. InFlight(q)
    BY <1>5, <2>3 DEF InFlight
  <2>5. Current(q)
    BY <1>8 DEF Current
  <2> QED
    BY <2>2, <2>4, <2>5
<1> QED
  BY <1>3, <1>6, OneRequest DEF List

LEMMA ListReleaseAge ==
  ASSUME AgeInvariant, NEW r \in Requests, ListRelease(r)
  PROVE  AgeInvariant'
<1>1. req[r].step = "list" /\ req[r].mtime = 0 /\ UNCHANGED <<dir, tmplCache, active, clock>>
  BY DEF ListRelease, AgeInvariant, InFlight, BeingListed
<1>2. PICK body : Answer(r, 200, body)
  BY DEF ListRelease
<1> QED
  BY <1>1, <1>2, AnswerAge

LEMMA StoreAge ==
  ASSUME AgeInvariant, NEW r \in Requests, StoreTemplate(r)
  PROVE  AgeInvariant'
<1> DEFINE n == req[r].name
<1>1. /\ req[r].step = "store" /\ Reading(req[r]) /\ IsRequest(req[r]) /\ n \in Files
      /\ UNCHANGED <<dir, active, clock>>
      /\ Answer(r, 200, <<req[r].text>>) \/ Fails(r)
      /\ tmplCache' = [tmplCache EXCEPT ![n] = [modTime |-> req[r].mtime, text |-> req[r].text]]
  BY DEF StoreTemplate, Render, ModTime, AgeInvariant, TypeOK, InFlight, Reading
<1>2. clock \in Nat /\ req[r].mtime \in 0..clock /\ req[r].text \in 0..clock
  BY <1>1 DEF IsRequest, AgeInvariant, TypeOK
<1>3. \E q : req' = [req EXCEPT ![r] = q] /\ IsRequest(q) /\ InFlight(q) /\ Current(q)
  <2>1. CASE Fails(r)
    BY <2>1, FailsMakes
  <2>2. CASE Answer(r, 200, <<req[r].text>>)
    <3>1. PICK idle : idle = Idle(req[r].name, 200, <<req[r].text>>)
      OBVIOUS
    <3>2. PICK q : q = [idle EXCEPT !.quiet = req[r].quiet, !.mtime = req[r].mtime]
      OBVIOUS
    <3>3. req' = [req EXCEPT ![r] = q]
      BY <2>2, <3>1, <3>2 DEF Answer, AgeInvariant, TypeOK
    <3>4. q = [step |-> "idle", name |-> req[r].name, mtime |-> req[r].mtime, text |-> 0, status |-> 200,
               body |-> <<req[r].text>>, have |-> {}, quiet |-> req[r].quiet]
      BY <3>1, <3>2 DEF Idle
    <3>5. /\ q.step = "idle" /\ q.mtime = req[r].mtime /\ q.text = 0 /\ q.body = <<req[r].text>>
          /\ q.body[1] = req[r].text /\ q.quiet = req[r].quiet /\ Shaped(q)
      BY <3>4 DEF Shaped
    <3>6. IsRequest(q) /\ InFlight(q) /\ Current(q)
      BY <1>1, <1>2, <3>5 DEF IsRequest, InFlight, Current, Step, Reading
    <3> QED
      BY <3>3, <3>6
  <2> QED
    BY <1>1, <2>1, <2>2
<1>4. PICK q : req' = [req EXCEPT ![r] = q] /\ IsRequest(q) /\ InFlight(q) /\ Current(q)
  BY <1>3
<1>9. \A s \in Requests : req'[s] = IF s = r THEN q ELSE req[s]
  BY <1>4 DEF AgeInvariant, TypeOK
<1>10. \A s \in Requests : IsRequest(req[s])' /\ InFlight(req[s])' /\ Current(req[s])'
  <2>1. \A s \in Requests : IsRequest(req'[s]) /\ InFlight(req'[s]) /\ Current(req'[s])
    BY <1>4, <1>9 DEF AgeInvariant, TypeOK
  <2>2. dir' = dir /\ clock' = clock
    BY <1>1
  <2>3. \A s \in Requests : IsRequest(req[s])' /\ Current(req[s])'
    BY <2>1, <2>2 DEF IsRequest, Current, Shaped
  <2>4. LegacyNames' = LegacyNames
    BY <2>2 DEF LegacyNames, Listed
  <2>5. \A s \in Requests : InFlight(req[s])'
    BY <2>1, <2>2, <2>4 DEF InFlight, Reading, Releasing, BeingListed, NotAhead, Exists
  <2> QED
    BY <2>3, <2>5
<1>11. TypeOK'
  <2>1. \A m \in Files : IsEntry(dir[m])'
    BY <1>1 DEF AgeInvariant, TypeOK, IsEntry
  <2>2. tmplCache' \in [Files -> [modTime : Nat, text : 0..clock]]
    BY <1>1, <1>2 DEF AgeInvariant, TypeOK
  <2>3. DOMAIN req' = Requests /\ req' = [s \in Requests |-> req'[s]]
    BY <1>4 DEF AgeInvariant, TypeOK
  <2> QED
    BY <1>1, <1>10, <2>1, <2>2, <2>3 DEF AgeInvariant, TypeOK
<1>12. CacheIsSound'
  <2>1. \A m \in Files : tmplCache'[m] =
          IF m = n THEN [modTime |-> req[r].mtime, text |-> req[r].text] ELSE tmplCache[m]
    BY <1>1 DEF AgeInvariant, TypeOK
  <2>2. req[r].mtime <= req[r].text /\ NotAhead(n, req[r].text)
    BY <1>1 DEF Reading
  <2> SUFFICES ASSUME NEW m \in Files, tmplCache'[m].text # 0
               PROVE  tmplCache'[m].modTime <= tmplCache'[m].text /\ NotAhead(m, tmplCache'[m].text)
    BY <1>1 DEF CacheIsSound, NotAhead
  <2>3. CASE m = n
    BY <2>1, <2>2, <2>3
  <2>4. CASE m # n
    BY <2>1, <2>4 DEF AgeInvariant, CacheIsSound
  <2> QED
    BY <2>3, <2>4
<1> QED
  BY <1>10, <1>11, <1>12 DEF AgeInvariant

\* What others change: a file gets a later modification time or none.
LEMMA DisturbAge ==
  ASSUME AgeInvariant, Disturb, tmplCache' = tmplCache, clock' \in Nat, clock <= clock',
         active' \in Manifests \cup {NoRelease},
         DOMAIN dir' = Files, dir' = [n \in Files |-> dir'[n]], \A n \in Files : IsEntry(dir[n])',
         \A n \in Files : dir'[n].kind = "file" => dir'[n] = dir[n] \/ dir'[n].mtime > clock
  PROVE  AgeInvariant'
<1>1. clock \in Nat \ {0} /\ clock' \in Nat \ {0} /\ \A t \in 0..clock : t \in 0..clock'
  BY DEF AgeInvariant, TypeOK
<1>2. ASSUME NEW n \in Files, NEW t \in 0..clock, NotAhead(n, t)
      PROVE  dir'[n].kind = "file" => t <= dir'[n].mtime
  <2>1. IsEntry(dir[n])'
    OBVIOUS
  <2>2. dir'[n].mtime \in Nat
    BY <1>1, <2>1 DEF IsEntry
  <2> QED
    BY <1>1, <1>2, <2>2 DEF NotAhead
<1>3. ASSUME NEW r \in Requests
      PROVE  IsRequest(req[r])' /\ InFlight(req[r])' /\ Current(req[r])'
  <2>0. IsRequest(req[r]) /\ InFlight(req[r])
    BY DEF AgeInvariant, TypeOK
  <2>1. CASE req[r].step = "idle"
    <3>1. PICK q : q = Idle("", 0, <<>>)
      OBVIOUS
    <3>2. req'[r] = q
      BY <2>1, <3>1 DEF Disturb, NoRequest
    <3>3. q.step = "idle" /\ q.mtime = 0 /\ q.text = 0 /\ Shaped(q)
      BY <3>1 DEF Idle, Shaped
    <3> QED
      BY <1>1, <3>2, <3>3 DEF IsRequest, InFlight, Current, Step, Shaped
  <2>2. CASE req[r].step # "idle"
    <3>1. PICK q : q = [req[r] EXCEPT !.quiet = FALSE]
      OBVIOUS
    <3>2. req'[r] = q
      BY <2>2, <3>1 DEF Disturb
    <3>3. q = [step |-> req[r].step, name |-> req[r].name, mtime |-> req[r].mtime, text |-> req[r].text,
               status |-> req[r].status, body |-> req[r].body, have |-> req[r].have, quiet |-> FALSE]
      BY <2>0, <3>1 DEF IsRequest, Shaped
    <3>4. /\ q.step = req[r].step /\ q.name = req[r].name /\ q.mtime = req[r].mtime
          /\ q.text = req[r].text /\ q.status = req[r].status /\ q.quiet = FALSE /\ Shaped(q)
      BY <3>3 DEF Shaped
    <3>5. req[r].mtime \in 0..clock /\ req[r].text \in 0..clock /\ req[r].step \in Step
      BY <2>0 DEF IsRequest
    <3>6. IsRequest(req[r])'
      BY <1>1, <3>2, <3>4, <3>5 DEF IsRequest, Shaped
    <3>7. req[r].status = 0
      BY <2>0, <2>2, <3>5 DEF InFlight, Reading, Releasing, BeingListed, Step
    <3>8. ASSUME req[r].step \in {"lookup", "read", "store"}
          PROVE  Reading(req[r])'
      <4>1. Reading(req[r]) /\ req[r].name \in Files
        BY <2>0, <3>8 DEF InFlight, Reading
      <4>2. dir'[req[r].name].kind = "file" => req[r].mtime <= dir'[req[r].name].mtime
        BY <1>2, <3>5, <4>1 DEF Reading
      <4>3. CASE req[r].step = "store"
        <5>1. dir'[req[r].name].kind = "file" => req[r].text <= dir'[req[r].name].mtime
          BY <1>2, <3>5, <4>1, <4>3 DEF Reading
        <5> QED
          BY <3>2, <3>4, <3>7, <4>1, <4>2, <4>3, <5>1 DEF Reading, NotAhead
      <4>4. CASE req[r].step # "store"
        BY <3>2, <3>4, <3>7, <4>1, <4>2, <4>4 DEF Reading, NotAhead
      <4> QED
        BY <4>3, <4>4
    <3>9. ASSUME req[r].step = "release" PROVE Releasing(req[r])'
      BY <2>0, <3>2, <3>4, <3>7, <3>9 DEF InFlight, Releasing
    <3>10. ASSUME req[r].step = "list" PROVE BeingListed(req[r])'
      BY <2>0, <3>2, <3>4, <3>7, <3>10 DEF InFlight, BeingListed
    <3>11. InFlight(req[r])'
      BY <3>2, <3>4, <3>8, <3>9, <3>10 DEF InFlight
    <3>12. Current(req[r])'
      BY <3>2, <3>4, <3>7 DEF Current
    <3> QED
      BY <3>6, <3>11, <3>12
  <2> QED
    BY <2>1, <2>2
<1>4. TypeOK'
  <2>1. DOMAIN req' = Requests /\ req' = [s \in Requests |-> req'[s]]
    BY DEF Disturb
  <2>2. tmplCache' \in [Files -> [modTime : Nat, text : 0..clock']]
    <3>1. tmplCache \in [Files -> [modTime : Nat, text : 0..clock]]
      BY DEF AgeInvariant, TypeOK
    <3>2. 0..clock \subseteq 0..clock'
      BY <1>1
    <3> QED
      BY <3>1, <3>2
  <2> QED
    BY <1>1, <1>3, <2>1, <2>2 DEF TypeOK
<1>5. CacheIsSound'
  <2> SUFFICES ASSUME NEW n \in Files, tmplCache'[n].text # 0
               PROVE  /\ tmplCache'[n].modTime <= tmplCache'[n].text
                      /\ dir'[n].kind = "file" => tmplCache'[n].text <= dir'[n].mtime
    BY DEF CacheIsSound, NotAhead
  <2>1. tmplCache[n].text \in 0..clock
    BY DEF AgeInvariant, TypeOK
  <2>2. tmplCache[n].modTime <= tmplCache[n].text /\ NotAhead(n, tmplCache[n].text)
    BY DEF AgeInvariant, CacheIsSound
  <2> QED
    BY <1>2, <2>1, <2>2
<1> QED
  BY <1>3, <1>4, <1>5 DEF AgeInvariant

LEMMA EditAge ==
  ASSUME AgeInvariant, NEW n \in Files, NEW parses, Edit(n, parses)
  PROVE  AgeInvariant'
<1>1. clock \in Nat /\ clock' = clock + 1 /\ dir' = [dir EXCEPT ![n] = File(clock', parses)]
  BY DEF Edit, AgeInvariant, TypeOK
<1>2. clock' \in 1..clock'
  BY <1>1
<1>3. PICK f : f = File(clock', parses)
  OBVIOUS
<1>4. IsEntry(f)' /\ f.kind = "file" /\ f.mtime = clock'
  <2>1. f.kind = "file" /\ f.mtime = clock' /\ f = [kind |-> f.kind, mtime |-> f.mtime, parses |-> f.parses]
    BY <1>3 DEF File
  <2> QED
    BY <1>1, <2>1 DEF IsEntry, Kind
<1>5. \A m \in Files : dir'[m] = IF m = n THEN f ELSE dir[m]
  BY <1>1, <1>3 DEF AgeInvariant, TypeOK
<1>6. DOMAIN dir' = Files /\ dir' = [m \in Files |-> dir'[m]]
  BY <1>1 DEF AgeInvariant, TypeOK
<1>7. \A m \in Files : IsEntry(dir[m])'
  <2> TAKE m \in Files
  <2>1. CASE m = n
    BY <1>4, <1>5, <2>1 DEF IsEntry
  <2>2. CASE m # n
    <3>1. IsEntry(dir[m]) /\ dir'[m] = dir[m]
      BY <1>5, <2>2 DEF AgeInvariant, TypeOK
    <3> QED
      BY <1>1, <3>1 DEF IsEntry
  <2> QED
    BY <2>1, <2>2
<1>8. \A m \in Files : dir'[m] = dir[m] \/ dir'[m].mtime > clock
  BY <1>1, <1>4, <1>5
<1>9. Disturb /\ tmplCache' = tmplCache /\ active' \in Manifests \cup {NoRelease}
  BY DEF Edit, AgeInvariant, TypeOK
<1> QED
  BY <1>1, <1>6, <1>7, <1>8, <1>9, DisturbAge

LEMMA DeleteAge ==
  ASSUME AgeInvariant, NEW n \in Files, Delete(n)
  PROVE  AgeInvariant'
<1>1. clock \in Nat /\ clock' = clock /\ dir' = [dir EXCEPT ![n] = NoFile]
  BY DEF Delete, AgeInvariant, TypeOK
<1>3. PICK f : f = NoFile
  OBVIOUS
<1>4. IsEntry(f)' /\ f.kind # "file"
  <2>1. f.kind = "none" /\ f.mtime = 0 /\ f = [kind |-> f.kind, mtime |-> f.mtime, parses |-> f.parses]
    BY <1>3 DEF NoFile
  <2> QED
    BY <1>1, <2>1 DEF IsEntry, Kind
<1>5. \A m \in Files : dir'[m] = IF m = n THEN f ELSE dir[m]
  BY <1>1, <1>3 DEF AgeInvariant, TypeOK
<1>6. DOMAIN dir' = Files /\ dir' = [m \in Files |-> dir'[m]]
  BY <1>1 DEF AgeInvariant, TypeOK
<1>7. \A m \in Files : IsEntry(dir[m])'
  <2> TAKE m \in Files
  <2>1. CASE m = n
    BY <1>4, <1>5, <2>1 DEF IsEntry
  <2>2. CASE m # n
    <3>1. IsEntry(dir[m]) /\ dir'[m] = dir[m]
      BY <1>5, <2>2 DEF AgeInvariant, TypeOK
    <3> QED
      BY <1>1, <3>1 DEF IsEntry
  <2> QED
    BY <2>1, <2>2
<1>8. \A m \in Files : dir'[m].kind = "file" => dir'[m] = dir[m]
  BY <1>4, <1>5
<1>9. Disturb /\ tmplCache' = tmplCache /\ active' \in Manifests \cup {NoRelease}
  BY DEF Delete, AgeInvariant, TypeOK
<1> QED
  BY <1>1, <1>6, <1>7, <1>8, <1>9, DisturbAge

LEMMA SwitchAge ==
  ASSUME AgeInvariant, NEW m \in Manifests, Switch(m)
  PROVE  AgeInvariant'
<1>1. /\ clock \in Nat /\ clock' = clock /\ dir' = dir /\ Disturb /\ tmplCache' = tmplCache
      /\ active' \in Manifests \cup {NoRelease}
  BY DEF Switch, AgeInvariant, TypeOK
<1>2. \A n \in Files : IsEntry(dir[n])'
  BY <1>1 DEF AgeInvariant, TypeOK, IsEntry
<1>3. DOMAIN dir' = Files /\ dir' = [n \in Files |-> dir'[n]]
  BY <1>1 DEF AgeInvariant, TypeOK
<1> QED
  BY <1>1, <1>2, <1>3, DisturbAge

LEMMA AgeStep == AgeInvariant /\ [Next]_vars => AgeInvariant'
<1> SUFFICES ASSUME AgeInvariant, [Next]_vars PROVE AgeInvariant'
  OBVIOUS
<1>1. CASE UNCHANGED vars
  <2>1. UNCHANGED <<dir, tmplCache, active, clock, req>>
    BY <1>1 DEF vars
  <2>2. TypeOK' /\ CacheIsSound'
    BY <2>1 DEF AgeInvariant, TypeOK, IsEntry, IsRequest, Shaped, CacheIsSound, NotAhead
  <2>3. LegacyNames' = LegacyNames
    BY <2>1 DEF LegacyNames, Listed
  <2>4. \A r \in Requests : InFlight(req[r])' /\ Current(req[r])'
    BY ZenonT(60), <2>1, <2>3 DEF AgeInvariant, InFlight, Reading, Releasing, BeingListed,
       NotAhead, Exists, Current
  <2> QED
    BY <2>2, <2>4 DEF AgeInvariant
<1>2. ASSUME NEW r \in Requests, NEW n \in Names, Get(r, n) PROVE AgeInvariant'
  BY <1>2, GetAge
<1>3. ASSUME NEW r \in Requests,
             \/ LookupTemplate(r) \/ ReadTemplate(r) \/ StoreTemplate(r) \/ Denied(r)
             \/ ServeReleaseName(r) \/ List(r) \/ ListRelease(r)
      PROVE  AgeInvariant'
  BY <1>3, LookupAge, ReadAge, StoreAge, DeniedAge, ServeReleaseAge, ListAge, ListReleaseAge
<1>4. ASSUME NEW r \in Requests, NEW id \in Names, NEW version \in Versions \cup {NoVersion},
             NEW variant \in Variants \cup {""}, GetVariant(r, id, version, variant)
      PROVE  AgeInvariant'
  BY <1>4, GetVariantAge
<1>5. ASSUME NEW n \in Files, Delete(n) \/ \E parses \in BOOLEAN : Edit(n, parses) PROVE AgeInvariant'
  BY <1>5, DeleteAge, EditAge
<1>6. ASSUME NEW m \in Manifests, Switch(m) PROVE AgeInvariant'
  BY <1>6, SwitchAge
<1> QED
  BY <1>1, <1>2, <1>3, <1>4, <1>5, <1>6 DEF Next

(* What a legacy style is served with, for any number of requests, files   *)
(* and edits (styleTemplate, serveLegacyStyle): a text no older than the   *)
(* file was when the request began, the very file if it did not change.    *)
THEOREM ServedStylesAreCurrent == Spec => []ServedIsCurrent
<1>1. AgeInvariant => ServedIsCurrent
  BY DEF AgeInvariant, Current, ServedIsCurrent
<1> QED
  BY AgeInit, AgeStep, <1>1, PTL DEF Spec

----------------------------------------------------------------------------
(* What is listed under a name and what the release has under it.          *)

\* A manifest of a release, and a name that is not both an alias and a style.
Clear(m, name) ==
  m \in Manifests \cup {NoRelease} /\ ~(name \in Variants /\ m # NoRelease /\ \E i \in DOMAIN m : m[i].id = name)

EntriesOf(m, have, name) == {e \in Listing(m, have) : e.name = name}

LEMMA TwoVariants == Variants = {"light", "dark"}
<1>1. styleVariants \in Seq({"light", "dark"}) /\ Len(styleVariants) = 2
      /\ styleVariants[1] = "light" /\ styleVariants[2] = "dark"
  BY DEF styleVariants
<1>2. DOMAIN styleVariants = 1..2
  BY <1>1, LenProperties
<1>3. 1..2 = {1, 2}
  OBVIOUS
<1> QED
  BY <1>1, <1>2, <1>3 DEF Variants, Range

LEMMA Manifested ==
  ASSUME NEW m \in Manifests
  PROVE  Listable(m) /\ Validate(m) /\ m # NoRelease
BY ManifestsAreValid DEF Listable

\* An entry, by where it comes from.
LEMMA ListedBy ==
  ASSUME NEW m, NEW have, NEW e
  PROVE  e \in Listing(m, have) <=>
           \/ e \in {[name |-> n, shows |-> <<>>] : n \in have}
           \/ m # NoRelease /\ e \in Aliases(m, have)
           \/ m # NoRelease /\ e \in Styles(m, have)
BY DEF Listing

LEMMA AliasEntry ==
  ASSUME NEW m, NEW have, NEW e
  PROVE  e \in Aliases(m, have) <=>
           \E v \in Variants : /\ m # <<>> /\ v \notin have /\ v \in m[DefaultStyle(m)].variants
                               /\ e = [name |-> v, shows |-> <<>>]
BY DEF Aliases

LEMMA StyleEntry ==
  ASSUME NEW m, NEW have, NEW e
  PROVE  e \in Styles(m, have) <=>
           \E i \in Range(ReleaseStyles(m)) :
             m[i].id \notin have /\ e = [name |-> m[i].id, shows |-> <<m[i].id, m[i].version>>]
BY DEF Styles, NotTaken

\* A name of a legacy file is listed once, for the file.
LEMMA LegacyEntries ==
  ASSUME NEW m, NEW have, NEW name \in have
  PROVE  EntriesOf(m, have, name) # {} /\ \A e \in EntriesOf(m, have, name) : e.shows = <<>>
<1>1. \E e \in EntriesOf(m, have, name) : TRUE
  <2>1. PICK e : e = [name |-> name, shows |-> <<>>]
    OBVIOUS
  <2>2. e \in {[name |-> n, shows |-> <<>>] : n \in have} /\ e.name = name
    BY <2>1
  <2> QED
    BY <2>2, ListedBy DEF EntriesOf
<1>2. ASSUME NEW e \in EntriesOf(m, have, name) PROVE e.shows = <<>>
  <2>1. e \in Listing(m, have) /\ e.name = name
    BY DEF EntriesOf
  <2>2. CASE e \in {[name |-> n, shows |-> <<>>] : n \in have}
    BY <2>2
  <2>3. CASE e \in Aliases(m, have)
    BY <2>3, AliasEntry
  <2>4. CASE e \in Styles(m, have)
    <3>1. PICK i \in Range(ReleaseStyles(m)) :
            m[i].id \notin have /\ e = [name |-> m[i].id, shows |-> <<m[i].id, m[i].version>>]
      BY <2>4, StyleEntry
    <3>2. e.name = m[i].id
      BY <3>1
    <3> QED
      BY <2>1, <3>1, <3>2
  <2> QED
    BY <2>1, <2>2, <2>3, <2>4, ListedBy
<1> QED
  BY <1>1, <1>2

\* What the release serves under an alias, and under any other name.
LEMMA AliasServed ==
  ASSUME NEW m \in Manifests, NEW name \in Variants
  PROVE  InRelease(m, name) <=> m # <<>> /\ name \in m[DefaultStyle(m)].variants
<1>1. NamedStyle(m, name) = DefaultStyle(m) /\ NamedVariant(NamedEntry(m, name), name) = name
  BY DEF NamedStyle, NamedVariant
<1>2. Listable(m) /\ m # NoRelease
  BY Manifested
<1>3. DefaultStyle(m) # 0 <=> m # <<>>
  <2>1. CASE m = <<>>
    BY <1>2, <2>1, DefaultFound
  <2>2. CASE m # <<>>
    <3>1. PICK k \in DOMAIN m : DefaultStyle(m) = LatestStyle(m, m[k].id)
      BY <1>2, <2>2, DefaultFound
    <3> QED
      BY <1>2, <2>2, <3>1, LatestFound
  <2> QED
    BY <2>1, <2>2
<1> QED
  BY <1>1, <1>2, <1>3 DEF InRelease, NamedEntry

LEMMA StyleServed ==
  ASSUME NEW m \in Manifests, NEW name, name \notin Variants
  PROVE  InRelease(m, name) <=> LatestStyle(m, name) # 0
<1>1. NamedStyle(m, name) = LatestStyle(m, name)
  BY DEF NamedStyle
<1>2. Listable(m) /\ m # NoRelease /\ Validate(m)
  BY Manifested
<1> DEFINE i == LatestStyle(m, name)
<1>3. ASSUME i # 0 PROVE NamedVariant(m[i], name) \in m[i].variants
  <2>1. i \in 0..Len(m) /\ Len(m) \in Nat /\ DOMAIN m = 1..Len(m)
    BY <1>2, LatestFound, Entries
  <2> HIDE DEF i
  <2>2. i \in DOMAIN m
    BY <1>3, <2>1
  <2>3. m[i].variants # {} /\ m[i].variants \subseteq {"light", "dark"}
    BY <1>2, <2>2, TwoVariants DEF Validate
  <2> QED
    BY <2>3 DEF NamedVariant
<1> QED
  BY <1>1, <1>2, <1>3 DEF InRelease, NamedEntry

\* Which entries the release adds under a name that no legacy file has.
LEMMA AliasEntries ==
  ASSUME NEW m \in Manifests, NEW have, NEW name \in Variants, name \notin have, Clear(m, name)
  PROVE  /\ EntriesOf(m, have, name) # {} <=> InRelease(m, name)
         /\ \A e \in EntriesOf(m, have, name) : e.shows = <<>>
<1>0. Listable(m) /\ m # NoRelease
  BY Manifested
<1>1. ASSUME NEW e \in EntriesOf(m, have, name)
      PROVE  e.shows = <<>> /\ m # <<>> /\ name \in m[DefaultStyle(m)].variants
  <2>1. e \in Listing(m, have) /\ e.name = name
    BY DEF EntriesOf
  <2>2. CASE e \in {[name |-> n, shows |-> <<>>] : n \in have}
    BY <2>1, <2>2
  <2>3. CASE e \in Aliases(m, have)
    <3>1. PICK v \in Variants : /\ m # <<>> /\ v \notin have /\ v \in m[DefaultStyle(m)].variants
                                /\ e = [name |-> v, shows |-> <<>>]
      BY <2>3, AliasEntry
    <3>2. e.name = v /\ e.shows = <<>>
      BY <3>1
    <3> QED
      BY <2>1, <3>1, <3>2
  <2>4. CASE e \in Styles(m, have)
    <3>1. PICK i \in Range(ReleaseStyles(m)) :
            m[i].id \notin have /\ e = [name |-> m[i].id, shows |-> <<m[i].id, m[i].version>>]
      BY <2>4, StyleEntry
    <3>2. e.name = m[i].id
      BY <3>1
    <3>3. m # <<>>
      <4>1. ASSUME m = <<>> PROVE ReleaseStyles(m) = <<>>
        BY <4>1 DEF ReleaseStyles
      <4>2. Range(<<>>) = {}
        BY DEF Range
      <4> QED
        BY <4>1, <4>2
    <3>4. i \in DOMAIN m
      BY <1>0, <3>3, ListedIsNewest
    <3> QED
      BY <1>0, <2>1, <3>2, <3>4 DEF Clear
  <2> QED
    BY <2>1, <2>2, <2>3, <2>4, ListedBy
<1>2. ASSUME m # <<>>, name \in m[DefaultStyle(m)].variants PROVE EntriesOf(m, have, name) # {}
  <2>1. PICK e : e = [name |-> name, shows |-> <<>>]
    OBVIOUS
  <2>2. e \in Aliases(m, have) /\ e.name = name
    BY <1>2, <2>1, AliasEntry
  <2> QED
    BY <1>0, <2>2, ListedBy DEF EntriesOf
<1> QED
  BY <1>1, <1>2, AliasServed

LEMMA StyleEntries ==
  ASSUME NEW m \in Manifests, NEW have, NEW name, name \notin Variants, name \notin have
  PROVE  /\ EntriesOf(m, have, name) # {} <=> InRelease(m, name)
         /\ \A e \in EntriesOf(m, have, name) :
              e.shows = <<NamedEntry(m, name).id, NamedEntry(m, name).version>>
<1>0. Listable(m) /\ m # NoRelease
  BY Manifested
<1> DEFINE l == LatestStyle(m, name)
<1>1. NamedEntry(m, name) = m[l]
  BY DEF NamedEntry, NamedStyle
<1>2. ASSUME NEW e \in EntriesOf(m, have, name)
      PROVE  l # 0 /\ e.shows = <<m[l].id, m[l].version>>
  <2>1. e \in Listing(m, have) /\ e.name = name
    BY DEF EntriesOf
  <2>2. CASE e \in {[name |-> n, shows |-> <<>>] : n \in have}
    BY <2>1, <2>2
  <2>3. CASE e \in Aliases(m, have)
    <3>1. PICK v \in Variants : e = [name |-> v, shows |-> <<>>]
      BY <2>3, AliasEntry
    <3>2. e.name = v
      BY <3>1
    <3> QED
      BY <2>1, <3>2
  <2>4. CASE e \in Styles(m, have)
    <3>1. PICK i \in Range(ReleaseStyles(m)) :
            m[i].id \notin have /\ e = [name |-> m[i].id, shows |-> <<m[i].id, m[i].version>>]
      BY <2>4, StyleEntry
    <3>2. e.name = m[i].id /\ e.shows = <<m[i].id, m[i].version>>
      BY <3>1
    <3>3. m # <<>>
      <4>1. ASSUME m = <<>> PROVE ReleaseStyles(m) = <<>>
        BY <4>1 DEF ReleaseStyles
      <4>2. Range(<<>>) = {}
        BY DEF Range
      <4> QED
        BY <4>1, <4>2
    <3>4. i # 0 /\ LatestStyle(m, m[i].id) = i
      BY <1>0, <3>3, ListedIsNewest
    <3>5. l = i
      BY <2>1, <3>2, <3>4
    <3> HIDE DEF l
    <3> QED
      BY <3>2, <3>4, <3>5
  <2> QED
    BY <2>1, <2>2, <2>3, <2>4, ListedBy
<1>3. ASSUME l # 0 PROVE EntriesOf(m, have, name) # {}
  <2>1. l \in 0..Len(m) /\ m[l].id = name /\ Len(m) \in Nat /\ DOMAIN m = 1..Len(m) /\ (m # <<>> <=> Len(m) # 0)
    BY <1>0, <1>3, LatestFound, Entries
  <2>2. l \in 1..Len(m) /\ m # <<>>
    <3> HIDE DEF l
    <3> QED
      BY <1>3, <2>1
  <2>3. l \in Newest(m, Len(m))
    <3>1. l = LatestStyle(m, m[l].id)
      BY <2>1
    <3> HIDE DEF l
    <3> QED
      BY <2>2, <3>1 DEF Newest
  <2>4. l \in Range(ReleaseStyles(m))
    BY <1>0, <2>2, <2>3, ReleaseStylesAreNewest
  <2>5. PICK e : e = [name |-> m[l].id, shows |-> <<m[l].id, m[l].version>>]
    OBVIOUS
  <2> HIDE DEF l
  <2>6. e \in Styles(m, have) /\ e.name = name
    BY <2>1, <2>4, <2>5, StyleEntry
  <2> QED
    BY <1>0, <2>6, ListedBy DEF EntriesOf
<1>4. InRelease(m, name) <=> l # 0
  BY StyleServed
<1> HIDE DEF l
<1> QED
  BY <1>1, <1>2, <1>3, <1>4

\* The release serves a name that no legacy file has if and only if it is listed, as shown.
LEMMA ReleaseEntries ==
  ASSUME NEW m, NEW have, NEW name, name \notin have, Clear(m, name)
  PROVE  /\ EntriesOf(m, have, name) # {} <=> InRelease(m, name)
         /\ \A e \in EntriesOf(m, have, name) : e.shows # <<>> =>
              e.shows = <<NamedEntry(m, name).id, NamedEntry(m, name).version>>
<1>1. CASE m = NoRelease
  <2>1. ASSUME NEW e \in EntriesOf(m, have, name) PROVE FALSE
    <3>1. e \in {[name |-> n, shows |-> <<>>] : n \in have} /\ e.name = name
      BY <1>1, ListedBy DEF EntriesOf
    <3> QED
      BY <3>1
  <2>2. ~InRelease(m, name)
    BY <1>1 DEF InRelease
  <2> QED
    BY <2>1, <2>2
<1>2. CASE m \in Manifests /\ name \in Variants
  BY <1>2, AliasEntries
<1>3. CASE m \in Manifests /\ name \notin Variants
  BY <1>3, StyleEntries
<1> QED
  BY <1>1, <1>2, <1>3 DEF Clear

----------------------------------------------------------------------------
(* The listing is true.                                                    *)

LEMMA EmptyBody == ASSUME NEW body, body = <<>> PROVE Len(body) # 1
<1>1. Len(<<>>) = 0
  OBVIOUS
<1> QED
  BY <1>1

LEMMA ListingInit == Init => ListingInvariant
<1> SUFFICES ASSUME Init PROVE ListingInvariant
  OBVIOUS
<1>1. AgeInvariant
  BY AgeInit
<1>2. \A r \in Requests : Answered(req[r]) /\ HasListed(req[r])
  <2> TAKE r \in Requests
  <2>0. PICK name, body : name = "" /\ body = <<>>
    OBVIOUS
  <2>1. PICK q : q = Idle(name, 0, body)
    OBVIOUS
  <2>2. req[r] = q
    BY <2>0, <2>1 DEF Init, NoRequest
  <2>a. q.name = name /\ q.body = body
    BY <2>1 DEF Idle
  <2>b. Len(body) # 1
    BY <2>0, EmptyBody
  <2>3. q.name = "" /\ Len(q.body) # 1
    BY <2>0, <2>a, <2>b
  <2> QED
    BY <2>2, <2>3 DEF Answered, HasListed
<1> QED
  BY <1>1, <1>2 DEF ListingInvariant

\* One request gets an answer or goes on.
LEMMA OneAnswers ==
  ASSUME ListingInvariant, AgeInvariant', UNCHANGED <<dir, active>>, NEW r \in Requests, NEW q,
         req' = [req EXCEPT ![r] = q], Answered(q), HasListed(q)
  PROVE  ListingInvariant'
<1>1. \A s \in Requests : req'[s] = IF s = r THEN q ELSE req[s]
  BY DEF ListingInvariant, AgeInvariant, TypeOK
<1>2. \A s \in Requests : Answered(req'[s]) /\ HasListed(req'[s])
  BY <1>1 DEF ListingInvariant
<1>3. LegacyNames' = LegacyNames /\ active' = active /\ dir' = dir
  BY DEF LegacyNames, Listed
<1>4. \A n : Plain(n)' <=> Plain(n)
  BY <1>3 DEF Plain
<1>5. \A s \in Requests : Answered(req[s])' /\ HasListed(req[s])'
  <2> TAKE s \in Requests
  <2>1. Answered(req'[s]) /\ HasListed(req'[s])
    BY <1>2
  <2>2. Answered(req[s])'
    BY <1>3, <1>4, <2>1 DEF Answered
  <2>3. HasListed(req[s])'
    BY <1>3, <2>1 DEF HasListed
  <2> QED
    BY <2>2, <2>3
<1> QED
  BY <1>5 DEF ListingInvariant

\* A request that goes on, or ends disturbed, promises nothing.
LEMMA NotYet ==
  ASSUME NEW q, q.step # "idle" \/ q.quiet = FALSE
  PROVE  Answered(q) /\ HasListed(q)
BY DEF Answered, HasListed

LEMMA NothingListed ==
  ASSUME NEW name, NEW status, NEW body, Len(body) # 1
  PROVE  HasListed(Idle(name, status, body))
<1>1. PICK q : q = Idle(name, status, body)
  OBVIOUS
<1>2. q.body = body
  BY <1>1 DEF Idle
<1> QED
  BY <1>1, <1>2 DEF HasListed

LEMMA GetListing ==
  ASSUME ListingInvariant, AgeInvariant', NEW r \in Requests, NEW n \in Names, Get(r, n)
  PROVE  ListingInvariant'
<1>0. UNCHANGED <<dir, active>>
  BY DEF Get
<1>1. CASE n \notin Proper
  <2>1. PICK status, body : status = 400 /\ body = <<>>
    OBVIOUS
  <2>2. PICK q : q = Idle(n, status, body)
    OBVIOUS
  <2>3. req' = [req EXCEPT ![r] = q]
    BY <1>1, <2>1, <2>2 DEF Get
  <2>4. q.name = n /\ q.body = body
    BY <2>2 DEF Idle
  <2>5. Answered(q)
    BY <1>1, <2>4 DEF Answered, Plain
  <2>6. HasListed(q)
    BY <2>4, StylesAssumption DEF HasListed
  <2> QED
    BY <1>0, <2>3, <2>5, <2>6, OneAnswers
<1>2. CASE n \in Proper /\ Exists(n)
  <2>0. PICK idle : idle = Idle(n, 0, <<>>)
    OBVIOUS
  <2>1. PICK q : q = [idle EXCEPT !.step = "lookup", !.mtime = dir[n].mtime]
    OBVIOUS
  <2>2. req' = [req EXCEPT ![r] = q]
    BY <1>2, <2>0, <2>1 DEF Get
  <2>3. q = [step |-> "lookup", name |-> n, mtime |-> dir[n].mtime, text |-> 0, status |-> 0, body |-> <<>>,
             have |-> {}, quiet |-> TRUE]
    BY <2>0, <2>1 DEF Idle
  <2>4. q.step # "idle"
    BY <2>3
  <2> QED
    BY <1>0, <2>2, <2>4, NotYet, OneAnswers
<1>3. CASE n \in Proper /\ ~Exists(n)
  <2>0. PICK idle : idle = Idle(n, 0, <<>>)
    OBVIOUS
  <2>1. PICK q : q = [idle EXCEPT !.step = "release"]
    OBVIOUS
  <2>2. req' = [req EXCEPT ![r] = q]
    BY <1>3, <2>0, <2>1 DEF Get
  <2>3. q = [step |-> "release", name |-> n, mtime |-> 0, text |-> 0, status |-> 0, body |-> <<>>,
             have |-> {}, quiet |-> TRUE]
    BY <2>0, <2>1 DEF Idle
  <2>4. q.step # "idle"
    BY <2>3
  <2> QED
    BY <1>0, <2>2, <2>4, NotYet, OneAnswers
<1> QED
  BY <1>1, <1>2, <1>3

\* What Answer makes of a request.
LEMMA AnswerMade ==
  ASSUME ListingInvariant, AgeInvariant', UNCHANGED <<dir, active>>, NEW r \in Requests,
         NEW status, NEW body, Answer(r, status, body),
         req[r].quiet /\ req[r].name # "" /\ Plain(req[r].name) =>
           IF req[r].name \in LegacyNames THEN status = 200 /\ Len(body) = 1
           ELSE IF InRelease(active, req[r].name)
                THEN /\ status = 200
                     /\ body = Found(NamedEntry(active, req[r].name),
                                     NamedVariant(NamedEntry(active, req[r].name), req[r].name))
                ELSE status = 404,
         req[r].quiet /\ req[r].name = "" /\ Len(body) = 1 => body[1] = Listing(active, LegacyNames)
  PROVE  ListingInvariant'
<1>0. PICK idle : idle = Idle(req[r].name, status, body)
  OBVIOUS
<1>a. PICK q : q = [idle EXCEPT !.quiet = req[r].quiet, !.mtime = req[r].mtime]
  OBVIOUS
<1>1. req' = [req EXCEPT ![r] = q]
  BY <1>0, <1>a DEF Answer, ListingInvariant, AgeInvariant, TypeOK
<1>2. q = [step |-> "idle", name |-> req[r].name, mtime |-> req[r].mtime, text |-> 0, status |-> status,
           body |-> body, have |-> {}, quiet |-> req[r].quiet]
  BY ZenonT(60), <1>0, <1>a DEF Idle
<1>3. q.name = req[r].name /\ q.status = status /\ q.body = body /\ q.quiet = req[r].quiet
  BY <1>2
<1>4. Answered(q)
  BY <1>3 DEF Answered
<1>5. HasListed(q)
  BY <1>3 DEF HasListed
<1> QED
  BY <1>1, <1>4, <1>5, OneAnswers

\* A plain name that Stat finds is a template's.
LEMMA FoundIsFile ==
  ASSUME NEW n \in Files, Plain(n), Exists(n)
  PROVE  n \in LegacyNames /\ dir[n].kind = "file" /\ dir[n].parses
<1>1. PICK f : f = dir[n]
  OBVIOUS
<1>2. CASE f = NoFile
  <2>1. f.kind = "none"
    BY <1>2 DEF NoFile
  <2> QED
    BY <1>1, <2>1 DEF Exists
<1>3. CASE f = File(f.mtime, TRUE)
  <2>1. f.kind = "file" /\ f.parses
    BY <1>3 DEF File
  <2> QED
    BY <1>1, <2>1 DEF LegacyNames, Listed
<1> QED
  BY <1>1, <1>2, <1>3 DEF Plain

LEMMA NotFoundIsNone ==
  ASSUME NEW n, Plain(n), ~Exists(n)
  PROVE  n \notin LegacyNames
<1> SUFFICES ASSUME n \in Files PROVE n \notin LegacyNames
  BY DEF LegacyNames
<1>1. PICK f : f = dir[n]
  OBVIOUS
<1>2. CASE f = NoFile
  <2>1. f.kind = "none"
    BY <1>2 DEF NoFile
  <2> QED
    BY <1>1, <2>1 DEF LegacyNames, Listed
<1>3. CASE f = File(f.mtime, TRUE)
  <2>1. f.kind = "file"
    BY <1>3 DEF File
  <2> QED
    BY <1>1, <2>1 DEF Exists
<1> QED
  BY <1>1, <1>2, <1>3 DEF Plain

\* An answer of a legacy style.
LEMMA LegacyListing ==
  ASSUME ListingInvariant, AgeInvariant', UNCHANGED <<dir, active>>, NEW r \in Requests, Reading(req[r]),
         NEW text, Answer(r, 200, <<text>>)
  PROVE  ListingInvariant'
<1>1. req[r].name \in Files /\ req[r].name # "" /\ (req[r].quiet => Exists(req[r].name))
  BY StylesAssumption DEF Reading
<1>2. PICK status, body : status = 200 /\ body = <<text>>
  OBVIOUS
<1>3. Len(body) = 1 /\ Answer(r, status, body)
  BY <1>2
<1>4. ASSUME req[r].quiet, Plain(req[r].name) PROVE req[r].name \in LegacyNames
  BY <1>1, <1>4, FoundIsFile
<1> QED
  BY <1>1, <1>2, <1>3, <1>4, AnswerMade

LEMMA FailsListing ==
  ASSUME ListingInvariant, AgeInvariant', UNCHANGED <<dir, active>>, NEW r \in Requests, Fails(r)
  PROVE  ListingInvariant'
<1>1. PICK q : req' = [req EXCEPT ![r] = q] /\ q.quiet = FALSE
  BY FailsMakes DEF ListingInvariant
<1> QED
  BY <1>1, NotYet, OneAnswers

LEMMA DeniedListing ==
  ASSUME ListingInvariant, AgeInvariant', NEW r \in Requests, Denied(r)
  PROVE  ListingInvariant'
<1>1. UNCHANGED <<dir, active>> /\ Fails(r)
  BY DEF Denied
<1> QED
  BY <1>1, FailsListing

LEMMA LookupListing ==
  ASSUME ListingInvariant, AgeInvariant', NEW r \in Requests, LookupTemplate(r)
  PROVE  ListingInvariant'
<1> DEFINE cached == tmplCache[req[r].name]
<1>1. /\ req[r].step = "lookup" /\ Reading(req[r]) /\ IsRequest(req[r]) /\ UNCHANGED <<dir, active>>
  BY DEF LookupTemplate, ListingInvariant, AgeInvariant, TypeOK, InFlight
<1>2. CASE cached.text # 0 /\ cached.modTime = req[r].mtime
  <2>1. Answer(r, 200, <<cached.text>>) \/ Fails(r)
    BY <1>2 DEF LookupTemplate, Render
  <2> HIDE DEF cached
  <2> QED
    BY <1>1, <2>1, LegacyListing, FailsListing
<1>3. CASE ~(cached.text # 0 /\ cached.modTime = req[r].mtime)
  <2>1. PICK q : q = [req[r] EXCEPT !.step = "read"]
    OBVIOUS
  <2>2. req' = [req EXCEPT ![r] = q]
    BY <1>3, <2>1 DEF LookupTemplate, Goto, ListingInvariant, AgeInvariant, TypeOK
  <2>3. q = [step |-> "read", name |-> req[r].name, mtime |-> req[r].mtime, text |-> req[r].text,
             status |-> req[r].status, body |-> req[r].body, have |-> req[r].have, quiet |-> req[r].quiet]
    BY <1>1, <2>1 DEF IsRequest, Shaped
  <2>4. q.step # "idle"
    BY <2>3
  <2> QED
    BY <1>1, <2>2, <2>4, NotYet, OneAnswers
<1> QED
  BY <1>2, <1>3

LEMMA ReadListing ==
  ASSUME ListingInvariant, AgeInvariant', NEW r \in Requests, ReadTemplate(r)
  PROVE  ListingInvariant'
<1> DEFINE file == dir[req[r].name]
<1>1. /\ req[r].step = "read" /\ Reading(req[r]) /\ IsRequest(req[r]) /\ UNCHANGED <<dir, active>>
  BY DEF ReadTemplate, ListingInvariant, AgeInvariant, TypeOK, InFlight
<1>2. CASE file.kind = "file" /\ file.parses
  <2>1. PICK q : q = [req[r] EXCEPT !.step = "store", !.text = file.mtime]
    OBVIOUS
  <2>2. req' = [req EXCEPT ![r] = q]
    BY <1>2, <2>1 DEF ReadTemplate, ListingInvariant, AgeInvariant, TypeOK
  <2>3. q = [step |-> "store", name |-> req[r].name, mtime |-> req[r].mtime, text |-> file.mtime,
             status |-> req[r].status, body |-> req[r].body, have |-> req[r].have, quiet |-> req[r].quiet]
    BY <1>1, <2>1 DEF IsRequest, Shaped
  <2>4. q.step # "idle"
    BY <2>3
  <2> QED
    BY <1>1, <2>2, <2>4, NotYet, OneAnswers
<1>3. CASE ~(file.kind = "file" /\ file.parses)
  <2>1. PICK status, body : status = 500 /\ body = <<>>
    OBVIOUS
  <2>2. Answer(r, status, body)
    BY <1>3, <2>1 DEF ReadTemplate
  <2>3. ~(req[r].quiet /\ Plain(req[r].name))
    BY <1>1, <1>3, FoundIsFile DEF Reading
  <2>4. req[r].name # ""
    BY <1>1, StylesAssumption DEF Reading
  <2> QED
    BY <1>1, <2>2, <2>3, <2>4, AnswerMade
<1> QED
  BY <1>2, <1>3

LEMMA ServeReleaseListing ==
  ASSUME ListingInvariant, AgeInvariant', NEW r \in Requests, ServeReleaseName(r)
  PROVE  ListingInvariant'
<1> DEFINE n == req[r].name
           i == IF active = NoRelease THEN 0 ELSE NamedStyle(active, n)
           variant == NamedVariant(active[i], n)
<1>1. /\ req[r].step = "release" /\ Releasing(req[r]) /\ n # "" /\ UNCHANGED <<dir, active>>
  BY StylesAssumption DEF ServeReleaseName, ListingInvariant, AgeInvariant, InFlight, Releasing
<1>2. ASSUME req[r].quiet, Plain(n) PROVE n \notin LegacyNames
  BY <1>1, <1>2, NotFoundIsNone DEF Releasing
<1>3. CASE i # 0 /\ variant \in active[i].variants
  <2>1. PICK status, body : status = 200 /\ body = Found(active[i], variant)
    OBVIOUS
  <2>2. Answer(r, status, body)
    BY <1>3, <2>1 DEF ServeReleaseName
  <2>3. active # NoRelease /\ NamedEntry(active, n) = active[i] /\ InRelease(active, n)
    BY <1>3 DEF InRelease, NamedEntry
  <2> HIDE DEF n, i, variant
  <2> QED
    BY <1>1, <1>2, <2>1, <2>2, <2>3, AnswerMade DEF n, variant
<1>4. CASE ~(i # 0 /\ variant \in active[i].variants)
  <2>1. PICK status, body : status = 404 /\ body = <<>>
    OBVIOUS
  <2>2. Answer(r, status, body)
    BY <1>4, <2>1 DEF ServeReleaseName
  <2>3. ~InRelease(active, n)
    BY <1>4 DEF InRelease, NamedEntry
  <2> HIDE DEF i, variant
  <2> QED
    BY ZenonT(60), <1>1, <1>2, <2>1, <2>2, <2>3, AnswerMade
<1> QED
  BY <1>3, <1>4

LEMMA VariantBody ==
  ASSUME NEW m, NEW id, NEW version, NEW variant
  PROVE  Len(ReleaseVariant(m, id, version, variant)) # 1
<1>1. \A s : Found(s, variant) = <<s.id, s.version, variant>>
  BY DEF Found
<1>2. \A a, b, c : Len(<<a, b, c>>) = 3
  OBVIOUS
<1>3. Len(<<>>) = 0
  OBVIOUS
<1> DEFINE i == IF version = NoVersion THEN LatestStyle(m, id) ELSE FindStyle(m, id, version)
<1>4. ReleaseVariant(m, id, version, variant) = Found(m[i], variant) \/ ReleaseVariant(m, id, version, variant) = <<>>
  BY DEF ReleaseVariant
<1> HIDE DEF i
<1> QED
  BY <1>1, <1>2, <1>3, <1>4

LEMMA GetVariantListing ==
  ASSUME ListingInvariant, AgeInvariant', NEW r \in Requests, NEW id, NEW version, NEW variant,
         GetVariant(r, id, version, variant)
  PROVE  ListingInvariant'
<1>1. UNCHANGED <<dir, active>>
  BY DEF GetVariant
<1> DEFINE body == IF active = NoRelease THEN <<>> ELSE ReleaseVariant(active, id, version, variant)
           status == CASE id \notin Proper                                            -> 400
                       [] id \in Proper /\ variant \in Variants /\ active = NoRelease -> 503
                       [] id \in Proper /\ body # <<>>                                -> 200
                       [] OTHER                                                       -> 404
<1>2. req' = [req EXCEPT ![r] = Idle("", status, body)]
  BY DEF GetVariant
<1>3. Len(body) # 1
  <2>1. Len(<<>>) = 0
    OBVIOUS
  <2> QED
    BY <2>1, VariantBody
<1> HIDE DEF status, body
<1>4. PICK name : name = ""
  OBVIOUS
<1>5. PICK q : q = Idle(name, status, body)
  OBVIOUS
<1>6. q.name = name /\ q.body = body
  BY <1>5 DEF Idle
<1>7. Answered(q) /\ HasListed(q)
  BY <1>3, <1>4, <1>6 DEF Answered, HasListed
<1> QED
  BY <1>1, <1>2, <1>4, <1>5, <1>7, OneAnswers

LEMMA ListListing ==
  ASSUME ListingInvariant, AgeInvariant', NEW r \in Requests, List(r)
  PROVE  ListingInvariant'
<1>1. PICK idle : idle = NoRequest
  OBVIOUS
<1>2. PICK q : q = [idle EXCEPT !.step = "list", !.have = LegacyNames]
  OBVIOUS
<1>3. req' = [req EXCEPT ![r] = q] /\ UNCHANGED <<dir, active>>
  BY <1>1, <1>2 DEF List
<1>4. q = [step |-> "list", name |-> "", mtime |-> 0, text |-> 0, status |-> 0,
           body |-> <<>>, have |-> LegacyNames, quiet |-> TRUE]
  BY <1>1, <1>2 DEF Idle, NoRequest
<1>5. q.step # "idle"
  BY <1>4
<1> QED
  BY <1>3, <1>5, NotYet, OneAnswers

LEMMA ListReleaseListing ==
  ASSUME ListingInvariant, AgeInvariant', NEW r \in Requests, ListRelease(r)
  PROVE  ListingInvariant'
<1>1. BeingListed(req[r]) /\ UNCHANGED <<dir, active>>
  BY DEF ListRelease, ListingInvariant, AgeInvariant, InFlight
<1>2. PICK status, body : status = 200 /\ body = <<Listing(active, req[r].have)>>
  OBVIOUS
<1>3. Answer(r, status, body)
  BY <1>2 DEF ListRelease
<1>4. req[r].name = "" /\ (req[r].quiet => req[r].have = LegacyNames)
  BY <1>1 DEF BeingListed
<1>5. body[1] = Listing(active, req[r].have)
  BY <1>2
<1>6. req[r].quiet => body[1] = Listing(active, LegacyNames)
  BY <1>4, <1>5
<1> QED
  BY <1>1, <1>3, <1>4, <1>6, AnswerMade

LEMMA StoreListing ==
  ASSUME ListingInvariant, AgeInvariant', NEW r \in Requests, StoreTemplate(r)
  PROVE  ListingInvariant'
<1>1. /\ Reading(req[r]) /\ UNCHANGED <<dir, active>>
      /\ Answer(r, 200, <<req[r].text>>) \/ Fails(r)
  BY DEF StoreTemplate, Render, ListingInvariant, AgeInvariant, InFlight
<1> QED
  BY <1>1, LegacyListing, FailsListing

LEMMA DisturbListing ==
  ASSUME ListingInvariant, AgeInvariant', Disturb
  PROVE  ListingInvariant'
<1>1. ASSUME NEW r \in Requests PROVE Answered(req[r])' /\ HasListed(req[r])'
  <2>1. CASE req[r].step = "idle"
    <3>0. PICK name, body : name = "" /\ body = <<>>
      OBVIOUS
    <3>1. PICK q : q = Idle(name, 0, body)
      OBVIOUS
    <3>2. req'[r] = q
      BY <2>1, <3>0, <3>1 DEF Disturb, NoRequest
    <3>a. q.name = name /\ q.body = body
      BY <3>1 DEF Idle
    <3>b. Len(body) # 1
      BY <3>0, EmptyBody
    <3>3. q.name = "" /\ Len(q.body) # 1
      BY <3>0, <3>a, <3>b
    <3> QED
      BY <3>2, <3>3 DEF Answered, HasListed
  <2>2. CASE req[r].step # "idle"
    <3>1. PICK q : q = [req[r] EXCEPT !.quiet = FALSE]
      OBVIOUS
    <3>2. req'[r] = q
      BY <2>2, <3>1 DEF Disturb
    <3>3. IsRequest(req[r])
      BY DEF ListingInvariant, AgeInvariant, TypeOK
    <3>4. q = [step |-> req[r].step, name |-> req[r].name, mtime |-> req[r].mtime, text |-> req[r].text,
               status |-> req[r].status, body |-> req[r].body, have |-> req[r].have, quiet |-> FALSE]
      BY <3>1, <3>3 DEF IsRequest, Shaped
    <3>5. q.step # "idle"
      BY <2>2, <3>4
    <3> QED
      BY <3>2, <3>5 DEF Answered, HasListed
  <2> QED
    BY <2>1, <2>2
<1> QED
  BY <1>1 DEF ListingInvariant

LEMMA ListingStep == ListingInvariant /\ [Next]_vars => ListingInvariant'
<1> SUFFICES ASSUME ListingInvariant, [Next]_vars PROVE ListingInvariant'
  OBVIOUS
<1>0. AgeInvariant'
  BY AgeStep DEF ListingInvariant
<1>1. CASE UNCHANGED vars
  <2>1. UNCHANGED <<dir, tmplCache, active, clock, req>>
    BY <1>1 DEF vars
  <2>2. LegacyNames' = LegacyNames
    BY <2>1 DEF LegacyNames, Listed
  <2>3. \A n : Plain(n)' <=> Plain(n)
    BY <2>1 DEF Plain
  <2>4. \A r \in Requests : Answered(req[r])' /\ HasListed(req[r])'
    BY ZenonT(60), <2>1, <2>2, <2>3 DEF Answered, HasListed, ListingInvariant
  <2> QED
    BY <1>0, <2>4 DEF ListingInvariant
<1>2. ASSUME NEW r \in Requests, NEW n \in Names, Get(r, n) PROVE ListingInvariant'
  BY <1>0, <1>2, GetListing
<1>3. ASSUME NEW r \in Requests,
             \/ LookupTemplate(r) \/ ReadTemplate(r) \/ StoreTemplate(r) \/ Denied(r)
             \/ ServeReleaseName(r) \/ List(r) \/ ListRelease(r)
      PROVE  ListingInvariant'
  BY <1>0, <1>3, LookupListing, ReadListing, StoreListing, DeniedListing, ServeReleaseListing, ListListing,
     ListReleaseListing
<1>4. ASSUME NEW r \in Requests, NEW id \in Names, NEW version \in Versions \cup {NoVersion},
             NEW variant \in Variants \cup {""}, GetVariant(r, id, version, variant)
      PROVE  ListingInvariant'
  BY <1>0, <1>4, GetVariantListing
<1>5. ASSUME NEW n \in Files, Delete(n) \/ \E parses \in BOOLEAN : Edit(n, parses) PROVE ListingInvariant'
  BY <1>0, <1>5, DisturbListing DEF Delete, Edit
<1>6. ASSUME NEW m \in Manifests, Switch(m) PROVE ListingInvariant'
  BY <1>0, <1>6, DisturbListing DEF Switch
<1> QED
  BY <1>1, <1>2, <1>3, <1>4, <1>5, <1>6 DEF Next

LEMMA FirstTwo ==
  ASSUME NEW a, NEW b, NEW c
  PROVE  Len(<<a, b, c>>) = 3 /\ SubSeq(<<a, b, c>>, 1, 2) = <<a, b>>
<1>1. <<a, b, c>> \in Seq({a, b, c}) /\ Len(<<a, b, c>>) = 3
  OBVIOUS
<1>2. PICK s : s = <<a, b, c>>
  OBVIOUS
<1>3. s \in Seq({a, b, c}) /\ Len(s) = 3 /\ s[1] = a /\ s[2] = b
  BY <1>1, <1>2
<1>4. /\ SubSeq(s, 1, 2) \in Seq({a, b, c}) /\ Len(SubSeq(s, 1, 2)) = 2
      /\ SubSeq(s, 1, 2)[1] = a /\ SubSeq(s, 1, 2)[2] = b
  BY <1>3, SubSeqProperties
<1>5. <<a, b>> \in Seq({a, b, c}) /\ Len(<<a, b>>) = 2 /\ <<a, b>>[1] = a /\ <<a, b>>[2] = b
  OBVIOUS
<1>6. SubSeq(s, 1, 2) = <<a, b>>
  <2>1. PICK u, v : u = SubSeq(s, 1, 2) /\ v = <<a, b>>
    OBVIOUS
  <2>2. u \in Seq({a, b, c}) /\ v \in Seq({a, b, c}) /\ Len(u) = Len(v)
    BY <1>4, <1>5, <2>1
  <2>3. \A i \in 1..Len(u) : i = 1 \/ i = 2
    BY <1>4, <2>1
  <2>4. \A i \in 1..Len(u) : u[i] = v[i]
    BY <1>4, <1>5, <2>1, <2>3
  <2>5. u = v
    BY <2>2, <2>4, SeqEqual
  <2> QED
    BY <2>1, <2>5
<1> QED
  BY <1>1, <1>2, <1>6

LEMMA ListingShows == ListingInvariant => ListingIsTrue
<1> SUFFICES ASSUME ListingInvariant, NEW r \in Requests, NEW q \in Requests,
                    Asked(r), Lists(q), Plain(req[r].name)
             PROVE  LET entries == {e \in req[q].body[1] : e.name = req[r].name} IN
                    /\ req[r].status = IF entries = {} THEN 404 ELSE 200
                    /\ \A e \in entries : e.shows # <<>> =>
                         Len(req[r].body) = 3 /\ e.shows = SubSeq(req[r].body, 1, 2)
  BY DEF ListingIsTrue
<1> DEFINE n == req[r].name
           entries == {e \in req[q].body[1] : e.name = n}
<1>1. Answered(req[r]) /\ HasListed(req[q])
  BY DEF ListingInvariant
<1>2. entries = EntriesOf(active, LegacyNames, n)
  BY <1>1 DEF HasListed, Lists, EntriesOf
<1> SUFFICES /\ req[r].status = IF entries = {} THEN 404 ELSE 200
             /\ \A e \in entries : e.shows # <<>> =>
                  Len(req[r].body) = 3 /\ e.shows = SubSeq(req[r].body, 1, 2)
  OBVIOUS
<1> HIDE DEF entries
<1>3. CASE n \in LegacyNames
  <2>1. req[r].status = 200
    BY <1>1, <1>3 DEF Answered, Asked
  <2>2. entries # {} /\ \A e \in entries : e.shows = <<>>
    BY <1>2, <1>3, LegacyEntries
  <2> QED
    BY <2>1, <2>2
<1>4. CASE n \notin LegacyNames
  <2>1. Clear(active, n)
    BY DEF Clear, Plain, ListingInvariant, AgeInvariant, TypeOK
  <2>2. /\ entries # {} <=> InRelease(active, n)
        /\ \A e \in entries : e.shows # <<>> => e.shows = <<NamedEntry(active, n).id, NamedEntry(active, n).version>>
    BY <1>2, <1>4, <2>1, ReleaseEntries
  <2>3. CASE InRelease(active, n)
    <3>1. req[r].status = 200 /\ req[r].body = Found(NamedEntry(active, n), NamedVariant(NamedEntry(active, n), n))
      BY <1>1, <1>4, <2>3 DEF Answered, Asked
    <3>2. PICK a, b, c : /\ a = NamedEntry(active, n).id /\ b = NamedEntry(active, n).version
                         /\ c = NamedVariant(NamedEntry(active, n), n) /\ req[r].body = <<a, b, c>>
      BY <3>1 DEF Found
    <3>3. Len(<<a, b, c>>) = 3 /\ SubSeq(<<a, b, c>>, 1, 2) = <<a, b>>
      BY FirstTwo
    <3> HIDE DEF n
    <3> QED
      BY <2>2, <2>3, <3>1, <3>2, <3>3
  <2>4. CASE ~InRelease(active, n)
    <3>1. req[r].status = 404
      BY <1>1, <1>4, <2>4 DEF Answered, Asked
    <3> QED
      BY <2>2, <2>4, <3>1
  <2> QED
    BY <2>3, <2>4
<1> QED
  BY <1>3, <1>4

(* Clients can follow the listing (handleList: "Every entry has a name     *)
(* that GET /styles/{name} serves"), for any number of requests, any       *)
(* validated manifests and any legacy files: while nothing changes, a      *)
(* plain name is served if and only if it is listed, and a style of the    *)
(* release in the version that the listing shows.                          *)
THEOREM ListingsAreTrue == Spec => []ListingIsTrue
BY ListingInit, ListingStep, ListingShows, PTL DEF Spec
=============================================================================
