-------------------------- MODULE MCPlanetArchive --------------------------
(***************************************************************************)
(* TLC instance of PlanetArchive: release A has two levels of leaf         *)
(* directories and a run, B a root directory only, C was cut off while it  *)
(* was uploaded.                                                           *)
(***************************************************************************)
EXTENDS PlanetArchive, TLC

CONSTANTS A, B, C, pA, pB, pC, r1, r2, main, f1, f2

Stored ==
  A :> [id \in {0, 1, 2, 3, 4, 6} |-> IF id \in {1, 2} THEN <<7>> ELSE <<id, id + 1>>]
  @@ B :> [id \in {0, 1} |-> <<9>>]
  @@ C :> [id \in {0, 1} |-> <<id>>]

\* The second tile of a run, one that A does not have and that is too deep for B, and none.
Coordinates == {<<1, 0, 1>>, <<2, 0, 0>>, <<1, 2, 0>>}

Row(delta, run, len, pos) == [delta |-> delta, run |-> run, len |-> len, pos |-> pos]
FileHead(root, leaf, data, max) ==
  [rootLen |-> root, leafLen |-> leaf, dataLen |-> data, minZoom |-> 0, maxZoom |-> max]

\* The files are written out, because TLC looks into a constant's value on every use.
Uploads ==
  A :> <<FileHead(2, 8, 9, 2),
         Row(0, 0, 2, 6), Row(6, 0, 1, 0),
         Row(0, 1, 2, 1), Row(1, 2, 1, 0), Row(3, 1, 2, 4), Row(1, 1, 2, 0),
         Row(6, 1, 2, 8), Row(0, 0, 2, 1), Row(3, 0, 2, 0), Row(6, 0, 1, 5),
         0, 1, 7, 3, 4, 4, 5, 6, 7>>
  @@ B :> <<FileHead(1, 0, 1, 1), Row(0, 2, 1, 1), 9>>
  @@ C :> <<FileHead(2, 0, 2, 1), Row(0, 1, 1, 1), Row(1, 1, 1, 0), 0>>

ASSUME UploadsAreBuilt ==
  /\ Uploads[A] = Build(Stored[A], 2, TRUE)
  /\ Uploads[B] = Build(Stored[B], 0, TRUE)
  /\ Uploads[C] = Front(Build(Stored[C], 0, FALSE))

MCNames == pA :> A @@ pB :> B @@ pC :> C

MCObjects == {Pointer} \cup {Manifest(a) : a \in Releases} \cup {Archive(a) : a \in Releases}
MCVersions == Pointers \cup (MCObjects \ {Pointer})

\* The pointers differ in size, so that a replaced one is longer or shorter.
Lengths ==
  [v \in MCVersions |-> CASE v = pA -> 2 [] v \in {pB, pC} -> 3
                          [] \E a \in Releases : v = Archive(a) -> Len(Uploads[v[1]])
                          [] OTHER -> 2]

\* The leaf directories of A: where they are, and how many entries they have.
LeafSizes == <<A, 0>> :> 2 @@ <<A, 2>> :> 2 @@ <<A, 4>> :> 1 @@ <<A, 5>> :> 2 @@ <<A, 7>> :> 1

\* Every way to store payloads of two sizes, the larger one too large, under some of six ids.
Contents == UNION {[S -> {<<7>>, <<7, 8, 9>>}] : S \in (SUBSET (0..5)) \ {{}}}
EveryBuild == [tiles : Contents, leafSize : {0, 2, 3}, runLengths : BOOLEAN]

\* TLC evaluates a definition once, but a constant's substitute every time it is used.
MCTiles  == Stored
MCFile   == Uploads
MCLength == Lengths
MCKeys   == DOMAIN LeafSizes
MCSize   == LeafSizes
MCWanted == Coordinates
MCBuilds == EveryBuild
=============================================================================
