---------------------------- MODULE MCArchiveId ----------------------------
(***************************************************************************)
(* TLC instance of PlanetArchive with two builds that differ in one byte   *)
(* of one tile.  A client that holds the tile of one revalidates it.       *)
(***************************************************************************)
EXTENDS PlanetArchive, TLC

CONSTANTS A, B, pA, pB, r1, main, f1

Stored  == A :> (0 :> <<1>> @@ 1 :> <<5, 6>>) @@ B :> (0 :> <<1>> @@ 1 :> <<5, 7>>)
Uploads == [a \in Releases |-> Build(Stored[a], 0, TRUE)]
MCTiles == Stored
MCFile  == Uploads
MCNames == pA :> A @@ pB :> B

MCObjects  == {Pointer} \cup {Manifest(a) : a \in Releases} \cup {Archive(a) : a \in Releases}
MCVersions == Pointers \cup (MCObjects \ {Pointer})
MCLength   == [v \in MCVersions |-> IF \E a \in Releases : v = Archive(a) THEN Len(MCFile[v[1]]) ELSE 2]
MCWanted   == {IDToZXY(0), IDToZXY(1)}
MCSize     == [k \in {} |-> 0]
=============================================================================
