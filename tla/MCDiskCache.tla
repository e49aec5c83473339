---------------------------- MODULE MCDiskCache ----------------------------
(***************************************************************************)
(* TLC instance of DiskCache: four tiles, a queue of two, a limit of two   *)
(* files (target one) and up to CountBound writes pending or counted.      *)
(***************************************************************************)
EXTENDS DiskCache, TLC

CONSTANTS t1, t2, t3, t4

AnyTile == Permutations(Tiles)
=============================================================================
