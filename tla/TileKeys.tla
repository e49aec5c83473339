------------------------------ MODULE TileKeys ------------------------------
(* The keys of the tile caches (internal/tilecache), "z/x/y".              *)
EXTENDS FiniteSetsExt

CONSTANTS
  Tiles,
  NoTile  \* stands for no tile in a goroutine's hands

ASSUME TilesAssumption == IsFiniteSet(Tiles) /\ NoTile \notin Tiles
=============================================================================
