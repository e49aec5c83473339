------------------------------ MODULE TileGrid ------------------------------
(***************************************************************************)
(* internal/tileindex/index.go: which MBTiles files a tile needs.  Tiles   *)
(* are [z, x, y] with z <= 16; a file is known by its layer and the        *)
(* southwest corner of its 10 degree cell, which its name spells out.      *)
(*                                                                         *)
(* Everything is an integer: y counts rows of zoom 16, and a parallel is   *)
(* given by the last row whose northern edge lies on it or north of it.    *)
(***************************************************************************)
EXTENDS Integers, FiniteSets

\* Web Mercator: the rows at 80, 70, ..., -80 degrees.
Parallel == <<7357, 14666, 19031, 22226, 24810, 27038, 29050, 30938, 32768,
              34597, 36485, 38497, 40725, 43309, 46504, 50869, 58178>>

zoomToLayer(z) == CASE z <= 6 -> "L0" [] z \in 7..10 -> "L1" [] OTHER -> "L2"

\* tileCornerToLatLon, snapToGrid: the cell of the corner (x, y).
snapToGrid(z, x, y) ==
  [lat |-> 80 - 10 * Cardinality({i \in DOMAIN Parallel : Parallel[i] < y * 2^(16 - z)}),
   lon |-> 10 * ((36 * x) \div 2^z - 18)]

File(layer, cell) == [layer |-> layer, lat |-> cell.lat, lon |-> cell.lon]

\* The world is one file.
World == File("L0", [lat |-> 0, lon |-> 0])

\* Mutant: the northwestern and the southeastern corner only.
Diagonal(t) == {<<t.x, t.y>>, <<t.x + 1, t.y + 1>>}
Corners(t)  == {t.x, t.x + 1} \X {t.y, t.y + 1}

\* getOverlappingFilePaths: the cells of the corners, each once.
OverlappingFiles(t) ==
  IF zoomToLayer(t.z) = "L0" THEN {World}
  ELSE {File(zoomToLayer(t.z), snapToGrid(t.z, c[1], c[2])) : c \in Corners(t)}

----------------------------------------------------------------------------
(* A reference: cells and tiles as intervals of rows and columns.          *)

\* The rows of zoom 16 between the parallels of a cell, the poles included.
North(lat) == IF lat = 80 THEN 0 ELSE Parallel[(80 - lat) \div 10]
South(lat) == IF lat = -90 THEN 2^16 ELSE Parallel[(90 - lat) \div 10]

\* The tiles of the zooms that are split by the grid.
RegionalTiles == {t \in [z : 7..16, x : Nat, y : Nat] : t.x < 2^t.z /\ t.y < 2^t.z}

Cells == [lat : {10 * i : i \in -9..8}, lon : {10 * i : i \in -18..17}]

\* A row on a parallel belongs to the cell north of it, as it does for floor.
RowsMeet(t, c) ==
  LET scale == 2^(16 - t.z)
  IN t.y * scale <= South(c.lat) /\ (t.y + 1) * scale > North(c.lat)

\* The columns of tile and cell overlap, or just meet in the cell's western border.
ColumnsMeet(t, c)  == /\ 36 * t.x < (c.lon \div 10 + 19) * 2^t.z
                      /\ 36 * (t.x + 1) > (c.lon \div 10 + 18) * 2^t.z
ColumnsTouch(t, c) == \/ ColumnsMeet(t, c)
                      \/ 36 * (t.x + 1) = (c.lon \div 10 + 18) * 2^t.z
=============================================================================
