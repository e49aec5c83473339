---------------------------- MODULE MCTileIndex ----------------------------
(***************************************************************************)
(* TLC instance of TileIndex: a tile inside the cell N50_E000 and one that *)
(* reaches from there into N50_E010, with contents that cover each way to  *)
(* merge, to fail and to find nothing.  Files are checked against the      *)
(* reference for all tiles of zoom 7, the largest regional ones, and for   *)
(* tiles of zoom 16 on both sides of every parallel.                       *)
(***************************************************************************)
EXTENDS TileIndex, TLC

CONSTANTS q1, q2

Inside == [z |-> 7, x |-> 66, y |-> 42]
Across == [z |-> 7, x |-> 67, y |-> 42]

West == [layer |-> "L1", lat |-> 50, lon |-> 0]
East == [layer |-> "L1", lat |-> 50, lon |-> 10]

Roads(scale) == [name |-> "roads", scale |-> scale]
Water(scale) == [name |-> "water", scale |-> scale]
AllLayers    == {Roads(1), Roads(2), Water(2)}

Raw(layers) == [gzip |-> FALSE, inflates |-> FALSE, parses |-> TRUE, layers |-> layers]
Road        == Raw({Roads(1)})
Zipped      == [Road EXCEPT !.gzip = TRUE, !.inflates = TRUE]
Corrupt     == [Road EXCEPT !.gzip = TRUE]
Garbled     == [Zipped EXCEPT !.parses = FALSE]

Holds(inside, west, east) ==
  (West :> (Inside :> inside @@ Across :> west)) @@
  (East :> (Inside :> NoTile @@ Across :> east))

TwoTiles == {Inside, Across}

AllContents ==
  {Holds(Road, Road, Road),                \* everything merges and is compressed
   Holds(Zipped, Road, Zipped),            \* one part is compressed already
   Holds(Corrupt, Road, Corrupt),          \* one part does not inflate
   Holds(Garbled, Zipped, Garbled),        \* one part does not parse
   Holds(NoTile, Road, Raw({Roads(2)})),   \* layers of one name disagree
   Holds(NoTile, Road, Raw({Water(2)})),   \* layers of two names need not agree
   Holds(Raw({}), Raw({}), Raw({})),       \* no layers at all
   Holds(NoTile, Raw({}), Road),           \* layers in one file only
   Holds(NoTile, NoTile, Zipped)}          \* only one file has the tile

Zoom(z, xs, ys) == [z : {z}, x : xs, y : ys]

AllOfZoom7 == Zoom(7, 0..127, 0..127)
Borders    == Zoom(16, {0, 1820, 1821, 65535},
                   {Parallel[i] + d : i \in DOMAIN Parallel, d \in -1..1})
BothZooms  == AllOfZoom7 \cup Borders

AnyRequest == Permutations(Requests)
=============================================================================
