----------------------------- MODULE TileIndex -----------------------------
(***************************************************************************)
(* internal/tileindex/index.go with internal/mbtiles and the legacy branch *)
(* of internal/server/http_tile.go: tile requests that open, share and     *)
(* read MBTiles files, merge what several files hold, and keep compressed  *)
(* tiles, while files appear and the service shuts down.                   *)
(*                                                                         *)
(* getReader looks the reader up under the read lock and opens it under    *)
(* the write lock; a reader is the pair of its file and of how often that  *)
(* file was opened.  The order in which a request visits its files is      *)
(* left open: only the order of errors depends on it.  Any file may fail   *)
(* to open and any query may fail, at any time.                            *)
(***************************************************************************)
EXTENDS TileGrid

CONSTANTS
  Requests,  \* requests in flight
  Tiles,     \* the tiles they ask for
  Layers,    \* the layers of tiles: a name, and a scale that stands for version and extent
  Contents,  \* possible contents of the files: [Files -> [Tiles -> StoredTile \cup {NoTile}]]
  Grid,      \* the tiles whose files are compared with the reference
  NoTile

Files == UNION {OverlappingFiles(t) : t \in Tiles}

\* gzip: stored compressed; inflates, parses: what the merge can do with it.
StoredTile == [gzip : BOOLEAN, inflates : BOOLEAN, parses : BOOLEAN, layers : SUBSET Layers]

ASSUME TileIndexAssumption ==
  /\ Tiles \subseteq [z : 0..16, x : Nat, y : Nat] /\ IsFiniteSet(Tiles)
  /\ Contents \subseteq [Files -> [Tiles -> StoredTile \cup {NoTile}]]
  /\ NoTile \notin StoredTile
  /\ Grid \subseteq RegionalTiles

VARIABLES
  present,     \* the files that are there and have a tiles table
  stored,      \* what the files hold
  cache,       \* idx.cache: the reader of a file by its number, 0 if there is none
  opened,      \* how often each file was opened
  live,        \* the readers that are open
  compressed,  \* the tile cache: what a compressed tile was made of, or nothing
  req,         \* the requests
  server       \* stopHTTPServer: "up", "down" (Shutdown returned), "closed" (index closed)

readers == <<cache, opened, live>>
vars == <<present, stored, readers, compressed, req, server>>

Statuses == {"none", "200", "204", "500"}

\* The files that gave a part of the tile; and, for the properties only, those
\* that did not open and those whose query failed.
Finding == [got : SUBSET Files, missed : SUBSET Files, unread : SUBSET Files]
Nothing == [got |-> {}, missed |-> {}, unread |-> {}]

\* What a request is doing, or how it was answered last and from what.
Request ==
  [pc : {"idle", "next", "open", "read", "lookup", "compress"},
   tile : Tiles \cup {NoTile}, acceptsGzip : BOOLEAN,
   todo : SUBSET Files, file : Files \cup {NoTile}, reader : Nat, found : Finding,
   status : Statuses]

TypeOK ==
  /\ present \subseteq Files /\ stored \in Contents
  /\ cache \in [Files -> Nat] /\ opened \in [Files -> Nat]
  /\ live \subseteq Files \X Nat
  /\ compressed \in [Tiles -> Finding]
  /\ server \in {"up", "down", "closed"}
  /\ req \in [Requests -> Request]
  /\ \A q \in Requests :
       /\ req[q].pc # "idle" => req[q].tile \in Tiles
       /\ req[q].pc = "open" => req[q].file \in Files
       /\ req[q].pc = "read" => req[q].file \in Files /\ req[q].reader # 0

Idle == [pc |-> "idle", tile |-> NoTile, acceptsGzip |-> FALSE, todo |-> {}, file |-> NoTile,
         reader |-> 0, found |-> Nothing, status |-> "none"]

Init ==
  /\ present \in SUBSET Files /\ stored \in Contents
  /\ cache = [f \in Files |-> 0] /\ opened = [f \in Files |-> 0] /\ live = {}
  /\ compressed = [t \in Tiles |-> Nothing]
  /\ req = [q \in Requests |-> Idle] /\ server = "up"

----------------------------------------------------------------------------
(* TileIndex.GetTile.                                                      *)

Is(q, label) == req[q].pc = label

Goto(q, label) == req' = [req EXCEPT ![q].pc = label]

\* The request is answered from what was found.
Answer(q, status, found) ==
  req' = [req EXCEPT ![q] = [Idle EXCEPT !.tile = req[q].tile, !.status = status, !.found = found]]

\* A tile of one file is read without merging.
Single(t) == Cardinality(OverlappingFiles(t)) = 1

\* A request gets past the checks of the handler.
Ask(q) ==
  /\ Is(q, "idle") /\ server = "up"
  /\ \E t \in Tiles, accepts \in BOOLEAN :
       req' = [req EXCEPT ![q] = [Idle EXCEPT !.pc = "next", !.tile = t, !.acceptsGzip = accepts,
                                              !.todo = OverlappingFiles(t)]]
  /\ UNCHANGED <<present, stored, readers, compressed, server>>

\* getReader, under the read lock.
FindReader(q) ==
  /\ Is(q, "next")
  /\ \E f \in req[q].todo :
       req' = [req EXCEPT ![q].pc = IF cache[f] # 0 THEN "read" ELSE "open",
                          ![q].todo = @ \ {f}, ![q].file = f, ![q].reader = cache[f]]
  /\ UNCHANGED <<present, stored, readers, compressed, server>>

\* Mutant: the map is not checked again under the write lock.
Forgotten(f) == FALSE
Cached(f)    == cache[f] # 0

\* mbtiles.Open finds the file with a tiles table, which may fail even so.
Opens(f) == f \in present

Use(q, n) == req' = [req EXCEPT ![q].pc = "read", ![q].reader = n]

\* A file that does not open is skipped when there are others.
Unopened(q) ==
  LET found == [req[q].found EXCEPT !.missed = @ \cup {req[q].file}]
  IN  IF Single(req[q].tile) THEN Answer(q, "500", found)
      ELSE req' = [req EXCEPT ![q].pc = "next", ![q].found = found]

\* getReader, under the write lock.
OpenReader(q) ==
  LET f == req[q].file
      n == opened[f] + 1
  IN /\ Is(q, "open")
     /\ \/ Cached(f) /\ Use(q, cache[f]) /\ UNCHANGED readers
        \/ /\ ~Cached(f) /\ Opens(f) /\ Use(q, n)
           /\ cache' = [cache EXCEPT ![f] = n] /\ opened' = [opened EXCEPT ![f] = n]
           /\ live' = live \cup {<<f, n>>}
        \/ ~Cached(f) /\ Unopened(q) /\ UNCHANGED readers
     /\ UNCHANGED <<present, stored, compressed, server>>

\* Mutant: a file that cannot be read is skipped like one without the tile.
SkipUnread(q) == Goto(q, "next")
ReadFails(q)  == Answer(q, "500", [req[q].found EXCEPT !.unread = {req[q].file}])

Open(q) == <<req[q].file, req[q].reader>> \in live

\* Reader.GetTile: the query may fail, and does on a closed reader.
ReadTile(q) ==
  LET f == req[q].file
      t == req[q].tile
  IN /\ Is(q, "read")
     /\ \/ ReadFails(q)
        \/ /\ Open(q)
           /\ IF stored[f][t] = NoTile THEN Goto(q, "next")
              ELSE req' = [req EXCEPT ![q].pc = "next", ![q].found.got = @ \cup {f}]
     /\ UNCHANGED <<present, stored, readers, compressed, server>>

----------------------------------------------------------------------------
(* MergeTiles and the rest of the handler.                                 *)

Inflates(tile) == tile.gzip => tile.inflates

LayersOf(t, got) == UNION {stored[f][t].layers : f \in got}

\* Layers with the same name must agree on version and extent.
Agree(layers) == \A a, b \in layers : a.name = b.name => a.scale = b.scale

\* The tiles of several files merge when they decode and their layers agree.
Merges(t, got) ==
  \/ Cardinality(got) = 1
  \/ /\ \A f \in got : Inflates(stored[f][t]) /\ stored[f][t].parses
     /\ Agree(LayersOf(t, got))

\* Nothing was found, or merged layers are all there is to look for and there are none.
Empty(t, got) ==
  \/ got = {}
  \/ Cardinality(got) > 1 /\ Merges(t, got) /\ LayersOf(t, got) = {}

Gzipped(t, got) == \E f \in got : stored[f][t].gzip

\* The parts do not merge, or the client needs the tile decoded and it does not inflate.
Unusable(t, got, accepts) ==
  \/ ~Merges(t, got)
  \/ ~accepts /\ \E f \in got : ~Inflates(stored[f][t])

\* What was found is merged and answered in an encoding the client accepts.
Collect(q) ==
  LET t       == req[q].tile
      found   == req[q].found
      got     == found.got
      accepts == req[q].acceptsGzip
  IN /\ Is(q, "next") /\ req[q].todo = {}
     /\ \/ Empty(t, got) /\ Answer(q, "204", found)
        \/ /\ ~Empty(t, got)
           /\ \/ Unusable(t, got, accepts) /\ Answer(q, "500", found)
              \/ /\ ~Unusable(t, got, accepts)
                 /\ IF Gzipped(t, got) \/ ~accepts
                    THEN Answer(q, "200", found) ELSE Goto(q, "lookup")
     /\ UNCHANGED <<present, stored, readers, compressed, server>>

\* h.cache.Get: a compressed copy is sent instead of what was just read.
LookupCompressed(q) ==
  /\ Is(q, "lookup")
  /\ IF compressed[req[q].tile] # Nothing
     THEN Answer(q, "200", compressed[req[q].tile]) ELSE Goto(q, "compress")
  /\ UNCHANGED <<present, stored, readers, compressed, server>>

\* h.cache.Set, unless the compression fails, and the tile is sent.
StoreCompressed(q) ==
  /\ Is(q, "compress")
  /\ \/ compressed' = [compressed EXCEPT ![req[q].tile] = req[q].found]
     \/ UNCHANGED compressed
  /\ Answer(q, "200", req[q].found)
  /\ UNCHANGED <<present, stored, readers, server>>

----------------------------------------------------------------------------
(* The environment and the shutdown.                                       *)

\* A file is delivered, or replaced by one that opens.
Appear(f) ==
  /\ f \notin present /\ present' = present \cup {f}
  /\ UNCHANGED <<stored, readers, compressed, req, server>>

\* The tile cache evicts a tile.
Evict(t) ==
  /\ compressed[t] # Nothing /\ compressed' = [compressed EXCEPT ![t] = Nothing]
  /\ UNCHANGED <<present, stored, readers, req, server>>

\* Shutdown returns when the requests are done, or after 5 seconds.
Shutdown ==
  /\ server = "up" /\ server' = "down"
  /\ UNCHANGED <<present, stored, readers, compressed, req>>

\* TileIndex.Close: every cached reader is closed and forgotten.
Close ==
  /\ server = "down" /\ server' = "closed"
  /\ live' = live \ {<<f, cache[f]>> : f \in Files}
  /\ cache' = [f \in Files |-> 0]
  /\ UNCHANGED <<present, stored, opened, compressed, req>>

Serve(q) ==
  \/ Ask(q) \/ FindReader(q) \/ OpenReader(q) \/ ReadTile(q)
  \/ Collect(q) \/ LookupCompressed(q) \/ StoreCompressed(q)

Next ==
  \/ \E q \in Requests : Serve(q)
  \/ \E f \in Files : Appear(f)
  \/ \E t \in Tiles : Evict(t)
  \/ Shutdown \/ Close

Spec == Init /\ [][Next]_vars

----------------------------------------------------------------------------
(* Properties.                                                             *)

\* The files of S that have a part of the tile.
Holding(t, S) == {f \in OverlappingFiles(t) \cap S : stored[f][t] # NoTile}

\* A tile is made of exactly the files that have it, but those that did not open
\* when it was made.
TileMatches(t, found) ==
  /\ found.got = Holding(t, Files \ found.missed)
  /\ found.got # {} /\ found.got \subseteq present

\* No layer is hidden by an answer without a tile.
NoneMatches(t, found) ==
  \A f \in Holding(t, Files \ found.missed) : stored[f][t].layers = {} /\ ~Single(t)

\* An error has its reason in the files, or in a call that failed.
ErrorMatches(t, found) ==
  \/ found.unread # {}
  \/ Single(t) /\ OverlappingFiles(t) \subseteq found.missed
  \/ \E f \in Holding(t, Files \ found.missed) :
       ~Inflates(stored[f][t]) \/ ~stored[f][t].parses
  \/ ~Agree(LayersOf(t, Holding(t, Files \ found.missed)))

(* An answer is what the files hold, however requests, deliveries, failing *)
(* calls and the shutdown interleave, from a fresh merge or from the copy  *)
(* of an earlier one: "data from all relevant files is fetched and merged" *)
(* (TileIndex.GetTile), but for files that did not open when the tile was  *)
(* made, which are left out without an error.  A query that fails, or a    *)
(* reader that is closed, never leaves a part out.                         *)
AnswersMatchFiles ==
  \A q \in Requests :
    /\ req[q].status = "200" => TileMatches(req[q].tile, req[q].found)
    /\ req[q].status = "204" => NoneMatches(req[q].tile, req[q].found)
    /\ req[q].status = "500" => ErrorMatches(req[q].tile, req[q].found)

(* Each open reader is the one the map holds for its file: two requests    *)
(* that miss the same file open it once, and Close reaches every reader    *)
(* that is open when it runs, also while requests that outlive the         *)
(* shutdown go on (getReader, "Double-check after acquiring write lock").  *)
NoReaderLost == live = {<<f, cache[f]>> : f \in {g \in Files : cache[g] # 0}}

FoundByCorners(t) ==
  /\ \A c \in Cells : RowsMeet(t, c) /\ ColumnsMeet(t, c) =>
                       File(zoomToLayer(t.z), c) \in OverlappingFiles(t)
  /\ \A f \in OverlappingFiles(t) : RowsMeet(t, f) /\ ColumnsTouch(t, f)

\* A constant: TLC computes it once.
Misplaced == {t \in Grid : ~FoundByCorners(t)}

(* The four corners are enough: a request that goes through the files of   *)
(* the corners sees every cell whose interior meets the tile's, at every   *)
(* border of the grid, and no cell that does not even touch it ("A tile    *)
(* can span up to 4 grid cells").  This is a property of all tiles of Grid.*)
CornersFindCells == \A q \in Requests : Is(q, "next") => Misplaced = {}
=============================================================================
