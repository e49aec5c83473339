---------------------------- MODULE PlanetArchive ----------------------------
(***************************************************************************)
(* Tiles of the planet archive (servePlanet and pmtiles.Reader.Tile): a    *)
(* request walks from the root directory over leaf directories, which the  *)
(* cache of DirCache holds or the object store is asked for, to the tile.  *)
(*                                                                         *)
(* One release is opened (ReleaseStore) and then read by many requests;    *)
(* how releases replace each other is ReleaseHolder's subject.  Content    *)
(* encoding is left out.                                                   *)
(***************************************************************************)
EXTENDS ReleaseStore, DirCache

CONSTANTS
  Tiles,    \* the tiles of each release, by id
  Wanted,   \* coordinates <<z, x, y>> requests ask for
  Copies,   \* releases clients hold a tile of and revalidate, with NoRelease
  Builds,   \* what archives are built from: tiles, leafSize and runLengths
  Zooms     \* zoom levels whose tile ids are examined

ASSUME ZoomsAssumption == Zooms \subseteq 0..MaxZoom

ASSUME PlanetAssumption ==
  /\ Callers = Readers \cup {Loader} /\ Loader \notin Readers
  /\ Keys = UNION {{<<a, e.off>> : e \in LeafEntries(File[a])} : a \in Releases}
  /\ \A a \in Releases : \A e \in LeafEntries(File[a]) : Size[<<a, e.off>>] = e.len

VARIABLE walk   \* where each request is

vars == <<storeVars, loadVars, dirVars, walk>>

\* dirCache is keyed by the offset in the leaf section.
Key(e) == <<load.release, e.off>>

\* Requests rest with their answer: a status and, for 200, the tile.
Rest(id, copy, status, body) ==
  [step |-> "idle", id |-> id, copy |-> copy, entry |-> NoEntry, depth |-> 0,
   status |-> status, body |-> body]
Refused(status) == Rest(0, NoRelease, status, <<>>)
NoWalk == Refused(0)

Init ==
  /\ LoadInit /\ DirInit
  /\ walk = [r \in Readers |-> NoWalk]

Answer(r, status, body) ==
  walk' = [walk EXCEPT ![r] = Rest(@.id, @.copy, status, body)]

\* Mutant: a read that fails passes for a tile that is not there.
AsMissing(r) == Answer(r, 204, <<>>)
Fail(r) == walk' = [walk EXCEPT ![r] = Refused(500)]

OnGrid(t) == t[1] <= MaxZoom /\ t[2] < Shl(t[1]) /\ t[3] < Shl(t[1])

TheFile == File[load.release]
TheHeader == TheFile[1]
TileId(t) == ZXYToID(t[1], t[2], t[3])

InZooms(z, h) == h.minZoom <= z /\ z <= h.maxZoom

\* Releases whose manifest is valid and whose archive was uploaded to its end.
Sound == {a \in Manifests : Complete(File[a][1], Len(File[a]))}

\* The sections of a file are what the header says, and a lookup finds the given tiles and no others.
HoldsTiles(file, tiles) ==
  LET h == file[1] IN
  /\ RootOpens(file) /\ h.leafLen \in Nat /\ h.dataLen \in Nat
  /\ \A i \in HeaderSize + 1..DataOffset(h) : file[i] \in Rows
  /\ \A t \in Wanted : OnGrid(t) =>
       IF TileId(t) \in DOMAIN tiles
       THEN InZooms(t[1], h) /\ Lookup(file, TileId(t)) = Found(tiles[TileId(t)])
       ELSE InZooms(t[1], h) => Lookup(file, TileId(t)) = Outcome("none")

\* An archive that was uploaded to its end holds the tiles of its release, within the limits of
\* the reader.
ASSUME ArchivesHoldTheirTiles == \A a \in Sound : HoldsTiles(File[a], Tiles[a])

(* Payloads are not empty, leaf directories can be read and nest no deeper than Tile goes, *)
(* and neither lengths nor runs exceed their columns.                                      *)
ASSUME BuildsAssumption ==
  \A b \in Builds :
    /\ IsFiniteSet(DOMAIN b.tiles) /\ DOMAIN b.tiles # {} /\ DOMAIN b.tiles \subseteq Nat
    /\ \A id \in DOMAIN b.tiles :
         b.tiles[id] \in Seq(Nat) \ {<<>>} /\ Len(b.tiles[id]) <= MaxColumn
    /\ Cardinality(DOMAIN b.tiles) <= MaxColumn
    /\ b.leafSize \in 0..MaxBlock /\ b.runLengths \in BOOLEAN
    /\ \/ b.leafSize = 0
       \/ Len(TileEntries(b.tiles, b.runLengths).es) <= b.leafSize * b.leafSize * b.leafSize * b.leafSize

\* Every decoded directory of every archive.
Directory == [a \in Releases |-> [e \in {NoEntry} \cup LeafEntries(File[a]) |-> DirectoryAt(File[a], e)]]

EntryFor(id, e) == Find(Directory[load.release][e], id)

\* servePlanet; while there is no archive it answers 503 and does nothing else.
Ask(r, t, copy) ==
  /\ walk[r].step = "idle" /\ At("open")
  /\ LET asked == Rest(TileId(t), copy, 204, <<>>) IN
     walk' = [walk EXCEPT ![r] =
       CASE ~OnGrid(t)                              -> Refused(400)
         [] OnGrid(t) /\ ~InZooms(t[1], TheHeader) -> asked
         [] OTHER -> [asked EXCEPT !.step = "look", !.status = 0,
                                   !.entry = EntryFor(asked.id, NoEntry)]]
  /\ UNCHANGED <<storeVars, loadVars, dirVars>>

Stay == UNCHANGED <<storeVars, loadVars>>

\* Reader.Tile: no entry, or one that points outside its section.
NoTile(r) ==
  LET e == walk[r].entry IN
  /\ walk[r].step = "look"
  /\ IF e = NoEntry THEN Answer(r, 204, <<>>)
     ELSE /\ IF e.run > 0 THEN ~TileInside(e, TheHeader) ELSE ~LeafInside(e, TheHeader)
          /\ Fail(r)
  /\ Stay /\ UNCHANGED dirVars

ReadSection(r, offset, e) == ReadAt(r, Archive(load.release), load.size, offset + e.off, e.len)

\* Reader.readTile
ReadTile(r) ==
  LET e == walk[r].entry IN
  /\ walk[r].step = "look" /\ e.run > 0 /\ TileInside(e, TheHeader)
  /\ ReadSection(r, DataOffset(TheHeader), e)
  /\ walk' = [walk EXCEPT ![r].step = "tile"]
  /\ UNCHANGED <<loadVars, dirVars>>

\* Tile goes on in the leaf directory at its entry, at most maxLeafDepth of them.
Descend(r) ==
  IF walk[r].depth < MaxLeafDepth
  THEN walk' = [walk EXCEPT ![r].step = "look", ![r].depth = @ + 1,
                            ![r].entry = EntryFor(walk[r].id, @)]
  ELSE Fail(r)

\* Reader.leaf: the first critical section of dirCache.get.
GetLeaf(r) ==
  LET e == walk[r].entry  k == Key(e) IN
  /\ walk[r].step = "look" /\ e # NoEntry /\ e.run = 0 /\ LeafInside(e, TheHeader)
  /\ \/ /\ Hit(r, k) /\ Descend(r) /\ Stay
     \/ /\ Join(r, k) /\ walk' = [walk EXCEPT ![r].step = "leaf"] /\ Stay
     \/ /\ StartLoad(r, k) /\ ReadSection(r, LeafOffset(TheHeader), e)
        /\ walk' = [walk EXCEPT ![r].step = "leaf"]
        /\ UNCHANGED loadVars

\* The read of a leaf directory returns, and it is decoded.
LoadLeaf(r) ==
  /\ \/ Returned(r, "data") /\ Load(r, IF WellFormed(Read(r)) THEN want[r] ELSE Failed)
     \/ Broken(r) /\ Load(r, Failed)
  /\ Consume(r) /\ UNCHANGED <<loadVars, walk>>

StoreLeaf(r) == Store(r) /\ Stay /\ UNCHANGED walk

\* get returns, to the loader or to a waiter.
LeafReturned(r) ==
  /\ Return(r) \/ Wake(r)
  /\ IF result[flight[r]] = Failed THEN Fail(r) ELSE Descend(r)
  /\ Stay

\* The validator of a tile: the archive's id, a hash of header and root, and the coordinates.
ArchiveId(a) == <<File[a][1], Bytes(File[a], RootOffset(File[a][1]), File[a][1].rootLen)>>

\* A client revalidates a tile it holds.
Unchanged(w) == w.copy # NoRelease /\ ArchiveId(w.copy) = ArchiveId(load.release)

\* The read of the tile returns.
TileRead(r) ==
  /\ walk[r].step = "tile"
  /\ \/ /\ Returned(r, "data")
        /\ IF Unchanged(walk[r]) THEN Answer(r, 304, <<>>) ELSE Answer(r, 200, Read(r))
     \/ Broken(r) /\ Fail(r)
  /\ Consume(r) /\ UNCHANGED <<loadVars, dirVars>>

ReaderStep(r) ==
  NoTile(r) \/ ReadTile(r) \/ GetLeaf(r) \/ LoadLeaf(r) \/ StoreLeaf(r)
  \/ LeafReturned(r) \/ TileRead(r)

----------------------------------------------------------------------------

Next ==
  \/ BeginLoad /\ UNCHANGED <<dirVars, walk>>
  \/ LoadStep /\ UNCHANGED <<dirVars, walk>>
  \/ \E c \in Callers : StoreStep(c) /\ UNCHANGED <<dirVars, walk>>
  \/ Environment /\ UNCHANGED <<dirVars, walk>>
  \/ \E r \in Readers :
       \/ \E t \in Wanted, copy \in Copies : Ask(r, t, copy)
       \/ ReaderStep(r)

\* Goroutines run, and an attempt ends within cfg.Timeout, be it without an answer.
CallEnds(c) == StoreStep(c) \/ Fault(c)
Fairness ==
  /\ WF_vars((CallEnds(Loader) \/ LoadStep) /\ UNCHANGED <<dirVars, walk>>)
  /\ \A r \in Readers : WF_vars((CallEnds(r) /\ UNCHANGED <<dirVars, walk>>) \/ ReaderStep(r))

Spec == Init /\ [][Next]_vars
FairSpec == Spec /\ Fairness

----------------------------------------------------------------------------
(* Properties.                                                             *)

(* Whatever the store does in between, a request that succeeds is given    *)
(* the tile that was put into the archive, and one that is told there is   *)
(* none asked for a tile that was not (servePlanet, Reader.Tile).          *)
ServesStoredTiles ==
  \A r \in Readers :
    LET w == walk[r] IN
    /\ w.status = 200 => /\ w.id \in DOMAIN Tiles[load.release]
                         /\ w.body = Tiles[load.release][w.id]
    /\ w.status = 204 => w.id \notin DOMAIN Tiles[load.release]

(* A complete release behind a pointer that stays where it is opens, and   *)
(* its tiles are read, unless a request exhausted its attempts, was cut or *)
(* refused, an object was removed, or the deadline passed: retries hide    *)
(* everything else, and no request asks for bytes that are not there       *)
(* (Client.do, Object.ReadAt, pmtiles.Open).                               *)
FailsForAReason ==
  healthy /\ ranged =>
    /\ At("failed") /\ stored[Pointer] # Absent => Names[stored[Pointer]] \notin Sound
    /\ \A r \in Readers : walk[r].status # 500

(* The manifest and the archive that open belong to one release, whose     *)
(* manifest is valid and whose archive is whole, although the pointer      *)
(* moves between its HEAD and its GET and during all that follows          *)
(* (s3Store.Current, Holder.reload: "equal keys mean the same release";    *)
(* Open refuses "a truncated upload").                                     *)
OpensOneRelease ==
  At("open") => load.manifest = load.release /\ load.release \in Sound

(* Every load and every request for a tile ends: attempts are bounded, and *)
(* a waiter is released by the load it waits for, also when that fails     *)
(* (Client.do, dirCache.get).                                              *)
LoadsAndReadsEnd ==
  /\ Underway ~> ~Underway
  /\ \A r \in Readers : walk[r].step # "idle" ~> walk[r].step = "idle"

\* What concerns no state is evaluated once, in the first one.
AtStart == At("none") /\ ranged /\ stored[Pointer] = Absent

\* What a lookup in an archive of tiles ends with.
Expected(tiles, id) ==
  IF id \in DOMAIN tiles
  THEN IF Len(tiles[id]) <= MaxTileSize THEN Found(tiles[id]) ELSE Outcome("error")
  ELSE Outcome("none")

(* What Build writes and Open accepts, Tile reads: with and without run    *)
(* lengths, flat and with nested leaf directories, every tile is found, or *)
(* refused if it is larger than maxTileSize, and every other id is         *)
(* missing, up to two beyond the last (parseDirectory, find, Tile).        *)
BuildsAreReadable ==
  AtStart => \A b \in Builds :
    LET file == Build(b.tiles, b.leafSize, b.runLengths) IN
    RootOpens(file) =>
      \A id \in 0..Max(DOMAIN b.tiles) + 2 : Lookup(file, id) = Expected(b.tiles, id)

(* On every zoom level the tile ids follow a curve that visits each tile   *)
(* once and goes from neighbour to neighbour, which run lengths and        *)
(* locality rest on, and IDToZXY undoes ZXYToID (tileid.go).               *)
TileIdsFillTheCurve == AtStart => \A z \in Zooms : FillsTheCurve(z)

(* A client that is told its tile has not been modified holds the tile of  *)
(* the archive that answers (Reader.ID: "any different build gets a        *)
(* different id").                                                         *)
NotModifiedIsTrue ==
  \A r \in Readers :
    LET w == walk[r] IN
    w.status = 304 => Tiles[w.copy][w.id] = Tiles[load.release][w.id]
=============================================================================
