# TLA+ models of tilesservice

tilesservice serves vector tiles, styles, fonts and sprites over HTTP. Most of its code is
parsing and I/O; what is hard to get right is what happens *between* requests: a release that is
replaced while requests read it, caches whose locks are given up in the middle of an operation,
workers that drain queues during a shutdown, a directory that a crashed run left behind, an object
store that fails or changes between two requests. Some of it is intricate without concurrency: the
encoding of an archive's directories, the choice of a style. This
project models that part of the service in TLA+, checks it with TLC on small instances, and proves
the central safety properties with TLAPS for every value of the constants.

Paths below are relative to the repository (`src/`).

## 1. Inventory

| Component | State | Operations | Talks to |
|---|---|---|---|
| **Release holder** `internal/release/holder.go` | active slot, reference counts, retired flags, `closed`, stop and trigger channels, last check, two mutexes | `Acquire` and its release func, `Reload`, `Start`, `Trigger`, `Status`, `Close` | release store, PMTiles archive, every handler of the planet tileset, styles and assets, `SIGHUP` |
| **Release store** `internal/release/store.go`, `manifest.go` | none (reads a pointer, a manifest, files); what a load in progress knows | `Current`, `Load`, `OpenArchive`, `ReadFile` | object store or file system |
| **Object store client** `internal/objstore` | HTTP client | `Open` (HEAD), ranged reads with retries, request signing | S3-compatible store |
| **PMTiles reader** `internal/pmtiles` | header, root directory, LRU cache of leaf directories with loads in flight | `Tile`, `Close`, `dirCache.get` | file or object |
| **Tile source** `internal/tilesource` | none | `Open` | PMTiles reader, object store |
| **Legacy tile index** `internal/tileindex`, `internal/mbtiles` | map of open MBTiles readers | `GetTile`, `Close`, merging of up to four tiles | SQLite files |
| **Memory tile cache** `tilecache/tile_cache.go` | key → data, LRU list and its index, sweeper goroutine | `Get`, `Set`, `Close`, sweep | `onEvict` callback |
| **Disk tile cache** `tilecache/disk_cache.go` | tile files, rows in SQLite, file counter, write and access queues, three workers | `Get`, `SetAsync`, `Close`, `writeFile`, `evictBatch`, access batches | file system, SQLite |
| **Cache directory** `disk_cache.go`, `prepareCacheDir` | marker file, what an earlier run left | claim, adopt, clear, at every start | file system, whoever else uses it |
| **Two-tier cache** `tilecache/two_tier_cache.go` | the two tiers | `Get` with promotion, `Set`, cascade of evictions | both tiers, tile handlers |
| **Release file caches** `server/http_style_release.go`, `http_assets.go` | one cache of rendered styles, one of glyphs and sprites, each keyed by a release | `get`, `put`, `load` | release holder |
| **Style selection, legacy styles** `server/http_style*.go` | templates with the mtime they were parsed from | listing, newest version, aliases | file system, release holder |
| **Tile handlers** `server/http_tile.go`, `http_planet.go`, `encoding.go` | none | choose a source, a status and an encoding | index, caches, release holder |
| **Readiness, startup, shutdown** `server/http_ready.go`, `cmd/tilesservice/main.go` | application data | wiring, `stopHTTPServer` | everything |
| `cmd/pmtiles-probe`, `assets`, `tileviewer`, build files | none | - | - |

What is hard about each, and what makes it correct:

- **Release holder.** Requests hold releases across reloads and across `Close`; a reload holds
  `reloadMu` over several store reads and takes `mu` only to switch; archives are closed after an
  unlock. Correct means: a leased archive stays open; each archive is closed once and none leaks,
  on every error path; only validated releases become active; a failing reload keeps the old one;
  the status is honest; a moved pointer is followed by polling and by signals; `Close` returns.
- **Leaf directory cache.** The load of a directory runs without the lock. Correct means: one load
  per key; waiters get the directory they asked for or its error; errors are not cached; the budget
  is kept, with directories that are empty or larger than the whole budget included.
- **Memory and disk tiers.** The sweep unlocks around a callback; the disk counter is read under one
  lock and used under another; workers race a shutdown. Correct means: the tables agree; a tile is
  lost only by a disk eviction, a failed write or a full queue; the workers come to rest, memory within
  its size; the counter tells when there are too many files (it does not: findings 1 and 2); the
  database is closed last; accepted writes land; `Close` returns.
- **Cache directory.** A crash can happen between any two file operations, and the path may be
  misconfigured. Correct means: a directory that is not the cache's is left alone; a running cache
  starts empty; no crash locks the service out.
- **Release file caches.** Requests of several releases meet in one cache, and read files without a
  lock. Correct means: a request is answered from its own release; caches do not mix releases; the
  bytes are accounted; font fallback takes the first font that is there.
- **Legacy tile index.** Requests open files under a double-checked lock, take readers out of the map
  and read them without it, while files are delivered and `Close` runs. Correct means: a file is
  opened once; an answer is what the files hold, but for files that did not open, and a failed read never
  passes for a missing part; the four corners of a tile find every file it needs.
- **Object store client and release store.** A read is a HEAD and a ranged GET with retries, and the
  object can be replaced between them. Correct means: a release is never put together from two; a
  truncated upload is refused; failures of single attempts stay hidden; every read ends.
- **PMTiles reading.** Tile ids along a Hilbert curve, column-encoded directories with run lengths,
  nested leaf directories. Correct means: what was stored is served, nothing else; ids and tiles are
  in bijection; what is written is read back; a client that keeps its copy has the right one.
- **Style selection and legacy styles.** Three paths through one manifest (listing, alias, document),
  and templates cached by a modification time read before the file. Correct means: what is listed is
  served, as listed; the newest version is served; an edit is never hidden by the cache.

`PROJECT.json` lists every hazard at its line, with the properties that cover it.

## 2. Modules

| Module | Models | EXTENDS / INSTANCE |
|---|---|---|
| `ReleaseLease` | the contract of the release package, without locks or counts | - |
| `ReleaseHolder` | `holder.go`, the SIGHUP goroutine and the poller | INSTANCE `ReleaseLease` (refinement) |
| `ObjectStore` | `objstore.go`: calls, attempts, answers | - |
| `PMTiles` | the format: tile ids, directories, lookup, and the builder of the tests; no state | - |
| `ReleaseStore` | `s3Store`, the manifest and `pmtiles.Open` | EXTENDS `ObjectStore`, `PMTiles` |
| `DirCache` | `dirCache.get`, the leaf directory cache | - |
| `PlanetArchive` | `servePlanet` and `Reader.Tile` over all of these | EXTENDS `ReleaseStore`, `DirCache` |
| `TileKeys` | the keys shared by both tiers | - |
| `MemoryCache`, `DiskCache` | the two tiers, each with its background workers | EXTENDS `TileKeys` |
| `TwoTierCache` | both tiers, the callback, the handlers and the shutdown | EXTENDS both |
| `CacheDir` | `prepareCacheDir` with crashes | - |
| `ReleaseCaches` | rendered styles and assets | - |
| `Styles` | choice of styles and versions, legacy templates | - |
| `TileGrid` | the choice of MBTiles files, as integer functions, and a reference for it | - |
| `TileIndex` | `index.go`, `mbtiles`, the legacy branch of `http_tile.go` | EXTENDS `TileGrid` |
| `CollectionLemmas` | facts for the proofs: sums over finite sets, sequences without repetitions, induction stated with a set | - |
| `*Proofs` | theorems about the module they extend, and about the components that module is made of | most also EXTEND `CollectionLemmas` |
| `MC*` | instances for TLC: model values, symmetry, sizes, properties of operators | the module they check |

An operator whose comment begins with "Mutant" is not part of a specification: it is what a
definition would be under a plausible mistake, and shows that some property depends on it.

### ReleaseHolder

Every critical section of `h.mu` is one action; what the code does between two of them (reading the
pointer, loading, validating, closing an archive after the unlock) is a step of its own, and
`reloadMu` is a variable because it is held across steps. A slot's fields `refs`, `retired`, `key`
are functions over `Slots`; an identity that no variable refers to is free again. `doomed[t]` is the
decision `closeNow`, `closeOld` a goroutine has taken under the lock and not yet acted upon: the
window in which archives can be closed twice or leak. The store is an environment: the pointer moves
at any time, a read may fail until the store becomes `reliable`, `Bad` releases do not load,
`Rejected` ones load but do not validate. `hup` and `trigger` are the channels of capacity one; a
send that finds its channel full is dropped. A tick may come at any time or never, which covers every
poll interval and the service without polling. `Close` cancels the poller's context, so a poller's
reload may fail once `stop` is closed.

`ReleaseLease` says the same without mechanism: an archive is opened under an unused identity,
published, leased, given back, and closed only when it is neither active nor leased; after `Shut`
nothing is published. `ImplementsLease` substitutes `active <- cur` and
`shut <- closed /\ ~Closing`: the abstract shutdown happens when `Close` retires the last release,
not when it sets `closed`.

### ObjectStore, ReleaseStore

`ObjectStore` models the client and the store: an object holds a *version*, of which only the length
matters here. A caller has one call at a time, a HEAD or a GET that is sent, answered, refused
(network error, timeout of the attempt, 5xx) and then retried up to `Retries` times, denied (other
answers) or cut in the middle of its body, which the code does not retry. `ranged` says whether the
store honours `Range`; without it a whole object is an answer only to a request for all of it.
`ReadAt` clamps to the size that `Open` was told, which may no longer be true.

`ReleaseStore` goes through the load of a release: pointer (HEAD, GET), manifest, archive (HEAD),
header, root directory, and gives up at the first thing that is wrong. A small file is complete or
it is not JSON; the pointer moves to a release that has been uploaded; releases the pointer does not name
are removed. `healthy` records that nothing happened that the code does not promise to hide.

### PMTiles

An encoded directory is a sequence of rows with what the columns hold (differences of ids, run
lengths, lengths, offsets with zero for "after the previous entry"); varints and compression are left
out, so offsets count rows instead of bytes. The limits of the reader are constants: `MaxTileSize` and
`MaxBlock` for `maxTileSize` and `maxDecodedBlock`, `MaxColumn` for the 32 bits of a length or a run;
`TileInside`, `LeafInside`, `WellFormed` and `RootOpens` are the checks that use them. As nothing is
compressed, `MaxBlock` bounds a directory as stored and as decoded. `Open`'s checks of the magic, the
version, the tile type and the compressions that a header declares are left out. `Build` is the builder of `pmtilestest`, the producer
that `Lookup` and `PlanetArchive` read from. Recursion is written as `Loop`, a recursive function;
`Visit` is one turn of the loop in `Reader.Tile`, so that `Lookup` is four of them.
Tile ids are the arithmetic of `tileid.go`. A shift `1 << k` is a loop of doublings (`Shl`), because the
provers know no law of `^`; `FillsTheCurve(z)` says what the ids of one zoom level have to be.

### DirCache, PlanetArchive

A directory is identified with its key and weighs `Size[key]` entries. `get` has two critical
sections; between them the loader reads the archive, and waiters block on their flight. A flight is an
object of its own, not the key, because a waiter may wake up when the next load of the same key is
already running. `Store` is the second critical section including the eviction loop.

`PlanetArchive` composes it with the reads of an archive: `Ask` is `servePlanet` up to the search in
the root directory, `GetLeaf` the walk into a leaf directory (a hit, a flight to wait for, or a load,
which is a `ReadAt`), `ReadTile` and `TileRead` the read of the tile; 304 is the answer to a client whose
validator matches. One release is opened and then read; how releases replace each other is the
subject of `ReleaseHolder`.

### MemoryCache, DiskCache, TwoTierCache

The data of a tile is determined by its key, so a tier is a set of keys. The memory tier keeps its
three tables (`cache`, `pos`, `lru`) apart, because the point is that they agree; an element is taken
out of the list where the index points (`Without`); `EvictOldest` ends
where the code unlocks and `Handed` is where it locks again. In the disk tier `writeFile`,
`evictBatch` and the access batch hold `c.mu` and are one step each; the eviction tick, which only
takes the read lock, is another. Access times are not modelled: an eviction takes *any* rows, a
superset of what the oldest ones would be. `Faults` names the calls that may fail: the write of a file,
the insert and the query on SQLite, the scan of a row or the iteration over them, the removal of a
victim's file and the deletion of its row. The last one is the ordinary case and not an accident:
the `DELETE` runs while the `SELECT` of the same batch is open, and is refused (finding 2). Every run but
`disk_overwrite`, whose subject is the counter alone, therefore has it among its faults.
`TwoTierCache` uses the tiers' own actions; `HandOver` is `onEvict`, which writes the evicted tile
to the disk queue. `server` follows `stopHTTPServer`: `Shutdown` returns when requests are done or
after five seconds, so requests may still be running when the tiers are closed.

### CacheDir

One action per file operation: the existence check, the marker check, the listing before adoption,
the second listing of the clear, each removal, the temp file of the marker, its rename, the opening
of the database. `Stop` is a shutdown or a crash and is possible in every state; `Fail` is an
operation that returns an error, with the temp file of the marker left behind or not, after which the service runs with the memory tier only. `PutForeign`
and `RemoveDir` are other users of the directory. The first run starts with any set of names. Entries
are names; `fresh` are those the current run wrote, `found` is what it found, `owned` whether a run
has put its marker there.

### ReleaseCaches

A body is represented by the key of the release it was read from, which is all the properties
distinguish. A request holds one release from `Acquire` to its end; the file is read with no lock
held (`Read`), so the lookup and the store are separate critical sections. An asset lookup re-keys
the cache to the request's release, also back to an older one; `renderCache` is re-keyed by `put`.
`TryNext` is the loop of `serveGlyphs`. A handler without a release answers "unavailable", which
stands for 503 and for the 404 of `serveReleaseName`. File sizes depend on the release.

### Styles

A template's text is identified with the modification time of the edit that wrote it. `Get` ends with
the `Stat`; the cache lookup, the read and the store of the template are steps of their own, between
which files are edited (also to something that does not parse), deleted and the release switched. A
template may fail to execute, from the cache or fresh (`Render`), and is answered with 500.
`handleList` reads the directory first and acquires the release afterwards (`List`, `ListRelease`).
Manifests are sequences; `LatestStyle`, `DefaultStyle` and `ReleaseStyles` are the loops of the code.
A version is a rank among strings and, if it parses as one, a number. Directory entries that are no
plain file (directories, links, dangling links) are in the model because the listing and the server
treat them differently. `Drafts` are further manifests, no release of which is active: the choice of a
version and the agreement of the URLs are examined on all of them.

### TileGrid, TileIndex

`TileGrid` replaces the floating point of `tileCornerToLatLon` and `snapToGrid` by integers that give
the same cell for every corner of zoom 7 to 16: columns are rational in the zoom, and a parallel is
the last row of zoom 16 on it or north of it (only the equator falls on a row). A file is its layer
and its corner; the name spells these two out, one to one. The reference compares tile and cell as
intervals of rows and columns. `Grid` is the set of tiles the run compares on, `RegionalTiles` all of
zoom 7 to 16, the regional tileset; the proof is about any `Grid` of these.

In `TileIndex` a request looks a reader up (`FindReader`, the read lock), opens it (`OpenReader`, the
write lock), reads (`ReadTile`, no lock of the index) and, when no file is left, merges and answers
(`Collect`); the compressed copy is looked up and stored in steps of their own. A reader is its file
and a number, so that a reader opened after `Close` is another one. The order of the files is left
open. `stored` says of each tile in a file whether it is compressed, inflates and parses, and which
layers it has, each with its name and a scale that stands for version and extent. `present` are the
files that have been delivered; more are delivered at any time, none is replaced. A file that is there
may fail to open all the same, and a query on an open reader may fail, at any time. A finding `found`
is what a request has: the files that gave a part (`got`), and, for the properties only, those that did
not open (`missed`) and those whose query failed (`unread`). A copy in the cache keeps the finding it was
made of, so that `AnswersMatchFiles` can hold a copy against what its maker missed.

## 3. Runs

| Run | Instance | Shows |
|---|---|---|
| `holder_safety` | 2 requests, 1 direct reload, the poller, 1 closer, 4 slots, keys: two good, one rejected | leases, single close, no leak, honest status, never unloaded, refinement of `ReleaseLease` |
| `holder_live` | 1 request, the poller, 1 closer, 3 slots, 2 keys | one tick or signal after the pointer settled is enough; `Close` returns and everything is released |
| `planet` | 2 requests, 3 releases: two levels of leaf directories with runs, a root only, a truncated upload; 1 retry, budget 4; tiles of at most 2 bytes, directories of 3 rows | opened from one release, served as stored, failures have a cause, cache accounting and flights, ids and directories, everything ends |
| `archive_id` | 2 builds that differ in one byte | finding 3 |
| `two_tier` | 3 requests, 3 tiles, memory 1, disk 2, queue of 1; every call may fail | tables agree, the database is closed last, stale counts are safe, tiles are preserved on their way down |
| `two_tier_live` | 2 requests, each tier holds 1; deletions fail | both workers come to rest; `Close` completes; accepted writes land |
| `disk_overwrite` | 4 tiles, disk 2, no faults | finding 1 |
| `disk_locked` | 4 tiles, disk 1; deletions fail | finding 2 |
| `release_caches` | 3 requests, 2 releases that differ in fonts and sizes, limit of two files | own release, no mixing, byte budget, font order |
| `styles` | 2 requests, 2 file names (one an alias), 2 releases, 2 edits; all manifests of two styles, all histories of four versions; templates that do not parse or do not execute | no stale template, the listing is true, the newest version, URLs agree |
| `tile_index` | 2 requests, a tile of one file and a tile of two, nine contents, every subset of the files; opens and queries fail; all tiles of zoom 7 and border tiles of zoom 16 | answers match the files, no reader lost, corners find the cells |
| `cache_dir` | 2 zoom directories, database and journal, 1 foreign file, every initial directory | unrelated directories untouched, own files only, restarts recover |

Every property of a passing run has a mutant in `PROJECT.json` that makes the run fail.

**Bounds, and why they are enough.**

- *Holder.* A slot is referred to by `cur`, by one prepared `next` (reloads exclude each other), by
  a request that leases it or is about to close it, or by the one thread that holds `reloadMu` and is
  about to close it. While a release is being loaded, two requests and `cur` refer to three slots at
  most, so with four slots a load never lacks one: the bound removes no behaviour. Two requests give the races about the last
  reference. One closer: further calls of `Close` find `closed` set and return, which the proofs
  cover for any number. The rejected release is a third key; in the safety run any load may fail
  anyway, so `Bad` is empty there.
  The liveness run has one request, no direct reload and three slots: the poller is what has to
  converge, and a request that holds a release across `Close` is what has to be waited for.
- *Planet.* Two requests are a loader and a waiter, or two that evict each other's directories; the
  budget holds some of the leaf directories and not all. The theorems about flights cover any number of readers, keys,
  sizes and budgets. One retry has every case: hidden failure, exhausted attempts. Tile ids are
  enumerated for the levels in `Zooms`, 0 to 3, and proved for every zoom; archives (`Builds`) for every subset of six ids with two payloads, three
  leaf sizes, with and without runs: runs, gaps, adjacent and shared data, one and two levels of leaves.
  Some of these are over the limits: a payload of three bytes is larger than `MaxTileSize` and has to be
  refused, and with `MaxBlock` 3 a root directory of more rows does not open. The archives that are
  served are within the limits, as `ArchivesHoldTheirTiles` asks.
  The three archives are written out in `MCPlanetArchive`, and `UploadsAreBuilt` says that they are
  what `Build` makes of the stored tiles; TLC evaluates it before each run.
- *Tiers.* Tiers of size one and two with three tiles are over their limits after a few writes, so that
  sweeps, cascades, full queues and evictions overlap. `CountBound` stops new writes when the counter,
  which only grows by overwriting, reaches it; with it `DiskCache` is finite on its own, in the
  composition requests are finite. In `two_tier_live` only deletions fail. A file whose row was not inserted
  is never evicted (a failed insert), and one whose removal fails while its row goes is not either:
  enough of them keep the counter or the directory over its limit for good, and a query that fails every time
  evicts nothing. What the run shows is that the refused `DELETE`, which is met every time, does not
  keep the evictor busy forever, because each batch lowers the counter nevertheless.
- *Release caches.* Three requests: one of the old release, and two of the new one that load the
  same file. Two releases switch back and forth without bound.
- *Tile index.* Two requests are enough for two openers of one file; a third could only wait for the
  lock. Two files have every combination of merged, skipped, failing and missing parts, and of layers that
  share a name or do not; four would
  only repeat the loop. Zoom 7 has the largest tiles that are split by the grid: what four corners
  find there they find at deeper zooms, and zoom 16 shows the borders at full resolution.
- *Styles.* Two requests: one that stores a template while the other reads it, or a listing and a
  document. `MaxEdits` bounds the clock; one edit after the initial files is what makes a template
  stale. Two styles and two variants in any order, marked or not, reach each case of the choice.
- *Cache directory.* Two names of each kind give a clear that is cut in half; runs and crashes
  repeat without bound.

Deadlock checking is off in the tile tier and tile index runs, which really end (caches and
index are closed), and in `archive_id`.

**Fairness, and why the code justifies it.** In `ReleaseHolder` started work goes on: store reads
are bounded by `loadTimeout`, handlers return their release (`defer done()`). Ticks get no fairness:
`Converges` speaks of what follows a tick or a signal.
Taking `reloadMu` and the stop and trigger cases of the poller's `select` get *strong* fairness: Go
mutexes do not starve a waiter, and `select` chooses uniformly among ready cases, so a case that is
ready again and again is taken. Nobody has to call `Acquire`, `Reload`, `Start` or `Close`, and the
pointer need not move. In `TwoTierCache` workers and requests run, tickers fire, and `stopHTTPServer`,
once begun, goes on; whether it begins is open. In `PlanetArchive` callers run, and a call is answered or
its attempt times out (`cfg.Timeout`), so that some outcome, a fault among them, is due. `CacheDir`,
`ReleaseCaches`, `Styles` and `TileIndex` state no liveness; deadlock freedom of the first three is checked.

## 4. Proofs

All proofs are checked by TLAPS without axioms beyond the named assumptions on the constants. Most
give types: `HolderAssumption` (the kinds of threads are disjoint, requests are finitely many, the null
values are no slots or keys), `CachesAssumption` (every release has the styles its manifest names),
`NamesAssumption` (the kinds of file names are disjoint), `StylesAssumption` (the empty string names
no style or version), `TileIndexAssumption` (with `Grid \subseteq RegionalTiles`), `DirCacheAssumption`,
`StoreAssumption`, `ReleaseAssumption`, `FormatAssumption` (a block is no larger than a column can
say), `TilesAssumption`, `ZoomsAssumption`, `MemoryAssumption` and `DiskAssumption`. These say
something about the producers of the data:

- `UploadAssumption`: what the bucket can hold; an archive is as long as its file.
- `PlanetAssumption`: the loader is no request; the keys of the cache are the leaf directories.
- `SmallFilesFit`: the pointer and valid manifests are within `MaxFileSize`.
- `ManifestsAreValid`: manifests passed the validation of `manifest.go`: a style has variants, all of them
  known, no version of it comes twice, and at most one style is marked as the default.
- `ArchivesHoldTheirTiles`: an archive that was uploaded to its end opens, its root and leaf sections are
  rows, and a lookup in the file finds the tiles that were put there and no others; so its tiles and
  directories are within the reader's limits. `BuiltArchivesHoldTiles` proves it of what `Build` writes
  if no payload is larger than `maxTileSize` and neither the root nor a leaf larger than
  `maxDecodedBlock`; archives of other producers have to be taken at their word.
- `BuildsAssumption`: payloads are not empty, payloads and runs fit their columns, leaves are no larger
  than a block, and the entries are few enough (at most the fourth power of `leafSize`) that leaves nest
  no deeper than `maxLeafDepth`.

- **`ReleaseHolderProofs`**: `TypeOK`, `LeasedStaysOpen`, `ActiveIsServable`, `ClosedOnceUnused`,
  `NoArchiveLeaks`, `StatusIsHonest`, `NeverUnloaded`, and `ImplementsLease`. None of them is
  inductive. `HolderInv` adds what the code relies on: a thread past its lock of `reloadMu` owns it
  (`LockInv`), so there is one prepared slot at a time, fresh and named by the key that was read
  (`NextInv`); `refs` is the *number* of requests that lease the slot (`RefsInv`), so the count that
  drops to zero is the last user, by a lemma on cardinalities; a leased slot that is not active is
  retired (`LeaseInv`), so its last user will close it; a thread has doomed at most one slot and
  only in its closing window (`DoomInv`); a reload that reports success has left something active
  (`JobInv`). One lemma per action shows the step; the refinement maps each step to a step of
  `ReleaseLease` or a stutter.
- **`ReleaseCachesProofs`**: `ServesOwnRelease`, `OneRelease`, `FirstFontWins` and `AssetBudget`: the count
  is the sum of the sizes of the cached files, and within the limit.
  `CacheInv` needs the history of a request: the names left are a suffix of the names asked for and
  the release has none of those before it (`InOrder`), and a cached file is one its release has
  (`CachesOK`), so a hit is as good as a read.
- **`CacheDirProofs`**: `UnrelatedUntouched`, `ServesOwnFiles`, `RestartRecovers`. `DirInv` says how
  far the clear has got (`Progress`: the stale entries are those still on its list), that an unrelated
  directory never gets past "adopt" (`Untouched`), and that a claimed directory keeps its marker
  (`Claimed`).
- **`TileIndexProofs`**: `NoReaderLost`, `AnswersMatchFiles` and the types. `IndexInv` says what a request
  knows on its way (`Progress`): each file that holds a part of its tile has given it, did not open, or is
  still to come; a failed query ends it. A cached reader belongs to a file that
  is there (`CachedOpen`), and a compressed copy is as good as a fresh merge by the request that made
  it (`CopiesMatch`). Opens and queries fail whenever they like. That a tile of one file is never
  merged needs a lemma on cardinalities. `CornersFindCells` is proved for every tile of zoom 7 to 16:
  the parallels of the grid are at least 512 rows of zoom 16 apart and columns are wider than a tile,
  so a tile meets no cell but those of its corners. Powers of two are taken zoom by zoom.
- **`StylesProofs`**: `ServedIsCurrent` from `AgeInvariant` (what a request holds, or the cache does, is as
  old as the modification time it goes by, and no edit has the same time), `ListingIsTrue` from
  `ListingInvariant`, and for every manifest `URLsOfAStyleAgree` and `NewestIsServed`, from which
  `LatestIsNewest` and `StylesAgree` follow. The loops over a manifest are recursive functions; that they
  are defined and what they keep is shown by induction over the length.
- **`PlanetArchiveProofs`**, the cache alone: `SingleFlight`, `WaitersGetTheirs` and `Accounted`, for any
  number of readers, directories and weights. `FlightInvariant` says that the flights in `c.inflight`
  belong to the readers that are loading, one owner each, that a flight has its outcome when it is
  released and not before, and that nobody reuses a flight somebody still refers to. `Accounted` needs
  `DirTables` (the list has no repetitions and holds the keys of the map) and the lemmas on sums: the
  eviction loop leaves a front part of the list, whose sum is the total less what was taken.
- **`PlanetArchiveProofs`**, the system: `OpensOneRelease` for any number of releases, callers and
  retries, and `RequestsUseTheCache`: the composed system implements `DirSpec`, so that the theorems
  about the cache hold of it as well. `OpeningInv` ties the loader's call and its answer to the step
  of the load (`CallOK`, `ReplyOK`): while the header is read the call is a GET of the first unit of the
  archive whose size is known, so what comes back is that archive's header, however often the pointer
  moved. `WalkInv` says that a request which is not at rest finds an open archive, is inside `get`
  exactly while it waits for a leaf directory, and is at an entry of the file as deep as it has come
  (`LeavesAt`); without the last part it could ask the cache for a key no archive has.
  `ServesStoredTiles`: a request is where a lookup of its id in the whole file would be after as many
  turns (`PathInv`), directories from the cache included, and a read asks for bytes inside one
  section; a store that ignores `Range` therefore gives an error and never other bytes.
  `FailsForAReason`: as long as nothing happened that the code does not promise to hide, a load begun by
  a pointer to a sound release is on its course, with each answer the one its step needs, and
  a request's read relies on the open archive still being there (`ReasonInv`); so no step fails.
- **`PlanetArchiveProofs`**, the format. `DirectoriesAreReadBack`: the loop of `parseDirectory` has, after
  `i` rows of an encoded directory, its first `i` entries, whatever they are within the limits of a block
  and of the columns. `BuiltTilesAreRead` (of an archive whose root `Open` accepts; a tile larger
  than `maxTileSize` is an error, `Expected`):
  the entries that `Build` makes stand for disjoint runs of ids, in order, whose tiles are what they
  point at (`TilesBelow`); a level that is split keeps what was written before, and a search in the
  new level leads to the chunk in which the old one would find the same entry (`Leads`, from
  `WrittenLeads`); at most three levels are added (`Room`), so a lookup comes down to the entries for
  tiles within its four turns (`Coming`) and ends with the tile, or with none. `BuiltArchivesHoldTiles` adds the header: its zoom
  levels span those of the ids, which needs the zoom of every number (`LevelOfId`) and the next item.
- **`PlanetArchiveProofs`**, tile ids. The reference is a relation, `OnCurve(z, t, x, y)`: the curve of a level is
  four copies of the one below, turned as `Rotate` turns them (`Turned`) and set in their quarter
  (`Placed`). By induction over the level it stays in its square, meets each point once, runs from corner
  to corner and from neighbour to neighbour. The loop in `IDToZXY` puts a point where the curve has
  it (`PlacesFollowCurve`); the loop in `ZXYToID` keeps `Owes`: what is left of the coordinates lies in a
  square of side `Shl(k)`, and its number on the curve of level `k` is what the sum still lacks. Hence
  `HilbertCurve`, for every zoom: the two are inverse, the ids of a level follow those of the levels
  before it without a gap, and neighbours in the order are neighbours on the map. `IdsNameTiles` says
  that no two tiles of the grid share an id, on one zoom or two, and `IdsFit` that ids are below 2^63 up to `MaxZoom`.
- **`TwoTierCacheProofs`**, the disk tier: its invariant under *any* caller (`CallerStep`: the two
  queues change, nothing else) and any faults. A worker that has left holds nothing, and a pending eviction
  is within the excess, because only the evictor lowers the counter; a batch takes no more rows than
  that, so the counter stays a natural number.
- **`TwoTierCacheProofs`**, both tiers: `MemIndexed`, `StaleCountIsSafe`, `DbClosedLast` and `Preserved`,
  for all sizes, limits and faults. `MemTables` says that the list has no repetitions;
  three lemmas about sequences without repetitions (`PushedFront`, `TakenOut`, `LastTaken`) carry it
  through gets, sets and the sweep, and a bijection gives the length. `Preserved` follows from what
  each step takes: only a worker's or the sweeper's hand empties, and into what.

The types of the components are part of these invariants, so no run checks them separately.

A loop or a sum of the model is a recursive function. That such a function exists is proved, not
assumed (`LoopRuns`, `RecursionHasSolution`); what it computes follows by induction over its length, for
which the induction principle is stated with a set instead of a predicate (`NatSetInduction`).

Only model-checked: liveness (`Converges`, `CloseReleasesAll`, `TiersSettle`, `CloseCompletes`,
`EarlyWritesLand`, `LoadsAndReadsEnd`), which the prover does not reach under fairness.

## 5. What is not modelled

- Signing, compression, varints, rendering, headers, logging: computations without state that
  unit tests reach. A block is therefore as large decoded as it is stored. The metadata of an archive is
  read by `pmtiles-probe` only. Of the header of an archive the sections and
  zooms are modelled, not the magic, version, tile type and compressions that `Open` checks. `validateCachePath` and the path syntax of manifests compare strings.
- The decoding and merging of vector tiles: `TileIndex` models when a merge succeeds, not its output.
- The file backend of the release store, which reads one file where the object store needs two requests,
  and `tilesource`, which chooses between them once.
- `Release.loadedAt`, access times, the 90% target's effect on which tiles go: no property depends on
  them. The order of eviction in the disk tier is therefore not checked.
- Two concurrent calls of `DiskTileCache.Close`, which would close `stopCh` twice: the service makes one.
- Data races inside the standard library and SQLite; SQLite is the set of rows of one table plus
  the error it returns.
- Late `SetAsync`: a tile queued after the write worker has drained the queue is accepted and never
  written. `EarlyWritesLand` is stated for what was accepted before `Close`; the rest is harmless,
  since the directory is cleared at the next start.
- A promotion from disk over a newer `Set` of the same key (`two_tier_cache.go:84`): data is a function
  of the key.
- The width of the numbers inside the loops of `tileid.go`; of ids themselves `IdsFit` says that they fit.
- The components listed as `not_modelled` in `PROJECT.json`.

## 6. Findings

1. **`fileCount` drifts upwards** (`disk_cache.go:449`, run `disk_overwrite`). `writeFile` counts every
   write, overwrites included; `evictBatch` takes off one per row. Under the two-tier cache a tile is
   written by `Set` and again when it is evicted from memory, so overwriting is normal and the disk
   tier evicts although the directory is within its limit. A test knows of the drift and takes it as
   acceptable (`disk_cache_test.go:419`: "Due to INSERT OR REPLACE, we increment on each write"); its effect
   on evictions is what the run adds.
2. **Evictions that are counted but not done** (`disk_cache.go:561`, run `disk_locked`). The `DELETE` of
   a victim runs on another connection while the `SELECT` is open; in SQLite's default journal mode it
   fails with "database is locked", the error is logged, and the counter goes down all the same. The
   row stays, is the oldest again, and the next batch counts it once more while no file goes. The counter
   falls below the number of files, and a directory over its limit is no longer seen to be: the run
   violates `OverageIsSeen`. So the counter errs in both directions, and neither the limit nor the 90%
   target is something the disk tier keeps. What is left, and checked with that fault (`TiersSettle`), is
   that the evictor comes to rest.
3. **Different builds with the same archive id** (`reader.go:108`, run `archive_id`). The id is a hash of
   header and root directory, so two builds whose tiles differ but agree in their lengths have the
   same id, and a client with a tile of one is told by the other that it has not been modified. The comment
   promises a different id for any different build.

Observations that no run checks as violations:

- A file that does not open is skipped when a tile needs several, for whatever reason (the comments at
  `index.go:100` and `132` say that all relevant files are merged, and that a skipped one does not exist), and the tile made of the others is kept compressed.
  It is served from there even when a later request has just merged all parts (`http_tile.go:194`).
  `AnswersMatchFiles` therefore excepts the files that did not open when the tile was made.
- A tile of a region without file is a 500 when one file covers it and a 204 when it touches a border
  of the grid, since only the loop over several files skips what does not open.
- An insert that fails leaves a tile file without a row: it is served, but no eviction finds it
  until the directory is cleared at the next start.
- `ListingIsTrue` excludes (`Plain`) what "every entry has a name that GET /styles/{name} serves" does not
  hold for: a file whose name is not a valid style name is listed and answered with 400; a directory
  behind a link or a dangling link is listed, and answered with 500 or from the release; a release
  style called "light" or "dark" is listed and shadowed by the alias.
- `LatestIsNewest` speaks of versions that are all numbers or all not: `versionLess` is not transitive
  across the two ("9" < "10" < "1a" < "9"), so in a mixed manifest the newest version depends on the order.
- A template restored with its old modification time (a rollback that keeps times) is served from the
  cache of the newer text until the next change; every edit in the model has a later time.
- `loadTimeout` does not bound the reads of an archive: `Object.ReadAt` uses `context.Background`, and a
  body that is cut is not retried (`Cancel`, `Cut`). A load still ends, by the timeouts of its attempts.
- A release replaced in place, under an equal key, is never reloaded, and an archive replaced in place
  under a fixed URL is read with the old directories.

## 7. What could follow

- The release holder with the handlers of the planet tileset on top, so that an archive is
  replaced while leaf directories of the old one are loading; the two are now checked apart and meet
  in the lease contract.
- The access times of the disk tier, and with them which tiles an eviction takes.
- Archives of other producers than `Build`: what a file has to satisfy so that `Lookup` finds its tiles.
