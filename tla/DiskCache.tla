----------------------------- MODULE DiskCache -----------------------------
(***************************************************************************)
(* internal/tilecache/disk_cache.go, DiskTileCache: tile files under a     *)
(* directory and their rows in SQLite, written by a worker that drains a   *)
(* bounded queue, evicted by a second worker, while a third one bumps the  *)
(* access times of the tiles that were hit.                                *)
(*                                                                         *)
(* Access times are not modelled: an eviction takes any rows.  writeFile,  *)
(* evictBatch and applyAccessBatch hold c.mu throughout, each is one step. *)
(***************************************************************************)
EXTENDS Integers, Sequences, TileKeys

CONSTANTS
  DiskMax,     \* c.maxFiles
  QueueMax,    \* capacity of c.writeQueue
  CountBound,  \* bound of the model: no write is queued beyond this many
  Faults       \* the calls that may fail

ASSUME DiskAssumption ==
  /\ DiskMax \in Nat /\ QueueMax \in Nat \ {0} /\ CountBound \in Nat
  /\ Faults \subseteq {"write", "insert", "query", "scan", "remove", "delete"}

VARIABLES
  queue,        \* c.writeQueue
  writer,       \* writeWorker: "run", "drain", "done"
  writing,      \* the job writeWorker holds
  files,        \* tile files on disk
  rows,         \* rows of tile_cache
  fileCount,    \* c.fileCount
  evictor,      \* evictionWorker: "wait", "evict", "done"
  toEvict,      \* its argument of evictBatch
  hits,         \* tiles in c.accessQueue
  accessor,     \* accessWorker: "run", "apply", "done"
  diskStopped,  \* c.stopCh is closed
  closer,       \* Close: "no", "waiting" (on c.wg), "closed"
  dbOpen        \* c.lruDB is open

store       == <<files, rows, fileCount>>
writeVars   == <<writer, writing>>
evictVars   == <<evictor, toEvict>>
accessVars  == <<hits, accessor>>
closeVars   == <<diskStopped, closer, dbOpen>>
diskVars    == <<queue, writeVars, store, evictVars, accessVars, closeVars>>

DiskTypeOK ==
  /\ queue \in Seq(Tiles) /\ Len(queue) <= QueueMax
  /\ writer \in {"run", "drain", "done"} /\ writing \in Tiles \cup {NoTile}
  /\ files \subseteq Tiles /\ rows \subseteq Tiles /\ fileCount \in Nat
  /\ evictor \in {"wait", "evict", "done"} /\ toEvict \in Nat
  /\ hits \subseteq Tiles /\ accessor \in {"run", "apply", "done"}
  /\ diskStopped \in BOOLEAN /\ dbOpen \in BOOLEAN
  /\ closer \in {"no", "waiting", "closed"}

\* prepareCacheDir left an empty directory and a new database.
DiskInit ==
  /\ queue = <<>> /\ writer = "run" /\ writing = NoTile
  /\ files = {} /\ rows = {} /\ fileCount = 0
  /\ evictor = "wait" /\ toEvict = 0
  /\ hits = {} /\ accessor = "run"
  /\ diskStopped = FALSE /\ closer = "no" /\ dbOpen = TRUE

----------------------------------------------------------------------------
(* The callers.                                                            *)

QueueFull == Len(queue) >= QueueMax

\* SetAsync: a full queue refuses the tile.
Enqueue(k) == queue' = IF QueueFull THEN queue ELSE Append(queue, k)

\* Get, on a hit: the access is queued, or dropped when that queue is full.
NoteHit(k) == hits' \in {hits, hits \cup {k}}

SetAsync(k) ==
  /\ Enqueue(k)
  /\ UNCHANGED <<writeVars, store, evictVars, accessVars, closeVars>>

DiskGet(k) ==
  /\ k \in files /\ NoteHit(k)
  /\ UNCHANGED <<queue, writeVars, store, evictVars, accessor, closeVars>>

----------------------------------------------------------------------------
(* The write worker.                                                       *)

TakeJob ==
  /\ writer \in {"run", "drain"} /\ writing = NoTile /\ queue # <<>>
  /\ writing' = Head(queue) /\ queue' = Tail(queue)
  /\ UNCHANGED <<writer, store, evictVars, accessVars, closeVars>>

\* writeFile: the file is renamed into place, its row inserted or replaced.
WriteFile ==
  /\ writing # NoTile
  /\ writing' = NoTile
  /\ \/ /\ files' = files \cup {writing} /\ fileCount' = fileCount + 1
        /\ \/ rows' = rows \cup {writing}
           \/ "insert" \in Faults /\ UNCHANGED rows
     \/ "write" \in Faults /\ UNCHANGED store
  /\ UNCHANGED <<queue, writer, evictVars, accessVars, closeVars>>

WriterDrains ==
  /\ writer = "run" /\ writing = NoTile /\ diskStopped
  /\ writer' = "drain"
  /\ UNCHANGED <<queue, writing, store, evictVars, accessVars, closeVars>>

\* Mutants: the worker leaves without draining; it waits for jobs that never come.
Leaves      == TRUE
WaitsOn     == FALSE
Drained     == queue = <<>>

WriterStops ==
  /\ writer = "drain" /\ writing = NoTile /\ Drained
  /\ writer' = "done"
  /\ UNCHANGED <<queue, writing, store, evictVars, accessVars, closeVars>>

----------------------------------------------------------------------------
(* The eviction worker.                                                    *)

\* int(float64(c.maxFiles) * 0.9)
Target == (9 * DiskMax) \div 10

OverLimit == fileCount > DiskMax

\* Mutant: the headroom is forgotten, everything is to go.
Everything == fileCount
Excess     == fileCount - Target

\* The tick reads fileCount under the read lock and lets it go.
EvictionTick ==
  /\ evictor = "wait" /\ ~diskStopped /\ OverLimit
  /\ evictor' = "evict" /\ toEvict' = Excess
  /\ UNCHANGED <<queue, writeVars, store, accessVars, closeVars>>

CountEvicted(victims) == fileCount' = fileCount - Cardinality(victims)

DeleteRows(gone) == rows' = rows \ gone

\* A victim's file is removed, then its row deleted through the pool while
\* the rows of the SELECT are open; failures are only logged.
RemoveVictims(victims) ==
  \E kept \in SUBSET victims, stuck \in SUBSET victims :
    /\ kept # {} => "remove" \in Faults
    /\ stuck # {} => "delete" \in Faults
    /\ files' = files \ (victims \ kept)
    /\ DeleteRows(victims \ stuck)

\* The n oldest rows, here any n rows; fewer when one cannot be scanned or
\* the iteration ends early, an error that nobody asks for.
Oldest(n, victims) ==
  LET all == Min({n, Cardinality(rows)})
  IN  /\ Cardinality(victims) <= all
      /\ Cardinality(victims) < all => "scan" \in Faults

\* evictBatch(toEvict).
EvictBatch ==
  /\ evictor = "evict" /\ evictor' = "wait" /\ toEvict' = 0
  /\ \/ \E victims \in SUBSET rows :
          Oldest(toEvict, victims) /\ RemoveVictims(victims) /\ CountEvicted(victims)
     \/ "query" \in Faults /\ UNCHANGED store
  /\ UNCHANGED <<queue, writeVars, accessVars, closeVars>>

EvictorStops ==
  /\ evictor = "wait" /\ diskStopped
  /\ evictor' = "done"
  /\ UNCHANGED <<queue, writeVars, store, toEvict, accessVars, closeVars>>

----------------------------------------------------------------------------
(* The access worker.                                                      *)

TakeHits ==
  /\ accessor = "run" /\ hits # {}
  /\ accessor' = "apply" /\ hits' = {}
  /\ UNCHANGED <<queue, writeVars, store, evictVars, closeVars>>

\* applyAccessBatch: one transaction, or nothing once the cache is stopping.
ApplyHits ==
  /\ accessor = "apply"
  /\ accessor' = "run"
  /\ UNCHANGED <<queue, writeVars, store, evictVars, hits, closeVars>>

AccessorStops ==
  /\ accessor = "run" /\ diskStopped
  /\ accessor' = "done"
  /\ UNCHANGED <<queue, writeVars, store, evictVars, hits, closeVars>>

----------------------------------------------------------------------------
(* Close.                                                                  *)

\* The stop channel is closed; a second call finds it closed and returns.
CloseDisk ==
  /\ ~diskStopped
  /\ diskStopped' = TRUE /\ closer' = "waiting"
  /\ UNCHANGED <<queue, writeVars, store, evictVars, accessVars, dbOpen>>

\* Mutant: Close waits for the writer only.
WriterLeft  == writer = "done"
WorkersLeft == writer = "done" /\ evictor = "done" /\ accessor = "done"

\* c.wg.Wait returns and the database is closed.
CloseDb ==
  /\ closer = "waiting" /\ WorkersLeft
  /\ closer' = "closed" /\ dbOpen' = FALSE
  /\ UNCHANGED <<queue, writeVars, store, evictVars, accessVars, diskStopped>>

Write  == TakeJob \/ WriteFile \/ WriterDrains \/ WriterStops
Evict  == EvictionTick \/ EvictBatch \/ EvictorStops
Access == TakeHits \/ ApplyHits \/ AccessorStops

DiskNext ==
  \/ \E k \in Tiles :
       \/ fileCount + Len(queue) < CountBound /\ SetAsync(k)
       \/ DiskGet(k)
  \/ Write \/ Evict \/ Access \/ CloseDisk \/ CloseDb

DiskSpec == DiskInit /\ [][DiskNext]_diskVars

----------------------------------------------------------------------------
(* Properties.                                                             *)

(* fileCount is the "current file count" and maxFiles the "soft limit" the *)
(* evictor restores: when the directory is over its limit the counter says *)
(* so, and the next tick evicts.                                           *)
OverageIsSeen == Cardinality(files) > DiskMax => fileCount > DiskMax

(* "If over limit, evict oldest files": no file is evicted while the       *)
(* number of files on disk is within max-files.                            *)
EvictsOnlyOverLimit ==
  [][files' \subseteq files /\ files' # files => Cardinality(files) > DiskMax]_diskVars

(* Close "waits for pending writes to complete and closes the database":   *)
(* no worker touches the database afterwards.                              *)
DbClosedLast ==
  ~dbOpen => writing = NoTile /\ evictor # "evict" /\ accessor # "apply"

(* The count is read under the read lock and acted upon under the write    *)
(* lock: what the evictor decided is still no more than the excess then,   *)
(* although tiles were written, or failed to be deleted, in between.       *)
StaleCountIsSafe ==
  evictor = "evict" => toEvict > 0 /\ toEvict <= fileCount - Target
=============================================================================
