--------------------------- MODULE TwoTierCache ---------------------------
(***************************************************************************)
(* internal/tilecache/two_tier_cache.go over both tiers, with the tile     *)
(* handlers that use it (internal/server/http_tile.go) and the shutdown    *)
(* that closes it (cmd/tilesservice/main.go, stopHTTPServer).              *)
(*                                                                         *)
(* The tiers' own actions are those of MemoryCache and DiskCache; only     *)
(* onEvict and the callers are composed here.                              *)
(***************************************************************************)
EXTENDS MemoryCache, DiskCache

CONSTANTS
  Requests   \* tile requests that reach the cache

VARIABLES
  pc,     \* where a request is in Get and Set
  tile,   \* the tile it asks for
  server  \* stopHTTPServer: "up", "down" (Shutdown returned), "closing" (memory tier closed)

reqVars == <<pc, tile>>
vars == <<memVars, diskVars, reqVars, server>>

TypeOK ==
  /\ MemTypeOK /\ DiskTypeOK
  /\ pc \in [Requests -> {"new", "disk", "promote", "set", "enqueue", "end"}]
  /\ tile \in [Requests -> Tiles \cup {NoTile}]
  /\ server \in {"up", "down", "closing"}

Init ==
  /\ MemInit /\ DiskInit
  /\ pc = [q \in Requests |-> "new"] /\ tile = [q \in Requests |-> NoTile]
  /\ server = "up"

Goto(q, label) == pc' = [pc EXCEPT ![q] = label] /\ UNCHANGED tile

\* Get, memory tier: a hit answers the request.
Lookup(q) ==
  /\ pc[q] = "new" /\ server = "up"
  /\ \E k \in Tiles :
       /\ tile' = [tile EXCEPT ![q] = k]
       /\ \/ /\ MemHit(k) /\ MemPromote(k)
             /\ pc' = [pc EXCEPT ![q] = "end"]
          \/ /\ ~MemHit(k) /\ UNCHANGED tables
             /\ pc' = [pc EXCEPT ![q] = "disk"]
  /\ UNCHANGED <<sweeper, evicting, memStopped, diskVars, server>>

\* Get, disk tier; a miss goes to the handler, which compresses the tile.
DiskLookup(q) ==
  /\ pc[q] = "disk"
  /\ IF tile[q] \in files
     THEN NoteHit(tile[q]) /\ Goto(q, "promote")
     ELSE UNCHANGED hits /\ (Goto(q, "set") \/ Goto(q, "end"))
  /\ UNCHANGED <<memVars, queue, writeVars, store, evictVars, accessor, closeVars, server>>

\* Get promotes what it found on disk.
Promote(q) ==
  /\ pc[q] = "promote"
  /\ MemPut(tile[q]) /\ Goto(q, "end")
  /\ UNCHANGED <<sweeper, evicting, memStopped, diskVars, server>>

\* Set, memory tier.
SetMemory(q) ==
  /\ pc[q] = "set"
  /\ MemPut(tile[q]) /\ Goto(q, "enqueue")
  /\ UNCHANGED <<sweeper, evicting, memStopped, diskVars, server>>

\* Set, disk tier: best effort.
SetDisk(q) ==
  /\ pc[q] = "enqueue"
  /\ Enqueue(tile[q]) /\ Goto(q, "end")
  /\ UNCHANGED <<memVars, writeVars, store, evictVars, accessVars, closeVars, server>>

\* Mutant: evicted tiles are not written to disk.
Drop(k)    == UNCHANGED queue
Cascade(k) == Enqueue(k)

\* onEvict, called by the sweeper without the lock of the memory tier.
HandOver ==
  /\ Handed /\ Cascade(evicting)
  /\ UNCHANGED <<writeVars, store, evictVars, accessVars, closeVars, reqVars, server>>

\* Shutdown returns when the requests are done, or gives up after 5 seconds.
ShutdownServer ==
  /\ server = "up" /\ server' = "down"
  /\ UNCHANGED <<memVars, diskVars, reqVars>>

CloseMemory ==
  /\ server = "down" /\ server' = "closing"
  /\ MemClose /\ UNCHANGED <<diskVars, reqVars>>

StartCloseDisk ==
  /\ server = "closing" /\ CloseDisk /\ UNCHANGED <<memVars, reqVars, server>>

EndCloseDisk == CloseDb /\ UNCHANGED <<memVars, reqVars, server>>

Handle(q) == Lookup(q) \/ DiskLookup(q) \/ Promote(q) \/ SetMemory(q) \/ SetDisk(q)
Tick      == SweepTick /\ UNCHANGED <<diskVars, reqVars, server>>
SweepTurn == (EvictOldest \/ SweepEnd) /\ UNCHANGED <<diskVars, reqVars, server>>
SweepStop == SweeperStops /\ UNCHANGED <<diskVars, reqVars, server>>
DoWrite   == Write /\ UNCHANGED <<memVars, reqVars, server>>
DoEvict   == Evict /\ UNCHANGED <<memVars, reqVars, server>>
DoAccess  == Access /\ UNCHANGED <<memVars, reqVars, server>>

Next ==
  \/ \E q \in Requests : Handle(q)
  \/ Tick \/ SweepTurn \/ HandOver \/ SweepStop
  \/ DoWrite \/ DoEvict \/ DoAccess
  \/ ShutdownServer \/ CloseMemory \/ StartCloseDisk \/ EndCloseDisk

Spec == Init /\ [][Next]_vars

\* Every goroutine runs, tickers fire, and stopHTTPServer goes on once begun.
FairSpec ==
  /\ Spec
  /\ \A q \in Requests : WF_vars(Handle(q))
  /\ WF_vars(Tick) /\ WF_vars(SweepTurn \/ HandOver)
  /\ WF_vars(DoWrite) /\ WF_vars(DoEvict) /\ WF_vars(DoAccess)
  /\ WF_vars(CloseMemory) /\ WF_vars(StartCloseDisk) /\ WF_vars(EndCloseDisk)

----------------------------------------------------------------------------
(* Properties.                                                             *)

Held(k) == k \in cache \cup files \cup Range(queue) \cup {evicting, writing}

(* "Memory Eviction (L1 -> L2): tile preserved in disk cache": once cached *)
(* a tile is somewhere at every moment of its way down, through the sweep, *)
(* the queue and the writer's hands, until a disk eviction takes it, its   *)
(* write fails, or the write queue is full when it is handed over.         *)
Preserved ==
  [][\A k \in Tiles : Held(k) /\ ~Held(k)' =>
       \/ evictor = "evict" /\ evictor' = "wait"
       \/ writing = k /\ writing' = NoTile /\ "write" \in Faults
       \/ evicting = k /\ QueueFull]_vars

(* Both workers come to rest: when no request is left the sweeper brings   *)
(* memory back within its size, and the evictor its counter within the     *)
(* limit or the directory to nothing, although overwritten files are       *)
(* counted twice and rows that cannot be deleted are evicted again and     *)
(* again, unless shutdown stops them.  The files themselves may stay over  *)
(* the limit: OverageIsSeen.                                               *)
TiersSettle ==
  <>[](/\ memStopped \/ Cardinality(cache) <= MemMax
       /\ diskStopped \/ fileCount <= DiskMax \/ files = {})

(* Closing the disk tier ends, while requests that outlived the shutdown   *)
(* and a sweep that is not waited for still write to it.                   *)
CloseCompletes == closer = "waiting" ~> closer = "closed"

(* "Graceful shutdown with pending write completion": a tile the queue had *)
(* accepted when Close is called is taken from it and written.             *)
EarlyWritesLand ==
  \A k \in Tiles : (k \in Range(queue) /\ ~diskStopped) ~> (writing = k)
=============================================================================
