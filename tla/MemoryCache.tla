---------------------------- MODULE MemoryCache ----------------------------
(***************************************************************************)
(* internal/tilecache/tile_cache.go, CompressedTileCache: the memory tier. *)
(* Set never evicts; a background sweeper does, once a second, and         *)
(* releases c.mu around every call of onEvict.                             *)
(*                                                                         *)
(* A tile's data depends on its key only, so a cache is the set of keys it *)
(* holds.                                                                  *)
(***************************************************************************)
EXTENDS Integers, Sequences, SequencesExt, TileKeys

CONSTANT MemMax  \* c.maxSize; 0 disables the cache

ASSUME MemoryAssumption == MemMax \in Nat

VARIABLES
  cache,      \* keys of c.cache
  pos,        \* keys of c.pos
  lru,        \* c.lru, most recently used first
  sweeper,    \* evictionWorker: "wait", "sweep" (inside the tick), "hand" (in onEvict), "done"
  evicting,   \* the tile onEvict is called with
  memStopped  \* c.stopCh is closed

tables == <<cache, pos, lru>>
memVars == <<tables, sweeper, evicting, memStopped>>

MemTypeOK ==
  /\ cache \subseteq Tiles /\ pos \subseteq Tiles /\ lru \in Seq(Tiles)
  /\ sweeper \in {"wait", "sweep", "hand", "done"}
  /\ evicting \in Tiles \cup {NoTile} /\ (evicting # NoTile <=> sweeper = "hand")
  /\ memStopped \in BOOLEAN

MemInit ==
  /\ cache = {} /\ pos = {} /\ lru = <<>>
  /\ sweeper = IF MemMax > 0 THEN "wait" ELSE "done"
  /\ evicting = NoTile /\ memStopped = FALSE

\* The element that the index holds for k is taken out of the list.
Without(k) == RemoveAt(lru, CHOOSE i \in DOMAIN lru : lru[i] = k)

\* Mutant: an overwritten key is pushed once more.
NeverKnown(k) == FALSE
Known(k)      == k \in pos

MemHit(k) == MemMax > 0 /\ Known(k)

\* Get, on a hit: the tile becomes the most recently used one.
MemPromote(k) ==
  /\ lru' = <<k>> \o Without(k)
  /\ UNCHANGED <<cache, pos>>

\* Set: an existing key is promoted, a new one is pushed to the front.
MemPut(k) ==
  IF MemMax = 0 THEN UNCHANGED tables
  ELSE /\ cache' = cache \cup {k}
       /\ pos' = pos \cup {k}
       /\ lru' = <<k>> \o (IF Known(k) THEN Without(k) ELSE lru)

\* The ticker fires and the sweeper locks c.mu.
SweepTick ==
  /\ sweeper = "wait"
  /\ sweeper' = "sweep"
  /\ UNCHANGED <<tables, evicting, memStopped>>

\* Mutant: the sweep stops one tile early.
OneOver == Cardinality(cache) > MemMax + 1 /\ lru # <<>>
OverMax == Cardinality(cache) > MemMax /\ lru # <<>>

Victim == Last(lru)

\* One turn of the loop: the oldest tile leaves the tables, the lock is released.
EvictOldest ==
  /\ sweeper = "sweep" /\ OverMax
  /\ evicting' = Victim /\ sweeper' = "hand"
  /\ cache' = cache \ {Victim} /\ pos' = pos \ {Victim} /\ lru' = Front(lru)
  /\ UNCHANGED memStopped

\* onEvict returned, the lock is taken again.
Handed ==
  /\ sweeper = "hand"
  /\ sweeper' = "sweep" /\ evicting' = NoTile
  /\ UNCHANGED <<tables, memStopped>>

SweepEnd ==
  /\ sweeper = "sweep" /\ ~OverMax
  /\ sweeper' = "wait"
  /\ UNCHANGED <<tables, evicting, memStopped>>

SweeperStops ==
  /\ sweeper = "wait" /\ memStopped
  /\ sweeper' = "done"
  /\ UNCHANGED <<tables, evicting, memStopped>>

\* Close, idempotent; it does not wait for the sweeper.
MemClose ==
  /\ memStopped' = TRUE
  /\ UNCHANGED <<tables, sweeper, evicting>>

----------------------------------------------------------------------------
(* "every key in cache appears exactly once in lru, and pos is its 1:1     *)
(* index" (CompressedTileCache): gets, sets and the sweep, which gives the *)
(* lock away in the middle of its loop, keep the three tables together.    *)
MemIndexed ==
  /\ Range(lru) = cache /\ pos = cache
  /\ Len(lru) = Cardinality(cache)
=============================================================================
