------------------------- MODULE TwoTierCacheProofs -------------------------
(* What the two tiers promise together, for any number of tiles and        *)
(* requests, any limits, any queue and any combination of faults.          *)
EXTENDS TwoTierCache, CollectionLemmas

----------------------------------------------------------------------------
(* What the disk tier promises whoever calls it: each step of its workers  *)
(* and of Close preserves the invariant below, and so does whatever        *)
(* callers do to the two queues.                                           *)

\* Callers touch the queues only.
CallerStep == UNCHANGED <<writeVars, store, evictVars, accessor, closeVars>>

DiskStep == CallerStep \/ Write \/ Evict \/ Access \/ CloseDisk \/ CloseDb

Countable == IsFiniteSet(files) /\ IsFiniteSet(rows) /\ fileCount \in Nat /\ toEvict \in Nat

\* A worker that has left holds nothing, and the database is closed after all of them.
WorkersGone ==
  /\ writer = "done" => writing = NoTile
  /\ ~dbOpen => writer = "done" /\ evictor = "done" /\ accessor = "done"

DiskInv == Countable /\ WorkersGone /\ StaleCountIsSafe

LEMMA MinOfTwo ==
  ASSUME NEW a \in Nat, NEW b \in Nat
  PROVE  Min({a, b}) \in Nat /\ Min({a, b}) <= a /\ Min({a, b}) <= b
<1>1. CASE a <= b
  <2>1. \E x \in {a, b} : \A y \in {a, b} : x <= y
    BY <1>1
  <2> QED
    BY <2>1 DEF Min
<1>2. CASE b < a
  <2>1. \E x \in {a, b} : \A y \in {a, b} : x <= y
    BY <1>2
  <2> QED
    BY <2>1 DEF Min
<1> QED
  BY <1>1, <1>2

LEMMA TargetBelow == Target \in Nat /\ Target <= DiskMax
  BY DiskAssumption DEF Target

\* What an eviction takes and what it leaves, whatever of it fails.
LEMMA Evicted ==
  ASSUME DiskInv, EvictBatch
  PROVE  /\ evictor' = "wait" /\ toEvict' = 0 /\ UNCHANGED <<writeVars, accessVars, closeVars>>
         /\ IsFiniteSet(files') /\ IsFiniteSet(rows') /\ fileCount' \in Nat
<1>1. /\ evictor = "evict" /\ evictor' = "wait" /\ toEvict' = 0
      /\ UNCHANGED <<writeVars, accessVars, closeVars>>
  BY DEF EvictBatch
<1>2. /\ IsFiniteSet(files) /\ IsFiniteSet(rows) /\ fileCount \in Nat /\ toEvict \in Nat
      /\ toEvict <= fileCount - Target
  BY <1>1 DEF DiskInv, Countable, StaleCountIsSafe
<1>3. CASE UNCHANGED store
  BY <1>1, <1>2, <1>3 DEF store
<1>4. CASE \E victims \in SUBSET rows :
             Oldest(toEvict, victims) /\ RemoveVictims(victims) /\ CountEvicted(victims)
  <2>1. PICK victims \in SUBSET rows :
          Oldest(toEvict, victims) /\ RemoveVictims(victims) /\ CountEvicted(victims)
    BY <1>4
  <2>2. PICK kept \in SUBSET victims, stuck \in SUBSET victims :
          files' = files \ (victims \ kept) /\ rows' = rows \ (victims \ stuck)
    BY <2>1 DEF RemoveVictims, DeleteRows
  <2>3. Cardinality(rows) \in Nat /\ Cardinality(victims) \in Nat
    BY <1>2, FS_CardinalityType, FS_Subset
  <2>4. Cardinality(victims) <= Min({toEvict, Cardinality(rows)})
    BY <2>1 DEF Oldest
  <2>5. Cardinality(victims) <= toEvict
    BY <1>2, <2>3, <2>4, MinOfTwo
  <2>6. fileCount' = fileCount - Cardinality(victims) /\ fileCount' \in Nat
    BY <1>2, <2>1, <2>3, <2>5, TargetBelow DEF CountEvicted
  <2>7. IsFiniteSet(files') /\ IsFiniteSet(rows')
    BY <1>2, <2>2, FS_Difference
  <2> QED
    BY <1>1, <2>6, <2>7
<1> QED
  BY <1>3, <1>4 DEF EvictBatch

LEMMA WriteFileInv ==
  ASSUME DiskInv, WriteFile
  PROVE  DiskInv'
<1>1. /\ writing # NoTile /\ writing' = NoTile
      /\ UNCHANGED <<writer, evictor, toEvict, accessor, dbOpen>>
      /\ \/ UNCHANGED <<files, rows, fileCount>>
         \/ /\ files' = files \cup {writing} /\ fileCount' = fileCount + 1
            /\ rows' = rows \cup {writing} \/ rows' = rows
  BY DEF WriteFile, store, evictVars, accessVars, closeVars
<1>2. Countable /\ Cardinality(files) \in Nat
  BY FS_CardinalityType DEF DiskInv, Countable
<1>3. Countable'
  BY <1>1, <1>2, FS_AddElement DEF Countable
<1>4. WorkersGone'
  BY <1>1 DEF DiskInv, WorkersGone
<1>5. StaleCountIsSafe'
  BY <1>1, <1>2, TargetBelow DEF DiskInv, Countable, StaleCountIsSafe, Target
<1> QED
  BY <1>3, <1>4, <1>5 DEF DiskInv

LEMMA EvictionTickInv ==
  ASSUME DiskInv, EvictionTick
  PROVE  DiskInv'
<1>1. /\ evictor = "wait" /\ fileCount > DiskMax /\ toEvict' = fileCount - Target
      /\ UNCHANGED <<writer, writing, files, rows, fileCount, accessor, dbOpen>>
  BY DEF EvictionTick, OverLimit, Excess, writeVars, store, accessVars, closeVars
<1>2. toEvict' \in Nat /\ toEvict' > 0
  BY <1>1, TargetBelow, DiskAssumption DEF DiskInv, Countable
<1> QED
  BY <1>1, <1>2, TargetBelow
  DEF DiskInv, Countable, WorkersGone, StaleCountIsSafe, Target

LEMMA EvictBatchInv ==
  ASSUME DiskInv, EvictBatch
  PROVE  DiskInv'
<1>1. /\ evictor = "evict" /\ evictor' = "wait" /\ toEvict' = 0
      /\ UNCHANGED <<writer, writing, accessor, dbOpen>>
  BY Evicted DEF EvictBatch, writeVars, accessVars, closeVars
<1>2. Countable'
  BY <1>1, Evicted DEF Countable
<1>3. WorkersGone' /\ StaleCountIsSafe'
  BY <1>1 DEF DiskInv, WorkersGone, StaleCountIsSafe
<1> QED
  BY <1>2, <1>3 DEF DiskInv

\* The steps that leave the directory and the counter alone.
LEMMA OtherStepsInv ==
  ASSUME DiskInv,
         \/ CallerStep \/ TakeJob \/ WriterDrains \/ WriterStops \/ EvictorStops
         \/ Access \/ CloseDisk \/ CloseDb
  PROVE  DiskInv'
<1>1. UNCHANGED <<files, rows, fileCount, toEvict>>
  BY DEF CallerStep, TakeJob, WriterDrains, WriterStops, EvictorStops, Access, TakeHits, ApplyHits,
         AccessorStops, CloseDisk, CloseDb, store, evictVars
<1>2. WorkersGone'
  BY DEF CallerStep, TakeJob, WriterDrains, WriterStops, EvictorStops, Access, TakeHits, ApplyHits,
         AccessorStops, CloseDisk, CloseDb, store, writeVars, evictVars, accessVars, closeVars,
         WorkersLeft, DiskInv, WorkersGone
<1>3. evictor' = "evict" => evictor = "evict"
  BY DEF CallerStep, TakeJob, WriterDrains, WriterStops, EvictorStops, Access, TakeHits, ApplyHits,
         AccessorStops, CloseDisk, CloseDb, evictVars
<1> QED
  BY <1>1, <1>2, <1>3 DEF DiskInv, Countable, StaleCountIsSafe, Target

LEMMA DiskInitInv == DiskInit => DiskInv
  BY FS_EmptySet DEF DiskInit, DiskInv, Countable, WorkersGone, StaleCountIsSafe

LEMMA DiskStepInv ==
  ASSUME DiskInv, DiskStep
  PROVE  DiskInv'
  BY WriteFileInv, EvictionTickInv, EvictBatchInv, OtherStepsInv DEF DiskStep, Write, Evict

----------------------------------------------------------------------------
(* The tables of the memory tier.                                          *)

MemTables == lru \in Seq(Tiles) /\ Distinct(lru) /\ cache = Range(lru) /\ pos = cache

\* What the index holds for a key is the one place of that key in the list.
LEMMA Pulled ==
  ASSUME MemTables, NEW k \in Tiles, k \in pos
  PROVE  <<k>> \o Without(k) \in Seq(Tiles) /\ Distinct(<<k>> \o Without(k))
         /\ Range(<<k>> \o Without(k)) = cache
<1> DEFINE p == CHOOSE i \in DOMAIN lru : lru[i] = k
<1>1. lru \in Seq(Tiles) /\ Distinct(lru) /\ k \in Range(lru) /\ cache = Range(lru)
  BY DEF MemTables
<1>2. p \in 1..Len(lru) /\ lru[p] = k
  BY <1>1, InRange, LenProperties
<1> HIDE DEF p
<1>3. Without(k) = RemoveAt(lru, p)
  BY DEF Without, p
<1>4. Without(k) \in Seq(Tiles) /\ Distinct(Without(k)) /\ Range(Without(k)) = cache \ {k}
  BY <1>1, <1>2, <1>3, TakenOut
<1> DEFINE w == Without(k)
<1>5. w \in Seq(Tiles) /\ Distinct(w) /\ Range(w) = cache \ {k} /\ k \in cache
  BY <1>1, <1>4
<1> HIDE DEF w
<1>6. <<k>> \o w \in Seq(Tiles) /\ Distinct(<<k>> \o w) /\ Range(<<k>> \o w) = Range(w) \cup {k}
  BY <1>5, PushedFront
<1> QED
  BY <1>5, <1>6 DEF w

LEMMA MemPutTables ==
  ASSUME MemTables, NEW k \in Tiles, MemPut(k)
  PROVE  MemTables' /\ cache \subseteq cache'
<1>1. CASE MemMax = 0
  BY <1>1 DEF MemPut, tables, MemTables
<1>2. CASE MemMax # 0 /\ k \in pos
  <2>1. cache' = cache \cup {k} /\ pos' = pos \cup {k} /\ lru' = <<k>> \o Without(k)
    BY <1>2 DEF MemPut, Known
  <2> QED
    BY <1>2, <2>1, Pulled DEF MemTables
<1>3. CASE MemMax # 0 /\ k \notin pos
  <2>1. cache' = cache \cup {k} /\ pos' = pos \cup {k} /\ lru' = <<k>> \o lru
    BY <1>3 DEF MemPut, Known
  <2>2. lru \in Seq(Tiles) /\ Distinct(lru) /\ k \notin Range(lru) /\ cache = Range(lru) /\ pos = cache
    BY <1>3 DEF MemTables
  <2>3. lru' \in Seq(Tiles) /\ Distinct(lru') /\ Range(lru') = Range(lru) \cup {k}
    BY <2>1, <2>2, PushedFront
  <2> QED
    BY <2>1, <2>2, <2>3 DEF MemTables
<1> QED
  BY <1>1, <1>2, <1>3

LEMMA MemPromoteTables ==
  ASSUME MemTables, NEW k \in Tiles, MemHit(k), MemPromote(k)
  PROVE  MemTables' /\ cache' = cache
<1>1. k \in pos /\ lru' = <<k>> \o Without(k) /\ UNCHANGED <<cache, pos>>
  BY DEF MemHit, Known, MemPromote
<1> QED
  BY <1>1, Pulled DEF MemTables

LEMMA EvictOldestTables ==
  ASSUME MemTables, EvictOldest
  PROVE  MemTables' /\ evicting' \in Tiles /\ cache = cache' \cup {evicting'}
<1>1. /\ lru # <<>> /\ evicting' = Last(lru)
      /\ cache' = cache \ {Last(lru)} /\ pos' = pos \ {Last(lru)} /\ lru' = Front(lru)
  BY DEF EvictOldest, OverMax, Victim
<1>2. /\ Front(lru) \in Seq(Tiles) /\ Distinct(Front(lru))
      /\ Range(Front(lru)) = Range(lru) \ {Last(lru)} /\ Last(lru) \in Range(lru)
  BY <1>1, LastTaken DEF MemTables
<1>3. Last(lru) \in Tiles
  BY <1>2, RangeOfSeq DEF MemTables
<1> QED
  BY <1>1, <1>2, <1>3 DEF MemTables

LEMMA TablesIndexed == MemTables => MemIndexed
  BY LengthCounts DEF MemIndexed, MemTables

----------------------------------------------------------------------------
(* The queue of the disk tier.                                             *)

LEMMA Enqueued ==
  ASSUME queue \in Seq(Tiles), NEW k \in Tiles, Enqueue(k)
  PROVE  /\ queue' \in Seq(Tiles) /\ Range(queue) \subseteq Range(queue')
         /\ QueueFull \/ k \in Range(queue')
<1>1. CASE QueueFull
  BY <1>1 DEF Enqueue
<1>2. CASE ~QueueFull
  <2> DEFINE t == Append(queue, k)
  <2>1. queue' = t
    BY <1>2 DEF Enqueue
  <2>2. /\ t \in Seq(Tiles) /\ Len(t) = Len(queue) + 1 /\ Len(queue) \in Nat
        /\ \A i \in 1..Len(queue) : t[i] = queue[i]
        /\ t[Len(queue) + 1] = k
    BY AppendProperties, LenProperties
  <2> HIDE DEF t
  <2>3. k \in Range(t)
    <3>1. Len(t) \in 1..Len(t) /\ t[Len(t)] = k
      BY <2>2
    <3> QED
      BY <2>2, <3>1, InRange
  <2>4. ASSUME NEW e \in Range(queue) PROVE e \in Range(t)
    <3>1. PICK i \in 1..Len(queue) : queue[i] = e
      BY <2>4, InRange
    <3>2. i \in 1..Len(t) /\ t[i] = e
      BY <2>2, <3>1
    <3> QED
      BY <2>2, <3>2, InRange
  <2> QED
    BY <2>1, <2>2, <2>3, <2>4
<1> QED
  BY <1>1, <1>2

LEMMA JobTaken ==
  ASSUME queue \in Seq(Tiles), queue # <<>>
  PROVE  /\ Tail(queue) \in Seq(Tiles)
         /\ Range(queue) \subseteq Range(Tail(queue)) \cup {Head(queue)}
<1> DEFINE t == Tail(queue)
<1>1. /\ t \in Seq(Tiles) /\ Len(t) = Len(queue) - 1 /\ Len(queue) \in Nat \ {0}
      /\ \A i \in 1..Len(t) : t[i] = queue[i + 1]
      /\ Head(queue) = queue[1]
  BY HeadTailProperties, EmptySeq
<1> HIDE DEF t
<1>2. ASSUME NEW e \in Range(queue) PROVE e \in Range(t) \cup {Head(queue)}
  <2>1. PICK i \in 1..Len(queue) : queue[i] = e
    BY <1>2, InRange
  <2>2. CASE i = 1
    BY <1>1, <2>1, <2>2
  <2>3. CASE i # 1
    <3>1. i - 1 \in 1..Len(t) /\ t[i - 1] = queue[(i - 1) + 1] /\ (i - 1) + 1 = i
      BY <1>1, <2>3
    <3>2. i - 1 \in 1..Len(t) /\ t[i - 1] = e
      BY <2>1, <3>1
    <3> QED
      BY <1>1, <3>2, InRange
  <2> QED
    BY <2>2, <2>3
<1> QED
  BY <1>1, <1>2 DEF t

----------------------------------------------------------------------------
(* The invariant of the two tiers.                                         *)

\* onEvict has a tile while the sweeper is in it, and the queue holds tiles.
Handing ==
  /\ evicting \in Tiles \cup {NoTile} /\ (evicting # NoTile <=> sweeper = "hand")
  /\ queue \in Seq(Tiles)

\* A request on its way through Get and Set knows its tile.
Asking ==
  /\ pc \in [Requests -> {"new", "disk", "promote", "set", "enqueue", "end"}]
  /\ tile \in [Requests -> Tiles \cup {NoTile}]
  /\ \A q \in Requests : pc[q] \in {"disk", "promote", "set", "enqueue"} => tile[q] \in Tiles

TierInv == MemTables /\ Handing /\ Asking /\ DiskInv

\* What a step may lose: the step part of Preserved.
Loses(k) ==
  \/ evictor = "evict" /\ evictor' = "wait"
  \/ writing = k /\ writing' = NoTile /\ "write" \in Faults
  \/ evicting = k /\ QueueFull

StepKeeps == \A k \in Tiles : Held(k) /\ ~Held(k)' => Loses(k)

\* A step that takes no tile from anywhere.
Grows ==
  /\ cache \subseteq cache' /\ Range(queue) \subseteq Range(queue')
  /\ UNCHANGED <<files, evicting, writing>>

LEMMA GrowsKeeps == Grows => StepKeeps
  BY DEF Grows, StepKeeps, Held

LEMMA NextLabel ==
  ASSUME Asking, NEW q \in Requests, tile[q] \in Tiles,
         NEW l \in {"new", "disk", "promote", "set", "enqueue", "end"}, Goto(q, l)
  PROVE  Asking'
  BY DEF Asking, Goto

LEMMA LookupStep ==
  ASSUME TierInv, NEW q \in Requests, Lookup(q)
  PROVE  MemTables' /\ Handing' /\ Asking' /\ Grows /\ CallerStep
<1>1. PICK k \in Tiles :
        /\ tile' = [tile EXCEPT ![q] = k]
        /\ \/ MemHit(k) /\ MemPromote(k) /\ pc' = [pc EXCEPT ![q] = "end"]
           \/ UNCHANGED tables /\ pc' = [pc EXCEPT ![q] = "disk"]
  BY DEF Lookup
<1>2. UNCHANGED <<sweeper, evicting, diskVars>>
  BY DEF Lookup
<1>3. MemTables' /\ cache' = cache
  BY <1>1, MemPromoteTables DEF TierInv, tables, MemTables
<1>4. Asking'
  BY <1>1 DEF TierInv, Asking
<1> QED
  BY <1>2, <1>3, <1>4 DEF TierInv, Handing, Grows, CallerStep, diskVars, writeVars, accessVars, store

LEMMA DiskLookupStep ==
  ASSUME TierInv, NEW q \in Requests, DiskLookup(q)
  PROVE  MemTables' /\ Handing' /\ Asking' /\ Grows /\ CallerStep
<1>1. UNCHANGED <<memVars, queue, writeVars, store, evictVars, accessor, closeVars>>
  BY DEF DiskLookup
<1>2. tile[q] \in Tiles
  BY DEF DiskLookup, TierInv, Asking
<1>3. Asking'
  BY <1>2, NextLabel DEF DiskLookup, TierInv
<1> QED
  BY <1>1, <1>3 DEF TierInv, MemTables, Handing, Grows, CallerStep, memVars, tables, writeVars, store

LEMMA PutStep ==
  ASSUME TierInv, NEW q \in Requests, Promote(q) \/ SetMemory(q)
  PROVE  MemTables' /\ Handing' /\ Asking' /\ Grows /\ CallerStep
<1>1. MemPut(tile[q]) /\ UNCHANGED <<sweeper, evicting, diskVars>>
  BY DEF Promote, SetMemory
<1>2. tile[q] \in Tiles
  BY DEF Promote, SetMemory, TierInv, Asking
<1>3. Asking'
  BY <1>2, NextLabel DEF Promote, SetMemory, TierInv
<1>4. MemTables' /\ cache \subseteq cache'
  BY <1>1, <1>2, MemPutTables DEF TierInv
<1> QED
  BY <1>1, <1>3, <1>4 DEF TierInv, Handing, Grows, CallerStep, diskVars, writeVars, accessVars, store

LEMMA SetDiskStep ==
  ASSUME TierInv, NEW q \in Requests, SetDisk(q)
  PROVE  MemTables' /\ Handing' /\ Asking' /\ Grows /\ CallerStep
<1>1. /\ Enqueue(tile[q])
      /\ UNCHANGED <<memVars, writeVars, store, evictVars, accessVars, closeVars>>
  BY DEF SetDisk
<1>2. tile[q] \in Tiles
  BY DEF SetDisk, TierInv, Asking
<1>3. Asking'
  BY <1>2, NextLabel DEF SetDisk, TierInv
<1>4. queue' \in Seq(Tiles) /\ Range(queue) \subseteq Range(queue')
  BY <1>1, <1>2, Enqueued DEF TierInv, Handing
<1> QED
  BY <1>1, <1>3, <1>4
  DEF TierInv, MemTables, Handing, Grows, CallerStep, memVars, tables, writeVars, store, accessVars

\* The sweeper, which leaves everything below the memory tier alone but in onEvict.
LEMMA SweepStep ==
  ASSUME TierInv, Tick \/ SweepTurn \/ SweepStop
  PROVE  MemTables' /\ Handing' /\ Asking' /\ StepKeeps /\ CallerStep
<1>1. UNCHANGED <<diskVars, pc, tile>>
  BY DEF Tick, SweepTurn, SweepStop, reqVars
<1>2. Asking' /\ CallerStep
  BY <1>1 DEF TierInv, Asking, CallerStep, diskVars, accessVars
<1>3. UNCHANGED <<queue, files, writing>>
  BY <1>1 DEF diskVars, store, writeVars
<1>4. CASE EvictOldest
  <2>1. MemTables' /\ evicting' \in Tiles /\ cache = cache' \cup {evicting'}
    BY <1>4, EvictOldestTables DEF TierInv
  <2>2. sweeper = "sweep" /\ sweeper' = "hand"
    BY <1>4 DEF EvictOldest
  <2>3. evicting = NoTile
    BY <2>2 DEF TierInv, Handing
  <2>4. Handing'
    BY <1>3, <2>1, <2>2, TilesAssumption DEF TierInv, Handing
  <2>5. StepKeeps
    BY <1>3, <2>1, <2>3, TilesAssumption DEF StepKeeps, Held
  <2> QED
    BY <1>2, <2>1, <2>4, <2>5
<1>5. CASE SweepTick \/ SweepEnd \/ SweeperStops
  <2>1. UNCHANGED <<tables, evicting>> /\ sweeper # "hand" /\ sweeper' # "hand"
    BY <1>5 DEF SweepTick, SweepEnd, SweeperStops
  <2>2. MemTables' /\ Handing'
    BY <1>3, <2>1 DEF TierInv, MemTables, Handing, tables
  <2>3. Grows
    BY <1>3, <2>1 DEF Grows, tables
  <2> QED
    BY <1>2, <2>2, <2>3, GrowsKeeps
<1> QED
  BY <1>4, <1>5 DEF Tick, SweepTurn, SweepStop

LEMMA HandOverStep ==
  ASSUME TierInv, HandOver
  PROVE  MemTables' /\ Handing' /\ Asking' /\ StepKeeps /\ CallerStep
<1>1. /\ sweeper = "hand" /\ sweeper' = "sweep" /\ evicting' = NoTile /\ UNCHANGED tables
      /\ Enqueue(evicting)
      /\ UNCHANGED <<writeVars, store, evictVars, accessVars, closeVars, reqVars>>
  BY DEF HandOver, Handed, Cascade
<1>2. evicting \in Tiles
  BY <1>1 DEF TierInv, Handing
<1>3. /\ queue' \in Seq(Tiles) /\ Range(queue) \subseteq Range(queue')
      /\ QueueFull \/ evicting \in Range(queue')
  BY <1>1, <1>2, Enqueued DEF TierInv, Handing
<1>4. MemTables' /\ Handing' /\ Asking' /\ CallerStep
  BY <1>1, <1>3 DEF TierInv, MemTables, Handing, Asking, CallerStep, tables, reqVars, accessVars
<1>5. UNCHANGED <<cache, files, writing>>
  BY <1>1 DEF tables, store, writeVars
<1>6. StepKeeps
  BY <1>1, <1>3, <1>5 DEF StepKeeps, Held, Loses
<1> QED
  BY <1>4, <1>6

\* The workers and Close of the disk tier.
LEMMA DiskTierStep ==
  ASSUME TierInv, DoWrite \/ DoEvict \/ DoAccess \/ StartCloseDisk \/ EndCloseDisk
  PROVE  MemTables' /\ Handing' /\ Asking' /\ StepKeeps /\ DiskStep
<1>1. UNCHANGED <<memVars, reqVars>> /\ (Write \/ Evict \/ Access \/ CloseDisk \/ CloseDb)
  BY DEF DoWrite, DoEvict, DoAccess, StartCloseDisk, EndCloseDisk
<1>2. UNCHANGED <<cache, pos, lru, sweeper, evicting, pc, tile>>
  BY <1>1 DEF memVars, tables, reqVars
<1>3. MemTables' /\ Asking' /\ DiskStep
  BY <1>1, <1>2 DEF TierInv, MemTables, Asking, DiskStep
<1>4. CASE TakeJob
  <2>1. /\ writing = NoTile /\ queue # <<>> /\ writing' = Head(queue) /\ queue' = Tail(queue)
        /\ files' = files
    BY <1>4 DEF TakeJob, store
  <2>2. queue' \in Seq(Tiles) /\ Range(queue) \subseteq Range(queue') \cup {writing'}
    BY <2>1, JobTaken DEF TierInv, Handing
  <2>3. StepKeeps
    BY <1>2, <2>1, <2>2, TilesAssumption DEF StepKeeps, Held
  <2> QED
    BY <1>2, <1>3, <2>2, <2>3 DEF TierInv, Handing
<1>5. CASE WriteFile
  <2>1. /\ writing' = NoTile /\ queue' = queue
        /\ files' = files \cup {writing} \/ ("write" \in Faults /\ files' = files)
    BY <1>5 DEF WriteFile, store
  <2>2. StepKeeps
    BY <1>2, <2>1, TilesAssumption DEF StepKeeps, Held, Loses
  <2> QED
    BY <1>2, <1>3, <2>1, <2>2 DEF TierInv, Handing
<1>6. CASE EvictBatch
  <2>1. evictor = "evict" /\ evictor' = "wait" /\ queue' = queue
    BY <1>6 DEF EvictBatch
  <2>2. StepKeeps
    BY <2>1 DEF StepKeeps, Loses
  <2> QED
    BY <1>2, <1>3, <2>1, <2>2 DEF TierInv, Handing
<1>7. CASE \/ WriterDrains \/ WriterStops \/ EvictionTick \/ EvictorStops
           \/ Access \/ CloseDisk \/ CloseDb
  <2>1. UNCHANGED <<queue, files, writing>>
    BY <1>7 DEF WriterDrains, WriterStops, EvictionTick, EvictorStops, Access, TakeHits, ApplyHits,
                AccessorStops, CloseDisk, CloseDb, store, writeVars
  <2>2. Grows
    BY <1>2, <2>1 DEF Grows
  <2> QED
    BY <1>2, <1>3, <2>1, <2>2, GrowsKeeps DEF TierInv, Handing
<1> QED
  BY <1>1, <1>4, <1>5, <1>6, <1>7 DEF Write, Evict

\* The shutdown of the server and of the memory tier, and steps that change nothing.
LEMMA QuietStep ==
  ASSUME TierInv, ShutdownServer \/ CloseMemory \/ UNCHANGED vars
  PROVE  MemTables' /\ Handing' /\ Asking' /\ StepKeeps /\ CallerStep
<1>1. UNCHANGED <<tables, sweeper, evicting, diskVars, reqVars>>
  BY DEF ShutdownServer, CloseMemory, MemClose, vars, memVars
<1>2. MemTables' /\ Handing' /\ Asking'
  BY <1>1 DEF TierInv, MemTables, Handing, Asking, tables, reqVars, diskVars
<1>3. Grows /\ CallerStep
  BY <1>1 DEF Grows, CallerStep, tables, diskVars, store, writeVars, accessVars
<1> QED
  BY <1>2, <1>3, GrowsKeeps

LEMMA TierStep ==
  ASSUME TierInv, [Next]_vars
  PROVE  TierInv' /\ StepKeeps /\ DiskStep
<1>1. MemTables' /\ Handing' /\ Asking' /\ StepKeeps /\ DiskStep
  BY LookupStep, DiskLookupStep, PutStep, SetDiskStep, GrowsKeeps, SweepStep, HandOverStep,
     DiskTierStep, QuietStep
  DEF Next, Handle, DiskStep
<1> QED
  BY <1>1, DiskStepInv DEF TierInv

LEMMA TierInit == Init => TierInv
<1> SUFFICES ASSUME Init PROVE TierInv
  OBVIOUS
<1>1. MemTables
  <2>1. lru = <<>> /\ cache = {} /\ pos = {}
    BY DEF Init, MemInit
  <2>2. lru \in Seq(Tiles) /\ lru \in Seq({}) /\ Len(lru) = 0
    BY <2>1, EmptySeq
  <2>3. Range(lru) = {}
    <3>1. ASSUME NEW e \in Range(lru) PROVE FALSE
      <4>1. PICK i \in 1..Len(lru) : lru[i] = e
        BY <2>2, <3>1, InRange
      <4> QED
        BY <2>2, <4>1
    <3> QED
      BY <3>1
  <2> QED
    BY <2>1, <2>2, <2>3 DEF MemTables, Distinct
<1>2. Handing
  BY DEF Init, MemInit, DiskInit, Handing
<1>3. Asking
  BY TilesAssumption DEF Init, Asking
<1> QED
  BY <1>1, <1>2, <1>3, DiskInitInv DEF Init, TierInv

----------------------------------------------------------------------------

\* The invariant of both tiers, for every number of tiles and requests and all limits.
THEOREM TierInvariant == Spec => []TierInv
<1>1. TierInv /\ [Next]_vars => TierInv'
  BY TierStep
<1> QED
  BY <1>1, TierInit, PTL DEF Spec

(* The three tables of the memory tier stay in step, whatever requests and *)
(* the sweep, which gives the lock away, do between each other's steps.    *)
THEOREM TablesInStep == Spec => []MemIndexed
<1>1. TierInv => MemIndexed
  BY TablesIndexed DEF TierInv
<1> QED
  BY <1>1, TierInvariant, PTL

(* What the evictor decided under the read lock is no more than the excess *)
(* by the time it holds the write lock.                                    *)
THEOREM StaleCountHarmless == Spec => []StaleCountIsSafe
<1>1. TierInv => StaleCountIsSafe
  BY DEF TierInv, DiskInv
<1> QED
  BY <1>1, TierInvariant, PTL

(* The database is closed when the last worker that uses it has left.      *)
THEOREM DatabaseClosedLast == Spec => []DbClosedLast
<1>1. TierInv => DbClosedLast
  BY DEF TierInv, DiskInv, WorkersGone, DbClosedLast
<1> QED
  BY <1>1, TierInvariant, PTL

(* A tile on its way down from memory to disk is somewhere at every moment *)
(* until an eviction, a failed write or a full queue takes it.             *)
THEOREM NothingLostOnTheWay == Spec => Preserved
<1>1. TierInv /\ [Next]_vars =>
        [\A k \in Tiles : Held(k) /\ ~Held(k)' =>
           \/ evictor = "evict" /\ evictor' = "wait"
           \/ writing = k /\ writing' = NoTile /\ "write" \in Faults
           \/ evicting = k /\ QueueFull]_vars
  BY TierStep DEF StepKeeps, Loses
<1> QED
  BY <1>1, TierInvariant, PTL DEF Spec, Preserved
=============================================================================
