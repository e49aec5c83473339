------------------------------ MODULE DirCache ------------------------------
(***************************************************************************)
(* internal/pmtiles/reader.go, dirCache: an LRU of decoded leaf            *)
(* directories bounded by the total number of entries, with one load in    *)
(* flight per key.  get has two critical sections of c.mu around an        *)
(* unlocked load; waiters block on the flight's WaitGroup.                 *)
(*                                                                         *)
(* A directory is identified with the key it was loaded for and is worth   *)
(* Size[key] entries.  A flight is the object a loader allocates.          *)
(***************************************************************************)
EXTENDS Integers, Sequences, SequencesExt, FiniteSetsExt

CONSTANTS
  Readers,   \* goroutines calling get
  Keys,      \* offsets of leaf directories
  Size,      \* number of entries of the directory at each key, possibly 0
  Budget,    \* c.budget
  Flights,   \* identities of flights
  NoKey, NoFlight, Pending, Failed

ASSUME DirCacheAssumption ==
  /\ Size \in [Keys -> Nat] /\ Budget \in Nat
  /\ {NoKey, Pending, Failed} \cap Keys = {} /\ Pending # Failed
  /\ NoFlight \notin Flights

VARIABLES
  order,     \* c.order, most recently used first: the keys of its items
  items,     \* the keys of c.items
  used,      \* c.used
  inflight,  \* c.inflight
  result,    \* flight.dir and flight.err: Pending, Failed or the key loaded
  done,      \* the flight's WaitGroup is at zero
  pc,        \* where each reader is
  want,      \* the key each reader asks for
  flight     \* the flight each reader owns or waits for

cacheVars == <<order, items, used>>
dirVars == <<cacheVars, inflight, result, done, pc, want, flight>>

Outcomes == Keys \cup {Pending, Failed}

(* Types of the fields of dirCache and of the readers inside get.          *)
DirTypeOK ==
  /\ order \in Seq(Keys) /\ items \subseteq Keys /\ used \in Nat
  /\ inflight \in [Keys -> Flights \cup {NoFlight}]
  /\ result \in [Flights -> Outcomes] /\ done \in [Flights -> BOOLEAN]
  /\ pc \in [Readers -> {"idle", "load", "store", "release", "wait"}]
  /\ want \in [Readers -> Keys \cup {NoKey}]
  /\ flight \in [Readers -> Flights \cup {NoFlight}]

DirInit ==
  /\ order = <<>> /\ items = {} /\ used = 0
  /\ inflight = [k \in Keys |-> NoFlight]
  /\ result = [f \in Flights |-> Pending] /\ done = [f \in Flights |-> TRUE]
  /\ pc = [r \in Readers |-> "idle"]
  /\ want = [r \in Readers |-> NoKey]
  /\ flight = [r \in Readers |-> NoFlight]

Entries(S) == MapThenSumSet(LAMBDA k : Size[k], S)

\* A flight nobody refers to any more.
Fresh(f) ==
  /\ \A k \in Keys : inflight[k] # f
  /\ \A r \in Readers : flight[r] # f

Move(r, label, k, f) ==
  /\ pc' = [pc EXCEPT ![r] = label]
  /\ want' = [want EXCEPT ![r] = k]
  /\ flight' = [flight EXCEPT ![r] = f]

\* c.order without the element that c.items holds for k.
Others(k) == RemoveAt(order, CHOOSE i \in DOMAIN order : order[i] = k)

\* get finds the directory cached and makes it the most recently used one.
Hit(r, k) ==
  /\ pc[r] = "idle" /\ k \in items
  /\ order' = <<k>> \o Others(k)
  /\ UNCHANGED <<items, used, inflight, result, done, pc, want, flight>>

\* Mutant: a second reader of a key that is being loaded starts its own load.
NeverJoins(k) == FALSE
InFlight(k)   == inflight[k] # NoFlight

\* get joins the load that is in flight.
Join(r, k) ==
  /\ pc[r] = "idle" /\ k \notin items /\ InFlight(k)
  /\ Move(r, "wait", k, inflight[k])
  /\ UNCHANGED <<cacheVars, inflight, result, done>>

\* wg.Add: who joins the flight has to wait.
Add(f) == done' = [done EXCEPT ![f] = FALSE]

\* get starts a flight of its own; load runs without the lock.
StartLoad(r, k) ==
  /\ pc[r] = "idle" /\ k \notin items /\ ~InFlight(k)
  /\ \E f \in Flights :
       /\ Fresh(f)
       /\ inflight' = [inflight EXCEPT ![k] = f]
       /\ Add(f)
       /\ Move(r, "load", k, f)
  /\ UNCHANGED <<cacheVars, result>>

\* load: the read, the decompression or the parse may fail.
Load(r, outcome) ==
  /\ pc[r] = "load" /\ outcome \in {want[r], Failed}
  /\ result' = [result EXCEPT ![flight[r]] = outcome]
  /\ Move(r, "store", want[r], flight[r])
  /\ UNCHANGED <<cacheVars, inflight, done>>

\* The eviction loop: how many of the n newest of o stay when u entries are used.
Kept(o, u) ==
  Max({n \in 1..Len(o) : n = 1 \/ u - Entries(Range(SubSeq(o, n + 1, Len(o)))) <= Budget})

\* Mutant: c.used is not reduced by what is evicted.
UsedOfAll(u, evicted) == u
UsedAfter(u, evicted) == u - Entries(evicted)

\* A loaded directory goes to the front, then the oldest go until the budget holds.
Insert(k) ==
  LET o == <<k>> \o order
      u == used + Size[k]
      n == Kept(o, u)
      evicted == Range(SubSeq(o, n + 1, Len(o)))
  IN /\ order' = SubSeq(o, 1, n)
     /\ items' = (items \cup {k}) \ evicted
     /\ used' = UsedAfter(u, evicted)

\* Mutant: a failed flight is left in c.inflight.
ForgetsLoaded(k, res) == inflight' = IF res = Failed THEN inflight
                                     ELSE [inflight EXCEPT ![k] = NoFlight]
LandFlight(k, res)    == inflight' = [inflight EXCEPT ![k] = NoFlight]

Loaded(res) == res # Failed

\* The second critical section: the flight lands, a loaded directory is cached.
Store(r) ==
  /\ pc[r] = "store"
  /\ LandFlight(want[r], result[flight[r]])
  /\ IF Loaded(result[flight[r]]) THEN Insert(want[r]) ELSE UNCHANGED cacheVars
  /\ Move(r, "release", want[r], flight[r])
  /\ UNCHANGED <<result, done>>

\* Mutant: only a successful load releases its waiters.
ReleasesLoaded(f) == done' = [done EXCEPT ![f] = result[f] # Failed]
Release(f)        == done' = [done EXCEPT ![f] = TRUE]

\* r leaves get; its flight is forgotten with the last reader that refers to it.
Leave(r) ==
  /\ Move(r, "idle", NoKey, NoFlight)
  /\ result' = IF \E s \in Readers \ {r} : flight[s] = flight[r] THEN result
               ELSE [result EXCEPT ![flight[r]] = Pending]
  /\ UNCHANGED <<cacheVars, inflight>>

\* wg.Done, and the loader returns.
Return(r) == pc[r] = "release" /\ Release(flight[r]) /\ Leave(r)

\* A waiter is released and returns what the flight holds.
Wake(r) ==
  /\ pc[r] = "wait" /\ done[flight[r]]
  /\ Leave(r) /\ UNCHANGED done

DirNext ==
  \E r \in Readers :
    \/ \E k \in Keys : Hit(r, k) \/ Join(r, k) \/ StartLoad(r, k)
    \/ \E outcome \in Outcomes : Load(r, outcome)
    \/ Store(r) \/ Return(r) \/ Wake(r)

DirSpec == DirInit /\ [][DirNext]_dirVars

----------------------------------------------------------------------------
(* Properties.                                                             *)

Loading(r) == pc[r] \in {"load", "store"}

(* The recency list and the map hold the same keys, none twice, and c.used *)
(* is what they weigh, so that eviction takes what is there and ends; and  *)
(* it never exceeds the budget, except by a single directory that is       *)
(* larger than the budget on its own (reader.go, dirCache: "bounded by the *)
(* total number of entries").                                              *)
Accounted ==
  /\ Range(order) = items /\ Len(order) = Cardinality(items)
  /\ used = Entries(items)
  /\ used <= Budget \/ Len(order) = 1

(* At most one goroutine loads a directory, and never one that is already  *)
(* cached: its insertion would put the key in the list twice (leaf:        *)
(* "concurrent requests for the same leaf share one read").                *)
SingleFlight ==
  /\ \A r, s \in Readers :
       r # s /\ Loading(r) /\ Loading(s) => want[r] # want[s]
  /\ \A r \in Readers : Loading(r) => want[r] \notin items

(* What a waiter gets is the directory it asked for, or the error of that  *)
(* very load, even when the flight has landed and the key is being loaded  *)
(* again by somebody else; until then a loader is on its way to release    *)
(* it, so that no waiter is left behind by a failure or an eviction.       *)
WaitersGetTheirs ==
  \A r \in Readers : pc[r] = "wait" =>
    /\ done[flight[r]] => result[flight[r]] \in {want[r], Failed}
    /\ ~done[flight[r]] =>
         \E s \in Readers : /\ flight[s] = flight[r] /\ want[s] = want[r]
                            /\ pc[s] \in {"load", "store", "release"}
=============================================================================
