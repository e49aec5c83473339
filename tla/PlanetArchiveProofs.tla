------------------------ MODULE PlanetArchiveProofs ------------------------
(***************************************************************************)
(* What holds of the planet archive for every set of releases, archives    *)
(* and requests.  In this order: the cache of leaf directories alone; the  *)
(* load of a release; that requests use the cache as DirCache says, so     *)
(* that its theorems hold here; the format, and that Tile reads what Build *)
(* writes; that requests are served what is stored, and fail for a reason. *)
(***************************************************************************)
EXTENDS PlanetArchive, CollectionLemmas

----------------------------------------------------------------------------
(* The leaf directory cache and its concurrent readers, for any number of  *)
(* readers, keys and flights, whatever the sizes and the budget.           *)

\* The part of DirTypeOK about flights and readers.
FlightTypes ==
  /\ items \subseteq Keys
  /\ inflight \in [Keys -> Flights \cup {NoFlight}]
  /\ result \in [Flights -> Outcomes] /\ done \in [Flights -> BOOLEAN]
  /\ pc \in [Readers -> {"idle", "load", "store", "release", "wait"}]
  /\ want \in [Readers -> Keys \cup {NoKey}]
  /\ flight \in [Readers -> Flights \cup {NoFlight}]

\* The reader that started its flight and has not released it yet.
Owner(r) == pc[r] \in {"load", "store", "release"}

\* A reader inside get has a key and a flight.
InGet == \A r \in Readers : pc[r] # "idle" => want[r] \in Keys /\ flight[r] \in Flights

\* A flight has one owner and is not done before the owner says so.
OneOwner ==
  /\ \A r, s \in Readers : r # s /\ Owner(r) /\ Owner(s) => flight[r] # flight[s]
  /\ \A r \in Readers : Owner(r) => ~done[flight[r]]

\* c.inflight is the flights of the readers that are loading.
InflightIsLoading ==
  /\ \A r \in Readers : Loading(r) => inflight[want[r]] = flight[r]
  /\ \A k \in Keys : inflight[k] # NoFlight =>
       \E r \in Readers : Loading(r) /\ want[r] = k /\ flight[r] = inflight[k]

\* After the load the flight has its outcome.
HasOutcome ==
  \A r \in Readers : pc[r] \in {"store", "release"} => result[flight[r]] \in {want[r], Failed}

NotCached == \A r \in Readers : Loading(r) => want[r] \notin items

FlightInv ==
  /\ FlightTypes /\ InGet /\ OneOwner /\ InflightIsLoading /\ HasOutcome /\ NotCached
  /\ WaitersGetTheirs

\* A reader that moves, and the others.
LEMMA Moved ==
  ASSUME FlightTypes, NEW r \in Readers, NEW label, NEW k, NEW f, Move(r, label, k, f)
  PROVE  /\ pc'[r] = label /\ want'[r] = k /\ flight'[r] = f
         /\ \A s \in Readers \ {r} : pc'[s] = pc[s] /\ want'[s] = want[s] /\ flight'[s] = flight[s]
  BY DEF FlightTypes, Move

LEMMA MovedTypes ==
  ASSUME FlightTypes, NEW r \in Readers, NEW label, NEW k, NEW f, Move(r, label, k, f),
         label \in {"idle", "load", "store", "release", "wait"},
         k \in Keys \cup {NoKey}, f \in Flights \cup {NoFlight}
  PROVE  /\ pc' \in [Readers -> {"idle", "load", "store", "release", "wait"}]
         /\ want' \in [Readers -> Keys \cup {NoKey}]
         /\ flight' \in [Readers -> Flights \cup {NoFlight}]
  BY DEF FlightTypes, Move

\* The flights in c.inflight are those of different keys.
LEMMA OneKey ==
  ASSUME FlightInv, NEW k \in Keys, NEW l \in Keys, inflight[k] # NoFlight, inflight[k] = inflight[l]
  PROVE  k = l
<1>1. PICK r \in Readers : Loading(r) /\ want[r] = k /\ flight[r] = inflight[k]
  BY DEF FlightInv, InflightIsLoading
<1>2. PICK s \in Readers : Loading(s) /\ want[s] = l /\ flight[s] = inflight[l]
  BY DEF FlightInv, InflightIsLoading
<1>3. r = s
  BY <1>1, <1>2 DEF FlightInv, OneOwner, Owner, Loading
<1> QED
  BY <1>1, <1>2, <1>3

\* Who waits for a flight that has an owner asked for the owner's key.
LEMMA SameWant ==
  ASSUME FlightInv, NEW r \in Readers, Owner(r),
         NEW s \in Readers, pc[s] = "wait", flight[s] = flight[r]
  PROVE  want[s] = want[r]
<1>1. PICK o \in Readers : flight[o] = flight[s] /\ want[o] = want[s] /\ Owner(o)
  BY DEF FlightInv, OneOwner, WaitersGetTheirs, Owner
<1> QED
  BY <1>1 DEF FlightInv, OneOwner

LEMMA HitInv ==
  ASSUME FlightInv, NEW r \in Readers, NEW k \in Keys, Hit(r, k)
  PROVE  FlightInv'
  BY DEF Hit, FlightInv, FlightTypes, InGet, OneOwner, Owner, InflightIsLoading, Loading,
         HasOutcome, NotCached, WaitersGetTheirs

LEMMA JoinInv ==
  ASSUME FlightInv, NEW r \in Readers, NEW k \in Keys, Join(r, k)
  PROVE  FlightInv'
<1>1. /\ pc[r] = "idle" /\ inflight[k] # NoFlight /\ inflight[k] \in Flights
      /\ Move(r, "wait", k, inflight[k])
      /\ UNCHANGED <<items, inflight, result, done>>
  BY DEF Join, InFlight, FlightInv, FlightTypes, cacheVars
<1>2. /\ pc'[r] = "wait" /\ want'[r] = k /\ flight'[r] = inflight[k]
      /\ \A s \in Readers \ {r} : pc'[s] = pc[s] /\ want'[s] = want[s] /\ flight'[s] = flight[s]
  BY <1>1, Moved DEF FlightInv
<1>3. FlightTypes'
  BY <1>1, MovedTypes DEF FlightInv, FlightTypes
<1>4. InGet' /\ OneOwner' /\ HasOutcome' /\ NotCached'
  BY <1>1, <1>2 DEF FlightInv, InGet, OneOwner, Owner, HasOutcome, NotCached, Loading
<1>5. PICK o \in Readers : Loading(o) /\ want[o] = k /\ flight[o] = inflight[k]
  BY <1>1 DEF FlightInv, InflightIsLoading
<1>6. InflightIsLoading'
  BY <1>1, <1>2 DEF FlightInv, InflightIsLoading, Loading
<1>7. WaitersGetTheirs'
  <2> SUFFICES ASSUME NEW s \in Readers, pc'[s] = "wait"
               PROVE  /\ done'[flight'[s]] => result'[flight'[s]] \in {want'[s], Failed}
                      /\ ~done'[flight'[s]] =>
                           \E u \in Readers : /\ flight'[u] = flight'[s] /\ want'[u] = want'[s]
                                              /\ pc'[u] \in {"load", "store", "release"}
    BY DEF WaitersGetTheirs
  <2>1. CASE s = r
    <3>1. ~done[flight[o]] /\ o # r
      BY <1>1, <1>5 DEF FlightInv, OneOwner, Owner, Loading
    <3>2. flight'[o] = flight'[s] /\ want'[o] = want'[s] /\ pc'[o] \in {"load", "store"}
      BY <1>2, <1>5, <2>1, <3>1 DEF Loading
    <3> QED
      BY <1>1, <1>2, <1>5, <2>1, <3>1, <3>2
  <2>2. CASE s # r
    <3>1. pc[s] = "wait" /\ flight'[s] = flight[s] /\ want'[s] = want[s]
      BY <1>2, <2>2
    <3>2. ASSUME NEW u \in Readers, pc[u] \in {"load", "store", "release"}
          PROVE  pc'[u] = pc[u] /\ flight'[u] = flight[u] /\ want'[u] = want[u]
      BY <1>1, <1>2, <3>2
    <3> QED
      BY <1>1, <3>1, <3>2 DEF FlightInv, WaitersGetTheirs
  <2> QED
    BY <2>1, <2>2
<1> QED
  BY <1>3, <1>4, <1>6, <1>7 DEF FlightInv

LEMMA StartLoadInv ==
  ASSUME FlightInv, NEW r \in Readers, NEW k \in Keys, StartLoad(r, k)
  PROVE  FlightInv'
<1>1. PICK f \in Flights : /\ Fresh(f) /\ inflight' = [inflight EXCEPT ![k] = f]
                           /\ done' = [done EXCEPT ![f] = FALSE]
                           /\ Move(r, "load", k, f)
  BY DEF StartLoad, Add
<1>2. pc[r] = "idle" /\ k \notin items /\ inflight[k] = NoFlight /\ UNCHANGED <<items, result>>
  BY DEF StartLoad, InFlight, cacheVars
<1>3. /\ pc'[r] = "load" /\ want'[r] = k /\ flight'[r] = f
      /\ \A s \in Readers \ {r} : pc'[s] = pc[s] /\ want'[s] = want[s] /\ flight'[s] = flight[s]
  BY <1>1, Moved DEF FlightInv
<1>4. FlightTypes'
  BY <1>1, <1>2, MovedTypes DEF FlightInv, FlightTypes
<1>5. /\ inflight'[k] = f /\ \A l \in Keys \ {k} : inflight'[l] = inflight[l]
      /\ ~done'[f] /\ \A g \in Flights \ {f} : done'[g] = done[g]
  BY <1>1 DEF FlightInv, FlightTypes
<1>6. (\A l \in Keys : inflight[l] # f) /\ \A s \in Readers : flight[s] # f
  BY <1>1 DEF Fresh
<1>7. InGet' /\ OneOwner' /\ HasOutcome'
  BY <1>2, <1>3, <1>5, <1>6 DEF FlightInv, InGet, OneOwner, Owner, HasOutcome
<1>8. ASSUME NEW s \in Readers, s # r, Loading(s) PROVE want[s] \in Keys \ {k}
  <2>1. want[s] \in Keys /\ flight[s] \in Flights /\ inflight[want[s]] = flight[s]
    BY <1>8 DEF FlightInv, InGet, InflightIsLoading, Loading
  <2> QED
    BY <1>2, <2>1, DirCacheAssumption
<1>9. InflightIsLoading' /\ NotCached'
  <2>1. \A s \in Readers \ {r} : (Loading(s))' => Loading(s)
    BY <1>3 DEF Loading
  <2>2. \A s \in Readers : (Loading(s))' => inflight'[want'[s]] = flight'[s]
    BY <1>3, <1>5, <1>8, <2>1 DEF FlightInv, InflightIsLoading
  <2>3. ASSUME NEW l \in Keys, inflight'[l] # NoFlight
        PROVE  \E s \in Readers : (Loading(s))' /\ want'[s] = l /\ flight'[s] = inflight'[l]
    <3>1. CASE l = k
      BY <1>3, <1>5, <3>1 DEF Loading
    <3>2. CASE l # k
      <4>1. PICK s \in Readers : Loading(s) /\ want[s] = l /\ flight[s] = inflight[l]
        BY <1>5, <2>3, <3>2 DEF FlightInv, InflightIsLoading
      <4>2. s # r
        BY <1>2, <4>1 DEF Loading
      <4> QED
        BY <1>3, <1>5, <3>2, <4>1, <4>2 DEF Loading
    <3> QED
      BY <3>1, <3>2
  <2>4. NotCached'
    BY <1>2, <1>3, <2>1 DEF FlightInv, NotCached, Loading
  <2> QED
    BY <2>2, <2>3, <2>4 DEF InflightIsLoading
<1>10. WaitersGetTheirs'
  <2>1. ASSUME NEW u \in Readers, pc[u] # "idle"
        PROVE  u # r /\ pc'[u] = pc[u] /\ flight'[u] = flight[u] /\ want'[u] = want[u]
    BY <1>2, <1>3, <2>1
  <2>2. ASSUME NEW s \in Readers, pc'[s] = "wait"
        PROVE  /\ pc[s] = "wait" /\ s # r /\ flight'[s] = flight[s] /\ want'[s] = want[s]
               /\ done'[flight[s]] = done[flight[s]]
    BY <1>3, <1>5, <1>6, <2>2 DEF FlightInv, InGet
  <2> QED
    BY <1>2, <2>1, <2>2 DEF FlightInv, WaitersGetTheirs
<1> QED
  BY <1>4, <1>7, <1>9, <1>10 DEF FlightInv

LEMMA LoadInv ==
  ASSUME FlightInv, NEW r \in Readers, NEW outcome \in Outcomes, Load(r, outcome)
  PROVE  FlightInv'
<1>1. /\ pc[r] = "load" /\ outcome \in {want[r], Failed}
      /\ result' = [result EXCEPT ![flight[r]] = outcome]
      /\ Move(r, "store", want[r], flight[r])
      /\ UNCHANGED <<items, inflight, done>>
  BY DEF Load, cacheVars
<1>2. want[r] \in Keys /\ flight[r] \in Flights
  BY <1>1 DEF FlightInv, InGet
<1>3. /\ pc'[r] = "store" /\ want' = want /\ flight' = flight
      /\ \A s \in Readers \ {r} : pc'[s] = pc[s]
  BY <1>1, Moved DEF FlightInv, FlightTypes, Move
<1>4. FlightTypes'
  BY <1>1, <1>2, MovedTypes DEF FlightInv, FlightTypes
<1>5. /\ result'[flight[r]] = outcome
      /\ \A g \in Flights \ {flight[r]} : result'[g] = result[g]
  BY <1>1, <1>2 DEF FlightInv, FlightTypes
<1>6. InGet' /\ OneOwner' /\ InflightIsLoading' /\ NotCached'
  BY <1>1, <1>3 DEF FlightInv, InGet, OneOwner, Owner, InflightIsLoading, NotCached, Loading
<1>7. HasOutcome'
  BY <1>1, <1>3, <1>5 DEF FlightInv, HasOutcome, OneOwner, Owner, InGet
<1>8. WaitersGetTheirs'
  <2>1. ~done[flight[r]]
    BY <1>1 DEF FlightInv, OneOwner, Owner
  <2>2. \A u \in Readers : /\ pc[u] \in {"load", "store", "release"}
                              <=> pc'[u] \in {"load", "store", "release"}
                           /\ pc[u] = "wait" <=> pc'[u] = "wait"
    BY <1>1, <1>3
  <2>3. \A s \in Readers : pc[s] = "wait" => flight[s] \in Flights
    BY DEF FlightInv, InGet
  <2> QED
    BY <1>1, <1>3, <1>5, <2>1, <2>2, <2>3 DEF FlightInv, WaitersGetTheirs
<1> QED
  BY <1>4, <1>6, <1>7, <1>8 DEF FlightInv

\* What Store does to the keys of the cache, whatever it evicts.
LEMMA StoredItems ==
  ASSUME NEW r \in Readers, Store(r)
  PROVE  items' \subseteq items \cup {want[r]}
  BY DEF Store, Insert, cacheVars

LEMMA StoreInv ==
  ASSUME FlightInv, NEW r \in Readers, Store(r)
  PROVE  FlightInv'
<1>1. /\ pc[r] = "store" /\ inflight' = [inflight EXCEPT ![want[r]] = NoFlight]
      /\ Move(r, "release", want[r], flight[r])
      /\ UNCHANGED <<result, done>>
  BY DEF Store, LandFlight
<1>2. want[r] \in Keys /\ flight[r] \in Flights
  BY <1>1 DEF FlightInv, InGet
<1>3. /\ pc'[r] = "release" /\ want' = want /\ flight' = flight
      /\ \A s \in Readers \ {r} : pc'[s] = pc[s]
  BY <1>1, Moved DEF FlightInv, FlightTypes, Move
<1>4. items' \subseteq items \cup {want[r]}
  BY StoredItems
<1>5. FlightTypes'
  BY <1>1, <1>2, <1>4, MovedTypes DEF FlightInv, FlightTypes
<1>6. /\ inflight'[want[r]] = NoFlight
      /\ \A l \in Keys \ {want[r]} : inflight'[l] = inflight[l]
  BY <1>1, <1>2 DEF FlightInv, FlightTypes
<1>7. InGet' /\ OneOwner' /\ HasOutcome'
  BY <1>1, <1>3 DEF FlightInv, InGet, OneOwner, Owner, HasOutcome
<1>8. ASSUME NEW s \in Readers, s # r, Loading(s) PROVE want[s] \in Keys \ {want[r]}
  <2>1. flight[s] # flight[r] /\ want[s] \in Keys
    BY <1>1, <1>8 DEF FlightInv, OneOwner, Owner, Loading, InGet
  <2>2. inflight[want[s]] = flight[s] /\ inflight[want[r]] = flight[r]
    BY <1>1, <1>8 DEF FlightInv, InflightIsLoading, Loading
  <2> QED
    BY <2>1, <2>2
<1>9. \A s \in Readers : (Loading(s))' => s # r /\ Loading(s)
  BY <1>3 DEF Loading
<1>10. InflightIsLoading' /\ NotCached'
  <2>1. \A s \in Readers : (Loading(s))' => inflight'[want'[s]] = flight'[s]
    BY <1>3, <1>6, <1>8, <1>9 DEF FlightInv, InflightIsLoading
  <2>2. ASSUME NEW l \in Keys, inflight'[l] # NoFlight
        PROVE  \E s \in Readers : (Loading(s))' /\ want'[s] = l /\ flight'[s] = inflight'[l]
    <3>1. l # want[r] /\ inflight'[l] = inflight[l]
      BY <1>6, <2>2
    <3>2. PICK s \in Readers : Loading(s) /\ want[s] = l /\ flight[s] = inflight[l]
      BY <2>2, <3>1 DEF FlightInv, InflightIsLoading
    <3> QED
      BY <1>3, <3>1, <3>2 DEF Loading
  <2>3. NotCached'
    BY <1>3, <1>4, <1>8, <1>9 DEF FlightInv, NotCached
  <2> QED
    BY <2>1, <2>2, <2>3 DEF InflightIsLoading
<1>11. WaitersGetTheirs'
  <2>1. \A u \in Readers : /\ pc[u] \in {"load", "store", "release"}
                              => pc'[u] \in {"load", "store", "release"}
                           /\ pc'[u] = "wait" => pc[u] = "wait"
    BY <1>1, <1>3
  <2> QED
    BY <1>1, <1>3, <2>1 DEF FlightInv, WaitersGetTheirs
<1> QED
  BY <1>5, <1>7, <1>10, <1>11 DEF FlightInv

\* A reader that leaves forgets an outcome nobody else refers to.
LEMMA LeaveFacts ==
  ASSUME FlightInv, NEW r \in Readers, pc[r] \in {"release", "wait"}, Leave(r)
  PROVE  /\ UNCHANGED <<items, inflight>> /\ pc'[r] = "idle"
         /\ \A s \in Readers \ {r} : pc'[s] = pc[s] /\ want'[s] = want[s] /\ flight'[s] = flight[s]
         /\ \A s \in Readers \ {r} : pc[s] # "idle" => result'[flight[s]] = result[flight[s]]
         /\ result' \in [Flights -> Outcomes]
         /\ pc' \in [Readers -> {"idle", "load", "store", "release", "wait"}]
         /\ want' \in [Readers -> Keys \cup {NoKey}]
         /\ flight' \in [Readers -> Flights \cup {NoFlight}]
<1>1. Move(r, "idle", NoKey, NoFlight) /\ UNCHANGED <<items, inflight>>
  BY DEF Leave, cacheVars
<1>2. result' = result \/ (/\ \A s \in Readers \ {r} : flight[s] # flight[r]
                           /\ result' = [result EXCEPT ![flight[r]] = Pending])
  BY DEF Leave
<1>3. \A s \in Readers : pc[s] # "idle" => flight[s] \in Flights
  BY DEF FlightInv, InGet
<1>4. result' \in [Flights -> Outcomes]
  BY <1>2 DEF FlightInv, FlightTypes, Outcomes
<1>5. \A s \in Readers \ {r} : pc[s] # "idle" => result'[flight[s]] = result[flight[s]]
  BY <1>2, <1>3 DEF FlightInv, FlightTypes
<1> QED
  BY <1>1, <1>4, <1>5, Moved, MovedTypes DEF FlightInv

\* What the leaving of a reader that no longer loads preserves.
LEMMA LeaveInv ==
  ASSUME FlightInv, NEW r \in Readers, pc[r] \in {"release", "wait"}, Leave(r),
         done' \in [Flights -> BOOLEAN],
         \A s \in Readers \ {r} : Owner(s) => ~done'[flight[s]],
         WaitersGetTheirs'
  PROVE  FlightInv'
<1>1. FlightTypes'
  BY LeaveFacts DEF FlightInv, FlightTypes
<1>2. InGet' /\ OneOwner' /\ HasOutcome' /\ NotCached'
  BY LeaveFacts DEF FlightInv, InGet, OneOwner, Owner, HasOutcome, NotCached, Loading
<1>3. \A s \in Readers : Loading(s) => s # r
  BY DEF Loading
<1>4. InflightIsLoading'
  BY <1>3, LeaveFacts DEF FlightInv, InflightIsLoading, Loading
<1> QED
  BY <1>1, <1>2, <1>4 DEF FlightInv

LEMMA ReturnInv ==
  ASSUME FlightInv, NEW r \in Readers, Return(r)
  PROVE  FlightInv'
<1>1. pc[r] = "release" /\ done' = [done EXCEPT ![flight[r]] = TRUE] /\ Leave(r)
  BY DEF Return, Release
<1>2. flight[r] \in Flights /\ Owner(r)
  BY <1>1 DEF FlightInv, InGet, Owner
<1>3. done' \in [Flights -> BOOLEAN] /\ done'[flight[r]]
      /\ \A g \in Flights \ {flight[r]} : done'[g] = done[g]
  BY <1>1, <1>2 DEF FlightInv, FlightTypes
<1>4. \A s \in Readers \ {r} : Owner(s) => ~done'[flight[s]]
  BY <1>2, <1>3 DEF FlightInv, OneOwner, Owner, InGet
<1>5. WaitersGetTheirs'
  <2> SUFFICES ASSUME NEW s \in Readers, pc'[s] = "wait"
               PROVE  /\ done'[flight'[s]] => result'[flight'[s]] \in {want'[s], Failed}
                      /\ ~done'[flight'[s]] =>
                           \E u \in Readers : /\ flight'[u] = flight'[s] /\ want'[u] = want'[s]
                                              /\ pc'[u] \in {"load", "store", "release"}
    BY DEF WaitersGetTheirs
  <2>1. /\ s # r /\ pc[s] = "wait" /\ flight'[s] = flight[s] /\ want'[s] = want[s]
        /\ result'[flight[s]] = result[flight[s]] /\ flight[s] \in Flights
    BY <1>1, LeaveFacts DEF FlightInv, InGet
  <2>2. CASE flight[s] = flight[r]
    <3>1. want[s] = want[r]
      BY <1>2, <2>1, <2>2, SameWant
    <3> QED
      BY <1>1, <1>3, <2>1, <2>2, <3>1 DEF FlightInv, HasOutcome
  <2>3. CASE flight[s] # flight[r]
    <3>1. done'[flight[s]] = done[flight[s]]
      BY <1>3, <2>1, <2>3
    <3>2. ASSUME ~done[flight[s]]
          PROVE  \E u \in Readers : /\ flight'[u] = flight[s] /\ want'[u] = want[s]
                                    /\ pc'[u] \in {"load", "store", "release"}
      <4>1. PICK u \in Readers : /\ flight[u] = flight[s] /\ want[u] = want[s]
                                 /\ pc[u] \in {"load", "store", "release"}
        BY <2>1, <3>2 DEF FlightInv, WaitersGetTheirs
      <4>2. u # r
        BY <2>3, <4>1
      <4> QED
        BY <1>1, <4>1, <4>2, LeaveFacts
    <3> QED
      BY <2>1, <3>1, <3>2 DEF FlightInv, WaitersGetTheirs
  <2> QED
    BY <2>2, <2>3
<1> QED
  BY <1>1, <1>3, <1>4, <1>5, LeaveInv

LEMMA WakeInv ==
  ASSUME FlightInv, NEW r \in Readers, Wake(r)
  PROVE  FlightInv'
<1>1. pc[r] = "wait" /\ done[flight[r]] /\ Leave(r) /\ done' = done
  BY DEF Wake
<1>2. done' \in [Flights -> BOOLEAN] /\ \A s \in Readers \ {r} : Owner(s) => ~done'[flight[s]]
  BY <1>1 DEF FlightInv, FlightTypes, OneOwner
<1>3. WaitersGetTheirs'
  <2>1. ASSUME NEW s \in Readers, pc'[s] = "wait"
        PROVE  /\ s # r /\ pc[s] = "wait" /\ flight'[s] = flight[s] /\ want'[s] = want[s]
               /\ result'[flight[s]] = result[flight[s]]
    BY <1>1, <2>1, LeaveFacts
  <2>2. ASSUME NEW u \in Readers, pc[u] \in {"load", "store", "release"}
        PROVE  pc'[u] = pc[u] /\ flight'[u] = flight[u] /\ want'[u] = want[u]
    BY <1>1, <2>2, LeaveFacts
  <2> QED
    BY <1>1, <2>1, <2>2 DEF FlightInv, WaitersGetTheirs
<1> QED
  BY <1>1, <1>2, <1>3, LeaveInv

LEMMA InitFlights == DirInit => FlightInv
  BY DEF DirInit, FlightInv, FlightTypes, Outcomes, InGet, OneOwner, Owner, InflightIsLoading,
         Loading, HasOutcome, NotCached, WaitersGetTheirs

LEMMA NextFlights == FlightInv /\ [DirNext]_dirVars => FlightInv'
<1> SUFFICES ASSUME FlightInv, [DirNext]_dirVars PROVE FlightInv'
  OBVIOUS
<1>1. CASE UNCHANGED dirVars
  BY <1>1 DEF dirVars, cacheVars, FlightInv, FlightTypes, InGet, OneOwner, Owner,
              InflightIsLoading, Loading, HasOutcome, NotCached, WaitersGetTheirs
<1>2. CASE DirNext
  BY <1>2, HitInv, JoinInv, StartLoadInv, LoadInv, StoreInv, ReturnInv, WakeInv DEF DirNext
<1> QED
  BY <1>1, <1>2

(* The inductive invariant of the flights: c.inflight is the flights of    *)
(* the readers that are loading, each flight has one owner, is done only   *)
(* after its owner said so, and has its outcome by then (dirCache.get).    *)
THEOREM FlightInvariant == DirSpec => []FlightInv
  BY InitFlights, NextFlights, PTL DEF DirSpec

(* At most one reader loads a directory, and none loads a cached one       *)
(* (leaf: "concurrent requests for the same leaf share one read").         *)
THEOREM OneLoadPerLeaf == DirSpec => []SingleFlight
<1>1. FlightInv => SingleFlight
  BY DEF FlightInv, SingleFlight, NotCached, OneOwner, Owner, InflightIsLoading, Loading
<1> QED
  BY <1>1, FlightInvariant, PTL

(* A waiter gets the directory it asked for or the error of that load, and *)
(* until then somebody is on the way to release it (dirCache.get).         *)
THEOREM WaitersAreServed == DirSpec => []WaitersGetTheirs
<1>1. FlightInv => WaitersGetTheirs
  BY DEF FlightInv
<1> QED
  BY <1>1, FlightInvariant, PTL

----------------------------------------------------------------------------
(* What the cache holds and what it weighs.                                *)

\* The tables of dirCache: the list without repetitions, the map, and the sum.
DirTables ==
  /\ order \in Seq(Keys) /\ Distinct(order) /\ Range(order) = items
  /\ used = Total(Size, items)
  /\ used <= Budget \/ Len(order) = 1

LEMMA EntriesIsTotal ==
  ASSUME NEW S
  PROVE  Entries(S) = Total(Size, S)
  BY DEF Entries, Total

\* Moving an element to the front changes the order only.
LEMMA MovedToFront ==
  ASSUME NEW S, NEW s \in Seq(S), Distinct(s), NEW k \in Range(s)
  PROVE  LET p == CHOOSE i \in DOMAIN s : s[i] = k
             t == <<k>> \o RemoveAt(s, p)
         IN  t \in Seq(S) /\ Distinct(t) /\ Range(t) = Range(s)
<1>1. \E i \in DOMAIN s : s[i] = k
  BY InRange, LenProperties
<1>2. PICK p \in 1..Len(s) : p = (CHOOSE i \in DOMAIN s : s[i] = k) /\ s[p] = k
  BY <1>1, LenProperties
<1>3. PICK w : w = RemoveAt(s, p)
  OBVIOUS
<1>4. w \in Seq(S) /\ Distinct(w) /\ Range(w) = Range(s) \ {k}
  BY <1>2, <1>3, TakenOut
<1>5. k \in S /\ k \notin Range(w)
  BY <1>2, <1>4, ElementOfSeq
<1>6. <<k>> \o w \in Seq(S) /\ Distinct(<<k>> \o w) /\ Range(<<k>> \o w) = Range(w) \cup {k}
  BY <1>4, <1>5, PushedFront
<1> QED
  BY <1>2, <1>3, <1>4, <1>6

LEMMA HitTables ==
  ASSUME DirTables, NEW r \in Readers, NEW k \in Keys, Hit(r, k)
  PROVE  DirTables'
<1>1. k \in Range(order) /\ UNCHANGED <<items, used>>
      /\ order' = <<k>> \o RemoveAt(order, CHOOSE i \in DOMAIN order : order[i] = k)
  BY DEF Hit, Others, DirTables
<1>2. order' \in Seq(Keys) /\ Distinct(order') /\ Range(order') = Range(order)
  BY <1>1, MovedToFront DEF DirTables
<1>3. Len(order') = Len(order)
  BY <1>2, LengthCounts DEF DirTables
<1> QED
  BY <1>1, <1>2, <1>3 DEF DirTables

\* The eviction loop keeps the newest directory at least, and as many as fit.
LEMMA KeptFits ==
  ASSUME NEW o \in Seq(Keys), o # <<>>, NEW u
  PROVE  /\ Kept(o, u) \in 1..Len(o)
         /\ \/ Kept(o, u) = 1
            \/ u - Entries(Range(SubSeq(o, Kept(o, u) + 1, Len(o)))) <= Budget
<1> DEFINE fit == {n \in 1..Len(o) : n = 1 \/ u - Entries(Range(SubSeq(o, n + 1, Len(o)))) <= Budget}
<1>1. Len(o) \in Nat \ {0}
  BY EmptySeq
<1>2. 1 \in fit /\ fit \in SUBSET Nat /\ \A n \in fit : n <= Len(o)
  BY <1>1
<1> HIDE DEF fit
<1>3. Max(fit) \in fit
  BY <1>1, <1>2, LargestIsIn
<1>4. Kept(o, u) = Max(fit)
  BY DEF Kept, fit
<1> QED
  BY <1>3, <1>4 DEF fit

LEMMA InsertTables ==
  ASSUME DirTables, NEW k \in Keys, k \notin items, Insert(k)
  PROVE  DirTables'
<1>1. PICK o, u, n, gone :
        /\ o = <<k>> \o order /\ u = used + Size[k] /\ n = Kept(o, u)
        /\ gone = Range(SubSeq(o, n + 1, Len(o)))
        /\ order' = SubSeq(o, 1, n) /\ items' = (items \cup {k}) \ gone
        /\ used' = u - Entries(gone)
  BY DEF Insert, UsedAfter
<1>2. o \in Seq(Keys) /\ Distinct(o) /\ Range(o) = items \cup {k}
  BY <1>1, PushedFront DEF DirTables
<1>3. o # <<>>
  <2>1. k \in Range(o)
    BY <1>2
  <2>2. Range(<<>>) = {}
    BY DEF Range
  <2> QED
    BY <2>1, <2>2
<1>4. n \in 1..Len(o) /\ (n = 1 \/ u - Entries(gone) <= Budget)
  BY <1>1, <1>2, <1>3, KeptFits
<1>5. Len(o) \in Nat
  BY <1>2, LenProperties
<1>6. /\ order' \in Seq(Keys) /\ Distinct(order') /\ Len(order') = n
      /\ gone \subseteq Range(o) /\ Range(order') = Range(o) \ gone
  <2>1. n \in 0..Len(o)
    BY <1>4, <1>5
  <2> QED
    BY <1>1, <1>2, <2>1, FrontPart, Divided
<1>7. IsFiniteSet(Range(o)) /\ Range(o) \in SUBSET Keys /\ k \in Range(o) /\ Range(o) \ {k} = items
  <2>1. IsFiniteSet(Range(o))
    BY <1>2, LengthCounts
  <2>2. items \subseteq Keys
    BY RangeOfSeq DEF DirTables
  <2> QED
    BY <1>2, <2>1, <2>2
<1>8. Size \in [Keys -> Nat]
  BY DirCacheAssumption
<1>9. Total(Size, Range(o)) = u
  <2>1. Total(Size, Range(o)) = Size[k] + Total(Size, items)
    BY <1>7, <1>8, TotalWithout
  <2>2. IsFiniteSet(items) /\ items \in SUBSET Keys
    BY <1>7, FS_Subset
  <2>3. Total(Size, items) \in Nat /\ Size[k] \in Nat
    BY <1>8, <2>2, TotalIsNat
  <2> QED
    BY <1>1, <2>1, <2>3 DEF DirTables
<1>10. used' = Total(Size, items')
  <2>1. items' = Range(o) \ gone
    BY <1>1, <1>2
  <2>2. Total(Size, Range(o)) = Total(Size, Range(o) \ gone) + Total(Size, gone)
    BY <1>6, <1>7, <1>8, TotalSplit
  <2>3. IsFiniteSet(Range(o) \ gone) /\ IsFiniteSet(gone)
    BY <1>6, <1>7, FS_Subset
  <2>4. Total(Size, Range(o) \ gone) \in Nat /\ Total(Size, gone) \in Nat
    BY <1>6, <1>7, <1>8, <2>3, TotalIsNat
  <2>5. u = Total(Size, items') + Total(Size, gone)
    BY <1>9, <2>1, <2>2
  <2>6. used' = u - Total(Size, gone)
    BY <1>1, EntriesIsTotal
  <2> QED
    BY <2>1, <2>4, <2>5, <2>6
<1>11. Range(order') = items'
  BY <1>1, <1>2, <1>6
<1> QED
  BY <1>1, <1>4, <1>6, <1>10, <1>11 DEF DirTables

\* An operation leaves the tables alone, or it is a hit or the end of a load.
LEMMA NextTables == FlightInv /\ DirTables /\ [DirNext]_dirVars => DirTables'
<1> SUFFICES ASSUME FlightInv, DirTables, [DirNext]_dirVars PROVE DirTables'
  OBVIOUS
<1>1. ASSUME UNCHANGED cacheVars PROVE DirTables'
  BY <1>1 DEF cacheVars, DirTables
<1>2. ASSUME NEW r \in Readers, Store(r) PROVE DirTables'
  <2>1. want[r] \in Keys /\ want[r] \notin items
    BY <1>2 DEF FlightInv, InGet, NotCached, Loading, Store
  <2>2. Insert(want[r]) \/ UNCHANGED cacheVars
    BY <1>2 DEF Store
  <2> QED
    BY <1>1, <2>1, <2>2, InsertTables
<1>4. CASE UNCHANGED dirVars
  BY <1>1, <1>4 DEF dirVars
<1>5. CASE DirNext
  BY <1>1, <1>2, <1>5, HitTables DEF DirNext, Join, StartLoad, Load, Return, Wake, Leave
<1> QED
  BY <1>4, <1>5

LEMMA InitTables == DirInit => DirTables
<1> SUFFICES ASSUME DirInit PROVE DirTables
  OBVIOUS
<1>1. order = <<>> /\ items = {} /\ used = 0
  BY DEF DirInit
<1>2. order \in Seq(Keys) /\ Distinct(order) /\ Range(order) = {}
  BY <1>1, EmptySeq DEF Distinct, Range
<1>3. used = Total(Size, items) /\ used <= Budget
  BY <1>1, TotalEmpty, DirCacheAssumption
<1> QED
  BY <1>1, <1>2, <1>3 DEF DirTables

LEMMA TablesAccounted == DirTables => Accounted
<1> SUFFICES ASSUME DirTables PROVE Accounted
  OBVIOUS
<1>1. Cardinality(items) = Len(order)
  BY LengthCounts DEF DirTables
<1> QED
  BY <1>1, EntriesIsTotal DEF DirTables, Accounted

(* The list, the map and the count of the cache agree, and the count stays *)
(* within the budget unless one directory alone exceeds it.                *)
THEOREM EntriesAccounted == DirSpec => []Accounted
<1>1. DirInit => FlightInv /\ DirTables
  BY InitFlights, InitTables
<1>2. FlightInv /\ DirTables /\ [DirNext]_dirVars => (FlightInv /\ DirTables)'
  BY NextFlights, NextTables
<1>3. FlightInv /\ DirTables => Accounted
  BY TablesAccounted
<1> QED
  BY <1>1, <1>2, <1>3, PTL DEF DirSpec

----------------------------------------------------------------------------
(* The load of a release.                                                  *)

Steps == {"none", "failed", "pointer", "manifest", "archive", "header", "root", "open"}

Request == [step : {"none", "send", "wait"}, method : {"HEAD", "GET"}, object : Objects,
            off : Nat, end : Int, size : Nat, attempt : Nat]

\* An archive is what was uploaded, or removed.
StoreOK ==
  /\ stored \in [Objects -> Versions \cup {Absent}]
  /\ stored[Pointer] \in Pointers \cup {Absent}
  /\ \A a \in Releases : stored[Archive(a)] \in {Archive(a), Absent}
  /\ DOMAIN call = Callers /\ DOMAIN reply = Callers

\* What the load knows: whose manifest it read, the size and the sections of the archive.
LoadOK ==
  /\ load \in [step : Steps, release : Releases \cup {NoRelease},
               manifest : Releases \cup {NoRelease}, size : Nat]
  /\ load.step \in {"manifest", "archive", "header", "root", "open"} => load.release \in Releases
  /\ load.step \in {"archive", "header", "root", "open"} =>
       load.manifest = load.release /\ load.release \in Manifests
  /\ load.step \in {"header", "root", "open"} => load.size = Length[Archive(load.release)]
  /\ load.step \in {"root", "open"} => load.release \in Sound

\* The call of the loader belongs to the step of the load.
CallOK(q) ==
  /\ q \in Request
  /\ At("pointer") => q.object = Pointer
  /\ At("archive") => q.object = Archive(load.release) /\ q.method = "HEAD"
  /\ At("header") => q.object = Archive(load.release)
                     /\ (q.step # "none" => q.method = "GET" /\ q.off = 0 /\ q.end = 0)

\* So does the answer to it.
ReplyOK(p) ==
  /\ p.status = "size" => p.n \in Nat
  /\ At("pointer") /\ p.status = "data" => p.version \in Pointers
  /\ At("archive") => p.status # "data" /\ (p.status = "size" => p.n = Length[Archive(load.release)])
  /\ At("header") /\ p.status = "data" => p.version = Archive(load.release) /\ p.off = 0 /\ p.n = 1

OpeningInv == StoreOK /\ LoadOK /\ CallOK(call[Loader]) /\ ReplyOK(reply[Loader])

LEMMA Objects0 ==
  /\ Pointer \in Objects /\ Loader \in Callers
  /\ \A a \in Releases : Manifest(a) \in Objects /\ Archive(a) \in Objects
  /\ \A a, b \in Releases : Archive(a) # Pointer /\ Archive(a) # Manifest(b) /\ Manifest(a) # Pointer
  /\ \A a, b \in Releases : Archive(a) = Archive(b) => a = b
  /\ Pointers \subseteq Versions /\ Length \in [Versions -> Nat]
  /\ HeaderSize = 1
  BY UploadAssumption, ReleaseAssumption, StoreAssumption DEF Pointer, Manifest, Archive, HeaderSize

\* Who neither loads nor answers the loader changes nothing here.
LEMMA LoadFrame ==
  ASSUME OpeningInv, StoreOK', load' = load, call'[Loader] = call[Loader], reply'[Loader] = reply[Loader]
  PROVE  OpeningInv'
  BY DEF OpeningInv, LoadOK, CallOK, ReplyOK, At

LEMMA LoadInit0 == Init => OpeningInv
<1> SUFFICES ASSUME Init PROVE OpeningInv
  OBVIOUS
<1>1. PICK p \in Pointers \cup {Absent} : stored = [o \in Objects |-> IF o = Pointer THEN p ELSE o]
  BY DEF Init, LoadInit
<1>2. StoreOK
  BY <1>1, Objects0, UploadAssumption DEF StoreOK, Init, LoadInit
<1>3. call[Loader] = NoCall(Pointer) /\ reply[Loader] = NoReply /\ load = NoLoad
  BY Objects0 DEF Init, LoadInit
<1>4. LoadOK /\ ReplyOK(NoReply)
  BY <1>3 DEF LoadOK, NoLoad, Steps, At, ReplyOK, NoReply
<1>5. CallOK(NoCall(Pointer))
  BY <1>3, Objects0 DEF CallOK, NoCall, Request, At, NoLoad
<1> QED
  BY <1>2, <1>3, <1>4, <1>5 DEF OpeningInv

\* A call that begins.
LEMMA BeginKeeps ==
  ASSUME OpeningInv, NEW request, Begin(Loader, request), LoadOK', CallOK(request)'
  PROVE  OpeningInv'
<1>1. call'[Loader] = request /\ reply'[Loader] = NoReply
  BY Objects0 DEF Begin, OpeningInv, StoreOK
<1>2. StoreOK'
  BY DEF Begin, OpeningInv, StoreOK, worldVars
<1>3. ReplyOK(NoReply)'
  BY DEF ReplyOK, NoReply
<1> QED
  BY <1>1, <1>2, <1>3 DEF OpeningInv, CallOK, ReplyOK

\* A call that ends.
LEMMA EndKeeps ==
  ASSUME OpeningInv, NEW p, End(Loader, p), ReplyOK(p), load' = load
  PROVE  OpeningInv'
<1>q. PICK q : q = NoCall(call[Loader].object)
  OBVIOUS
<1>1. call'[Loader] = q /\ reply'[Loader] = p
  BY <1>q, Objects0 DEF End, OpeningInv, StoreOK
<1>2. StoreOK'
  BY DEF End, OpeningInv, StoreOK, worldVars
<1>3. CallOK(q)
  BY <1>q DEF OpeningInv, CallOK, NoCall, Request
<1>4. LoadOK'
  BY DEF OpeningInv, LoadOK, At
<1>5. CallOK(q)' /\ ReplyOK(p)'
  BY <1>3 DEF CallOK, ReplyOK, At
<1> QED
  BY <1>1, <1>2, <1>4, <1>5 DEF OpeningInv, CallOK, ReplyOK

LEMMA OpenRequest ==
  ASSUME NEW o \in Objects
  PROVE  LET q == [NoCall(o) EXCEPT !.step = "send"]
         IN q \in Request /\ q.object = o /\ q.method = "HEAD"
  BY DEF NoCall, Request

LEMMA BeginLoadKeeps == ASSUME OpeningInv, BeginLoad PROVE OpeningInv'
<1>1. PICK q : q = [NoCall(Pointer) EXCEPT !.step = "send"]
  OBVIOUS
<1>2. load' = [step |-> "pointer", release |-> NoRelease, manifest |-> NoRelease, size |-> 0]
  BY DEF BeginLoad, NoLoad
<1>3. LoadOK'
  BY <1>2 DEF LoadOK, Steps, At
<1>4. CallOK(q)'
  BY <1>1, <1>2, OpenRequest, Objects0 DEF CallOK, At
<1> QED
  BY <1>1, <1>3, <1>4, BeginKeeps DEF BeginLoad, OpenObject

LEMMA FailKeeps == ASSUME OpeningInv, FailLoad PROVE OpeningInv'
<1>1. load' = [step |-> "failed", release |-> NoRelease, manifest |-> NoRelease, size |-> 0]
  BY DEF FailLoad, NoLoad
<1>2. call'[Loader] = call[Loader] /\ reply'[Loader] = NoReply /\ StoreOK'
  BY Objects0 DEF FailLoad, LoadReturns, OpeningInv, StoreOK
<1>3. LoadOK'
  BY <1>1 DEF LoadOK, Steps, At
<1> QED
  BY <1>1, <1>2, <1>3 DEF OpeningInv, CallOK, ReplyOK, At, NoReply

\* The request of a read that begins at the start of the file.
LEMMA ReadRequest ==
  ASSUME NEW o \in Objects, NEW size \in Nat, NEW off \in Nat, NEW n \in Nat,
         NEW q, q = [step |-> "send", method |-> "GET", object |-> o, off |-> off,
                     end |-> LastByte(size, off, n), size |-> size, attempt |-> 0]
  PROVE  q \in Request
  BY DEF Request, LastByte

LEMMA ReadSmallKeeps == ASSUME OpeningInv, ReadSmallFile PROVE OpeningInv'
<1> DEFINE n == reply[Loader].n
           o == call[Loader].object
<1>1. load.step \in {"pointer", "manifest"} /\ n \in Nat /\ o \in Objects
  BY DEF ReadSmallFile, OpeningInv, ReplyOK, Returned, CallOK, Request
<1>2. CASE n > MaxFileSize
  BY <1>2, FailKeeps DEF ReadSmallFile
<1>3. CASE ~(n > MaxFileSize)
  <2>1. ReadAt(Loader, o, n, 0, n) /\ load' = load
    BY <1>3 DEF ReadSmallFile, loadVars
  <2>2. PICK q : q = [step |-> "send", method |-> "GET", object |-> o, off |-> 0,
                      end |-> LastByte(n, 0, n), size |-> n, attempt |-> 0]
    OBVIOUS
  <2>3. q \in Request /\ q.object = o
    BY <1>1, <2>2, ReadRequest
  <2>4. CallOK(q)' /\ LoadOK'
    BY <1>1, <2>1, <2>3 DEF CallOK, At, OpeningInv, LoadOK
  <2> QED
    BY <2>1, <2>2, <2>4, BeginKeeps DEF ReadAt
<1> QED
  BY <1>2, <1>3

LEMMA PointerReadKeeps == ASSUME OpeningInv, PointerRead PROVE OpeningInv'
<1>1. PICK a : a = Names[reply[Loader].version]
  OBVIOUS
<1>2. a \in Releases \cup {NoRelease}
  BY <1>1, ReleaseAssumption DEF PointerRead, OpeningInv, ReplyOK, Returned
<1>3. CASE FailLoad
  BY <1>3, FailKeeps
<1>4. CASE ~FailLoad
  <2>1. a \in Releases /\ OpenObject(Loader, Manifest(a))
        /\ load' = [step |-> "manifest", release |-> a, manifest |-> NoRelease, size |-> 0]
    BY <1>1, <1>2, <1>4 DEF PointerRead, Reached
  <2>2. PICK q : q = [NoCall(Manifest(a)) EXCEPT !.step = "send"]
    OBVIOUS
  <2>3. CallOK(q)'
    BY <2>1, <2>2, OpenRequest, Objects0 DEF CallOK, At
  <2>4. LoadOK'
    BY <2>1 DEF LoadOK, Steps, At
  <2> QED
    BY <2>1, <2>2, <2>3, <2>4, BeginKeeps DEF OpenObject
<1> QED
  BY <1>3, <1>4

LEMMA ManifestReadKeeps == ASSUME OpeningInv, ManifestRead PROVE OpeningInv'
<1> DEFINE a == load.release
<1>1. a \in Releases
  BY DEF ManifestRead, OpeningInv, LoadOK, At
<1>2. CASE FailLoad
  BY <1>2, FailKeeps
<1>3. CASE ~FailLoad
  <2>1. a \in Manifests /\ OpenObject(Loader, Archive(a))
        /\ load' = [step |-> "archive", release |-> a, manifest |-> a, size |-> 0]
    BY <1>3 DEF ManifestRead, Reached, SameRelease
  <2>2. PICK q : q = [NoCall(Archive(a)) EXCEPT !.step = "send"]
    OBVIOUS
  <2>3. CallOK(q)'
    BY <1>1, <2>1, <2>2, OpenRequest, Objects0 DEF CallOK, At
  <2>4. LoadOK'
    BY <1>1, <2>1 DEF LoadOK, Steps, At
  <2> QED
    BY <2>1, <2>2, <2>3, <2>4, BeginKeeps DEF OpenObject
<1> QED
  BY <1>2, <1>3

LEMMA ArchiveSizedKeeps == ASSUME OpeningInv, ArchiveSized PROVE OpeningInv'
<1> DEFINE a == load.release
           n == reply[Loader].n
<1>1. a \in Releases /\ a \in Manifests /\ load.manifest = a /\ n \in Nat /\ n = Length[Archive(a)]
  BY DEF ArchiveSized, OpeningInv, LoadOK, ReplyOK, At, Returned
<1>2. ReadAt(Loader, Archive(a), n, 0, 1)
      /\ load' = [step |-> "header", release |-> a, manifest |-> a, size |-> n]
  BY <1>1, Objects0 DEF ArchiveSized, Reached
<1>3. PICK q : q = [step |-> "send", method |-> "GET", object |-> Archive(a), off |-> 0,
                    end |-> LastByte(n, 0, 1), size |-> n, attempt |-> 0]
  OBVIOUS
<1>4. LastByte(n, 0, 1) = 0
  BY <1>1, <1>2 DEF ReadAt, LastByte
<1>5. CallOK(q)'
  BY <1>1, <1>2, <1>3, <1>4, Objects0 DEF CallOK, At, Request
<1>6. LoadOK'
  BY <1>1, <1>2 DEF LoadOK, Steps, At
<1> QED
  BY <1>2, <1>3, <1>5, <1>6, BeginKeeps DEF ReadAt

\* The header is that of the archive whose size is known.
LEMMA HeaderReadKeeps == ASSUME OpeningInv, HeaderRead PROVE OpeningInv'
<1> DEFINE a == load.release
           h == Read(Loader)[1]
<1>1. /\ a \in Releases /\ a \in Manifests /\ load.manifest = a
      /\ load.size \in Nat /\ load.size = Length[Archive(a)]
  BY DEF HeaderRead, OpeningInv, LoadOK, At
<1>2. reply[Loader].version = Archive(a) /\ reply[Loader].off = 0 /\ reply[Loader].n = 1
  BY DEF HeaderRead, OpeningInv, ReplyOK, Returned
<1>3. h = File[a][1]
  BY <1>2 DEF Read, Bytes, Archive
<1>4. CASE FailLoad
  BY <1>4, FailKeeps
<1>5. CASE ~FailLoad
  <2>1. /\ Complete(h, load.size)
        /\ ReadAt(Loader, Archive(a), load.size, 1, h.rootLen)
        /\ load' = [step |-> "root", release |-> a, manifest |-> a, size |-> load.size]
    BY <1>1, <1>5 DEF HeaderRead, Reached, RootOffset, HeaderSize
  <2>2. a \in Sound
    BY <1>1, <1>3, <2>1, UploadAssumption DEF Sound
  <2>3. LoadOK'
    BY <1>1, <2>1, <2>2 DEF LoadOK, Steps, At
  <2>4. PICK q : q = [step |-> "send", method |-> "GET", object |-> Archive(a), off |-> 1,
                      end |-> LastByte(load.size, 1, h.rootLen), size |-> load.size, attempt |-> 0]
    OBVIOUS
  <2>5. CallOK(q)'
    <3>1. h.rootLen \in Nat
      BY <1>1, <1>3, UploadAssumption
    <3>2. q \in Request
      BY <1>1, <2>4, <3>1, ReadRequest, Objects0
    <3> QED
      BY <2>1, <3>2 DEF CallOK, At
  <2> QED
    BY <2>1, <2>3, <2>4, <2>5, BeginKeeps DEF ReadAt
<1> QED
  BY <1>4, <1>5

LEMMA RootReadKeeps == ASSUME OpeningInv, RootRead PROVE OpeningInv'
<1>1. CASE FailLoad
  BY <1>1, FailKeeps
<1>2. CASE ~FailLoad
  <2>1. At("root") /\ load' = [load EXCEPT !.step = "open"] /\ LoadReturns
    BY <1>2 DEF RootRead
  <2>2. call'[Loader] = call[Loader] /\ reply'[Loader] = NoReply /\ StoreOK'
    BY <2>1, Objects0 DEF LoadReturns, OpeningInv, StoreOK
  <2>3. LoadOK'
    BY <2>1 DEF OpeningInv, LoadOK, Steps, At
  <2>4. ~At("pointer")' /\ ~At("archive")' /\ ~At("header")'
    BY <2>1 DEF At, OpeningInv, LoadOK
  <2> QED
    BY <2>2, <2>3, <2>4 DEF OpeningInv, CallOK, ReplyOK, NoReply
<1> QED
  BY <1>1, <1>2

LEMMA LoadStepKeeps == ASSUME OpeningInv, LoadStep PROVE OpeningInv'
  BY ReadSmallKeeps, PointerReadKeeps, ManifestReadKeeps, ArchiveSizedKeeps, HeaderReadKeeps,
     RootReadKeeps, FailKeeps DEF LoadStep, LoadBroken

LEMMA HeadKeeps == ASSUME OpeningInv, AnswerHead(Loader), load' = load PROVE OpeningInv'
<1> DEFINE v == stored[call[Loader].object]
<1>1. PICK p : p = IF v = Absent THEN Missing ELSE Sized(Length[v])
  OBVIOUS
<1>2. call[Loader].object \in Objects /\ v \in Versions \cup {Absent}
  BY DEF OpeningInv, CallOK, Request, StoreOK
<1>3. At("archive") => v \in {Archive(load.release), Absent}
  BY DEF OpeningInv, CallOK, LoadOK, StoreOK, At
<1>4. ReplyOK(p)
  BY <1>1, <1>2, <1>3, Objects0 DEF ReplyOK, Missing, Sized, At
<1> QED
  BY <1>1, <1>4, EndKeeps DEF AnswerHead

LEMMA GetKeeps == ASSUME OpeningInv, AnswerGet(Loader), load' = load PROVE OpeningInv'
<1> DEFINE v == stored[call[Loader].object]
<1>1. PICK p : /\ End(Loader, p)
               /\ p = Error \/ (v # Absent /\ \E off : p = Data(v, off, Asked(Loader)))
               /\ At("header") /\ p # Error => p = Data(v, 0, 1)
  <2>1. PICK p : /\ End(Loader, p)
                 /\ \/ v = Absent /\ p = Error
                    \/ v # Absent /\ ranged /\ p = RangeReply(Loader, v)
                    \/ v # Absent /\ ~ranged /\ p = WholeReply(Loader, v)
    <3>1. CASE v = Absent
      BY <3>1 DEF AnswerGet
    <3>2. CASE v # Absent /\ ranged
      BY <3>2 DEF AnswerGet
    <3>3. CASE v # Absent /\ ~ranged
      BY <3>3 DEF AnswerGet
    <3> QED
      BY <3>1, <3>2, <3>3
  <2>2. At("header") => call[Loader].off = 0 /\ Asked(Loader) = 1
    BY DEF AnswerGet, Sent, OpeningInv, CallOK, Asked
  <2>3. RangeReply(Loader, v) \in {Error, Data(v, call[Loader].off, Asked(Loader))}
    BY DEF RangeReply
  <2>4. WholeReply(Loader, v) \in {Error, Data(v, 0, Asked(Loader))}
    <3>1. CASE ~WantsWhole(Loader)
      BY <3>1 DEF WholeReply
    <3>2. CASE WantsWhole(Loader) /\ Length[v] < Asked(Loader)
      BY <3>2 DEF WholeReply
    <3>3. CASE WantsWhole(Loader) /\ ~(Length[v] < Asked(Loader))
      BY <3>3 DEF WholeReply
    <3> QED
      BY <3>1, <3>2, <3>3
  <2> QED
    BY <2>1, <2>2, <2>3, <2>4
<1>2. At("pointer") /\ v # Absent => v \in Pointers
  BY DEF OpeningInv, CallOK, StoreOK
<1>3. At("header") /\ v # Absent => v = Archive(load.release)
  BY DEF OpeningInv, CallOK, LoadOK, StoreOK, At
<1>4. ~At("archive")
  BY DEF AnswerGet, Sent, OpeningInv, CallOK
<1>5. ReplyOK(p)
  <2>1. CASE p = Error
    BY <2>1 DEF ReplyOK, Error
  <2>2. CASE p # Error
    <3>1. p.status = "data" /\ p.version = v /\ v # Absent
      BY <1>1, <2>2 DEF Data
    <3>2. At("header") => p.off = 0 /\ p.n = 1
      BY <1>1, <2>2 DEF Data
    <3> QED
      BY <1>2, <1>3, <1>4, <3>1, <3>2 DEF ReplyOK
  <2> QED
    BY <2>1, <2>2
<1> QED
  BY <1>1, <1>5, EndKeeps

\* An attempt of the loader fails and is repeated.
LEMMA AttemptKeeps ==
  ASSUME OpeningInv, load' = load, UNCHANGED <<worldVars, reply>>,
         \/ call' = [call EXCEPT ![Loader].step = "wait"]
         \/ call' = [call EXCEPT ![Loader].step = "send", ![Loader].attempt = @ + 1],
         call[Loader].step # "none"
  PROVE  OpeningInv'
<1>1. call[Loader] \in Request /\ DOMAIN call = Callers /\ Loader \in Callers
  BY Objects0 DEF OpeningInv, CallOK, StoreOK
<1>2. PICK q : q = call'[Loader]
  OBVIOUS
<1>3. /\ q \in Request /\ q.step # "none"
      /\ q.object = call[Loader].object /\ q.method = call[Loader].method
      /\ q.off = call[Loader].off /\ q.end = call[Loader].end
  BY <1>1, <1>2 DEF Request
<1>4. CallOK(q)
  BY <1>3 DEF OpeningInv, CallOK
<1>5. StoreOK' /\ LoadOK'
  BY <1>1 DEF OpeningInv, StoreOK, LoadOK, At, worldVars
<1>6. CallOK(q)' /\ ReplyOK(reply[Loader])'
  BY <1>4 DEF OpeningInv, CallOK, ReplyOK, At
<1> QED
  BY <1>2, <1>5, <1>6 DEF OpeningInv, CallOK, ReplyOK

LEMMA ErrorFits == ReplyOK(Error)
  BY DEF ReplyOK, Error

\* What the store does with the loader's call.
LEMMA LoaderStoreKeeps ==
  ASSUME OpeningInv, StoreStep(Loader) \/ Fault(Loader)
  PROVE  OpeningInv'
<1>1. load' = load
  BY DEF StoreStep, Fault, loadVars
<1>2. CASE \E p \in {Error} : End(Loader, p)
  BY <1>1, <1>2, EndKeeps, ErrorFits
<1>3. CASE AnswerHead(Loader) \/ AnswerGet(Loader)
  BY <1>1, <1>3, HeadKeeps, GetKeeps
<1>4. CASE Resume(Loader) \/ (Refuse(Loader) /\ MayRetry(Loader))
  BY <1>1, <1>4, AttemptKeeps DEF Resume, Refuse
<1> QED
  BY <1>2, <1>3, <1>4 DEF StoreStep, Fault, Cancel, Refuse, Deny, Cut

\* Calls of others.
LEMMA OthersKeep ==
  ASSUME OpeningInv, NEW c \in Callers \ {Loader}, load' = load, UNCHANGED worldVars,
         (\E q : call' = [call EXCEPT ![c] = q]) \/ call' = call,
         (\E p : reply' = [reply EXCEPT ![c] = p]) \/ reply' = reply
  PROVE  OpeningInv'
<1>1. StoreOK'
  BY DEF OpeningInv, StoreOK, worldVars
<1>2. call'[Loader] = call[Loader] /\ reply'[Loader] = reply[Loader]
  BY Objects0 DEF OpeningInv, StoreOK
<1> QED
  BY <1>1, <1>2, LoadFrame

LEMMA OthersStoreKeeps ==
  ASSUME OpeningInv, NEW c \in Callers \ {Loader}, StoreStep(c) \/ Fault(c)
  PROVE  OpeningInv'
<1>1. load' = load
  BY DEF StoreStep, Fault, loadVars
<1>2. CASE \E p : End(c, p)
  BY <1>1, <1>2, OthersKeep DEF End
<1>3. CASE Resume(c) \/ (Refuse(c) /\ MayRetry(c))
  <2>1. \E q : call' = [call EXCEPT ![c] = q]
    BY <1>3 DEF Resume, Refuse
  <2> QED
    BY <1>1, <1>3, <2>1, OthersKeep DEF Resume, Refuse, worldVars
<1> QED
  BY <1>2, <1>3 DEF StoreStep, Fault, AnswerHead, AnswerGet, Cancel, Refuse, Deny, Cut

LEMMA WorldKeeps ==
  ASSUME OpeningInv, Deadline \/ (\E p \in Pointers : MovePointer(p)) \/ \E a \in Releases : RemoveRelease(a)
  PROVE  OpeningInv'
<1>1. load' = load /\ call' = call /\ reply' = reply
  BY DEF Deadline, Expire, MovePointer, RemoveRelease, Put
<1>2. CASE Deadline
  <2>1. StoreOK'
    BY <1>1, <1>2 DEF Deadline, Expire, OpeningInv, StoreOK
  <2> QED
    BY <1>1, <2>1, LoadFrame
<1>3. ASSUME NEW p \in Pointers, MovePointer(p) PROVE OpeningInv'
  <2>1. StoreOK'
    BY <1>1, <1>3, Objects0 DEF MovePointer, Put, OpeningInv, StoreOK
  <2> QED
    BY <1>1, <2>1, LoadFrame
<1>4. ASSUME NEW a \in Releases, RemoveRelease(a) PROVE OpeningInv'
  <2>1. StoreOK'
    BY <1>1, <1>4, Objects0 DEF RemoveRelease, Put, OpeningInv, StoreOK
  <2> QED
    BY <1>1, <2>1, LoadFrame
<1> QED
  BY <1>2, <1>3, <1>4

LEMMA EnvironmentKeeps == ASSUME OpeningInv, Environment PROVE OpeningInv'
  BY LoaderStoreKeeps, OthersStoreKeeps, WorldKeeps DEF Environment

\* Requests use calls of their own.
LEMMA ReadersKeep ==
  ASSUME OpeningInv, NEW r \in Readers,
         (\E t \in Wanted, copy \in Copies : Ask(r, t, copy)) \/ ReaderStep(r)
  PROVE  OpeningInv'
<1>1. r \in Callers \ {Loader}
  BY PlanetAssumption
<1>2. CASE load' = load /\ UNCHANGED storeVars
  BY <1>1, <1>2, OthersKeep DEF storeVars, worldVars
<1>3. CASE load' = load /\ \E q : Begin(r, q)
  BY <1>1, <1>3, OthersKeep DEF Begin
<1>4. CASE load' = load /\ Consume(r)
  BY <1>1, <1>4, OthersKeep DEF Consume, worldVars
<1>5. (\E t \in Wanted, copy \in Copies : Ask(r, t, copy)) => load' = load /\ UNCHANGED storeVars
  BY DEF Ask, loadVars
<1>6. NoTile(r) \/ StoreLeaf(r) \/ LeafReturned(r) => load' = load /\ UNCHANGED storeVars
  BY DEF NoTile, StoreLeaf, LeafReturned, Stay, loadVars
<1>7. ReadTile(r) => load' = load /\ \E q : Begin(r, q)
  BY DEF ReadTile, ReadSection, ReadAt, loadVars
<1>8. GetLeaf(r) => load' = load /\ (UNCHANGED storeVars \/ \E q : Begin(r, q))
  BY DEF GetLeaf, ReadSection, ReadAt, loadVars, Stay
<1>9. LoadLeaf(r) \/ TileRead(r) => load' = load /\ Consume(r)
  BY DEF LoadLeaf, TileRead, loadVars
<1> QED
  BY <1>2, <1>3, <1>4, <1>5, <1>6, <1>7, <1>8, <1>9 DEF ReaderStep

LEMMA LoadInvariant == OpeningInv /\ [Next]_vars => OpeningInv'
<1> SUFFICES ASSUME OpeningInv, [Next]_vars PROVE OpeningInv'
  OBVIOUS
<1>1. CASE UNCHANGED vars
  <2>1. StoreOK' /\ load' = load /\ call' = call /\ reply' = reply
    BY <1>1 DEF vars, storeVars, loadVars, OpeningInv, StoreOK
  <2> QED
    BY <2>1, LoadFrame
<1>2. CASE \E c \in Callers : StoreStep(c)
  BY <1>2, LoaderStoreKeeps, OthersStoreKeeps
<1> QED
  BY <1>1, <1>2, BeginLoadKeeps, LoadStepKeeps, EnvironmentKeeps, ReadersKeep DEF Next

(* The manifest and the archive that open belong to one release, whose     *)
(* manifest is valid and whose archive is whole, whatever the store, the   *)
(* pipeline and requests do (s3Store.Current, Holder.reload, pmtiles.Open).*)
THEOREM OneReleaseOpens == Spec => []OpensOneRelease
<1>1. OpeningInv => OpensOneRelease
  BY DEF OpeningInv, LoadOK, OpensOneRelease, At
<1> QED
  BY <1>1, LoadInit0, LoadInvariant, PTL DEF Spec

----------------------------------------------------------------------------
(* Requests and the cache.                                                 *)

\* The entries for leaf directories that a lookup can meet after d leaf directories.
LeavesAt(file, d) ==
  CASE d = 0 -> Leaves(DirectoryAt(file, NoEntry))
    [] d = 1 -> Deeper(file, Leaves(DirectoryAt(file, NoEntry)))
    [] d = 2 -> Deeper(file, Deeper(file, Leaves(DirectoryAt(file, NoEntry))))
    [] d = 3 -> LeafEntries(file)

LEMMA LeavesOfFile == \A file : \A d \in 0..3 : LeavesAt(file, d) \subseteq LeafEntries(file)
  BY DEF LeavesAt, LeafEntries, Deeper

\* A leaf directory below one of a level is of the next level.
LEMMA LeavesBelow ==
  ASSUME NEW file, NEW d \in 0..2, NEW e \in LeavesAt(file, d)
  PROVE  Leaves(DirectoryAt(file, e)) \subseteq LeavesAt(file, d + 1)
<1>1. CASE d = 0
  BY <1>1 DEF LeavesAt, Deeper
<1>2. CASE d = 1
  BY <1>2 DEF LeavesAt, Deeper
<1>3. CASE d = 2
  BY <1>3 DEF LeavesAt, LeafEntries, Deeper
<1> QED
  BY <1>1, <1>2, <1>3

\* What find returns is in the directory.
LEMMA FoundInDirectory ==
  ASSUME NEW d, NEW id, Find(d, id) # NoEntry, Find(d, id).run = 0
  PROVE  Find(d, id) \in Leaves(d)
<1> DEFINE found == {d[i] : i \in {j \in UpTo(d, id) : Covers(d[j], id) /\ \A l \in UpTo(d, id) : l <= j}}
<1>1. found # {} /\ Find(d, id) \in found
  BY DEF Find
<1>2. found \subseteq Range(d)
  BY DEF UpTo, Range
<1> QED
  BY <1>1, <1>2 DEF Leaves

WalkStates == {"idle", "look", "leaf", "tile"}

\* The entry a request is at belongs to the file, at the depth the request is in.
AtLeaf(w) ==
  w.entry # NoEntry /\ w.entry.run = 0 => w.entry \in LeavesAt(TheFile, w.depth)

WalkOK(w) ==
  /\ w = [step |-> w.step, id |-> w.id, copy |-> w.copy, entry |-> w.entry,
          depth |-> w.depth, status |-> w.status, body |-> w.body]
  /\ w.step \in WalkStates /\ w.depth \in 0..MaxLeafDepth
  /\ w.step # "idle" => At("open")
  /\ w.step \in {"look", "leaf"} => AtLeaf(w)
  /\ w.step = "leaf" => w.entry # NoEntry /\ w.entry.run = 0

WalkInv ==
  /\ DOMAIN walk = Readers
  /\ \A r \in Readers : WalkOK(walk[r]) /\ (walk[r].step = "leaf" <=> pc[r] # "idle")

\* The directories that EntryFor looks into.
LEMMA EntryOfDirectory ==
  ASSUME load.release \in Releases, NEW e \in {NoEntry} \cup LeafEntries(TheFile), NEW id
  PROVE  EntryFor(id, e) = Find(DirectoryAt(TheFile, e), id)
  BY DEF EntryFor, Directory, TheFile

LEMMA StartsAtRoot ==
  ASSUME load.release \in Releases, NEW id, EntryFor(id, NoEntry) # NoEntry, EntryFor(id, NoEntry).run = 0
  PROVE  EntryFor(id, NoEntry) \in LeavesAt(TheFile, 0)
  BY EntryOfDirectory, FoundInDirectory DEF LeavesAt

LEMMA GoesDeeper ==
  ASSUME load.release \in Releases, NEW d \in 0..2, NEW e \in LeavesAt(TheFile, d), NEW id,
         EntryFor(id, e) # NoEntry, EntryFor(id, e).run = 0
  PROVE  EntryFor(id, e) \in LeavesAt(TheFile, d + 1)
<1>1. e \in LeafEntries(TheFile)
  BY LeavesOfFile
<1> QED
  BY <1>1, EntryOfDirectory, FoundInDirectory, LeavesBelow

\* The key of such an entry is a key of the cache.
LEMMA KeyIsKnown ==
  ASSUME load.release \in Releases, NEW d \in 0..MaxLeafDepth, NEW e \in LeavesAt(TheFile, d)
  PROVE  Key(e) \in Keys
<1>1. e \in LeafEntries(File[load.release])
  BY LeavesOfFile DEF TheFile, MaxLeafDepth
<1> QED
  BY <1>1, PlanetAssumption DEF Key
LEMMA OpenKnown == ASSUME OpeningInv, At("open") PROVE load.release \in Releases
  BY DEF OpeningInv, LoadOK, At

\* An open archive stays open.
LEMMA OpenStays == ASSUME At("open"), [Next]_vars PROVE load' = load
<1>1. ~BeginLoad /\ ~LoadStep
  BY DEF BeginLoad, LoadStep, ReadSmallFile, PointerRead, ManifestRead, ArchiveSized, HeaderRead,
         RootRead, LoadBroken, Underway, At
<1>2. Environment => load' = load
  BY DEF Environment, Fault, Deadline, MovePointer, RemoveRelease
<1>3. \A c \in Callers : StoreStep(c) => load' = load
  BY DEF StoreStep, loadVars
<1>4. ASSUME NEW r \in Readers PROVE ReaderStep(r) => load' = load
  BY DEF ReaderStep, NoTile, ReadTile, GetLeaf, LoadLeaf, StoreLeaf, LeafReturned, TileRead, Stay, loadVars
<1>5. \A r \in Readers : (\E t \in Wanted, copy \in Copies : Ask(r, t, copy)) => load' = load
  BY DEF Ask, loadVars
<1>6. UNCHANGED vars => load' = load
  BY DEF vars, loadVars
<1> QED
  BY <1>1, <1>2, <1>3, <1>4, <1>5, <1>6 DEF Next

\* What a request is at depends on nothing but the release that is open.
LEMMA WalkStays ==
  ASSUME NEW w, WalkOK(w), load' = load \/ w.step = "idle"
  PROVE  WalkOK(w)'
  BY DEF WalkOK, AtLeaf, TheFile, At

\* A request that is at a leaf directory has a key of the cache.
LEMMA AtKey ==
  ASSUME OpeningInv, WalkInv, NEW r \in Readers, walk[r].step \in {"look", "leaf"},
         walk[r].entry # NoEntry, walk[r].entry.run = 0
  PROVE  Key(walk[r].entry) \in Keys
<1>1. WalkOK(walk[r]) /\ load.release \in Releases
  BY OpenKnown DEF WalkInv, WalkOK
<1> QED
  BY <1>1, KeyIsKnown DEF WalkOK, AtLeaf

\* Every step of a request is one of the cache, or leaves the cache alone.
LEMMA ReaderUsesCache ==
  ASSUME FlightInv, OpeningInv, WalkInv, NEW r \in Readers, ReaderStep(r)
  PROVE  [DirNext]_dirVars
<1>1. CASE NoTile(r) \/ ReadTile(r) \/ TileRead(r)
  BY <1>1 DEF NoTile, ReadTile, TileRead
<1>2. CASE GetLeaf(r)
  <2>1. PICK k : k = Key(walk[r].entry)
    OBVIOUS
  <2>2. k \in Keys
    BY <1>2, <2>1, AtKey DEF GetLeaf
  <2>3. Hit(r, k) \/ Join(r, k) \/ StartLoad(r, k)
    BY <1>2, <2>1 DEF GetLeaf
  <2> QED
    BY <2>2, <2>3 DEF DirNext
<1>3. CASE LoadLeaf(r)
  <2>1. PICK outcome : outcome \in {want[r], Failed} /\ Load(r, outcome)
    BY <1>3 DEF LoadLeaf
  <2>2. outcome \in Outcomes
    BY <2>1 DEF Load, FlightInv, InGet, Outcomes
  <2> QED
    BY <2>1, <2>2 DEF DirNext
<1>4. CASE StoreLeaf(r)
  BY <1>4 DEF StoreLeaf, DirNext
<1>5. CASE LeafReturned(r)
  BY <1>5 DEF LeafReturned, DirNext
<1> QED
  BY <1>1, <1>2, <1>3, <1>4, <1>5 DEF ReaderStep

LEMMA UsesCache ==
  ASSUME FlightInv, OpeningInv, WalkInv, [Next]_vars
  PROVE  [DirNext]_dirVars
  BY ReaderUsesCache DEF Next, Ask, vars

----------------------------------------------------------------------------
(* Requests keep to the file.                                              *)

\* A request that rests.
LEMMA RestOK ==
  ASSUME NEW id, NEW copy, NEW status, NEW body
  PROVE  WalkOK(Rest(id, copy, status, body)) /\ Rest(id, copy, status, body).step = "idle"
  BY DEF WalkOK, Rest, WalkStates, MaxLeafDepth

\* One request moves, the others stay where they are.
LEMMA OneWalks ==
  ASSUME WalkInv, NEW r \in Readers, load' = load, NEW w, walk' = [walk EXCEPT ![r] = w],
         WalkOK(w), w.step = "leaf" <=> pc'[r] # "idle",
         \A s \in Readers \ {r} : pc'[s] = pc[s]
  PROVE  WalkInv'
<1>1. DOMAIN walk' = Readers /\ walk'[r] = w /\ \A s \in Readers \ {r} : walk'[s] = walk[s]
  BY DEF WalkInv
<1>2. ASSUME NEW s \in Readers
      PROVE  WalkOK(walk[s])' /\ (walk'[s].step = "leaf" <=> pc'[s] # "idle")
  <2>1. PICK v : v = walk'[s] /\ WalkOK(v) /\ (v.step = "leaf" <=> pc'[s] # "idle")
    BY <1>1 DEF WalkInv
  <2>2. WalkOK(v)'
    BY <2>1, WalkStays
  <2> QED
    BY <2>1, <2>2 DEF WalkOK, AtLeaf
<1> QED
  BY <1>1, <1>2 DEF WalkInv
LEMMA RestKeeps ==
  ASSUME WalkInv, NEW r \in Readers, load' = load, pc'[r] = "idle",
         \A s \in Readers \ {r} : pc'[s] = pc[s],
         NEW id, NEW copy, NEW status, NEW body,
         walk' = [walk EXCEPT ![r] = Rest(id, copy, status, body)]
  PROVE  WalkInv'
<1>1. PICK w : w = Rest(id, copy, status, body)
  OBVIOUS
<1>2. WalkOK(w) /\ w.step = "idle"
  BY <1>1, RestOK
<1> QED
  BY <1>1, <1>2, OneWalks

LEMMA RefusedKeeps ==
  ASSUME WalkInv, NEW r \in Readers, load' = load, pc'[r] = "idle",
         \A s \in Readers \ {r} : pc'[s] = pc[s],
         NEW status, walk' = [walk EXCEPT ![r] = Refused(status)]
  PROVE  WalkInv'
<1>1. PICK w : w = Refused(status)
  OBVIOUS
<1>2. WalkOK(w) /\ w.step = "idle"
  BY <1>1 DEF Refused, WalkOK, Rest, WalkStates, MaxLeafDepth
<1> QED
  BY <1>1, <1>2, OneWalks

LEMMA AnswerKeeps ==
  ASSUME WalkInv, NEW r \in Readers, load' = load, pc'[r] = "idle",
         \A s \in Readers \ {r} : pc'[s] = pc[s],
         Fail(r) \/ \E status, body : Answer(r, status, body)
  PROVE  WalkInv'
<1>1. CASE Fail(r)
  <2>1. PICK status : status = 500
    OBVIOUS
  <2>2. walk' = [walk EXCEPT ![r] = Refused(status)]
    BY <1>1, <2>1 DEF Fail
  <2> QED
    BY <2>2, RefusedKeeps
<1>2. ASSUME NEW status, NEW body, Answer(r, status, body) PROVE WalkInv'
  <2>1. walk' = [walk EXCEPT ![r] = Rest(walk[r].id, walk[r].copy, status, body)]
    BY <1>2 DEF Answer, WalkInv
  <2> QED
    BY <2>1, RestKeeps
<1> QED
  BY <1>1, <1>2

LEMMA DescendKeeps ==
  ASSUME OpeningInv, WalkInv, NEW r \in Readers, load' = load, pc'[r] = "idle",
         \A s \in Readers \ {r} : pc'[s] = pc[s], Descend(r),
         walk[r].step \in {"look", "leaf"}, walk[r].entry # NoEntry, walk[r].entry.run = 0
  PROVE  WalkInv'
<1> DEFINE e == walk[r].entry
           d == walk[r].depth
<1>1. CASE ~(d < MaxLeafDepth)
  BY <1>1, AnswerKeeps DEF Descend
<1>2. CASE d < MaxLeafDepth
  <2>1. d \in 0..2 /\ e \in LeavesAt(TheFile, d) /\ At("open") /\ load.release \in Releases
    BY <1>2, OpenKnown DEF WalkInv, WalkOK, AtLeaf, MaxLeafDepth
  <2>2. PICK f : f = EntryFor(walk[r].id, e)
    OBVIOUS
  <2>3. f # NoEntry /\ f.run = 0 => f \in LeavesAt(TheFile, d + 1)
    BY <2>1, <2>2, GoesDeeper
  <2>4. PICK w : w = [walk[r] EXCEPT !.step = "look", !.depth = d + 1, !.entry = f]
    OBVIOUS
  <2>5. walk' = [walk EXCEPT ![r] = w]
    BY <1>2, <2>2, <2>4 DEF Descend, WalkInv
  <2>6. w = [step |-> "look", id |-> walk[r].id, copy |-> walk[r].copy, entry |-> f,
             depth |-> d + 1, status |-> walk[r].status, body |-> walk[r].body]
    <3>1. WalkOK(walk[r])
      BY DEF WalkInv
    <3> QED
      BY <2>4, <3>1 DEF WalkOK
  <2>7. WalkOK(w)
    BY <2>1, <2>3, <2>6 DEF WalkOK, AtLeaf, WalkStates, MaxLeafDepth
  <2> QED
    BY <2>5, <2>6, <2>7, OneWalks
<1> QED
  BY <1>1, <1>2

\* A request goes on to another step where it is.
LEMMA StepKeeps ==
  ASSUME WalkInv, NEW r \in Readers, load' = load, NEW step \in {"leaf", "tile"},
         walk' = [walk EXCEPT ![r].step = step], walk[r].step = "look",
         step = "leaf" => walk[r].entry # NoEntry /\ walk[r].entry.run = 0,
         step = "leaf" <=> pc'[r] # "idle", \A s \in Readers \ {r} : pc'[s] = pc[s]
  PROVE  WalkInv'
<1>1. PICK w : w = [walk[r] EXCEPT !.step = step]
  OBVIOUS
<1>2. walk' = [walk EXCEPT ![r] = w]
  BY <1>1 DEF WalkInv
<1>3. w = [step |-> step, id |-> walk[r].id, copy |-> walk[r].copy, entry |-> walk[r].entry,
           depth |-> walk[r].depth, status |-> walk[r].status, body |-> walk[r].body]
  BY <1>1 DEF WalkInv, WalkOK
<1>4. WalkOK(w)
  BY <1>3 DEF WalkInv, WalkOK, AtLeaf, WalkStates
<1> QED
  BY <1>2, <1>3, <1>4, OneWalks

\* The three ways a request can go on from its question.
Walk(step, id, copy, entry, depth, status, body) ==
  [step |-> step, id |-> id, copy |-> copy, entry |-> entry, depth |-> depth,
   status |-> status, body |-> body]

SetOut(id, copy) == [step |-> "look", id |-> id, copy |-> copy, entry |-> EntryFor(id, NoEntry),
                     depth |-> 0, status |-> 0, body |-> <<>>]

LEMMA AskMoves ==
  ASSUME NEW r, NEW t, NEW copy, Ask(r, t, copy)
  PROVE  /\ ~OnGrid(t) => walk' = [walk EXCEPT ![r] = Refused(400)]
         /\ OnGrid(t) /\ ~InZooms(t[1], TheHeader) =>
              walk' = [walk EXCEPT ![r] = Rest(TileId(t), copy, 204, <<>>)]
         /\ OnGrid(t) /\ InZooms(t[1], TheHeader) =>
              walk' = [walk EXCEPT ![r] = SetOut(TileId(t), copy)]
<1>1. PICK id, no, look : id = TileId(t) /\ no = Rest(id, copy, 204, <<>>) /\ look = SetOut(id, copy)
  OBVIOUS
<1>2. PICK e : e = EntryFor(id, NoEntry)
  OBVIOUS
<1>3. [no EXCEPT !.step = "look", !.status = 0, !.entry = EntryFor(no.id, NoEntry)] = look
  <2>1. no.id = id
    BY <1>1 DEF Rest
  <2>2. [no EXCEPT !.step = "look", !.status = 0, !.entry = e]
          = Walk("look", id, copy, e, 0, 0, <<>>)
    <3>1. PICK a, b, c, d, z, f, empty : /\ a = "idle" /\ b = 204 /\ c = "look" /\ d = 0
                                         /\ z = 0 /\ f = NoEntry /\ empty = <<>>
      OBVIOUS
    <3>2. no = Walk(a, id, copy, f, z, b, empty)
      BY <1>1, <3>1 DEF Rest, Walk
    <3>3. PICK w1 : w1 = [no EXCEPT !.step = c]
      OBVIOUS
    <3>4. w1 = Walk(c, id, copy, f, z, b, empty)
      BY <3>2, <3>3 DEF Walk
    <3>5. PICK w2 : w2 = [w1 EXCEPT !.status = d]
      OBVIOUS
    <3>6. w2 = Walk(c, id, copy, f, z, d, empty)
      BY <3>4, <3>5 DEF Walk
    <3>7. PICK w3 : w3 = [w2 EXCEPT !.entry = e]
      OBVIOUS
    <3>8. w3 = Walk(c, id, copy, e, z, d, empty)
      BY <3>6, <3>7 DEF Walk
    <3>9. w3 = [no EXCEPT !.step = c, !.status = d, !.entry = e]
      BY <3>3, <3>5, <3>7
    <3> QED
      BY <3>1, <3>8, <3>9
  <2> QED
    BY ZenonT(60), <1>1, <1>2, <2>1, <2>2 DEF SetOut, Walk
<1>4. walk' = [walk EXCEPT ![r] =
        CASE ~OnGrid(t)                              -> Refused(400)
          [] OnGrid(t) /\ ~InZooms(t[1], TheHeader) -> no
          [] OTHER -> [no EXCEPT !.step = "look", !.status = 0, !.entry = EntryFor(no.id, NoEntry)]]
  BY <1>1 DEF Ask
<1>5. PICK out : out = CASE ~OnGrid(t)                              -> Refused(400)
                         [] OnGrid(t) /\ ~InZooms(t[1], TheHeader) -> no
                         [] OTHER                                  -> look
  OBVIOUS
<1>6. walk' = [walk EXCEPT ![r] = out]
  BY <1>3, <1>4, <1>5
<1>7. /\ ~OnGrid(t) => out = Refused(400)
      /\ OnGrid(t) /\ ~InZooms(t[1], TheHeader) => out = no
      /\ OnGrid(t) /\ InZooms(t[1], TheHeader) => out = look
  BY <1>5
<1> QED
  BY <1>1, <1>6, <1>7

LEMMA AskKeeps ==
  ASSUME OpeningInv, WalkInv, NEW r \in Readers, NEW t, NEW copy, Ask(r, t, copy)
  PROVE  WalkInv'
<1>1. load' = load /\ pc' = pc /\ pc[r] = "idle" /\ At("open") /\ load.release \in Releases
  BY OpenKnown DEF Ask, loadVars, dirVars, WalkInv
<1> DEFINE id    == TileId(t)
           asked == Rest(id, copy, 204, <<>>)
<1>2. CASE ~OnGrid(t)
  <2>1. walk' = [walk EXCEPT ![r] = Refused(400)]
    BY <1>2, AskMoves
  <2> QED
    BY ZenonT(60), <1>1, <2>1, RefusedKeeps
<1>3. CASE OnGrid(t) /\ ~InZooms(t[1], TheHeader)
  <2>1. walk' = [walk EXCEPT ![r] = Rest(id, copy, 204, <<>>)]
    BY <1>3, AskMoves
  <2> QED
    BY ZenonT(60), <1>1, <2>1, RestKeeps
<1>4. CASE OnGrid(t) /\ InZooms(t[1], TheHeader)
  <2>1. PICK e : e = EntryFor(id, NoEntry)
    OBVIOUS
  <2>2. PICK w : w = [step |-> "look", id |-> id, copy |-> copy, entry |-> e, depth |-> 0,
                      status |-> 0, body |-> <<>>]
    OBVIOUS
  <2>3. walk' = [walk EXCEPT ![r] = w]
    BY <1>4, <2>1, <2>2, AskMoves DEF SetOut
  <2>4. e # NoEntry /\ e.run = 0 => e \in LeavesAt(TheFile, 0)
    BY <1>1, <2>1, StartsAtRoot
  <2>5. WalkOK(w)
    BY <1>1, <2>2, <2>4 DEF WalkOK, AtLeaf, WalkStates, MaxLeafDepth
  <2> QED
    BY <1>1, <2>2, <2>3, <2>5, OneWalks
<1> QED
  BY <1>2, <1>3, <1>4

LEMMA GetLeafKeeps ==
  ASSUME FlightInv, OpeningInv, WalkInv, NEW r \in Readers, load' = load, GetLeaf(r)
  PROVE  WalkInv'
<1>1. walk[r].step = "look" /\ walk[r].entry # NoEntry /\ walk[r].entry.run = 0 /\ pc[r] = "idle"
  BY DEF GetLeaf, WalkInv
<1>2. PICK k : k = Key(walk[r].entry)
  OBVIOUS
<1>3. CASE Hit(r, k) /\ Descend(r)
  BY <1>1, <1>3, DescendKeeps DEF Hit
<1>4. CASE (Join(r, k) \/ StartLoad(r, k)) /\ walk' = [walk EXCEPT ![r].step = "leaf"]
  <2>1. \E label \in {"wait", "load"} : \E f : Move(r, label, k, f)
    BY <1>4 DEF Join, StartLoad
  <2>2. pc'[r] # "idle" /\ \A s \in Readers \ {r} : pc'[s] = pc[s]
    BY <2>1, Moved DEF FlightInv
  <2> QED
    BY <1>1, <1>4, <2>2, StepKeeps
<1> QED
  BY <1>2, <1>3, <1>4 DEF GetLeaf

LEMMA LoadAndStoreKeep ==
  ASSUME FlightInv, WalkInv, NEW r \in Readers, load' = load, LoadLeaf(r) \/ StoreLeaf(r)
  PROVE  WalkInv'
<1>1. walk' = walk /\ pc[r] # "idle"
  BY DEF LoadLeaf, StoreLeaf, Load, Store
<1>2. \E label \in {"store", "release"} : Move(r, label, want[r], flight[r])
  BY DEF LoadLeaf, StoreLeaf, Load, Store
<1>3. pc'[r] # "idle" /\ \A s \in Readers \ {r} : pc'[s] = pc[s]
  BY <1>2, Moved DEF FlightInv
<1> QED
  BY <1>1, <1>3 DEF WalkInv, WalkOK, AtLeaf, TheFile, At

LEMMA LeafReturnedKeeps ==
  ASSUME FlightInv, OpeningInv, WalkInv, NEW r \in Readers, load' = load, LeafReturned(r)
  PROVE  WalkInv'
<1>1. pc[r] # "idle" /\ Move(r, "idle", NoKey, NoFlight)
  BY DEF LeafReturned, Return, Wake, Leave
<1>2. pc'[r] = "idle" /\ \A s \in Readers \ {r} : pc'[s] = pc[s]
  BY <1>1, Moved DEF FlightInv
<1>3. walk[r].step = "leaf" /\ walk[r].entry # NoEntry /\ walk[r].entry.run = 0
  BY <1>1 DEF WalkInv, WalkOK
<1>4. Fail(r) \/ Descend(r)
  BY DEF LeafReturned
<1> QED
  BY <1>2, <1>3, <1>4, AnswerKeeps, DescendKeeps

LEMMA TilesKeep ==
  ASSUME WalkInv, NEW r \in Readers, load' = load, NoTile(r) \/ ReadTile(r) \/ TileRead(r)
  PROVE  WalkInv'
<1>1. pc' = pc /\ walk[r].step \in {"look", "tile"} /\ pc[r] = "idle"
  BY DEF NoTile, ReadTile, TileRead, dirVars, WalkInv
<1>2. CASE ReadTile(r)
  BY <1>1, <1>2, StepKeeps DEF ReadTile
<1>3. CASE NoTile(r) \/ TileRead(r)
  BY <1>1, <1>3, AnswerKeeps DEF NoTile, TileRead
<1> QED
  BY <1>2, <1>3

\* Nobody else moves a request.
LEMMA OthersLeaveWalks ==
  ASSUME WalkInv, [Next]_vars, UNCHANGED <<dirVars, walk>>
  PROVE  WalkInv'
<1>1. ASSUME NEW r \in Readers PROVE WalkOK(walk[r])'
  <2>1. PICK w : w = walk[r] /\ WalkOK(w)
    BY DEF WalkInv
  <2>2. w.step = "idle" \/ load' = load
    BY <2>1, OpenStays DEF WalkOK
  <2> QED
    BY <2>1, <2>2, WalkStays DEF WalkOK, AtLeaf
<1> QED
  BY <1>1 DEF WalkInv, dirVars

LEMMA WalkInvariant ==
  ASSUME FlightInv, OpeningInv, WalkInv, [Next]_vars
  PROVE  WalkInv'
<1>1. CASE UNCHANGED <<dirVars, walk>>
  BY <1>1, OthersLeaveWalks
<1>2. ASSUME NEW r \in Readers, ReaderStep(r) PROVE WalkInv'
  <2>1. At("open")
    BY <1>2 DEF ReaderStep, NoTile, ReadTile, GetLeaf, LoadLeaf, StoreLeaf, LeafReturned, TileRead,
                Load, Store, Return, Wake, WalkInv, WalkOK
  <2>2. load' = load
    BY <2>1, OpenStays
  <2> QED
    BY <1>2, <2>2, TilesKeep, GetLeafKeeps, LoadAndStoreKeep, LeafReturnedKeeps DEF ReaderStep
<1>3. ASSUME NEW r \in Readers, NEW t \in Wanted, NEW copy \in Copies, Ask(r, t, copy)
      PROVE  WalkInv'
  BY <1>3, AskKeeps
<1> QED
  BY <1>1, <1>2, <1>3 DEF Next, vars

----------------------------------------------------------------------------
(* What the theorems of DirCache say of this system.                       *)

PlanetInv == FlightInv /\ OpeningInv /\ WalkInv

LEMMA PlanetInit == Init => PlanetInv
<1>1. Init => WalkInv
  BY RestOK DEF Init, WalkInv, NoWalk, Refused, Rest, DirInit
<1> QED
  BY <1>1, LoadInit0, InitFlights DEF Init, PlanetInv

LEMMA PlanetStep == PlanetInv /\ [Next]_vars => PlanetInv' /\ [DirNext]_dirVars
<1> SUFFICES ASSUME PlanetInv, [Next]_vars PROVE PlanetInv' /\ [DirNext]_dirVars
  OBVIOUS
<1>1. FlightInv /\ OpeningInv /\ WalkInv
  BY DEF PlanetInv
<1>2. [DirNext]_dirVars
  BY <1>1, UsesCache
<1> QED
  BY <1>1, <1>2, NextFlights, LoadInvariant, WalkInvariant DEF PlanetInv

\* Requests for tiles use the cache of leaf directories as its specification says.
THEOREM RequestsUseTheCache == Spec => DirSpec
<1>1. Init => DirInit
  BY DEF Init
<1> QED
  BY <1>1, PlanetInit, PlanetStep, PTL DEF Spec, DirSpec

(* Requests for tiles never load a leaf directory twice at a time, nor one *)
(* that is cached (Reader.leaf, dirCache.get).                             *)
THEOREM TilesShareLoads == Spec => []SingleFlight
  BY RequestsUseTheCache, OneLoadPerLeaf, PTL

(* A request that waits for a leaf directory gets that one or the error of *)
(* its load, and somebody is on the way to release it.                     *)
THEOREM TilesAreNotLeftWaiting == Spec => []WaitersGetTheirs
  BY RequestsUseTheCache, WaitersAreServed, PTL

(* The cache of leaf directories counts what it holds, and stays within    *)
(* its budget, whatever requests for tiles do (dirCache).                  *)
THEOREM TilesAreAccounted == Spec => []Accounted
  BY RequestsUseTheCache, EntriesAccounted, PTL

----------------------------------------------------------------------------
(* Loops.  S[i] is what holds of the state after i turns, as a set.        *)

\* There are states after all turns of a loop: f[i][a] is what turn i makes of a.
Runs(n, start, f) ==
  \E V : \E s \in [0..n -> V] : s[0] = start /\ \A i \in 1..n : s[i] = f[i][s[i - 1]]

LEMMA LoopRuns ==
  ASSUME NEW n \in Nat, NEW start, NEW f
  PROVE  Runs(n, start, f)
<1> DEFINE Run(m, s) == s = [i \in 0..m |-> IF i = 0 THEN start ELSE f[i][s[i - 1]]]
           T == {m \in Nat : \E s : Run(m, s)}
<1>1. 0 \in T
  <2> DEFINE s == [i \in 0..0 |-> start]
  <2>1. s = [i \in 0..0 |-> IF i = 0 THEN start ELSE f[i][s[i - 1]]]
    OBVIOUS
  <2> HIDE DEF s
  <2> QED
    BY <2>1
<1>2. ASSUME NEW m \in Nat, m \in T PROVE m + 1 \in T
  <2>1. PICK s : Run(m, s)
    BY <1>2
  <2> DEFINE u == [i \in 0..(m + 1) |-> IF i = 0 THEN start ELSE f[i][s[i - 1]]]
  <2>2. ASSUME NEW i \in 0..m PROVE u[i] = s[i]
    <3>1. s[i] = IF i = 0 THEN start ELSE f[i][s[i - 1]]
      BY <2>1
    <3> QED
      BY <3>1
  <2>3. ASSUME NEW i \in 0..(m + 1)
        PROVE  (IF i = 0 THEN start ELSE f[i][s[i - 1]]) = IF i = 0 THEN start ELSE f[i][u[i - 1]]
    <3>1. i # 0 => i - 1 \in 0..m
      OBVIOUS
    <3>2. i # 0 => u[i - 1] = s[i - 1]
      BY <2>2, <3>1
    <3> HIDE DEF u
    <3> QED
      BY <3>2
  <2>4. u = [i \in 0..(m + 1) |-> IF i = 0 THEN start ELSE f[i][u[i - 1]]]
    BY <2>3
  <2> HIDE DEF u
  <2>5. Run(m + 1, u)
    BY <2>4
  <2> QED
    BY <2>5
<1>3. n \in T
  <2> HIDE DEF T
  <2> QED
    BY <1>1, <1>2, NatSetInduction
<1>4. PICK s : Run(n, s)
  BY <1>3
<1>5. s \in [0..n -> {s[i] : i \in 0..n}]
  BY <1>4
<1>6. s[0] = start /\ \A i \in 1..n : s[i] = f[i][s[i - 1]]
  BY <1>4
<1> QED
  BY <1>5, <1>6 DEF Runs

\* What every turn keeps holds to the end.
LEMMA LoopKeeps ==
  ASSUME NEW n \in Nat, NEW s, NEW S, s[0] \in S[0],
         \A i \in 1..n : s[i - 1] \in S[i - 1] => s[i] \in S[i]
  PROVE  \A i \in 0..n : s[i] \in S[i]
<1> DEFINE T == {m \in Nat : m <= n => s[m] \in S[m]}
<1>1. 0 \in T
  OBVIOUS
<1>2. ASSUME NEW m \in Nat, m \in T PROVE m + 1 \in T
  <2>1. m + 1 <= n => m + 1 \in 1..n /\ (m + 1) - 1 = m
    OBVIOUS
  <2> QED
    BY <1>2, <2>1
<1>3. Nat \subseteq T
  <2> HIDE DEF T
  <2> QED
    BY <1>1, <1>2, NatSetInduction
<1> QED
  BY <1>3

----------------------------------------------------------------------------
(* Directories: what is read is what was written.                          *)

EntryType == [id : Nat, off : Nat, len : {n \in Nat : n <= MaxColumn}, run : {n \in Nat : n <= MaxColumn}]

\* What the loop of parseDirectory has made of the rows before the next.
Parsing == [id : Nat, off : Nat, es : Seq(EntryType)]
ParseTurn(rows, a, i) ==
  LET id  == a.id + rows[i].delta
      off == NextOffset(rows, a.off, i)
  IN [id |-> id, off |-> off + rows[i].len,
      es |-> Append(a.es, Entry(id, off, rows[i].len, rows[i].run))]
ParseStart == [id |-> 0, off |-> 0, es |-> <<>>]
ParseLoop(rows, n, s) ==
  s = [i \in 0..n |-> IF i = 0 THEN ParseStart ELSE ParseTurn(rows, s[i - 1], i)]

LEMMA ParseTurnTyped ==
  ASSUME NEW rows, NEW i, rows[i] \in Rows, rows[i].run <= MaxColumn, rows[i].len <= MaxColumn,
         NEW a \in Parsing
  PROVE  ParseTurn(rows, a, i) \in Parsing
<1>1. PICK row \in Rows : row = rows[i] /\ row.run <= MaxColumn /\ row.len <= MaxColumn
  OBVIOUS
<1>2. PICK id : id = a.id + row.delta
  OBVIOUS
<1>3. PICK off : off = NextOffset(rows, a.off, i)
  OBVIOUS
<1>4. id \in Nat /\ off \in Nat
  BY <1>1, <1>2, <1>3 DEF Rows, Parsing, NextOffset
<1>5. PICK e : e = Entry(id, off, row.len, row.run)
  OBVIOUS
<1>6. e \in EntryType
  BY <1>1, <1>4, <1>5 DEF Rows, EntryType, Entry
<1>7. Append(a.es, e) \in Seq(EntryType)
  BY <1>6 DEF Parsing
<1>8. off + row.len \in Nat
  BY <1>1, <1>4 DEF Rows
<1>9. ParseTurn(rows, a, i) = [id |-> id, off |-> off + row.len, es |-> Append(a.es, e)]
  BY <1>1, <1>2, <1>3, <1>5 DEF ParseTurn
<1> QED
  BY <1>4, <1>7, <1>8, <1>9 DEF Parsing

\* Parse is the end of its loop, which keeps what each of its turns keeps.
LEMMA ParseLoopEnds ==
  ASSUME NEW n \in Nat, NEW rows, Len(rows) = n, NEW S, ParseStart \in S[0],
         \A i \in 1..n : \A a \in S[i - 1] : ParseTurn(rows, a, i) \in S[i]
  PROVE  \E a \in S[n] : Parse(rows) = a.es
<1> DEFINE f == [i \in 1..n |-> [a \in S[i - 1] |-> ParseTurn(rows, a, i)]]
           s == CHOOSE t : ParseLoop(rows, n, t)
<1>1. \E t : ParseLoop(rows, n, t)
  <2>0. PICK V : \E t \in [0..n -> V] : t[0] = ParseStart /\ \A i \in 1..n : t[i] = f[i][t[i - 1]]
    <3> HIDE DEF f
    <3>1. Runs(n, ParseStart, f)
      BY LoopRuns
    <3> QED
      BY <3>1 DEF Runs
  <2>1. PICK t \in [0..n -> V] : t[0] = ParseStart /\ \A i \in 1..n : t[i] = f[i][t[i - 1]]
    BY <2>0
  <2>2. t[0] = ParseStart
    BY <2>1
  <2>3. \A i \in 1..n : t[i - 1] \in S[i - 1] => t[i] \in S[i]
    BY <2>1
  <2>4. \A i \in 0..n : t[i] \in S[i]
    <3> HIDE DEF f
    <3> QED
      BY <2>2, <2>3, LoopKeeps
  <2>5. ASSUME NEW i \in 1..n PROVE t[i] = ParseTurn(rows, t[i - 1], i)
    <3>1. i - 1 \in 0..n
      OBVIOUS
    <3>2. t[i - 1] \in S[i - 1]
      BY <2>4, <3>1
    <3> QED
      BY <2>1, <3>2
  <2>6. t = [i \in 0..n |-> IF i = 0 THEN ParseStart ELSE ParseTurn(rows, t[i - 1], i)]
    <3> HIDE DEF f
    <3> QED
      BY <2>1, <2>2, <2>5
  <2> QED
    BY <2>6 DEF ParseLoop
<1>2. ParseLoop(rows, n, s)
  BY <1>1
<1>3. Parse(rows) = s[n].es
  BY DEF Parse, Loop, ParseLoop, ParseTurn, ParseStart
<1> HIDE DEF s, f
<1>4. s[0] = ParseStart /\ \A i \in 1..n : s[i] = ParseTurn(rows, s[i - 1], i)
  BY <1>2 DEF ParseLoop
<1>5. \A i \in 0..n : s[i] \in S[i]
  <2>1. s[0] \in S[0]
    BY <1>4
  <2>2. \A i \in 1..n : s[i - 1] \in S[i - 1] => s[i] \in S[i]
    BY <1>4
  <2> QED
    BY <2>1, <2>2, LoopKeeps
<1> QED
  BY <1>3, <1>5

\* A decoded directory holds entries.
LEMMA ParsedEntries ==
  ASSUME NEW n \in Nat, NEW rows \in [1..n -> Rows], WellFormed(rows)
  PROVE  Parse(rows) \in Seq(EntryType)
<1> DEFINE S == [i \in 0..n |-> Parsing]
<1>1. Len(rows) = n
  OBVIOUS
<1>2. ParseStart \in S[0]
  BY EmptySeq DEF ParseStart, Parsing
<1>3. \A i \in 1..n : \A a \in S[i - 1] : ParseTurn(rows, a, i) \in S[i]
  <2>1. \A i \in 1..n : rows[i] \in Rows /\ rows[i].run <= MaxColumn /\ rows[i].len <= MaxColumn
    BY DEF WellFormed
  <2> QED
    BY <2>1, ParseTurnTyped
<1>4. S[n] = Parsing
  OBVIOUS
<1> HIDE DEF S
<1>5. \E a \in S[n] : Parse(rows) = a.es
  BY <1>1, <1>2, <1>3, ParseLoopEnds
<1> QED
  BY <1>4, <1>5 DEF Parsing

\* The first i entries of a directory, and where its decoding is after them.
Upto(es, i) == [id |-> IF i = 0 THEN 0 ELSE es[i].id,
                off |-> IF i = 0 THEN 0 ELSE es[i].off + es[i].len,
                es |-> SubSeq(es, 1, i)]

LEMMA EncodedRow ==
  ASSUME NEW es \in Seq(EntryType), NEW i \in 1..Len(es)
  PROVE  ParseTurn(Encode(es), Upto(es, i - 1), i) = Upto(es, i)
<1>1. Len(es) \in Nat /\ es[i] \in EntryType /\ (i > 1 => i - 1 \in 1..Len(es) /\ es[i - 1] \in EntryType)
  BY LenProperties, ElementOfSeq
<1>2. PICK e \in EntryType : e = es[i]
  BY <1>1
<1>3. PICK row : row = Encode(es)[i]
  OBVIOUS
<1>4. /\ row.delta = (IF i = 1 THEN e.id ELSE e.id - es[i - 1].id)
      /\ row.run = e.run /\ row.len = e.len
      /\ row.pos = IF Follows(es, i) THEN 0 ELSE e.off + 1
  BY <1>2, <1>3 DEF Encode
<1>5. PICK a : a = Upto(es, i - 1)
  OBVIOUS
<1>6. /\ a.id = (IF i = 1 THEN 0 ELSE es[i - 1].id)
      /\ a.off = (IF i = 1 THEN 0 ELSE es[i - 1].off + es[i - 1].len)
      /\ a.es = SubSeq(es, 1, i - 1)
  BY <1>5 DEF Upto
<1>7. a.id + row.delta = e.id
  <2>1. CASE i = 1
    BY <1>2, <1>4, <1>6, <2>1 DEF EntryType
  <2>2. CASE i # 1
    <3>1. i > 1
      BY <2>2
    <3>2. PICK p \in EntryType : p = es[i - 1]
      BY <1>1, <3>1
    <3>3. a.id = p.id /\ row.delta = e.id - p.id /\ p.id \in Nat /\ e.id \in Nat
      BY <1>4, <1>6, <2>2, <3>2 DEF EntryType
    <3> QED
      BY <3>3
  <2> QED
    BY <2>1, <2>2
<1>8. NextOffset(Encode(es), a.off, i) = e.off
  <2>1. CASE Follows(es, i)
    BY <1>1, <1>2, <1>3, <1>4, <1>6, <2>1 DEF Follows, NextOffset
  <2>2. CASE ~Follows(es, i)
    <3>1. e.off \in Nat /\ row.pos = e.off + 1
      BY <1>2, <1>4, <2>2 DEF EntryType
    <3>2. row.pos # 0 /\ row.pos - 1 = e.off
      BY <3>1
    <3> QED
      BY <1>3, <3>2 DEF NextOffset
  <2> QED
    BY <2>1, <2>2
<1>9. Entry(e.id, e.off, row.len, row.run) = e
  BY <1>2, <1>4 DEF Entry, EntryType
<1>10. Append(SubSeq(es, 1, i - 1), e) = SubSeq(es, 1, i)
  <2>1. /\ SubSeq(es, 1, i - 1) \in Seq(EntryType) /\ Len(SubSeq(es, 1, i - 1)) = i - 1
        /\ \A j \in 1..(i - 1) : SubSeq(es, 1, i - 1)[j] = es[j]
    <3>1. \A j \in 1..(i - 1) : es[j] \in EntryType
      BY <1>1, ElementOfSeq
    <3> QED
      BY <1>1, <3>1, SubSeqProperties
  <2>2. /\ SubSeq(es, 1, i) \in Seq(EntryType) /\ Len(SubSeq(es, 1, i)) = i
        /\ \A j \in 1..i : SubSeq(es, 1, i)[j] = es[j]
    <3>1. \A j \in 1..i : es[j] \in EntryType
      BY <1>1, ElementOfSeq
    <3> QED
      BY <1>1, <3>1, SubSeqProperties
  <2> DEFINE b == SubSeq(es, 1, i - 1)
             c == SubSeq(es, 1, i)
  <2>3. /\ Append(b, e) \in Seq(EntryType) /\ Len(Append(b, e)) = i
        /\ \A j \in 1..(i - 1) : Append(b, e)[j] = b[j]
        /\ Append(b, e)[i] = e
    <3>1. b \in Seq(EntryType) /\ Len(b) = i - 1 /\ e \in EntryType
      BY <2>1
    <3> HIDE DEF b
    <3>2. /\ Append(b, e) \in Seq(EntryType) /\ Len(Append(b, e)) = Len(b) + 1
          /\ \A j \in 1..Len(b) : Append(b, e)[j] = b[j]
          /\ Append(b, e)[Len(b) + 1] = e
      BY <3>1, AppendProperties
    <3>3. Len(b) + 1 = i
      BY <1>1, <3>1
    <3> QED
      BY <3>1, <3>2, <3>3
  <2> HIDE DEF b, c
  <2>4. \A j \in 1..i : Append(b, e)[j] = c[j]
    BY <1>2, <2>1, <2>2, <2>3 DEF b, c
  <2>5. Append(b, e) = c
    BY <2>2, <2>3, <2>4, SeqEqual DEF c
  <2> QED
    BY <2>5 DEF b, c
<1>11. ParseTurn(Encode(es), a, i) =
         [id |-> e.id, off |-> e.off + e.len, es |-> SubSeq(es, 1, i)]
  BY <1>3, <1>4, <1>6, <1>7, <1>8, <1>9, <1>10 DEF ParseTurn
<1>12. Upto(es, i) = [id |-> e.id, off |-> e.off + e.len, es |-> SubSeq(es, 1, i)]
  <2>1. i # 0
    OBVIOUS
  <2> QED
    BY <1>2, <2>1 DEF Upto
<1> QED
  BY <1>5, <1>11, <1>12

(* A directory is read as it was written: ids as differences and offsets   *)
(* left out, whatever the entries, as long as it is no larger than a block *)
(* may be (pmtilestest encode, parseDirectory).                            *)
THEOREM DirectoriesAreReadBack ==
  ASSUME NEW es \in Seq(EntryType)
  PROVE  Parse(Encode(es)) = es /\ (Len(es) <= MaxBlock => WellFormed(Encode(es)))
<1> DEFINE n == Len(es)
           S == [i \in 0..n |-> {Upto(es, i)}]
<1>1. n \in Nat /\ Len(Encode(es)) = n
  BY LenProperties DEF Encode
<1>2. ParseStart \in S[0]
  <2>1. SubSeq(es, 1, 0) = <<>>
    BY SubSeqEmpty
  <2>2. Upto(es, 0) = ParseStart
    BY <2>1 DEF Upto, ParseStart
  <2> QED
    BY <1>1, <2>2
<1>3. \A i \in 1..n : \A a \in S[i - 1] : ParseTurn(Encode(es), a, i) \in S[i]
  BY <1>1, EncodedRow
<1>4. S[n] = {Upto(es, n)}
  BY <1>1
<1>5. Parse(Encode(es)) = Upto(es, n).es
  <2> HIDE DEF S
  <2> QED
    BY <1>1, <1>2, <1>3, <1>4, ParseLoopEnds
<1>6. SubSeq(es, 1, n) = es
  <2>1. \A j \in 1..n : es[j] \in EntryType
    BY ElementOfSeq
  <2>2. /\ SubSeq(es, 1, n) \in Seq(EntryType) /\ Len(SubSeq(es, 1, n)) = n
        /\ \A j \in 1..n : SubSeq(es, 1, n)[j] = es[j]
    BY <1>1, <2>1, SubSeqProperties
  <2> QED
    BY <2>2, SeqEqual
<1>7. ASSUME NEW i \in DOMAIN Encode(es)
      PROVE  Encode(es)[i].run <= MaxColumn /\ Encode(es)[i].len <= MaxColumn
  <2>1. i \in 1..n
    BY DEF Encode
  <2>2. es[i] \in EntryType
    BY <2>1, ElementOfSeq
  <2>3. Encode(es)[i].run = es[i].run /\ Encode(es)[i].len = es[i].len
    BY <2>1 DEF Encode
  <2> QED
    BY <2>2, <2>3 DEF EntryType
<1>8. ASSUME n <= MaxBlock PROVE WellFormed(Encode(es))
  <2> SUFFICES ASSUME Encode(es) # <<>> PROVE Encode(es)[1].pos # 0
    BY <1>1, <1>7, <1>8 DEF WellFormed
  <2>1. n # 0
    BY <1>1 DEF Encode
  <2>2. 1 \in 1..n /\ es[1] \in EntryType
    BY <1>1, <2>1, ElementOfSeq
  <2>3. Encode(es)[1].pos = es[1].off + 1
    BY <2>2 DEF Encode, Follows
  <2>4. es[1].off \in Nat
    BY <2>2 DEF EntryType
  <2> QED
    BY <2>3, <2>4
<1> QED
  BY <1>5, <1>6, <1>8 DEF Upto
----------------------------------------------------------------------------
(* Where a lookup goes.                                                    *)

\* What find returns is an entry of the directory, or none.
LEMMA FoundIsEntry ==
  ASSUME NEW d \in Seq(EntryType), NEW id
  PROVE  Find(d, id) \in EntryType \cup {NoEntry}
<1> DEFINE found == {d[i] : i \in {j \in UpTo(d, id) : Covers(d[j], id) /\ \A l \in UpTo(d, id) : l <= j}}
<1>1. found \subseteq EntryType
  BY DEF UpTo
<1>2. found = {} => Find(d, id) = NoEntry
  BY DEF Find
<1>3. found # {} => Find(d, id) \in found
  BY DEF Find
<1> QED
  BY <1>1, <1>2, <1>3

\* A lookup in the file after d leaf directories.
Begun(file) == [dir |-> DirectoryAt(file, NoEntry), res |-> Outcome("going")]
Walked(file, id, d) ==
  CASE d = 0 -> Begun(file)
    [] d = 1 -> Visit(file, id, Begun(file))
    [] d = 2 -> Visit(file, id, Visit(file, id, Begun(file)))
    [] d = 3 -> Visit(file, id, Visit(file, id, Visit(file, id, Begun(file))))

Ended(w) == IF w.res.out = "going" THEN Outcome("error") ELSE w.res

LEMMA LookupUnrolled ==
  ASSUME NEW file, NEW id
  PROVE  Lookup(file, id) = Ended(Visit(file, id, Walked(file, id, 3)))
<1> DEFINE V(w) == Visit(file, id, w)
           IsWalk(s) == s = [i \in 0..4 |-> IF i = 0 THEN Begun(file) ELSE V(s[i - 1])]
           s == CHOOSE s : IsWalk(s)
<1>0. PICK a, b, c, d, e : a = Begun(file) /\ b = V(a) /\ c = V(b) /\ d = V(c) /\ e = V(d)
  OBVIOUS
<1>1. \E t : IsWalk(t)
  <2> DEFINE t == [i \in 0..4 |-> CASE i = 0 -> a [] i = 1 -> b [] i = 2 -> c [] i = 3 -> d [] i = 4 -> e]
  <2> HIDE DEF V
  <2>1. t[0] = a /\ t[1] = b /\ t[2] = c /\ t[3] = d /\ t[4] = e
    OBVIOUS
  <2>2. t = [i \in 0..4 |-> t[i]]
    OBVIOUS
  <2> HIDE DEF t
  <2>3. ASSUME NEW i \in 0..4 PROVE t[i] = IF i = 0 THEN Begun(file) ELSE V(t[i - 1])
    <3>1. i = 0 \/ i = 1 \/ i = 2 \/ i = 3 \/ i = 4
      OBVIOUS
    <3> QED
      BY <1>0, <2>1, <3>1
  <2> QED
    BY <2>2, <2>3
<1>2. IsWalk(s)
  BY <1>1
<1>3. s[4] = e
  <2> HIDE DEF V, s
  <2>1. s[0] = Begun(file) /\ s[1] = V(s[0]) /\ s[2] = V(s[1]) /\ s[3] = V(s[2]) /\ s[4] = V(s[3])
    BY <1>2
  <2> QED
    BY <1>0, <2>1
<1>4. Lookup(file, id) = IF s[4].res.out = "going" THEN Outcome("error") ELSE s[4].res
  BY DEF Lookup, Loop, Begun, MaxLeafDepth
<1>5. d = Walked(file, id, 3)
  BY <1>0 DEF Walked
<1> QED
  BY <1>0, <1>3, <1>4, <1>5 DEF Ended

\* A leaf directory that a lookup goes on in.
LeafRows(file, e) == Bytes(file, LeafOffset(file[1]) + e.off, e.len)
OpensLeaf(file, e) ==
  e # NoEntry /\ e.run = 0 /\ LeafInside(e, file[1]) /\ WellFormed(LeafRows(file, e))
HoldsTile(file, e) == e.run > 0 /\ TileInside(e, file[1])

\* One turn of the lookup.
LEMMA VisitTurns ==
  ASSUME NEW file, NEW id, NEW dir, NEW w, w = [dir |-> dir, res |-> Outcome("going")],
         NEW e, e = Find(dir, id)
  PROVE  LET v == Visit(file, id, w) IN
         /\ e = NoEntry => v.res = Outcome("none")
         /\ e # NoEntry /\ HoldsTile(file, e) =>
              v.res = Found(Bytes(file, DataOffset(file[1]) + e.off, e.len))
         /\ OpensLeaf(file, e) =>
              v = [dir |-> DirectoryAt(file, e), res |-> Outcome("going")]
         /\ e # NoEntry /\ ~HoldsTile(file, e) /\ ~OpensLeaf(file, e) => v.res = Outcome("error")
<1> DEFINE h == file[1]
           rows == LeafRows(file, e)
<1>1. w.res.out = "going" /\ w.dir = dir
  BY DEF Outcome
<1>2. NoEntry.run = 0
  BY DEF NoEntry, Entry
<1>3. CASE e = NoEntry
  <2>1. ~(e.run > 0)
    BY <1>2, <1>3
  <2>2. Visit(file, id, w) = [w EXCEPT !.res = Outcome("none")]
    BY <1>1, <1>3, <2>1 DEF Visit
  <2> QED
    BY <1>3, <2>2 DEF OpensLeaf
<1>4. CASE e # NoEntry /\ HoldsTile(file, e)
  <2>1. Visit(file, id, w) = [w EXCEPT !.res = Found(Bytes(file, DataOffset(h) + e.off, e.len))]
    BY <1>1, <1>4 DEF Visit, HoldsTile
  <2> QED
    BY <1>4, <2>1 DEF OpensLeaf, HoldsTile
<1>5. CASE OpensLeaf(file, e)
  <2>1. Visit(file, id, w) = [w EXCEPT !.dir = Parse(rows)]
    BY <1>1, <1>5 DEF Visit, OpensLeaf, LeafRows
  <2>2. Parse(rows) = DirectoryAt(file, e)
    BY <1>5 DEF DirectoryAt, LeafRows, OpensLeaf
  <2>3. ~(e.run > 0)
    BY <1>5 DEF OpensLeaf
  <2> QED
    BY <1>5, <2>1, <2>2, <2>3 DEF OpensLeaf, HoldsTile
<1>6. CASE e # NoEntry /\ ~HoldsTile(file, e) /\ ~OpensLeaf(file, e)
  <2>1. Visit(file, id, w) = [w EXCEPT !.res = Outcome("error")]
    BY <1>1, <1>6 DEF Visit, HoldsTile, OpensLeaf, LeafRows
  <2> QED
    BY <1>6, <2>1
<1> QED
  BY <1>3, <1>4, <1>5, <1>6
LEMMA EndedStays ==
  ASSUME NEW file, NEW id, NEW w, w.res.out # "going"
  PROVE  Visit(file, id, w) = w
  BY DEF Visit

\* What the entry that a lookup has come to says of its result.
LEMMA LookupFrom ==
  ASSUME NEW file, NEW id, NEW d \in 0..3, NEW dir,
         Walked(file, id, d) = [dir |-> dir, res |-> Outcome("going")],
         NEW e, e = Find(dir, id)
  PROVE  /\ e = NoEntry => Lookup(file, id) = Outcome("none")
         /\ e # NoEntry /\ HoldsTile(file, e) =>
              Lookup(file, id) = Found(Bytes(file, DataOffset(file[1]) + e.off, e.len))
         /\ e # NoEntry /\ ~HoldsTile(file, e) /\ ~OpensLeaf(file, e) => Lookup(file, id) = Outcome("error")
         /\ OpensLeaf(file, e) /\ d = 3 => Lookup(file, id) = Outcome("error")
         /\ OpensLeaf(file, e) /\ d < 3 =>
              Walked(file, id, d + 1) = [dir |-> DirectoryAt(file, e), res |-> Outcome("going")]
<1>1. PICK w, v : w = Walked(file, id, d) /\ v = Visit(file, id, w)
  OBVIOUS
<1>2. /\ e = NoEntry => v.res = Outcome("none")
      /\ e # NoEntry /\ HoldsTile(file, e) =>
           v.res = Found(Bytes(file, DataOffset(file[1]) + e.off, e.len))
      /\ OpensLeaf(file, e) => v = [dir |-> DirectoryAt(file, e), res |-> Outcome("going")]
      /\ e # NoEntry /\ ~HoldsTile(file, e) /\ ~OpensLeaf(file, e) => v.res = Outcome("error")
  BY <1>1, VisitTurns
<1>3. d < 3 => v = Walked(file, id, d + 1)
  <2>1. CASE d = 0
    BY <1>1, <2>1 DEF Walked
  <2>2. CASE d = 1
    BY <1>1, <2>2 DEF Walked
  <2>3. CASE d = 2
    BY <1>1, <2>3 DEF Walked
  <2> QED
    BY <2>1, <2>2, <2>3
<1>4. PICK last : last = Visit(file, id, Walked(file, id, 3)) /\ Lookup(file, id) = Ended(last)
  BY LookupUnrolled
<1>5. v.res.out # "going" \/ d = 3 => Lookup(file, id) = Ended(v)
  <2>1. CASE d = 3
    BY <1>1, <1>4, <2>1
  <2>2. CASE d # 3 /\ v.res.out # "going"
    <3>1. Visit(file, id, v) = v
      BY <2>2, EndedStays
    <3>2. CASE d = 2
      BY <1>3, <1>4, <3>1, <3>2
    <3>3. CASE d = 1
      <4>1. v = Walked(file, id, 2)
        BY <1>3, <3>3
      <4>2. Walked(file, id, 3) = Visit(file, id, Walked(file, id, 2))
        BY DEF Walked
      <4> QED
        BY <1>4, <3>1, <4>1, <4>2
    <3>4. CASE d = 0
      <4>1. v = Walked(file, id, 1)
        BY <1>3, <3>4
      <4>2. Walked(file, id, 3) = Visit(file, id, Visit(file, id, Walked(file, id, 1)))
        BY DEF Walked
      <4> QED
        BY <1>4, <3>1, <4>1, <4>2
    <3> QED
      BY <2>2, <3>2, <3>3, <3>4
  <2> QED
    BY <2>1, <2>2
<1>6. v.res.out # "going" => Lookup(file, id) = v.res
  BY <1>5 DEF Ended
<1>7. e = NoEntry => ~OpensLeaf(file, e)
  BY DEF OpensLeaf
<1>8. e # NoEntry /\ HoldsTile(file, e) => Lookup(file, id) = Found(Bytes(file, DataOffset(file[1]) + e.off, e.len))
  BY <1>2, <1>6 DEF Found
<1>9. e = NoEntry => Lookup(file, id) = Outcome("none")
  BY <1>2, <1>6 DEF Outcome
<1>10. e # NoEntry /\ ~HoldsTile(file, e) /\ ~OpensLeaf(file, e) => Lookup(file, id) = Outcome("error")
  BY <1>2, <1>6 DEF Outcome
<1>11. OpensLeaf(file, e) /\ d = 3 => Lookup(file, id) = Outcome("error")
  BY <1>2, <1>5 DEF Ended, Outcome
<1> QED
  BY <1>2, <1>3, <1>8, <1>9, <1>10, <1>11

----------------------------------------------------------------------------
(* Directories of directories: an entry of a level is for the entries of   *)
(* a leaf directory, up to the id of the next.                             *)

LEMMA EntriesOf ==
  ASSUME NEW d \in Seq(EntryType)
  PROVE  /\ Len(d) \in Nat /\ DOMAIN d = 1..Len(d)
         /\ \A q \in 1..Len(d) : /\ d[q] \in EntryType /\ d[q].id \in Nat
                                 /\ d[q].off \in Nat /\ d[q].len \in Nat /\ d[q].run \in Nat
<1>1. \A q \in 1..Len(d) : d[q] \in EntryType
  BY ElementOfSeq
<1>2. \A e \in EntryType : e.id \in Nat /\ e.off \in Nat /\ e.len \in Nat /\ e.run \in Nat
  BY DEF EntryType
<1>3. \A q \in 1..Len(d) : /\ d[q] \in EntryType /\ d[q].id \in Nat
                            /\ d[q].off \in Nat /\ d[q].len \in Nat /\ d[q].run \in Nat
  BY <1>1, <1>2
<1> QED
  BY <1>3, LenProperties

LEMMA FindsLast ==
  ASSUME NEW d \in Seq(EntryType), NEW id \in Nat, NEW p \in 1..Len(d), d[p].id <= id,
         \A q \in 1..Len(d) : q > p => d[q].id > id
  PROVE  Find(d, id) = IF Covers(d[p], id) THEN d[p] ELSE NoEntry
<1>1. Len(d) \in Nat /\ DOMAIN d = 1..Len(d) /\ \A q \in 1..Len(d) : d[q].id \in Nat
  BY EntriesOf
<1>2. p \in UpTo(d, id) /\ \A q \in UpTo(d, id) : q <= p /\ q \in 1..Len(d)
  BY <1>1 DEF UpTo
<1> DEFINE last == {j \in UpTo(d, id) : Covers(d[j], id) /\ \A l \in UpTo(d, id) : l <= j}
<1>3. last = IF Covers(d[p], id) THEN {p} ELSE {}
  <2>1. ASSUME NEW j \in last PROVE j = p
    <3>1. j \in UpTo(d, id) /\ p <= j
      BY <1>2
    <3>2. j <= p /\ j \in 1..Len(d)
      BY <1>2, <3>1
    <3> HIDE DEF last
    <3>3. j \in Nat /\ p \in Nat
      BY <1>1, <3>2
    <3> QED
      BY <3>1, <3>2, <3>3
  <2>2. p \in last <=> Covers(d[p], id)
    BY <1>2
  <2> HIDE DEF last
  <2> QED
    BY <2>1, <2>2
<1>4. Find(d, id) = LET found == {d[i] : i \in last} IN IF found = {} THEN NoEntry ELSE CHOOSE e \in found : TRUE
  BY DEF Find
<1> HIDE DEF last
<1>5. CASE Covers(d[p], id)
  <2>1. {d[i] : i \in last} = {d[p]}
    BY <1>3, <1>5
  <2> QED
    BY <1>4, <1>5, <2>1
<1>6. CASE ~Covers(d[p], id)
  <2>1. {d[i] : i \in last} = {}
    BY <1>3, <1>6
  <2> QED
    BY <1>4, <1>6, <2>1
<1> QED
  BY <1>5, <1>6

LEMMA FindsNone ==
  ASSUME NEW d \in Seq(EntryType), NEW id \in Nat, \A q \in 1..Len(d) : d[q].id > id
  PROVE  Find(d, id) = NoEntry
<1>1. DOMAIN d = 1..Len(d) /\ \A q \in 1..Len(d) : d[q].id \in Nat
  BY EntriesOf
<1>2. UpTo(d, id) = {}
  BY <1>1 DEF UpTo
<1> QED
  BY <1>2 DEF Find

Ascending(es) == \A i, j \in 1..Len(es) : i < j => es[i].id < es[j].id

\* Where find stops in a directory in order.
LEMMA LastUpTo ==
  ASSUME NEW d \in Seq(EntryType), Ascending(d), NEW id \in Nat,
         \E q \in 1..Len(d) : d[q].id <= id
  PROVE  \E p \in 1..Len(d) : d[p].id <= id /\ \A q \in 1..Len(d) : q > p => d[q].id > id
<1>1. Len(d) \in Nat /\ \A q \in 1..Len(d) : d[q].id \in Nat
  BY EntriesOf
<1> DEFINE S == {q \in 1..Len(d) : d[q].id <= id}
<1>2. S \in SUBSET Nat /\ S # {} /\ \A q \in S : q <= Len(d)
  BY <1>1
<1>3. Max(S) \in S /\ \A q \in S : q <= Max(S)
  <2> HIDE DEF S
  <2> QED
    BY <1>1, <1>2, LargestIsIn
<1>4. PICK p : p = Max(S)
  OBVIOUS
<1>5. p \in S /\ \A q \in S : q <= p
  BY <1>3, <1>4
<1>6. \A q \in 1..Len(d) : q > p => d[q].id > id
  BY <1>1, <1>5
<1> QED
  BY <1>5, <1>6

\* A part of a directory.
LEMMA PartOfDirectory ==
  ASSUME NEW T, NEW s \in Seq(T), NEW m \in Nat, NEW n \in Nat, m <= n, n <= Len(s)
  PROVE  /\ SubSeq(s, m + 1, n) \in Seq(T)
         /\ Len(SubSeq(s, m + 1, n)) = n - m
         /\ \A i \in 1..(n - m) : SubSeq(s, m + 1, n)[i] = s[m + i]
<1>1. Len(s) \in Nat /\ \A i \in (m + 1)..n : s[i] \in T
  BY LenProperties, ElementOfSeq
<1>2. /\ SubSeq(s, m + 1, n) \in Seq(T)
      /\ Len(SubSeq(s, m + 1, n)) = IF m + 1 <= n THEN n - (m + 1) + 1 ELSE 0
      /\ \A i \in 1..(n - (m + 1) + 1) : SubSeq(s, m + 1, n)[i] = s[(m + 1) + i - 1]
  BY <1>1, SubSeqProperties
<1>3. n - (m + 1) + 1 = n - m /\ \A i \in Nat : (m + 1) + i - 1 = m + i
  OBVIOUS
<1>4. PICK a : a = SubSeq(s, m + 1, n)
  OBVIOUS
<1>5. a \in Seq(T) /\ Len(a) = n - m
  BY <1>1, <1>2, <1>4
<1>6. ASSUME NEW i \in 1..(n - m) PROVE a[i] = s[m + i]
  <2>1. i \in 1..(n - (m + 1) + 1) /\ (m + 1) + i - 1 = m + i
    BY <1>1
  <2>2. a[i] = s[(m + 1) + i - 1]
    BY <1>2, <1>4, <2>1
  <2> QED
    BY <2>1, <2>2
<1> QED
  BY <1>4, <1>5, <1>6

\* new begins with old.
Keeps(old, new) == Len(old) <= Len(new) /\ \A i \in 1..Len(old) : new[i] = old[i]

LEMMA ConcatKeeps ==
  ASSUME NEW T, NEW s \in Seq(T), NEW t \in Seq(T)
  PROVE  s \o t \in Seq(T) /\ Keeps(s, s \o t)
<1>1. Len(s) \in Nat /\ Len(t) \in Nat
  BY LenProperties
<1>2. /\ s \o t \in Seq(T) /\ Len(s \o t) = Len(s) + Len(t)
      /\ \A i \in 1..Len(s) + Len(t) : (s \o t)[i] = IF i <= Len(s) THEN s[i] ELSE t[i - Len(s)]
  BY ConcatProperties
<1>3. \A i \in 1..Len(s) : i \in 1..Len(s) + Len(t) /\ i <= Len(s)
  BY <1>1
<1>4. \A i \in 1..Len(s) : (s \o t)[i] = s[i]
  BY <1>2, <1>3
<1> QED
  BY <1>1, <1>2, <1>4 DEF Keeps

LEMMA KeepsOn ==
  ASSUME NEW T, NEW s \in Seq(T), NEW t \in Seq(T), NEW u \in Seq(T), Keeps(s, t), Keeps(t, u)
  PROVE  Keeps(s, u)
<1>1. Len(s) \in Nat /\ Len(t) \in Nat /\ Len(u) \in Nat
  BY LenProperties
<1> QED
  BY <1>1 DEF Keeps

\* What a longer sequence has in a place that the shorter had.
LEMMA PartStays ==
  ASSUME NEW T, NEW s \in Seq(T), NEW u \in Seq(T), Keeps(s, u),
         NEW e \in EntryType, e.off + e.len <= Len(s)
  PROVE  Part(u, e) = Part(s, e)
<1>1. Len(s) \in Nat /\ Len(u) \in Nat /\ e.off \in Nat /\ e.len \in Nat
  BY LenProperties DEF EntryType
<1>4. u \in Seq(T) /\ e.off + e.len <= Len(u) /\ \A i \in 1..Len(s) : u[i] = s[i]
  BY <1>1 DEF Keeps
<1>5. PICK m \in Nat, n \in Nat : m = e.off /\ n = e.off + e.len
  BY <1>1
<1>6. m <= n /\ n <= Len(s) /\ n <= Len(u)
  BY <1>1, <1>4, <1>5
<1>7. PICK a, b : a = SubSeq(s, m + 1, n) /\ b = SubSeq(u, m + 1, n)
  OBVIOUS
<1>8. /\ a \in Seq(T) /\ Len(a) = n - m /\ \A i \in 1..(n - m) : a[i] = s[m + i]
      /\ b \in Seq(T) /\ Len(b) = n - m /\ \A i \in 1..(n - m) : b[i] = u[m + i]
  BY <1>4, <1>6, <1>7, PartOfDirectory
<1>9. \A i \in 1..(n - m) : m + i \in 1..Len(s)
  BY <1>1, <1>6
<1>10. a = b
  <2>1. \A i \in 1..Len(a) : a[i] = b[i]
    BY <1>4, <1>8, <1>9
  <2> QED
    BY <1>8, <2>1, SeqEqual
<1> QED
  BY <1>5, <1>7, <1>10 DEF Part

\* What was put behind a sequence.
LEMMA PartAdded ==
  ASSUME NEW T, NEW s \in Seq(T), NEW t \in Seq(T), NEW e \in EntryType,
         e.off = Len(s), e.len = Len(t)
  PROVE  Part(s \o t, e) = t
<1>1. Len(s) \in Nat /\ Len(t) \in Nat
  BY LenProperties
<1>2. PICK u : u = s \o t
  OBVIOUS
<1>3. /\ u \in Seq(T) /\ Len(u) = Len(s) + Len(t)
      /\ \A i \in 1..Len(s) + Len(t) : u[i] = IF i <= Len(s) THEN s[i] ELSE t[i - Len(s)]
  BY <1>2, ConcatProperties
<1>4. PICK m \in Nat, k \in Nat : m = Len(s) /\ k = Len(t)
  BY <1>1
<1>5. PICK b : b = SubSeq(u, m + 1, m + k)
  OBVIOUS
<1>6. b \in Seq(T) /\ Len(b) = (m + k) - m /\ \A i \in 1..((m + k) - m) : b[i] = u[m + i]
  BY <1>3, <1>4, <1>5, PartOfDirectory
<1>7. ASSUME NEW i \in 1..k PROVE b[i] = t[i]
  <2>1. m + i \in 1..(Len(s) + Len(t)) /\ ~(m + i <= Len(s)) /\ m + i - Len(s) = i
    BY <1>4
  <2>2. u[m + i] = t[m + i - Len(s)]
    BY <1>3, <2>1
  <2>3. i \in 1..((m + k) - m)
    BY <1>4
  <2>4. b[i] = u[m + i]
    BY <1>6, <2>3
  <2> QED
    BY <2>1, <2>2, <2>4
<1>8. Len(b) = Len(t)
  BY <1>4, <1>6
<1>9. b = t
  BY <1>4, <1>6, <1>7, <1>8, SeqEqual
<1> QED
  BY <1>2, <1>4, <1>5, <1>9 DEF Part

LEMMA PartAscends ==
  ASSUME NEW es \in Seq(EntryType), Ascending(es), NEW m \in Nat, NEW n \in Nat, m <= n, n <= Len(es)
  PROVE  Ascending(SubSeq(es, m + 1, n))
<1>1. PICK c : c = SubSeq(es, m + 1, n)
  OBVIOUS
<1>2. Len(c) = n - m /\ \A i \in 1..(n - m) : c[i] = es[m + i]
  BY <1>1, PartOfDirectory
<1>3. Ascending(c)
  <2> SUFFICES ASSUME NEW i \in 1..(n - m), NEW j \in 1..(n - m), i < j PROVE c[i].id < c[j].id
    BY <1>2 DEF Ascending
  <2>1. m + i \in 1..Len(es) /\ m + j \in 1..Len(es) /\ m + i < m + j
    BY EntriesOf
  <2>2. es[m + i].id < es[m + j].id
    BY <2>1 DEF Ascending
  <2> QED
    BY <1>2, <2>2
<1> QED
  BY <1>1, <1>3

\* The rows of a directory in order hold unsigned numbers.
LEMMA EncodedRows ==
  ASSUME NEW es \in Seq(EntryType), Ascending(es)
  PROVE  Encode(es) \in Seq(Rows) /\ Len(Encode(es)) = Len(es)
<1>1. PICK n \in Nat : n = Len(es)
  BY EntriesOf
<1>2. ASSUME NEW i \in 1..n PROVE Encode(es)[i] \in Rows
  <2>1. PICK e \in EntryType : e = es[i]
    BY <1>1, EntriesOf
  <2>2. e.id \in Nat /\ e.off \in Nat /\ e.len \in Nat /\ e.run \in Nat
    BY DEF EntryType
  <2>3. PICK delta : delta = IF i = 1 THEN es[i].id ELSE es[i].id - es[i - 1].id
    OBVIOUS
  <2>4. delta \in Nat
    <3>1. CASE i = 1
      BY <2>1, <2>2, <2>3, <3>1
    <3>2. CASE i # 1
      <4>1. i - 1 \in 1..Len(es) /\ i \in 1..Len(es) /\ i - 1 < i
        BY <1>1, <3>2
      <4>2. es[i - 1].id < es[i].id /\ es[i - 1].id \in Nat
        BY <4>1, EntriesOf DEF Ascending
      <4> QED
        BY <2>1, <2>2, <2>3, <3>2, <4>2
    <3> QED
      BY <3>1, <3>2
  <2>5. PICK pos : pos = IF Follows(es, i) THEN 0 ELSE es[i].off + 1
    OBVIOUS
  <2>6. pos \in Nat
    BY <2>1, <2>2, <2>5
  <2>7. Encode(es)[i] = [delta |-> delta, run |-> e.run, len |-> e.len, pos |-> pos]
    BY <1>1, <2>1, <2>3, <2>5 DEF Encode
  <2> QED
    BY <2>2, <2>4, <2>6, <2>7 DEF Rows
<1>3. Encode(es) = [i \in 1..n |-> Encode(es)[i]]
  BY <1>1 DEF Encode
<1>4. Encode(es) \in [1..n -> Rows]
  BY <1>2, <1>3
<1> QED
  BY <1>1, <1>4

----------------------------------------------------------------------------
(* Splitting a level: its chunks become leaf directories.                  *)

Count(n, l) == (n + l - 1) \div l
Chunk(es, l, j) == SubSeq(es, (j - 1) * l + 1, Min({j * l, Len(es)}))

LEMMA MinOfTwo ==
  ASSUME NEW a \in Int, NEW b \in Int
  PROVE  Min({a, b}) = IF a <= b THEN a ELSE b
  BY DEF Min

LEMMA Quotient ==
  ASSUME NEW a \in Nat, NEW l \in Nat \ {0}
  PROVE  a \div l \in Nat /\ (a \div l) * l <= a /\ a < (a \div l) * l + l
  OBVIOUS

LEMMA Multiples ==
  ASSUME NEW a \in Nat, NEW b \in Nat, NEW l \in Nat \ {0}
  PROVE  /\ a * l \in Nat /\ (a + 1) * l = a * l + l
         /\ a <= b => a * l <= b * l
         /\ a * l < b * l + l => a <= b
  OBVIOUS

\* Chunk j is es[m + 1], ..., es[k].
LEMMA ChunkIsPart ==
  ASSUME NEW es \in Seq(EntryType), NEW l \in Nat \ {0}, NEW j \in 1..Count(Len(es), l)
  PROVE  \E m, k \in Nat : /\ m = (j - 1) * l /\ m < k /\ k <= Len(es)
                           /\ k <= j * l /\ (k = j * l \/ k = Len(es))
                           /\ Chunk(es, l, j) = SubSeq(es, m + 1, k)
<1>1. PICK n \in Nat : n = Len(es)
  BY EntriesOf
<1>2. PICK c \in Nat : c = Count(n, l) /\ c * l <= n + l - 1 /\ n + l - 1 < c * l + l
  <2>1. n + l - 1 \in Nat
    OBVIOUS
  <2> QED
    BY <2>1, Quotient DEF Count
<1>3. j \in Nat /\ j - 1 \in Nat /\ j <= c
  BY <1>1, <1>2
<1>4. PICK m \in Nat : m = (j - 1) * l
  BY <1>3, Multiples
<1>5. j * l = m + l /\ j * l <= c * l /\ j * l \in Nat
  <2>1. (j - 1) + 1 = j
    BY <1>3
  <2>2. j * l = m + l
    BY <1>3, <1>4, <2>1, Multiples
  <2>3. j * l <= c * l
    BY <1>2, <1>3, Multiples
  <2> QED
    BY <1>4, <2>2, <2>3
<1>6. PICK k : k = Min({j * l, Len(es)})
  OBVIOUS
<1>7. k = IF j * l <= n THEN j * l ELSE n
  BY <1>1, <1>5, <1>6, MinOfTwo
<1>8. PICK x \in Nat, y \in Nat : x = j * l /\ y = c * l
  BY <1>2, <1>5, Multiples
<1>9. k \in Nat /\ m < k /\ k <= n /\ k <= x /\ (k = x \/ k = n)
  BY <1>2, <1>5, <1>7, <1>8
<1>10. Chunk(es, l, j) = SubSeq(es, m + 1, k)
  BY <1>4, <1>6 DEF Chunk
<1> QED
  BY <1>1, <1>4, <1>8, <1>9, <1>10

\* Every entry is in a chunk.
LEMMA InSomeChunk ==
  ASSUME NEW n \in Nat, NEW l \in Nat \ {0}, NEW p \in 1..n
  PROVE  \E j \in 1..Count(n, l) : (j - 1) * l < p /\ p <= j * l
<1>1. PICK c \in Nat : c = Count(n, l) /\ c * l <= n + l - 1 /\ n + l - 1 < c * l + l
  <2>1. n + l - 1 \in Nat
    OBVIOUS
  <2> QED
    BY <2>1, Quotient DEF Count
<1>2. PICK q \in Nat : q = (p - 1) \div l /\ q * l <= p - 1 /\ p - 1 < q * l + l
  <2>1. p - 1 \in Nat
    OBVIOUS
  <2> QED
    BY <2>1, Quotient
<1>3. PICK x \in Nat, y \in Nat : x = q * l /\ y = c * l
  BY <1>1, <1>2, Multiples
<1>4. (q + 1) * l = x + l /\ (q + 1) \in Nat
  BY <1>3, Multiples
<1>5. x + l < y + l
  BY <1>1, <1>2, <1>3
<1>6. q + 1 <= c
  BY <1>1, <1>3, <1>4, <1>5, Multiples
<1>7. (q + 1) - 1 = q /\ q + 1 \in 1..c
  BY <1>6
<1>8. x < p /\ p <= x + l
  BY <1>2, <1>3
<1> QED
  BY <1>1, <1>3, <1>4, <1>7, <1>8

\* A level and the leaf directories written so far.
LevelType == [level : Seq(EntryType), leaves : Seq(Rows)]

\* e is the entry for the leaf directory c.
Pointing(e, c, leaves) ==
  /\ e \in EntryType /\ e.id = c[1].id /\ e.len = Len(c) /\ e.run = 0
  /\ e.off + e.len <= Len(leaves) /\ Part(leaves, e) = Encode(c)

\* The first j chunks are written.
Written(es, l, old, j) ==
  {b \in LevelType : /\ Len(b.level) = j /\ Keeps(old, b.leaves)
                     /\ \A i \in 1..j : Pointing(b.level[i], Chunk(es, l, i), b.leaves)}

SplitTurn(es, l, b, j) ==
  [level |-> Append(b.level, Entry(Chunk(es, l, j)[1].id, Len(b.leaves), Len(Chunk(es, l, j)), 0)),
   leaves |-> b.leaves \o Encode(Chunk(es, l, j))]

LEMMA ChunkTyped ==
  ASSUME NEW es \in Seq(EntryType), Ascending(es), NEW l \in Nat \ {0}, NEW j \in 1..Count(Len(es), l),
         NEW c, c = Chunk(es, l, j)
  PROVE  /\ c \in Seq(EntryType) /\ Ascending(c) /\ Len(c) \in Nat \ {0} /\ c[1] \in EntryType
         /\ Encode(c) \in Seq(Rows) /\ Len(Encode(c)) = Len(c) /\ Len(c) <= l
<1>0. \E m, k \in Nat : /\ m = (j - 1) * l /\ m < k /\ k <= Len(es)
                         /\ k <= j * l /\ (k = j * l \/ k = Len(es))
                         /\ Chunk(es, l, j) = SubSeq(es, m + 1, k)
  BY ZenonT(60), ChunkIsPart
<1>1. PICK m \in Nat, k \in Nat : m < k /\ k <= Len(es) /\ Chunk(es, l, j) = SubSeq(es, m + 1, k)
  BY <1>0
<1>2. c \in Seq(EntryType) /\ Len(c) = k - m
  BY <1>1, PartOfDirectory
<1>6. Len(c) <= l
  <2>1. PICK x \in Nat, y \in Nat : /\ x = (j - 1) * l /\ x < y /\ y <= Len(es) /\ y <= j * l
                                 /\ Chunk(es, l, j) = SubSeq(es, x + 1, y)
    BY <1>0
  <2>2. j - 1 \in Nat /\ (j - 1) + 1 = j
    OBVIOUS
  <2>3. j * l = x + l
    BY <2>1, <2>2, Multiples
  <2>4. PICK z : z = j * l
    OBVIOUS
  <2>5. y <= x + l /\ x <= y /\ y <= Len(es) /\ c = SubSeq(es, x + 1, y)
    BY <2>1, <2>3
  <2>6. Len(SubSeq(es, x + 1, y)) = y - x
    BY <2>5, PartOfDirectory
  <2> QED
    BY <2>5, <2>6
<1>3. Ascending(c)
  BY <1>1, PartAscends
<1>4. Encode(c) \in Seq(Rows) /\ Len(Encode(c)) = Len(c)
  BY <1>2, <1>3, EncodedRows
<1>5. Len(c) \in Nat \ {0} /\ 1 \in 1..Len(c)
  BY <1>1, <1>2
<1> QED
  BY <1>2, <1>3, <1>4, <1>5, <1>6, EntriesOf

LEMMA SplitTurnWrites ==
  ASSUME NEW es \in Seq(EntryType), Ascending(es), NEW l \in Nat \ {0}, NEW j \in 1..Count(Len(es), l),
         l <= MaxBlock, NEW old \in Seq(Rows), NEW b \in Written(es, l, old, j - 1)
  PROVE  SplitTurn(es, l, b, j) \in Written(es, l, old, j)
<1>1. PICK c : c = Chunk(es, l, j)
  OBVIOUS
<1>2. /\ c \in Seq(EntryType) /\ Len(c) \in Nat /\ c[1] \in EntryType /\ Len(c) <= l
      /\ Encode(c) \in Seq(Rows) /\ Len(Encode(c)) = Len(c)
  BY <1>1, ChunkTyped
<1>19. Len(c) <= MaxColumn /\ 0 <= MaxColumn
  BY <1>2, FormatAssumption
<1>3. PICK level \in Seq(EntryType), leaves \in Seq(Rows) : level = b.level /\ leaves = b.leaves
  BY DEF Written, LevelType
<1>4. PICK rows \in Seq(Rows) : rows = Encode(c)
  BY <1>2
<1>5. PICK e : e = Entry(c[1].id, Len(leaves), Len(c), 0)
  OBVIOUS
<1>6. Len(leaves) \in Nat /\ Len(level) \in Nat /\ Len(rows) = Len(c)
  BY <1>2, <1>4, LenProperties
<1>7. c[1].id \in Nat
  BY <1>2 DEF EntryType
<1>8. e \in EntryType /\ e.id = c[1].id /\ e.off = Len(leaves) /\ e.len = Len(c) /\ e.run = 0
  BY <1>2, <1>5, <1>6, <1>7, <1>19 DEF Entry, EntryType
<1>9. PICK more, up : more = leaves \o rows /\ up = Append(level, e)
  OBVIOUS
<1>10. more \in Seq(Rows) /\ Keeps(leaves, more) /\ Len(more) = Len(leaves) + Len(rows)
  BY <1>9, ConcatKeeps, ConcatProperties
<1>11. /\ up \in Seq(EntryType) /\ Len(up) = Len(level) + 1 /\ up[Len(level) + 1] = e
       /\ \A i \in 1..Len(level) : up[i] = level[i]
  BY <1>8, <1>9, AppendProperties
<1>12. SplitTurn(es, l, b, j) = [level |-> up, leaves |-> more]
  BY <1>1, <1>3, <1>4, <1>5, <1>9 DEF SplitTurn
<1>13. Pointing(e, c, more)
  <2>1. Part(more, e) = rows
    BY <1>6, <1>8, <1>9, PartAdded
  <2> QED
    BY <1>4, <1>6, <1>8, <1>10, <2>1 DEF Pointing
<1>14. /\ Len(level) = j - 1 /\ Keeps(old, leaves)
       /\ \A i \in 1..(j - 1) : Pointing(level[i], Chunk(es, l, i), leaves)
  BY <1>3 DEF Written
<1>15. Keeps(old, more)
  BY <1>10, <1>14, KeepsOn
<1>16. ASSUME NEW i \in 1..j PROVE Pointing(up[i], Chunk(es, l, i), more)
  <2>1. CASE i = j
    <3>1. i = Len(level) + 1
      BY <1>6, <1>14, <2>1
    <3> QED
      BY <1>1, <1>11, <1>13, <2>1, <3>1
  <2>2. CASE i # j
    <3>1. i \in 1..(j - 1) /\ i \in 1..Len(level)
      BY <1>14, <2>2
    <3>2. PICK d : d = level[i]
      OBVIOUS
    <3>3. Pointing(d, Chunk(es, l, i), leaves) /\ up[i] = d
      BY <1>11, <1>14, <3>1, <3>2
    <3>4. d \in EntryType /\ d.off + d.len <= Len(leaves)
      BY <3>3 DEF Pointing
    <3>5. Part(more, d) = Part(leaves, d)
      BY <1>10, <3>4, PartStays
    <3>6. d.off + d.len <= Len(more)
      <4>1. d.off \in Nat /\ d.len \in Nat
        BY <3>4 DEF EntryType
      <4> QED
        BY <1>6, <1>10, <3>4, <4>1, LenProperties
    <3> QED
      BY <3>3, <3>5, <3>6 DEF Pointing
  <2> QED
    BY <2>1, <2>2
<1>17. Len(up) = j
  BY <1>6, <1>11, <1>14
<1>18. [level |-> up, leaves |-> more] \in LevelType
  BY <1>10, <1>11 DEF LevelType
<1> QED
  BY <1>12, <1>15, <1>16, <1>17, <1>18 DEF Written

LEMMA SplitWrites ==
  ASSUME NEW a \in LevelType, Ascending(a.level), NEW l \in Nat \ {0}, l <= MaxBlock
  PROVE  SplitLevel(a, l) \in Written(a.level, l, a.leaves, Count(Len(a.level), l))
<1>1. PICK es \in Seq(EntryType), old \in Seq(Rows) : es = a.level /\ old = a.leaves
  BY DEF LevelType
<1>2. PICK n \in Nat : n = Count(Len(es), l)
  <2>1. Len(es) + l - 1 \in Nat
    BY EntriesOf
  <2> QED
    BY <2>1, Quotient DEF Count
<1> DEFINE start == [level |-> <<>>, leaves |-> old]
           IsRun(t) == t = [i \in 0..n |-> IF i = 0 THEN start ELSE SplitTurn(es, l, t[i - 1], i)]
           S == [i \in 0..n |-> Written(es, l, old, i)]
           f == [i \in 1..n |-> [b \in S[i - 1] |-> SplitTurn(es, l, b, i)]]
           s == CHOOSE t : IsRun(t)
<1>3. start \in S[0]
  <2>1. start \in LevelType /\ Len(start.level) = 0 /\ Keeps(old, start.leaves)
    BY EmptySeq, LenProperties DEF LevelType, Keeps
  <2> QED
    BY <2>1 DEF Written
<1>4. ASSUME NEW i \in 1..n, NEW b \in S[i - 1] PROVE SplitTurn(es, l, b, i) \in S[i]
  <2>1. i - 1 \in 0..n /\ i \in 0..n /\ i \in 1..Count(Len(es), l)
    BY <1>2
  <2>2. b \in Written(es, l, old, i - 1)
    BY <2>1
  <2>3. SplitTurn(es, l, b, i) \in Written(es, l, old, i)
    BY <1>1, <2>1, <2>2, SplitTurnWrites
  <2> QED
    BY <2>1, <2>3
<1>5. \E t : IsRun(t)
  <2>0. PICK V : \E t \in [0..n -> V] : t[0] = start /\ \A i \in 1..n : t[i] = f[i][t[i - 1]]
    <3> HIDE DEF f, start
    <3>1. Runs(n, start, f)
      BY LoopRuns
    <3> QED
      BY <3>1 DEF Runs
  <2>1. PICK t \in [0..n -> V] : t[0] = start /\ \A i \in 1..n : t[i] = f[i][t[i - 1]]
    BY <2>0
  <2>2. ASSUME NEW i \in 1..n, t[i - 1] \in S[i - 1] PROVE t[i] = SplitTurn(es, l, t[i - 1], i)
    <3> HIDE DEF S, start
    <3> QED
      BY <2>1, <2>2
  <2>3. \A i \in 0..n : t[i] \in S[i]
    <3>1. \A i \in 1..n : t[i - 1] \in S[i - 1] => t[i] \in S[i]
      BY <1>4, <2>2
    <3> HIDE DEF S, start, f
    <3> QED
      BY <1>3, <2>1, <3>1, LoopKeeps
  <2>4. ASSUME NEW i \in 1..n PROVE t[i] = SplitTurn(es, l, t[i - 1], i)
    <3>1. i - 1 \in 0..n
      OBVIOUS
    <3>2. t[i - 1] \in S[i - 1]
      BY <2>3, <3>1
    <3> QED
      BY <2>2, <3>2
  <2>5. t = [i \in 0..n |-> IF i = 0 THEN start ELSE SplitTurn(es, l, t[i - 1], i)]
    <3> HIDE DEF start, f, S
    <3> QED
      BY <2>1, <2>4
  <2> QED
    BY <2>5
<1>6. IsRun(s)
  <2> HIDE DEF IsRun
  <2> QED
    BY <1>5
<1>7. SplitLevel(a, l) = s[n]
  BY <1>1, <1>2 DEF SplitLevel, Loop, SplitTurn, Count, Chunk
<1> HIDE DEF s, f
<1>8. s[0] = start /\ \A i \in 1..n : s[i] = SplitTurn(es, l, s[i - 1], i)
  <2> HIDE DEF start
  <2> QED
    BY <1>6
<1>9. \A i \in 0..n : s[i] \in S[i]
  <2>1. s[0] \in S[0] /\ \A i \in 1..n : s[i - 1] \in S[i - 1] => s[i] \in S[i]
    BY <1>3, <1>4, <1>8
  <2> HIDE DEF S, IsRun
  <2> QED
    BY <2>1, LoopKeeps
<1>10. s[n] \in Written(es, l, old, n)
  BY <1>9
<1> QED
  BY <1>1, <1>2, <1>7, <1>10

\* With e = NoEntry there is no tile; otherwise find in e's leaf directory is find in es.
Resolves(e, es, leaves, id) ==
  \/ e = NoEntry /\ Find(es, id) = NoEntry
  \/ /\ e \in EntryType /\ e.run = 0 /\ e.len # 0 /\ e.len <= MaxBlock /\ e.off + e.len <= Len(leaves)
     /\ WellFormed(Part(leaves, e)) /\ Find(Parse(Part(leaves, e)), id) = Find(es, id)

\* A lookup may start in the level up in place of es.
Leads(up, es, leaves) == \A id \in Nat : Resolves(Find(up, id), es, leaves, id)

LEMMA LeadsStays ==
  ASSUME NEW up, NEW es, NEW s \in Seq(Rows), NEW u \in Seq(Rows), Keeps(s, u), Leads(up, es, s)
  PROVE  Leads(up, es, u)
<1> SUFFICES ASSUME NEW id \in Nat, NEW e, e = Find(up, id) PROVE Resolves(e, es, u, id)
  BY DEF Leads
<1>1. Resolves(e, es, s, id)
  BY DEF Leads
<1>2. CASE e = NoEntry /\ Find(es, id) = NoEntry
  BY <1>2 DEF Resolves
<1>3. CASE ~(e = NoEntry /\ Find(es, id) = NoEntry)
  <2>1. e \in EntryType /\ e.off + e.len <= Len(s)
    BY <1>1, <1>3 DEF Resolves
  <2>2. Part(u, e) = Part(s, e)
    BY <2>1, PartStays
  <2>3. e.off + e.len <= Len(u)
    <3>1. Len(s) \in Nat /\ Len(u) \in Nat /\ e.off \in Nat /\ e.len \in Nat
      BY <2>1, LenProperties DEF EntryType
    <3> QED
      BY <2>1, <3>1 DEF Keeps
  <2>4. /\ e.run = 0 /\ e.len # 0 /\ e.len <= MaxBlock /\ WellFormed(Part(s, e))
        /\ Find(Parse(Part(s, e)), id) = Find(es, id)
    BY <1>1, <1>3 DEF Resolves
  <2>5. WellFormed(Part(u, e)) /\ Find(Parse(Part(u, e)), id) = Find(es, id)
    BY <2>2, <2>4
  <2> QED
    BY <2>1, <2>3, <2>4, <2>5 DEF Resolves
<1> QED
  BY <1>2, <1>3

\* The first id of a chunk.
LEMMA ChunkStarts ==
  ASSUME NEW es \in Seq(EntryType), NEW l \in Nat \ {0}, NEW j \in 1..Count(Len(es), l)
  PROVE  /\ (j - 1) * l \in Nat /\ (j - 1) * l + 1 \in 1..Len(es)
         /\ Chunk(es, l, j)[1] = es[(j - 1) * l + 1]
<1>1. PICK m \in Nat, k \in Nat : /\ m = (j - 1) * l /\ m < k /\ k <= Len(es)
                                  /\ Chunk(es, l, j) = SubSeq(es, m + 1, k)
  BY ZenonT(60), ChunkIsPart
<1>2. \A i \in 1..(k - m) : SubSeq(es, m + 1, k)[i] = es[m + i]
  BY <1>1, PartOfDirectory
<1>3. 1 \in 1..(k - m)
  BY <1>1
<1>4. Chunk(es, l, j)[1] = es[m + 1]
  BY <1>1, <1>2, <1>3
<1>5. m + 1 \in 1..Len(es)
  BY <1>1, EntriesOf
<1> QED
  BY <1>1, <1>4, <1>5

LEMMA ChunksAscend ==
  ASSUME NEW es \in Seq(EntryType), Ascending(es), NEW l \in Nat \ {0},
         NEW i \in 1..Count(Len(es), l), NEW j \in 1..Count(Len(es), l), i < j
  PROVE  Chunk(es, l, i)[1].id < Chunk(es, l, j)[1].id
<1>1. PICK m \in Nat, k \in Nat : m = (i - 1) * l /\ k = (j - 1) * l
  BY ChunkStarts
<1>2. /\ m + 1 \in 1..Len(es) /\ Chunk(es, l, i)[1] = es[m + 1]
      /\ k + 1 \in 1..Len(es) /\ Chunk(es, l, j)[1] = es[k + 1]
  BY <1>1, ChunkStarts
<1>3. m + l <= k
  <2>1. i \in Nat /\ i - 1 \in Nat /\ j - 1 \in Nat /\ (i - 1) + 1 <= j - 1
    BY DEF Count
  <2>2. ((i - 1) + 1) * l = m + l
    BY <1>1, <2>1, Multiples
  <2>3. ((i - 1) + 1) * l <= k
    BY <1>1, <2>1, Multiples
  <2> QED
    BY <2>2, <2>3
<1>4. m + 1 < k + 1
  BY <1>3
<1> QED
  BY <1>2, <1>4 DEF Ascending

\* A lookup that starts in the new level finds what it would find in the old one.
LEMMA WrittenLeads ==
  ASSUME NEW es \in Seq(EntryType), Ascending(es), NEW l \in Nat \ {0}, l <= MaxBlock, NEW old,
         NEW b \in Written(es, l, old, Count(Len(es), l))
  PROVE  Ascending(b.level) /\ Leads(b.level, es, b.leaves)
<1>1. PICK n \in Nat : n = Count(Len(es), l)
  <2>1. Len(es) + l - 1 \in Nat
    BY EntriesOf
  <2> QED
    BY <2>1, Quotient DEF Count
<1>2. PICK up \in Seq(EntryType), leaves \in Seq(Rows) : up = b.level /\ leaves = b.leaves
  BY DEF Written, LevelType
<1>3. Len(up) = n /\ \A j \in 1..n : Pointing(up[j], Chunk(es, l, j), leaves)
  BY <1>1, <1>2 DEF Written
<1>4. \A j \in 1..n : up[j].id = Chunk(es, l, j)[1].id
  BY <1>3 DEF Pointing
<1>5. Ascending(up)
  BY <1>1, <1>3, <1>4, ChunksAscend DEF Ascending
<1>6. Leads(up, es, leaves)
  <2> SUFFICES ASSUME NEW id \in Nat, NEW e, e = Find(up, id) PROVE Resolves(e, es, leaves, id)
    BY DEF Leads
  <2>1. CASE \E q \in 1..Len(es) : es[q].id <= id
    <3>1. PICK p \in 1..Len(es) : es[p].id <= id /\ \A q \in 1..Len(es) : q > p => es[q].id > id
      BY <2>1, LastUpTo
    <3>2. PICK j \in 1..n : (j - 1) * l < p /\ p <= j * l
      BY <1>1, <3>1, InSomeChunk, EntriesOf
    <3>3. PICK m \in Nat, k \in Nat : /\ m = (j - 1) * l /\ m < k /\ k <= Len(es)
                                      /\ k <= j * l /\ (k = j * l \/ k = Len(es))
                                      /\ Chunk(es, l, j) = SubSeq(es, m + 1, k)
      BY <1>1, ChunkIsPart
    <3>4. PICK c : c = Chunk(es, l, j)
      OBVIOUS
    <3>5. c \in Seq(EntryType) /\ Len(c) = k - m /\ \A i \in 1..(k - m) : c[i] = es[m + i]
      <4>1. c = SubSeq(es, m + 1, k) /\ k <= Len(es) /\ m < k
        BY <3>3, <3>4
      <4>2. m <= k
        BY <4>1
      <4>3. /\ SubSeq(es, m + 1, k) \in Seq(EntryType) /\ Len(SubSeq(es, m + 1, k)) = k - m
            /\ \A i \in 1..(k - m) : SubSeq(es, m + 1, k)[i] = es[m + i]
        <5>1. k <= Len(es)
          BY <4>1
        <5> QED
          BY SMTT(30), <4>2, <5>1, PartOfDirectory
      <4> QED
        BY <4>1, <4>3
    <3>6. m < p /\ p <= k
      <4>1. p \in Nat /\ p <= Len(es) /\ Len(es) \in Nat
        BY EntriesOf
      <4> QED
        BY <3>2, <3>3, <4>1
    <3>7. PICK i \in Nat : i = p - m
      BY <3>6, EntriesOf
    <3>8. i \in 1..Len(c) /\ c[i] = es[p]
      <4>1. i \in 1..(k - m) /\ m + i = p
        BY <3>6, <3>7, EntriesOf
      <4> QED
        BY <3>5, <4>1
    <3>9. Find(c, id) = Find(es, id)
      <4>1. ASSUME NEW q \in 1..Len(c), q > i PROVE c[q].id > id
        <5>1. q \in 1..(k - m) /\ m + q \in 1..Len(es) /\ m + q > p
          BY <3>3, <3>5, <3>7, <4>1, EntriesOf
        <5> QED
          BY <3>1, <3>5, <5>1
      <4>2. Find(c, id) = IF Covers(c[i], id) THEN c[i] ELSE NoEntry
        BY <3>1, <3>5, <3>8, <4>1, FindsLast
      <4>3. Find(es, id) = IF Covers(es[p], id) THEN es[p] ELSE NoEntry
        BY <3>1, FindsLast
      <4> QED
        BY <3>8, <4>2, <4>3
    <3>10. up[j].id <= id
      <4>1. up[j].id = es[m + 1].id /\ m + 1 \in 1..Len(es)
        BY <1>1, <1>4, <3>3, ChunkStarts
      <4>2. m + 1 = p \/ m + 1 < p
        BY <3>6, EntriesOf
      <4>3. es[m + 1].id <= es[p].id
        BY <4>1, <4>2, EntriesOf DEF Ascending
      <4> QED
        BY <3>1, <4>1, <4>3, EntriesOf
    <3>11. ASSUME NEW q \in 1..Len(up), q > j PROVE up[q].id > id
      <4>1. q \in 1..Count(Len(es), l) /\ q \in 1..n
        BY <1>1, <1>3
      <4>2. PICK x \in Nat : x = (q - 1) * l /\ x + 1 \in 1..Len(es) /\ Chunk(es, l, q)[1] = es[x + 1]
        BY <4>1, ChunkStarts
      <4>3. j * l <= x
        <5>1. j \in Nat /\ q - 1 \in Nat /\ j <= q - 1
          BY <3>11
        <5> QED
          BY <4>2, <5>1, Multiples
      <4>4. x + 1 > p
        <5>1. PICK y \in Nat : y = j * l
          BY Multiples
        <5>2. p <= y /\ y <= x /\ p \in Nat
          BY <3>2, <4>3, <5>1
        <5> QED
          BY <5>2
      <4>5. es[x + 1].id > id
        BY <3>1, <4>2, <4>4
      <4> QED
        BY <1>4, <4>1, <4>2, <4>5
    <3>12. Pointing(up[j], c, leaves)
      BY <1>3, <3>4
    <3>13. e = up[j]
      <4>1. j \in 1..Len(up) /\ Covers(up[j], id)
        BY <1>3, <3>12 DEF Covers, Pointing
      <4> QED
        BY <3>10, <3>11, <4>1, FindsLast
    <3>18. Len(c) <= l
      <4>1. j \in 1..Count(Len(es), l)
        BY <1>1
      <4> QED
        BY ONLY es \in Seq(EntryType), Ascending(es), l \in Nat \ {0}, <3>4, <4>1, ChunkTyped
    <3>19. Len(c) <= MaxBlock
      <4>1. Len(c) \in Nat
        BY <3>5, LenProperties
      <4> QED
        BY <3>18, <4>1, FormatAssumption
    <3>14. Parse(Part(leaves, e)) = c /\ WellFormed(Part(leaves, e))
      <4>1. Parse(Encode(c)) = c /\ WellFormed(Encode(c))
        BY <3>5, <3>19, DirectoriesAreReadBack
      <4> QED
        BY <3>12, <3>13, <4>1 DEF Pointing
    <3>15. e.len # 0
      <4>1. e.len = k - m /\ m < k
        BY <3>3, <3>5, <3>12, <3>13 DEF Pointing
      <4> QED
        BY <4>1
    <3>16. e \in EntryType /\ e.run = 0 /\ e.len <= MaxBlock /\ e.off + e.len <= Len(leaves)
      BY <3>12, <3>13, <3>19 DEF Pointing
    <3>17. Find(Parse(Part(leaves, e)), id) = Find(es, id)
      BY <3>9, <3>14
    <3> QED
      BY <3>14, <3>15, <3>16, <3>17 DEF Resolves
  <2>2. CASE \A q \in 1..Len(es) : ~(es[q].id <= id)
    <3>1. ASSUME NEW q \in 1..Len(es) PROVE es[q].id > id
      <4>1. es[q].id \in Nat /\ ~(es[q].id <= id)
        BY <2>2, EntriesOf
      <4> QED
        BY <4>1
    <3>2. ASSUME NEW j \in 1..Len(up) PROVE up[j].id > id
      <4>1. j \in 1..Count(Len(es), l) /\ j \in 1..n
        BY <1>1, <1>3
      <4>2. PICK x \in Nat : x + 1 \in 1..Len(es) /\ Chunk(es, l, j)[1] = es[x + 1]
        BY <4>1, ChunkStarts
      <4> QED
        BY <1>4, <3>1, <4>1, <4>2
    <3>3. e = NoEntry /\ Find(es, id) = NoEntry
      BY <3>1, <3>2, FindsNone
    <3> QED
      BY <3>3 DEF Resolves
  <2> QED
    BY <2>1, <2>2
<1> QED
  BY <1>2, <1>5, <1>6

----------------------------------------------------------------------------
(* Building the levels: none is more than MaxLeafDepth above the entries.  *)

\* c[0], ..., c[k] are levels, the first the entries for tiles.
Chain(c, k, es, leaves) == c[0] = es /\ \A j \in 1..k : Leads(c[j], c[j - 1], leaves)

\* How many entries a level has at most when there are k below it, and how many the first may have.
Room(l, k) == CASE k = 0 -> ((l * l) * l) * l [] k = 1 -> (l * l) * l [] k = 2 -> l * l [] k = 3 -> l
Fits(n, l, k) == l = 0 \/ n <= Room(l, k)

Levels(es, l) ==
  {a \in LevelType :
     /\ Ascending(a.level)
     /\ \E k \in 0..3 : \E c : /\ Chain(c, k, es, a.leaves) /\ c[k] = a.level
                               /\ Fits(Len(a.level), l, k)}

LevelTurn(a, l) == IF l > 0 /\ Len(a.level) > l THEN SplitLevel(a, l) ELSE a

LEMMA CountFits ==
  ASSUME NEW n \in Nat, NEW l \in Nat \ {0}, NEW m \in Nat, n <= m * l
  PROVE  Count(n, l) <= m
<1>1. PICK c \in Nat : c = Count(n, l) /\ c * l <= n + l - 1
  <2>1. n + l - 1 \in Nat
    OBVIOUS
  <2> QED
    BY <2>1, Quotient DEF Count
<1>2. PICK x \in Nat, y \in Nat : x = c * l /\ y = m * l
  BY <1>1, Multiples
<1>3. x < y + l
  BY <1>1, <1>2
<1> QED
  BY <1>1, <1>2, <1>3, Multiples

\* A level that fits where it is splits into one that fits a level higher.
LEMMA SplitFits ==
  ASSUME NEW n \in Nat, NEW l \in Nat \ {0}, NEW k \in 0..2, n <= Room(l, k)
  PROVE  Count(n, l) <= Room(l, k + 1)
<1>1. l * l \in Nat /\ (l * l) * l \in Nat
  OBVIOUS
<1>2. k = 0 => Count(n, l) <= (l * l) * l
  BY <1>1, CountFits DEF Room
<1>3. k = 1 => Count(n, l) <= l * l
  BY <1>1, CountFits DEF Room
<1>4. k = 2 => Count(n, l) <= l
  BY <1>1, CountFits DEF Room
<1>5. k = 0 \/ k = 1 \/ k = 2
  OBVIOUS
<1> QED
  BY <1>2, <1>3, <1>4, <1>5 DEF Room

LEMMA LevelTurnKeeps ==
  ASSUME NEW es, NEW l \in Nat, l <= MaxBlock, NEW a \in Levels(es, l)
  PROVE  LevelTurn(a, l) \in Levels(es, l)
<1> SUFFICES ASSUME l > 0, Len(a.level) > l PROVE SplitLevel(a, l) \in Levels(es, l)
  BY DEF LevelTurn
<1>1. PICK level \in Seq(EntryType), old \in Seq(Rows) : level = a.level /\ old = a.leaves
  BY DEF Levels, LevelType
<1>0. PICK k \in 0..3 : \E c : /\ Chain(c, k, es, old) /\ c[k] = level
                              /\ Fits(Len(level), l, k)
  BY <1>1 DEF Levels
<1>2. PICK c : /\ Chain(c, k, es, old) /\ c[k] = level
               /\ Fits(Len(level), l, k)
  BY <1>0
<1>3. Ascending(level) /\ a \in LevelType
  BY <1>1 DEF Levels
<1>4. PICK b : b = SplitLevel(a, l)
  OBVIOUS
<1>5. b \in Written(level, l, old, Count(Len(level), l))
  BY <1>1, <1>3, <1>4, SplitWrites
<1>6. PICK up \in Seq(EntryType), leaves \in Seq(Rows) : up = b.level /\ leaves = b.leaves /\ b \in LevelType
  BY <1>5 DEF Written, LevelType
<1>7. Ascending(up) /\ Leads(up, level, leaves)
  BY <1>3, <1>5, <1>6, WrittenLeads
<1>8. Keeps(old, leaves) /\ Len(up) = Count(Len(level), l)
  BY <1>5, <1>6 DEF Written
<1>9. PICK n \in Nat : n = Len(level)
  BY EntriesOf
<1>10. l \in Nat \ {0} /\ n > l /\ n <= Room(l, k)
  BY <1>1, <1>2, <1>9 DEF Fits
<1>11. k # 3
  BY <1>10 DEF Room
<1>13. Len(up) <= Room(l, k + 1)
  <2>1. k \in 0..2
    BY <1>11
  <2> QED
    BY <1>8, <1>9, <1>10, <2>1, SplitFits
<1> DEFINE d == [j \in 0..(k + 1) |-> IF j = k + 1 THEN up ELSE c[j]]
<1>14. d[k + 1] = up /\ \A j \in 0..k : d[j] = c[j]
  OBVIOUS
<1> HIDE DEF d
<1>15. Chain(d, k + 1, es, leaves)
  <2>1. d[0] = es
    BY <1>2, <1>14 DEF Chain
  <2>2. ASSUME NEW j \in 1..(k + 1) PROVE Leads(d[j], d[j - 1], leaves)
    <3>1. CASE j = k + 1
      <4>1. j - 1 = k /\ k \in 0..k
        BY <3>1
      <4>2. d[j] = up /\ d[j - 1] = level
        BY <1>2, <1>14, <3>1, <4>1
      <4> QED
        BY <1>7, <4>2
    <3>2. CASE j # k + 1
      <4>1. j \in 1..k /\ j \in 0..k /\ j - 1 \in 0..k
        BY <3>2
      <4>2. Leads(c[j], c[j - 1], old) /\ d[j] = c[j] /\ d[j - 1] = c[j - 1]
        BY <1>2, <1>14, <4>1 DEF Chain
      <4> QED
        BY <1>8, <4>2, LeadsStays
    <3> QED
      BY <3>1, <3>2
  <2> QED
    BY <2>1, <2>2 DEF Chain
<1>16. k + 1 \in 0..3
  BY <1>11
<1> QED
  BY <1>4, <1>6, <1>7, <1>13, <1>14, <1>15, <1>16 DEF Levels, Fits

TopLevel(es, l) == Loop(LAMBDA a, i : LevelTurn(a, l), [level |-> es, leaves |-> <<>>], Len(es))

LEMMA TopLevelLeads ==
  ASSUME NEW es \in Seq(EntryType), Ascending(es), NEW l \in Nat, l <= MaxBlock, Fits(Len(es), l, 0)
  PROVE  TopLevel(es, l) \in Levels(es, l)
<1>1. PICK n \in Nat : n = Len(es)
  BY EntriesOf
<1> DEFINE start == [level |-> es, leaves |-> <<>>]
           IsRun(t) == t = [i \in 0..n |-> IF i = 0 THEN start ELSE LevelTurn(t[i - 1], l)]
           S == [i \in 0..n |-> Levels(es, l)]
           f == [i \in 1..n |-> [a \in Levels(es, l) |-> LevelTurn(a, l)]]
           s == CHOOSE t : IsRun(t)
<1>2. start \in S[0]
  <2>1. start \in LevelType /\ start.level = es /\ start.leaves = <<>>
    BY EmptySeq DEF LevelType
  <2> DEFINE c == [j \in 0..0 |-> es]
  <2>2. Chain(c, 0, es, <<>>) /\ c[0] = es
    BY DEF Chain
  <2>3. Fits(Len(es), l, 0)
    OBVIOUS
  <2> HIDE DEF c, start
  <2>4. 0 \in 0..3
    OBVIOUS
  <2>5. \E k \in 0..3 : \E d : /\ Chain(d, k, es, start.leaves) /\ d[k] = start.level
                               /\ Fits(Len(start.level), l, k)
    BY <2>1, <2>2, <2>3, <2>4
  <2>6. start \in Levels(es, l)
    BY <2>1, <2>5 DEF Levels
  <2> QED
    BY <2>6
<1>3. ASSUME NEW i \in 1..n, NEW t, t[i - 1] \in S[i - 1], t[i] = LevelTurn(t[i - 1], l)
      PROVE  t[i] \in S[i]
  <2>1. i - 1 \in 0..n /\ i \in 0..n
    OBVIOUS
  <2>2. t[i - 1] \in Levels(es, l)
    BY <1>3, <2>1
  <2> QED
    BY <1>3, <2>1, <2>2, LevelTurnKeeps
<1>4. \E t : IsRun(t)
  <2>0. PICK V : \E t \in [0..n -> V] : t[0] = start /\ \A i \in 1..n : t[i] = f[i][t[i - 1]]
    <3> HIDE DEF f, start
    <3>1. Runs(n, start, f)
      BY LoopRuns
    <3> QED
      BY <3>1 DEF Runs
  <2>1. PICK t \in [0..n -> V] : t[0] = start /\ \A i \in 1..n : t[i] = f[i][t[i - 1]]
    BY <2>0
  <2>2. ASSUME NEW i \in 1..n, t[i - 1] \in S[i - 1] PROVE t[i] = LevelTurn(t[i - 1], l)
    <3>1. i - 1 \in 0..n
      OBVIOUS
    <3> HIDE DEF start
    <3> QED
      BY <2>1, <2>2, <3>1
  <2>3. \A i \in 0..n : t[i] \in S[i]
    <3>1. \A i \in 1..n : t[i - 1] \in S[i - 1] => t[i] \in S[i]
      BY <1>3, <2>2
    <3> HIDE DEF S, start, f
    <3> QED
      BY <1>2, <2>1, <3>1, LoopKeeps
  <2>4. ASSUME NEW i \in 1..n PROVE t[i] = LevelTurn(t[i - 1], l)
    <3>1. i - 1 \in 0..n
      OBVIOUS
    <3>2. t[i - 1] \in S[i - 1]
      BY <2>3, <3>1
    <3> QED
      BY <2>2, <3>2
  <2>5. t = [i \in 0..n |-> IF i = 0 THEN start ELSE LevelTurn(t[i - 1], l)]
    <3> HIDE DEF start, f, S
    <3> QED
      BY <2>1, <2>4
  <2> QED
    BY <2>5
<1>5. IsRun(s)
  <2> HIDE DEF IsRun
  <2> QED
    BY <1>4
<1>6. TopLevel(es, l) = s[n]
  BY <1>1 DEF TopLevel, Loop, LevelTurn
<1> HIDE DEF s, f
<1>7. s[0] = start /\ \A i \in 1..n : s[i] = LevelTurn(s[i - 1], l)
  <2> HIDE DEF start
  <2> QED
    BY <1>5
<1>8. \A i \in 0..n : s[i] \in S[i]
  <2>1. s[0] \in S[0] /\ \A i \in 1..n : s[i - 1] \in S[i - 1] => s[i] \in S[i]
    BY <1>2, <1>3, <1>7
  <2> HIDE DEF S, IsRun, start
  <2> QED
    BY <2>1, LoopKeeps
<1>9. s[n] \in Levels(es, l)
  BY <1>8
<1> QED
  BY <1>6, <1>9

----------------------------------------------------------------------------
(* The entries for tiles: runs of equal tiles, in order.                   *)

\* e is for the ids of its run, which all have the payload that e points at.
Stands(e, tiles, data) ==
  /\ e.run > 0 /\ e.len > 0 /\ e.off + e.len <= Len(data)
  /\ \A id \in Nat : e.id <= id /\ id < e.id + e.run => id \in DOMAIN tiles /\ tiles[id] = Part(data, e)

\* The entries for the ids below i.
TilesBelow(tiles, T, i) ==
  {a \in [es : Seq(EntryType), data : Seq(T)] :
     /\ \A p, q \in 1..Len(a.es) : p < q => a.es[p].id + a.es[p].run <= a.es[q].id
     /\ \A p \in 1..Len(a.es) : a.es[p].id + a.es[p].run <= i /\ Stands(a.es[p], tiles, a.data)
     /\ \A id \in DOMAIN tiles : id < i =>
          \E p \in 1..Len(a.es) : a.es[p].id <= id /\ id < a.es[p].id + a.es[p].run}

TileTurn(tiles, runLengths, a, i) ==
  LET id   == i - 1
      last == a.es[Len(a.es)]
  IN CASE id \notin DOMAIN tiles -> a
       [] /\ id \in DOMAIN tiles /\ runLengths /\ a.es # <<>>
          /\ Continues(last, id) /\ tiles[id] = Part(a.data, last) ->
            [a EXCEPT !.es[Len(a.es)].run = @ + 1]
       [] OTHER ->
            [es |-> Append(a.es, Entry(id, Len(a.data), Len(tiles[id]), 1)),
             data |-> a.data \o tiles[id]]

\* tiles holds payloads of some bytes each, neither longer nor more than a column can say.
Payloads(tiles, T) ==
  /\ DOMAIN tiles \subseteq Nat /\ IsFiniteSet(DOMAIN tiles) /\ Cardinality(DOMAIN tiles) <= MaxColumn
  /\ \A id \in DOMAIN tiles : tiles[id] \in Seq(T) /\ tiles[id] # <<>> /\ Len(tiles[id]) <= MaxColumn

\* A run is no longer than there are tiles.
LEMMA RunFits ==
  ASSUME NEW T, NEW tiles, Payloads(tiles, T), NEW a \in Nat, NEW n \in Nat \ {0},
         \A id \in Nat : a <= id /\ id < a + n => id \in DOMAIN tiles
  PROVE  n <= MaxColumn
<1>1. PICK D : D = DOMAIN tiles /\ IsFiniteSet(D) /\ Cardinality(D) <= MaxColumn
  BY DEF Payloads
<1>2. PICK b \in Nat : b = a + n - 1 /\ a <= b
  OBVIOUS
<1>3. PICK run : run = a..b
  OBVIOUS
<1>4. run \in SUBSET D
  BY <1>1, <1>2, <1>3
<1>5. Cardinality(run) = n
  <2>1. Cardinality(a..b) = IF a > b THEN 0 ELSE b - a + 1
    BY FS_Interval
  <2> QED
    BY <1>2, <1>3, <2>1
<1>6. Cardinality(run) <= Cardinality(D)
  BY <1>1, <1>4, FS_Subset
<1>7. Cardinality(D) \in Nat
  BY <1>1, FS_CardinalityType
<1> QED
  BY <1>1, <1>5, <1>6, <1>7, FormatAssumption

\* The last run goes on.
LEMMA RunGoesOn ==
  ASSUME NEW T, NEW tiles, Payloads(tiles, T), NEW i \in Nat \ {0}, NEW a \in TilesBelow(tiles, T, i - 1),
         NEW n, n = Len(a.es), a.es # <<>>, i - 1 \in DOMAIN tiles,
         a.es[n].id + a.es[n].run = i - 1, tiles[i - 1] = Part(a.data, a.es[n])
  PROVE  [a EXCEPT !.es[n].run = @ + 1] \in TilesBelow(tiles, T, i)
<1>1. PICK es \in Seq(EntryType), data \in Seq(T) : es = a.es /\ data = a.data /\ a = [es |-> es, data |-> data]
  BY DEF TilesBelow
<1>2. n \in Nat /\ n \in 1..Len(es) /\ n = Len(es)
  BY <1>1, EmptySeq
<1>3. PICK last \in EntryType : last = es[n]
  BY <1>2, EntriesOf
<1>4. PICK e : e = Entry(last.id, last.off, last.len, last.run + 1)
  OBVIOUS
<1>5. /\ e.id = last.id /\ e.off = last.off /\ e.len = last.len /\ e.run = last.run + 1
      /\ last.id \in Nat /\ last.run \in Nat /\ e \in EntryType
  <2>1. last.id \in Nat /\ last.off \in Nat /\ last.len \in Nat /\ last.run \in Nat /\ last.len <= MaxColumn
    BY DEF EntryType
  <2>2. Stands(last, tiles, data) /\ last.id + last.run = i - 1
    BY <1>1, <1>2, <1>3 DEF TilesBelow
  <2>3. \A id \in Nat : last.id <= id /\ id < last.id + (last.run + 1) => id \in DOMAIN tiles
    BY <2>1, <2>2 DEF Stands
  <2>4. last.run + 1 \in Nat \ {0}
    BY <2>1
  <2>5. last.run + 1 <= MaxColumn
    BY <2>1, <2>3, <2>4, RunFits
  <2> QED
    BY <1>4, <2>1, <2>5 DEF Entry, EntryType
<1>0. e = [last EXCEPT !.run = @ + 1]
  <2>1. PICK x, y, l, m : x = last.id /\ y = last.off /\ l = last.len /\ m = last.run
    OBVIOUS
  <2>2. last = [id |-> x, off |-> y, len |-> l, run |-> m]
    BY <2>1 DEF EntryType
  <2>3. e = [id |-> x, off |-> y, len |-> l, run |-> m + 1]
    BY <1>4, <2>1 DEF Entry
  <2> QED
    BY <2>2, <2>3
<1>6. PICK up : up = [es EXCEPT ![n] = e]
  OBVIOUS
<1>7. up \in Seq(EntryType) /\ Len(up) = n /\ up[n] = e /\ \A p \in 1..n : p # n => up[p] = es[p]
  BY <1>2, <1>5, <1>6, ExceptSeq
<1>8. [a EXCEPT !.es[n].run = @ + 1] = [es |-> up, data |-> data]
  <2>1. es[n].run + 1 = last.run + 1 /\ [es[n] EXCEPT !.run = @ + 1] = e
    BY <1>0, <1>3
  <2>2. [es EXCEPT ![n].run = @ + 1] = [es EXCEPT ![n] = [es[n] EXCEPT !.run = @ + 1]]
    OBVIOUS
  <2>3. [es EXCEPT ![n].run = @ + 1] = up
    BY <1>6, <2>1, <2>2
  <2>4. [a EXCEPT !.es[n].run = @ + 1] = [a EXCEPT !.es = [a.es EXCEPT ![n].run = @ + 1]]
    OBVIOUS
  <2>5. [a EXCEPT !.es = up] = [es |-> up, data |-> data]
    BY <1>1
  <2> QED
    BY <1>1, <2>3, <2>4, <2>5
<1>9. /\ \A p, q \in 1..n : p < q => es[p].id + es[p].run <= es[q].id
      /\ \A p \in 1..n : es[p].id + es[p].run <= i - 1 /\ Stands(es[p], tiles, data)
      /\ \A id \in DOMAIN tiles : id < i - 1 =>
           \E p \in 1..n : es[p].id <= id /\ id < es[p].id + es[p].run
  BY <1>1, <1>2 DEF TilesBelow
<1>10. \A p \in 1..n : es[p].id \in Nat /\ es[p].run \in Nat
  BY <1>2, EntriesOf
<1>11. last.id + last.run = i - 1 /\ tiles[i - 1] = Part(data, last)
  BY <1>1, <1>3
<1>12. Part(data, e) = Part(data, last)
  BY <1>5 DEF Part
<1>13. Stands(e, tiles, data)
  <2>1. Stands(last, tiles, data)
    BY <1>2, <1>3, <1>9
  <2>2. e.run > 0 /\ e.len > 0 /\ e.off + e.len <= Len(data)
    BY <1>5, <2>1 DEF Stands
  <2>3. ASSUME NEW id \in Nat, e.id <= id, id < e.id + e.run
        PROVE  id \in DOMAIN tiles /\ tiles[id] = Part(data, e)
    <3>1. CASE id = i - 1
      BY <1>11, <1>12, <3>1
    <3>2. CASE id # i - 1
      <4>1. last.id <= id /\ id < last.id + last.run
        BY <1>5, <1>11, <2>3, <3>2
      <4> QED
        BY <1>12, <2>1, <4>1 DEF Stands
    <3> QED
      BY <3>1, <3>2
  <2> QED
    BY <2>2, <2>3 DEF Stands
<1>14. ASSUME NEW p \in 1..n, NEW q \in 1..n, p < q PROVE up[p].id + up[p].run <= up[q].id
  <2>1. p # n /\ up[p] = es[p] /\ es[p].id + es[p].run <= es[q].id
    BY <1>2, <1>7, <1>9, <1>14
  <2>2. up[q].id = es[q].id
    BY <1>3, <1>5, <1>7
  <2> QED
    BY <2>1, <2>2
<1>15. ASSUME NEW p \in 1..n PROVE up[p].id + up[p].run <= i /\ Stands(up[p], tiles, data)
  <2>1. CASE p = n
    <3>1. up[p] = e /\ e.id + e.run = last.id + (last.run + 1)
      BY <1>5, <1>7, <2>1
    <3>2. e.id + e.run <= i
      BY <1>5, <1>11, <3>1
    <3> QED
      BY <1>13, <3>1, <3>2
  <2>2. CASE p # n
    <3>1. up[p] = es[p] /\ es[p].id + es[p].run <= i - 1 /\ Stands(es[p], tiles, data)
      BY <1>7, <1>9, <2>2
    <3> QED
      BY <1>10, <3>1
  <2> QED
    BY <2>1, <2>2
<1>16. ASSUME NEW id \in DOMAIN tiles, id < i
       PROVE  \E p \in 1..n : up[p].id <= id /\ id < up[p].id + up[p].run
  <2>0. id \in Nat
    BY DEF Payloads
  <2>1. CASE id = i - 1
    <3>1. up[n].id <= id /\ id < up[n].id + up[n].run
      BY <1>5, <1>7, <1>11, <2>1
    <3> QED
      BY <1>2, <3>1
  <2>2. CASE id # i - 1
    <3>1. PICK p \in 1..n : es[p].id <= id /\ id < es[p].id + es[p].run
      BY <1>9, <1>16, <2>0, <2>2
    <3>2. CASE p = n
      <4>1. up[n].id <= id /\ id < up[n].id + up[n].run
        BY <1>3, <1>5, <1>7, <2>0, <3>1, <3>2
      <4> QED
        BY <1>2, <4>1
    <3>3. CASE p # n
      BY <1>7, <3>1, <3>3
    <3> QED
      BY <3>2, <3>3
  <2> QED
    BY <2>1, <2>2
<1>17. [es |-> up, data |-> data] \in TilesBelow(tiles, T, i)
  <2> DEFINE b == [es |-> up, data |-> data]
  <2>1. b.es = up /\ b.data = data /\ b \in [es : Seq(EntryType), data : Seq(T)]
    BY <1>7
  <2> HIDE DEF b
  <2>2. b \in TilesBelow(tiles, T, i)
    BY <1>7, <1>14, <1>15, <1>16, <2>1 DEF TilesBelow
  <2> QED
    BY <2>2 DEF b
<1> QED
  BY <1>8, <1>17

\* A tile gets an entry of its own.
LEMMA TileAdded ==
  ASSUME NEW T, NEW tiles, Payloads(tiles, T), NEW i \in Nat \ {0}, NEW a \in TilesBelow(tiles, T, i - 1),
         i - 1 \in DOMAIN tiles
  PROVE  [es |-> Append(a.es, Entry(i - 1, Len(a.data), Len(tiles[i - 1]), 1)),
          data |-> a.data \o tiles[i - 1]] \in TilesBelow(tiles, T, i)
<1>1. PICK es \in Seq(EntryType), data \in Seq(T) : es = a.es /\ data = a.data
  BY DEF TilesBelow
<1>2. PICK n \in Nat : n = Len(es)
  BY EntriesOf
<1>3. PICK payload \in Seq(T) : payload = tiles[i - 1] /\ payload # <<>> /\ Len(payload) <= MaxColumn
  BY DEF Payloads
<1>4. Len(payload) \in Nat /\ Len(payload) # 0 /\ Len(data) \in Nat
  BY <1>3, EmptySeq, LenProperties
<1>5. PICK e : e = Entry(i - 1, Len(data), Len(payload), 1)
  OBVIOUS
<1>6. e \in EntryType /\ e.id = i - 1 /\ e.off = Len(data) /\ e.len = Len(payload) /\ e.run = 1
  BY <1>3, <1>4, <1>5, FormatAssumption DEF Entry, EntryType
<1>7. PICK up, more : up = Append(es, e) /\ more = data \o payload
  OBVIOUS
<1>8. up \in Seq(EntryType) /\ Len(up) = n + 1 /\ up[n + 1] = e /\ \A p \in 1..n : up[p] = es[p]
  BY <1>2, <1>6, <1>7, AppendProperties
<1>9. more \in Seq(T) /\ Keeps(data, more) /\ Len(more) = Len(data) + Len(payload)
  BY <1>7, ConcatKeeps, ConcatProperties
<1>10. /\ \A p, q \in 1..n : p < q => es[p].id + es[p].run <= es[q].id
       /\ \A p \in 1..n : es[p].id + es[p].run <= i - 1 /\ Stands(es[p], tiles, data)
       /\ \A id \in DOMAIN tiles : id < i - 1 =>
            \E p \in 1..n : es[p].id <= id /\ id < es[p].id + es[p].run
  BY <1>1, <1>2 DEF TilesBelow
<1>11. \A p \in 1..n : es[p] \in EntryType /\ es[p].id \in Nat /\ es[p].run \in Nat
                       /\ es[p].off \in Nat /\ es[p].len \in Nat
  BY <1>2, EntriesOf
<1>12. Stands(e, tiles, more)
  <2>1. Part(more, e) = payload
    BY <1>6, <1>7, PartAdded
  <2>2. \A id \in Nat : e.id <= id /\ id < e.id + e.run => id = i - 1
    BY <1>6
  <2>3. e.run > 0 /\ e.len > 0 /\ e.off + e.len <= Len(more)
    BY <1>3, <1>4, <1>6, <1>9
  <2>4. i - 1 \in DOMAIN tiles /\ tiles[i - 1] = Part(more, e)
    BY <1>3, <2>1
  <2> QED
    BY <2>2, <2>3, <2>4 DEF Stands
<1>13. ASSUME NEW p \in 1..n PROVE Stands(es[p], tiles, more)
  <2>1. PICK d \in EntryType : d = es[p]
    BY <1>11
  <2>2. Stands(d, tiles, data) /\ d.off \in Nat /\ d.len \in Nat
    BY <1>10, <1>11, <2>1
  <2>3. Part(more, d) = Part(data, d)
    BY <1>9, <2>2, PartStays DEF Stands
  <2>4. d.off + d.len <= Len(more)
    BY <1>4, <1>9, <2>2 DEF Stands
  <2> QED
    BY <2>1, <2>2, <2>3, <2>4 DEF Stands
<1>14. ASSUME NEW p \in 1..(n + 1), NEW q \in 1..(n + 1), p < q PROVE up[p].id + up[p].run <= up[q].id
  <2>1. p \in 1..n /\ up[p] = es[p]
    BY <1>8, <1>14
  <2>2. CASE q = n + 1
    BY <1>6, <1>8, <1>10, <2>1, <2>2
  <2>3. CASE q # n + 1
    <3>1. q \in 1..n /\ up[q] = es[q]
      BY <1>8, <2>3
    <3> QED
      BY <1>10, <1>14, <2>1, <3>1
  <2> QED
    BY <2>2, <2>3
<1>15. ASSUME NEW p \in 1..(n + 1) PROVE up[p].id + up[p].run <= i /\ Stands(up[p], tiles, more)
  <2>1. CASE p = n + 1
    BY <1>6, <1>8, <1>12, <2>1
  <2>2. CASE p # n + 1
    <3>1. p \in 1..n /\ up[p] = es[p] /\ es[p].id + es[p].run <= i - 1
      BY <1>8, <1>10, <2>2
    <3> QED
      BY <1>11, <1>13, <3>1
  <2> QED
    BY <2>1, <2>2
<1>16. ASSUME NEW id \in DOMAIN tiles, id < i
       PROVE  \E p \in 1..(n + 1) : up[p].id <= id /\ id < up[p].id + up[p].run
  <2>0. id \in Nat
    BY DEF Payloads
  <2>1. CASE id = i - 1
    <3>1. up[n + 1].id <= id /\ id < up[n + 1].id + up[n + 1].run
      <4>1. up[n + 1].id = id /\ up[n + 1].run = 1
        BY <1>6, <1>8, <2>1
      <4> QED
        BY <2>0, <4>1
    <3>2. n + 1 \in 1..(n + 1)
      OBVIOUS
    <3> QED
      BY <3>1, <3>2
  <2>2. CASE id # i - 1
    <3>1. PICK p \in 1..n : es[p].id <= id /\ id < es[p].id + es[p].run
      BY <1>10, <1>16, <2>0, <2>2
    <3>2. p \in 1..(n + 1) /\ up[p] = es[p]
      BY <1>8
    <3> QED
      BY <3>1, <3>2
  <2> QED
    BY <2>1, <2>2
<1>17. [es |-> up, data |-> more] \in TilesBelow(tiles, T, i)
  <2> DEFINE b == [es |-> up, data |-> more]
  <2>1. b.es = up /\ b.data = more /\ b \in [es : Seq(EntryType), data : Seq(T)]
    BY <1>8, <1>9
  <2> HIDE DEF b
  <2>2. b \in TilesBelow(tiles, T, i)
    BY <1>8, <1>14, <1>15, <1>16, <2>1 DEF TilesBelow
  <2> QED
    BY <2>2 DEF b
<1> QED
  BY <1>1, <1>3, <1>5, <1>7, <1>17

\* An id without a tile changes nothing.
LEMMA NoTileAdded ==
  ASSUME NEW T, NEW tiles, Payloads(tiles, T), NEW i \in Nat \ {0}, NEW a \in TilesBelow(tiles, T, i - 1),
         i - 1 \notin DOMAIN tiles
  PROVE  a \in TilesBelow(tiles, T, i)
<1>1. PICK es \in Seq(EntryType), data \in Seq(T) : es = a.es /\ data = a.data
  BY DEF TilesBelow
<1>2. a \in [es : Seq(EntryType), data : Seq(T)]
  BY DEF TilesBelow
<1>3. \A p, q \in 1..Len(es) : p < q => es[p].id + es[p].run <= es[q].id
  BY <1>1 DEF TilesBelow
<1>4. ASSUME NEW p \in 1..Len(es) PROVE es[p].id + es[p].run <= i /\ Stands(es[p], tiles, data)
  <2>1. es[p].id + es[p].run <= i - 1 /\ Stands(es[p], tiles, data)
    BY <1>1 DEF TilesBelow
  <2>2. es[p].id \in Nat /\ es[p].run \in Nat
    BY EntriesOf
  <2> QED
    BY <2>1, <2>2
<1>5. ASSUME NEW id \in DOMAIN tiles, id < i
      PROVE  \E p \in 1..Len(es) : es[p].id <= id /\ id < es[p].id + es[p].run
  <2>1. id \in Nat /\ id # i - 1
    BY DEF Payloads
  <2>2. id < i - 1
    BY <1>5, <2>1
  <2> QED
    BY <1>1, <2>2 DEF TilesBelow
<1> QED
  BY <1>1, <1>2, <1>3, <1>4, <1>5 DEF TilesBelow

LEMMA TileEntriesStand ==
  ASSUME NEW T, NEW tiles, Payloads(tiles, T), DOMAIN tiles # {},
         NEW bound \in Nat, \A id \in DOMAIN tiles : id <= bound, NEW runLengths \in BOOLEAN
  PROVE  \E n \in Nat : /\ \A id \in DOMAIN tiles : id < n
                        /\ TileEntries(tiles, runLengths) \in TilesBelow(tiles, T, n)
<1>1. PICK n \in Nat : n = Max(DOMAIN tiles) + 1 /\ \A id \in DOMAIN tiles : id < n
  <2>1. DOMAIN tiles \in SUBSET Nat
    BY DEF Payloads
  <2>2. Max(DOMAIN tiles) \in DOMAIN tiles /\ \A id \in DOMAIN tiles : id <= Max(DOMAIN tiles)
    BY <2>1, LargestIsIn
  <2> QED
    BY <2>1, <2>2
<1> DEFINE start == [es |-> <<>>, data |-> <<>>]
           Go(a, i) == TileTurn(tiles, runLengths, a, i)
           IsRun(t) == t = [i \in 0..n |-> IF i = 0 THEN start ELSE Go(t[i - 1], i)]
           S == [i \in 0..n |-> TilesBelow(tiles, T, i)]
           f == [i \in 1..n |-> [a \in S[i - 1] |-> Go(a, i)]]
           s == CHOOSE t : IsRun(t)
<1>2. start \in S[0]
  <2>1. start.es = <<>> /\ start.data = <<>> /\ start \in [es : Seq(EntryType), data : Seq(T)]
    BY EmptySeq
  <2>2. Len(start.es) = 0 /\ \A id \in DOMAIN tiles : ~(id < 0)
    BY <2>1 DEF Payloads
  <2> HIDE DEF start
  <2>3. start \in TilesBelow(tiles, T, 0)
    BY <2>1, <2>2 DEF TilesBelow
  <2> QED
    BY <2>3
<1>3. ASSUME NEW i \in 1..n, NEW a \in TilesBelow(tiles, T, i - 1)
      PROVE  Go(a, i) \in TilesBelow(tiles, T, i)
  <2>1. i \in Nat \ {0}
    OBVIOUS
  <2>2. CASE i - 1 \notin DOMAIN tiles
    <3>1. Go(a, i) = a
      BY <2>2 DEF TileTurn
    <3> QED
      BY <2>1, <2>2, <3>1, NoTileAdded
  <2> DEFINE last == a.es[Len(a.es)]
             goes == runLengths /\ a.es # <<>> /\ Continues(last, i - 1) /\ tiles[i - 1] = Part(a.data, last)
  <2>3. CASE i - 1 \in DOMAIN tiles /\ goes
    <3>1. Go(a, i) = [a EXCEPT !.es[Len(a.es)].run = @ + 1]
      BY <2>3 DEF TileTurn
    <3>2. PICK m : m = Len(a.es)
      OBVIOUS
    <3>3. /\ a.es # <<>> /\ i - 1 \in DOMAIN tiles
          /\ a.es[m].id + a.es[m].run = i - 1 /\ tiles[i - 1] = Part(a.data, a.es[m])
      BY <2>3, <3>2 DEF Continues
    <3>4. [a EXCEPT !.es[m].run = @ + 1] \in TilesBelow(tiles, T, i)
      <4> HIDE DEF goes, last
      <4> QED
        BY <2>1, <3>2, <3>3, RunGoesOn
    <3> QED
      BY <3>1, <3>2, <3>4
  <2>4. CASE i - 1 \in DOMAIN tiles /\ ~goes
    <3>1. Go(a, i) = [es |-> Append(a.es, Entry(i - 1, Len(a.data), Len(tiles[i - 1]), 1)),
                      data |-> a.data \o tiles[i - 1]]
      BY <2>4 DEF TileTurn
    <3> QED
      BY <2>1, <2>4, <3>1, TileAdded
  <2> QED
    BY <2>2, <2>3, <2>4
<1>4. \A i \in 1..n : \A a \in S[i - 1] : Go(a, i) \in S[i]
  <2> SUFFICES ASSUME NEW i \in 1..n, NEW a \in S[i - 1] PROVE Go(a, i) \in S[i]
    OBVIOUS
  <2>1. i - 1 \in 0..n /\ i \in 0..n
    OBVIOUS
  <2>2. a \in TilesBelow(tiles, T, i - 1)
    BY <2>1
  <2>3. Go(a, i) \in TilesBelow(tiles, T, i)
    BY <1>3, <2>2
  <2> QED
    BY <2>1, <2>3
<1>5. \E t : IsRun(t)
  <2> HIDE DEF Go
  <2>0. PICK V : \E t \in [0..n -> V] : t[0] = start /\ \A i \in 1..n : t[i] = f[i][t[i - 1]]
    <3> HIDE DEF f, start
    <3>1. Runs(n, start, f)
      BY LoopRuns
    <3> QED
      BY <3>1 DEF Runs
  <2>1. PICK t \in [0..n -> V] : t[0] = start /\ \A i \in 1..n : t[i] = f[i][t[i - 1]]
    BY <2>0
  <2>2. ASSUME NEW i \in 1..n, t[i - 1] \in S[i - 1] PROVE t[i] = Go(t[i - 1], i)
    <3> HIDE DEF S, start
    <3> QED
      BY <2>1, <2>2
  <2>3. \A i \in 0..n : t[i] \in S[i]
    <3>1. \A i \in 1..n : t[i - 1] \in S[i - 1] => t[i] \in S[i]
      <4> HIDE DEF S, start, f
      <4> QED
        BY <1>4, <2>2
    <3> HIDE DEF S, start, f
    <3> QED
      BY <1>2, <2>1, <3>1, LoopKeeps
  <2>4. ASSUME NEW i \in 1..n PROVE t[i] = Go(t[i - 1], i)
    <3>1. i - 1 \in 0..n
      OBVIOUS
    <3>2. t[i - 1] \in S[i - 1]
      BY <2>3, <3>1
    <3> QED
      BY <2>2, <3>2
  <2>5. t = [i \in 0..n |-> IF i = 0 THEN start ELSE Go(t[i - 1], i)]
    <3> HIDE DEF start, f, S
    <3> QED
      BY <2>1, <2>4
  <2> QED
    BY <2>5
<1>6. IsRun(s)
  <2> HIDE DEF IsRun
  <2> QED
    BY <1>5
<1>7. TileEntries(tiles, runLengths) = s[n]
  BY <1>1 DEF TileEntries, Loop, TileTurn
<1> HIDE DEF s, f, Go
<1>8. s[0] = start /\ \A i \in 1..n : s[i] = Go(s[i - 1], i)
  <2> HIDE DEF start
  <2> QED
    BY <1>6
<1>9. \A i \in 0..n : s[i] \in S[i]
  <2>1. s[0] \in S[0] /\ \A i \in 1..n : s[i - 1] \in S[i - 1] => s[i] \in S[i]
    <3> HIDE DEF S, start, IsRun
    <3> QED
      BY <1>2, <1>4, <1>8
  <2> HIDE DEF S, IsRun, start
  <2> QED
    BY <2>1, LoopKeeps
<1>10. s[n] \in TilesBelow(tiles, T, n)
  BY <1>9
<1> QED
  BY <1>1, <1>7, <1>10

\* find among the entries for tiles.
LEMMA FindsTile ==
  ASSUME NEW T, NEW tiles, Payloads(tiles, T), NEW n \in Nat, \A id \in DOMAIN tiles : id < n,
         NEW t \in TilesBelow(tiles, T, n), NEW id \in Nat, NEW e, e = Find(t.es, id)
  PROVE  /\ id \notin DOMAIN tiles => e = NoEntry
         /\ id \in DOMAIN tiles =>
              /\ e \in EntryType /\ e.run > 0 /\ e.len > 0 /\ e.off + e.len <= Len(t.data)
              /\ tiles[id] = Part(t.data, e)
<1>1. PICK es \in Seq(EntryType), data \in Seq(T) : es = t.es /\ data = t.data
  BY DEF TilesBelow
<1>2. PICK k \in Nat : k = Len(es)
  BY EntriesOf
<1>3. /\ \A p, q \in 1..k : p < q => es[p].id + es[p].run <= es[q].id
      /\ \A p \in 1..k : Stands(es[p], tiles, data)
      /\ \A j \in DOMAIN tiles : j < n => \E p \in 1..k : es[p].id <= j /\ j < es[p].id + es[p].run
  BY <1>1, <1>2 DEF TilesBelow
<1>4. \A p \in 1..k : es[p] \in EntryType /\ es[p].id \in Nat /\ es[p].run \in Nat
  BY <1>2, EntriesOf
<1>5. CASE id \in DOMAIN tiles
  <2>1. PICK p \in 1..k : es[p].id <= id /\ id < es[p].id + es[p].run
    BY <1>3, <1>5
  <2>2. ASSUME NEW q \in 1..k, q > p PROVE es[q].id > id
    <3>1. es[p].id + es[p].run <= es[q].id
      BY <1>3, <2>2
    <3> QED
      BY <1>4, <2>1, <3>1
  <2>3. Covers(es[p], id)
    BY <2>1 DEF Covers
  <2>4. e = es[p]
    BY <1>1, <1>2, <2>1, <2>2, <2>3, FindsLast
  <2>5. Stands(e, tiles, data) /\ e \in EntryType
    BY <1>3, <1>4, <2>4
  <2> QED
    BY <1>1, <1>5, <2>1, <2>4, <2>5 DEF Stands
<1>6. CASE id \notin DOMAIN tiles
  <2>1. CASE \E q \in 1..Len(es) : es[q].id <= id
    <3>1. Ascending(es)
      <4> SUFFICES ASSUME NEW p \in 1..k, NEW q \in 1..k, p < q PROVE es[p].id < es[q].id
        BY <1>2 DEF Ascending
      <4>1. es[p].id + es[p].run <= es[q].id /\ es[p].run > 0
        BY <1>3 DEF Stands
      <4> QED
        BY <1>4, <4>1
    <3>2. PICK p \in 1..Len(es) : es[p].id <= id /\ \A q \in 1..Len(es) : q > p => es[q].id > id
      BY <2>1, <3>1, LastUpTo
    <3>3. Stands(es[p], tiles, data) /\ es[p].id \in Nat /\ es[p].run \in Nat
      BY <1>2, <1>3, <1>4
    <3>4. ~Covers(es[p], id)
      BY <1>6, <3>2, <3>3 DEF Covers, Stands
    <3> QED
      BY <1>1, <1>6, <3>2, <3>4, FindsLast
  <2>2. CASE \A q \in 1..Len(es) : ~(es[q].id <= id)
    <3>1. \A q \in 1..Len(es) : es[q].id > id
      BY <1>2, <1>4, <2>2
    <3> QED
      BY <1>1, <1>6, <3>1, FindsNone
  <2> QED
    BY <2>1, <2>2
<1> QED
  BY <1>5, <1>6

----------------------------------------------------------------------------
(* The file that Build writes, read from the root down.                    *)

\* From base on the file holds u.
Lies(file, base, u) == \A i \in 1..Len(u) : file[base + i] = u[i]

LEMMA BytesLie ==
  ASSUME NEW T, NEW u \in Seq(T), NEW file, NEW base \in Nat, Lies(file, base, u),
         NEW e \in EntryType, e.off + e.len <= Len(u)
  PROVE  Bytes(file, base + e.off, e.len) = Part(u, e)
<1>1. PICK m \in Nat, k \in Nat, n \in Nat : m = e.off /\ k = e.len /\ n = Len(u)
  BY LenProperties DEF EntryType
<1>0. PICK q \in Nat : q = m + k
  OBVIOUS
<1>2. PICK b : b = SubSeq(u, m + 1, q)
  OBVIOUS
<1>3. m <= q /\ q <= Len(u) /\ q - m = k
  BY <1>0, <1>1
<1>4. b \in Seq(T) /\ Len(b) = q - m /\ \A i \in 1..(q - m) : b[i] = u[m + i]
  BY <1>2, <1>3, PartOfDirectory
<1>5. Len(b) = k /\ b \in [1..k -> T] /\ \A i \in 1..k : b[i] = u[m + i]
  BY <1>3, <1>4, LenProperties
<1>6. ASSUME NEW i \in 1..k PROVE file[(base + m) + i] = b[i]
  <2>1. m + i \in 1..n /\ base + (m + i) = (base + m) + i
    BY <1>1
  <2>2. file[base + (m + i)] = u[m + i]
    BY <1>1, <2>1 DEF Lies
  <2> QED
    BY <1>5, <2>1, <2>2
<1>7. [i \in 1..k |-> file[(base + m) + i]] = b
  BY <1>5, <1>6
<1> QED
  BY <1>0, <1>1, <1>2, <1>7 DEF Bytes, Part

LEMMA AllBytesLie ==
  ASSUME NEW T, NEW u \in Seq(T), NEW file, NEW base \in Nat, Lies(file, base, u)
  PROVE  Bytes(file, base, Len(u)) = u
<1>1. PICK n \in Nat : n = Len(u) /\ u \in [1..n -> T]
  BY LenProperties
<1> QED
  BY <1>1 DEF Bytes, Lies

LEMMA ConcatAt ==
  ASSUME NEW U, NEW s \in Seq(U), NEW t \in Seq(U)
  PROVE  /\ s \o t \in Seq(U) /\ Len(s \o t) = Len(s) + Len(t)
         /\ \A i \in 1..Len(s) : (s \o t)[i] = s[i]
         /\ \A i \in 1..Len(t) : (s \o t)[Len(s) + i] = t[i]
<1>0. PICK m \in Nat, n \in Nat : m = Len(s) /\ n = Len(t)
  BY LenProperties
<1>00. PICK u : u = s \o t
  OBVIOUS
<1>1. /\ u \in Seq(U) /\ Len(u) = m + n
      /\ \A i \in 1..m + n : u[i] = IF i <= m THEN s[i] ELSE t[i - m]
  BY <1>0, <1>00, ConcatProperties
<1>2. ASSUME NEW i \in 1..m PROVE u[i] = s[i]
  <2>1. i \in 1..m + n /\ i <= m
    OBVIOUS
  <2> QED
    BY <1>1, <2>1
<1>3. ASSUME NEW i \in 1..n PROVE u[m + i] = t[i]
  <2>1. m + i \in 1..m + n /\ ~(m + i <= m) /\ (m + i) - m = i
    OBVIOUS
  <2> QED
    BY <1>1, <2>1
<1> QED
  BY <1>0, <1>00, <1>1, <1>2, <1>3

\* The sections of a file one after the other.
IsFile(file, h, r, v, d) == file = <<h>> \o r \o v \o d

LEMMA SectionsLie ==
  ASSUME NEW U, NEW h \in U, NEW r \in Seq(U), NEW v \in Seq(U), NEW d \in Seq(U),
         NEW file, IsFile(file, h, r, v, d)
  PROVE  /\ file[1] = h
         /\ Lies(file, 1, r) /\ Lies(file, 1 + Len(r), v) /\ Lies(file, 1 + Len(r) + Len(v), d)
<1>1. PICK x \in Nat, y \in Nat, z \in Nat : x = Len(r) /\ y = Len(v) /\ z = Len(d)
  BY LenProperties
<1>2. PICK g \in Seq(U) : g = <<h>> /\ Len(g) = 1 /\ g[1] = h
  <2>1. <<h>> \in Seq(U) /\ Len(<<h>>) = 1 /\ <<h>>[1] = h
    OBVIOUS
  <2> QED
    BY <2>1
<1>3. PICK a, b : a = g \o r /\ b = a \o v /\ file = b \o d
  BY <1>2 DEF IsFile
<1>4. PICK p \in Nat, q \in Nat : p = 1 + x /\ q = p + y
  OBVIOUS
<1>5. a \in Seq(U) /\ Len(a) = p /\ a[1] = h /\ \A i \in 1..x : a[1 + i] = r[i]
  <2>1. /\ a \in Seq(U) /\ Len(a) = 1 + x
        /\ \A i \in 1..1 : a[i] = g[i]
        /\ \A i \in 1..x : a[1 + i] = r[i]
    <3>1. /\ g \o r \in Seq(U) /\ Len(g \o r) = Len(g) + Len(r)
          /\ \A i \in 1..Len(g) : (g \o r)[i] = g[i]
          /\ \A i \in 1..Len(r) : (g \o r)[Len(g) + i] = r[i]
      BY ConcatAt
    <3> QED
      BY <1>1, <1>2, <1>3, <3>1
  <2>2. a[1] = g[1]
    BY <2>1
  <2> QED
    BY <1>2, <1>4, <2>1, <2>2
<1>6. /\ b \in Seq(U) /\ Len(b) = q
      /\ \A i \in 1..p : b[i] = a[i]
      /\ \A i \in 1..y : b[p + i] = v[i]
  <2>1. /\ a \o v \in Seq(U) /\ Len(a \o v) = Len(a) + Len(v)
        /\ \A i \in 1..Len(a) : (a \o v)[i] = a[i]
        /\ \A i \in 1..Len(v) : (a \o v)[Len(a) + i] = v[i]
    <3>1. a \in Seq(U)
      BY <1>5
    <3> QED
      BY <3>1, ConcatAt
  <2> QED
    BY <1>1, <1>3, <1>4, <1>5, <2>1
<1>7. /\ \A i \in 1..q : file[i] = b[i]
      /\ \A i \in 1..z : file[q + i] = d[i]
  <2>1. /\ \A i \in 1..Len(b) : (b \o d)[i] = b[i]
        /\ \A i \in 1..Len(d) : (b \o d)[Len(b) + i] = d[i]
    <3>1. b \in Seq(U)
      BY <1>6
    <3> QED
      BY <3>1, ConcatAt
  <2> QED
    BY <1>1, <1>3, <1>6, <2>1
<1>8. ASSUME NEW i \in 1..y PROVE file[p + i] = v[i]
  <2>1. p + i \in 1..q
    BY <1>4
  <2> QED
    BY <1>6, <1>7, <2>1
<1>9. ASSUME NEW i \in 1..x PROVE file[1 + i] = r[i]
  <2>1. 1 + i \in 1..p /\ 1 + i \in 1..q
    BY <1>4
  <2> QED
    BY <1>5, <1>6, <1>7, <2>1
<1>10. file[1] = h
  <2>1. 1 \in 1..p /\ 1 \in 1..q
    BY <1>4
  <2> QED
    BY <1>5, <1>6, <1>7, <2>1
<1> QED
  BY <1>1, <1>4, <1>7, <1>8, <1>9, <1>10 DEF Lies

\* No entry on a level, no entry for a tile.
LEMMA NoneBelow ==
  ASSUME NEW k \in Nat, NEW es, NEW c, NEW leaves, Chain(c, k, es, leaves), NEW id \in Nat,
         NEW j \in 0..k, Find(c[j], id) = NoEntry
  PROVE  Find(es, id) = NoEntry
<1> DEFINE T == {i \in Nat : i <= k /\ Find(c[i], id) = NoEntry => Find(es, id) = NoEntry}
<1>1. 0 \in T
  BY DEF Chain
<1>2. ASSUME NEW i \in Nat, i \in T PROVE i + 1 \in T
  <2> SUFFICES ASSUME i + 1 <= k, Find(c[i + 1], id) = NoEntry PROVE Find(es, id) = NoEntry
    OBVIOUS
  <2>1. i + 1 \in 1..k /\ (i + 1) - 1 = i
    OBVIOUS
  <2>2. Leads(c[i + 1], c[i], leaves)
    BY <2>1 DEF Chain
  <2>3. Resolves(NoEntry, c[i], leaves, id)
    BY <2>2 DEF Leads
  <2>4. NoEntry \notin EntryType
    BY DEF NoEntry, Entry, EntryType
  <2>5. Find(c[i], id) = NoEntry
    BY <2>3, <2>4 DEF Resolves
  <2> QED
    BY <1>2, <2>5
<1>3. j \in T
  <2> HIDE DEF T
  <2> QED
    BY <1>1, <1>2, NatSetInduction
<1> QED
  BY <1>3

\* A lookup on its way: it is at a directory that stands for level j, or has ended as it should.
Coming(w, tiles, c, j, id) ==
  \/ w.res = Expected(tiles, id)
  \/ \E dir : w = [dir |-> dir, res |-> Outcome("going")] /\ Find(dir, id) = Find(c[j], id)

LEMMA NotNoEntry == NoEntry \notin EntryType /\ NoEntry.run = 0
  BY DEF NoEntry, Entry, EntryType

LEMMA EntryInside ==
  ASSUME NEW e \in EntryType, NEW n \in Nat, NEW most, e.len # 0, e.len <= most, e.off + e.len <= n
  PROVE  Inside(e, n, most)
  BY DEF Inside, EntryType

\* One turn takes a lookup a level down, if it does not end it.
LEMMA ComesDown ==
  ASSUME NEW file, NEW h, h = file[1], NEW leaves \in Seq(Rows), h.leafLen = Len(leaves),
         NEW base \in Nat, LeafOffset(h) = base, Lies(file, base, leaves),
         NEW k \in Nat, NEW es, NEW c, Chain(c, k, es, leaves), NEW j \in 1..k,
         NEW id \in Nat, NEW tiles, Find(es, id) = NoEntry => id \notin DOMAIN tiles,
         NEW w, Coming(w, tiles, c, j, id)
  PROVE  Coming(Visit(file, id, w), tiles, c, j - 1, id)
<1>1. CASE w.res = Expected(tiles, id)
  <2>1. w.res.out # "going"
    BY <1>1 DEF Expected, Found, Outcome
  <2>2. Visit(file, id, w) = w
    BY <2>1, EndedStays
  <2> QED
    BY <1>1, <2>2 DEF Coming
<1>2. CASE w.res # Expected(tiles, id)
  <2>1. PICK dir : w = [dir |-> dir, res |-> Outcome("going")] /\ Find(dir, id) = Find(c[j], id)
    BY <1>2 DEF Coming
  <2>2. PICK e : e = Find(dir, id)
    OBVIOUS
  <2>3. PICK v : v = Visit(file, id, w)
    OBVIOUS
  <2>4. /\ e = NoEntry => v.res = Outcome("none")
        /\ OpensLeaf(file, e) => v = [dir |-> DirectoryAt(file, e), res |-> Outcome("going")]
    BY <2>1, <2>2, <2>3, VisitTurns
  <2>5. Resolves(e, c[j - 1], leaves, id)
    BY <2>1, <2>2 DEF Chain, Leads
  <2>6. CASE e = NoEntry
    <3>1. j \in 0..k /\ Find(c[j], id) = NoEntry
      BY <2>1, <2>2, <2>6
    <3>2. Find(es, id) = NoEntry
      BY <3>1, NoneBelow
    <3>3. v.res = Expected(tiles, id)
      BY <2>4, <2>6, <3>2 DEF Expected
    <3> QED
      BY <2>3, <3>3 DEF Coming
  <2>7. CASE e # NoEntry
    <3>1. /\ e \in EntryType /\ e.run = 0 /\ e.len # 0 /\ e.len <= MaxBlock /\ e.off + e.len <= Len(leaves)
          /\ WellFormed(Part(leaves, e)) /\ Find(Parse(Part(leaves, e)), id) = Find(c[j - 1], id)
      BY <2>5, <2>7 DEF Resolves
    <3>2. Bytes(file, base + e.off, e.len) = Part(leaves, e)
      BY <3>1, BytesLie
    <3>3. LeafInside(e, file[1])
      <4>1. Inside(e, Len(leaves), MaxBlock)
        BY <3>1, EntryInside, LenProperties
      <4> QED
        BY <4>1 DEF LeafInside
    <3>4. OpensLeaf(file, e) /\ DirectoryAt(file, e) = Parse(Part(leaves, e))
      BY <2>7, <3>1, <3>2, <3>3 DEF OpensLeaf, LeafRows, DirectoryAt
    <3>5. v = [dir |-> Parse(Part(leaves, e)), res |-> Outcome("going")]
      BY <2>4, <3>4
    <3> QED
      BY <2>3, <3>1, <3>5 DEF Coming
  <2> QED
    BY <2>6, <2>7
<1> QED
  BY <1>1, <1>2

\* The entry that find should give for id.
IsFor(e, tiles, data, id) ==
  IF id \in DOMAIN tiles
  THEN /\ e \in EntryType /\ e.run > 0 /\ e.len > 0 /\ e.off + e.len <= Len(data)
       /\ tiles[id] = Part(data, e)
  ELSE e = NoEntry

\* The tile data is where the header says.
HoldsData(file, data) ==
  DataOffset(file[1]) \in Nat /\ file[1].dataLen = Len(data) /\ Lies(file, DataOffset(file[1]), data)

\* At the entries for tiles a lookup ends, with the tile if there is one.
LEMMA ComesToTile ==
  ASSUME NEW T, NEW file, NEW data \in Seq(T), HoldsData(file, data), NEW tiles, NEW c, NEW id,
         IsFor(Find(c[0], id), tiles, data, id), NEW w, Coming(w, tiles, c, 0, id)
  PROVE  Visit(file, id, w).res = Expected(tiles, id)
<1>0. PICK base \in Nat : base = DataOffset(file[1])
  BY DEF HoldsData
<1>00. PICK f : f = Find(c[0], id)
  OBVIOUS
<1>1. CASE w.res = Expected(tiles, id)
  <2>1. w.res.out # "going"
    BY <1>1 DEF Expected, Found, Outcome
  <2> QED
    BY <1>1, <2>1, EndedStays
<1>2. CASE w.res # Expected(tiles, id)
  <2>1. PICK dir : w = [dir |-> dir, res |-> Outcome("going")] /\ Find(dir, id) = f
    BY <1>00, <1>2 DEF Coming
  <2>2. PICK v : v = Visit(file, id, w)
    OBVIOUS
  <2>3. /\ f = NoEntry => v.res = Outcome("none")
        /\ f # NoEntry /\ HoldsTile(file, f) =>
             v.res = Found(Bytes(file, DataOffset(file[1]) + f.off, f.len))
        /\ f # NoEntry /\ ~HoldsTile(file, f) /\ ~OpensLeaf(file, f) => v.res = Outcome("error")
    BY <2>1, <2>2, VisitTurns
  <2>4. CASE id \notin DOMAIN tiles
    BY <1>00, <2>2, <2>3, <2>4 DEF Expected, IsFor
  <2>5. CASE id \in DOMAIN tiles
    <3>1. f \in EntryType /\ f.run > 0 /\ f.len # 0 /\ f.off + f.len <= Len(data) /\ tiles[id] = Part(data, f)
      <4>1. f \in EntryType /\ f.run > 0 /\ f.len > 0 /\ f.off + f.len <= Len(data) /\ tiles[id] = Part(data, f)
        BY <1>00, <2>5 DEF IsFor
      <4>2. f.len # 0
        BY <4>1 DEF EntryType
      <4> QED
        BY <4>1, <4>2
    <3>2. Bytes(file, base + f.off, f.len) = Part(data, f)
      <4>1. Lies(file, base, data)
        BY <1>0 DEF HoldsData
      <4> QED
        BY <3>1, <4>1, BytesLie
    <3>3. f # NoEntry /\ ~OpensLeaf(file, f)
      <4>1. f.run # 0
        BY <3>1 DEF EntryType
      <4> QED
        BY <3>1, <4>1, NotNoEntry DEF OpensLeaf
    <3>4. Len(tiles[id]) = f.len
      <4>1. PICK m \in Nat, n \in Nat : m = f.off /\ n = f.len
        BY <3>1 DEF EntryType
      <4>2. PICK q \in Nat : q = m + n
        OBVIOUS
      <4>3. m <= q /\ q <= Len(data) /\ q - m = n
        BY <3>1, <4>1, <4>2
      <4>4. Len(SubSeq(data, m + 1, q)) = q - m
        BY <4>3, PartOfDirectory
      <4> QED
        BY <3>1, <4>1, <4>2, <4>3, <4>4 DEF Part
    <3>5. CASE Len(tiles[id]) <= MaxTileSize
      <4>1. Inside(f, Len(data), MaxTileSize)
        BY <3>1, <3>4, <3>5, EntryInside, LenProperties
      <4>2. HoldsTile(file, f)
        BY <3>1, <4>1 DEF HoldsTile, TileInside, HoldsData
      <4> QED
        BY <1>0, <2>2, <2>3, <2>5, <3>1, <3>2, <3>3, <3>5, <4>2 DEF Expected
    <3>6. CASE ~(Len(tiles[id]) <= MaxTileSize)
      <4>1. ~HoldsTile(file, f)
        BY <3>4, <3>6 DEF HoldsTile, TileInside, Inside
      <4> QED
        BY <2>2, <2>3, <2>5, <3>3, <3>6, <4>1 DEF Expected
    <3> QED
      BY <3>5, <3>6
  <2> QED
    BY <2>4, <2>5
<1> QED
  BY <1>1, <1>2

\* The file: the entries for tiles, the levels above them, and where each section lies.
ZoomsOf(tiles) == {IDToZXY(id)[1] : id \in DOMAIN tiles}
HasHeader(h, r, v, d, zooms) ==
  /\ h.rootLen = Len(r) /\ h.leafLen = Len(v) /\ h.dataLen = Len(d)
  /\ h.minZoom = Min(zooms) /\ h.maxZoom = Max(zooms)
Headed(file, r, v, d, zooms) == \E h : IsFile(file, h, r, v, d) /\ HasHeader(h, r, v, d, zooms)

LEMMA BuiltFile ==
  ASSUME NEW tiles, NEW l, NEW runLengths
  PROVE  Headed(Build(tiles, l, runLengths), Encode(TopLevel(TileEntries(tiles, runLengths).es, l).level),
                TopLevel(TileEntries(tiles, runLengths).es, l).leaves, TileEntries(tiles, runLengths).data,
                ZoomsOf(tiles))
<1>0. PICK t : t = TileEntries(tiles, runLengths)
  OBVIOUS
<1>00. PICK top : top = TopLevel(t.es, l)
  OBVIOUS
<1> DEFINE h == Header(Len(Encode(top.level)), Len(top.leaves), Len(t.data),
                       ZoomsOf(tiles))
<1>1. top = Loop(LAMBDA a, i : IF l > 0 /\ Len(a.level) > l THEN SplitLevel(a, l) ELSE a,
                 [level |-> t.es, leaves |-> <<>>], Len(t.es))
  BY <1>00 DEF TopLevel, LevelTurn
<1>2. Build(tiles, l, runLengths) = <<h>> \o Encode(top.level) \o top.leaves \o t.data
  BY <1>0, <1>1 DEF Build, ZoomsOf
<1>3. HasHeader(h, Encode(top.level), top.leaves, t.data, ZoomsOf(tiles))
  BY DEF Header, HasHeader
<1> HIDE DEF h
<1>4. IsFile(Build(tiles, l, runLengths), h, Encode(top.level), top.leaves, t.data)
  BY <1>2 DEF IsFile
<1>5. Headed(Build(tiles, l, runLengths), Encode(top.level), top.leaves, t.data, ZoomsOf(tiles))
  BY <1>3, <1>4 DEF Headed
<1> QED
  BY <1>0, <1>00, <1>5

LEMMA SeqOfMore ==
  ASSUME NEW S, NEW U, S \subseteq U, NEW s \in Seq(S)
  PROVE  s \in Seq(U)
<1>1. Len(s) \in Nat /\ s \in [1..Len(s) -> S]
  BY LenProperties
<1>2. s \in [1..Len(s) -> U]
  BY <1>1
<1> QED
  BY <1>1, <1>2

\* A lookup in an archive, from the root.
LEMMA LookupComes ==
  ASSUME NEW file, NEW id, NEW tiles, NEW c, NEW k \in 0..3,
         Coming(Begun(file), tiles, c, k, id),
         \A j \in 1..3 : j <= k => \A w : Coming(w, tiles, c, j, id) => Coming(Visit(file, id, w), tiles, c, j - 1, id),
         \A w : Coming(w, tiles, c, 0, id) => Visit(file, id, w).res = Expected(tiles, id)
  PROVE  Lookup(file, id) = Expected(tiles, id)
<1> DEFINE R == Expected(tiles, id)
           V(w) == Visit(file, id, w)
           C(j, w) == Coming(w, tiles, c, j, id)
<1>1. R.out # "going"
  BY DEF Expected, Found, Outcome
<1>2. ASSUME NEW w, w.res = R PROVE V(w).res = R
  BY <1>1, <1>2, EndedStays
<1>3. Lookup(file, id) = Ended(V(V(V(V(Begun(file))))))
  BY LookupUnrolled DEF Walked
<1>4. /\ \A w : C(0, w) => V(w).res = R
      /\ k >= 1 => \A w : C(1, w) => C(0, V(w))
      /\ k >= 2 => \A w : C(2, w) => C(1, V(w))
      /\ k = 3 => \A w : C(3, w) => C(2, V(w))
  <2>1. ASSUME NEW j \in 1..3, j <= k, NEW w, C(j, w) PROVE C(j - 1, V(w))
    BY <2>1
  <2> HIDE DEF C, V, R
  <2>2. /\ k >= 1 => \A w : C(1, w) => C(1 - 1, V(w))
        /\ k >= 2 => \A w : C(2, w) => C(2 - 1, V(w))
        /\ k = 3 => \A w : C(3, w) => C(3 - 1, V(w))
    BY <2>1
  <2>3. 1 - 1 = 0 /\ 2 - 1 = 1 /\ 3 - 1 = 2
    OBVIOUS
  <2>4. \A w : C(0, w) => V(w).res = R
    BY DEF C, V, R
  <2> QED
    BY <2>2, <2>3, <2>4
<1>5. C(k, Begun(file))
  OBVIOUS
<1>6. V(V(V(V(Begun(file))))).res = R
  <2>1. PICK w : w = Begun(file)
    OBVIOUS
  <2> HIDE DEF C, V, R
  <2>2. CASE k = 0
    BY <1>2, <1>4, <1>5, <2>1, <2>2
  <2>3. CASE k = 1
    BY <1>2, <1>4, <1>5, <2>1, <2>3
  <2>4. CASE k = 2
    BY <1>2, <1>4, <1>5, <2>1, <2>4
  <2>5. CASE k = 3
    BY <1>2, <1>4, <1>5, <2>1, <2>5
  <2> QED
    BY <2>2, <2>3, <2>4, <2>5
<1> QED
  BY <1>1, <1>3, <1>6 DEF Ended

\* A file of sections: entries for tiles, k levels of leaf directories above them, and the root.
Holds(file, tiles, T, h, es, data, leaves, level, k, c) ==
  /\ es \in Seq(EntryType) /\ data \in Seq(T) /\ leaves \in Seq(Rows)
  /\ level \in Seq(EntryType) /\ Ascending(level) /\ Encode(level) \in Seq(Rows)
  /\ k \in 0..3 /\ Chain(c, k, es, leaves) /\ c[k] = level
  /\ \A id \in Nat : IsFor(Find(es, id), tiles, data, id)
  /\ HasHeader(h, Encode(level), leaves, data, ZoomsOf(tiles))
  /\ file[1] = h
  /\ Lies(file, 1, Encode(level)) /\ Lies(file, 1 + Len(Encode(level)), leaves)
  /\ Lies(file, 1 + Len(Encode(level)) + Len(leaves), data)

LEMMA BuiltHolds ==
  ASSUME NEW T, NEW tiles, Payloads(tiles, T), DOMAIN tiles # {},
         NEW leafSize \in Nat, leafSize <= MaxBlock, NEW runLengths \in BOOLEAN,
         Fits(Len(TileEntries(tiles, runLengths).es), leafSize, 0),
         NEW file, file = Build(tiles, leafSize, runLengths)
  PROVE  \E h, es, data, leaves, level, k, c : Holds(file, tiles, T, h, es, data, leaves, level, k, c)
<1>0. PICK bound \in Nat : \A i \in DOMAIN tiles : i <= bound
  BY FiniteIsBounded DEF Payloads
<1>1. PICK t : t = TileEntries(tiles, runLengths)
  OBVIOUS
<1>2. PICK n \in Nat : (\A i \in DOMAIN tiles : i < n) /\ t \in TilesBelow(tiles, T, n)
  BY <1>0, <1>1, TileEntriesStand
<1>3. PICK es \in Seq(EntryType), data \in Seq(T) : es = t.es /\ data = t.data
  BY <1>2 DEF TilesBelow
<1>4. Ascending(es)
  <2> SUFFICES ASSUME NEW p \in 1..Len(es), NEW q \in 1..Len(es), p < q PROVE es[p].id < es[q].id
    BY DEF Ascending
  <2>1. es[p].id + es[p].run <= es[q].id /\ es[p].run > 0
    BY <1>2, <1>3 DEF TilesBelow, Stands
  <2>2. es[p].id \in Nat /\ es[p].run \in Nat /\ es[q].id \in Nat
    BY EntriesOf
  <2> QED
    BY <2>1, <2>2
<1>5. PICK top : top = TopLevel(es, leafSize)
  OBVIOUS
<1>6. top \in Levels(es, leafSize)
  BY <1>1, <1>3, <1>4, <1>5, TopLevelLeads
<1>7. PICK level \in Seq(EntryType), leaves \in Seq(Rows) : level = top.level /\ leaves = top.leaves
  BY <1>6 DEF Levels, LevelType
<1>8. PICK k \in 0..3 : \E c : Chain(c, k, es, leaves) /\ c[k] = level
  BY <1>6, <1>7 DEF Levels
<1>9. PICK c : Chain(c, k, es, leaves) /\ c[k] = level
  BY <1>8
<1>10. PICK root \in Seq(Rows) : root = Encode(level)
  BY <1>6, <1>7, EncodedRows DEF Levels
<1>11. PICK h : IsFile(file, h, root, leaves, data) /\ HasHeader(h, root, leaves, data, ZoomsOf(tiles))
  <2>1. top = TopLevel(TileEntries(tiles, runLengths).es, leafSize)
    BY <1>1, <1>3, <1>5
  <2>2. Headed(Build(tiles, leafSize, runLengths), Encode(top.level), top.leaves,
               TileEntries(tiles, runLengths).data, ZoomsOf(tiles))
    BY <2>1, BuiltFile
  <2>3. Headed(file, root, leaves, data, ZoomsOf(tiles))
    BY <1>1, <1>3, <1>7, <1>10, <2>2
  <2> QED
    BY <2>3 DEF Headed
<1>12. /\ file[1] = h
       /\ Lies(file, 1, root) /\ Lies(file, 1 + Len(root), leaves)
       /\ Lies(file, 1 + Len(root) + Len(leaves), data)
  <2> DEFINE U == {h} \cup Rows \cup T
  <2>1. h \in U /\ Rows \subseteq U /\ T \subseteq U
    OBVIOUS
  <2> HIDE DEF U
  <2>2. root \in Seq(U) /\ leaves \in Seq(U) /\ data \in Seq(U)
    BY <2>1, SeqOfMore
  <2>3. IsFile(file, h, root, leaves, data)
    BY <1>11
  <2>4. h \in U
    BY <2>1
  <2>5. PICK g \in U, v1 \in Seq(U), v2 \in Seq(U), v3 \in Seq(U) :
          g = h /\ v1 = root /\ v2 = leaves /\ v3 = data
    BY <2>2, <2>4
  <2>6. IsFile(file, g, v1, v2, v3)
    BY <2>3, <2>5
  <2>7. /\ file[1] = g /\ Lies(file, 1, v1) /\ Lies(file, 1 + Len(v1), v2)
        /\ Lies(file, 1 + Len(v1) + Len(v2), v3)
    BY <2>6, SectionsLie
  <2> QED
    BY <2>5, <2>7
<1>13. ASSUME NEW id \in Nat PROVE IsFor(Find(es, id), tiles, data, id)
  <2>1. PICK f : f = Find(es, id)
    OBVIOUS
  <2>2. /\ id \notin DOMAIN tiles => f = NoEntry
        /\ id \in DOMAIN tiles => /\ f \in EntryType /\ f.run > 0 /\ f.len > 0
                                  /\ f.off + f.len <= Len(data) /\ tiles[id] = Part(data, f)
    BY SMTT(30), <1>2, <1>3, <2>1, FindsTile
  <2> QED
    BY <2>1, <2>2 DEF IsFor
<1>14. Ascending(level)
  BY <1>6, <1>7 DEF Levels
<1>15. Holds(file, tiles, T, h, es, data, leaves, level, k, c)
  BY <1>3, <1>7, <1>9, <1>10, <1>11, <1>12, <1>13, <1>14 DEF Holds
<1> QED
  BY <1>15

(* What Build writes and Open accepts, Tile reads: every tile is found, or *)
(* refused if it is larger than maxTileSize, and every other id is         *)
(* missing, with run lengths and without, whatever the size of a leaf      *)
(* directory, as long as it is no larger than a block may be, the leaf     *)
(* directories nest no deeper than Tile goes down and neither lengths nor  *)
(* the number of tiles exceed a column (build.go Build; parseDirectory,    *)
(* find, Tile).                                                            *)
THEOREM BuiltTilesAreRead ==
  ASSUME NEW T, NEW tiles, Payloads(tiles, T), DOMAIN tiles # {},
         NEW leafSize \in Nat, leafSize <= MaxBlock, NEW runLengths \in BOOLEAN,
         Fits(Len(TileEntries(tiles, runLengths).es), leafSize, 0),
         NEW id \in Nat, RootOpens(Build(tiles, leafSize, runLengths))
  PROVE  Lookup(Build(tiles, leafSize, runLengths), id) = Expected(tiles, id)
<1>1. PICK file : file = Build(tiles, leafSize, runLengths)
  OBVIOUS
<1>2. PICK h, es, data, leaves, level, k, c : Holds(file, tiles, T, h, es, data, leaves, level, k, c)
  BY <1>1, BuiltHolds
<1>3. /\ es \in Seq(EntryType) /\ data \in Seq(T) /\ leaves \in Seq(Rows)
      /\ level \in Seq(EntryType) /\ Ascending(level) /\ k \in 0..3
  BY <1>2 DEF Holds
<1>4. Chain(c, k, es, leaves) /\ c[k] = level /\ IsFor(Find(es, id), tiles, data, id)
  BY <1>2 DEF Holds
<1>5. PICK root \in Seq(Rows) : root = Encode(level)
  BY <1>2 DEF Holds
<1>6. /\ h.rootLen = Len(root) /\ h.leafLen = Len(leaves) /\ h.dataLen = Len(data) /\ file[1] = h
      /\ Lies(file, 1, root) /\ Lies(file, 1 + Len(root), leaves)
      /\ Lies(file, 1 + Len(root) + Len(leaves), data)
  BY <1>2, <1>5 DEF Holds, HasHeader
<1>7. PICK leafBase \in Nat, dataBase \in Nat :
         leafBase = 1 + Len(root) /\ dataBase = 1 + Len(root) + Len(leaves)
  BY SMTT(30), LenProperties
<1>8. RootOffset(h) = 1 /\ LeafOffset(h) = leafBase /\ DataOffset(h) = dataBase
  BY <1>6, <1>7 DEF RootOffset, LeafOffset, DataOffset, HeaderSize
<1>9. DirectoryAt(file, NoEntry) = level
  <2>1. Bytes(file, 1, Len(root)) = root
    BY <1>6, AllBytesLie
  <2>2. Parse(root) = level
    BY <1>3, <1>5, DirectoriesAreReadBack
  <2>3. RootOffset(file[1]) = 1 /\ file[1].rootLen = Len(root)
    BY <1>6, <1>8
  <2>4. DirectoryAt(file, NoEntry) = Parse(Bytes(file, RootOffset(file[1]), file[1].rootLen))
    BY DEF DirectoryAt
  <2> QED
    BY <2>1, <2>2, <2>3, <2>4
<1>10. Coming(Begun(file), tiles, c, k, id)
  BY <1>4, <1>9 DEF Coming, Begun
<1>11. Find(es, id) = NoEntry => id \notin DOMAIN tiles
  BY <1>4, NotNoEntry DEF IsFor
<1>12. \A w : Coming(w, tiles, c, 0, id) => Visit(file, id, w).res = Expected(tiles, id)
  <2>1. HoldsData(file, data)
    BY <1>6, <1>7, <1>8 DEF HoldsData
  <2>2. IsFor(Find(c[0], id), tiles, data, id)
    BY <1>4 DEF Chain
  <2> QED
    BY <1>3, <2>1, <2>2, ComesToTile
<1>13. ASSUME NEW j \in 1..3, j <= k, NEW w, Coming(w, tiles, c, j, id)
       PROVE  Coming(Visit(file, id, w), tiles, c, j - 1, id)
  <2>1. j \in 1..k /\ k \in Nat
    BY <1>3, <1>13
  <2>2. Lies(file, leafBase, leaves)
    BY <1>6, <1>7
  <2>3. LeafOffset(h) = leafBase /\ h = file[1] /\ h.leafLen = Len(leaves)
    BY <1>6, <1>8
  <2> QED
    BY <1>3, <1>4, <1>11, <1>13, <2>1, <2>2, <2>3, ComesDown
<1>14. Lookup(file, id) = Expected(tiles, id)
  BY <1>3, <1>10, <1>12, <1>13, LookupComes
<1> QED
  BY <1>1, <1>14

----------------------------------------------------------------------------
(* The files of complete releases.                                         *)

\* The sizes that a header declares.
LEMMA SectionSizes ==
  ASSUME NEW a \in Sound, NEW h, h = File[a][1]
  PROVE  /\ a \in Releases /\ a \in Manifests
         /\ h.rootLen \in Nat \ {0} /\ h.rootLen <= MaxBlock /\ h.leafLen \in Nat /\ h.dataLen \in Nat
         /\ RootOffset(h) = 1 /\ LeafOffset(h) = 1 + h.rootLen
         /\ DataOffset(h) = 1 + h.rootLen + h.leafLen
         /\ Length[Archive(a)] \in Nat
         /\ DataOffset(h) + h.dataLen <= Length[Archive(a)]
<1>1. a \in Manifests /\ a \in Releases /\ Complete(h, Len(File[a]))
  BY ReleaseAssumption DEF Sound
<1>2. Length[Archive(a)] = Len(File[a]) /\ h.rootLen \in Nat
  BY <1>1, UploadAssumption
<1>3. h.rootLen > 0 /\ h.rootLen <= MaxBlock /\ h.leafLen \in Nat /\ h.dataLen \in Nat
  BY ArchivesHoldTheirTiles DEF HoldsTiles, RootOpens
<1>4. Length[Archive(a)] \in Nat
  BY <1>1, Objects0, UploadAssumption
<1> QED
  BY <1>1, <1>2, <1>3, <1>4 DEF Complete, RootOffset, LeafOffset, DataOffset, HeaderSize

\* The directories of a file hold entries.
LEMMA RootIsTyped ==
  ASSUME NEW a \in Sound
  PROVE  DirectoryAt(File[a], NoEntry) \in Seq(EntryType)
<1>1. PICK h : h = File[a][1]
  OBVIOUS
<1>2. PICK rows : rows = Bytes(File[a], RootOffset(h), h.rootLen)
  OBVIOUS
<1>3. \A i \in 2..DataOffset(h) : File[a][i] \in Rows
  BY <1>1, ArchivesHoldTheirTiles DEF HoldsTiles, RootOpens, HeaderSize
<1>4. rows \in [1..h.rootLen -> Rows]
  BY <1>1, <1>2, <1>3, SectionSizes DEF Bytes
<1>5. DirectoryAt(File[a], NoEntry) = Parse(rows)
  BY <1>1, <1>2 DEF DirectoryAt
<1>6. WellFormed(rows)
  BY <1>1, <1>2, ArchivesHoldTheirTiles DEF HoldsTiles, RootOpens
<1> QED
  BY <1>1, <1>4, <1>5, <1>6, ParsedEntries, SectionSizes

LEMMA LeafIsTyped ==
  ASSUME NEW a \in Sound, NEW e \in EntryType, OpensLeaf(File[a], e)
  PROVE  DirectoryAt(File[a], e) \in Seq(EntryType)
<1>1. PICK h : h = File[a][1]
  OBVIOUS
<1>2. PICK rows : rows = LeafRows(File[a], e)
  OBVIOUS
<1>3. \A i \in 2..DataOffset(h) : File[a][i] \in Rows
  BY <1>1, ArchivesHoldTheirTiles DEF HoldsTiles, RootOpens, HeaderSize
<1>4. e.off \in Nat /\ e.len \in Nat /\ e.len <= h.leafLen - e.off
  BY <1>1 DEF EntryType, OpensLeaf, LeafInside, Inside
<1>5. rows \in [1..e.len -> Rows]
  <2>1. \A i \in 1..e.len : LeafOffset(h) + e.off + i \in 2..DataOffset(h)
    BY <1>1, <1>4, SectionSizes
  <2> QED
    BY <1>1, <1>2, <1>3, <2>1 DEF LeafRows, Bytes
<1>6. DirectoryAt(File[a], e) = Parse(rows)
  BY <1>2 DEF DirectoryAt, LeafRows, OpensLeaf
<1>7. WellFormed(rows)
  BY <1>2 DEF OpensLeaf
<1> QED
  BY <1>4, <1>5, <1>6, <1>7, ParsedEntries
----------------------------------------------------------------------------
(* A request is where a lookup in the file would be.                       *)

\* Who asks for id gets an answer from the archive.
Served(id) == \E t \in Wanted : OnGrid(t) /\ InZooms(t[1], TheHeader) /\ id = TileId(t)

\* The lookup has come to the entry the request is at.
OnPath(w) ==
  /\ w.entry \in EntryType \cup {NoEntry}
  /\ \E dir : /\ Walked(TheFile, w.id, w.depth) = [dir |-> dir, res |-> Outcome("going")]
              /\ w.entry = Find(dir, w.id)

\* The entry is that of the tile, and its bytes are the tile.
AtTile(w) ==
  LET e == w.entry IN
  /\ e \in EntryType /\ e.run > 0 /\ TileInside(e, TheHeader)
  /\ w.id \in DOMAIN Tiles[load.release]
  /\ Bytes(TheFile, DataOffset(TheHeader) + e.off, e.len) = Tiles[load.release][w.id]

\* What the answer of a request says.
AnswerOK(w) ==
  /\ w.status = 200 => w.id \in DOMAIN Tiles[load.release] /\ w.body = Tiles[load.release][w.id]
  /\ w.status = 204 => w.id \notin DOMAIN Tiles[load.release]

PathOK(w) ==
  /\ AnswerOK(w) /\ (w.status # 0 => w.step = "idle" /\ At("open"))
  /\ w.step \in {"look", "leaf"} => Served(w.id) /\ OnPath(w)
  /\ w.step = "tile" => AtTile(w)

\* The bytes a request reads: those of its entry, in the section of tiles or of leaves.
Place(w) == (IF w.entry.run > 0 THEN DataOffset(TheHeader) ELSE LeafOffset(TheHeader)) + w.entry.off

\* The read of a request, and what has come of it.
ReadOK(w, q, p) ==
  /\ q.step # "none" => /\ q.method = "GET" /\ q.object = Archive(load.release)
                        /\ q.off = Place(w) /\ q.end = Place(w) + w.entry.len - 1
  /\ p.status \in {"none", "missing", "error", "data"}
  /\ p.status = "data" => p.version = Archive(load.release) /\ p.off = Place(w) /\ p.n = w.entry.len

Reading(r) == walk[r].step = "tile" \/ pc[r] = "load"

CallFits(r) ==
  /\ call[r] \in Request
  /\ Reading(r) => ReadOK(walk[r], call[r], reply[r])
  /\ ~Reading(r) => call[r].step = "none" /\ reply[r] = NoReply

\* Requests are on their path and read what is there.
PathInv == \A r \in Readers : PathOK(walk[r]) /\ CallFits(r)
LEMMA OpenIsSound ==
  ASSUME OpeningInv, At("open")
  PROVE  load.release \in Sound /\ load.release \in Releases /\ load.size = Length[Archive(load.release)]
  BY ReleaseAssumption DEF OpeningInv, LoadOK, At, Sound

LEMMA ServedLookup ==
  ASSUME load.release \in Sound, NEW id, Served(id)
  PROVE  Lookup(TheFile, id) = IF id \in DOMAIN Tiles[load.release]
                               THEN Found(Tiles[load.release][id]) ELSE Outcome("none")
<1>1. PICK a \in Sound : a = load.release
  OBVIOUS
<1>2. PICK t \in Wanted : OnGrid(t) /\ InZooms(t[1], File[a][1]) /\ id = TileId(t)
  BY <1>1 DEF Served, TheHeader, TheFile
<1>3. IF id \in DOMAIN Tiles[a] THEN Lookup(File[a], id) = Found(Tiles[a][id])
      ELSE Lookup(File[a], id) = Outcome("none")
  BY <1>2, ArchivesHoldTheirTiles DEF HoldsTiles, RootOpens
<1> QED
  BY <1>1, <1>3 DEF TheFile

\* Where a request can be on its path.
LEMMA PathGoesOn ==
  ASSUME load.release \in Sound, NEW w, w.depth \in 0..3, Served(w.id), OnPath(w),
         NEW e, e = w.entry
  PROVE  /\ e = NoEntry => w.id \notin DOMAIN Tiles[load.release]
         /\ e # NoEntry => e \in EntryType /\ (HoldsTile(TheFile, e) \/ OpensLeaf(TheFile, e))
         /\ e # NoEntry /\ HoldsTile(TheFile, e) => AtTile(w)
         /\ OpensLeaf(TheFile, e) =>
              /\ w.depth < 3
              /\ Walked(TheFile, w.id, w.depth + 1)
                   = [dir |-> DirectoryAt(TheFile, e), res |-> Outcome("going")]
<1>1. PICK a \in Sound : a = load.release
  OBVIOUS
<1>2. PICK file, id, d : file = TheFile /\ id = w.id /\ d = w.depth
  OBVIOUS
<1>3. PICK dir : Walked(file, id, d) = [dir |-> dir, res |-> Outcome("going")] /\ e = Find(dir, id)
  BY <1>2 DEF OnPath
<1>4. d \in 0..3
  BY <1>2
<1>5. /\ e = NoEntry => Lookup(file, id) = Outcome("none")
      /\ e # NoEntry /\ HoldsTile(file, e) =>
           Lookup(file, id) = Found(Bytes(file, DataOffset(file[1]) + e.off, e.len))
      /\ e # NoEntry /\ ~HoldsTile(file, e) /\ ~OpensLeaf(file, e) => Lookup(file, id) = Outcome("error")
      /\ OpensLeaf(file, e) /\ d = 3 => Lookup(file, id) = Outcome("error")
      /\ OpensLeaf(file, e) /\ d < 3 =>
           Walked(file, id, d + 1) = [dir |-> DirectoryAt(file, e), res |-> Outcome("going")]
  BY <1>3, <1>4, LookupFrom
<1>6. Lookup(file, id) = IF id \in DOMAIN Tiles[a] THEN Found(Tiles[a][id]) ELSE Outcome("none")
  BY <1>1, <1>2, ServedLookup
<1>7. Lookup(file, id) # Outcome("error")
  BY <1>6 DEF Outcome, Found
<1>8. e = NoEntry => id \notin DOMAIN Tiles[a]
  BY <1>5, <1>6 DEF Outcome, Found
<1>9. e # NoEntry => e \in EntryType /\ (HoldsTile(file, e) \/ OpensLeaf(file, e))
  BY <1>5, <1>7 DEF OnPath
<1>10. ASSUME e # NoEntry, HoldsTile(file, e) PROVE AtTile(w)
  <2>1. PICK payload : payload = Bytes(file, DataOffset(file[1]) + e.off, e.len)
    OBVIOUS
  <2>2. Lookup(file, id) = Found(payload)
    BY <1>5, <1>10, <2>1
  <2>3. id \in DOMAIN Tiles[a] /\ Tiles[a][id] = payload
    BY <1>6, <2>2 DEF Found, Outcome
  <2> QED
    BY <1>1, <1>2, <1>9, <1>10, <2>1, <2>3 DEF AtTile, HoldsTile, TheHeader, TheFile
<1>11. OpensLeaf(file, e) => d < 3
  BY <1>4, <1>5, <1>7
<1> QED
  BY <1>1, <1>2, <1>5, <1>8, <1>9, <1>10, <1>11

\* The next entry is on the path again.
LEMMA PathDescends ==
  ASSUME load.release \in Sound, NEW w, w.depth \in 0..3, Served(w.id), OnPath(w),
         w.entry # NoEntry, w.entry.run = 0, AtLeaf(w),
         NEW v, v.id = w.id, v.depth = w.depth + 1, v.entry = EntryFor(w.id, w.entry)
  PROVE  w.depth < 3 /\ OnPath(v)
<1>1. PICK e, f, dir : e = w.entry /\ f = v.entry /\ dir = DirectoryAt(TheFile, e)
  OBVIOUS
<1>2. e \in EntryType /\ OpensLeaf(TheFile, e)
  <2>1. ~HoldsTile(TheFile, e)
    BY <1>1 DEF HoldsTile
  <2> QED
    BY <1>1, <2>1, PathGoesOn
<1>3. w.depth < 3 /\ Walked(TheFile, w.id, v.depth) = [dir |-> dir, res |-> Outcome("going")]
  BY <1>1, <1>2, PathGoesOn
<1>4. e \in LeafEntries(TheFile)
  BY <1>1, LeavesOfFile DEF AtLeaf
<1>5. load.release \in Releases
  BY SectionSizes
<1>6. f = Find(dir, w.id)
  BY <1>1, <1>4, <1>5, EntryOfDirectory
<1>7. dir \in Seq(EntryType)
  BY <1>1, <1>2, LeafIsTyped DEF TheFile
<1>8. f \in EntryType \cup {NoEntry}
  BY <1>6, <1>7, FoundIsEntry
<1> QED
  BY <1>1, <1>3, <1>6, <1>8 DEF OnPath

LEMMA PathBegins ==
  ASSUME load.release \in Sound, NEW v, v.depth = 0, v.entry = EntryFor(v.id, NoEntry)
  PROVE  OnPath(v)
<1>1. PICK dir : dir = DirectoryAt(TheFile, NoEntry)
  OBVIOUS
<1>2. load.release \in Releases
  BY SectionSizes
<1>3. v.entry = Find(dir, v.id)
  BY <1>1, <1>2, EntryOfDirectory
<1>4. dir \in Seq(EntryType)
  BY <1>1, RootIsTyped DEF TheFile
<1>5. v.entry \in EntryType \cup {NoEntry}
  BY <1>3, <1>4, FoundIsEntry
<1>6. Walked(TheFile, v.id, v.depth) = [dir |-> dir, res |-> Outcome("going")]
  BY <1>1 DEF Walked, Begun
<1> QED
  BY <1>3, <1>5, <1>6 DEF OnPath

LEMMA PathStays ==
  ASSUME NEW w, PathOK(w), load' = load \/ (w.step = "idle" /\ w.status = 0)
  PROVE  PathOK(w)'
  BY DEF PathOK, AnswerOK, Served, OnPath, AtTile, TheHeader, TheFile, At

LEMMA ReadStays ==
  ASSUME NEW w, NEW q, NEW p, ReadOK(w, q, p), load' = load
  PROVE  ReadOK(w, q, p)'
  BY DEF ReadOK, Place, TheHeader, TheFile

\* A request whose fields are those of another state.
LEMMA CallStays ==
  ASSUME NEW r \in Readers, CallFits(r), load' = load \/ ~Reading(r),
         walk'[r] = walk[r], pc'[r] = pc[r], call'[r] = call[r], reply'[r] = reply[r]
  PROVE  CallFits(r)'
<1>1. Reading(r)' = Reading(r)
  BY DEF Reading
<1>2. CASE Reading(r)
  <2>1. PICK w, q, p : w = walk[r] /\ q = call[r] /\ p = reply[r]
    OBVIOUS
  <2>2. ReadOK(w, q, p)
    BY <1>2, <2>1 DEF CallFits
  <2>3. ReadOK(w, q, p)'
    BY <1>2, <2>2, ReadStays
  <2> QED
    BY <1>1, <1>2, <2>1, <2>3 DEF CallFits, ReadOK, Place
<1>3. CASE ~Reading(r)
  BY <1>1, <1>3 DEF CallFits
<1> QED
  BY <1>2, <1>3

\* One request moves, the others stay where they are.
LEMMA OnePath ==
  ASSUME PathInv, WalkInv, NEW r \in Readers, load' = load,
         NEW w, walk' = [walk EXCEPT ![r] = w] \/ (walk' = walk /\ w = walk[r]), PathOK(w),
         \A s \in Readers \ {r} : pc'[s] = pc[s] /\ call'[s] = call[s] /\ reply'[s] = reply[s],
         CallFits(r)'
  PROVE  PathInv'
<1>1. walk'[r] = w /\ \A s \in Readers \ {r} : walk'[s] = walk[s]
  BY DEF WalkInv
<1>2. PathOK(w)'
  BY PathStays
<1>3. ASSUME NEW s \in Readers \ {r} PROVE PathOK(walk[s])' /\ CallFits(s)'
  <2>1. PICK v : v = walk[s] /\ PathOK(v)
    BY DEF PathInv
  <2>2. PathOK(v)'
    BY <2>1, PathStays
  <2>3. CallFits(s)'
    BY <1>1, CallStays DEF PathInv
  <2>4. walk'[s] = v
    BY <1>1, <2>1
  <2>5. PathOK(walk[s])'
    BY <2>2, <2>4 DEF PathOK, AnswerOK, OnPath, AtTile
  <2> QED
    BY <2>3, <2>5
<1>4. PathOK(walk[r])'
  BY <1>1, <1>2 DEF PathOK, AnswerOK, OnPath, AtTile
<1> QED
  BY <1>3, <1>4 DEF PathInv

\* A request that comes to rest, or has not begun.
LEMMA RestPath ==
  ASSUME NEW w, NEW id, NEW copy, NEW status, NEW body, w = Rest(id, copy, status, body),
         status = 0 \/ At("open"), AnswerOK(w)
  PROVE  PathOK(w) /\ w.step = "idle"
  BY DEF Rest, PathOK

LEMMA RefusedPath ==
  ASSUME NEW w, NEW status, status \notin {200, 204}, w = Refused(status), status = 0 \/ At("open")
  PROVE  PathOK(w) /\ w.step = "idle"
<1>1. w.status = status /\ w.step = "idle"
  BY DEF Refused, Rest
<1> QED
  BY <1>1 DEF PathOK, AnswerOK

\* Neither before nor after the step does the request read.
LEMMA NotReading ==
  ASSUME NEW r \in Readers, CallFits(r), ~Reading(r), ~Reading(r)', call'[r] = call[r], reply'[r] = reply[r]
  PROVE  CallFits(r)'
  BY DEF CallFits

\* A request begins to read.
LEMMA BeginsReading ==
  ASSUME PathInv, OpeningInv, NEW r \in Readers, load' = load, At("open"), NEW w,
         w.entry \in EntryType,
         \/ w.entry.run > 0 /\ TileInside(w.entry, TheHeader)
            /\ ReadSection(r, DataOffset(TheHeader), w.entry)
         \/ w.entry.run = 0 /\ LeafInside(w.entry, TheHeader)
            /\ ReadSection(r, LeafOffset(TheHeader), w.entry),
         Reading(r)', walk'[r].entry = w.entry
  PROVE  /\ CallFits(r)'
         /\ \A s \in Readers \ {r} : call'[s] = call[s] /\ reply'[s] = reply[s]
<1>1. PICK a \in Sound : a = load.release /\ load.size = Length[Archive(a)] /\ a \in Releases
  BY OpenIsSound
<1>2. PICK h : h = TheHeader /\ h = File[a][1]
  BY <1>1 DEF TheHeader, TheFile
<1>3. PICK e : e = w.entry /\ e.off \in Nat /\ e.len \in Nat /\ e.run \in Nat
  BY DEF EntryType
<1>4. PICK place \in Nat, size \in Nat : place = Place(w) /\ size = load.size
                                  /\ ReadAt(r, Archive(a), size, place, e.len)
                                  /\ place + e.len <= size /\ e.len > 0
  <2>1. CASE e.run > 0 /\ TileInside(e, h) /\ ReadSection(r, DataOffset(h), e)
    BY <1>1, <1>2, <1>3, <2>1, SectionSizes DEF Place, TileInside, LeafInside, Inside, ReadSection
  <2>2. CASE e.run = 0 /\ LeafInside(e, h) /\ ReadSection(r, LeafOffset(h), e)
    BY <1>1, <1>2, <1>3, <2>2, SectionSizes DEF Place, TileInside, LeafInside, Inside, ReadSection
  <2> QED
    BY <1>2, <1>3, <2>1, <2>2
<1>5. PICK q : q = [step |-> "send", method |-> "GET", object |-> Archive(a), off |-> place,
                    end |-> LastByte(size, place, e.len), size |-> size, attempt |-> 0]
  OBVIOUS
<1>6. Begin(r, q)
  BY <1>4, <1>5 DEF ReadAt
<1>7. r \in Callers
  BY PlanetAssumption
<1>8. /\ call'[r] = q /\ reply'[r] = NoReply
      /\ \A s \in Readers \ {r} : call'[s] = call[s] /\ reply'[s] = reply[s]
  BY <1>6, <1>7, PlanetAssumption DEF Begin, OpeningInv, StoreOK
<1>9. q \in Request
  BY <1>1, <1>3, <1>5, Objects0, ReadRequest
<1>10. LastByte(size, place, e.len) = place + e.len - 1
  BY <1>3, <1>4 DEF LastByte
<1>v. PICK v : v = walk'[r]
  OBVIOUS
<1>11. place = Place(v)'
  <2>1. TheHeader' = TheHeader
    BY DEF TheHeader, TheFile
  <2> QED
    BY <1>4, <1>v, <2>1 DEF Place
<1>12. ReadOK(v, q, NoReply)'
  <2>1. q.step # "none" /\ q.method = "GET" /\ q.object = Archive(load'.release) /\ q.off = place
        /\ q.end = place + v.entry.len - 1
    BY <1>1, <1>3, <1>5, <1>10, <1>v
  <2>2. NoReply.status = "none"
    BY DEF NoReply
  <2> QED
    BY <1>11, <2>1, <2>2 DEF ReadOK
<1> QED
  BY <1>8, <1>9, <1>12, <1>v DEF CallFits, ReadOK, Place

\* A request that does not read answers or goes on.
LEMMA QuietStep ==
  ASSUME PathInv, WalkInv, NEW r \in Readers, load' = load, call' = call, reply' = reply,
         pc'[r] # "load", \A s \in Readers \ {r} : pc'[s] = pc[s], ~Reading(r),
         NEW w, walk' = [walk EXCEPT ![r] = w] \/ (walk' = walk /\ w = walk[r]), PathOK(w), w.step # "tile"
  PROVE  PathInv'
<1>1. walk'[r] = w
  BY DEF WalkInv
<1>2. ~Reading(r)'
  BY <1>1 DEF Reading
<1>3. CallFits(r)'
  BY <1>2, NotReading DEF PathInv
<1> QED
  BY <1>3, OnePath

LEMMA FailPath ==
  ASSUME PathInv, WalkInv, OpeningInv, NEW r \in Readers, load' = load, At("open"), call' = call, reply' = reply,
         pc'[r] # "load", \A s \in Readers \ {r} : pc'[s] = pc[s], ~Reading(r), Fail(r)
  PROVE  PathInv'
<1>1. PICK status : status = 500
  OBVIOUS
<1>2. PICK w : w = Refused(status)
  OBVIOUS
<1>3. walk' = [walk EXCEPT ![r] = w] /\ status \notin {200, 204}
  BY <1>1, <1>2 DEF Fail
<1>4. PathOK(w) /\ w.step = "idle"
  BY <1>2, <1>3, RefusedPath
<1> QED
  BY <1>3, <1>4, QuietStep

LEMMA AskPath ==
  ASSUME PathInv, WalkInv, OpeningInv, NEW r \in Readers, NEW t \in Wanted, NEW copy, Ask(r, t, copy)
  PROVE  PathInv'
<1>1. /\ load' = load /\ call' = call /\ reply' = reply /\ pc' = pc /\ At("open")
      /\ walk[r].step = "idle" /\ pc[r] = "idle"
  BY DEF Ask, loadVars, dirVars, storeVars, WalkInv
<1>2. ~Reading(r) /\ pc'[r] # "load" /\ load.release \in Sound
  BY <1>1, OpenIsSound DEF Reading
<1>3. PICK id, empty : id = TileId(t) /\ empty = <<>>
  OBVIOUS
<1>4. CASE ~OnGrid(t)
  <2>1. PICK status : status = 400
    OBVIOUS
  <2>2. PICK w : w = Refused(status)
    OBVIOUS
  <2>3. walk' = [walk EXCEPT ![r] = w] /\ status \notin {200, 204}
    <3>1. walk' = [walk EXCEPT ![r] = Refused(400)]
      BY <1>4, AskMoves
    <3> QED
      BY <2>1, <2>2, <3>1
  <2>4. PathOK(w) /\ w.step = "idle"
    BY <1>1, <2>2, <2>3, RefusedPath
  <2> QED
    BY <1>1, <1>2, <2>3, <2>4, QuietStep
<1>5. CASE OnGrid(t) /\ ~InZooms(t[1], TheHeader)
  <2>1. PICK status : status = 204
    OBVIOUS
  <2>2. PICK w : w = Rest(id, copy, status, empty)
    OBVIOUS
  <2>3. walk' = [walk EXCEPT ![r] = w]
    BY <1>3, <1>5, <2>1, <2>2, AskMoves
  <2>4. id \notin DOMAIN Tiles[load.release]
    <3>1. PICK a \in Sound : a = load.release
      BY <1>2
    <3>2. ~InZooms(t[1], File[a][1])
      BY <1>5, <3>1 DEF TheHeader, TheFile
    <3> QED
      BY <1>3, <1>5, <3>1, <3>2, ArchivesHoldTheirTiles DEF HoldsTiles, RootOpens
  <2>5. AnswerOK(w)
    <3>1. w.status = status /\ w.id = id
      BY <2>2 DEF Rest
    <3> QED
      BY <2>1, <2>4, <3>1 DEF AnswerOK
  <2>6. PathOK(w) /\ w.step = "idle"
    BY <1>1, <2>2, <2>5, RestPath
  <2> QED
    BY <1>1, <1>2, <2>3, <2>6, QuietStep
<1>6. CASE OnGrid(t) /\ InZooms(t[1], TheHeader)
  <2>1. PICK e : e = EntryFor(id, NoEntry)
    OBVIOUS
  <2>2. PICK w : w = [step |-> "look", id |-> id, copy |-> copy, entry |-> e, depth |-> 0,
                      status |-> 0, body |-> <<>>]
    OBVIOUS
  <2>3. walk' = [walk EXCEPT ![r] = w]
    <3>1. walk' = [walk EXCEPT ![r] = SetOut(id, copy)]
      BY <1>3, <1>6, AskMoves
    <3> QED
      BY <2>1, <2>2, <3>1 DEF SetOut
  <2>4. w.depth = 0 /\ w.id = id /\ w.entry = EntryFor(w.id, NoEntry) /\ w.step = "look" /\ w.status = 0
    BY <2>1, <2>2
  <2>5. OnPath(w)
    BY <1>2, <2>4, PathBegins
  <2>6. Served(w.id)
    BY <1>3, <1>6, <2>4 DEF Served
  <2>7. PathOK(w)
    BY <2>4, <2>5, <2>6 DEF PathOK, AnswerOK
  <2> QED
    BY <1>1, <1>2, <2>3, <2>4, <2>7, QuietStep
<1> QED
  BY <1>4, <1>5, <1>6

\* The facts about a request that looks.
LEMMA Looking ==
  ASSUME PathInv, WalkInv, OpeningInv, NEW r \in Readers, walk[r].step \in {"look", "leaf"}
  PROVE  /\ At("open") /\ load.release \in Sound /\ load.release \in Releases
         /\ PathOK(walk[r]) /\ Served(walk[r].id) /\ OnPath(walk[r]) /\ walk[r].depth \in 0..3
         /\ WalkOK(walk[r]) /\ AtLeaf(walk[r])
  BY OpenIsSound DEF PathInv, WalkInv, WalkOK, PathOK, MaxLeafDepth

LEMMA NoTilePath ==
  ASSUME PathInv, WalkInv, OpeningInv, NEW r \in Readers, load' = load, NoTile(r)
  PROVE  PathInv' /\ walk[r].entry = NoEntry
<1>1. /\ walk[r].step = "look" /\ pc' = pc /\ call' = call /\ reply' = reply /\ pc[r] = "idle" /\ ~Reading(r)
  BY DEF NoTile, Stay, storeVars, dirVars, WalkInv, Reading
<1>2. PICK v : v = walk[r]
  OBVIOUS
<1>3. PICK e : e = v.entry
  OBVIOUS
<1>4. e = NoEntry
  <2> SUFFICES ASSUME e # NoEntry PROVE FALSE
    OBVIOUS
  <2>1. HoldsTile(TheFile, e) \/ OpensLeaf(TheFile, e)
    BY <1>1, <1>2, <1>3, Looking, PathGoesOn
  <2>2. (IF e.run > 0 THEN TileInside(e, TheHeader) ELSE LeafInside(e, TheHeader))
    BY <2>1 DEF HoldsTile, OpensLeaf, TheHeader
  <2> QED
    BY <1>2, <1>3, <2>2 DEF NoTile
<1>5. v.id \notin DOMAIN Tiles[load.release]
  BY <1>1, <1>2, <1>3, <1>4, Looking, PathGoesOn
<1>6. PICK status, empty : status = 204 /\ empty = <<>>
  OBVIOUS
<1>7. PICK w : w = Rest(v.id, v.copy, status, empty)
  OBVIOUS
<1>8. walk' = [walk EXCEPT ![r] = w]
  BY <1>2, <1>3, <1>4, <1>6, <1>7 DEF NoTile, Answer, WalkInv
<1>9. AnswerOK(w)
  <2>1. w.status = status /\ w.id = v.id
    BY <1>7 DEF Rest
  <2> QED
    BY <1>5, <1>6, <2>1 DEF AnswerOK
<1>10. PathOK(w) /\ w.step = "idle"
  BY <1>1, <1>7, <1>9, Looking, RestPath
<1> QED
  BY <1>1, <1>2, <1>3, <1>4, <1>8, <1>10, QuietStep

\* A request goes on where it is, and reads.
LEMMA ReadPath ==
  ASSUME PathInv, WalkInv, OpeningInv, NEW r \in Readers, load' = load, walk[r].step = "look",
         walk[r].entry # NoEntry, NEW step \in {"leaf", "tile"},
         walk' = [walk EXCEPT ![r].step = step],
         \/ walk[r].entry.run > 0 /\ TileInside(walk[r].entry, TheHeader) /\ step = "tile"
            /\ ReadSection(r, DataOffset(TheHeader), walk[r].entry)
         \/ walk[r].entry.run = 0 /\ LeafInside(walk[r].entry, TheHeader) /\ step = "leaf"
            /\ ReadSection(r, LeafOffset(TheHeader), walk[r].entry),
         step = "leaf" => pc'[r] = "load", \A s \in Readers \ {r} : pc'[s] = pc[s]
  PROVE  PathInv'
<1>1. PICK v : v = walk[r]
  OBVIOUS
<1>2. /\ At("open") /\ load.release \in Sound /\ v.depth \in 0..3 /\ WalkOK(v)
      /\ PathOK(v) /\ Served(v.id) /\ OnPath(v)
  BY <1>1, Looking
<1>3. PICK w : w = [v EXCEPT !.step = step]
  OBVIOUS
<1>4. walk' = [walk EXCEPT ![r] = w]
  BY <1>1, <1>3 DEF WalkInv
<1>5. w = [step |-> step, id |-> v.id, copy |-> v.copy, entry |-> v.entry,
           depth |-> v.depth, status |-> v.status, body |-> v.body]
  BY <1>2, <1>3 DEF WalkOK
<1>6. v.entry \in EntryType /\ (step = "tile" => HoldsTile(TheFile, v.entry))
  BY <1>1, <1>2, PathGoesOn DEF HoldsTile, TheHeader
<1>7. v.status = 0
  BY <1>1, <1>2 DEF PathOK
<1>8. PathOK(w)
  <2>1. CASE step = "tile"
    <3>1. AtTile(v)
      BY <1>1, <1>2, <1>6, <2>1, PathGoesOn
    <3>2. AtTile(w)
      BY <1>5, <3>1 DEF AtTile
    <3> QED
      BY <1>5, <1>7, <2>1, <3>2 DEF PathOK, AnswerOK
  <2>2. CASE step = "leaf"
    <3>1. OnPath(w) /\ Served(w.id)
      BY <1>2, <1>5 DEF OnPath
    <3> QED
      BY <1>5, <1>7, <2>2, <3>1 DEF PathOK, AnswerOK
  <2> QED
    BY <2>1, <2>2
<1>9. walk'[r] = w
  BY <1>4 DEF WalkInv
<1>10. Reading(r)'
  BY <1>5, <1>9 DEF Reading
<1>11. /\ CallFits(r)'
       /\ \A s \in Readers \ {r} : call'[s] = call[s] /\ reply'[s] = reply[s]
  BY <1>1, <1>2, <1>5, <1>6, <1>9, <1>10, BeginsReading
<1> QED
  BY <1>4, <1>8, <1>11, OnePath

LEMMA ReadTilePath ==
  ASSUME PathInv, WalkInv, OpeningInv, NEW r \in Readers, load' = load, ReadTile(r)
  PROVE  PathInv'
<1>1. PICK step : step = "tile"
  OBVIOUS
<1>2. walk' = [walk EXCEPT ![r].step = step] /\ walk[r].step = "look" /\ walk[r].entry.run > 0 /\ pc' = pc
      /\ TileInside(walk[r].entry, TheHeader) /\ ReadSection(r, DataOffset(TheHeader), walk[r].entry)
  BY <1>1 DEF ReadTile, dirVars
<1>3. walk[r].entry # NoEntry
  BY <1>2 DEF NoEntry, Entry
<1> QED
  BY <1>1, <1>2, <1>3, ReadPath

LEMMA DescendPath ==
  ASSUME PathInv, WalkInv, OpeningInv, NEW r \in Readers, load' = load, call' = call, reply' = reply,
         pc'[r] = "idle", \A s \in Readers \ {r} : pc'[s] = pc[s], ~Reading(r), Descend(r),
         walk[r].step \in {"look", "leaf"}, walk[r].entry # NoEntry, walk[r].entry.run = 0
  PROVE  PathInv' /\ walk[r].depth < MaxLeafDepth
<1>1. PICK v, d : v = walk[r] /\ d = v.depth
  OBVIOUS
<1>2. /\ At("open") /\ load.release \in Sound /\ d \in 0..3 /\ WalkOK(v) /\ AtLeaf(v)
      /\ PathOK(v) /\ Served(v.id) /\ OnPath(v)
  BY <1>1, Looking
<1>3. PICK f : f = EntryFor(v.id, v.entry)
  OBVIOUS
<1>4. PICK w : w = [v EXCEPT !.step = "look", !.depth = d + 1, !.entry = f]
  OBVIOUS
<1>5. w = [step |-> "look", id |-> v.id, copy |-> v.copy, entry |-> f,
            depth |-> d + 1, status |-> v.status, body |-> v.body]
  BY <1>2, <1>4 DEF WalkOK
<1>6. d < 3 /\ OnPath(w)
  <2>1. w.id = v.id /\ w.depth = v.depth + 1 /\ w.entry = EntryFor(v.id, v.entry)
    BY <1>1, <1>3, <1>5
  <2> QED
    BY <1>1, <1>2, <2>1, PathDescends
<1>7. walk' = [walk EXCEPT ![r] = w]
  BY <1>1, <1>3, <1>4, <1>6 DEF Descend, WalkInv, MaxLeafDepth
<1>8. w.step = "look" /\ w.status = 0 /\ w.id = v.id
  BY <1>1, <1>2, <1>5 DEF PathOK
<1>9. PathOK(w)
  BY <1>2, <1>6, <1>8 DEF PathOK, AnswerOK
<1>10. PathInv'
  BY <1>7, <1>8, <1>9, QuietStep
<1> QED
  BY <1>1, <1>6, <1>10 DEF MaxLeafDepth

LEMMA GetLeafPath ==
  ASSUME FlightInv, PathInv, WalkInv, OpeningInv, NEW r \in Readers, load' = load, GetLeaf(r)
  PROVE  PathInv'
<1>1. /\ walk[r].step = "look" /\ walk[r].entry # NoEntry /\ walk[r].entry.run = 0 /\ pc[r] = "idle"
      /\ ~Reading(r) /\ LeafInside(walk[r].entry, TheHeader)
  BY DEF GetLeaf, WalkInv, Reading
<1>2. PICK k : k = Key(walk[r].entry)
  OBVIOUS
<1>3. CASE Hit(r, k) /\ Descend(r) /\ Stay
  BY <1>1, <1>3, DescendPath DEF Hit, Stay, storeVars
<1>4. CASE Join(r, k) /\ walk' = [walk EXCEPT ![r].step = "leaf"] /\ Stay
  <2>1. Move(r, "wait", k, inflight[k])
    BY <1>4 DEF Join
  <2>2. pc'[r] = "wait" /\ \A s \in Readers \ {r} : pc'[s] = pc[s]
    BY <2>1, Moved DEF FlightInv
  <2>3. PICK v : v = walk[r] /\ WalkOK(v) /\ PathOK(v) /\ OnPath(v) /\ Served(v.id)
    BY <1>1, Looking
  <2>4. PICK w : w = [v EXCEPT !.step = "leaf"]
    OBVIOUS
  <2>5. walk' = [walk EXCEPT ![r] = w]
    BY <1>4, <2>3, <2>4 DEF WalkInv
  <2>6. w.step = "leaf" /\ w.id = v.id /\ w.entry = v.entry /\ w.depth = v.depth /\ w.status = 0
    BY <1>1, <2>3, <2>4 DEF WalkOK, PathOK
  <2>7. PathOK(w)
    BY <2>3, <2>6 DEF PathOK, AnswerOK, OnPath
  <2> QED
    BY <1>1, <1>4, <2>2, <2>5, <2>6, <2>7, QuietStep DEF Stay, storeVars
<1>5. CASE StartLoad(r, k) /\ ReadSection(r, LeafOffset(TheHeader), walk[r].entry)
           /\ walk' = [walk EXCEPT ![r].step = "leaf"]
  <2>1. \E f : Move(r, "load", k, f)
    BY <1>5 DEF StartLoad
  <2>2. pc'[r] = "load" /\ \A s \in Readers \ {r} : pc'[s] = pc[s]
    BY <2>1, Moved DEF FlightInv
  <2>3. PICK step : step = "leaf"
    OBVIOUS
  <2> QED
    BY <1>1, <1>5, <2>2, <2>3, ReadPath
<1> QED
  BY <1>2, <1>3, <1>4, <1>5 DEF GetLeaf

\* The reply is used, and the request reads no more.
LEMMA ReadingEnds ==
  ASSUME PathInv, OpeningInv, NEW r \in Readers, Reading(r), Consume(r), call[r].step = "none", ~Reading(r)'
  PROVE  /\ CallFits(r)'
         /\ \A s \in Readers \ {r} : call'[s] = call[s] /\ reply'[s] = reply[s]
<1>1. r \in Callers
  BY PlanetAssumption
<1>2. /\ call' = call /\ reply'[r] = NoReply
      /\ \A s \in Readers \ {r} : reply'[s] = reply[s]
  BY <1>1, PlanetAssumption DEF Consume, OpeningInv, StoreOK
<1> QED
  BY <1>2 DEF PathInv, CallFits

LEMMA LoadAndStorePath ==
  ASSUME FlightInv, PathInv, WalkInv, OpeningInv, NEW r \in Readers, load' = load, LoadLeaf(r) \/ StoreLeaf(r)
  PROVE  PathInv'
<1>1. walk' = walk /\ pc[r] # "idle" /\ walk[r].step = "leaf"
  BY DEF LoadLeaf, StoreLeaf, Load, Store, WalkInv
<1>2. PICK label \in {"store", "release"} : Move(r, label, want[r], flight[r])
  BY DEF LoadLeaf, StoreLeaf, Load, Store
<1>3. pc'[r] \in {"store", "release"} /\ \A s \in Readers \ {r} : pc'[s] = pc[s]
  BY <1>2, Moved DEF FlightInv
<1>4. PICK w : w = walk[r] /\ PathOK(w) /\ w.step = "leaf"
  BY <1>1 DEF PathInv
<1>5. walk' = walk /\ w = walk[r]
  BY <1>1, <1>4
<1>6. ~Reading(r)'
  BY <1>1, <1>3 DEF Reading
<1>7. CASE StoreLeaf(r)
  <2>1. ~Reading(r) /\ call' = call /\ reply' = reply
    BY <1>1, <1>7 DEF StoreLeaf, Store, Stay, storeVars, Reading
  <2> QED
    BY <1>3, <1>4, <1>5, <2>1, QuietStep
<1>8. CASE LoadLeaf(r)
  <2>1. Reading(r) /\ Consume(r) /\ call[r].step = "none"
    BY <1>8 DEF LoadLeaf, Load, Reading, Returned, Broken
  <2>2. /\ CallFits(r)'
        /\ \A s \in Readers \ {r} : call'[s] = call[s] /\ reply'[s] = reply[s]
    BY <1>6, <2>1, ReadingEnds
  <2> QED
    BY <1>3, <1>4, <1>5, <2>2, OnePath
<1> QED
  BY <1>7, <1>8

LEMMA LeafReturnedPath ==
  ASSUME FlightInv, PathInv, WalkInv, OpeningInv, NEW r \in Readers, load' = load, LeafReturned(r)
  PROVE  PathInv'
<1>1. pc[r] \in {"release", "wait"} /\ Move(r, "idle", NoKey, NoFlight)
  BY DEF LeafReturned, Return, Wake, Leave
<1>2. pc'[r] = "idle" /\ \A s \in Readers \ {r} : pc'[s] = pc[s]
  BY <1>1, Moved DEF FlightInv
<1>3. walk[r].step = "leaf" /\ walk[r].entry # NoEntry /\ walk[r].entry.run = 0
  BY <1>1 DEF WalkInv, WalkOK
<1>4. ~Reading(r) /\ call' = call /\ reply' = reply /\ At("open")
  BY <1>1, <1>3, Looking DEF Reading, LeafReturned, Stay, storeVars
<1>5. Fail(r) \/ Descend(r)
  BY DEF LeafReturned
<1> QED
  BY <1>2, <1>3, <1>4, <1>5, FailPath, DescendPath

\* What a finished read returned.
LEMMA ReadBytes ==
  ASSUME PathInv, OpeningInv, NEW r \in Readers, Reading(r), reply[r].status = "data"
  PROVE  Read(r) = Bytes(TheFile, Place(walk[r]), walk[r].entry.len)
<1>1. reply[r].version = Archive(load.release) /\ reply[r].off = Place(walk[r]) /\ reply[r].n = walk[r].entry.len
  BY DEF PathInv, CallFits, ReadOK
<1> QED
  BY <1>1 DEF Read, TheFile, Archive

LEMMA TileReadPath ==
  ASSUME FlightInv, PathInv, WalkInv, OpeningInv, NEW r \in Readers, load' = load, TileRead(r)
  PROVE  PathInv'
<1>1. PICK v : v = walk[r]
  OBVIOUS
<1>2. /\ v.step = "tile" /\ pc' = pc /\ Reading(r) /\ Consume(r) /\ call[r].step = "none"
      /\ pc[r] = "idle" /\ PathOK(v) /\ AtTile(v) /\ At("open")
  BY <1>1 DEF TileRead, dirVars, Reading, Returned, Broken, WalkInv, WalkOK, PathInv, PathOK
<1>3. ASSUME NEW w, walk' = [walk EXCEPT ![r] = w], PathOK(w), w.step = "idle" PROVE PathInv'
  <2>1. walk'[r] = w
    BY <1>3 DEF WalkInv
  <2>2. ~Reading(r)'
    BY <1>2, <1>3, <2>1 DEF Reading
  <2>3. /\ CallFits(r)'
        /\ \A s \in Readers \ {r} : call'[s] = call[s] /\ reply'[s] = reply[s]
    BY <1>2, <2>2, ReadingEnds
  <2> QED
    BY <1>2, <1>3, <2>3, OnePath
<1>4. CASE Fail(r)
  <2>1. PICK status : status = 500
    OBVIOUS
  <2>2. PICK w : w = Refused(status)
    OBVIOUS
  <2>3. walk' = [walk EXCEPT ![r] = w] /\ status \notin {200, 204}
    BY <1>4, <2>1, <2>2 DEF Fail
  <2>4. PathOK(w) /\ w.step = "idle"
    BY <1>2, <2>2, <2>3, RefusedPath
  <2> QED
    BY <1>3, <2>3, <2>4
<1>5. CASE Returned(r, "data") /\ Answer(r, 304, <<>>)
  <2>1. PICK status, empty : status = 304 /\ empty = <<>>
    OBVIOUS
  <2>2. PICK w : w = Rest(v.id, v.copy, status, empty)
    OBVIOUS
  <2>3. walk' = [walk EXCEPT ![r] = w]
    BY <1>1, <1>5, <2>1, <2>2 DEF Answer, WalkInv
  <2>4. w.status = status /\ status \notin {200, 204}
    BY <2>1, <2>2 DEF Rest
  <2>5. PathOK(w) /\ w.step = "idle"
    BY <1>2, <2>2, <2>4, RestPath DEF AnswerOK
  <2> QED
    BY <1>3, <2>3, <2>5
<1>6. CASE Returned(r, "data") /\ Answer(r, 200, Read(r))
  <2>1. PICK status, body : status = 200 /\ body = Read(r)
    OBVIOUS
  <2>2. PICK w : w = Rest(v.id, v.copy, status, body)
    OBVIOUS
  <2>3. walk' = [walk EXCEPT ![r] = w]
    BY <1>1, <1>6, <2>1, <2>2 DEF Answer, WalkInv
  <2>4. body = Bytes(TheFile, DataOffset(TheHeader) + v.entry.off, v.entry.len)
    BY <1>1, <1>2, <1>6, <2>1, ReadBytes DEF Returned, Place, AtTile
  <2>5. v.id \in DOMAIN Tiles[load.release] /\ body = Tiles[load.release][v.id]
    BY <1>2, <2>4 DEF AtTile
  <2>6. w.status = status /\ w.id = v.id /\ w.body = body
    BY <2>2 DEF Rest
  <2>7. AnswerOK(w)
    BY <2>1, <2>5, <2>6 DEF AnswerOK
  <2>8. PathOK(w) /\ w.step = "idle"
    BY <1>2, <2>2, <2>7, RestPath
  <2> QED
    BY <1>3, <2>3, <2>8
<1> QED
  BY <1>4, <1>5, <1>6 DEF TileRead

----------------------------------------------------------------------------
(* What everybody else does leaves requests on their path.                 *)

\* Before the archive is open no request is on its way.
LEMMA NobodyReads ==
  ASSUME PathInv, WalkInv, ~At("open"), NEW r \in Readers
  PROVE  ~Reading(r) /\ walk[r].step = "idle" /\ walk[r].status = 0
  BY DEF PathInv, PathOK, WalkInv, WalkOK, Reading

\* Calls of requests stay as they are.
LEMMA OthersPath ==
  ASSUME PathInv, WalkInv, UNCHANGED <<walk, pc>>, load' = load \/ ~At("open"),
         \A r \in Readers : call'[r] = call[r] /\ reply'[r] = reply[r]
  PROVE  PathInv'
<1>1. ASSUME NEW r \in Readers PROVE PathOK(walk[r])' /\ CallFits(r)'
  <2>1. PICK w : w = walk[r] /\ PathOK(w)
    BY DEF PathInv
  <2>2. load' = load \/ (~Reading(r) /\ w.step = "idle" /\ w.status = 0)
    BY <2>1, NobodyReads
  <2>3. PathOK(w)'
    BY <2>1, <2>2, PathStays
  <2>4. walk'[r] = w
    BY <2>1
  <2>5. PathOK(walk[r])'
    BY <2>3, <2>4 DEF PathOK, AnswerOK, OnPath, AtTile
  <2>6. CallFits(r)'
    BY <2>2, CallStays DEF PathInv
  <2> QED
    BY <2>5, <2>6
<1> QED
  BY <1>1 DEF PathInv

\* The bytes that a request reads are in the archive, after its header.
LEMMA WhatIsRead ==
  ASSUME PathInv, WalkInv, OpeningInv, NEW r \in Readers, Reading(r)
  PROVE  /\ At("open") /\ load.release \in Sound
         /\ walk[r].entry.len \in Nat /\ walk[r].entry.len > 0
         /\ Place(walk[r]) \in Nat /\ Place(walk[r]) > 0
         /\ Place(walk[r]) + walk[r].entry.len <= Length[Archive(load.release)]
<1>1. PICK w : w = walk[r] /\ PathOK(w) /\ WalkOK(w)
  BY DEF PathInv, WalkInv
<1>2. w.step \in {"tile", "leaf"}
  BY <1>1 DEF Reading, WalkInv
<1>3. At("open") /\ load.release \in Sound
  BY <1>1, <1>2, OpenIsSound DEF WalkOK
<1>4. PICK h : h = TheHeader /\ h = File[load.release][1]
  BY DEF TheHeader, TheFile
<1>5. PICK e : e = w.entry
  OBVIOUS
<1>6. e \in EntryType /\ (IF e.run > 0 THEN TileInside(e, h) ELSE LeafInside(e, h))
  <2>1. CASE w.step = "tile"
    BY <1>1, <1>4, <1>5, <2>1 DEF PathOK, AtTile
  <2>2. CASE w.step = "leaf"
    <3>1. e # NoEntry /\ e.run = 0
      BY <1>1, <1>5, <2>2 DEF WalkOK
    <3>2. e \in EntryType /\ (HoldsTile(TheFile, e) \/ OpensLeaf(TheFile, e))
      BY <1>1, <1>5, <2>2, <3>1, Looking, PathGoesOn
    <3> QED
      BY <1>4, <3>1, <3>2 DEF HoldsTile, OpensLeaf, TheHeader
  <2> QED
    BY <1>2, <2>1, <2>2
<1>7. /\ LeafOffset(h) = 1 + h.rootLen /\ DataOffset(h) = 1 + h.rootLen + h.leafLen
      /\ h.rootLen \in Nat \ {0} /\ h.leafLen \in Nat /\ h.dataLen \in Nat
      /\ DataOffset(h) + h.dataLen <= Length[Archive(load.release)]
      /\ Length[Archive(load.release)] \in Nat
  BY <1>3, <1>4, SectionSizes
<1>8. e.off \in Nat /\ e.len \in Nat /\ e.run \in Nat /\ e.len > 0
      /\ e.off + e.len <= (IF e.run > 0 THEN h.dataLen ELSE h.leafLen)
  BY <1>6, <1>7 DEF EntryType, TileInside, LeafInside, Inside
<1>9. Place(w) = (IF e.run > 0 THEN DataOffset(h) ELSE LeafOffset(h)) + e.off
  BY <1>4, <1>5 DEF Place
<1> QED
  BY <1>1, <1>3, <1>5, <1>7, <1>8, <1>9

\* The call of a request ends, with an error or with what it asked for.
LEMMA EndPath ==
  ASSUME PathInv, WalkInv, OpeningInv, NEW r \in Readers, load' = load, UNCHANGED <<walk, pc>>,
         Reading(r), NEW p, End(r, p),
         \/ p = Error
         \/ p = Data(Archive(load.release), Place(walk[r]), walk[r].entry.len)
  PROVE  PathInv'
<1>1. r \in Callers
  BY PlanetAssumption
<1>2. PICK q : q = NoCall(call[r].object)
  OBVIOUS
<1>3. /\ call'[r] = q /\ reply'[r] = p
      /\ \A s \in Readers \ {r} : call'[s] = call[s] /\ reply'[s] = reply[s]
  BY <1>1, <1>2, PlanetAssumption DEF End, OpeningInv, StoreOK
<1>4. q \in Request /\ q.step = "none"
  BY <1>2 DEF PathInv, CallFits, NoCall, Request
<1>5. PICK w : w = walk[r] /\ PathOK(w)
  BY DEF PathInv
<1>6. ReadOK(w, q, p)
  <2>1. CASE p = Error
    BY <1>4, <2>1 DEF ReadOK, Error
  <2>2. CASE p = Data(Archive(load.release), Place(walk[r]), walk[r].entry.len)
    BY <1>4, <1>5, <2>2 DEF ReadOK, Data
  <2> QED
    BY <2>1, <2>2
<1>7. ReadOK(w, q, p)'
  BY <1>6, ReadStays
<1>8. CallFits(r)'
  BY <1>3, <1>4, <1>5, <1>7 DEF CallFits, Reading, ReadOK, Place
<1>9. walk' = walk /\ w = walk[r]
  BY <1>5
<1> QED
  BY <1>3, <1>5, <1>8, <1>9, OnePath

\* An attempt fails, or is repeated.
LEMMA AttemptPath ==
  ASSUME PathInv, WalkInv, OpeningInv, NEW r \in Readers, load' = load, UNCHANGED <<walk, pc, reply>>,
         call[r].step # "none",
         \/ call' = [call EXCEPT ![r].step = "wait"]
         \/ call' = [call EXCEPT ![r].step = "send", ![r].attempt = @ + 1]
  PROVE  PathInv'
<1>1. r \in Callers /\ DOMAIN call = Callers /\ call[r] \in Request
  BY PlanetAssumption DEF OpeningInv, StoreOK, PathInv, CallFits
<1>2. PICK q : q = call'[r]
  OBVIOUS
<1>3. /\ q \in Request /\ q.step # "none"
      /\ q.object = call[r].object /\ q.method = call[r].method
      /\ q.off = call[r].off /\ q.end = call[r].end
  BY <1>1, <1>2 DEF Request
<1>4. \A s \in Readers \ {r} : call'[s] = call[s] /\ reply'[s] = reply[s]
  BY <1>1, PlanetAssumption
<1>5. PICK w, p : w = walk[r] /\ PathOK(w) /\ p = reply[r]
  BY DEF PathInv
<1>6. Reading(r) /\ ReadOK(w, call[r], p)
  BY <1>5 DEF PathInv, CallFits
<1>7. ReadOK(w, q, p)
  BY <1>3, <1>6 DEF ReadOK
<1>8. ReadOK(w, q, p)'
  BY <1>7, ReadStays
<1>9. CallFits(r)'
  BY <1>2, <1>3, <1>5, <1>6, <1>8 DEF CallFits, Reading, ReadOK, Place
<1>10. walk' = walk /\ w = walk[r]
  BY <1>5
<1> QED
  BY <1>4, <1>5, <1>9, <1>10, OnePath

\* The answer of the store to the read of a request.
LEMMA GetPath ==
  ASSUME PathInv, WalkInv, OpeningInv, NEW r \in Readers, AnswerGet(r)
  PROVE  /\ Reading(r)
         /\ \E p : /\ End(r, p)
                   /\ p = Error \/ p = Data(Archive(load.release), Place(walk[r]), walk[r].entry.len)
                   /\ ranged /\ stored[Archive(load.release)] # Absent => p # Error
<1>1. Reading(r) /\ call[r].step = "send"
  BY DEF AnswerGet, Sent, PathInv, CallFits
<1>2. PICK off, len \in Nat : off = Place(walk[r]) /\ len = walk[r].entry.len
  BY <1>1, WhatIsRead
<1>3. /\ call[r].object = Archive(load.release) /\ call[r].off = off /\ call[r].end = off + len - 1
  BY <1>1, <1>2 DEF PathInv, CallFits, ReadOK
<1>4. off \in Nat /\ len > 0 /\ off > 0 /\ off + len <= Length[Archive(load.release)]
      /\ load.release \in Sound
  BY <1>1, <1>2, WhatIsRead
<1>5. Asked(r) = len /\ ~WantsWhole(r)
  BY <1>2, <1>3, <1>4 DEF Asked, WantsWhole
<1>6. PICK v : v = stored[Archive(load.release)]
  OBVIOUS
<1>7. v \in {Archive(load.release), Absent}
  BY <1>4, <1>6, SectionSizes DEF OpeningInv, StoreOK
<1>8. CASE v = Absent
  BY <1>1, <1>3, <1>6, <1>8 DEF AnswerGet
<1>9. CASE v # Absent /\ ranged
  <2>1. RangeReply(r, v) = Data(Archive(load.release), off, len)
    <3>1. Length[v] \in Nat /\ call[r].end < Length[v] /\ v = Archive(load.release)
      BY <1>2, <1>3, <1>4, <1>7, <1>9, SectionSizes
    <3> QED
      BY <1>3, <1>5, <3>1 DEF RangeReply
  <2>2. End(r, RangeReply(r, v))
    BY <1>3, <1>6, <1>9 DEF AnswerGet
  <2>3. Data(Archive(load.release), off, len) # Error
    BY DEF Data, Error
  <2> QED
    BY <1>1, <1>2, <2>1, <2>2, <2>3
<1>10. CASE v # Absent /\ ~ranged
  <2>1. WholeReply(r, v) = Error
    BY <1>5 DEF WholeReply
  <2>2. End(r, WholeReply(r, v))
    BY <1>3, <1>6, <1>10 DEF AnswerGet
  <2> QED
    BY <1>1, <1>10, <2>1, <2>2
<1> QED
  BY <1>8, <1>9, <1>10

LEMMA StorePath ==
  ASSUME PathInv, WalkInv, OpeningInv, NEW r \in Readers, StoreStep(r) \/ Fault(r), UNCHANGED <<walk, pc>>
  PROVE  PathInv'
<1>1. load' = load
  BY DEF StoreStep, Fault, loadVars
<1>2. call[r].step # "none" /\ Reading(r)
  BY DEF StoreStep, Fault, AnswerHead, AnswerGet, Resume, Cancel, Refuse, Deny, Cut, Sent, PathInv, CallFits
<1>3. ~AnswerHead(r)
  BY <1>2 DEF AnswerHead, Sent, PathInv, CallFits, ReadOK
<1>4. CASE \E p \in {Error} : End(r, p)
  BY <1>1, <1>2, <1>4, EndPath
<1>5. CASE AnswerGet(r)
  BY <1>1, <1>2, <1>5, GetPath, EndPath
<1>6. CASE Resume(r) \/ (Refuse(r) /\ MayRetry(r))
  BY <1>1, <1>2, <1>6, AttemptPath DEF Resume, Refuse
<1> QED
  BY <1>3, <1>4, <1>5, <1>6 DEF StoreStep, Fault, Cancel, Refuse, Deny, Cut

\* Calls of the loader.
LEMMA LoaderPath ==
  ASSUME PathInv, WalkInv, OpeningInv, UNCHANGED <<walk, pc>>,
         BeginLoad \/ LoadStep \/ StoreStep(Loader) \/ Fault(Loader)
  PROVE  PathInv'
<1>1. DOMAIN call = Callers /\ DOMAIN reply = Callers /\ Loader \notin Readers /\ Readers \subseteq Callers
  BY PlanetAssumption DEF OpeningInv, StoreOK
<1>2. ASSUME \/ \E q : Begin(Loader, q)
             \/ \E p : End(Loader, p)
             \/ LoadReturns
             \/ UNCHANGED reply /\ (\/ call' = [call EXCEPT ![Loader].step = "wait"]
                                    \/ call' = [call EXCEPT ![Loader].step = "send",
                                                            ![Loader].attempt = @ + 1])
      PROVE  \A r \in Readers : call'[r] = call[r] /\ reply'[r] = reply[r]
  BY <1>1, <1>2 DEF Begin, End, LoadReturns
<1>3. CASE BeginLoad
  BY <1>2, <1>3, OthersPath DEF BeginLoad, OpenObject, At
<1>4. CASE LoadStep
  <2>1. ~At("open")
    BY <1>4 DEF LoadStep, ReadSmallFile, PointerRead, ManifestRead, ArchiveSized, HeaderRead, RootRead,
                LoadBroken, Underway, At
  <2>2. (\E q : Begin(Loader, q)) \/ LoadReturns
    BY <1>4 DEF LoadStep, ReadSmallFile, PointerRead, ManifestRead, ArchiveSized, HeaderRead, RootRead,
                LoadBroken, FailLoad, ReadAt, OpenObject
  <2> QED
    BY <1>2, <2>1, <2>2, OthersPath
<1>5. CASE StoreStep(Loader) \/ Fault(Loader)
  <2>1. load' = load
    BY <1>5 DEF StoreStep, Fault, loadVars
  <2>2. \/ \E p : End(Loader, p)
        \/ UNCHANGED reply /\ (\/ call' = [call EXCEPT ![Loader].step = "wait"]
                               \/ call' = [call EXCEPT ![Loader].step = "send",
                                                       ![Loader].attempt = @ + 1])
    BY <1>5 DEF StoreStep, Fault, AnswerHead, AnswerGet, Resume, Cancel, Refuse, Deny, Cut
  <2> QED
    BY <1>2, <2>1, <2>2, OthersPath
<1> QED
  BY <1>3, <1>4, <1>5

LEMMA OpenReader ==
  ASSUME WalkInv, NEW r \in Readers, ReaderStep(r)
  PROVE  At("open")
  BY DEF ReaderStep, NoTile, ReadTile, GetLeaf, LoadLeaf, StoreLeaf, LeafReturned, TileRead,
         Load, Store, Return, Wake, WalkInv, WalkOK

LEMMA PathStart == Init => PathInv
<1> SUFFICES ASSUME Init PROVE PathInv
  OBVIOUS
<1>1. Readers \subseteq Callers /\ Pointer \in Objects
  BY PlanetAssumption, Objects0
<1>2. ASSUME NEW r \in Readers PROVE PathOK(walk[r]) /\ CallFits(r)
  <2>1. /\ walk[r].status = 0 /\ walk[r].step = "idle" /\ pc[r] = "idle"
        /\ call[r] = NoCall(Pointer) /\ reply[r] = NoReply
    BY <1>1, <1>2 DEF Init, LoadInit, DirInit, NoWalk, Refused, Rest
  <2>2. NoCall(Pointer) \in Request /\ NoCall(Pointer).step = "none"
    BY <1>1 DEF NoCall, Request
  <2> QED
    BY <2>1, <2>2 DEF PathOK, AnswerOK, CallFits, Reading
<1> QED
  BY <1>2 DEF PathInv

LEMMA PathInvariant ==
  ASSUME PlanetInv, PathInv, [Next]_vars
  PROVE  PathInv'
<1>1. FlightInv /\ OpeningInv /\ WalkInv
  BY DEF PlanetInv
<1>2. CASE UNCHANGED vars
  BY <1>1, <1>2, OthersPath DEF vars, storeVars, loadVars, dirVars
<1>3. CASE (BeginLoad \/ LoadStep) /\ UNCHANGED <<dirVars, walk>>
  BY <1>1, <1>3, LoaderPath DEF dirVars
<1>4. ASSUME NEW c \in Callers, StoreStep(c) \/ Fault(c), UNCHANGED <<dirVars, walk>>
      PROVE  PathInv'
  <2>1. c = Loader \/ c \in Readers
    BY PlanetAssumption
  <2> QED
    BY <1>1, <1>4, <2>1, LoaderPath, StorePath DEF dirVars
<1>5. CASE Environment /\ UNCHANGED <<dirVars, walk>>
  <2>1. CASE \E c \in Callers : Fault(c)
    BY <1>4, <1>5, <2>1
  <2>2. CASE Deadline \/ (\E p \in Pointers : MovePointer(p)) \/ \E a \in Releases : RemoveRelease(a)
    <3>1. load' = load /\ call' = call /\ reply' = reply
      BY <2>2 DEF Deadline, Expire, MovePointer, RemoveRelease, Put
    <3> QED
      BY <1>1, <1>5, <3>1, OthersPath DEF dirVars
  <2> QED
    BY <1>5, <2>1, <2>2 DEF Environment
<1>6. ASSUME NEW r \in Readers, NEW t \in Wanted, NEW copy \in Copies, Ask(r, t, copy)
      PROVE  PathInv'
  BY <1>1, <1>6, AskPath
<1>7. ASSUME NEW r \in Readers, ReaderStep(r) PROVE PathInv'
  <2>1. load' = load
    BY <1>1, <1>7, OpenReader, OpenStays
  <2> QED
    BY <1>1, <1>7, <2>1, NoTilePath, ReadTilePath, GetLeafPath, LoadAndStorePath, LeafReturnedPath,
       TileReadPath DEF ReaderStep
<1> QED
  BY <1>2, <1>3, <1>4, <1>5, <1>6, <1>7 DEF Next

(* A request that succeeds is given the tile that was put into the archive *)
(* that is open, and one that is told there is none asked for a tile that  *)
(* was not, whatever the store, the pipeline and other requests do         *)
(* (servePlanet, Reader.Tile, dirCache).                                   *)
THEOREM StoredTilesAreServed == Spec => []ServesStoredTiles
<1>1. PathInv => ServesStoredTiles
  BY DEF PathInv, PathOK, AnswerOK, ServesStoredTiles
<1>2. PlanetInv /\ PathInv /\ [Next]_vars => PlanetInv' /\ PathInv'
  BY PlanetStep, PathInvariant
<1> QED
  BY <1>1, <1>2, PlanetInit, PathStart, PTL DEF Spec

----------------------------------------------------------------------------
(* Failures have a reason.                                                 *)

\* Releases are uploaded and removed as a whole, and the pointer names one that is there.
BucketOK ==
  /\ \A a \in Releases : /\ stored[Manifest(a)] \in {Manifest(a), Absent}
                         /\ stored[Manifest(a)] = Absent <=> stored[Archive(a)] = Absent
  /\ stored[Pointer] # Absent /\ Names[stored[Pointer]] # NoRelease =>
       stored[Archive(Names[stored[Pointer]])] # Absent

\* The deadline is the load's, and the cache is untouched before the archive is open.
QuietBefore ==
  /\ At("none") => Loader \notin expired
  /\ ~At("open") => \A f \in Flights : result[f] = Pending

Intact(y) == y.status \notin {"missing", "error"}

\* A small file is asked for its size, then read as a whole.
SmallOK(q, y, o, v) ==
  /\ q.object = o
  /\ q.step # "none" /\ q.method = "GET" => q.off = 0 /\ q.end = Length[v] - 1
  /\ y.status = "size" => y.n = Length[v]
  /\ y.status = "data" => y.version = v /\ y.n = Length[v]

\* The root directory is read where the header says it is.
RootOK(q, y, a) ==
  /\ q.step # "none" => q.method = "GET" /\ q.object = Archive(a) /\ q.off = 1 /\ q.end = File[a][1].rootLen
  /\ y.status = "data" => y.version = Archive(a) /\ y.off = 1 /\ y.n = File[a][1].rootLen

\* The load of the release that the pointer p has named from the beginning.
OnCourse(q, y, p, a) ==
  /\ ~At("failed")
  /\ Underway => Loader \notin expired /\ Intact(y)
  /\ load.step \in {"manifest", "archive", "header", "root"} => load.release = a
  /\ At("pointer") => SmallOK(q, y, Pointer, p)
  /\ At("manifest") => SmallOK(q, y, Manifest(a), Manifest(a))
  /\ At("root") => RootOK(q, y, a)

\* Nothing went wrong, and the pointer names a complete release.
Promising == healthy /\ ranged /\ stored[Pointer] # Absent /\ Names[stored[Pointer]] \in Sound

LoadReason ==
  Promising => OnCourse(call[Loader], reply[Loader], stored[Pointer], Names[stored[Pointer]])

\* Once the archive is open, requests can rely on it.
ReadReason ==
  healthy /\ ranged =>
    /\ \A r \in Readers : walk[r].status # 500 /\ Intact(reply[r])
    /\ \A f \in Flights : result[f] # Failed
    /\ At("open") => stored[Archive(load.release)] # Absent

ReasonInv == BucketOK /\ QuietBefore /\ LoadReason /\ ReadReason

\* What the steps of requests and the answers of the store leave alone.
LEMMA SameBucket == ASSUME BucketOK, stored' = stored PROVE BucketOK'
  BY DEF BucketOK

LEMMA BucketStays ==
  ASSUME BucketOK, OpeningInv, (\E p \in Pointers : MovePointer(p)) \/ \E a \in Releases : RemoveRelease(a)
  PROVE  BucketOK'
<1>1. DOMAIN stored = Objects
  BY DEF OpeningInv, StoreOK
<1>2. ASSUME NEW p \in Pointers, MovePointer(p) PROVE BucketOK'
  <2>1. stored'[Pointer] = p /\ \A o \in Objects \ {Pointer} : stored'[o] = stored[o]
    BY <1>1, <1>2, Objects0 DEF MovePointer, Put
  <2>2. \A a \in Releases : stored'[Manifest(a)] = stored[Manifest(a)] /\ stored'[Archive(a)] = stored[Archive(a)]
    BY <2>1, Objects0
  <2>3. Names[p] \in Releases \cup {NoRelease} /\ (Names[p] # NoRelease => stored[Archive(Names[p])] # Absent)
    BY <1>2, ReleaseAssumption DEF MovePointer
  <2> QED
    BY <2>1, <2>2, <2>3 DEF BucketOK
<1>3. ASSUME NEW a \in Releases, RemoveRelease(a) PROVE BucketOK'
  <2>1. /\ stored'[Manifest(a)] = Absent /\ stored'[Archive(a)] = Absent
        /\ \A o \in Objects \ {Manifest(a), Archive(a)} : stored'[o] = stored[o]
    BY <1>1, <1>3, Objects0 DEF RemoveRelease, Put
  <2>2. ASSUME NEW b \in Releases, b # a
        PROVE  stored'[Manifest(b)] = stored[Manifest(b)] /\ stored'[Archive(b)] = stored[Archive(b)]
    <3>1. Manifest(b) \notin {Manifest(a), Archive(a)} /\ Archive(b) \notin {Manifest(a), Archive(a)}
      BY <2>2, Objects0 DEF Manifest, Archive
    <3> QED
      BY <2>1, <3>1, Objects0
  <2>3. stored'[Pointer] = stored[Pointer]
    BY <2>1, Objects0
  <2>4. stored[Pointer] # Absent => Names[stored[Pointer]] \in (Releases \cup {NoRelease}) \ {a}
    BY <1>3, ReleaseAssumption DEF RemoveRelease, OpeningInv, StoreOK
  <2> QED
    BY <2>1, <2>2, <2>3, <2>4 DEF BucketOK
<1> QED
  BY <1>2, <1>3

\* The release that a promising load opens is there.
LEMMA PromisedIsThere ==
  ASSUME BucketOK, OpeningInv, Promising, NEW p, NEW a, p = stored[Pointer], a = Names[p]
  PROVE  /\ p \in Pointers /\ a \in Releases /\ a \in Manifests /\ a \in Sound /\ a # NoRelease
         /\ stored[Manifest(a)] = Manifest(a) /\ stored[Archive(a)] = Archive(a)
         /\ Length[p] \in Nat /\ Length[p] > 0 /\ Length[p] <= MaxFileSize
         /\ Length[Manifest(a)] \in Nat /\ Length[Manifest(a)] > 0 /\ Length[Manifest(a)] <= MaxFileSize
         /\ Length[Archive(a)] \in Nat /\ File[a][1].rootLen \in Nat \ {0}
         /\ File[a][1].rootLen <= MaxBlock
         /\ File[a][1].rootLen < Length[Archive(a)]
<1>1. p \in Pointers
  BY DEF Promising, OpeningInv, StoreOK
<1>2. a \in Sound /\ a \in Releases /\ a \in Manifests /\ a # NoRelease
  BY SectionSizes, ReleaseAssumption DEF Promising
<1>3. stored[Archive(a)] # Absent /\ stored[Manifest(a)] # Absent
  BY <1>2 DEF BucketOK, Promising
<1>4. stored[Manifest(a)] = Manifest(a) /\ stored[Archive(a)] = Archive(a)
  BY <1>2, <1>3 DEF BucketOK, OpeningInv, StoreOK
<1>5. p \in Versions /\ Manifest(a) \in Versions
  BY <1>1, <1>2, Objects0, UploadAssumption
<1>6. /\ Length[p] \in Nat /\ Length[p] > 0 /\ Length[p] <= MaxFileSize
      /\ Length[Manifest(a)] \in Nat /\ Length[Manifest(a)] > 0 /\ Length[Manifest(a)] <= MaxFileSize
  BY <1>1, <1>2, <1>5, ReleaseAssumption, StoreAssumption, SmallFilesFit
<1>7. PICK h : h = File[a][1]
  OBVIOUS
<1>8. /\ h.rootLen \in Nat \ {0} /\ h.rootLen <= MaxBlock
      /\ h.rootLen < Length[Archive(a)] /\ Length[Archive(a)] \in Nat
  <2>1. /\ h.rootLen \in Nat \ {0} /\ h.rootLen <= MaxBlock /\ h.leafLen \in Nat /\ h.dataLen \in Nat
        /\ DataOffset(h) = 1 + h.rootLen + h.leafLen /\ Length[Archive(a)] \in Nat
        /\ DataOffset(h) + h.dataLen <= Length[Archive(a)]
    BY <1>2, <1>7, SectionSizes
  <2> QED
    BY <2>1
<1> QED
  BY <1>1, <1>2, <1>4, <1>6, <1>7, <1>8

\* The call of the loader and its reply are those of a load on course.
LEMMA CourseGoesOn ==
  ASSUME NEW q, NEW y, call'[Loader] = q, reply'[Loader] = y, stored' = stored,
         NEW p, NEW a, p = stored[Pointer], a = Names[p], OnCourse(q, y, p, a)'
  PROVE  LoadReason'
<1>1. p = stored'[Pointer] /\ a = Names[stored'[Pointer]]
  OBVIOUS
<1> QED
  BY <1>1 DEF LoadReason, OnCourse, SmallOK, RootOK, Intact

\* The loader sends its next request.
LEMMA CourseSends ==
  ASSUME OpeningInv, NEW q, Begin(Loader, q), Loader \notin expired, load'.step # "failed",
         NEW p, NEW a, p = stored[Pointer], a = Names[p],
         load'.step \in {"manifest", "archive", "header", "root"} => load'.release = a,
         load'.step = "pointer" => q.object = Pointer /\ (q.method = "GET" => q.off = 0 /\ q.end = Length[p] - 1),
         load'.step = "manifest" => q.object = Manifest(a)
                                    /\ (q.method = "GET" => q.off = 0 /\ q.end = Length[Manifest(a)] - 1),
         load'.step = "root" => q.method = "GET" /\ q.object = Archive(a) /\ q.off = 1 /\ q.end = File[a][1].rootLen
  PROVE  LoadReason'
<1>1. call'[Loader] = q /\ reply'[Loader] = NoReply /\ stored' = stored /\ expired' = expired
  BY Objects0 DEF Begin, OpeningInv, StoreOK, worldVars
<1>2. NoReply.status = "none"
  BY DEF NoReply
<1>3. OnCourse(q, NoReply, p, a)'
  BY <1>1, <1>2 DEF OnCourse, At, SmallOK, RootOK, Intact
<1> QED
  BY <1>1, <1>3, CourseGoesOn

LEMMA BeginCourse ==
  ASSUME QuietBefore, OpeningInv, BeginLoad
  PROVE  LoadReason'
<1>1. PICK q : q = [NoCall(Pointer) EXCEPT !.step = "send"]
  OBVIOUS
<1>2. Begin(Loader, q) /\ load'.step = "pointer" /\ Loader \notin expired
  BY <1>1 DEF BeginLoad, OpenObject, NoLoad, QuietBefore
<1>3. q.object = Pointer /\ q.method = "HEAD"
  BY <1>1, OpenRequest, Objects0
<1> QED
  BY <1>2, <1>3, CourseSends

\* A step of the load, on course.
LEMMA OnCourseNow ==
  ASSUME BucketOK, OpeningInv, LoadReason, Promising, Underway,
         NEW p, NEW a, NEW q, NEW y, p = stored[Pointer], a = Names[p], q = call[Loader], y = reply[Loader]
  PROVE  /\ OnCourse(q, y, p, a) /\ Loader \notin expired /\ Intact(y)
         /\ load.step \in {"manifest", "archive", "header", "root"} => load.release = a
         /\ At("pointer") => SmallOK(q, y, Pointer, p)
         /\ At("manifest") => SmallOK(q, y, Manifest(a), Manifest(a))
         /\ At("root") => RootOK(q, y, a)
  BY DEF LoadReason, OnCourse

LEMMA SmallFileCourse ==
  ASSUME BucketOK, OpeningInv, LoadReason, Promising, ReadSmallFile
  PROVE  LoadReason'
<1>1. PICK p, a, q, y : p = stored[Pointer] /\ a = Names[p] /\ q = call[Loader] /\ y = reply[Loader]
  OBVIOUS
<1>2. load.step \in {"pointer", "manifest"} /\ y.status = "size" /\ Underway
  BY <1>1 DEF ReadSmallFile, Returned, Underway
<1>3. PICK v, o : IF At("pointer") THEN v = p /\ o = Pointer ELSE v = Manifest(a) /\ o = Manifest(a)
  OBVIOUS
<1>4. q.object = o /\ y.n = Length[v] /\ Loader \notin expired /\ (At("manifest") => load.release = a)
  BY <1>1, <1>2, <1>3, OnCourseNow DEF SmallOK, At
<1>5. Length[v] \in Nat /\ Length[v] > 0 /\ Length[v] <= MaxFileSize
  BY <1>1, <1>3, PromisedIsThere
<1>6. PICK n \in Nat : n = Length[v] /\ n > 0 /\ n <= MaxFileSize
  BY <1>5
<1>7. ReadAt(Loader, o, n, 0, n) /\ load' = load
  <2>1. ~(n > MaxFileSize)
    BY <1>6, SmallFilesFit
  <2> QED
    BY <1>1, <1>4, <1>6, <2>1 DEF ReadSmallFile, loadVars
<1>8. PICK r : r = [step |-> "send", method |-> "GET", object |-> o, off |-> 0,
                    end |-> LastByte(n, 0, n), size |-> n, attempt |-> 0]
  OBVIOUS
<1>9. LastByte(n, 0, n) = n - 1
  BY <1>6 DEF LastByte
<1>10. Begin(Loader, r)
  BY <1>7, <1>8 DEF ReadAt
<1> QED
  BY <1>1, <1>2, <1>3, <1>4, <1>6, <1>7, <1>8, <1>9, <1>10, CourseSends DEF At

LEMMA PointerCourse ==
  ASSUME BucketOK, OpeningInv, LoadReason, Promising, PointerRead
  PROVE  LoadReason'
<1>1. PICK p, a, q, y : p = stored[Pointer] /\ a = Names[p] /\ q = call[Loader] /\ y = reply[Loader]
  OBVIOUS
<1>2. At("pointer") /\ y.status = "data" /\ Underway
  BY <1>1 DEF PointerRead, Returned, Underway, At
<1>3. y.version = p /\ y.n = Length[p] /\ Loader \notin expired
  BY <1>1, <1>2, OnCourseNow DEF SmallOK
<1>4. a # NoRelease
  BY <1>1, PromisedIsThere
<1>5. PICK r : r = [NoCall(Manifest(a)) EXCEPT !.step = "send"]
  OBVIOUS
<1>6. Begin(Loader, r) /\ load'.step = "manifest" /\ load'.release = a
  BY <1>1, <1>2, <1>3, <1>4, <1>5 DEF PointerRead, Whole, Reached, OpenObject
<1>7. r.object = Manifest(a) /\ r.method = "HEAD"
  BY <1>1, <1>5, OpenRequest, Objects0, PromisedIsThere
<1> QED
  BY <1>1, <1>3, <1>6, <1>7, CourseSends

LEMMA ManifestCourse ==
  ASSUME BucketOK, OpeningInv, LoadReason, Promising, ManifestRead
  PROVE  LoadReason'
<1>1. PICK p, a, q, y : p = stored[Pointer] /\ a = Names[p] /\ q = call[Loader] /\ y = reply[Loader]
  OBVIOUS
<1>2. At("manifest") /\ y.status = "data" /\ Underway
  BY <1>1 DEF ManifestRead, Returned, Underway, At
<1>3. y.version = Manifest(a) /\ y.n = Length[Manifest(a)] /\ Loader \notin expired /\ load.release = a
  BY <1>1, <1>2, OnCourseNow DEF SmallOK, At
<1>4. a \in Manifests
  BY <1>1, PromisedIsThere
<1>5. PICK r : r = [NoCall(Archive(a)) EXCEPT !.step = "send"]
  OBVIOUS
<1>6. Begin(Loader, r) /\ load'.step = "archive" /\ load'.release = a
  BY <1>1, <1>2, <1>3, <1>4, <1>5 DEF ManifestRead, Whole, Reached, OpenObject, SameRelease
<1> QED
  BY <1>1, <1>3, <1>6, CourseSends

LEMMA ArchiveCourse ==
  ASSUME BucketOK, OpeningInv, LoadReason, Promising, ArchiveSized
  PROVE  LoadReason'
<1>1. PICK p, a, q, y : p = stored[Pointer] /\ a = Names[p] /\ q = call[Loader] /\ y = reply[Loader]
  OBVIOUS
<1>2. At("archive") /\ Underway
  BY DEF ArchiveSized, Underway, At
<1>3. Loader \notin expired /\ load.release = a
  BY <1>1, <1>2, OnCourseNow DEF At
<1>4. (\E r : Begin(Loader, r)) /\ load'.step = "header" /\ load'.release = a
  BY <1>3 DEF ArchiveSized, Reached, ReadAt
<1> QED
  BY <1>1, <1>3, <1>4, CourseSends

LEMMA HeaderCourse ==
  ASSUME BucketOK, OpeningInv, LoadReason, Promising, HeaderRead
  PROVE  LoadReason'
<1>1. PICK p, a, q, y : p = stored[Pointer] /\ a = Names[p] /\ q = call[Loader] /\ y = reply[Loader]
  OBVIOUS
<1>2. At("header") /\ Underway
  BY DEF HeaderRead, Underway, At
<1>3. Loader \notin expired /\ load.release = a
  BY <1>1, <1>2, OnCourseNow DEF At
<1>4. /\ a \in Sound /\ a \in Releases
      /\ Length[Archive(a)] \in Nat /\ File[a][1].rootLen \in Nat \ {0}
      /\ File[a][1].rootLen < Length[Archive(a)]
  BY <1>1, PromisedIsThere
<1>5. load.size = Length[Archive(a)] /\ y.version = Archive(a) /\ y.off = 0 /\ y.n = 1
  BY <1>1, <1>2, <1>3 DEF HeaderRead, OpeningInv, LoadOK, ReplyOK, Returned, At
<1>6. PICK h : h = Read(Loader)[1]
  OBVIOUS
<1>7. h = File[a][1]
  BY <1>1, <1>5, <1>6 DEF Read, Bytes, Archive
<1>15. h.rootLen <= MaxBlock
  BY <1>1, <1>7, PromisedIsThere
<1>8. Complete(h, load.size)
  BY <1>4, <1>5, <1>7, UploadAssumption DEF Sound
<1>9. PICK size, n \in Nat : size = load.size /\ n = h.rootLen /\ n > 0 /\ n < size
  BY <1>4, <1>5, <1>7
<1>10. ReadAt(Loader, Archive(a), size, 1, n) /\ load'.step = "root" /\ load'.release = a
  BY <1>3, <1>6, <1>8, <1>9, <1>15 DEF HeaderRead, Reached, RootOffset, HeaderSize
<1>11. PICK r : r = [step |-> "send", method |-> "GET", object |-> Archive(a), off |-> 1,
                     end |-> LastByte(size, 1, n), size |-> size, attempt |-> 0]
  OBVIOUS
<1>12. LastByte(size, 1, n) = n /\ size \in Nat
  BY <1>4, <1>5, <1>9 DEF LastByte
<1>13. Begin(Loader, r)
  BY <1>10, <1>11 DEF ReadAt
<1>14. r.method = "GET" /\ r.object = Archive(a) /\ r.off = 1 /\ r.end = File[a][1].rootLen
  BY <1>7, <1>9, <1>11, <1>12
<1> QED
  BY <1>1, <1>3, <1>10, <1>13, <1>14, CourseSends

\* The root directory of a complete archive is well-formed.
LEMMA RootCourse ==
  ASSUME BucketOK, OpeningInv, LoadReason, Promising, RootRead
  PROVE  LoadReason'
<1>1. PICK p, a, q, y : p = stored[Pointer] /\ a = Names[p] /\ q = call[Loader] /\ y = reply[Loader]
  OBVIOUS
<1>2. At("root") /\ Underway /\ y.status = "data"
  BY <1>1 DEF RootRead, Underway, At, Returned
<1>3. y.version = Archive(a) /\ y.off = 1 /\ y.n = File[a][1].rootLen /\ a \in Sound
  BY <1>1, <1>2, OnCourseNow, PromisedIsThere DEF RootOK
<1>4. WellFormed(Read(Loader))
  <2>1. Read(Loader) = Bytes(File[a], 1, File[a][1].rootLen)
    BY <1>1, <1>3 DEF Read, Archive
  <2>2. WellFormed(Bytes(File[a], RootOffset(File[a][1]), File[a][1].rootLen))
    BY <1>3, ArchivesHoldTheirTiles DEF HoldsTiles, RootOpens
  <2> QED
    BY <2>1, <2>2 DEF RootOffset, HeaderSize
<1>5. load' = [load EXCEPT !.step = "open"]
  BY <1>4 DEF RootRead
<1>6. load'.step = "open"
  BY <1>5 DEF OpeningInv, LoadOK
<1> QED
  BY <1>6 DEF LoadReason, OnCourse, Underway, At

\* A load that is on course fails in no step.
LEMMA LoadStepCourse ==
  ASSUME BucketOK, OpeningInv, LoadReason, LoadStep
  PROVE  LoadReason'
<1>1. stored' = stored /\ ranged' = ranged
  BY DEF LoadStep, ReadSmallFile, PointerRead, ManifestRead, ArchiveSized, HeaderRead, RootRead, LoadBroken,
         FailLoad, LoadReturns, ReadAt, OpenObject, Begin, worldVars
<1>2. CASE RootRead /\ ~FailLoad
  <2>1. load' = [load EXCEPT !.step = "open"]
    BY <1>2 DEF RootRead
  <2>2. load'.step = "open"
    BY <2>1 DEF OpeningInv, LoadOK
  <2> QED
    BY <2>2 DEF LoadReason, OnCourse, Underway, At
<1>3. CASE ~RootRead \/ FailLoad
  <2>1. healthy' = healthy
    BY <1>3 DEF LoadStep, ReadSmallFile, PointerRead, ManifestRead, ArchiveSized, HeaderRead, LoadBroken,
                FailLoad, Reached, loadVars
  <2>2. CASE ~Promising
    BY <1>1, <2>1, <2>2 DEF LoadReason, Promising
  <2>3. CASE Promising
    <3>1. ~LoadBroken
      BY <2>3, OnCourseNow DEF LoadBroken, Broken, Intact
    <3> QED
      BY <2>3, <3>1, SmallFileCourse, PointerCourse, ManifestCourse, ArchiveCourse, HeaderCourse, RootCourse
         DEF LoadStep
  <2> QED
    BY <2>2, <2>3
<1> QED
  BY <1>2, <1>3

\* The call of the loader ends with the answer it is meant to get.
LEMMA EndCourse ==
  ASSUME BucketOK, OpeningInv, LoadReason, Promising, load' = load, NEW y, End(Loader, y), Intact(y),
         NEW p, NEW a, p = stored[Pointer], a = Names[p],
         At("pointer") => \/ y.status = "size" /\ y.n = Length[p]
                          \/ y.status = "data" /\ y.version = p /\ y.n = Length[p],
         At("manifest") => \/ y.status = "size" /\ y.n = Length[Manifest(a)]
                           \/ y.status = "data" /\ y.version = Manifest(a) /\ y.n = Length[Manifest(a)],
         At("root") => y.status = "data" /\ y.version = Archive(a) /\ y.off = 1 /\ y.n = File[a][1].rootLen
  PROVE  LoadReason'
<1>1. PICK q : q = NoCall(call[Loader].object)
  OBVIOUS
<1>2. call'[Loader] = q /\ reply'[Loader] = y /\ stored' = stored /\ expired' = expired
  BY <1>1, Objects0 DEF End, OpeningInv, StoreOK, worldVars
<1>3. q.object = call[Loader].object /\ q.step = "none"
  BY <1>1 DEF NoCall
<1>4. PICK r, x : r = call[Loader] /\ x = reply[Loader] /\ OnCourse(r, x, p, a)
  BY DEF LoadReason
<1>5. At("pointer") => r.object = Pointer
  BY <1>4 DEF OnCourse, SmallOK
<1>6. At("manifest") => r.object = Manifest(a)
  BY <1>4 DEF OnCourse, SmallOK
<1>7. ~(At("pointer") /\ At("manifest")) /\ ("size" # "data")
  BY DEF At
<1>8. At("pointer") => SmallOK(q, y, Pointer, p)
  BY <1>3, <1>4, <1>5 DEF SmallOK
<1>9. At("manifest") => SmallOK(q, y, Manifest(a), Manifest(a))
  BY <1>3, <1>4, <1>6 DEF SmallOK
<1>10. At("root") => RootOK(q, y, a)
  BY <1>3 DEF RootOK
<1>11. OnCourse(q, y, p, a)
  BY <1>4, <1>8, <1>9, <1>10 DEF OnCourse
<1>12. OnCourse(q, y, p, a)'
  BY <1>2, <1>11 DEF OnCourse, At, Underway, SmallOK, RootOK, Intact
<1> QED
  BY <1>2, <1>12, CourseGoesOn

\* A load that is over, or has not begun, has no course to keep.
LEMMA NoCourse ==
  ASSUME LoadReason, ~Underway, load' = load, stored' = stored, ranged' = ranged, healthy' => healthy
  PROVE  LoadReason'
<1>1. Promising' => Promising /\ ~At("failed")
  BY DEF Promising, LoadReason, OnCourse
<1> QED
  BY <1>1 DEF LoadReason, OnCourse, Underway, At

LEMMA HeadCourse ==
  ASSUME BucketOK, OpeningInv, LoadReason, Promising, Underway, load' = load, AnswerHead(Loader)
  PROVE  LoadReason'
<1>1. PICK p, a, q, y : p = stored[Pointer] /\ a = Names[p] /\ q = call[Loader] /\ y = reply[Loader]
  OBVIOUS
<1>2. load.step \in {"pointer", "manifest", "archive"}
  <2>1. q.step = "send" /\ q.method = "HEAD"
    BY <1>1 DEF AnswerHead, Sent
  <2>2. ~At("root")
    BY <1>1, <2>1, OnCourseNow DEF RootOK
  <2>3. ~At("header")
    BY <1>1, <2>1 DEF OpeningInv, CallOK
  <2> QED
    BY <2>2, <2>3 DEF Underway, At, OpeningInv, LoadOK, Steps
<1>3. PICK v : v = stored[q.object]
  OBVIOUS
<1>4. /\ v # Absent
      /\ At("pointer") => v = p
      /\ At("manifest") => v = Manifest(a)
  <2>1. /\ p \in Pointers /\ stored[Manifest(a)] = Manifest(a) /\ stored[Archive(a)] = Archive(a)
        /\ p # Absent /\ Manifest(a) # Absent /\ Archive(a) # Absent
    <3>1. /\ p \in Versions /\ Manifest(a) \in Versions /\ Archive(a) \in Versions
      BY <1>1, PromisedIsThere, Objects0, UploadAssumption
    <3> QED
      BY <1>1, <3>1, PromisedIsThere, StoreAssumption
  <2>2. At("pointer") => q.object = Pointer
    BY <1>1, OnCourseNow DEF SmallOK
  <2>3. At("manifest") => q.object = Manifest(a)
    BY <1>1, OnCourseNow DEF SmallOK
  <2>4. At("archive") => q.object = Archive(a)
    BY <1>1, OnCourseNow DEF OpeningInv, CallOK, At
  <2> QED
    BY <1>1, <1>2, <1>3, <2>1, <2>2, <2>3, <2>4 DEF At
<1>5. PICK x : x = Sized(Length[v])
  OBVIOUS
<1>6. End(Loader, x)
  BY <1>1, <1>3, <1>4, <1>5 DEF AnswerHead
<1>7. x.status = "size" /\ x.n = Length[v] /\ Intact(x)
  BY <1>5 DEF Sized, Intact
<1>8. ~At("root")
  BY <1>2 DEF At
<1> QED
  BY <1>1, <1>4, <1>6, <1>7, <1>8, EndCourse

LEMMA GetCourse ==
  ASSUME BucketOK, OpeningInv, LoadReason, Promising, Underway, load' = load, AnswerGet(Loader)
  PROVE  LoadReason'
<1>1. PICK p, a, q, y : p = stored[Pointer] /\ a = Names[p] /\ q = call[Loader] /\ y = reply[Loader]
  OBVIOUS
<1>2. q.step = "send" /\ q.method = "GET" /\ ranged
  BY <1>1 DEF AnswerGet, Sent, Promising
<1>3. load.step \in {"pointer", "manifest", "header", "root"}
  <2>1. ~At("archive")
    BY <1>1, <1>2 DEF OpeningInv, CallOK
  <2> QED
    BY <2>1 DEF Underway, At, OpeningInv, LoadOK, Steps
<1>4. PICK v : \E len \in Nat :
        /\ v = stored[q.object] /\ v # Absent /\ Length[v] \in Nat
        /\ q.off \in 0..1 /\ q.end = q.off + len - 1 /\ q.end < Length[v]
        /\ At("pointer") => v = p /\ len = Length[v]
        /\ At("manifest") => v = Manifest(a) /\ len = Length[v]
        /\ At("root") => v = Archive(a) /\ q.off = 1 /\ len = File[a][1].rootLen
  <2>1. /\ stored[Manifest(a)] = Manifest(a) /\ stored[Archive(a)] = Archive(a)
        /\ p # Absent /\ Manifest(a) # Absent /\ Archive(a) # Absent
        /\ Length[p] \in Nat /\ Length[Manifest(a)] \in Nat /\ Length[Archive(a)] \in Nat
        /\ File[a][1].rootLen \in Nat \ {0} /\ File[a][1].rootLen < Length[Archive(a)]
    <3>1. /\ p \in Versions /\ Manifest(a) \in Versions /\ Archive(a) \in Versions
      BY <1>1, PromisedIsThere, Objects0, UploadAssumption
    <3> QED
      BY <1>1, <3>1, PromisedIsThere, StoreAssumption
  <2>2. CASE At("pointer")
    <3>1. q.object = Pointer /\ q.off = 0 /\ q.end = Length[p] - 1
      BY <1>1, <1>2, <2>2, OnCourseNow DEF SmallOK
    <3> QED
      BY <1>1, <2>1, <2>2, <3>1 DEF At
  <2>3. CASE At("manifest")
    <3>1. q.object = Manifest(a) /\ q.off = 0 /\ q.end = Length[Manifest(a)] - 1
      BY <1>1, <1>2, <2>3, OnCourseNow DEF SmallOK
    <3> QED
      BY <1>1, <2>1, <2>3, <3>1 DEF At
  <2>4. CASE At("header")
    <3>1. q.object = Archive(a) /\ q.off = 0 /\ q.end = 0
      BY <1>1, <1>2, <2>4, OnCourseNow DEF OpeningInv, CallOK, At
    <3> QED
      BY <1>1, <2>1, <2>4, <3>1 DEF At
  <2>5. CASE At("root")
    <3>1. q.object = Archive(a) /\ q.off = 1 /\ q.end = File[a][1].rootLen
      BY <1>1, <1>2, <2>5, OnCourseNow DEF RootOK
    <3> QED
      BY <1>1, <2>1, <2>5, <3>1 DEF At
  <2> QED
    BY <1>3, <2>2, <2>3, <2>4, <2>5 DEF At
<1>5. PICK len \in Nat :
        /\ v = stored[q.object] /\ v # Absent /\ Length[v] \in Nat
        /\ q.off \in 0..1 /\ q.end = q.off + len - 1 /\ q.end < Length[v]
        /\ At("pointer") => v = p /\ len = Length[v]
        /\ At("manifest") => v = Manifest(a) /\ len = Length[v]
        /\ At("root") => v = Archive(a) /\ q.off = 1 /\ len = File[a][1].rootLen
  BY <1>4
<1>6. PICK x, off : off = q.off /\ x = Data(v, off, len)
  OBVIOUS
<1>7. End(Loader, x)
  <2>1. Asked(Loader) = len
    BY <1>1, <1>5 DEF Asked
  <2>2. RangeReply(Loader, v) = x
    BY <1>1, <1>5, <1>6, <2>1 DEF RangeReply
  <2>3. End(Loader, RangeReply(Loader, v))
    BY <1>1, <1>2, <1>5 DEF AnswerGet
  <2> QED
    BY <2>2, <2>3
<1>8. x.status = "data" /\ x.version = v /\ x.off = off /\ x.n = len /\ Intact(x)
  BY <1>6 DEF Data, Intact
<1> QED
  BY <1>1, <1>5, <1>6, <1>7, <1>8, EndCourse

\* An attempt of the loader fails and is repeated.
LEMMA AttemptCourse ==
  ASSUME OpeningInv, LoadReason, Promising, load' = load, UNCHANGED <<worldVars, reply>>,
         \/ call' = [call EXCEPT ![Loader].step = "wait"]
         \/ call' = [call EXCEPT ![Loader].step = "send", ![Loader].attempt = @ + 1],
         call[Loader].step # "none"
  PROVE  LoadReason'
<1>1. call[Loader] \in Request /\ DOMAIN call = Callers /\ Loader \in Callers
  BY Objects0 DEF OpeningInv, CallOK, StoreOK
<1>2. PICK q, r, y, p, a : q = call'[Loader] /\ r = call[Loader] /\ y = reply[Loader]
                           /\ p = stored[Pointer] /\ a = Names[p]
  OBVIOUS
<1>3. /\ q.object = r.object /\ q.method = r.method /\ q.off = r.off /\ q.end = r.end /\ r.step # "none"
  BY <1>1, <1>2 DEF Request
<1>4. OnCourse(r, y, p, a)
  BY <1>2 DEF LoadReason
<1>5. OnCourse(q, y, p, a)
  BY <1>3, <1>4 DEF OnCourse, SmallOK, RootOK
<1>6. OnCourse(q, y, p, a)'
  BY <1>5 DEF OnCourse, At, Underway, SmallOK, RootOK, Intact, worldVars
<1> QED
  BY <1>2, <1>6, CourseGoesOn DEF worldVars

\* What the store does with the loader's call.
LEMMA LoaderCallCourse ==
  ASSUME BucketOK, OpeningInv, LoadReason, StoreStep(Loader) \/ Fault(Loader)
  PROVE  LoadReason'
<1>1. /\ load' = load /\ stored' = stored /\ ranged' = ranged /\ expired' = expired
      /\ healthy' => healthy
  <2>1. stored' = stored /\ ranged' = ranged /\ expired' = expired
    BY DEF StoreStep, Fault, AnswerHead, AnswerGet, Resume, Cancel, Refuse, Deny, Cut, End, worldVars
  <2>2. load' = load
    BY DEF StoreStep, Fault, loadVars
  <2>3. healthy' => healthy
    BY DEF StoreStep, Fault, loadVars
  <2> QED
    BY <2>1, <2>2, <2>3
<1>2. CASE ~Promising \/ ~healthy'
  BY <1>1, <1>2 DEF LoadReason, Promising
<1>3. CASE ~Underway
  BY <1>1, <1>3, NoCourse
<1>4. CASE Promising /\ healthy' /\ Underway
  <2>1. ~Cancel(Loader)
    BY <1>4, OnCourseNow DEF Cancel
  <2>2. Fault(Loader) => Refuse(Loader) /\ MayRetry(Loader)
    BY <1>4 DEF Fault, MayRetry
  <2>3. CASE Resume(Loader) \/ (Refuse(Loader) /\ MayRetry(Loader))
    BY <1>1, <1>4, <2>3, AttemptCourse DEF Resume, Refuse
  <2>4. CASE AnswerHead(Loader) \/ AnswerGet(Loader)
    BY <1>1, <1>4, <2>4, HeadCourse, GetCourse
  <2> QED
    BY <2>1, <2>2, <2>3, <2>4 DEF StoreStep
<1> QED
  BY <1>2, <1>3, <1>4

\* Who neither loads nor answers the loader does not change its course.
LEMMA CourseFrame ==
  ASSUME LoadReason, load' = load, stored' = stored, ranged' = ranged, expired' = expired,
         call'[Loader] = call[Loader], reply'[Loader] = reply[Loader], healthy' => healthy
  PROVE  LoadReason'
<1>1. Promising' => Promising
  BY DEF Promising
<1>2. PICK q, y, p, a : q = call[Loader] /\ y = reply[Loader] /\ p = stored[Pointer] /\ a = Names[p]
  OBVIOUS
<1>3. Promising => OnCourse(q, y, p, a)
  BY <1>2 DEF LoadReason
<1>4. OnCourse(q, y, p, a) => OnCourse(q, y, p, a)'
  BY DEF OnCourse, At, Underway, SmallOK, RootOK, Intact
<1>5. OnCourse(q, y, p, a)' <=> OnCourse(call[Loader], reply[Loader], stored[Pointer],
                                         Names[stored[Pointer]])'
  <2>1. q = call'[Loader] /\ y = reply'[Loader] /\ p = stored'[Pointer] /\ a = Names[stored'[Pointer]]
    BY <1>2
  <2> QED
    BY <2>1 DEF OnCourse, At, Underway, SmallOK, RootOK, Intact
<1> QED
  BY <1>1, <1>3, <1>4, <1>5 DEF LoadReason

\* Calls of requests: nothing of the load changes.
LEMMA OtherCalls ==
  ASSUME OpeningInv, NEW c \in Callers \ {Loader}, StoreStep(c) \/ Fault(c)
  PROVE  /\ load' = load /\ stored' = stored /\ ranged' = ranged /\ expired' = expired
         /\ call'[Loader] = call[Loader] /\ reply'[Loader] = reply[Loader]
         /\ healthy' => healthy
<1>1. load' = load
  BY DEF StoreStep, Fault, loadVars
<1>2. healthy' => healthy
  BY DEF StoreStep, Fault, loadVars
<1>3. stored' = stored /\ ranged' = ranged /\ expired' = expired
  BY DEF StoreStep, Fault, AnswerHead, AnswerGet, Resume, Cancel, Refuse, Deny, Cut, End, worldVars
<1>4. call'[Loader] = call[Loader] /\ reply'[Loader] = reply[Loader]
  <2>1. CASE \E p : End(c, p)
    BY <2>1, Objects0 DEF End, OpeningInv, StoreOK
  <2>2. CASE Resume(c) \/ (Refuse(c) /\ MayRetry(c))
    <3>1. reply' = reply /\ \E q : call' = [call EXCEPT ![c] = q]
      BY <2>2 DEF Resume, Refuse
    <3> QED
      BY <3>1, Objects0 DEF OpeningInv, StoreOK
  <2> QED
    BY <2>1, <2>2 DEF StoreStep, Fault, AnswerHead, AnswerGet, Cancel, Refuse, Deny, Cut
<1> QED
  BY <1>1, <1>2, <1>3, <1>4

\* What a step of a request leaves alone.
LEMMA ReaderLeaves ==
  ASSUME OpeningInv, WalkInv, NEW r \in Readers,
         (\E t \in Wanted, copy \in Copies : Ask(r, t, copy)) \/ ReaderStep(r)
  PROVE  /\ load' = load /\ stored' = stored /\ ranged' = ranged /\ expired' = expired
         /\ call'[Loader] = call[Loader] /\ reply'[Loader] = reply[Loader]
         /\ \A s \in Readers \ {r} : reply'[s] = reply[s]
         /\ healthy' = healthy
<1>1. r \in Callers \ {Loader} /\ Readers \subseteq Callers
  BY PlanetAssumption
<1>2. load' = load /\ healthy' = healthy
  BY DEF Ask, ReaderStep, NoTile, ReadTile, GetLeaf, LoadLeaf, StoreLeaf, LeafReturned, TileRead,
         Stay, loadVars
<1>3. UNCHANGED storeVars \/ (\E q : Begin(r, q)) \/ Consume(r)
  BY DEF Ask, ReaderStep, NoTile, ReadTile, GetLeaf, LoadLeaf, StoreLeaf, LeafReturned, TileRead,
         Stay, ReadSection, ReadAt
<1>4. stored' = stored /\ ranged' = ranged /\ expired' = expired
  BY <1>3 DEF storeVars, Begin, Consume, worldVars
<1>5. /\ call'[Loader] = call[Loader] /\ reply'[Loader] = reply[Loader]
      /\ \A s \in Readers \ {r} : reply'[s] = reply[s]
  BY <1>1, <1>3, Objects0 DEF storeVars, Begin, Consume, OpeningInv, StoreOK
<1> QED
  BY <1>2, <1>4, <1>5

LEMMA WorldFails ==
  ASSUME Deadline \/ (\E p \in Pointers : MovePointer(p)) \/ \E a \in Releases : RemoveRelease(a)
  PROVE  ~healthy' /\ load' = load
  BY DEF Deadline, MovePointer, RemoveRelease

LEMMA CourseInvariant ==
  ASSUME PlanetInv, BucketOK, QuietBefore, LoadReason, [Next]_vars
  PROVE  LoadReason'
<1>1. OpeningInv /\ WalkInv
  BY DEF PlanetInv
<1>2. CASE UNCHANGED vars
  BY <1>2, CourseFrame DEF vars, storeVars, loadVars
<1>3. CASE BeginLoad
  BY <1>1, <1>3, BeginCourse
<1>4. CASE LoadStep
  BY <1>1, <1>4, LoadStepCourse
<1>5. ASSUME NEW c \in Callers, StoreStep(c) \/ Fault(c) PROVE LoadReason'
  <2>1. CASE c = Loader
    BY <1>1, <1>5, <2>1, LoaderCallCourse
  <2>2. CASE c # Loader
    BY <1>1, <1>5, <2>2, OtherCalls, CourseFrame
  <2> QED
    BY <2>1, <2>2
<1>6. CASE Environment
  <2>1. CASE \E c \in Callers : Fault(c)
    BY <1>5, <2>1
  <2>2. CASE Deadline \/ (\E p \in Pointers : MovePointer(p)) \/ \E a \in Releases : RemoveRelease(a)
    BY <2>2, WorldFails DEF LoadReason, Promising
  <2> QED
    BY <1>6, <2>1, <2>2 DEF Environment
<1>7. ASSUME NEW r \in Readers, (\E t \in Wanted, copy \in Copies : Ask(r, t, copy)) \/ ReaderStep(r)
      PROVE  LoadReason'
  <2>1. healthy' = healthy
    BY <1>1, <1>7, ReaderLeaves
  <2>2. healthy' => healthy
    BY <2>1
  <2> QED
    BY <1>1, <1>7, <2>2, ReaderLeaves, CourseFrame
<1> QED
  BY <1>2, <1>3, <1>4, <1>5, <1>6, <1>7 DEF Next

\* Before the archive is open nothing is loaded, and the load has its time.
LEMMA QuietInvariant ==
  ASSUME PlanetInv, QuietBefore, [Next]_vars
  PROVE  QuietBefore'
<1>1. OpeningInv /\ WalkInv
  BY DEF PlanetInv
<1>2. CASE At("open")
  <2>1. load' = load
    BY <1>2, OpenStays
  <2> QED
    BY <1>2, <2>1 DEF QuietBefore, At
<1>3. CASE ~At("open")
  <2>1. ASSUME NEW r \in Readers PROVE ~ReaderStep(r) /\ ~(\E t \in Wanted, copy \in Copies : Ask(r, t, copy))
    BY <1>1, <1>3, OpenReader DEF Ask
  <2>2. result' = result
    BY <2>1 DEF Next, vars, dirVars
  <2>3. At("none")' => Loader \notin expired'
    <3>1. CASE BeginLoad
      BY <3>1 DEF BeginLoad, NoLoad, At
    <3>2. CASE LoadStep
      <4>1. load.step \in {"pointer", "manifest", "archive", "header", "root"}
        BY <3>2 DEF LoadStep, ReadSmallFile, PointerRead, ManifestRead, ArchiveSized, HeaderRead,
                    RootRead, LoadBroken, Underway, At, OpeningInv, LoadOK, Steps, PlanetInv
      <4>2. load' = load \/ load'.step # "none"
        BY <3>2 DEF LoadStep, ReadSmallFile, PointerRead, ManifestRead, ArchiveSized, HeaderRead,
                    RootRead, LoadBroken, FailLoad, Reached, loadVars, NoLoad, PlanetInv, OpeningInv, LoadOK
      <4> QED
        BY <4>1, <4>2 DEF At
    <3>3. CASE UNCHANGED vars
      BY <3>3 DEF vars, storeVars, loadVars, QuietBefore, At
    <3>4. ASSUME NEW c \in Callers, StoreStep(c) \/ Fault(c) PROVE load' = load /\ expired' = expired
      <4>1. load' = load
        BY <3>4 DEF StoreStep, Fault, loadVars
      <4>2. expired' = expired
        BY <3>4 DEF StoreStep, Fault, AnswerHead, AnswerGet, Resume, Cancel, Refuse, Deny, Cut, End, worldVars
      <4> QED
        BY <4>1, <4>2
    <3>5. CASE Deadline
      BY <3>5 DEF Deadline, Underway, At
    <3>6. CASE (\E p \in Pointers : MovePointer(p)) \/ \E a \in Releases : RemoveRelease(a)
      BY <3>6 DEF MovePointer, RemoveRelease, Put, QuietBefore, At
    <3> QED
      BY <2>1, <3>1, <3>2, <3>3, <3>4, <3>5, <3>6 DEF Next, Environment, QuietBefore, At
  <2>4. ~At("open")' => \A f \in Flights : result'[f] = Pending
    BY <1>3, <2>2 DEF QuietBefore
  <2> QED
    BY <2>3, <2>4 DEF QuietBefore
<1> QED
  BY <1>2, <1>3

\* A step that leaves requests and outcomes alone.
LEMMA ReadFrame ==
  ASSUME ReadReason, UNCHANGED <<walk, result, load, stored, ranged>>, healthy' => healthy,
         \A r \in Readers : reply'[r] = reply[r] \/ Intact(reply'[r])
  PROVE  ReadReason'
<1>1. healthy' /\ ranged' => healthy /\ ranged
  OBVIOUS
<1> QED
  BY <1>1 DEF ReadReason, At, Intact

\* One request moves.
LEMMA ReadMoves ==
  ASSUME ReadReason, UNCHANGED <<load, stored, ranged, healthy>>, NEW r \in Readers,
         \A s \in Readers \ {r} : walk'[s] = walk[s] /\ reply'[s] = reply[s],
         healthy /\ ranged => /\ walk'[r].status # 500 /\ Intact(reply'[r])
                              /\ \A f \in Flights : result'[f] # Failed
  PROVE  ReadReason'
<1>1. healthy' = healthy /\ ranged' = ranged /\ load' = load /\ stored' = stored
  OBVIOUS
<1>2. ASSUME healthy, ranged PROVE \A s \in Readers : walk'[s].status # 500 /\ Intact(reply'[s])
  BY <1>2 DEF ReadReason
<1>3. ASSUME healthy, ranged PROVE At("open") => stored[Archive(load.release)] # Absent
  BY <1>3 DEF ReadReason
<1> QED
  BY <1>1, <1>2, <1>3 DEF ReadReason, At, Intact

\* What the actions make of the status of a request.
LEMMA StatusOf ==
  ASSUME WalkInv, NEW r \in Readers
  PROVE  /\ \A status, body : Answer(r, status, body) =>
              walk'[r].status = status /\ \A s \in Readers \ {r} : walk'[s] = walk[s]
         /\ \A step : walk' = [walk EXCEPT ![r].step = step] =>
              walk'[r].status = walk[r].status /\ \A s \in Readers \ {r} : walk'[s] = walk[s]
         /\ Descend(r) /\ walk[r].depth < MaxLeafDepth =>
              walk'[r].status = walk[r].status /\ \A s \in Readers \ {r} : walk'[s] = walk[s]
<1>1. DOMAIN walk = Readers
  BY DEF WalkInv
<1>2. PICK v : v = walk[r] /\ WalkOK(v)
  BY DEF WalkInv
<1>3. ASSUME NEW status, NEW body, Answer(r, status, body)
      PROVE  walk'[r].status = status /\ \A s \in Readers \ {r} : walk'[s] = walk[s]
  <2>1. PICK w : w = Rest(v.id, v.copy, status, body)
    OBVIOUS
  <2>2. walk' = [walk EXCEPT ![r] = w]
    BY <1>1, <1>2, <1>3, <2>1 DEF Answer
  <2>3. w.status = status
    BY <2>1 DEF Rest
  <2> QED
    BY <1>1, <2>2, <2>3
<1>4. ASSUME NEW step, walk' = [walk EXCEPT ![r].step = step]
      PROVE  walk'[r].status = walk[r].status /\ \A s \in Readers \ {r} : walk'[s] = walk[s]
  <2>1. PICK w : w = [v EXCEPT !.step = step]
    OBVIOUS
  <2>2. walk' = [walk EXCEPT ![r] = w]
    BY <1>1, <1>2, <1>4, <2>1
  <2>3. w.status = v.status
    BY <1>2, <2>1 DEF WalkOK
  <2> QED
    BY <1>1, <1>2, <2>2, <2>3
<1>5. ASSUME Descend(r), walk[r].depth < MaxLeafDepth
      PROVE  walk'[r].status = walk[r].status /\ \A s \in Readers \ {r} : walk'[s] = walk[s]
  <2>1. PICK f, n : f = EntryFor(v.id, v.entry) /\ n = v.depth + 1
    OBVIOUS
  <2>2. PICK w : w = [v EXCEPT !.step = "look", !.depth = n, !.entry = f]
    OBVIOUS
  <2>3. walk' = [walk EXCEPT ![r] = w]
    BY <1>1, <1>2, <1>5, <2>1, <2>2 DEF Descend
  <2>4. w.status = v.status
    BY <1>2, <2>2 DEF WalkOK
  <2> QED
    BY <1>1, <1>2, <2>3, <2>4
<1> QED
  BY <1>3, <1>4, <1>5

\* A request has no reply while it does not read.
LEMMA NoReplyBroken ==
  ASSUME OpeningInv, NEW r \in Readers, UNCHANGED storeVars \/ (\E q : Begin(r, q)) \/ Consume(r), Intact(reply[r])
  PROVE  Intact(reply'[r])
<1>1. r \in Callers /\ DOMAIN reply = Callers
  BY PlanetAssumption DEF OpeningInv, StoreOK
<1>2. reply'[r] = reply[r] \/ reply'[r] = NoReply
  BY <1>1 DEF storeVars, Begin, Consume
<1> QED
  BY <1>2 DEF Intact, NoReply

LEMMA ReaderCalls ==
  ASSUME NEW r \in Readers, (\E t \in Wanted, copy \in Copies : Ask(r, t, copy)) \/ ReaderStep(r)
  PROVE  UNCHANGED storeVars \/ (\E q : Begin(r, q)) \/ Consume(r)
  BY DEF Ask, ReaderStep, NoTile, ReadTile, GetLeaf, LoadLeaf, StoreLeaf, LeafReturned, TileRead,
         Stay, ReadSection, ReadAt

LEMMA AskReads ==
  ASSUME OpeningInv, WalkInv, ReadReason, NEW r \in Readers, NEW t \in Wanted, NEW copy \in Copies, Ask(r, t, copy)
  PROVE  ReadReason'
<1>1. DOMAIN walk = Readers /\ result' = result
  BY DEF WalkInv, Ask, dirVars
<1>2. walk'[r].status \in {400, 204, 0} /\ \A s \in Readers \ {r} : walk'[s] = walk[s]
  <2>1. CASE ~OnGrid(t)
    BY <1>1, <2>1 DEF Ask, Refused, Rest
  <2>2. CASE OnGrid(t) /\ ~InZooms(t[1], TheHeader)
    BY <1>1, <2>2 DEF Ask, Rest
  <2>3. CASE OnGrid(t) /\ InZooms(t[1], TheHeader)
    BY <1>1, <2>3 DEF Ask, Rest
  <2> QED
    BY <2>1, <2>2, <2>3
<1>3. healthy /\ ranged => Intact(reply'[r]) /\ \A f \in Flights : result'[f] # Failed
  BY <1>1, ReaderCalls, NoReplyBroken DEF ReadReason
<1>4. /\ UNCHANGED <<load, stored, ranged, healthy>>
      /\ \A s \in Readers \ {r} : reply'[s] = reply[s]
  BY ReaderLeaves
<1> QED
  BY <1>2, <1>3, <1>4, ReadMoves

\* A leaf directory that is on the path is well-formed.
LEMMA LeafIsSound ==
  ASSUME PathInv, WalkInv, OpeningInv, NEW r \in Readers, pc[r] = "load", reply[r].status = "data"
  PROVE  WellFormed(Read(r))
<1>1. PICK e : e = walk[r].entry
  OBVIOUS
<1>2. walk[r].step = "leaf" /\ e # NoEntry /\ e.run = 0 /\ Reading(r)
  BY <1>1 DEF WalkInv, WalkOK, Reading
<1>3. e \in EntryType /\ (HoldsTile(TheFile, e) \/ OpensLeaf(TheFile, e))
  BY <1>1, <1>2, Looking, PathGoesOn
<1>4. OpensLeaf(TheFile, e)
  BY <1>2, <1>3 DEF HoldsTile
<1>5. WellFormed(LeafRows(TheFile, e))
  BY <1>4 DEF OpensLeaf
<1>6. Place(walk[r]) = LeafOffset(TheHeader) + e.off
  BY <1>1, <1>2 DEF Place
<1>7. Read(r) = Bytes(TheFile, LeafOffset(TheHeader) + e.off, e.len)
  BY <1>1, <1>2, <1>6, ReadBytes
<1> QED
  BY <1>5, <1>7 DEF LeafRows, TheHeader

\* The steps of a request that is neither reading nor waiting.
LEMMA QuietReads ==
  ASSUME PlanetInv, PathInv, NEW r \in Readers, NoTile(r) \/ ReadTile(r) \/ GetLeaf(r), walk[r].status # 500
  PROVE  walk'[r].status # 500 /\ (\A s \in Readers \ {r} : walk'[s] = walk[s]) /\ result' = result
<1>1. FlightInv /\ OpeningInv /\ WalkInv /\ load' = load
  BY ReaderLeaves DEF PlanetInv, ReaderStep
<1>2. CASE NoTile(r)
  <2>1. walk[r].entry = NoEntry
    BY <1>1, <1>2, NoTilePath
  <2>2. Answer(r, 204, <<>>) /\ result' = result
    BY <1>2, <2>1 DEF NoTile, dirVars
  <2>3. walk'[r].status = 204
    BY <1>1, <2>2, StatusOf
  <2> QED
    BY <1>1, <2>2, <2>3, StatusOf
<1>3. CASE ReadTile(r)
  BY <1>1, <1>3, StatusOf DEF ReadTile, dirVars
<1>4. CASE GetLeaf(r)
  <2>1. PICK k : k = Key(walk[r].entry)
    OBVIOUS
  <2>2. /\ walk[r].step = "look" /\ walk[r].entry # NoEntry /\ walk[r].entry.run = 0 /\ pc[r] = "idle"
        /\ ~Reading(r)
    BY <1>1, <1>4 DEF GetLeaf, WalkInv, Reading
  <2>3. CASE Hit(r, k) /\ Descend(r) /\ Stay
    <3>1. walk[r].depth < MaxLeafDepth
      BY <1>1, <2>2, <2>3, DescendPath DEF Hit, Stay, storeVars
    <3> QED
      BY <1>1, <2>3, <3>1, StatusOf DEF Hit
  <2>4. CASE (Join(r, k) \/ StartLoad(r, k)) /\ walk' = [walk EXCEPT ![r].step = "leaf"]
    BY <1>1, <2>4, StatusOf DEF Join, StartLoad
  <2> QED
    BY <1>4, <2>1, <2>3, <2>4 DEF GetLeaf
<1> QED
  BY <1>2, <1>3, <1>4

\* What a read and the cache return when nothing went wrong.
LEMMA AnswersRead ==
  ASSUME PlanetInv, PathInv, NEW r \in Readers, LoadLeaf(r) \/ StoreLeaf(r) \/ LeafReturned(r) \/ TileRead(r),
         walk[r].status # 500, Intact(reply[r]), \A f \in Flights : result[f] # Failed
  PROVE  /\ walk'[r].status # 500 /\ \A s \in Readers \ {r} : walk'[s] = walk[s]
         /\ \A f \in Flights : result'[f] # Failed
<1>1. FlightInv /\ OpeningInv /\ WalkInv /\ load' = load
  BY ReaderLeaves DEF PlanetInv, ReaderStep
<1>2. ~Broken(r)
  BY DEF Broken, Intact
<1>3. result \in [Flights -> Outcomes] /\ Pending # Failed /\ Failed \notin Keys
  BY <1>1, DirCacheAssumption DEF FlightInv, FlightTypes
<1>4. CASE LoadLeaf(r)
  <2>1. walk' = walk /\ pc[r] = "load" /\ reply[r].status = "data"
    BY <1>2, <1>4 DEF LoadLeaf, Load, Returned
  <2>2. WellFormed(Read(r))
    BY <1>1, <2>1, LeafIsSound
  <2>3. Load(r, want[r])
    BY <1>2, <1>4, <2>2 DEF LoadLeaf
  <2>4. want[r] \in Keys
    BY <1>1, <2>1 DEF FlightInv, InGet
  <2>5. \A f \in Flights : result'[f] # Failed
    BY <1>3, <2>3, <2>4 DEF Load
  <2> QED
    BY <2>1, <2>5
<1>5. CASE StoreLeaf(r)
  BY <1>5 DEF StoreLeaf, Store
<1>6. CASE LeafReturned(r)
  <2>1. pc[r] \in {"release", "wait"} /\ Leave(r) /\ Move(r, "idle", NoKey, NoFlight)
    BY <1>6 DEF LeafReturned, Return, Wake, Leave
  <2>2. pc'[r] = "idle" /\ \A s \in Readers \ {r} : pc'[s] = pc[s]
    BY <1>1, <2>1, Moved DEF FlightInv
  <2>3. walk[r].step = "leaf" /\ walk[r].entry # NoEntry /\ walk[r].entry.run = 0 /\ flight[r] \in Flights
    BY <1>1, <2>1 DEF WalkInv, WalkOK, FlightInv, InGet
  <2>4. ~Reading(r) /\ call' = call /\ reply' = reply
    BY <1>6, <2>1, <2>3 DEF Reading, LeafReturned, Stay, storeVars
  <2>5. Descend(r)
    BY <1>6, <2>3 DEF LeafReturned
  <2>6. walk[r].depth < MaxLeafDepth
    BY <1>1, <2>2, <2>3, <2>4, <2>5, DescendPath
  <2>7. \A f \in Flights : result'[f] # Failed
    BY <1>3, <2>1 DEF Leave
  <2> QED
    BY <1>1, <2>5, <2>6, <2>7, StatusOf
<1>7. CASE TileRead(r)
  <2>1. (Answer(r, 304, <<>>) \/ Answer(r, 200, Read(r))) /\ result' = result
    BY <1>2, <1>7 DEF TileRead, dirVars
  <2>2. walk'[r].status \in {304, 200} /\ \A s \in Readers \ {r} : walk'[s] = walk[s]
    BY <1>1, <2>1, StatusOf
  <2> QED
    BY <2>1, <2>2
<1> QED
  BY <1>4, <1>5, <1>6, <1>7

LEMMA ReaderReads ==
  ASSUME PlanetInv, PathInv, ReadReason, NEW r \in Readers, ReaderStep(r)
  PROVE  ReadReason'
<1>1. OpeningInv /\ WalkInv
  BY DEF PlanetInv
<1>2. /\ UNCHANGED <<load, stored, ranged, healthy>>
      /\ \A s \in Readers \ {r} : reply'[s] = reply[s]
  BY <1>1, ReaderLeaves
<1>3. ASSUME healthy, ranged
      PROVE  /\ walk'[r].status # 500 /\ \A s \in Readers \ {r} : walk'[s] = walk[s]
             /\ Intact(reply'[r]) /\ \A f \in Flights : result'[f] # Failed
  <2>1. walk[r].status # 500 /\ Intact(reply[r]) /\ \A f \in Flights : result[f] # Failed
    BY <1>3 DEF ReadReason
  <2>2. Intact(reply'[r])
    BY <1>1, <2>1, ReaderCalls, NoReplyBroken
  <2> QED
    BY <2>1, <2>2, QuietReads, AnswersRead DEF ReaderStep
<1>4. CASE healthy /\ ranged
  BY <1>2, <1>3, <1>4, ReadMoves
<1>5. CASE ~(healthy /\ ranged)
  BY <1>2, <1>5 DEF ReadReason
<1> QED
  BY <1>4, <1>5

\* The answer to the call of a request.
LEMMA StoreReads ==
  ASSUME PlanetInv, PathInv, ReadReason, At("open"), NEW c \in Callers, StoreStep(c) \/ Fault(c),
         UNCHANGED <<dirVars, walk>>
  PROVE  ReadReason'
<1>1. OpeningInv /\ WalkInv /\ Readers \subseteq Callers /\ Loader \notin Readers
  BY PlanetAssumption DEF PlanetInv
<1>2. load' = load
  BY DEF StoreStep, Fault, loadVars
<1>3. healthy' => healthy
  BY DEF StoreStep, Fault, loadVars
<1>4. stored' = stored /\ ranged' = ranged
  BY DEF StoreStep, Fault, AnswerHead, AnswerGet, Resume, Cancel, Refuse, Deny, Cut, End, worldVars
<1>5. \A r \in Readers \ {c} : reply'[r] = reply[r]
  <2>1. (\E p : End(c, p)) \/ reply' = reply
    BY DEF StoreStep, Fault, AnswerHead, AnswerGet, Resume, Cancel, Refuse, Deny, Cut
  <2> QED
    BY <1>1, <2>1 DEF End, OpeningInv, StoreOK
<1>6. CASE ~healthy' \/ ~ranged
  BY <1>4, <1>6 DEF ReadReason
<1>7. CASE healthy' /\ ranged
  <2>1. stored[Archive(load.release)] # Absent
    BY <1>3, <1>7 DEF ReadReason
  <2>2. ASSUME c \in Readers PROVE reply'[c] = reply[c] \/ Intact(reply'[c])
    <3>1. call[c].step # "none" /\ Reading(c)
      BY <2>2 DEF StoreStep, Fault, AnswerHead, AnswerGet, Resume, Cancel, Refuse, Deny, Cut, Sent, PathInv, CallFits
    <3>2. call[c].method = "GET"
      BY <2>2, <3>1 DEF PathInv, CallFits, ReadOK
    <3>3. ~AnswerHead(c) /\ ~Cancel(c)
      BY <3>2 DEF AnswerHead, Sent, Cancel
    <3>4. Fault(c) => Refuse(c) /\ MayRetry(c)
      BY <1>7 DEF Fault, MayRetry
    <3>5. CASE Resume(c) \/ (Refuse(c) /\ MayRetry(c))
      BY <3>5 DEF Resume, Refuse
    <3>6. CASE AnswerGet(c)
      <4>1. PICK p : End(c, p) /\ p = Data(Archive(load.release), Place(walk[c]), walk[c].entry.len)
        BY <1>1, <1>7, <2>1, <2>2, <3>6, GetPath
      <4>2. reply'[c] = p
        BY <1>1, <2>2, <4>1 DEF End, OpeningInv, StoreOK
      <4>3. p.status = "data"
        BY <4>1 DEF Data
      <4> QED
        BY <4>2, <4>3 DEF Intact
    <3> QED
      BY <3>3, <3>4, <3>5, <3>6 DEF StoreStep
  <2>3. \A r \in Readers : reply'[r] = reply[r] \/ Intact(reply'[r])
    BY <1>5, <2>2
  <2> QED
    BY <1>2, <1>3, <1>4, <2>3, ReadFrame DEF dirVars
<1> QED
  BY <1>6, <1>7

\* The archive opens, and nothing has been read from it.
LEMMA OpensQuiet ==
  ASSUME PlanetInv, PathInv, QuietBefore, ~At("open"), LoadStep, UNCHANGED <<dirVars, walk>>, At("open")'
  PROVE  ReadReason'
<1>1. OpeningInv /\ WalkInv /\ Loader \notin Readers
  BY PlanetAssumption DEF PlanetInv
<1>2. RootRead /\ ~FailLoad
  BY DEF LoadStep, ReadSmallFile, PointerRead, ManifestRead, ArchiveSized, HeaderRead, LoadBroken,
         RootRead, FailLoad, NoLoad, Reached, loadVars, At
<1>3. /\ load' = [load EXCEPT !.step = "open"] /\ LoadReturns
      /\ healthy' = (stored[Archive(load.release)] # Absent)
  BY <1>2 DEF RootRead
<1>4. load'.release = load.release /\ stored' = stored
  BY <1>1, <1>3 DEF OpeningInv, LoadOK, LoadReturns
<1>5. ASSUME NEW r \in Readers PROVE walk'[r].status # 500 /\ Intact(reply'[r])
  <2>1. walk[r].status = 0 /\ ~Reading(r)
    BY <1>1, NobodyReads
  <2>2. reply[r] = NoReply
    BY <2>1 DEF PathInv, CallFits
  <2>3. reply'[r] = NoReply
    BY <1>1, <1>3, <2>2 DEF LoadReturns
  <2> QED
    BY <2>1, <2>3 DEF Intact, NoReply
<1>6. \A f \in Flights : result'[f] # Failed
  BY DirCacheAssumption DEF QuietBefore, dirVars
<1>7. healthy' => stored'[Archive(load'.release)] # Absent
  BY <1>3, <1>4
<1> QED
  BY <1>5, <1>6, <1>7 DEF ReadReason

\* Before it is open.
LEMMA NotYetRead ==
  ASSUME (PlanetInv /\ PathInv /\ QuietBefore)', ~At("open")'
  PROVE  ReadReason'
<1>1. ASSUME NEW r \in Readers PROVE walk'[r].status # 500 /\ Intact(reply'[r])
  <2>1. walk'[r].status = 0 /\ walk'[r].step = "idle" /\ pc'[r] = "idle"
    BY DEF PlanetInv, PathInv, PathOK, WalkInv, WalkOK
  <2>2. reply'[r] = NoReply
    BY <2>1 DEF PathInv, CallFits, Reading
  <2> QED
    BY <2>1, <2>2 DEF Intact, NoReply
<1>2. \A f \in Flights : result'[f] # Failed
  BY DirCacheAssumption DEF QuietBefore
<1> QED
  BY <1>1, <1>2 DEF ReadReason

LEMMA ReadInvariant ==
  ASSUME PlanetInv, PathInv, QuietBefore, ReadReason, [Next]_vars, (PlanetInv /\ PathInv /\ QuietBefore)'
  PROVE  ReadReason'
<1>1. OpeningInv /\ WalkInv
  BY DEF PlanetInv
<1>2. CASE ~At("open")'
  BY <1>2, NotYetRead
<1>3. CASE ~At("open") /\ At("open")'
  <2>1. load' # load
    BY <1>3 DEF At
  <2>2. LoadStep /\ UNCHANGED <<dirVars, walk>>
    <3>1. ~BeginLoad
      BY <1>3 DEF BeginLoad, NoLoad, At
    <3>2. \A c \in Callers : ~StoreStep(c) /\ ~Fault(c)
      BY <2>1 DEF StoreStep, Fault, loadVars
    <3>3. ~Environment
      BY <2>1, <3>2, WorldFails DEF Environment
    <3>4. ASSUME NEW r \in Readers PROVE ~ReaderStep(r) /\ ~(\E t \in Wanted, copy \in Copies : Ask(r, t, copy))
      BY <1>1, <2>1, ReaderLeaves
    <3>5. ~UNCHANGED vars
      BY <2>1 DEF vars, loadVars
    <3> QED
      BY <3>1, <3>2, <3>3, <3>4, <3>5 DEF Next
  <2> QED
    BY <1>3, <2>2, OpensQuiet
<1>4. CASE At("open") /\ At("open")'
  <2>1. ~BeginLoad /\ ~LoadStep
    BY <1>4 DEF BeginLoad, LoadStep, ReadSmallFile, PointerRead, ManifestRead, ArchiveSized, HeaderRead,
                RootRead, LoadBroken, Underway, At
  <2>2. UNCHANGED vars => ReadReason'
    BY ReadFrame DEF vars, storeVars, loadVars, dirVars
  <2>3. Environment /\ UNCHANGED <<dirVars, walk>> => ReadReason'
    BY <1>4, StoreReads, WorldFails DEF Environment, ReadReason
  <2> QED
    BY <1>1, <1>4, <2>1, <2>2, <2>3, StoreReads, AskReads, ReaderReads DEF Next
<1> QED
  BY <1>2, <1>3, <1>4

LEMMA ReasonsBegin == Init => ReasonInv
<1> SUFFICES ASSUME Init PROVE ReasonInv
  OBVIOUS
<1>1. PICK p \in Pointers \cup {Absent} : stored = [o \in Objects |-> IF o = Pointer THEN p ELSE o]
  BY DEF Init, LoadInit
<1>2. stored[Pointer] = p /\ \A a \in Releases : stored[Manifest(a)] = Manifest(a) /\ stored[Archive(a)] = Archive(a)
  BY <1>1, Objects0
<1>3. \A a \in Releases : Manifest(a) \in Versions /\ Archive(a) \in Versions
  BY Objects0, UploadAssumption
<1>4. p # Absent => Names[p] \in Releases \cup {NoRelease}
  BY <1>1, ReleaseAssumption
<1>5. BucketOK
  BY <1>2, <1>3, <1>4, StoreAssumption DEF BucketOK
<1>6. load.step = "none" /\ expired = {} /\ reply = [c \in Callers |-> NoReply]
      /\ result = [f \in Flights |-> Pending] /\ walk = [r \in Readers |-> NoWalk]
  BY DEF Init, LoadInit, DirInit, NoLoad
<1>7. QuietBefore
  BY <1>6 DEF QuietBefore, At
<1>8. LoadReason
  BY <1>6 DEF LoadReason, OnCourse, Underway, At
<1>9. ReadReason
  <2>1. NoWalk.status = 0 /\ NoReply.status = "none" /\ Readers \subseteq Callers
    BY PlanetAssumption DEF NoWalk, Refused, Rest, NoReply
  <2> QED
    BY <1>6, <2>1, DirCacheAssumption DEF ReadReason, At, Intact
<1> QED
  BY <1>5, <1>7, <1>8, <1>9 DEF ReasonInv

LEMMA BucketInvariant ==
  ASSUME PlanetInv, BucketOK, [Next]_vars
  PROVE  BucketOK'
<1>1. OpeningInv /\ WalkInv
  BY DEF PlanetInv
<1>2. CASE stored' = stored
  BY <1>2, SameBucket
<1>3. UNCHANGED vars => stored' = stored
  BY DEF vars, storeVars
<1>4. BeginLoad \/ LoadStep => stored' = stored
  BY DEF BeginLoad, LoadStep, ReadSmallFile, PointerRead, ManifestRead, ArchiveSized, HeaderRead, RootRead,
         LoadBroken, FailLoad, LoadReturns, ReadAt, OpenObject, Begin, worldVars
<1>5. ASSUME NEW c \in Callers, StoreStep(c) \/ Fault(c) PROVE stored' = stored
  BY <1>5 DEF StoreStep, Fault, AnswerHead, AnswerGet, Resume, Cancel, Refuse, Deny, Cut, End, worldVars
<1>6. Deadline => stored' = stored
  BY DEF Deadline, Expire
<1>7. ASSUME NEW r \in Readers, (\E t \in Wanted, copy \in Copies : Ask(r, t, copy)) \/ ReaderStep(r)
      PROVE  stored' = stored
  BY <1>1, <1>7, ReaderLeaves
<1> QED
  BY <1>1, <1>2, <1>3, <1>4, <1>5, <1>6, <1>7, BucketStays DEF Next, Environment

LEMMA ReasonInvariant == PlanetInv /\ PathInv /\ ReasonInv /\ [Next]_vars => PlanetInv' /\ PathInv' /\ ReasonInv'
<1> SUFFICES ASSUME PlanetInv, PathInv, BucketOK, QuietBefore, LoadReason, ReadReason, [Next]_vars
             PROVE  PlanetInv' /\ PathInv' /\ ReasonInv'
  BY DEF ReasonInv
<1>1. PlanetInv' /\ PathInv'
  BY PlanetStep, PathInvariant
<1>2. BucketOK' /\ QuietBefore' /\ LoadReason'
  BY BucketInvariant, QuietInvariant, CourseInvariant
<1>3. ReadReason'
  BY <1>1, <1>2, ReadInvariant
<1> QED
  BY <1>1, <1>2, <1>3 DEF ReasonInv

(* A complete release behind a pointer that stays where it is opens, and   *)
(* its tiles are read, unless attempts were exhausted, a request was cut   *)
(* or refused, an object was removed, or the deadline passed, over         *)
(* archives within the reader's limits as ArchivesHoldTheirTiles says      *)
(* (Client.do, Object.ReadAt, pmtiles.Open, Reader.Tile).                  *)
THEOREM FailuresHaveReasons == Spec => []FailsForAReason
<1>1. ReasonInv => FailsForAReason
  BY DEF ReasonInv, LoadReason, ReadReason, Promising, OnCourse, FailsForAReason
<1> QED
  BY <1>1, PlanetInit, PathStart, ReasonsBegin, ReasonInvariant, PTL DEF Spec

----------------------------------------------------------------------------
(* Archives that Build wrote.                                              *)

(* Every tile that was put into an archive that Open accepts is found      *)
(* there, or refused if it is larger than maxTileSize, and every other id  *)
(* is missing, whatever the tiles and their payloads, the size of leaf     *)
(* directories and the use of run lengths, within the limits that          *)
(* BuildsAssumption names (Build; parseDirectory, find, Tile).             *)
THEOREM BuildsAreRead == Spec => []BuildsAreReadable
<1>1. BuildsAreReadable
  <2> SUFFICES ASSUME NEW b \in Builds, NEW id \in 0..Max(DOMAIN b.tiles) + 2,
                      RootOpens(Build(b.tiles, b.leafSize, b.runLengths))
               PROVE  Lookup(Build(b.tiles, b.leafSize, b.runLengths), id) = Expected(b.tiles, id)
    BY DEF BuildsAreReadable
  <2>0. PICK tiles : tiles = b.tiles
    OBVIOUS
  <2>1. PICK l \in Nat, runLengths \in BOOLEAN :
          l = b.leafSize /\ l <= MaxBlock /\ runLengths = b.runLengths
    BY BuildsAssumption
  <2>2. /\ Payloads(tiles, Nat) /\ DOMAIN tiles # {}
        /\ Fits(Len(TileEntries(tiles, runLengths).es), l, 0)
    <3>1. /\ DOMAIN tiles \subseteq Nat /\ DOMAIN tiles # {} /\ IsFiniteSet(DOMAIN tiles)
          /\ \A i \in DOMAIN tiles : tiles[i] \in Seq(Nat) \ {<<>>} /\ Len(tiles[i]) <= MaxColumn
          /\ Cardinality(DOMAIN tiles) <= MaxColumn
      BY <2>0, BuildsAssumption
    <3>2. l = 0 \/ Len(TileEntries(tiles, runLengths).es) <= ((l * l) * l) * l
      BY <2>0, <2>1, BuildsAssumption
    <3> QED
      BY <3>1, <3>2 DEF Payloads, Fits, Room
  <2>3. id \in Nat
    OBVIOUS
  <2>5. RootOpens(Build(tiles, l, runLengths))
    BY <2>0, <2>1
  <2>4. Lookup(Build(tiles, l, runLengths), id) = Expected(tiles, id)
    BY <2>1, <2>2, <2>3, <2>5, BuiltTilesAreRead
  <2> QED
    BY <2>0, <2>1, <2>4
<1> QED
  BY <1>1, PTL

----------------------------------------------------------------------------
(* Tile ids.  A Hilbert curve is defined by how the curve of a square      *)
(* consists of the curves of its quarters; both loops of tileid.go are     *)
(* shown to follow it.  First the shifts, on which the levels are built.   *)
\* A loop that goes on for as long as one likes: its state after i turns.
Turns(f, D) == \A i \in Nat : f[i + 1] \in [D -> D]
GoesOn(D, start, f) ==
  \E s \in [Nat -> D] : s[0] = start /\ \A i \in Nat : s[i + 1] = f[i + 1][s[i]]

LEMMA Iterates ==
  ASSUME NEW D, NEW start \in D, NEW f, Turns(f, D)
  PROVE  GoesOn(D, start, f)
<1> DEFINE Run(n, t) == /\ t \in [0..n -> D] /\ t[0] = start
                        /\ \A i \in 0..(n - 1) : t[i + 1] = f[i + 1][t[i]]
           T == {n \in Nat : \E t : Run(n, t)}
<1>1. 0 \in T
  <2> DEFINE t == [i \in 0..0 |-> start]
  <2>1. Run(0, t)
    OBVIOUS
  <2> QED
    BY <2>1
<1>2. ASSUME NEW n \in Nat, n \in T PROVE n + 1 \in T
  <2>1. PICK t : Run(n, t)
    BY <1>2
  <2>2. t[n] \in D /\ f[n + 1] \in [D -> D]
    BY <2>1 DEF Turns
  <2>3. PICK d \in D : d = f[n + 1][t[n]]
    BY <2>2
  <2> DEFINE u == [i \in 0..(n + 1) |-> IF i = n + 1 THEN d ELSE t[i]]
  <2>4. u \in [0..(n + 1) -> D] /\ u[0] = start
    BY <2>1, <2>3
  <2>5. ASSUME NEW i \in 0..((n + 1) - 1) PROVE u[i + 1] = f[i + 1][u[i]]
    <3>1. u[i] = t[i]
      OBVIOUS
    <3>2. CASE i = n
      BY <2>3, <3>1, <3>2
    <3>3. CASE i # n
      <4>1. i \in 0..(n - 1) /\ u[i + 1] = t[i + 1]
        BY <3>3
      <4> QED
        BY <2>1, <3>1, <4>1
    <3> QED
      BY <3>2, <3>3
  <2> HIDE DEF u
  <2>6. Run(n + 1, u)
    BY <2>4, <2>5
  <2> QED
    BY <2>6
<1>3. \A n \in Nat : \E t : Run(n, t)
  <2>1. Nat \subseteq T
    <3> HIDE DEF T
    <3> QED
      BY <1>1, <1>2, NatSetInduction
  <2> QED
    BY <2>1
<1> DEFINE r == [n \in Nat |-> CHOOSE t : Run(n, t)]
<1>4. \A n \in Nat : Run(n, r[n])
  BY <1>3
<1> HIDE DEF r
<1>5. ASSUME NEW n \in Nat PROVE \A i \in 0..n : r[n + 1][i] = r[n][i]
  <2> DEFINE U == {i \in Nat : i <= n => r[n + 1][i] = r[n][i]}
  <2>1. 0 \in U
    BY <1>4
  <2>2. ASSUME NEW i \in Nat, i \in U PROVE i + 1 \in U
    <3>1. CASE i + 1 <= n
      <4>1. i \in 0..(n - 1) /\ i \in 0..((n + 1) - 1)
        BY <3>1
      <4>2. r[n][i + 1] = f[i + 1][r[n][i]]
        BY <1>4, <4>1
      <4>3. r[n + 1][i + 1] = f[i + 1][r[n + 1][i]]
        <5>1. n + 1 \in Nat
          OBVIOUS
        <5>2. Run(n + 1, r[n + 1])
          BY <1>4, <5>1
        <5> QED
          BY <4>1, <5>2
      <4> QED
        BY <2>2, <3>1, <4>2, <4>3
    <3> QED
      BY <3>1
  <2>3. Nat \subseteq U
    <3> HIDE DEF U
    <3> QED
      BY <2>1, <2>2, NatSetInduction
  <2> QED
    BY <2>3
<1> DEFINE s == [n \in Nat |-> r[n][n]]
<1>6. s \in [Nat -> D] /\ s[0] = start
  BY <1>4
<1>7. ASSUME NEW i \in Nat PROVE s[i + 1] = f[i + 1][s[i]]
  <2>1. Run(i + 1, r[i + 1])
    BY <1>4
  <2>2. r[i + 1][i + 1] = f[i + 1][r[i + 1][i]]
    BY <2>1
  <2>3. r[i + 1][i] = r[i][i]
    BY <1>5
  <2> QED
    BY <2>2, <2>3
<1> HIDE DEF s
<1> QED
  BY <1>6, <1>7 DEF GoesOn

DoublesTo(s) == s \in [Nat -> Nat] /\ s[0] = 1 /\ \A i \in Nat : s[i + 1] = 2 * s[i]

\* The loop of a shift has the values of a sequence that doubles.
LEMMA ShiftsDouble == \E s : DoublesTo(s) /\ \A k \in Nat : Shl(k) = s[k]
<1> DEFINE f == [i \in Nat |-> [a \in Nat |-> 2 * a]]
<1>1. PICK s \in [Nat -> Nat] : s[0] = 1 /\ \A i \in Nat : s[i + 1] = f[i + 1][s[i]]
  <2>1. PICK D, one : D = Nat /\ one = 1
    OBVIOUS
  <2>2. one \in D /\ Turns(f, D)
    BY <2>1 DEF Turns
  <2> HIDE DEF f
  <2>3. GoesOn(D, one, f)
    BY <2>2, Iterates
  <2> QED
    BY <2>1, <2>3 DEF GoesOn
<1>2. DoublesTo(s)
  <2>1. ASSUME NEW i \in Nat PROVE s[i + 1] = 2 * s[i]
    <3>1. s[i] \in Nat /\ i + 1 \in Nat
      OBVIOUS
    <3> HIDE DEF f
    <3>3. s[i + 1] = f[i + 1][s[i]]
      BY <1>1
    <3> USE DEF f
    <3>2. f[i + 1][s[i]] = 2 * s[i]
      BY <3>1
    <3> QED
      BY <3>2, <3>3
  <2> QED
    BY <1>1, <2>1 DEF DoublesTo
<1>3. ASSUME NEW k \in Nat PROVE Shl(k) = s[k]
  <2> DEFINE Rec(t) == t = [i \in 0..k |-> IF i = 0 THEN 1 ELSE 2 * t[i - 1]]
             g == CHOOSE t : Rec(t)
  <2>1. Rec([i \in 0..k |-> s[i]])
    <3> DEFINE u == [i \in 0..k |-> s[i]]
    <3>1. ASSUME NEW i \in 0..k PROVE u[i] = IF i = 0 THEN 1 ELSE 2 * u[i - 1]
      <4>1. CASE i = 0
        BY <1>2, <4>1 DEF DoublesTo
      <4>2. CASE i # 0
        <5>1. i - 1 \in Nat /\ i - 1 \in 0..k /\ (i - 1) + 1 = i
          BY <4>2
        <5>2. s[i] = 2 * s[i - 1]
          BY <1>2, <5>1 DEF DoublesTo
        <5> QED
          BY <4>2, <5>1, <5>2
      <4> QED
        BY <4>1, <4>2
    <3> QED
      BY <3>1
  <2>2. Rec(g)
    BY <2>1
  <2>3. Shl(k) = g[k]
    BY DEF Shl, Loop
  <2> HIDE DEF g
  <2> DEFINE U == {i \in Nat : i <= k => g[i] = s[i]}
  <2>4. 0 \in U
    BY <1>2, <2>2 DEF DoublesTo
  <2>5. ASSUME NEW i \in Nat, i \in U PROVE i + 1 \in U
    <3>1. CASE i + 1 <= k
      <4>1. i + 1 \in 0..k /\ (i + 1) - 1 = i /\ i + 1 # 0
        BY <3>1
      <4>2. g[i + 1] = 2 * g[i]
        BY <2>2, <4>1
      <4> QED
        BY <1>2, <2>5, <3>1, <4>2 DEF DoublesTo
    <3> QED
      BY <3>1
  <2>6. Nat \subseteq U
    <3> HIDE DEF U
    <3> QED
      BY <2>4, <2>5, NatSetInduction
  <2> QED
    BY <2>3, <2>6
<1> QED
  BY <1>2, <1>3

LEMMA Shifts ==
  /\ Shl(0) = 1
  /\ \A k \in Nat : Shl(k) \in Nat \ {0} /\ Shl(k + 1) = 2 * Shl(k)
<1>1. PICK s : DoublesTo(s) /\ \A k \in Nat : Shl(k) = s[k]
  BY ShiftsDouble
<1>2. \A k \in Nat : Shl(k) \in Nat /\ Shl(k + 1) = 2 * Shl(k)
  BY <1>1 DEF DoublesTo
<1>3. Shl(0) = 1
  BY <1>1 DEF DoublesTo
<1> DEFINE T == {k \in Nat : Shl(k) # 0}
<1>4. 0 \in T
  BY <1>3
<1>5. ASSUME NEW k \in Nat, k \in T PROVE k + 1 \in T
  BY <1>2, <1>5
<1>6. Nat \subseteq T
  <2> HIDE DEF T
  <2> QED
    BY <1>4, <1>5, NatSetInduction
<1> QED
  BY <1>2, <1>3, <1>6

\* The number of tiles of a zoom level.
Area(k) == Shl(2 * k)

LEMMA Areas ==
  /\ Area(0) = 1
  /\ \A k \in Nat : /\ Area(k) \in Nat \ {0} /\ Area(k + 1) = 4 * Area(k)
                    /\ Area(k) = Shl(k) * Shl(k)
<1>1. Area(0) = 1
  BY Shifts DEF Area
<1>2. ASSUME NEW k \in Nat PROVE Area(k) \in Nat \ {0} /\ Area(k + 1) = 4 * Area(k)
  <2>1. 2 * k \in Nat /\ 2 * k + 1 \in Nat /\ 2 * (k + 1) = (2 * k + 1) + 1
    OBVIOUS
  <2>2. PICK m \in Nat : m = 2 * k
    BY <2>1
  <2>3. Shl(m) \in Nat \ {0} /\ Shl(m + 1) = 2 * Shl(m) /\ Shl((m + 1) + 1) = 2 * Shl(m + 1)
    BY Shifts
  <2> QED
    BY <2>1, <2>2, <2>3 DEF Area
<1> DEFINE T == {k \in Nat : Area(k) = Shl(k) * Shl(k)}
<1>3. 0 \in T
  BY <1>1, Shifts
<1>4. ASSUME NEW k \in Nat, k \in T PROVE k + 1 \in T
  <2>1. PICK s \in Nat : s = Shl(k)
    BY Shifts
  <2>2. Area(k + 1) = 4 * (s * s)
    BY <1>2, <1>4, <2>1
  <2>3. Shl(k + 1) = 2 * s
    BY <2>1, Shifts
  <2>4. 4 * (s * s) = (2 * s) * (2 * s)
    OBVIOUS
  <2> QED
    BY <2>2, <2>3, <2>4
<1>5. Nat \subseteq T
  <2> HIDE DEF T
  <2> QED
    BY <1>3, <1>4, NatSetInduction
<1> QED
  BY <1>1, <1>2, <1>5

\* A shift by more is no less.
LEMMA ShiftsGrow ==
  ASSUME NEW k \in Nat, NEW m \in Nat, k <= m
  PROVE  Shl(k) <= Shl(m)
<1> DEFINE T == {j \in Nat : Shl(k) <= Shl(k + j)}
<1>1. 0 \in T
  BY Shifts
<1>2. ASSUME NEW j \in Nat, j \in T PROVE j + 1 \in T
  <2>1. PICK n \in Nat : n = k + j /\ k + (j + 1) = n + 1
    OBVIOUS
  <2>2. Shl(k) <= Shl(n) /\ Shl(n + 1) = 2 * Shl(n) /\ Shl(n) \in Nat /\ Shl(k) \in Nat
    BY <1>2, <2>1, Shifts
  <2>3. Shl(k) <= Shl(n + 1)
    BY <2>2
  <2> QED
    BY <2>1, <2>3
<1>3. Nat \subseteq T
  <2> HIDE DEF T
  <2> QED
    BY <1>1, <1>2, NatSetInduction
<1>4. m - k \in T
  BY <1>3
<1> QED
  BY <1>4

----------------------------------------------------------------------------
(* The ids of the zoom levels follow each other.                           *)

SumsTo(s) == s \in [Nat -> Nat] /\ s[0] = 0 /\ \A i \in Nat : s[i + 1] = s[i] + Area(i)

LEMMA LevelsAdd == \E s : SumsTo(s) /\ \A z \in Nat : Before(z) = s[z]
<1> DEFINE f == [i \in Nat |-> [a \in Nat |-> a + Area(i - 1)]]
<1>0. \A i \in Nat : Area(i) \in Nat
  BY Areas
<1>1. PICK s \in [Nat -> Nat] : s[0] = 0 /\ \A i \in Nat : s[i + 1] = f[i + 1][s[i]]
  <2>1. PICK D, none : D = Nat /\ none = 0
    OBVIOUS
  <2>2. ASSUME NEW i \in Nat PROVE f[i + 1] \in [D -> D]
    <3>1. f[i + 1] = [a \in Nat |-> a + Area(i)]
      OBVIOUS
    <3> QED
      BY <1>0, <2>1, <3>1
  <2>3. none \in D
    BY <2>1
  <2> HIDE DEF f
  <2>4. Turns(f, D)
    BY <2>2 DEF Turns
  <2>5. GoesOn(D, none, f)
    BY <2>3, <2>4, Iterates
  <2> QED
    BY <2>1, <2>5 DEF GoesOn
<1>2. SumsTo(s)
  <2>1. ASSUME NEW i \in Nat PROVE s[i + 1] = s[i] + Area(i)
    <3>1. s[i + 1] = f[i + 1][s[i]] /\ s[i] \in Nat /\ i + 1 \in Nat /\ (i + 1) - 1 = i
      <4> HIDE DEF f
      <4> QED
        BY <1>1
    <3>2. f[i + 1][s[i]] = s[i] + Area((i + 1) - 1)
      BY <3>1
    <3> QED
      BY <3>1, <3>2
  <2> QED
    BY <1>1, <2>1 DEF SumsTo
<1>3. ASSUME NEW k \in Nat PROVE Before(k) = s[k]
  <2> DEFINE Rec(t) == t = [i \in 0..k |-> IF i = 0 THEN 0 ELSE t[i - 1] + Shl(2 * (i - 1))]
             g == CHOOSE t : Rec(t)
  <2>1. Rec([i \in 0..k |-> s[i]])
    <3> DEFINE u == [i \in 0..k |-> s[i]]
    <3>1. ASSUME NEW i \in 0..k PROVE u[i] = IF i = 0 THEN 0 ELSE u[i - 1] + Shl(2 * (i - 1))
      <4>1. CASE i = 0
        BY <1>2, <4>1 DEF SumsTo
      <4>2. CASE i # 0
        <5>1. i - 1 \in Nat /\ i - 1 \in 0..k /\ (i - 1) + 1 = i
          BY <4>2
        <5>2. s[i] = s[i - 1] + Area(i - 1)
          BY <1>2, <5>1 DEF SumsTo
        <5> QED
          BY <4>2, <5>1, <5>2 DEF Area
      <4> QED
        BY <4>1, <4>2
    <3> QED
      BY <3>1
  <2>2. Rec(g)
    BY <2>1
  <2>3. Before(k) = g[k]
    BY DEF Before, Loop
  <2> HIDE DEF g
  <2> DEFINE U == {i \in Nat : i <= k => g[i] = s[i]}
  <2>4. 0 \in U
    BY <1>2, <2>2 DEF SumsTo
  <2>5. ASSUME NEW i \in Nat, i \in U PROVE i + 1 \in U
    <3>1. CASE i + 1 <= k
      <4>1. i + 1 \in 0..k /\ (i + 1) - 1 = i /\ i + 1 # 0
        BY <3>1
      <4>2. g[i + 1] = g[i] + Area(i)
        BY <2>2, <4>1 DEF Area
      <4> QED
        BY <1>2, <2>5, <3>1, <4>2 DEF SumsTo
    <3> QED
      BY <3>1
  <2>6. Nat \subseteq U
    <3> HIDE DEF U
    <3> QED
      BY <2>4, <2>5, NatSetInduction
  <2> QED
    BY <2>3, <2>6
<1> QED
  BY <1>2, <1>3

LEMMA Levels0 ==
  /\ Before(0) = 0
  /\ \A z \in Nat : Before(z) \in Nat /\ Before(z + 1) = Before(z) + Area(z)
  BY LevelsAdd DEF SumsTo

\* A level begins where the ones below it end, and no later than its number.
LEMMA LevelsInOrder ==
  ASSUME NEW z \in Nat, NEW m \in Nat, z < m
  PROVE  Before(z + 1) <= Before(m)
<1> DEFINE T == {j \in Nat : Before(z + 1) <= Before(z + 1 + j)}
<1>1. 0 \in T
  BY Levels0
<1>2. ASSUME NEW j \in Nat, j \in T PROVE j + 1 \in T
  <2>1. PICK n \in Nat : n = z + 1 + j /\ z + 1 + (j + 1) = n + 1
    OBVIOUS
  <2>2. /\ Before(z + 1) <= Before(n) /\ Before(n + 1) = Before(n) + Area(n)
        /\ Before(n) \in Nat /\ Area(n) \in Nat /\ Before(z + 1) \in Nat
    BY <1>2, <2>1, Levels0, Areas
  <2>3. Before(z + 1) <= Before(n + 1)
    BY <2>2
  <2> QED
    BY <2>1, <2>3
<1>3. Nat \subseteq T
  <2> HIDE DEF T
  <2> QED
    BY <1>1, <1>2, NatSetInduction
<1>4. m - (z + 1) \in T
  BY <1>3
<1> QED
  BY <1>4

LEMMA LevelsStartLate ==
  ASSUME NEW z \in Nat
  PROVE  z <= Before(z) /\ 3 * Before(z) + 1 = Area(z)
<1> DEFINE T == {k \in Nat : k <= Before(k) /\ 3 * Before(k) + 1 = Area(k)}
<1>1. 0 \in T
  BY Levels0, Areas
<1>2. ASSUME NEW k \in Nat, k \in T PROVE k + 1 \in T
  <2>1. /\ Before(k + 1) = Before(k) + Area(k) /\ Before(k) \in Nat /\ Area(k) \in Nat \ {0}
        /\ Area(k + 1) = 4 * Area(k)
    BY Levels0, Areas
  <2>2. k <= Before(k) /\ 3 * Before(k) + 1 = Area(k)
    BY <1>2
  <2>3. k + 1 <= Before(k + 1) /\ 3 * Before(k + 1) + 1 = Area(k + 1)
    BY <2>1, <2>2
  <2> QED
    BY <2>3
<1>3. Nat \subseteq T
  <2> HIDE DEF T
  <2> QED
    BY <1>1, <1>2, NatSetInduction
<1> QED
  BY <1>3

----------------------------------------------------------------------------
(* The curve: Curve[k][t] is the place of tile t of a square of 2^k by 2^k *)
(* tiles, which consists of four smaller squares that the curve passes one *)
(* after the other, turned by rotate.                                      *)

Points == Int \X Int

\* Where the point p of a square of side s is in the square that has it as its quarter c.
Placed(s, c, p) ==
  LET rx == (c \div 2) % 2
      ry == (c + rx) % 2
      q  == Rotate(s, p, rx, ry)
  IN <<q[1] + s * rx, q[2] + s * ry>>

IsCurve(C) ==
  /\ C \in [Nat -> [Nat -> Points]]
  /\ \A t \in Nat : C[0][t] = <<0, 0>>
  /\ \A k, t \in Nat : C[k + 1][t] = Placed(Shl(k), t \div Area(k), C[k][t % Area(k)])
Curve == CHOOSE C : IsCurve(C)

\* The four quarters.
LEMMA Quarters ==
  ASSUME NEW s \in Nat, NEW c \in Nat, NEW x \in Int, NEW y \in Int
  PROVE  /\ c % 4 = 0 => Placed(s, c, <<x, y>>) = <<y, x>>
         /\ c % 4 = 1 => Placed(s, c, <<x, y>>) = <<x, y + s>>
         /\ c % 4 = 2 => Placed(s, c, <<x, y>>) = <<x + s, y + s>>
         /\ c % 4 = 3 => Placed(s, c, <<x, y>>) = <<s - 1 - y + s, s - 1 - x>>
<1>1. PICK rx, ry : rx = (c \div 2) % 2 /\ ry = (c + rx) % 2
  OBVIOUS
<1>2. Placed(s, c, <<x, y>>) = <<Rotate(s, <<x, y>>, rx, ry)[1] + s * rx,
                              Rotate(s, <<x, y>>, rx, ry)[2] + s * ry>>
  BY <1>1 DEF Placed
<1>3. /\ c % 4 = 0 => rx = 0 /\ ry = 0
      /\ c % 4 = 1 => rx = 0 /\ ry = 1
      /\ c % 4 = 2 => rx = 1 /\ ry = 1
      /\ c % 4 = 3 => rx = 1 /\ ry = 0
  BY <1>1
<1>4. CASE rx = 0 /\ ry = 0
  <2>1. Rotate(s, <<x, y>>, rx, ry) = <<y, x>>
    BY <1>4 DEF Rotate
  <2> QED
    BY <1>2, <1>3, <1>4, <2>1
<1>5. CASE rx = 0 /\ ry = 1
  <2>1. Rotate(s, <<x, y>>, rx, ry) = <<x, y>>
    BY <1>5 DEF Rotate
  <2> QED
    BY <1>2, <1>3, <1>5, <2>1
<1>6. CASE rx = 1 /\ ry = 1
  <2>1. Rotate(s, <<x, y>>, rx, ry) = <<x, y>>
    BY <1>6 DEF Rotate
  <2> QED
    BY <1>2, <1>3, <1>6, <2>1
<1>7. CASE rx = 1 /\ ry = 0
  <2>1. Rotate(s, <<x, y>>, rx, ry) = <<s - 1 - y, s - 1 - x>>
    BY <1>7 DEF Rotate
  <2> QED
    BY <1>2, <1>3, <1>7, <2>1
<1>8. c % 4 \in 0..3
  OBVIOUS
<1> QED
  BY <1>3, <1>4, <1>5, <1>6, <1>7, <1>8

LEMMA PlacedTyped ==
  ASSUME NEW s \in Nat, NEW c \in Nat, NEW p \in Points
  PROVE  Placed(s, c, p) \in Points
<1>1. PICK x \in Int, y \in Int : p = <<x, y>>
  BY DEF Points
<1>2. c % 4 \in {0, 1, 2, 3}
  OBVIOUS
<1> QED
  BY <1>1, <1>2, Quarters DEF Points

LEMMA Quotients ==
  ASSUME NEW a \in Nat, NEW l \in Nat \ {0}
  PROVE  a \div l \in Nat /\ a % l \in 0..(l - 1) /\ a = (a \div l) * l + (a % l)
  OBVIOUS

LEMMA CurveExists == \E C : IsCurve(C)
<1> DEFINE D == [Nat -> Points]
           zero == [t \in Nat |-> <<0, 0>>]
           f == [i \in Nat |-> [g \in D |->
                  [t \in Nat |-> Placed(Shl(i - 1), t \div Area(i - 1), g[t % Area(i - 1)])]]]
<1>1. zero \in D
  BY DEF Points
<1>2. ASSUME NEW k \in Nat, NEW g \in D
      PROVE  /\ f[k + 1][g] \in D
             /\ \A t \in Nat : f[k + 1][g][t] = Placed(Shl(k), t \div Area(k), g[t % Area(k)])
  <2>1. PICK m, a : m = Shl(k) /\ a = Area(k) /\ m \in Nat /\ a \in Nat \ {0}
    BY Shifts, Areas
  <2>2. ASSUME NEW t \in Nat PROVE Placed(m, t \div a, g[t % a]) \in Points
    <3>1. t \div a \in Nat /\ t % a \in Nat
      <4>1. a \in Nat \ {0}
        BY <2>1
      <4>2. t \div a \in Nat /\ t % a \in 0..(a - 1)
        BY <4>1, Quotients
      <4> QED
        BY <4>1, <4>2
    <3> QED
      BY <2>1, <3>1, PlacedTyped
  <2>3. f[k + 1][g] = [t \in Nat |-> Placed(m, t \div a, g[t % a])]
    <3>1. k + 1 \in Nat /\ (k + 1) - 1 = k
      OBVIOUS
    <3>2. f[k + 1] = [h \in D |-> [t \in Nat |-> Placed(Shl((k + 1) - 1), t \div Area((k + 1) - 1),
                                                     h[t % Area((k + 1) - 1)])]]
      BY <3>1
    <3> QED
      BY <2>1, <3>1, <3>2
  <2> HIDE DEF f
  <2> QED
    BY <2>1, <2>2, <2>3
<1>3. \A k \in Nat : f[k + 1] \in [D -> D]
  <2>1. ASSUME NEW k \in Nat PROVE f[k + 1] = [g \in D |-> f[k + 1][g]]
    <3>1. k + 1 \in Nat
      OBVIOUS
    <3> QED
      BY <3>1
  <2> HIDE DEF f, D
  <2> QED
    BY <1>2, <2>1
<1> HIDE DEF f, zero
<1>4. Turns(f, D)
  BY <1>3 DEF Turns
<1>5. GoesOn(D, zero, f)
  <2> HIDE DEF D
  <2> QED
    BY <1>1, <1>4, Iterates
<1>6. PICK C \in [Nat -> D] : C[0] = zero /\ \A k \in Nat : C[k + 1] = f[k + 1][C[k]]
  BY <1>5 DEF GoesOn
<1>7. \A t \in Nat : C[0][t] = <<0, 0>>
  BY <1>6 DEF zero
<1>8. ASSUME NEW k \in Nat, NEW t \in Nat
      PROVE  C[k + 1][t] = Placed(Shl(k), t \div Area(k), C[k][t % Area(k)])
  <2>1. PICK g \in D : g = C[k]
    BY <1>6
  <2>2. C[k + 1] = f[k + 1][g]
    BY <1>6, <2>1
  <2> HIDE DEF D
  <2> QED
    BY <1>2, <2>1, <2>2
<1>9. IsCurve(C)
  BY <1>6, <1>7, <1>8 DEF IsCurve
<1> QED
  BY <1>9

LEMMA CurveIs == IsCurve(Curve)
  BY CurveExists DEF Curve

LEMMA Digits ==
  ASSUME NEW a \in Nat \ {0}, NEW c \in Nat, NEW u \in 0..(a - 1)
  PROVE  c * a + u \in Nat /\ (c * a + u) \div a = c /\ (c * a + u) % a = u
<1>1. PICK t \in Nat : t = c * a + u
  OBVIOUS
<1>2. PICK q \in Nat, r \in 0..(a - 1) : q = t \div a /\ r = t % a /\ t = q * a + r
  BY Quotients
<1>3. q = c
  <2>1. q * a + r = c * a + u
    BY <1>1, <1>2
  <2>2. CASE q < c
    <3>1. q + 1 <= c
      BY <2>2
    <3>2. (q + 1) * a <= c * a /\ (q + 1) * a = q * a + a
      BY <3>1
    <3>3. q * a \in Nat /\ c * a \in Nat
      OBVIOUS
    <3> QED
      BY <2>1, <3>2, <3>3
  <2>3. CASE q > c
    <3>1. c + 1 <= q
      BY <2>3
    <3>2. (c + 1) * a <= q * a /\ (c + 1) * a = c * a + a
      BY <3>1
    <3>3. q * a \in Nat /\ c * a \in Nat
      OBVIOUS
    <3> QED
      BY <2>1, <3>2, <3>3
  <2> QED
    BY <2>2, <2>3
<1>4. r = u
  BY <1>1, <1>2, <1>3
<1> QED
  BY <1>1, <1>2, <1>3, <1>4

LEMMA CurveStep ==
  ASSUME NEW k \in Nat, NEW c \in Nat, NEW u \in 0..(Area(k) - 1)
  PROVE  Curve[k + 1][c * Area(k) + u] = Placed(Shl(k), c, Curve[k][u])
<1>1. PICK a \in Nat \ {0} : a = Area(k)
  BY Areas
<1>2. c * a + u \in Nat /\ (c * a + u) \div a = c /\ (c * a + u) % a = u
  BY <1>1, Digits
<1>3. \A t \in Nat : Curve[k + 1][t] = Placed(Shl(k), t \div a, Curve[k][t % a])
  BY <1>1, CurveIs DEF IsCurve
<1> QED
  BY <1>1, <1>2, <1>3

\* A number below the area of a square tells the quarter it is in, and the place in there.
LEMMA Quartered ==
  ASSUME NEW k \in Nat, NEW t \in 0..(Area(k + 1) - 1)
  PROVE  \E c \in 0..3, u \in 0..(Area(k) - 1) : t = c * Area(k) + u
<1>1. PICK a \in Nat \ {0} : a = Area(k) /\ Area(k + 1) = 4 * a
  BY Areas
<1>2. t \in Nat /\ t < 4 * a
  BY <1>1
<1>3. PICK q \in Nat, r \in 0..(a - 1) : t = q * a + r
  BY <1>2, Quotients
<1>4. q < 4
  <2>1. CASE q >= 4
    <3>1. q * a >= 4 * a
      BY <2>1
    <3>2. q * a \in Nat
      OBVIOUS
    <3> QED
      BY <1>2, <1>3, <3>1, <3>2
  <2> QED
    BY <2>1
<1>5. q \in 0..3 /\ r \in 0..(Area(k) - 1)
  BY <1>1, <1>4
<1>6. t = q * Area(k) + r
  BY <1>1, <1>3
<1> QED
  BY <1>5, <1>6

\* A number of a square, the quarter it is in and the point that the curve has there.
LEMMA QuarterOf ==
  ASSUME NEW k \in Nat, NEW t \in 0..(Area(k + 1) - 1)
  PROVE  \E c \in 0..3, u \in 0..(Area(k) - 1), x, y \in Int :
           /\ t = c * Area(k) + u /\ Curve[k][u] = <<x, y>>
           /\ c = 0 => Curve[k + 1][t] = <<y, x>>
           /\ c = 1 => Curve[k + 1][t] = <<x, y + Shl(k)>>
           /\ c = 2 => Curve[k + 1][t] = <<x + Shl(k), y + Shl(k)>>
           /\ c = 3 => Curve[k + 1][t] = <<Shl(k) - 1 - y + Shl(k), Shl(k) - 1 - x>>
<1>1. PICK c \in 0..3, u \in 0..(Area(k) - 1) : t = c * Area(k) + u
  BY Quartered
<1>2. PICK x \in Int, y \in Int : Curve[k][u] = <<x, y>>
  <2>1. u \in Nat
    BY Areas
  <2>2. Curve[k][u] \in Points
    BY <2>1, CurveIs DEF IsCurve
  <2> QED
    BY <2>2 DEF Points
<1>3. Curve[k + 1][t] = Placed(Shl(k), c, <<x, y>>)
  BY <1>1, <1>2, CurveStep
<1>4. PICK s \in Nat : s = Shl(k)
  BY Shifts
<1>5. c \in Nat /\ c % 4 = c
  OBVIOUS
<1>6. /\ c % 4 = 0 => Placed(s, c, <<x, y>>) = <<y, x>>
      /\ c % 4 = 1 => Placed(s, c, <<x, y>>) = <<x, y + s>>
      /\ c % 4 = 2 => Placed(s, c, <<x, y>>) = <<x + s, y + s>>
      /\ c % 4 = 3 => Placed(s, c, <<x, y>>) = <<s - 1 - y + s, s - 1 - x>>
  BY <1>5, Quarters
<1> QED
  BY <1>1, <1>2, <1>3, <1>4, <1>5, <1>6

\* Where the point <<v, w>> of quarter c is in the square.
Turned(s, c, v, w, x, y) ==
  /\ c = 0 => x = w /\ y = v
  /\ c = 1 => x = v /\ y = w + s
  /\ c = 2 => x = v + s /\ y = w + s
  /\ c = 3 => x = s - 1 - w + s /\ y = s - 1 - v

\* The same with the numbers: t, x and y from u, v and w.
InQuarter(s, a, c, u, v, w, t, x, y) == t = c * a + u /\ Turned(s, c, v, w, x, y)

\* On the square of level k the curve has <<x, y>> at t.
OnCurve(k, t, x, y) == x \in Int /\ y \in Int /\ Curve[k][t] = <<x, y>>

LEMMA HasPoint ==
  ASSUME NEW k \in Nat, NEW t \in Nat
  PROVE  \E x, y \in Int : OnCurve(k, t, x, y)
<1>1. Curve[k][t] \in Points
  BY CurveIs DEF IsCurve
<1> QED
  BY <1>1 DEF Points, OnCurve

LEMMA PointBelow ==
  ASSUME NEW k \in Nat, NEW t \in 0..(Area(k + 1) - 1), NEW x, NEW y, OnCurve(k + 1, t, x, y)
  PROVE  \E c \in 0..3, u \in 0..(Area(k) - 1), v, w \in Int :
           OnCurve(k, u, v, w) /\ InQuarter(Shl(k), Area(k), c, u, v, w, t, x, y)
<1>1. PICK c \in 0..3, u \in 0..(Area(k) - 1), v \in Int, w \in Int :
        /\ t = c * Area(k) + u /\ Curve[k][u] = <<v, w>>
        /\ c = 0 => Curve[k + 1][t] = <<w, v>>
        /\ c = 1 => Curve[k + 1][t] = <<v, w + Shl(k)>>
        /\ c = 2 => Curve[k + 1][t] = <<v + Shl(k), w + Shl(k)>>
        /\ c = 3 => Curve[k + 1][t] = <<Shl(k) - 1 - w + Shl(k), Shl(k) - 1 - v>>
  BY QuarterOf
<1>2. Curve[k + 1][t] = <<x, y>>
  BY DEF OnCurve
<1>3. OnCurve(k, u, v, w)
  BY <1>1 DEF OnCurve
<1>4. InQuarter(Shl(k), Area(k), c, u, v, w, t, x, y)
  BY <1>1, <1>2 DEF InQuarter, Turned
<1> QED
  BY <1>3, <1>4

LEMMA PointAbove ==
  ASSUME NEW k \in Nat, NEW c \in 0..3, NEW u \in 0..(Area(k) - 1), NEW v, NEW w, OnCurve(k, u, v, w),
         NEW t, NEW x, NEW y, InQuarter(Shl(k), Area(k), c, u, v, w, t, x, y)
  PROVE  OnCurve(k + 1, t, x, y)
<1>1. PICK s \in Nat : s = Shl(k)
  BY Shifts
<1>2. v \in Int /\ w \in Int /\ Curve[k][u] = <<v, w>>
  BY DEF OnCurve
<1>3. Curve[k + 1][c * Area(k) + u] = Placed(s, c, <<v, w>>)
  BY <1>1, <1>2, CurveStep
<1>4. c \in Nat /\ c % 4 = c
  OBVIOUS
<1>5. /\ c = 0 => Placed(s, c, <<v, w>>) = <<w, v>>
      /\ c = 1 => Placed(s, c, <<v, w>>) = <<v, w + s>>
      /\ c = 2 => Placed(s, c, <<v, w>>) = <<v + s, w + s>>
      /\ c = 3 => Placed(s, c, <<v, w>>) = <<s - 1 - w + s, s - 1 - v>>
  BY <1>2, <1>4, Quarters
<1>6. x \in Int /\ y \in Int /\ t = c * Area(k) + u
  BY <1>1, <1>2 DEF InQuarter, Turned
<1>7. Placed(s, c, <<v, w>>) = <<x, y>>
  BY <1>1, <1>5 DEF InQuarter, Turned
<1> QED
  BY <1>3, <1>6, <1>7 DEF OnCurve

\* The curve stays in the square.
Within(k) == \A t \in 0..(Area(k) - 1) : \A x, y :
               OnCurve(k, t, x, y) => x \in 0..(Shl(k) - 1) /\ y \in 0..(Shl(k) - 1)

LEMMA StaysInSquare == \A k \in Nat : Within(k)
<1> DEFINE T == {k \in Nat : Within(k)}
<1>1. 0 \in T
  <2> SUFFICES ASSUME NEW t \in 0..(Area(0) - 1), NEW x, NEW y, OnCurve(0, t, x, y)
               PROVE  x \in 0..(Shl(0) - 1) /\ y \in 0..(Shl(0) - 1)
    BY DEF Within
  <2>1. t = 0 /\ Shl(0) = 1
    BY Areas, Shifts
  <2>2. Curve[0][0] = <<0, 0>>
    BY CurveIs DEF IsCurve
  <2>3. x = 0 /\ y = 0
    BY <2>1, <2>2 DEF OnCurve
  <2> QED
    BY <2>1, <2>3
<1>2. ASSUME NEW k \in Nat, k \in T PROVE k + 1 \in T
  <2> SUFFICES ASSUME NEW t \in 0..(Area(k + 1) - 1), NEW x, NEW y, OnCurve(k + 1, t, x, y)
               PROVE  x \in 0..(Shl(k + 1) - 1) /\ y \in 0..(Shl(k + 1) - 1)
    BY DEF Within
  <2>1. PICK s \in Nat, a \in Nat : s = Shl(k) /\ a = Area(k) /\ Shl(k + 1) = 2 * s
    BY Shifts, Areas
  <2>2. PICK c \in 0..3, u \in 0..(Area(k) - 1), v \in Int, w \in Int :
          OnCurve(k, u, v, w) /\ InQuarter(s, a, c, u, v, w, t, x, y)
    BY <2>1, PointBelow
  <2>3. v \in 0..(s - 1) /\ w \in 0..(s - 1)
    BY <1>2, <2>1, <2>2 DEF Within
  <2>4. \/ c = 0 /\ x = w /\ y = v
        \/ c = 1 /\ x = v /\ y = w + s
        \/ c = 2 /\ x = v + s /\ y = w + s
        \/ c = 3 /\ x = s - 1 - w + s /\ y = s - 1 - v
    BY <2>2 DEF InQuarter, Turned
  <2>5. x \in 0..(2 * s - 1) /\ y \in 0..(2 * s - 1)
    BY <2>3, <2>4
  <2> QED
    BY <2>1, <2>5
<1>3. Nat \subseteq T
  <2> HIDE DEF T
  <2> QED
    BY <1>1, <1>2, NatSetInduction
<1> QED
  BY <1>3

\* The curve comes to no point twice.
NoneTwice(k) == \A t, q \in 0..(Area(k) - 1) : \A x, y : OnCurve(k, t, x, y) /\ OnCurve(k, q, x, y) => t = q

LEMMA ComesOnce == \A k \in Nat : NoneTwice(k)
<1> DEFINE T == {k \in Nat : NoneTwice(k)}
<1>1. 0 \in T
  BY Areas DEF NoneTwice
<1>2. ASSUME NEW k \in Nat, k \in T PROVE k + 1 \in T
  <2> SUFFICES ASSUME NEW t \in 0..(Area(k + 1) - 1), NEW q \in 0..(Area(k + 1) - 1), NEW x, NEW y,
                      OnCurve(k + 1, t, x, y), OnCurve(k + 1, q, x, y)
               PROVE  t = q
    BY DEF NoneTwice
  <2>1. PICK s \in Nat, a \in Nat : s = Shl(k) /\ a = Area(k)
    BY Shifts, Areas
  <2>2. PICK c \in 0..3, u \in 0..(Area(k) - 1), v \in Int, w \in Int :
          OnCurve(k, u, v, w) /\ InQuarter(s, a, c, u, v, w, t, x, y)
    BY <2>1, PointBelow
  <2>3. PICK d \in 0..3, m \in 0..(Area(k) - 1), i \in Int, j \in Int :
          OnCurve(k, m, i, j) /\ InQuarter(s, a, d, m, i, j, q, x, y)
    BY <2>1, PointBelow
  <2>4. v \in 0..(s - 1) /\ w \in 0..(s - 1) /\ i \in 0..(s - 1) /\ j \in 0..(s - 1)
    BY <2>1, <2>2, <2>3, StaysInSquare DEF Within
  <2>5. \/ c = 0 /\ x = w /\ y = v
        \/ c = 1 /\ x = v /\ y = w + s
        \/ c = 2 /\ x = v + s /\ y = w + s
        \/ c = 3 /\ x = s - 1 - w + s /\ y = s - 1 - v
    BY <2>2 DEF InQuarter, Turned
  <2>6. \/ d = 0 /\ x = j /\ y = i
        \/ d = 1 /\ x = i /\ y = j + s
        \/ d = 2 /\ x = i + s /\ y = j + s
        \/ d = 3 /\ x = s - 1 - j + s /\ y = s - 1 - i
    BY <2>3 DEF InQuarter, Turned
  <2>7. c = d /\ v = i /\ w = j
    BY <2>4, <2>5, <2>6
  <2>8. u = m
    BY <1>2, <2>2, <2>3, <2>7 DEF NoneTwice
  <2> QED
    BY <2>2, <2>3, <2>7, <2>8 DEF InQuarter, Turned
<1>3. Nat \subseteq T
  <2> HIDE DEF T
  <2> QED
    BY <1>1, <1>2, NatSetInduction
<1> QED
  BY <1>3

\* The curve goes from corner to corner.
Ends(k) == OnCurve(k, 0, 0, 0) /\ OnCurve(k, Area(k) - 1, Shl(k) - 1, 0)

LEMMA CornerToCorner == \A k \in Nat : Ends(k)
<1> DEFINE T == {k \in Nat : Ends(k)}
<1>1. 0 \in T
  <2>1. Area(0) = 1 /\ Shl(0) = 1
    BY Areas, Shifts
  <2>2. OnCurve(0, 0, 0, 0)
    BY CurveIs DEF IsCurve, OnCurve
  <2> QED
    BY <2>1, <2>2 DEF Ends
<1>2. ASSUME NEW k \in Nat, k \in T PROVE k + 1 \in T
  <2>1. PICK s \in Nat \ {0}, a \in Nat \ {0} :
          s = Shl(k) /\ a = Area(k) /\ Shl(k + 1) = 2 * s /\ Area(k + 1) = 4 * a
    BY Shifts, Areas
  <2>2. OnCurve(k, 0, 0, 0) /\ OnCurve(k, a - 1, s - 1, 0)
    BY <1>2, <2>1 DEF Ends
  <2>3. 0 \in 0..(a - 1) /\ a - 1 \in 0..(a - 1)
    BY <2>1
  <2>4. InQuarter(s, a, 0, 0, 0, 0, 0, 0, 0)
    BY <2>1 DEF InQuarter, Turned
  <2>5. InQuarter(s, a, 3, a - 1, s - 1, 0, 4 * a - 1, 2 * s - 1, 0)
    BY <2>1 DEF InQuarter, Turned
  <2>6. OnCurve(k + 1, 0, 0, 0)
    BY <2>1, <2>2, <2>3, <2>4, PointAbove
  <2>7. OnCurve(k + 1, 4 * a - 1, 2 * s - 1, 0)
    BY <2>1, <2>2, <2>3, <2>5, PointAbove
  <2> QED
    BY <2>1, <2>6, <2>7 DEF Ends
<1>3. Nat \subseteq T
  <2> HIDE DEF T
  <2> QED
    BY <1>1, <1>2, NatSetInduction
<1> QED
  BY <1>3

\* Neighbours on the curve are neighbours in the square.
Apart(a, b) == IF a <= b THEN b - a ELSE a - b
Adjacent(k) ==
  \A t \in Nat : t + 1 < Area(k) =>
    \A x, y, v, w : OnCurve(k, t, x, y) /\ OnCurve(k, t + 1, v, w) => Apart(x, v) + Apart(y, w) = 1

LEMMA GoesToNeighbours == \A k \in Nat : Adjacent(k)
<1> DEFINE T == {k \in Nat : Adjacent(k)}
<1>1. 0 \in T
  BY Areas DEF Adjacent
<1>2. ASSUME NEW k \in Nat, k \in T PROVE k + 1 \in T
  <2> SUFFICES ASSUME NEW t \in Nat, t + 1 < Area(k + 1), NEW x, NEW y, NEW xx, NEW yy,
                      OnCurve(k + 1, t, x, y), OnCurve(k + 1, t + 1, xx, yy)
               PROVE  Apart(x, xx) + Apart(y, yy) = 1
    BY DEF Adjacent
  <2>1. PICK s \in Nat \ {0}, a \in Nat \ {0} : s = Shl(k) /\ a = Area(k) /\ Area(k + 1) = 4 * a
    BY Shifts, Areas
  <2>2. t \in 0..(Area(k + 1) - 1) /\ t + 1 \in 0..(Area(k + 1) - 1)
    BY <2>1
  <2>3. PICK c \in 0..3, u \in 0..(a - 1), v \in Int, w \in Int :
          OnCurve(k, u, v, w) /\ InQuarter(s, a, c, u, v, w, t, x, y)
    BY <2>1, <2>2, PointBelow
  <2>4. PICK d \in 0..3, m \in 0..(a - 1), i \in Int, j \in Int :
          OnCurve(k, m, i, j) /\ InQuarter(s, a, d, m, i, j, t + 1, xx, yy)
    BY <2>1, <2>2, PointBelow
  <2>5. \/ c = 0 /\ x = w /\ y = v
        \/ c = 1 /\ x = v /\ y = w + s
        \/ c = 2 /\ x = v + s /\ y = w + s
        \/ c = 3 /\ x = s - 1 - w + s /\ y = s - 1 - v
    BY <2>3 DEF InQuarter, Turned
  <2>6. \/ d = 0 /\ xx = j /\ yy = i
        \/ d = 1 /\ xx = i /\ yy = j + s
        \/ d = 2 /\ xx = i + s /\ yy = j + s
        \/ d = 3 /\ xx = s - 1 - j + s /\ yy = s - 1 - i
    BY <2>4 DEF InQuarter, Turned
  <2>7. \/ c = d /\ m = u + 1
        \/ d = c + 1 /\ u = a - 1 /\ m = 0
    <3>1. c * a + u + 1 = d * a + m
      BY <2>3, <2>4 DEF InQuarter, Turned
    <3>2. PICK e \in 0..a : e = u + 1
      OBVIOUS
    <3>3. c * a + e = d * a + m
      BY <3>1, <3>2
    <3>4. /\ c = 0 \/ c = 1 \/ c = 2 \/ c = 3
          /\ d = 0 \/ d = 1 \/ d = 2 \/ d = 3
      OBVIOUS
    <3>5. d = c \/ d = c + 1 \/ d >= c + 2 \/ d < c
      BY <3>4
    <3> QED
      BY <3>2, <3>3, <3>4
  <2>8. CASE c = d /\ m = u + 1
    <3>1. Apart(v, i) + Apart(w, j) = 1
      <4>1. u \in Nat /\ u + 1 < Area(k)
        BY <2>1, <2>8
      <4> QED
        BY <1>2, <2>3, <2>4, <2>8, <4>1 DEF Adjacent
    <3> QED
      BY <2>5, <2>6, <2>8, <3>1 DEF Apart
  <2>9. CASE d = c + 1 /\ u = a - 1 /\ m = 0
    <3>1. OnCurve(k, 0, 0, 0) /\ OnCurve(k, a - 1, s - 1, 0)
      BY <2>1, CornerToCorner DEF Ends
    <3>2. v = s - 1 /\ w = 0 /\ i = 0 /\ j = 0
      BY <2>3, <2>4, <2>9, <3>1 DEF OnCurve
    <3> QED
      BY <2>5, <2>6, <2>9, <3>2 DEF Apart
  <2> QED
    BY <2>7, <2>8, <2>9
<1>3. Nat \subseteq T
  <2> HIDE DEF T
  <2> QED
    BY <1>1, <1>2, NatSetInduction
<1> QED
  BY <1>3

----------------------------------------------------------------------------
(* IDToZXY follows the curve.                                              *)

LEMMA PlacedDigit ==
  ASSUME NEW s \in Nat, NEW c \in Nat, NEW p \in Points
  PROVE  Placed(s, c % 4, p) = Placed(s, c, p)
<1>1. PICK x \in Int, y \in Int : p = <<x, y>>
  BY DEF Points
<1>2. PICK e \in Nat : e = c % 4 /\ e \in 0..3 /\ e % 4 = e
  OBVIOUS
<1>3. /\ e = 0 => Placed(s, c, <<x, y>>) = <<y, x>>
      /\ e = 1 => Placed(s, c, <<x, y>>) = <<x, y + s>>
      /\ e = 2 => Placed(s, c, <<x, y>>) = <<x + s, y + s>>
      /\ e = 3 => Placed(s, c, <<x, y>>) = <<s - 1 - y + s, s - 1 - x>>
  BY <1>2, Quarters
<1>4. /\ e = 0 => Placed(s, e, <<x, y>>) = <<y, x>>
      /\ e = 1 => Placed(s, e, <<x, y>>) = <<x, y + s>>
      /\ e = 2 => Placed(s, e, <<x, y>>) = <<x + s, y + s>>
      /\ e = 3 => Placed(s, e, <<x, y>>) = <<s - 1 - y + s, s - 1 - x>>
  BY <1>2, Quarters
<1> QED
  BY <1>1, <1>2, <1>3, <1>4

LEMMA NextDigit ==
  ASSUME NEW a \in Nat \ {0}, NEW t \in Nat
  PROVE  /\ (t % (4 * a)) % a = t % a
         /\ (t % (4 * a)) \div a = (t \div a) % 4
         /\ t \div (4 * a) = (t \div a) \div 4
<1>1. PICK q \in Nat, r \in 0..(a - 1) : q = t \div a /\ r = t % a /\ t = q * a + r
  BY Quotients
<1>2. PICK e \in Nat, f \in 0..3 : e = q \div 4 /\ f = q % 4 /\ q = 4 * e + f
  OBVIOUS
<1>3. PICK b \in Nat \ {0}, m \in Nat : b = 4 * a /\ m = f * a + r
  OBVIOUS
<1>4. m \in 0..(b - 1)
  <2>1. f = 0 \/ f = 1 \/ f = 2 \/ f = 3
    OBVIOUS
  <2> QED
    BY <1>3, <2>1
<1>5. t = e * b + m
  <2>1. q * a = (4 * e + f) * a
    BY <1>2
  <2>2. (4 * e + f) * a = e * (4 * a) + f * a
    OBVIOUS
  <2>3. e * b = e * (4 * a)
    BY <1>3
  <2>4. f * a \in Nat /\ e * b \in Nat
    OBVIOUS
  <2> QED
    BY <1>1, <1>3, <2>1, <2>2, <2>3, <2>4
<1>6. (e * b + m) \div b = e /\ (e * b + m) % b = m
  BY <1>4, Digits
<1>7. f \in Nat /\ (f * a + r) \div a = f /\ (f * a + r) % a = r
  BY Digits
<1> QED
  BY <1>1, <1>2, <1>3, <1>5, <1>6, <1>7

PlaceTurn(a, i) == [at |-> Placed(Shl(i - 1), a.t, a.at), t |-> a.t \div 4]

\* The loop of IDToZXY, from the number t of a tile in its level.
PlaceLoop(z, t) == Loop(PlaceTurn, [at |-> <<0, 0>>, t |-> t], z)

LEMMA PlaceGoesOn ==
  ASSUME NEW k \in Nat, NEW t \in Nat
  PROVE  /\ Curve[k + 1][t % Area(k + 1)] = Placed(Shl(k), t \div Area(k), Curve[k][t % Area(k)])
         /\ t \div Area(k + 1) = (t \div Area(k)) \div 4
<1>1. PICK a \in Nat \ {0}, s \in Nat : a = Area(k) /\ 4 * a = Area(k + 1) /\ s = Shl(k)
  BY Areas, Shifts
<1>2. PICK b \in Nat \ {0} : b = 4 * a
  OBVIOUS
<1>3. t % b \in Nat /\ t % a \in Nat /\ t \div a \in Nat
  <2>1. t % b \in 0..(b - 1) /\ t % a \in 0..(a - 1) /\ t \div a \in Nat
    BY Quotients
  <2> QED
    BY <2>1
<1>4. (t % b) % a = t % a /\ (t % b) \div a = (t \div a) % 4 /\ t \div b = (t \div a) \div 4
  BY <1>2, NextDigit
<1>5. PICK p \in Points : p = Curve[k][t % a]
  BY <1>3, CurveIs DEF IsCurve
<1>6. Curve[k + 1][t % b] = Placed(s, (t % b) \div a, Curve[k][(t % b) % a])
  BY <1>1, <1>3, CurveIs DEF IsCurve
<1>7. Placed(s, (t \div a) % 4, p) = Placed(s, t \div a, p)
  BY <1>3, PlacedDigit
<1> QED
  BY <1>1, <1>2, <1>4, <1>5, <1>6, <1>7

LEMMA PlacesFollowCurve ==
  ASSUME NEW z \in Nat, NEW t \in 0..(Area(z) - 1)
  PROVE  PlaceLoop(z, t).at = Curve[z][t]
<1> DEFINE start == [at |-> <<0, 0>>, t |-> t]
           Rec(g) == g = [i \in 0..z |-> IF i = 0 THEN start ELSE PlaceTurn(g[i - 1], i)]
           u == [i \in 0..z |-> [at |-> Curve[i][t % Area(i)], t |-> t \div Area(i)]]
           g0 == CHOOSE g : Rec(g)
<1>0. t \in Nat /\ Area(z) \in Nat \ {0}
  BY Areas
<1>1. ASSUME NEW i \in 0..z PROVE u[i] = IF i = 0 THEN start ELSE PlaceTurn(u[i - 1], i)
  <2>1. CASE i = 0
    <3>1. Area(0) = 1 /\ t % 1 = 0 /\ t \div 1 = t
      BY <1>0, Areas
    <3>2. Curve[0][0] = <<0, 0>>
      BY CurveIs DEF IsCurve
    <3>3. u[0] = [at |-> Curve[0][t % Area(0)], t |-> t \div Area(0)]
      OBVIOUS
    <3> QED
      BY <2>1, <3>1, <3>2, <3>3
  <2>2. CASE i # 0
    <3>1. PICK k \in Nat : k = i - 1 /\ i = k + 1 /\ k \in 0..z
      BY <2>2
    <3>2. PICK c, p : c = t \div Area(k) /\ p = Curve[k][t % Area(k)]
      OBVIOUS
    <3>3. u[k] = [at |-> p, t |-> c]
      BY <3>1, <3>2
    <3>4. Curve[i][t % Area(i)] = Placed(Shl(k), c, p) /\ t \div Area(i) = c \div 4
      BY <1>0, <3>1, <3>2, PlaceGoesOn
    <3>5. u[i] = [at |-> Placed(Shl(k), c, p), t |-> c \div 4]
      BY <3>4
    <3>6. PlaceTurn(u[k], i) = [at |-> Placed(Shl(k), c, p), t |-> c \div 4]
      <4> HIDE DEF u
      <4> QED
        BY <3>1, <3>3 DEF PlaceTurn
    <3> QED
      BY <2>2, <3>1, <3>5, <3>6
  <2> QED
    BY <2>1, <2>2
<1>2. Rec(u)
  <2>1. u = [i \in 0..z |-> u[i]]
    OBVIOUS
  <2> HIDE DEF u, start
  <2> QED
    BY <1>1, <2>1
<1>3. Rec(g0)
  <2> HIDE DEF u, start
  <2> QED
    BY <1>2
<1>4. PlaceLoop(z, t) = g0[z]
  BY DEF PlaceLoop, Loop
<1>5. u[z].at = Curve[z][t]
  <2>1. PICK a \in Nat \ {0} : a = Area(z)
    BY Areas
  <2>2. t % a = t
    <3>1. 0 \in Nat /\ t \in 0..(a - 1)
      BY <2>1
    <3>2. (0 * a + t) % a = t
      BY <3>1, Digits
    <3> QED
      BY <1>0, <3>2
  <2> QED
    BY <2>1, <2>2
<1> HIDE DEF u, g0, start
<1> DEFINE U == {i \in Nat : i <= z => g0[i] = u[i]}
<1>6. 0 \in U
  BY <1>1, <1>3
<1>7. ASSUME NEW i \in Nat, i \in U PROVE i + 1 \in U
  <2>1. CASE i + 1 <= z
    <3>1. i + 1 \in 0..z /\ (i + 1) - 1 = i /\ i + 1 # 0
      BY <2>1
    <3>2. g0[i + 1] = PlaceTurn(g0[i], i + 1)
      BY <1>3, <3>1
    <3>3. u[i + 1] = PlaceTurn(u[i], i + 1)
      BY <1>1, <3>1
    <3> QED
      BY <1>7, <2>1, <3>2, <3>3
  <2> QED
    BY <2>1
<1>8. Nat \subseteq U
  <2> HIDE DEF U
  <2> QED
    BY <1>6, <1>7, NatSetInduction
<1> QED
  BY <1>4, <1>5, <1>8

LEMMA LevelFound ==
  ASSUME NEW z \in Nat, NEW t \in 0..(Area(z) - 1), NEW id, id = Before(z) + t
  PROVE  z = CHOOSE l \in 0..id : Before(l) <= id /\ id < Before(l + 1)
<1>1. /\ Before(z) \in Nat /\ Area(z) \in Nat /\ Before(z + 1) = Before(z) + Area(z)
      /\ z <= Before(z)
  BY Levels0, Areas, LevelsStartLate
<1>2. id \in Nat /\ z \in 0..id /\ Before(z) <= id /\ id < Before(z + 1)
  BY <1>1
<1>3. ASSUME NEW l \in 0..id, Before(l) <= id, id < Before(l + 1) PROVE l = z
  <2>0. l \in Nat /\ l + 1 \in Nat
    BY <1>2
  <2>1. Before(l) \in Nat /\ Before(l + 1) \in Nat
    BY <2>0, Levels0
  <2>2. CASE l < z
    <3>1. Before(l + 1) <= Before(z)
      BY <2>0, <2>2, LevelsInOrder
    <3> QED
      BY <1>1, <1>2, <1>3, <2>1, <3>1
  <2>3. CASE z < l
    <3>1. Before(z + 1) <= Before(l)
      BY <2>0, <2>3, LevelsInOrder
    <3> QED
      BY <1>1, <1>2, <1>3, <2>1, <3>1
  <2> QED
    BY <2>0, <2>2, <2>3
<1> QED
  BY <1>2, <1>3

LEMMA OneAndTwo ==
  ASSUME NEW z \in Int, NEW x \in Int, NEW y \in Int
  PROVE  <<z>> \o <<x, y>> = <<z, x, y>>
<1>1. PICK s, t, r : s = <<z>> /\ t = <<x, y>> /\ r = s \o t
  OBVIOUS
<1>2. s \in Seq(Int) /\ Len(s) = 1 /\ s[1] = z
  BY <1>1
<1>3. t \in Seq(Int) /\ Len(t) = 2 /\ t[1] = x /\ t[2] = y
  BY <1>1
<1>4. /\ r \in Seq(Int) /\ Len(r) = Len(s) + Len(t)
      /\ \A i \in 1..Len(s) + Len(t) : r[i] = IF i <= Len(s) THEN s[i] ELSE t[i - Len(s)]
  BY <1>1, <1>2, <1>3, ConcatProperties
<1>5. Len(r) = 3 /\ r[1] = z /\ r[2] = x /\ r[3] = y
  BY <1>2, <1>3, <1>4
<1>6. PICK q : q = <<z, x, y>>
  OBVIOUS
<1>9. q \in Seq(Int) /\ Len(q) = 3 /\ q[1] = z /\ q[2] = x /\ q[3] = y
  BY <1>6
<1>7. \A i \in 1..Len(r) : r[i] = q[i]
  <2>1. \A i \in 1..3 : i = 1 \/ i = 2 \/ i = 3
    OBVIOUS
  <2> QED
    BY <1>5, <1>9, <2>1
<1>8. r = q
  BY <1>4, <1>5, <1>7, <1>9, SeqEqual
<1> QED
  BY <1>1, <1>6, <1>8

LEMMA TilesOfIds ==
  ASSUME NEW z \in Nat, NEW t \in 0..(Area(z) - 1), NEW x, NEW y, OnCurve(z, t, x, y)
  PROVE  IDToZXY(Before(z) + t) = <<z, x, y>>
<1>1. PICK id : id = Before(z) + t
  OBVIOUS
<1>2. z = CHOOSE l \in 0..id : Before(l) <= id /\ id < Before(l + 1)
  BY <1>1, LevelFound
<1>3. id - Before(z) = t
  <2>1. Before(z) \in Nat /\ t \in Int
    BY Levels0, Areas
  <2> QED
    BY <1>1, <2>1
<1>4. IDToZXY(id) = <<z>> \o PlaceLoop(z, id - Before(z)).at
  BY <1>2 DEF IDToZXY, PlaceLoop, Loop, PlaceTurn, Placed
<1>5. PlaceLoop(z, t).at = <<x, y>>
  BY PlacesFollowCurve DEF OnCurve
<1>6. IDToZXY(id) = <<z>> \o <<x, y>>
  BY <1>3, <1>4, <1>5
<1>7. <<z>> \o <<x, y>> = <<z, x, y>>
  BY OneAndTwo DEF OnCurve
<1> QED
  BY <1>1, <1>6, <1>7

----------------------------------------------------------------------------
(* ZXYToID finds the tile on the curve.                                    *)

\* p is v after h lengths of s.
Past(p, h, s, v) == p = h * s + v

Twice(d, s) == d = 2 * s

\* The bit of a coordinate that says in which half of the square it is.
LEMMA UpperBit ==
  ASSUME NEW s \in Nat \ {0}, NEW h \in Nat, NEW d, Twice(d, s), NEW i \in 0..(d - 1), NEW p, Past(p, h, d, i)
  PROVE  \E b \in 0..1, v \in 0..(s - 1), m \in Nat :
           i = b * s + v /\ Past(p, m, s, v) /\ Bit(p, s) = b
<1>0. d = 2 * s
  BY DEF Twice
<1>1. PICK b \in 0..1, v \in 0..(s - 1) : i = b * s + v
  <2>1. CASE i < s
    <3>1. i = 0 * s + i /\ i \in 0..(s - 1)
      BY <1>0, <2>1
    <3> QED
      BY <3>1
  <2>2. CASE i >= s
    <3>1. i = 1 * s + (i - s) /\ i - s \in 0..(s - 1)
      BY <1>0, <2>2
    <3> QED
      BY <3>1
  <2> QED
    BY <2>1, <2>2
<1>2. PICK m \in Nat : m = 2 * h + b
  OBVIOUS
<1>3. p = m * s + v
  <2>1. m * s = (2 * h) * s + b * s
    <3>1. m * s = (2 * h + b) * s
      BY <1>2
    <3>2. (2 * h + b) * s = (2 * h) * s + b * s
      OBVIOUS
    <3> QED
      BY <3>1, <3>2
  <2>2. h * (2 * s) = (2 * h) * s
    OBVIOUS
  <2>3. h * (2 * s) \in Nat /\ b * s \in Nat
    OBVIOUS
  <2> QED
    BY <1>0, <1>1, <2>1, <2>2, <2>3 DEF Past
<1>4. (m * s + v) \div s = m
  BY Digits
<1>5. m % 2 = b
  BY <1>2
<1> QED
  BY <1>1, <1>3, <1>4, <1>5 DEF Bit, Past

\* What is left of a coordinate below the side, seen from the other side.
LEMMA Mirrored ==
  ASSUME NEW s \in Nat \ {0}, NEW m \in Nat, NEW n, n = m * s,
         NEW h \in Nat, NEW v \in 0..(s - 1), NEW p, Past(p, h, s, v), p < n
  PROVE  \E l \in Nat : Past(n - 1 - p, l, s, s - 1 - v)
<1>0. h * s \in Nat /\ m * s \in Nat
  OBVIOUS
<1>1. h < m
  <2>1. CASE h >= m
    <3>1. h * s >= m * s
      BY <2>1
    <3> QED
      BY <1>0, <3>1 DEF Past
  <2> QED
    BY <2>1
<1>2. PICK l \in Nat : m = h + 1 + l
  <2>1. m - 1 - h \in Nat /\ m = h + 1 + (m - 1 - h)
    BY <1>1
  <2> QED
    BY <2>1
<1>3. m * s = h * s + s + l * s
  <2>1. m * s = (h + 1 + l) * s
    BY <1>2
  <2>2. (h + 1 + l) * s = h * s + s + l * s
    OBVIOUS
  <2> QED
    BY <2>1, <2>2
<1>4. l * s \in Nat
  OBVIOUS
<1> QED
  BY <1>0, <1>3, <1>4 DEF Past

\* The side of a square is a multiple of the sides of the squares in it.
LEMMA SidesDivide ==
  ASSUME NEW z \in Nat, NEW k \in 0..z
  PROVE  \E m \in Nat : Shl(z) = m * Shl(k)
<1> DEFINE T == {j \in Nat : \E m \in Nat : Shl(k + j) = m * Shl(k)}
<1>1. 0 \in T
  <2>1. Shl(k) \in Nat /\ Shl(k + 0) = 1 * Shl(k)
    BY Shifts
  <2> QED
    BY <2>1
<1>2. ASSUME NEW j \in Nat, j \in T PROVE j + 1 \in T
  <2>0. PICK m \in Nat : Shl(k + j) = m * Shl(k)
    BY <1>2
  <2>3. PICK i \in Nat : i = k + j /\ k + (j + 1) = i + 1
    OBVIOUS
  <2>1. PICK s \in Nat, b \in Nat : b = Shl(i) /\ s = Shl(k) /\ b = m * s /\ Shl(i + 1) = 2 * b
    BY <2>0, <2>3, Shifts
  <2>2. 2 * (m * s) = (2 * m) * s /\ 2 * m \in Nat
    OBVIOUS
  <2>4. Shl(k + (j + 1)) = (2 * m) * Shl(k)
    BY <2>1, <2>2, <2>3
  <2> QED
    BY <2>2, <2>4
<1>3. Nat \subseteq T
  <2> HIDE DEF T
  <2> QED
    BY <1>1, <1>2, NatSetInduction
<1>4. z - k \in T /\ k + (z - k) = z
  BY <1>3
<1> QED
  BY <1>4

\* k turns before its end, the loop has found the tile up to where it is in a square of side Shl(k).
Owes(z, x, y, k, p, q, e) ==
  /\ p \in Nat /\ q \in Nat /\ e \in Nat
  /\ p < Shl(z) /\ q < Shl(z) /\ e + Area(k) <= Area(z)
  /\ \E h, l \in Nat, v, w \in 0..(Shl(k) - 1) :
       /\ Past(p, h, Shl(k), v) /\ Past(q, l, Shl(k), w)
       /\ \A t \in 0..(Area(k) - 1) : OnCurve(k, t, v, w) => OnCurve(z, e + t, x, y)

LEMMA OwesFewer ==
  ASSUME NEW z \in Nat, NEW x, NEW y, NEW k \in Nat, k < z, NEW p, NEW q, NEW e,
         Owes(z, x, y, k + 1, p, q, e),
         NEW rx, rx = Bit(p, Shl(k)), NEW ry, ry = Bit(q, Shl(k))
  PROVE  \E i, j :
           /\ Rotate(Shl(z), <<p, q>>, rx, ry) = <<i, j>>
           /\ Owes(z, x, y, k, i, j, e + Shl(k) * Shl(k) * Quadrant(rx, ry))
<1>1. PICK s \in Nat \ {0}, a \in Nat \ {0}, n \in Nat, b \in Nat :
        /\ s = Shl(k) /\ Shl(k + 1) = 2 * s /\ a = Area(k) /\ Area(k + 1) = 4 * a /\ a = s * s
        /\ n = Shl(z) /\ b = Area(z)
  BY Shifts, Areas
<1>0. PICK d \in Nat : d = 2 * s /\ Twice(d, s)
  BY DEF Twice
<1>2. /\ p \in Nat /\ q \in Nat /\ e \in Nat
      /\ p < n /\ q < n /\ e + 4 * a <= b
  BY <1>1 DEF Owes
<1>3. PICK h \in Nat, l \in Nat, vv \in 0..(d - 1), ww \in 0..(d - 1) :
        /\ Past(p, h, d, vv) /\ Past(q, l, d, ww)
        /\ \A t \in 0..(Area(k + 1) - 1) : OnCurve(k + 1, t, vv, ww) => OnCurve(z, e + t, x, y)
  <2>1. d = Shl(k + 1)
    BY <1>0, <1>1
  <2> QED
    BY <2>1 DEF Owes
<1>4. PICK v \in 0..(s - 1), hp \in Nat : rx \in 0..1 /\ vv = rx * s + v /\ Past(p, hp, s, v)
  <2>1. \E r \in 0..1, o \in 0..(s - 1), m \in Nat :
          vv = r * s + o /\ Past(p, m, s, o) /\ Bit(p, s) = r
    BY <1>0, <1>3, UpperBit
  <2>2. rx = Bit(p, s)
    BY <1>1
  <2> QED
    BY <2>1, <2>2
<1>5. PICK w \in 0..(s - 1), hq \in Nat : ry \in 0..1 /\ ww = ry * s + w /\ Past(q, hq, s, w)
  <2>1. \E r \in 0..1, o \in 0..(s - 1), m \in Nat :
          ww = r * s + o /\ Past(q, m, s, o) /\ Bit(q, s) = r
    BY <1>0, <1>3, UpperBit
  <2>2. ry = Bit(q, s)
    BY <1>1
  <2> QED
    BY <2>1, <2>2
<1>6. PICK m \in Nat : n = m * s
  BY <1>1, SidesDivide
<1>7. PICK hi \in Nat, hj \in Nat :
        Past(n - 1 - q, hi, s, s - 1 - w) /\ Past(n - 1 - p, hj, s, s - 1 - v)
  BY <1>2, <1>4, <1>5, <1>6, Mirrored
<1>8. PICK c : c = Quadrant(rx, ry)
  OBVIOUS
<1>9. \/ rx = 0 /\ ry = 0 /\ c = 0
      \/ rx = 0 /\ ry = 1 /\ c = 1
      \/ rx = 1 /\ ry = 1 /\ c = 2
      \/ rx = 1 /\ ry = 0 /\ c = 3
  <2>1. (rx = 0 \/ rx = 1) /\ (ry = 0 \/ ry = 1)
    BY <1>4, <1>5
  <2> QED
    BY <1>8, <2>1 DEF Quadrant
<1>10. c \in 0..3 /\ vv \in Int /\ ww \in Int
  BY <1>9
<1>11. PICK more \in Nat : more = c * a /\ more + a <= 4 * a /\ s * s * c = more
  <2>1. c = 0 \/ c = 1 \/ c = 2 \/ c = 3
    BY <1>9
  <2> QED
    BY <1>1, <2>1
<1>12. ASSUME NEW f \in 0..(s - 1), NEW g \in 0..(s - 1),
              Turned(s, c, f, g, vv, ww)
       PROVE  \A t \in 0..(Area(k) - 1) : OnCurve(k, t, f, g) => OnCurve(z, e + more + t, x, y)
  <2> SUFFICES ASSUME NEW t \in 0..(Area(k) - 1), OnCurve(k, t, f, g) PROVE OnCurve(z, e + more + t, x, y)
    OBVIOUS
  <2>1. PICK u : u = more + t
    OBVIOUS
  <2>2. u \in 0..(Area(k + 1) - 1) /\ e + u = e + more + t
    BY <1>1, <1>2, <1>11, <2>1
  <2>3. InQuarter(s, a, c, t, f, g, u, vv, ww)
    BY <1>11, <1>12, <2>1 DEF InQuarter, Turned
  <2>4. OnCurve(k + 1, u, vv, ww)
    BY <1>1, <1>10, <2>3, PointAbove
  <2> QED
    BY <1>3, <2>2, <2>4
<1>13. ASSUME NEW i \in Nat, NEW j \in Nat, i < n, j < n, NEW f \in 0..(s - 1), NEW g \in 0..(s - 1),
              NEW o \in Nat, NEW r \in Nat, Past(i, o, s, f), Past(j, r, s, g),
              Turned(s, c, f, g, vv, ww)
       PROVE  Owes(z, x, y, k, i, j, e + more)
  <2>1. e + more \in Nat /\ e + more + Area(k) <= Area(z)
    BY <1>1, <1>2, <1>11
  <2>2. \A t \in 0..(Area(k) - 1) : OnCurve(k, t, f, g) => OnCurve(z, e + more + t, x, y)
    BY <1>12, <1>13
  <2>3. i < Shl(z) /\ j < Shl(z) /\ Past(i, o, Shl(k), f) /\ Past(j, r, Shl(k), g)
        /\ f \in 0..(Shl(k) - 1) /\ g \in 0..(Shl(k) - 1)
    BY <1>1, <1>13
  <2> QED
    BY <2>1, <2>2, <2>3 DEF Owes
<1>14. e + Shl(k) * Shl(k) * Quadrant(rx, ry) = e + more
  BY <1>1, <1>8, <1>11
<1>15. CASE rx = 0 /\ ry = 0 /\ c = 0
  <2>1. Rotate(n, <<p, q>>, rx, ry) = <<q, p>>
    BY <1>15 DEF Rotate
  <2>2. Turned(s, c, w, v, vv, ww)
    BY <1>4, <1>5, <1>15 DEF Turned
  <2>3. Owes(z, x, y, k, q, p, e + more)
    BY <1>2, <1>4, <1>5, <1>13, <1>15, <2>2
  <2> QED
    BY <1>1, <1>14, <2>1, <2>3
<1>16. CASE rx = 0 /\ ry = 1 /\ c = 1
  <2>1. Rotate(n, <<p, q>>, rx, ry) = <<p, q>>
    BY <1>16 DEF Rotate
  <2>2. Turned(s, c, v, w, vv, ww)
    BY <1>4, <1>5, <1>16 DEF Turned
  <2>3. Owes(z, x, y, k, p, q, e + more)
    BY <1>2, <1>4, <1>5, <1>13, <1>16, <2>2
  <2> QED
    BY <1>1, <1>14, <2>1, <2>3
<1>17. CASE rx = 1 /\ ry = 1 /\ c = 2
  <2>1. Rotate(n, <<p, q>>, rx, ry) = <<p, q>>
    BY <1>17 DEF Rotate
  <2>2. Turned(s, c, v, w, vv, ww)
    BY <1>4, <1>5, <1>17 DEF Turned
  <2>3. Owes(z, x, y, k, p, q, e + more)
    BY <1>2, <1>4, <1>5, <1>13, <1>17, <2>2
  <2> QED
    BY <1>1, <1>14, <2>1, <2>3
<1>18. CASE rx = 1 /\ ry = 0 /\ c = 3
  <2>1. Rotate(n, <<p, q>>, rx, ry) = <<n - 1 - q, n - 1 - p>>
    BY <1>18 DEF Rotate
  <2>2. PICK i \in Nat, j \in Nat : i = n - 1 - q /\ j = n - 1 - p /\ i < n /\ j < n
    BY <1>2
  <2>3. PICK f \in 0..(s - 1), g \in 0..(s - 1) : f = s - 1 - w /\ g = s - 1 - v
    OBVIOUS
  <2>4. Past(i, hi, s, f) /\ Past(j, hj, s, g)
    BY <1>7, <2>2, <2>3
  <2>5. Turned(s, c, f, g, vv, ww)
    BY <1>4, <1>5, <1>18, <2>3 DEF Turned
  <2>6. Owes(z, x, y, k, i, j, e + more)
    BY <1>13, <1>18, <2>2, <2>4, <2>5
  <2> QED
    BY <1>1, <1>14, <2>1, <2>2, <2>6
<1> QED
  BY <1>9, <1>15, <1>16, <1>17, <1>18

IdTurn(z, a, i) ==
  LET s  == Shl(z - i)
      rx == Bit(a.at[1], s)
      ry == Bit(a.at[2], s)
  IN [at |-> Rotate(Shl(z), a.at, rx, ry), d |-> a.d + s * s * Quadrant(rx, ry)]
IdStart(x, y) == [at |-> <<x, y>>, d |-> 0]
IdLoop(z, x, y, s) == s = [i \in 0..z |-> IF i = 0 THEN IdStart(x, y) ELSE IdTurn(z, s[i - 1], i)]

\* ZXYToID is the end of its loop, which keeps what each of its turns keeps.
LEMMA IdLoopEnds ==
  ASSUME NEW z \in Nat, NEW x, NEW y, NEW S, IdStart(x, y) \in S[0],
         \A i \in 1..z : \A a \in S[i - 1] : IdTurn(z, a, i) \in S[i]
  PROVE  \E a \in S[z] : ZXYToID(z, x, y) = Before(z) + a.d
<1> DEFINE f == [i \in 1..z |-> [a \in S[i - 1] |-> IdTurn(z, a, i)]]
           s == CHOOSE t : IdLoop(z, x, y, t)
<1>1. \E t : IdLoop(z, x, y, t)
  <2>0. PICK V : \E t \in [0..z -> V] : t[0] = IdStart(x, y) /\ \A i \in 1..z : t[i] = f[i][t[i - 1]]
    <3> HIDE DEF f
    <3>1. Runs(z, IdStart(x, y), f)
      BY LoopRuns
    <3> QED
      BY <3>1 DEF Runs
  <2>1. PICK t \in [0..z -> V] : t[0] = IdStart(x, y) /\ \A i \in 1..z : t[i] = f[i][t[i - 1]]
    BY <2>0
  <2>2. t[0] = IdStart(x, y)
    BY <2>1
  <2>3. \A i \in 1..z : t[i - 1] \in S[i - 1] => t[i] \in S[i]
    BY <2>1
  <2>4. \A i \in 0..z : t[i] \in S[i]
    <3> HIDE DEF f
    <3> QED
      BY <2>2, <2>3, LoopKeeps
  <2>5. ASSUME NEW i \in 1..z PROVE t[i] = IdTurn(z, t[i - 1], i)
    <3>1. i - 1 \in 0..z
      OBVIOUS
    <3>2. t[i - 1] \in S[i - 1]
      BY <2>4, <3>1
    <3> QED
      BY <2>1, <3>2
  <2>6. t = [i \in 0..z |-> IF i = 0 THEN IdStart(x, y) ELSE IdTurn(z, t[i - 1], i)]
    <3> HIDE DEF f
    <3> QED
      BY <2>1, <2>2, <2>5
  <2> QED
    BY <2>6 DEF IdLoop
<1>2. IdLoop(z, x, y, s)
  BY <1>1
<1>3. ZXYToID(z, x, y) = Before(z) + s[z].d
  BY DEF ZXYToID, Loop, IdLoop, IdTurn, IdStart
<1> HIDE DEF s, f
<1>4. s[0] = IdStart(x, y) /\ \A i \in 1..z : s[i] = IdTurn(z, s[i - 1], i)
  BY <1>2 DEF IdLoop
<1>5. \A i \in 0..z : s[i] \in S[i]
  <2>1. s[0] \in S[0]
    BY <1>4
  <2>2. \A i \in 1..z : s[i - 1] \in S[i - 1] => s[i] \in S[i]
    BY <1>4
  <2> QED
    BY <2>1, <2>2, LoopKeeps
<1> QED
  BY <1>3, <1>5

\* The states of the loop when k turns are left.
Finding(z, x, y, k) ==
  {a \in [at : Nat \X Nat, d : Nat] : Owes(z, x, y, k, a.at[1], a.at[2], a.d)}

LEMMA IdStarts ==
  ASSUME NEW z \in Nat, NEW x \in 0..(Shl(z) - 1), NEW y \in 0..(Shl(z) - 1)
  PROVE  IdStart(x, y) \in Finding(z, x, y, z)
<1>1. PICK n \in Nat, b \in Nat : n = Shl(z) /\ b = Area(z)
  BY Shifts, Areas
<1>2. x \in Nat /\ y \in Nat /\ x < n /\ y < n
  BY <1>1
<1>3. Past(x, 0, n, x) /\ Past(y, 0, n, y)
  BY <1>1, <1>2 DEF Past
<1>4. \A t \in 0..(b - 1) : OnCurve(z, t, x, y) => OnCurve(z, 0 + t, x, y)
  OBVIOUS
<1>5. Owes(z, x, y, z, x, y, 0)
  BY <1>1, <1>2, <1>3, <1>4 DEF Owes
<1> QED
  BY <1>2, <1>5 DEF Finding, IdStart

LEMMA IdTurnFinds ==
  ASSUME NEW z \in Nat, NEW x, NEW y, NEW i \in 1..z, NEW a \in Finding(z, x, y, z - (i - 1))
  PROVE  IdTurn(z, a, i) \in Finding(z, x, y, z - i)
<1>1. PICK k \in Nat : k = z - i /\ k + 1 = z - (i - 1) /\ k < z
  OBVIOUS
<1>2. PICK p \in Nat, q \in Nat, e \in Nat : a = [at |-> <<p, q>>, d |-> e] /\ Owes(z, x, y, k + 1, p, q, e)
  BY <1>1 DEF Finding
<1>3. PICK rx, ry : rx = Bit(p, Shl(k)) /\ ry = Bit(q, Shl(k))
  OBVIOUS
<1>4. PICK i1, j1 : /\ Rotate(Shl(z), <<p, q>>, rx, ry) = <<i1, j1>>
                    /\ Owes(z, x, y, k, i1, j1, e + Shl(k) * Shl(k) * Quadrant(rx, ry))
  BY <1>1, <1>2, <1>3, OwesFewer
<1>5. PICK m : m = e + Shl(k) * Shl(k) * Quadrant(rx, ry)
  OBVIOUS
<1>6. IdTurn(z, a, i) = [at |-> <<i1, j1>>, d |-> m]
  BY <1>1, <1>2, <1>3, <1>4, <1>5 DEF IdTurn
<1>7. Owes(z, x, y, k, i1, j1, m) /\ i1 \in Nat /\ j1 \in Nat /\ m \in Nat
  BY <1>4, <1>5 DEF Owes
<1> QED
  BY <1>1, <1>6, <1>7 DEF Finding

\* The id of a tile is where the curve has it.
LEMMA IdsFollowCurve ==
  ASSUME NEW z \in Nat, NEW x \in 0..(Shl(z) - 1), NEW y \in 0..(Shl(z) - 1)
  PROVE  \E d \in 0..(Area(z) - 1) : ZXYToID(z, x, y) = Before(z) + d /\ OnCurve(z, d, x, y)
<1> DEFINE S == [i \in 0..z |-> Finding(z, x, y, z - i)]
<1>1. IdStart(x, y) \in S[0]
  BY IdStarts
<1>2. ASSUME NEW i \in 1..z, NEW a \in S[i - 1] PROVE IdTurn(z, a, i) \in S[i]
  <2>1. S[i - 1] = Finding(z, x, y, z - (i - 1)) /\ S[i] = Finding(z, x, y, z - i)
    OBVIOUS
  <2> HIDE DEF S
  <2> QED
    BY <1>2, <2>1, IdTurnFinds
<1>3. S[z] = Finding(z, x, y, 0)
  OBVIOUS
<1> HIDE DEF S
<1>4. \E a \in S[z] : ZXYToID(z, x, y) = Before(z) + a.d
  BY <1>1, <1>2, IdLoopEnds
<1>5. PICK a \in Finding(z, x, y, 0) : ZXYToID(z, x, y) = Before(z) + a.d
  BY <1>3, <1>4
<1>6. PICK p, q, e : Owes(z, x, y, 0, p, q, e) /\ e = a.d
  BY DEF Finding
<1>7. Shl(0) = 1 /\ Area(0) = 1 /\ Area(z) \in Nat
  BY Shifts, Areas
<1>8. e \in Nat /\ e + 1 <= Area(z)
  BY <1>6, <1>7 DEF Owes
<1>9. OnCurve(0, 0, 0, 0)
  BY CurveIs DEF IsCurve, OnCurve
<1>10. OnCurve(z, e + 0, x, y)
  <2>1. PICK v \in 0..(Shl(0) - 1), w \in 0..(Shl(0) - 1) :
          \A t \in 0..(Area(0) - 1) : OnCurve(0, t, v, w) => OnCurve(z, e + t, x, y)
    BY <1>6 DEF Owes
  <2>2. v = 0 /\ w = 0 /\ 0 \in 0..(Area(0) - 1)
    BY <1>7
  <2> QED
    BY <1>9, <2>1, <2>2
<1>11. e \in 0..(Area(z) - 1) /\ e + 0 = e
  BY <1>7, <1>8
<1> QED
  BY <1>5, <1>6, <1>10, <1>11

----------------------------------------------------------------------------
(* The ids of tiles.                                                       *)

LEMMA IdInverts ==
  ASSUME NEW z \in Nat, NEW x \in 0..(Shl(z) - 1), NEW y \in 0..(Shl(z) - 1)
  PROVE  /\ ZXYToID(z, x, y) \in Before(z)..(Before(z + 1) - 1)
         /\ IDToZXY(ZXYToID(z, x, y)) = <<z, x, y>>
<1>1. PICK d \in 0..(Area(z) - 1) : ZXYToID(z, x, y) = Before(z) + d /\ OnCurve(z, d, x, y)
  BY IdsFollowCurve
<1>2. Before(z) \in Nat /\ Area(z) \in Nat /\ Before(z + 1) = Before(z) + Area(z)
  BY Levels0, Areas
<1>3. IDToZXY(Before(z) + d) = <<z, x, y>>
  BY <1>1, TilesOfIds
<1>4. Before(z) + d \in Before(z)..(Before(z + 1) - 1)
  BY <1>2
<1> QED
  BY <1>1, <1>3, <1>4

\* Every number of a level is the id of a tile, and the curve has that tile there.
LEMMA IdTaken ==
  ASSUME NEW z \in Nat, NEW t \in 0..(Area(z) - 1)
  PROVE  \E x, y \in 0..(Shl(z) - 1) : OnCurve(z, t, x, y) /\ ZXYToID(z, x, y) = Before(z) + t
<1>1. PICK x, y \in Int : OnCurve(z, t, x, y)
  <2>1. t \in Nat
    BY Areas
  <2> QED
    BY <2>1, HasPoint
<1>2. x \in 0..(Shl(z) - 1) /\ y \in 0..(Shl(z) - 1)
  BY <1>1, StaysInSquare DEF Within
<1>3. PICK d \in 0..(Area(z) - 1) : ZXYToID(z, x, y) = Before(z) + d /\ OnCurve(z, d, x, y)
  BY <1>2, IdsFollowCurve
<1>4. d = t
  BY <1>1, <1>3, ComesOnce DEF NoneTwice
<1> QED
  BY <1>1, <1>2, <1>3, <1>4

LEMMA NumberInLevel ==
  ASSUME NEW z \in Nat, NEW id \in Before(z)..(Before(z + 1) - 1)
  PROVE  \E t \in 0..(Area(z) - 1) : id = Before(z) + t
<1>1. Before(z) \in Nat /\ Area(z) \in Nat /\ Before(z + 1) = Before(z) + Area(z)
  BY Levels0, Areas
<1>2. id - Before(z) \in 0..(Area(z) - 1) /\ id = Before(z) + (id - Before(z))
  BY <1>1
<1> QED
  BY <1>2

\* On every zoom level the tiles and a range of ids are in bijection, IDToZXY is the inverse of
\* ZXYToID, and ids one apart are neighbours (tileid.go).
THEOREM HilbertCurve == \A z \in Nat : FillsTheCurve(z)
<1> SUFFICES ASSUME NEW z \in Nat PROVE FillsTheCurve(z)
  OBVIOUS
<1> DEFINE side == 0..(Shl(z) - 1)
           ids  == Before(z)..(Before(z + 1) - 1)
           Gap(a, b) == IF a <= b THEN b - a ELSE a - b
           Distance(t, u) == Gap(t[2], u[2]) + Gap(t[3], u[3])
<1>1. \A i, j \in side : ZXYToID(z, i, j) \in ids /\ IDToZXY(ZXYToID(z, i, j)) = <<z, i, j>>
  BY IdInverts
<1>2. \A id \in ids : \E i, j \in side : ZXYToID(z, i, j) = id
  BY NumberInLevel, IdTaken
<1>3. {ZXYToID(z, i, j) : i, j \in side} = ids
  <2> HIDE DEF side, ids
  <2> QED
    BY <1>1, <1>2
<1>4. ASSUME NEW id \in ids, id + 1 \in ids
      PROVE  Distance(IDToZXY(id), IDToZXY(id + 1)) = 1
  <2>1. PICK t \in 0..(Area(z) - 1) : id = Before(z) + t
    BY NumberInLevel
  <2>2. /\ Before(z) \in Nat /\ Area(z) \in Nat /\ Before(z + 1) = Before(z) + Area(z)
        /\ t \in Nat
    BY Levels0, Areas
  <2>3. t + 1 < Area(z) /\ t + 1 \in 0..(Area(z) - 1) /\ id + 1 = Before(z) + (t + 1)
    BY <1>4, <2>1, <2>2
  <2>4. PICK x \in Int, y \in Int : OnCurve(z, t, x, y)
    BY <2>2, HasPoint
  <2>5. PICK v \in Int, w \in Int : OnCurve(z, t + 1, v, w)
    BY <2>3, HasPoint
  <2>6. IDToZXY(id) = <<z, x, y>>
    BY <2>1, <2>4, TilesOfIds
  <2>7. IDToZXY(id + 1) = <<z, v, w>>
    BY <2>3, <2>5, TilesOfIds
  <2>8. Apart(x, v) + Apart(y, w) = 1
    BY <2>2, <2>3, <2>4, <2>5, GoesToNeighbours DEF Adjacent
  <2>9. Distance(<<z, x, y>>, <<z, v, w>>) = Gap(x, v) + Gap(y, w)
    OBVIOUS
  <2>10. Gap(x, v) + Gap(y, w) = 1
    BY <2>8 DEF Apart
  <2> HIDE DEF Distance
  <2> QED
    BY <2>6, <2>7, <2>9, <2>10
<1> QED
  BY <1>1, <1>3, <1>4 DEF FillsTheCurve

\* Ids fit the signed and unsigned 64 bits of the code on every zoom level that it accepts.
THEOREM IdsFit ==
  ASSUME NEW z \in 0..MaxZoom, NEW x \in 0..(Shl(z) - 1), NEW y \in 0..(Shl(z) - 1)
  PROVE  ZXYToID(z, x, y) \in 0..(Shl(63) - 1)
<1>1. z \in Nat /\ z + 1 \in Nat /\ z + 1 <= 32
  BY DEF MaxZoom
<1>2. ZXYToID(z, x, y) \in Before(z)..(Before(z + 1) - 1)
  BY <1>1, IdInverts
<1>3. /\ Before(z) \in Nat /\ Before(z + 1) \in Nat /\ Area(z + 1) \in Nat
      /\ 3 * Before(z + 1) + 1 = Area(z + 1)
  BY <1>1, Levels0, Areas, LevelsStartLate
<1>4. Area(z + 1) <= Shl(64)
  <2>1. PICK k \in Nat : k = 2 * (z + 1) /\ k <= 64
    BY <1>1
  <2> QED
    BY <2>1, ShiftsGrow DEF Area
<1>5. PICK top \in Nat : top = Shl(63) /\ Shl(64) = 2 * top
  <2>1. 63 \in Nat /\ 63 + 1 = 64
    OBVIOUS
  <2>2. Shl(63 + 1) = 2 * Shl(63) /\ Shl(63) \in Nat
    BY <2>1, Shifts
  <2> QED
    BY <2>1, <2>2
<1>6. Before(z + 1) <= top
  BY <1>3, <1>4, <1>5
<1> QED
  BY <1>2, <1>3, <1>5, <1>6

\* No two tiles of a pyramid have the same id.
THEOREM IdsNameTiles ==
  ASSUME NEW t \in Nat \X Nat \X Nat, NEW u \in Nat \X Nat \X Nat, OnGrid(t), OnGrid(u),
         TileId(t) = TileId(u)
  PROVE  t = u
<1>1. ASSUME NEW v \in Nat \X Nat \X Nat, OnGrid(v) PROVE IDToZXY(TileId(v)) = v
  <2>1. PICK z \in Nat, x \in Nat, y \in Nat : v = <<z, x, y>>
    OBVIOUS
  <2>2. Shl(z) \in Nat
    BY Shifts
  <2>3. x \in 0..(Shl(z) - 1) /\ y \in 0..(Shl(z) - 1)
    BY <1>1, <2>1, <2>2 DEF OnGrid
  <2>4. IDToZXY(ZXYToID(z, x, y)) = <<z, x, y>>
    BY <2>3, IdInverts
  <2> QED
    BY <2>1, <2>4 DEF TileId
<1>2. IDToZXY(TileId(t)) = t /\ IDToZXY(TileId(u)) = u
  BY <1>1
<1> QED
  BY <1>2

\* The ids of the zoom levels that are examined fill the Hilbert curve (tileid.go).
THEOREM IdsFillTheCurve == Spec => []TileIdsFillTheCurve
<1>1. TileIdsFillTheCurve
  <2>1. \A z \in Zooms : z \in Nat
    BY ZoomsAssumption
  <2> QED
    BY <2>1, HilbertCurve DEF TileIdsFillTheCurve
<1> QED
  BY <1>1, PTL

\* Every number is in a level.
LEMMA LevelOfId ==
  ASSUME NEW id \in Nat
  PROVE  \E z \in 0..id : \E t \in 0..(Area(z) - 1) : id = Before(z) + t
<1> DEFINE T == {n \in Nat : \E z \in 0..n : Before(z) <= n /\ n < Before(z + 1)}
<1>1. 0 \in T
  <2>1. Before(0) = 0 /\ Before(0 + 1) = 1
    BY Levels0, Areas
  <2> QED
    BY <2>1
<1>2. ASSUME NEW n \in Nat, n \in T PROVE n + 1 \in T
  <2>1. PICK z \in 0..n : Before(z) <= n /\ n < Before(z + 1)
    BY <1>2
  <2>2. PICK m \in Nat : m = z + 1 /\ m \in 0..(n + 1)
    BY <2>1
  <2>3. /\ Before(z) \in Nat /\ Before(m) \in Nat /\ Before(m + 1) = Before(m) + Area(m)
        /\ Area(m) \in Nat \ {0}
    <3>1. z \in Nat /\ m \in Nat
      BY <2>1, <2>2
    <3>2. m + 1 \in Nat
      BY <3>1
    <3>3. Before(z) \in Nat /\ Before(m) \in Nat /\ Before(m + 1) = Before(m) + Area(m)
      BY <3>1, Levels0
    <3> QED
      BY <3>1, <3>3, Areas
  <2>4. CASE n + 1 < Before(m)
    <3>1. z \in 0..(n + 1) /\ Before(z) <= n + 1 /\ n + 1 < Before(z + 1)
      BY <2>1, <2>2, <2>3, <2>4
    <3> QED
      BY <3>1
  <2>5. CASE n + 1 >= Before(m)
    <3>1. Before(m) <= n + 1 /\ n + 1 < Before(m + 1)
      BY <2>1, <2>2, <2>3, <2>5
    <3> QED
      BY <2>2, <3>1
  <2> QED
    BY <2>3, <2>4, <2>5
<1>3. Nat \subseteq T
  <2> HIDE DEF T
  <2> QED
    BY <1>1, <1>2, NatSetInduction
<1>4. PICK z \in 0..id : Before(z) <= id /\ id < Before(z + 1)
  BY <1>3
<1>5. id \in Before(z)..(Before(z + 1) - 1)
  <2>1. Before(z) \in Nat /\ Before(z + 1) \in Nat
    BY Levels0
  <2> QED
    BY <1>4, <2>1
<1>6. \E t \in 0..(Area(z) - 1) : id = Before(z) + t
  BY <1>5, NumberInLevel
<1> QED
  BY <1>6

\* The zoom levels that Build puts into a header span those of the tiles.
LEMMA ZoomsSpan ==
  ASSUME NEW tiles, DOMAIN tiles \subseteq Nat, IsFiniteSet(DOMAIN tiles), NEW id \in DOMAIN tiles
  PROVE  Min(ZoomsOf(tiles)) <= IDToZXY(id)[1] /\ IDToZXY(id)[1] <= Max(ZoomsOf(tiles))
<1>1. PICK bound \in Nat : \A i \in DOMAIN tiles : i <= bound
  BY FiniteIsBounded
<1>2. ASSUME NEW i \in DOMAIN tiles PROVE IDToZXY(i)[1] \in Nat /\ IDToZXY(i)[1] <= bound
  <2>0. PICK z \in 0..i : \E t \in 0..(Area(z) - 1) : i = Before(z) + t
    BY LevelOfId
  <2>1. PICK t \in 0..(Area(z) - 1) : i = Before(z) + t
    BY <2>0
  <2>2. t \in Nat /\ z \in Nat /\ z <= bound
    <3>1. z \in Nat /\ i \in Nat /\ i <= bound
      BY <1>1
    <3>2. Area(z) \in Nat
      BY <3>1, Areas
    <3> QED
      BY <3>1, <3>2
  <2>3. PICK x \in Int, y \in Int : OnCurve(z, t, x, y)
    BY <2>2, HasPoint
  <2>4. IDToZXY(i) = <<z, x, y>>
    BY <2>1, <2>2, <2>3, TilesOfIds
  <2> QED
    BY <2>2, <2>4
<1>3. PICK S : S = ZoomsOf(tiles)
  OBVIOUS
<1>4. S \in SUBSET Nat /\ IDToZXY(id)[1] \in S /\ \A z \in S : z <= bound
  BY <1>2, <1>3 DEF ZoomsOf
<1>5. Min(S) <= IDToZXY(id)[1]
  BY <1>4, SmallestIsIn
<1>6. IDToZXY(id)[1] <= Max(S)
  BY <1>1, <1>4, LargestIsIn
<1> QED
  BY <1>3, <1>5, <1>6

(* What the planet archive is assumed to be, the builder makes: an archive *)
(* holds its tiles, if none is larger than maxTileSize, and the root and   *)
(* the leaf directories are no larger than a block may be (build.go Build; *)
(* Open, Tile).                                                            *)
THEOREM BuiltArchivesHoldTiles ==
  ASSUME NEW T, NEW tiles, Payloads(tiles, T), DOMAIN tiles # {},
         \A id \in DOMAIN tiles : Len(tiles[id]) <= MaxTileSize,
         NEW leafSize \in Nat, leafSize <= MaxBlock, NEW runLengths \in BOOLEAN,
         Fits(Len(TileEntries(tiles, runLengths).es), leafSize, 0),
         Build(tiles, leafSize, runLengths)[1].rootLen <= MaxBlock,
         Wanted \subseteq Nat \X Nat \X Nat
  PROVE  HoldsTiles(Build(tiles, leafSize, runLengths), tiles)
<1>0. \A id \in DOMAIN tiles :
        Min(ZoomsOf(tiles)) <= IDToZXY(id)[1] /\ IDToZXY(id)[1] <= Max(ZoomsOf(tiles))
  <2>1. DOMAIN tiles \subseteq Nat /\ IsFiniteSet(DOMAIN tiles)
    BY DEF Payloads
  <2>2. ASSUME NEW i \in DOMAIN tiles
        PROVE  Min(ZoomsOf(tiles)) <= IDToZXY(i)[1] /\ IDToZXY(i)[1] <= Max(ZoomsOf(tiles))
    BY <2>1, ZoomsSpan
  <2> QED
    BY <2>2
<1>1. PICK file : file = Build(tiles, leafSize, runLengths)
  OBVIOUS
<1>2. PICK h, es, data, leaves, level, k, c : Holds(file, tiles, T, h, es, data, leaves, level, k, c)
  BY <1>1, BuiltHolds
<1>3. PICK root \in Seq(Rows) : root = Encode(level)
  BY <1>2 DEF Holds
<1>4. /\ leaves \in Seq(Rows) /\ data \in Seq(T) /\ level \in Seq(EntryType) /\ Ascending(level)
      /\ k \in 0..3 /\ Chain(c, k, es, leaves) /\ c[k] = level
      /\ \A id \in Nat : IsFor(Find(es, id), tiles, data, id)
  BY <1>2 DEF Holds
<1>5. /\ h.rootLen = Len(root) /\ h.leafLen = Len(leaves) /\ h.dataLen = Len(data)
      /\ h.minZoom = Min(ZoomsOf(tiles)) /\ h.maxZoom = Max(ZoomsOf(tiles))
  BY <1>2, <1>3 DEF Holds, HasHeader
<1>6. file[1] = h /\ Lies(file, 1, root) /\ Lies(file, 1 + Len(root), leaves)
  BY <1>2, <1>3 DEF Holds
<1>7. PICK m \in Nat, n \in Nat, d \in Nat : m = Len(root) /\ n = Len(leaves) /\ d = Len(data)
  BY <1>4, LenProperties
<1>8. RootOffset(h) = 1 /\ DataOffset(h) = 1 + m + n
  BY <1>5, <1>7 DEF RootOffset, LeafOffset, DataOffset, HeaderSize
<1>9. Len(level) = m /\ m > 0
  <2>1. Len(level) = m
    BY <1>3, <1>4, <1>7, EncodedRows
  <2>2. PICK id \in Nat : id \in DOMAIN tiles
    BY DEF Payloads
  <2>3. Find(es, id) # NoEntry
    <3>1. IsFor(Find(es, id), tiles, data, id)
      BY <1>4
    <3> QED
      BY <2>2, <3>1, NotNoEntry DEF IsFor
  <2>4. Find(level, id) # NoEntry
    <3>1. k \in Nat /\ k \in 0..k
      BY <1>4
    <3> QED
      BY <1>4, <2>3, <3>1, NoneBelow
  <2>5. m # 0
    <3>1. CASE m = 0
      <4>1. DOMAIN level = 1..0
        BY <1>4, <2>1, <3>1, LenProperties
      <4>2. UpTo(level, id) = {}
        BY <4>1 DEF UpTo
      <4>3. Find(level, id) = NoEntry
        BY <4>2 DEF Find
      <4> QED
        BY <2>4, <4>3
    <3> QED
      BY <3>1
  <2> QED
    BY <2>1, <2>5
<1>10. \A i \in HeaderSize + 1..DataOffset(h) : file[i] \in Rows
  <2> SUFFICES ASSUME NEW i \in 2..(1 + m + n) PROVE file[i] \in Rows
    BY <1>8 DEF HeaderSize
  <2>1. CASE i <= 1 + m
    <3>1. PICK j \in 1..m : i = 1 + j
      BY <2>1
    <3>2. file[i] = root[j]
      BY <1>6, <1>7, <3>1 DEF Lies
    <3> QED
      BY <1>7, <3>2, ElementOfSeq
  <2>2. CASE i > 1 + m
    <3>1. PICK j \in 1..n : i = 1 + m + j
      <4>1. i - 1 - m \in 1..n /\ i = 1 + m + (i - 1 - m)
        BY <2>2
      <4> QED
        BY <4>1
    <3>2. file[i] = leaves[j]
      BY <1>6, <1>7, <3>1 DEF Lies
    <3> QED
      BY <1>4, <1>7, <3>2, ElementOfSeq
  <2> QED
    BY <2>1, <2>2
<1>11. RootOpens(file)
  <2>1. Bytes(file, RootOffset(h), h.rootLen) = root
    BY <1>5, <1>6, <1>8, AllBytesLie
  <2>2. h.rootLen \in 1..MaxBlock
    BY <1>1, <1>5, <1>6, <1>7, <1>9, FormatAssumption
  <2>3. Len(level) <= MaxBlock
    BY <1>5, <1>7, <1>9, <2>2
  <2>4. WellFormed(root)
    BY <1>3, <1>4, <2>3, DirectoriesAreReadBack
  <2> QED
    BY <1>6, <2>1, <2>2, <2>4 DEF RootOpens
<1>12. ASSUME NEW t \in Wanted, OnGrid(t)
       PROVE  IF TileId(t) \in DOMAIN tiles
              THEN InZooms(t[1], h) /\ Lookup(file, TileId(t)) = Found(tiles[TileId(t)])
              ELSE Lookup(file, TileId(t)) = Outcome("none")
  <2>1. PICK z \in Nat, x \in Nat, y \in Nat : t = <<z, x, y>>
    OBVIOUS
  <2>2. PICK side \in Nat : side = Shl(z)
    BY Shifts
  <2>3. x \in 0..(Shl(z) - 1) /\ y \in 0..(Shl(z) - 1)
    <3>1. t[1] = z /\ t[2] = x /\ t[3] = y
      BY <2>1
    <3>2. x < side /\ y < side
      BY <1>12, <2>2, <3>1 DEF OnGrid
    <3> QED
      BY <2>2, <3>2
  <2>4. PICK id : id = TileId(t) /\ id = ZXYToID(z, x, y)
    BY <2>1 DEF TileId
  <2>5. id \in Nat /\ IDToZXY(id) = <<z, x, y>>
    <3>1. id \in Before(z)..(Before(z + 1) - 1) /\ IDToZXY(id) = <<z, x, y>>
      <4>1. /\ ZXYToID(z, x, y) \in Before(z)..(Before(z + 1) - 1)
            /\ IDToZXY(ZXYToID(z, x, y)) = <<z, x, y>>
        BY <2>3, IdInverts
      <4>2. id = ZXYToID(z, x, y)
        BY <2>4
      <4> QED
        BY <4>1, <4>2
    <3>2. Before(z) \in Nat /\ Before(z + 1) \in Nat
      <4>1. z + 1 \in Nat
        OBVIOUS
      <4>2. \A l \in Nat : Before(l) \in Nat
        BY Levels0
      <4> QED
        BY <4>1, <4>2
    <3>3. id \in Nat
      <4> HIDE <2>4
      <4>1. PICK lo \in Nat, hi \in Nat : lo = Before(z) /\ hi = Before(z + 1)
        BY <3>2
      <4>2. id \in lo..(hi - 1)
        BY <3>1, <4>1
      <4> QED
        BY <4>2
    <3> QED
      BY <3>1, <3>3
  <2>6. Lookup(file, id) = Expected(tiles, id)
    BY <1>1, <1>11, <2>5, BuiltTilesAreRead
  <2>8. id \in DOMAIN tiles => Expected(tiles, id) = Found(tiles[id])
    BY DEF Expected
  <2>9. id \notin DOMAIN tiles => Expected(tiles, id) = Outcome("none")
    BY DEF Expected
  <2>7. id \in DOMAIN tiles => InZooms(z, h)
    <3> SUFFICES ASSUME id \in DOMAIN tiles PROVE InZooms(z, h)
      OBVIOUS
    <3>1. IDToZXY(id)[1] = z
      BY <2>5
    <3> QED
      BY <1>0, <1>5, <3>1 DEF InZooms
  <2> QED
    BY <2>1, <2>4, <2>6, <2>7, <2>8, <2>9
<1>13. h.leafLen \in Nat /\ h.dataLen \in Nat
  BY <1>5, <1>7
<1> QED
  BY <1>1, <1>6, <1>10, <1>11, <1>12, <1>13 DEF HoldsTiles

=============================================================================
