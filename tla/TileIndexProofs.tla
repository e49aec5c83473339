-------------------------- MODULE TileIndexProofs --------------------------
(***************************************************************************)
(* Theorems about TileIndex: for any requests, tiles, files and failures   *)
(* no reader is lost, and every answer is what the files hold, but for     *)
(* those that did not open when it was made; and the corners of            *)
(* every regional tile find the cells that it meets.                       *)
(***************************************************************************)
EXTENDS TileIndex, FiniteSetTheorems, TLAPS

----------------------------------------------------------------------------
(* The inductive invariant.                                                *)

\* The files a request has still to look at.
Pending(q) == req[q].todo \cup IF req[q].pc \in {"open", "read"} THEN {req[q].file} ELSE {}

\* A request has what the files it has seen hold, but for those that did not open.
Progress(q) ==
  LET t     == req[q].tile
      found == req[q].found
  IN req[q].pc # "idle" =>
       /\ req[q].status = "none"
       /\ Pending(q) \subseteq OverlappingFiles(t)
       /\ found.got = Holding(t, Files \ (found.missed \cup Pending(q)))
       /\ found.got \subseteq present /\ found.missed \cap Pending(q) = {}
       /\ req[q].pc \in {"open", "read"} => req[q].file \notin req[q].todo
       /\ req[q].pc \in {"lookup", "compress"} => req[q].todo = {} /\ found.got # {}

Matches(q) ==
  /\ req[q].status = "200" => TileMatches(req[q].tile, req[q].found)
  /\ req[q].status = "204" => NoneMatches(req[q].tile, req[q].found)
  /\ req[q].status = "500" => ErrorMatches(req[q].tile, req[q].found)

\* A cached reader is one of a file that opens.
CachedOpen == \A f \in Files : cache[f] # 0 => Opens(f)

\* A compressed copy is as good as the merge it was made by.
CopiesMatch == \A t \in Tiles : compressed[t] # Nothing => TileMatches(t, compressed[t])

IndexInv ==
  /\ TypeOK /\ NoReaderLost /\ CachedOpen /\ CopiesMatch
  /\ \A q \in Requests : Progress(q) /\ Matches(q)

----------------------------------------------------------------------------
(* The files of a tile.                                                    *)

(* Four files are finitely many.                                           *)
LEMMA FourFinite == \A a, b, c, d : IsFiniteSet({a, b, c, d})
<1> SUFFICES ASSUME NEW a, NEW b, NEW c, NEW d PROVE IsFiniteSet({a, b, c, d})
    OBVIOUS
<1>1. IsFiniteSet({} \cup {a})
  BY FS_EmptySet, FS_AddElement
<1>2. IsFiniteSet(({} \cup {a}) \cup {b})
  BY <1>1, FS_AddElement
<1>3. IsFiniteSet((({} \cup {a}) \cup {b}) \cup {c})
  BY <1>2, FS_AddElement
<1>4. IsFiniteSet(((({} \cup {a}) \cup {b}) \cup {c}) \cup {d})
  BY <1>3, FS_AddElement
<1>5. ((({} \cup {a}) \cup {b}) \cup {c}) \cup {d} = {a, b, c, d}
  OBVIOUS
<1> QED BY <1>4, <1>5

(* A tile needs finitely many files (getOverlappingFilePaths).             *)
LEMMA FilesFinite == \A t \in Tiles : IsFiniteSet(OverlappingFiles(t))
<1> SUFFICES ASSUME NEW t \in Tiles PROVE IsFiniteSet(OverlappingFiles(t))
    OBVIOUS
<1>1. CASE zoomToLayer(t.z) = "L0"
  BY <1>1, FS_Singleton DEF OverlappingFiles
<1>2. CASE zoomToLayer(t.z) # "L0"
  <2> DEFINE G(c) == File(zoomToLayer(t.z), snapToGrid(t.z, c[1], c[2]))
  <2>1. Corners(t) = {<<t.x, t.y>>, <<t.x, t.y + 1>>, <<t.x + 1, t.y>>, <<t.x + 1, t.y + 1>>}
    BY DEF Corners
  <2>2. OverlappingFiles(t) = {G(e) : e \in Corners(t)}
    BY <1>2 DEF OverlappingFiles
  <2> HIDE DEF G
  <2>3. {G(e) : e \in Corners(t)} =
          {G(<<t.x, t.y>>), G(<<t.x, t.y + 1>>), G(<<t.x + 1, t.y>>), G(<<t.x + 1, t.y + 1>>)}
    BY <2>1
  <2>4. IsFiniteSet({G(<<t.x, t.y>>), G(<<t.x, t.y + 1>>), G(<<t.x + 1, t.y>>),
                     G(<<t.x + 1, t.y + 1>>)})
    BY FourFinite
  <2>5. IsFiniteSet({G(e) : e \in Corners(t)})
    BY <2>3, <2>4, Zenon
  <2> QED BY <2>2, <2>5, Zenon
<1> QED BY <1>1, <1>2

(* A tile of one file needs no other, and only one file is merged for it.  *)
LEMMA SingleFile ==
  ASSUME NEW t \in Tiles, Single(t)
  PROVE  /\ \A f \in OverlappingFiles(t) : OverlappingFiles(t) = {f}
         /\ \A S \in SUBSET OverlappingFiles(t) : Cardinality(S) <= 1
<1>1. IsFiniteSet(OverlappingFiles(t)) /\ Cardinality(OverlappingFiles(t)) = 1
  BY FilesFinite DEF Single
<1>2. PICK f : OverlappingFiles(t) = {f}
  BY <1>1, FS_Singleton
<1>3. \A S \in SUBSET OverlappingFiles(t) : Cardinality(S) <= 1
  BY <1>1, FS_Subset
<1> QED BY <1>2, <1>3

(* The files of a tile are files.                                          *)
LEMMA FilesOfTile == \A t \in Tiles : OverlappingFiles(t) \subseteq Files
BY DEF Files

----------------------------------------------------------------------------
(* A request that does not move keeps what it knows.                       *)

(* The files that are delivered in the meantime make no difference to it.  *)
LEMMA Frame ==
  ASSUME IndexInv, NEW q \in Requests, req'[q] = req[q], stored' = stored,
         present \subseteq present'
  PROVE  Progress(q)' /\ Matches(q)'
<1>1. Progress(q) /\ Matches(q)
  BY DEF IndexInv
<1>2. \A t, S : Holding(t, S)' = Holding(t, S)
  BY DEF Holding
<1>3. Progress(q)'
  BY <1>1, <1>2 DEF Progress, Pending
<1>4. Matches(q)'
  <2>1. \A t, found : TileMatches(t, found) => TileMatches(t, found)'
    BY <1>2 DEF TileMatches
  <2>2. \A t, found : NoneMatches(t, found) => NoneMatches(t, found)'
    BY <1>2 DEF NoneMatches
  <2>3. \A t, found : ErrorMatches(t, found) => ErrorMatches(t, found)'
    BY <1>2 DEF ErrorMatches, LayersOf
  <2> QED BY <1>1, <2>1, <2>2, <2>3 DEF Matches
<1> QED BY <1>3, <1>4

(* A step of one request that leaves files, readers and copies alone.      *)
LEMMA RequestKeeps ==
  ASSUME IndexInv, NEW q \in Requests, NEW r \in Request, req' = [req EXCEPT ![q] = r],
         UNCHANGED <<present, stored, readers, compressed, server>>,
         r.pc # "idle" => r.tile \in Tiles,
         r.pc = "open" => r.file \in Files,
         r.pc = "read" => r.file \in Files /\ r.reader # 0,
         Progress(q)', Matches(q)'
  PROVE  IndexInv'
<1>1. /\ req' \in [Requests -> Request] /\ req'[q] = r
      /\ \A p \in Requests : p # q => req'[p] = req[p]
  BY DEF IndexInv, TypeOK
<1>2. \A p \in Requests : Progress(p)' /\ Matches(p)'
  BY <1>1, Frame DEF readers
<1>3. TypeOK'
  BY <1>1 DEF IndexInv, TypeOK, readers
<1>4. NoReaderLost' /\ CachedOpen' /\ CopiesMatch'
  BY DEF IndexInv, readers, NoReaderLost, CachedOpen, Opens, CopiesMatch, TileMatches, Holding
<1> QED BY <1>2, <1>3, <1>4 DEF IndexInv

(* An answer is right when it tells what the request has found.            *)
LEMMA AnswerKeeps ==
  ASSUME IndexInv, NEW q \in Requests, NEW status \in Statuses, NEW found \in Finding,
         Answer(q, status, found), req[q].tile \in Tiles,
         UNCHANGED <<present, stored, readers, compressed, server>>,
         status = "200" => TileMatches(req[q].tile, found),
         status = "204" => NoneMatches(req[q].tile, found),
         status = "500" => ErrorMatches(req[q].tile, found)
  PROVE  IndexInv'
<1> DEFINE r == [Idle EXCEPT !.tile = req[q].tile, !.status = status, !.found = found]
<1>1. /\ r.pc = "idle" /\ r.tile = req[q].tile /\ r.status = status /\ r.found = found
      /\ r \in Request
  BY DEF Idle, Request
<1>2. req' = [req EXCEPT ![q] = r]
  BY DEF Answer
<1> HIDE DEF r
<1>3. req'[q] = r
  BY <1>2 DEF IndexInv, TypeOK
<1>4. Progress(q)'
  BY <1>1, <1>3 DEF Progress
<1>5. Matches(q)'
  <2>1. \A t, S : Holding(t, S)' = Holding(t, S)
    BY DEF Holding
  <2>2. \A t : TileMatches(t, found) => TileMatches(t, found)'
    BY <2>1 DEF TileMatches
  <2>3. \A t : NoneMatches(t, found) => NoneMatches(t, found)'
    BY <2>1 DEF NoneMatches
  <2>4. ASSUME NEW t, ErrorMatches(t, found) PROVE ErrorMatches(t, found)'
    <3> DEFINE part == Holding(t, Files \ found.missed)
    <3>1. part' = part
      BY <2>1
    <3>2. LayersOf(t, part)' = LayersOf(t, part)
      BY <3>1 DEF LayersOf
    <3>3. stored' = stored
      OBVIOUS
    <3> QED BY <2>4, <3>1, <3>2, <3>3, Zenon DEF ErrorMatches
  <2> QED BY <1>1, <1>3, <2>2, <2>3, <2>4 DEF Matches
<1> QED BY <1>1, <1>2, <1>4, <1>5, RequestKeeps

(* The request q goes on as r, without an answer: what is left to show.    *)
LEMMA GoesOn ==
  ASSUME IndexInv, NEW q \in Requests, NEW r \in Request, req' = [req EXCEPT ![q] = r],
         UNCHANGED <<present, stored, readers, compressed, server>>,
         r.pc # "idle", r.status = "none", r.tile \in Tiles,
         NEW pending, pending = r.todo \cup IF r.pc \in {"open", "read"} THEN {r.file} ELSE {},
         r.pc \in {"open", "read"} => r.file \in Files /\ r.file \notin r.todo,
         r.pc = "read" => r.reader # 0,
         pending \subseteq OverlappingFiles(r.tile),
         r.found.got = Holding(r.tile, Files \ (r.found.missed \cup pending)),
         r.found.got \subseteq present, r.found.missed \cap pending = {},
         r.pc \in {"lookup", "compress"} => r.todo = {} /\ r.found.got # {}
  PROVE  IndexInv'
<1>1. req'[q] = r
  BY DEF IndexInv, TypeOK
<1>2. Progress(q)'
  <2>1. Pending(q)' = pending
    BY <1>1 DEF Pending
  <2> QED BY <1>1, <2>1 DEF Progress, Holding
<1>3. Matches(q)'
  BY <1>1 DEF Matches
<1> QED BY <1>2, <1>3, RequestKeeps

----------------------------------------------------------------------------
(* The actions.                                                            *)

(* A new request has seen nothing.                                         *)
LEMMA AskKeeps == ASSUME IndexInv, NEW q \in Requests, Ask(q) PROVE IndexInv'
<1>1. PICK t \in Tiles, accepts \in BOOLEAN :
        req' = [req EXCEPT ![q] = [Idle EXCEPT !.pc = "next", !.tile = t, !.acceptsGzip = accepts,
                                               !.todo = OverlappingFiles(t)]]
  BY DEF Ask
<1> DEFINE r == [Idle EXCEPT !.pc = "next", !.tile = t, !.acceptsGzip = accepts,
                             !.todo = OverlappingFiles(t)]
<1>2. /\ r \in Request /\ r.pc = "next" /\ r.status = "none" /\ r.tile = t
      /\ r.todo = OverlappingFiles(t) /\ r.found.got = {} /\ r.found.missed = {}
  BY FilesOfTile DEF Idle, Nothing, Request, Finding, Statuses
<1>3. req' = [req EXCEPT ![q] = r]
  BY <1>1
<1>4. Holding(t, Files \ ({} \cup OverlappingFiles(t))) = {}
  BY DEF Holding
<1>5. UNCHANGED <<present, stored, readers, compressed, server>>
  BY DEF Ask
<1> HIDE DEF r
<1>6. /\ OverlappingFiles(t) = r.todo \cup IF r.pc \in {"open", "read"} THEN {r.file} ELSE {}
      /\ r.found.got = Holding(r.tile, Files \ (r.found.missed \cup OverlappingFiles(t)))
      /\ r.found.got \subseteq present /\ r.found.missed \cap OverlappingFiles(t) = {}
  BY <1>2, <1>4
<1> QED BY <1>2, <1>3, <1>5, <1>6, GoesOn

(* A request takes a reader from the map, or goes to open one.             *)
LEMMA FindReaderKeeps == ASSUME IndexInv, NEW q \in Requests, FindReader(q) PROVE IndexInv'
<1>1. PICK f \in req[q].todo :
        req' = [req EXCEPT ![q].pc = IF cache[f] # 0 THEN "read" ELSE "open",
                           ![q].todo = @ \ {f}, ![q].file = f, ![q].reader = cache[f]]
  BY DEF FindReader
<1> DEFINE r == [req[q] EXCEPT !.pc = IF cache[f] # 0 THEN "read" ELSE "open",
                               !.todo = @ \ {f}, !.file = f, !.reader = cache[f]]
<1>2. /\ req[q] \in Request /\ req[q].pc = "next" /\ req[q].tile \in Tiles /\ f \in Files
      /\ cache[f] \in Nat
  BY DEF IndexInv, TypeOK, FindReader, Is, Request
<1>3. /\ r \in Request /\ r.pc = (IF cache[f] # 0 THEN "read" ELSE "open")
      /\ r.status = req[q].status /\ r.tile = req[q].tile /\ r.todo = req[q].todo \ {f}
      /\ r.file = f /\ r.reader = cache[f] /\ r.found = req[q].found
  BY <1>2 DEF Request
<1>4. req' = [req EXCEPT ![q] = r]
  BY <1>1, <1>2 DEF IndexInv, TypeOK
<1>5. Pending(q) = req[q].todo
  BY <1>2 DEF Pending
<1>6. /\ req[q].status = "none" /\ req[q].todo \subseteq OverlappingFiles(req[q].tile)
      /\ req[q].found.got
           = Holding(req[q].tile, Files \ (req[q].found.missed \cup req[q].todo))
      /\ req[q].found.got \subseteq present /\ req[q].found.missed \cap req[q].todo = {}
  BY <1>2, <1>5 DEF IndexInv, Progress
<1>7. UNCHANGED <<present, stored, readers, compressed, server>>
  BY DEF FindReader
<1> HIDE DEF r
<1>8. req[q].todo = r.todo \cup IF r.pc \in {"open", "read"} THEN {r.file} ELSE {}
  BY <1>1, <1>3
<1>9. /\ r.status = "none" /\ r.tile \in Tiles /\ req[q].todo \subseteq OverlappingFiles(r.tile)
      /\ r.found.got = Holding(r.tile, Files \ (r.found.missed \cup req[q].todo))
      /\ r.found.got \subseteq present /\ r.found.missed \cap req[q].todo = {}
      /\ r.pc \in {"open", "read"} /\ r.file \in Files /\ r.file \notin r.todo /\ (r.pc = "read" => r.reader # 0)
  BY <1>2, <1>3, <1>6
<1> QED BY <1>3, <1>4, <1>7, <1>8, <1>9, GoesOn

(* What a request that holds a file knows.                                 *)
LEMMA Holds ==
  ASSUME IndexInv, NEW q \in Requests, req[q].pc \in {"open", "read"}
  PROVE  /\ req[q] \in Request /\ req[q].tile \in Tiles /\ req[q].status = "none"
         /\ req[q].file \in Files /\ req[q].file \in OverlappingFiles(req[q].tile)
         /\ req[q].todo \subseteq OverlappingFiles(req[q].tile)
         /\ req[q].file \notin req[q].todo
         /\ req[q].found \in Finding /\ req[q].found.got \subseteq present
         /\ req[q].found.got = Holding(req[q].tile,
                Files \ (req[q].found.missed \cup (req[q].todo \cup {req[q].file})))
         /\ req[q].found.missed \cap (req[q].todo \cup {req[q].file}) = {}
<1>1. Pending(q) = req[q].todo \cup {req[q].file}
  BY DEF Pending
<1>2. req[q] \in Request /\ req[q].found \in Finding /\ Progress(q) /\ req[q].pc # "idle"
  BY DEF IndexInv, TypeOK, Request
<1>3. req[q].tile \in Tiles /\ req[q].file \in Files
  BY DEF IndexInv, TypeOK
<1> QED BY <1>1, <1>2, <1>3 DEF Progress

(* A request that is done with a file has found what it should, with the   *)
(* file among those that it missed or those that it looked at.             *)
LEMMA StepKeeps ==
  ASSUME IndexInv, NEW q \in Requests, req[q].pc \in {"open", "read"}, NEW found \in Finding,
         req' = [req EXCEPT ![q].pc = "next", ![q].found = found],
         found.got \subseteq present,
         \/ found.missed = req[q].found.missed \cup {req[q].file} /\ found.got = req[q].found.got
         \/ /\ found.missed = req[q].found.missed
            /\ found.got = req[q].found.got \cup
                 IF stored[req[q].file][req[q].tile] = NoTile THEN {} ELSE {req[q].file},
         UNCHANGED <<present, stored, readers, compressed, server>>
  PROVE  IndexInv'
<1> DEFINE r == [req[q] EXCEPT !.pc = "next", !.found = found]
           f == req[q].file
           t == req[q].tile
           missed == req[q].found.missed
           todo == req[q].todo
<1>1. /\ req[q].status = "none" /\ f \in Files /\ f \in OverlappingFiles(t) /\ t \in Tiles
      /\ todo \subseteq OverlappingFiles(t) /\ req[q] \in Request
      /\ req[q].found.got = Holding(t, Files \ (missed \cup (todo \cup {f})))
      /\ missed \cap (todo \cup {f}) = {} /\ f \notin todo
  BY Holds
<1>2. /\ r \in Request /\ r.pc = "next" /\ r.status = "none" /\ r.tile = t
      /\ r.todo = todo /\ r.found = found
  BY <1>1 DEF Request
<1>3. req' = [req EXCEPT ![q] = r]
  BY DEF IndexInv, TypeOK
<1> HIDE DEF r
<1>4. found.got = Holding(t, Files \ (found.missed \cup todo)) /\ found.missed \cap todo = {}
  <2>1. CASE found.missed = missed \cup {f} /\ found.got = req[q].found.got
    <3>1. missed \cup (todo \cup {f}) = found.missed \cup todo
      BY <2>1
    <3> QED BY <1>1, <2>1, <3>1
  <2>2. CASE /\ found.missed = missed
             /\ found.got = req[q].found.got \cup IF stored[f][t] = NoTile THEN {} ELSE {f}
    <3>1. f \notin missed /\ found.missed \cap todo = {}
      BY <1>1, <2>2
    <3> QED BY <1>1, <2>2, <3>1 DEF Holding
  <2> QED BY <2>1, <2>2
<1>5. /\ todo = r.todo \cup IF r.pc \in {"open", "read"} THEN {r.file} ELSE {}
      /\ todo \subseteq OverlappingFiles(r.tile) /\ r.tile \in Tiles
  BY <1>1, <1>2
<1>6. /\ r.found.got = Holding(r.tile, Files \ (r.found.missed \cup todo))
      /\ r.found.missed \cap todo = {} /\ r.found.got \subseteq present
  BY <1>2, <1>4
<1>7. r.pc = "next"
  BY <1>2
<1> QED BY <1>2, <1>3, <1>5, <1>6, <1>7, GoesOn

(* A request that uses a reader of its file.                               *)
LEMMA UseKeeps ==
  ASSUME IndexInv, NEW q \in Requests, req[q].pc = "open", Use(q, cache[req[q].file]),
         Cached(req[q].file), UNCHANGED <<present, stored, readers, compressed, server>>
  PROVE  IndexInv'
<1> DEFINE f == req[q].file
           r == [req[q] EXCEPT !.pc = "read", !.reader = cache[f]]
<1>1. cache[f] \in Nat \ {0}
  BY Holds DEF IndexInv, TypeOK, Cached
<1>2. /\ r \in Request /\ r.pc = "read" /\ r.status = "none" /\ r.tile = req[q].tile
      /\ r.todo = req[q].todo /\ r.found = req[q].found /\ r.file = f /\ r.reader = cache[f]
  BY <1>1, Holds DEF Request
<1>3. req' = [req EXCEPT ![q] = r]
  BY DEF Use, IndexInv, TypeOK
<1> HIDE DEF r
<1>4. /\ r.todo \cup {f} = r.todo \cup IF r.pc \in {"open", "read"} THEN {r.file} ELSE {}
      /\ r.todo \cup {f} \subseteq OverlappingFiles(r.tile)
      /\ r.found.got = Holding(r.tile, Files \ (r.found.missed \cup (r.todo \cup {f})))
      /\ r.found.got \subseteq present /\ r.found.missed \cap (r.todo \cup {f}) = {}
      /\ r.tile \in Tiles /\ r.file \in Files /\ r.file \notin r.todo
  BY <1>2, Holds
<1> QED BY <1>1, <1>2, <1>3, <1>4, GoesOn

(* A request that opens its file: the new reader is the one in the map.    *)
LEMMA FirstOpenKeeps ==
  ASSUME IndexInv, NEW q \in Requests, req[q].pc = "open",
         ~Cached(req[q].file), Opens(req[q].file), Use(q, opened[req[q].file] + 1),
         cache' = [cache EXCEPT ![req[q].file] = opened[req[q].file] + 1],
         opened' = [opened EXCEPT ![req[q].file] = opened[req[q].file] + 1],
         live' = live \cup {<<req[q].file, opened[req[q].file] + 1>>},
         UNCHANGED <<present, stored, compressed, server>>
  PROVE  IndexInv'
<1> DEFINE f == req[q].file
           n == opened[f] + 1
<1>1. n \in Nat \ {0} /\ f \in Files
  BY Holds DEF IndexInv, TypeOK
<1> DEFINE r == [req[q] EXCEPT !.pc = "read", !.reader = n]
<1>2. /\ r \in Request /\ r.pc = "read" /\ r.status = "none" /\ r.tile = req[q].tile
      /\ r.todo = req[q].todo /\ r.found = req[q].found /\ r.file = f /\ r.reader = n
  BY <1>1, Holds DEF Request
<1>3. /\ req' \in [Requests -> Request] /\ req'[q] = r
      /\ \A p \in Requests : p # q => req'[p] = req[p]
  BY <1>2 DEF Use, IndexInv, TypeOK
<1> HIDE DEF r
<1>4. TypeOK'
  BY <1>1, <1>2, <1>3, Holds DEF IndexInv, TypeOK
<1>5. NoReaderLost'
  BY <1>1 DEF IndexInv, TypeOK, NoReaderLost, Cached
<1>6. CachedOpen'
  BY <1>1 DEF IndexInv, TypeOK, CachedOpen, Opens
<1>7. CopiesMatch'
  BY DEF IndexInv, CopiesMatch, TileMatches, Holding
<1>8. Progress(q)' /\ Matches(q)'
  <2>1. Pending(q)' = req[q].todo \cup {f}
    BY <1>2, <1>3 DEF Pending
  <2> QED BY <1>2, <1>3, <2>1, Holds DEF Progress, Matches, Holding
<1>9. \A p \in Requests : p # q => Progress(p)' /\ Matches(p)'
  BY <1>3, Frame
<1> QED BY <1>4, <1>5, <1>6, <1>7, <1>8, <1>9 DEF IndexInv

(* A request opens its file, unless somebody has, or passes over it.       *)
LEMMA OpenReaderKeeps == ASSUME IndexInv, NEW q \in Requests, OpenReader(q) PROVE IndexInv'
<1> DEFINE f == req[q].file
           t == req[q].tile
<1>1. req[q].pc = "open" /\ UNCHANGED <<present, stored, compressed, server>>
  BY DEF OpenReader, Is
<1>2. CASE Cached(f) /\ Use(q, cache[f]) /\ UNCHANGED readers
  BY <1>1, <1>2, UseKeeps
<1>3. CASE /\ ~Cached(f) /\ Opens(f) /\ Use(q, opened[f] + 1)
           /\ cache' = [cache EXCEPT ![f] = opened[f] + 1]
           /\ opened' = [opened EXCEPT ![f] = opened[f] + 1]
           /\ live' = live \cup {<<f, opened[f] + 1>>}
  BY <1>1, <1>3, FirstOpenKeeps
<1>4. CASE ~Cached(f) /\ Unopened(q) /\ UNCHANGED readers
  <2> DEFINE found == [req[q].found EXCEPT !.missed = @ \cup {f}]
  <2>1. /\ found \in Finding /\ found.missed = req[q].found.missed \cup {f}
        /\ found.got = req[q].found.got
    BY <1>1, Holds DEF Finding
  <2>2. /\ Single(t) => Answer(q, "500", found)
        /\ ~Single(t) => req' = [req EXCEPT ![q].pc = "next", ![q].found = found]
    BY <1>4 DEF Unopened
  <2> HIDE DEF found
  <2>3. CASE Single(t)
    <3>1. OverlappingFiles(t) = {f} /\ t \in Tiles
      BY <1>1, <2>3, Holds, SingleFile
    <3>2. ErrorMatches(t, found)
      BY <2>1, <2>3, <3>1 DEF ErrorMatches
    <3> QED BY <1>1, <1>4, <2>1, <2>2, <2>3, <3>1, <3>2, AnswerKeeps DEF Statuses
  <2>4. CASE ~Single(t)
    <3>1. found.got \subseteq present
      BY <1>1, <2>1, Holds
    <3> QED BY <1>1, <1>4, <2>1, <2>2, <2>4, <3>1, StepKeeps
  <2> QED BY <2>3, <2>4
<1> QED BY <1>2, <1>3, <1>4 DEF OpenReader

(* A request reads its file, or fails.                                     *)
LEMMA ReadTileKeeps == ASSUME IndexInv, NEW q \in Requests, ReadTile(q) PROVE IndexInv'
<1> DEFINE f == req[q].file
           t == req[q].tile
<1>1. req[q].pc = "read" /\ UNCHANGED <<present, stored, readers, compressed, server>>
  BY DEF ReadTile, Is
<1>2. /\ req[q].found \in Finding /\ f \in Files /\ t \in Tiles /\ f \in OverlappingFiles(t)
      /\ req[q].found.got \subseteq present
  BY <1>1, Holds
<1>3. CASE ReadFails(q)
  <2> DEFINE found == [req[q].found EXCEPT !.unread = {f}]
  <2>1. found \in Finding /\ found.unread # {}
    BY <1>2 DEF Finding
  <2>2. Answer(q, "500", found)
    BY <1>3 DEF ReadFails
  <2> HIDE DEF found
  <2>3. ErrorMatches(t, found)
    BY <2>1 DEF ErrorMatches
  <2> QED BY <1>1, <1>2, <2>1, <2>2, <2>3, AnswerKeeps DEF Statuses
<1>4. CASE /\ Open(q)
           /\ IF stored[f][t] = NoTile THEN Goto(q, "next")
              ELSE req' = [req EXCEPT ![q].pc = "next", ![q].found.got = @ \cup {f}]
  <2> DEFINE found == [req[q].found EXCEPT
                         !.got = @ \cup IF stored[f][t] = NoTile THEN {} ELSE {f}]
  <2>1. f \in present
    BY <1>2, <1>4 DEF Open, IndexInv, NoReaderLost, CachedOpen, Opens
  <2>2. /\ found \in Finding /\ found.missed = req[q].found.missed
        /\ found.got = req[q].found.got \cup IF stored[f][t] = NoTile THEN {} ELSE {f}
    BY <1>2 DEF Finding
  <2>3. found.got \subseteq present
    BY <1>2, <2>1, <2>2
  <2>4. req' = [req EXCEPT ![q].pc = "next", ![q].found = found]
    <3>1. CASE stored[f][t] = NoTile
      <4>1. found = req[q].found
        BY <1>2, <3>1 DEF Finding
      <4>2. req' = [req EXCEPT ![q].pc = "next"]
        BY <1>4, <3>1 DEF Goto
      <4> QED BY <4>1, <4>2 DEF IndexInv, TypeOK, Request
    <3>2. CASE stored[f][t] # NoTile
      BY <1>4, <3>2 DEF IndexInv, TypeOK, Request
    <3> QED BY <3>1, <3>2
  <2> HIDE DEF found
  <2> QED BY <1>1, <2>2, <2>3, <2>4, StepKeeps
<1> QED BY <1>3, <1>4 DEF ReadTile

(* What a request that has seen all its files knows.                       *)
LEMMA Found ==
  ASSUME IndexInv, NEW q \in Requests, req[q].pc # "idle", req[q].todo = {},
         req[q].pc \notin {"open", "read"}
  PROVE  /\ req[q] \in Request /\ req[q].tile \in Tiles /\ req[q].status = "none"
         /\ req[q].found \in Finding /\ req[q].found.got \subseteq present
         /\ req[q].found.got \subseteq OverlappingFiles(req[q].tile)
         /\ req[q].found.got = Holding(req[q].tile, Files \ req[q].found.missed)
<1>1. Pending(q) = {}
  BY DEF Pending
<1>2. req[q] \in Request /\ req[q].tile \in Tiles /\ req[q].found \in Finding /\ Progress(q)
  BY DEF IndexInv, TypeOK, Request
<1>3. req[q].found.missed \cup {} = req[q].found.missed
  OBVIOUS
<1> QED BY <1>1, <1>2, <1>3 DEF Progress, Holding

(* What is merged is all there was; its absence or failure has a reason.   *)
LEMMA CollectKeeps == ASSUME IndexInv, NEW q \in Requests, Collect(q) PROVE IndexInv'
<1> DEFINE t == req[q].tile
           found == req[q].found
           got == req[q].found.got
           accepts == req[q].acceptsGzip
<1>1. /\ req[q].pc = "next" /\ req[q].todo = {}
      /\ UNCHANGED <<present, stored, readers, compressed, server>>
  BY DEF Collect, Is
<1>2. /\ req[q] \in Request /\ t \in Tiles /\ got = Holding(t, Files \ found.missed)
      /\ found \in Finding /\ got \subseteq OverlappingFiles(t) /\ got \subseteq present
      /\ req[q].status = "none"
  BY <1>1, Found
<1>3. CASE Empty(t, got)
  <2>1. ASSUME NEW f \in got PROVE stored[f][t].layers = {} /\ ~Single(t)
    <3>1. Cardinality(got) > 1 /\ LayersOf(t, got) = {}
      BY <1>3, <2>1 DEF Empty
    <3>2. ~Single(t)
      <4> SUFFICES ASSUME Single(t) PROVE FALSE
          OBVIOUS
      <4>1. Cardinality(got) <= 1
        BY <1>2, SingleFile
      <4>2. Cardinality(got) \in Nat
        BY <1>2, FilesFinite, FS_Subset, FS_CardinalityType
      <4> QED BY <3>1, <4>1, <4>2
    <3> QED BY <3>1, <3>2, <2>1 DEF LayersOf
  <2>2. NoneMatches(t, found)
    BY <1>2, <2>1 DEF NoneMatches
  <2>3. Answer(q, "204", found)
    BY <1>3 DEF Collect
  <2> QED BY <1>1, <1>2, <2>2, <2>3, AnswerKeeps DEF Statuses
<1>4. CASE ~Empty(t, got) /\ Unusable(t, got, accepts)
  <2>1. \/ \E f \in got : ~Inflates(stored[f][t]) \/ ~stored[f][t].parses
        \/ ~Agree(LayersOf(t, got))
    BY <1>4 DEF Unusable, Merges
  <2>2. ErrorMatches(t, found)
    BY <1>2, <2>1 DEF ErrorMatches
  <2>3. Answer(q, "500", found)
    BY <1>4 DEF Collect
  <2> QED BY <1>1, <1>2, <2>2, <2>3, AnswerKeeps DEF Statuses
<1>5. CASE ~Empty(t, got) /\ ~Unusable(t, got, accepts)
  <2>1. got # {}
    BY <1>5 DEF Empty
  <2>2. TileMatches(t, found)
    BY <1>2, <2>1 DEF TileMatches
  <2>3. CASE Answer(q, "200", found)
    BY <1>1, <1>2, <2>2, <2>3, AnswerKeeps DEF Statuses
  <2>4. CASE Goto(q, "lookup")
    <3> DEFINE r == [req[q] EXCEPT !.pc = "lookup"]
    <3>1. /\ r \in Request /\ r.pc = "lookup" /\ r.status = "none" /\ r.tile = t
          /\ r.todo = {} /\ r.found = found
      BY <1>1, <1>2 DEF Request
    <3>2. req' = [req EXCEPT ![q] = r]
      BY <2>4 DEF Goto, IndexInv, TypeOK
    <3> HIDE DEF r
    <3>3. /\ {} = r.todo \cup IF r.pc \in {"open", "read"} THEN {r.file} ELSE {}
          /\ r.found.missed \cup {} = found.missed
      BY <3>1
    <3>4. /\ r.found.got = Holding(r.tile, Files \ (r.found.missed \cup {}))
          /\ r.found.got \subseteq present /\ r.found.got # {} /\ r.tile \in Tiles
      BY <1>2, <2>1, <3>1, <3>3
    <3> QED BY <1>1, <3>1, <3>2, <3>3, <3>4, GoesOn
  <2> QED BY <1>5, <2>3, <2>4 DEF Collect
<1> QED BY <1>3, <1>4, <1>5

(* A compressed copy is sent only if there is one.                         *)
LEMMA LookupKeeps == ASSUME IndexInv, NEW q \in Requests, LookupCompressed(q) PROVE IndexInv'
<1> DEFINE t == req[q].tile
<1>1. /\ req[q].pc = "lookup" /\ UNCHANGED <<present, stored, readers, compressed, server>>
  BY DEF LookupCompressed, Is
<1>2. req[q].todo = {} /\ req[q].found.got # {}
  BY <1>1 DEF IndexInv, Progress
<1>3. CASE compressed[t] # Nothing
  <2>1. /\ TileMatches(t, compressed[t]) /\ compressed[t] \in Finding
    BY <1>1, <1>2, <1>3, Found DEF IndexInv, CopiesMatch, TypeOK
  <2> QED BY <1>1, <1>2, <1>3, <2>1, Found, AnswerKeeps DEF LookupCompressed, Statuses
<1>4. CASE compressed[t] = Nothing
  <2> DEFINE r == [req[q] EXCEPT !.pc = "compress"]
  <2>1. /\ r \in Request /\ r.pc = "compress" /\ r.status = "none" /\ r.tile = t
        /\ r.todo = {} /\ r.found = req[q].found
    BY <1>1, <1>2, Found DEF Request
  <2>2. req' = [req EXCEPT ![q] = r]
    BY <1>4 DEF LookupCompressed, Goto, IndexInv, TypeOK
  <2> HIDE DEF r
  <2>3. /\ {} = r.todo \cup IF r.pc \in {"open", "read"} THEN {r.file} ELSE {}
        /\ r.found.missed \cup {} = req[q].found.missed
    BY <2>1
  <2>4. /\ r.found.got = Holding(r.tile, Files \ (r.found.missed \cup {}))
        /\ r.found.got \subseteq present /\ r.found.got # {} /\ r.tile \in Tiles
    BY <1>1, <1>2, <2>1, <2>3, Found
  <2> QED BY <1>1, <2>1, <2>2, <2>3, <2>4, GoesOn
<1> QED BY <1>3, <1>4

(* What is kept compressed, if it can be, is what was merged.              *)
LEMMA StoreKeeps == ASSUME IndexInv, NEW q \in Requests, StoreCompressed(q) PROVE IndexInv'
<1> DEFINE t == req[q].tile
           found == req[q].found
           r == [Idle EXCEPT !.tile = t, !.status = "200", !.found = found]
<1>1. /\ req[q].pc = "compress" /\ UNCHANGED <<present, stored, readers, server>>
      /\ compressed' = [compressed EXCEPT ![t] = found] \/ compressed' = compressed
      /\ req' = [req EXCEPT ![q] = r]
  BY DEF StoreCompressed, Is, Answer
<1>2. req[q].todo = {} /\ found.got # {}
  BY <1>1 DEF IndexInv, Progress
<1>3. /\ t \in Tiles /\ found \in Finding /\ TileMatches(t, found)
  BY <1>1, <1>2, Found DEF TileMatches
<1>4. /\ r.pc = "idle" /\ r.tile = t /\ r.status = "200" /\ r.found = found /\ r \in Request
  BY <1>3 DEF Idle, Request, Statuses
<1> HIDE DEF r
<1>5. /\ req' \in [Requests -> Request] /\ req'[q] = r
      /\ \A p \in Requests : p # q => req'[p] = req[p]
  BY <1>1, <1>4 DEF IndexInv, TypeOK
<1>6. TypeOK'
  BY <1>1, <1>3, <1>4, <1>5 DEF IndexInv, TypeOK, readers
<1>7. NoReaderLost' /\ CachedOpen'
  BY <1>1 DEF IndexInv, readers, NoReaderLost, CachedOpen, Opens
<1>8. CopiesMatch'
  <2>1. \A u \in Tiles : compressed'[u] = compressed[u] \/ (u = t /\ compressed'[u] = found)
    BY <1>1 DEF IndexInv, TypeOK
  <2> QED BY <1>1, <1>3, <2>1 DEF IndexInv, CopiesMatch, TileMatches, Holding
<1>9. Progress(q)' /\ Matches(q)'
  BY <1>1, <1>3, <1>4, <1>5 DEF Progress, Matches, TileMatches, Holding
<1>10. \A p \in Requests : p # q => Progress(p)' /\ Matches(p)'
  BY <1>1, <1>5, Frame
<1> QED BY <1>6, <1>7, <1>8, <1>9, <1>10 DEF IndexInv

(* A file is delivered: no answer claimed its absence.                     *)
LEMMA AppearKeeps == ASSUME IndexInv, NEW f \in Files, Appear(f) PROVE IndexInv'
<1>1. /\ present' = present \cup {f}
      /\ UNCHANGED <<stored, cache, opened, live, compressed, req, server>>
  BY DEF Appear, readers
<1>2. TypeOK' /\ NoReaderLost' /\ CachedOpen'
  BY <1>1 DEF IndexInv, TypeOK, NoReaderLost, CachedOpen, Opens
<1>3. CopiesMatch'
  BY <1>1 DEF IndexInv, CopiesMatch, TileMatches, Holding
<1>4. \A p \in Requests : Progress(p)' /\ Matches(p)'
  BY <1>1, Frame
<1> QED BY <1>2, <1>3, <1>4 DEF IndexInv

(* A copy is evicted.                                                      *)
LEMMA EvictKeeps == ASSUME IndexInv, NEW t \in Tiles, Evict(t) PROVE IndexInv'
<1>1. /\ compressed' = [compressed EXCEPT ![t] = Nothing]
      /\ UNCHANGED <<present, stored, cache, opened, live, req, server>>
  BY DEF Evict, readers
<1>2. Nothing \in Finding
  BY DEF Nothing, Finding
<1>3. TypeOK' /\ NoReaderLost' /\ CachedOpen'
  BY <1>1, <1>2 DEF IndexInv, TypeOK, NoReaderLost, CachedOpen, Opens
<1>4. CopiesMatch'
  BY <1>1 DEF IndexInv, TypeOK, CopiesMatch, TileMatches, Holding
<1>5. \A p \in Requests : Progress(p)' /\ Matches(p)'
  BY <1>1, Frame
<1> QED BY <1>3, <1>4, <1>5 DEF IndexInv

(* The server stops, and the index closes every reader.                    *)
LEMMA StopKeeps == ASSUME IndexInv, Shutdown \/ Close PROVE IndexInv'
<1>1. UNCHANGED <<present, stored, opened, compressed, req>>
  BY DEF Shutdown, Close, readers
<1>2. TypeOK' /\ NoReaderLost' /\ CachedOpen'
  <2>1. CASE Shutdown
    BY <1>1, <2>1 DEF Shutdown, readers, IndexInv, TypeOK, NoReaderLost, CachedOpen, Opens
  <2>2. CASE Close
    <3>1. live' = {} /\ cache' = [f \in Files |-> 0] /\ server' = "closed"
      BY <2>2 DEF Close, IndexInv, NoReaderLost
    <3> QED BY <1>1, <3>1 DEF IndexInv, TypeOK, NoReaderLost, CachedOpen
  <2> QED BY <2>1, <2>2
<1>3. CopiesMatch'
  BY <1>1 DEF IndexInv, CopiesMatch, TileMatches, Holding
<1>4. \A p \in Requests : Progress(p)' /\ Matches(p)'
  BY <1>1, Frame
<1> QED BY <1>2, <1>3, <1>4 DEF IndexInv

----------------------------------------------------------------------------
(* The theorems.                                                           *)

(* The inductive invariant: requests have what the files they have seen    *)
(* hold, cached readers are those that are open, copies match the files.   *)
THEOREM IndexInvariant == Spec => []IndexInv
<1>1. Init => IndexInv
  <2> SUFFICES ASSUME Init PROVE IndexInv
      OBVIOUS
  <2>1. Idle \in Request /\ Idle.pc = "idle" /\ Idle.status = "none"
    BY DEF Idle, Nothing, Request, Finding, Statuses
  <2>2. \A q \in Requests : req[q] = Idle
    BY DEF Init
  <2>3. TypeOK
    BY <2>1, <2>2 DEF Init, TypeOK, Nothing, Finding
  <2>4. NoReaderLost /\ CachedOpen /\ CopiesMatch
    BY DEF Init, NoReaderLost, CachedOpen, CopiesMatch
  <2>5. \A q \in Requests : Progress(q) /\ Matches(q)
    BY <2>1, <2>2 DEF Progress, Matches
  <2> QED BY <2>3, <2>4, <2>5 DEF IndexInv
<1>2. IndexInv /\ [Next]_vars => IndexInv'
  <2> SUFFICES ASSUME IndexInv, [Next]_vars PROVE IndexInv'
      OBVIOUS
  <2>1. ASSUME NEW q \in Requests, Serve(q) PROVE IndexInv'
    BY <2>1, AskKeeps, FindReaderKeeps, OpenReaderKeeps, ReadTileKeeps, CollectKeeps, LookupKeeps,
       StoreKeeps DEF Serve
  <2>2. CASE \E f \in Files : Appear(f)
    BY <2>2, AppearKeeps
  <2>3. CASE \E t \in Tiles : Evict(t)
    BY <2>3, EvictKeeps
  <2>4. CASE Shutdown \/ Close
    BY <2>4, StopKeeps
  <2>5. CASE UNCHANGED vars
    <3>1. \A p \in Requests : Progress(p)' /\ Matches(p)'
      BY <2>5, Frame DEF vars
    <3>2. TypeOK' /\ NoReaderLost' /\ CachedOpen' /\ CopiesMatch'
      BY <2>5 DEF IndexInv, vars, readers, TypeOK, NoReaderLost, CachedOpen, Opens, CopiesMatch,
                  TileMatches, Holding
    <3> QED BY <3>1, <3>2 DEF IndexInv
  <2> QED BY <2>1, <2>2, <2>3, <2>4, <2>5 DEF Next
<1> QED BY <1>1, <1>2, PTL DEF Spec

(* The types, for any constants.                                           *)
THEOREM IndexTypes == Spec => []TypeOK
<1>1. IndexInv => TypeOK
  BY DEF IndexInv
<1> QED BY <1>1, IndexInvariant, PTL

(* A file is opened once, and Close reaches every open reader.             *)
THEOREM ReadersAreKept == Spec => []NoReaderLost
<1>1. IndexInv => NoReaderLost
  BY DEF IndexInv
<1> QED BY <1>1, IndexInvariant, PTL

(* Every answer is what the files hold, for any number of requests and files. *)
THEOREM AnswersAreRight == Spec => []AnswersMatchFiles
<1>1. IndexInv => AnswersMatchFiles
  BY DEF IndexInv, Matches, AnswersMatchFiles
<1> QED BY <1>1, IndexInvariant, PTL

----------------------------------------------------------------------------
(* The grid.  Bands of cells lie between the parallels, columns of cells   *)
(* divide the world in 36; no band is as low as a tile of zoom 7, and no   *)
(* column as narrow, so a tile meets the bands and columns of its corners  *)
(* and no others.                                                          *)

LEMMA ParallelValues ==
      /\ Parallel[1] = 7357 /\ Parallel[2] = 14666 /\ Parallel[3] = 19031 /\ Parallel[4] = 22226
      /\ Parallel[5] = 24810 /\ Parallel[6] = 27038 /\ Parallel[7] = 29050 /\ Parallel[8] = 30938
      /\ Parallel[9] = 32768 /\ Parallel[10] = 34597 /\ Parallel[11] = 36485 /\ Parallel[12] = 38497
      /\ Parallel[13] = 40725 /\ Parallel[14] = 43309 /\ Parallel[15] = 46504 /\ Parallel[16] = 50869
      /\ Parallel[17] = 58178
BY DEF Parallel

LEMMA ParallelsInOrder ==
  /\ DOMAIN Parallel = 1..17
  /\ \A i \in 1..17 : Parallel[i] \in Nat
  /\ \A i \in 1..17 : \A j \in 1..17 : i < j => Parallel[i] + 512 < Parallel[j]
<1>1. ASSUME NEW i \in 1..17 PROVE Parallel[i] \in Nat
  <2>1. \/ i = 1 \/ i = 2 \/ i = 3 \/ i = 4 \/ i = 5 \/ i = 6 \/ i = 7 \/ i = 8 \/ i = 9
           \/ i = 10 \/ i = 11 \/ i = 12 \/ i = 13 \/ i = 14 \/ i = 15 \/ i = 16 \/ i = 17
    OBVIOUS
  <2> QED BY <2>1, ParallelValues
<1>2. ASSUME NEW i \in 1..17, NEW j \in 1..17, i < j PROVE Parallel[i] + 512 < Parallel[j]
  BY <1>2, ParallelValues
<1>3. DOMAIN Parallel = 1..17
  BY DEF Parallel
<1> QED BY <1>1, <1>2, <1>3

\* The band of row y of zoom 16: it has crossed n parallels and no more.
Above(n, y) == n > 0  => Parallel[n] < y
Below(n, y) == n < 17 => y <= Parallel[n + 1]

BandOf(y) == Cardinality({i \in DOMAIN Parallel : Parallel[i] < y})

LEMMA BandOfRow ==
  ASSUME NEW y \in Nat
  PROVE  BandOf(y) \in 0..17 /\ Above(BandOf(y), y) /\ Below(BandOf(y), y)
<1>1. PICK n \in 0..17 : Above(n, y) /\ Below(n, y)
  <2>1. \E n \in {0, 1, 2, 3, 4, 5, 6, 7, 8, 9, 10, 11, 12, 13, 14, 15, 16, 17} :
            Above(n, y) /\ Below(n, y)
    BY ParallelValues DEF Above, Below
  <2> QED BY <2>1
<1>2. {i \in DOMAIN Parallel : Parallel[i] < y} = 1..n
  <2>1. ASSUME NEW i \in 1..n PROVE Parallel[i] < y
    <3>1. i = n \/ Parallel[i] + 512 < Parallel[n]
      BY ParallelsInOrder
    <3> QED BY <1>1, <3>1, ParallelsInOrder DEF Above
  <2>2. ASSUME NEW i \in 1..17, i > n PROVE ~(Parallel[i] < y)
    <3>1. i = n + 1 \/ Parallel[n + 1] + 512 < Parallel[i]
      BY <2>2, ParallelsInOrder
    <3>2. n + 1 \in 1..17 /\ Parallel[n + 1] \in Nat /\ Parallel[i] \in Nat
      BY <2>2, ParallelsInOrder
    <3> QED BY <1>1, <2>2, <3>1, <3>2 DEF Below
  <2> QED BY <2>1, <2>2, ParallelsInOrder
<1>3. n \in Int /\ 1 \in Int
  OBVIOUS
<1>4. Cardinality(1..n) = IF 1 > n THEN 0 ELSE n - 1 + 1
  BY <1>3, FS_Interval
<1>5. Cardinality({i \in DOMAIN Parallel : Parallel[i] < y}) = Cardinality(1..n)
  BY <1>2
<1>6. Cardinality({i \in DOMAIN Parallel : Parallel[i] < y}) = n
  BY <1>4, <1>5
<1> QED BY <1>1, <1>6 DEF BandOf

\* The rows between which band k of cells lies.
LEMMA BordersOfBand ==
  ASSUME NEW k \in 0..17
  PROVE  /\ North(80 - 10 * k) = IF k = 0 THEN 0 ELSE Parallel[k]
         /\ South(80 - 10 * k) = IF k = 17 THEN 65536 ELSE Parallel[k + 1]
<1>1. (80 - (80 - 10 * k)) \div 10 = k /\ (90 - (80 - 10 * k)) \div 10 = k + 1
  OBVIOUS
<1>2. (80 - 10 * k = 80 <=> k = 0) /\ (80 - 10 * k = -90 <=> k = 17)
  OBVIOUS
<1>3. 2^16 = 65536
  OBVIOUS
<1>4. North(80 - 10 * k) = IF k = 0 THEN 0 ELSE Parallel[k]
  BY <1>1, <1>2 DEF North
<1>5. South(80 - 10 * k) = IF k = 17 THEN 65536 ELSE Parallel[k + 1]
  BY <1>1, <1>2, <1>3 DEF South
<1> QED BY <1>4, <1>5

\* A range of up to 512 rows meets the bands of its ends and no other.
RowsFit(a, b)      == a < b /\ b <= a + 512 /\ b <= 65536
BandMeets(a, b, k) == a <= South(80 - 10 * k) /\ b > North(80 - 10 * k)

LEMMA BandsOfRange ==
  ASSUME NEW a \in Nat, NEW b \in Nat, RowsFit(a, b),
         NEW m \in 0..17, Above(m, a), Below(m, a),
         NEW n \in 0..17, Above(n, b), Below(n, b)
  PROVE  \A k \in 0..17 : BandMeets(a, b, k) <=> k \in {m, n}
<1> TAKE k \in 0..17
<1>1. /\ North(80 - 10 * k) = IF k = 0 THEN 0 ELSE Parallel[k]
      /\ South(80 - 10 * k) = IF k = 17 THEN 65536 ELSE Parallel[k + 1]
  BY BordersOfBand
<1>2. /\ \A i \in 1..17 : Parallel[i] \in Nat
      /\ \A i \in 1..17 : \A j \in 1..17 : i < j => Parallel[i] + 512 < Parallel[j]
  BY ParallelsInOrder
<1>3. CASE k = m
  <2>1. k < 17 => a <= Parallel[k + 1]
    BY <1>3 DEF Below
  <2>2. k > 0 => Parallel[k] < a
    BY <1>3 DEF Above
  <2>3. k > 0 => Parallel[k] \in Nat
    BY <1>2
  <2> QED BY <1>1, <1>3, <2>1, <2>2, <2>3 DEF RowsFit, BandMeets
<1>4. CASE k = n
  <2>1. k < 17 => b <= Parallel[k + 1] /\ Parallel[k + 1] \in Nat
    BY <1>2, <1>4 DEF Below
  <2>2. k > 0 => Parallel[k] < b
    BY <1>4 DEF Above
  <2> QED BY <1>1, <1>4, <2>1, <2>2 DEF RowsFit, BandMeets
<1>5. ASSUME k # m, k # n, BandMeets(a, b, k) PROVE FALSE
  <2>1. CASE k < m
    <3>1. m \in 1..17 /\ k + 1 \in 1..17 /\ Parallel[m] < a /\ a <= Parallel[k + 1]
      BY <1>1, <1>5, <2>1 DEF Above, BandMeets
    <3>2. m = k + 1 \/ Parallel[k + 1] + 512 < Parallel[m]
      BY <1>2, <2>1, <3>1
    <3>3. Parallel[m] \in Nat /\ Parallel[k + 1] \in Nat
      BY <1>2, <3>1
    <3> QED BY <3>1, <3>2, <3>3
  <2>2. CASE k > n
    <3>1. k \in 1..17 /\ n + 1 \in 1..17 /\ b <= Parallel[n + 1] /\ b > Parallel[k]
      BY <1>1, <1>5, <2>2 DEF Below, BandMeets
    <3>2. k = n + 1 \/ Parallel[n + 1] + 512 < Parallel[k]
      BY <1>2, <2>2, <3>1
    <3>3. Parallel[k] \in Nat /\ Parallel[n + 1] \in Nat
      BY <1>2, <3>1
    <3> QED BY <3>1, <3>2, <3>3
  <2>3. CASE m < k /\ k < n
    <3>1. n \in 1..17 /\ m + 1 \in 1..17 /\ m + 1 < n
      BY <2>3
    <3>2. Parallel[n] < b /\ a <= Parallel[m + 1]
      BY <3>1 DEF Above, Below
    <3>3. Parallel[m + 1] + 512 < Parallel[n]
      BY <1>2, <3>1
    <3>4. Parallel[n] \in Nat /\ Parallel[m + 1] \in Nat
      BY <1>2, <3>1
    <3> QED BY <3>2, <3>3, <3>4 DEF RowsFit
  <2> QED BY <1>5, <2>1, <2>2, <2>3
<1> QED BY <1>3, <1>4, <1>5

LEMMA BandsOfRows ==
  ASSUME NEW a \in Nat, NEW b \in Nat, RowsFit(a, b)
  PROVE  \E m, n \in 0..17 :
           /\ m = BandOf(a) /\ n = BandOf(b)
           /\ \A k \in 0..17 : BandMeets(a, b, k) <=> k \in {m, n}
<1>1. PICK m \in 0..17 : m = BandOf(a) /\ Above(m, a) /\ Below(m, a)
  BY BandOfRow
<1>2. PICK n \in 0..17 : n = BandOf(b) /\ Above(n, b) /\ Below(n, b)
  BY BandOfRow
<1>3. \A k \in 0..17 : BandMeets(a, b, k) <=> k \in {m, n}
  BY <1>1, <1>2, BandsOfRange
<1> QED BY <1>1, <1>2, <1>3
\* What a zoom makes of the grid: 2^z columns, and rows of zoom 16 in each row of tiles.
Scales(z, k, s) == 2^z = k /\ 2^(16 - z) = s

LEMMA Powers ==
  ASSUME NEW z \in 7..16
  PROVE  \/ Scales(z, 128, 512) \/ Scales(z, 256, 256)
         \/ Scales(z, 512, 128) \/ Scales(z, 1024, 64)
         \/ Scales(z, 2048, 32) \/ Scales(z, 4096, 16)
         \/ Scales(z, 8192, 8) \/ Scales(z, 16384, 4)
         \/ Scales(z, 32768, 2) \/ Scales(z, 65536, 1)
<1>1. ASSUME z = 7 PROVE Scales(z, 128, 512)
  <2>1. 16 - z = 9
    BY <1>1
  <2> QED BY <1>1, <2>1, SMT DEF Scales
<1>2. ASSUME z = 8 PROVE Scales(z, 256, 256)
  <2>1. 16 - z = 8
    BY <1>2
  <2> QED BY <1>2, <2>1, SMT DEF Scales
<1>3. ASSUME z = 9 PROVE Scales(z, 512, 128)
  <2>1. 16 - z = 7
    BY <1>3
  <2> QED BY <1>3, <2>1, SMT DEF Scales
<1>4. ASSUME z = 10 PROVE Scales(z, 1024, 64)
  <2>1. 16 - z = 6
    BY <1>4
  <2> QED BY <1>4, <2>1, SMT DEF Scales
<1>5. ASSUME z = 11 PROVE Scales(z, 2048, 32)
  <2>1. 16 - z = 5
    BY <1>5
  <2> QED BY <1>5, <2>1, SMT DEF Scales
<1>6. ASSUME z = 12 PROVE Scales(z, 4096, 16)
  <2>1. 16 - z = 4
    BY <1>6
  <2> QED BY <1>6, <2>1, SMT DEF Scales
<1>7. ASSUME z = 13 PROVE Scales(z, 8192, 8)
  <2>1. 16 - z = 3
    BY <1>7
  <2> QED BY <1>7, <2>1, SMT DEF Scales
<1>8. ASSUME z = 14 PROVE Scales(z, 16384, 4)
  <2>1. 16 - z = 2
    BY <1>8
  <2> QED BY <1>8, <2>1, SMT DEF Scales
<1>9. ASSUME z = 15 PROVE Scales(z, 32768, 2)
  <2>1. 16 - z = 1
    BY <1>9
  <2> QED BY <1>9, <2>1, SMT DEF Scales
<1>10. ASSUME z = 16 PROVE Scales(z, 65536, 1)
  <2>1. 16 - z = 0
    BY <1>10
  <2> QED BY <1>10, <2>1, SMT DEF Scales
<1> QED BY <1>1, <1>2, <1>3, <1>4, <1>5, <1>6, <1>7, <1>8, <1>9, <1>10

\* The rows of zoom 16 that a tile covers.
LEMMA RowsOfTile ==
  ASSUME NEW z \in 7..16, NEW y \in Nat, y < 2^z
  PROVE  /\ y * 2^(16 - z) \in Nat /\ (y + 1) * 2^(16 - z) \in Nat
         /\ RowsFit(y * 2^(16 - z), (y + 1) * 2^(16 - z))
<1> DEFINE Covers(s) == y * s \in Nat /\ (y + 1) * s \in Nat /\ RowsFit(y * s, (y + 1) * s)
<1>1. CASE Scales(z, 128, 512)
  <2>1. y < 128
    BY <1>1 DEF Scales
  <2>2. Covers(512)
    BY <2>1 DEF RowsFit
  <2> QED BY <1>1, <2>2 DEF Scales
<1>2. CASE Scales(z, 256, 256)
  <2>1. y < 256
    BY <1>2 DEF Scales
  <2>2. Covers(256)
    BY <2>1 DEF RowsFit
  <2> QED BY <1>2, <2>2 DEF Scales
<1>3. CASE Scales(z, 512, 128)
  <2>1. y < 512
    BY <1>3 DEF Scales
  <2>2. Covers(128)
    BY <2>1 DEF RowsFit
  <2> QED BY <1>3, <2>2 DEF Scales
<1>4. CASE Scales(z, 1024, 64)
  <2>1. y < 1024
    BY <1>4 DEF Scales
  <2>2. Covers(64)
    BY <2>1 DEF RowsFit
  <2> QED BY <1>4, <2>2 DEF Scales
<1>5. CASE Scales(z, 2048, 32)
  <2>1. y < 2048
    BY <1>5 DEF Scales
  <2>2. Covers(32)
    BY <2>1 DEF RowsFit
  <2> QED BY <1>5, <2>2 DEF Scales
<1>6. CASE Scales(z, 4096, 16)
  <2>1. y < 4096
    BY <1>6 DEF Scales
  <2>2. Covers(16)
    BY <2>1 DEF RowsFit
  <2> QED BY <1>6, <2>2 DEF Scales
<1>7. CASE Scales(z, 8192, 8)
  <2>1. y < 8192
    BY <1>7 DEF Scales
  <2>2. Covers(8)
    BY <2>1 DEF RowsFit
  <2> QED BY <1>7, <2>2 DEF Scales
<1>8. CASE Scales(z, 16384, 4)
  <2>1. y < 16384
    BY <1>8 DEF Scales
  <2>2. Covers(4)
    BY <2>1 DEF RowsFit
  <2> QED BY <1>8, <2>2 DEF Scales
<1>9. CASE Scales(z, 32768, 2)
  <2>1. y < 32768
    BY <1>9 DEF Scales
  <2>2. Covers(2)
    BY <2>1 DEF RowsFit
  <2> QED BY <1>9, <2>2 DEF Scales
<1>10. CASE Scales(z, 65536, 1)
  <2>1. y < 65536
    BY <1>10 DEF Scales
  <2>2. Covers(1)
    BY <2>1 DEF RowsFit
  <2> QED BY <1>10, <2>2 DEF Scales
<1> QED BY Powers, <1>1, <1>2, <1>3, <1>4, <1>5, <1>6, <1>7, <1>8, <1>9, <1>10

\* Column j of cells and the tiles [x, x + 1) of k columns, in units of 1/36 and 1/k of the world.
Meets(x, k, j)   == 36 * x < (j + 1) * k /\ 36 * (x + 1) > j * k
Touches(x, k, j) == Meets(x, k, j) \/ 36 * (x + 1) = j * k

\* A tile meets the columns of its corners at most, and touches both.
LEMMA ColumnsOfTile ==
  ASSUME NEW z \in 7..16, NEW x \in Nat, x < 2^z
  PROVE  /\ (36 * x) \div 2^z \in 0..36 /\ (36 * (x + 1)) \div 2^z \in 0..36
         /\ \A j \in 0..35 : Meets(x, 2^z, j) => \/ j = (36 * x) \div 2^z
                                                 \/ j = (36 * (x + 1)) \div 2^z
         /\ Touches(x, 2^z, (36 * x) \div 2^z) /\ Touches(x, 2^z, (36 * (x + 1)) \div 2^z)
<1> DEFINE Fits(k) ==
             /\ (36 * x) \div k \in 0..36 /\ (36 * (x + 1)) \div k \in 0..36
             /\ \A j \in 0..35 : Meets(x, k, j) => \/ j = (36 * x) \div k
                                                   \/ j = (36 * (x + 1)) \div k
             /\ Touches(x, k, (36 * x) \div k) /\ Touches(x, k, (36 * (x + 1)) \div k)
<1>1. CASE Scales(z, 128, 512)
  <2>1. x < 128
    BY <1>1 DEF Scales
  <2>2. Fits(128)
    BY <2>1 DEF Meets, Touches
  <2> QED BY <1>1, <2>2 DEF Scales
<1>2. CASE Scales(z, 256, 256)
  <2>1. x < 256
    BY <1>2 DEF Scales
  <2>2. Fits(256)
    BY <2>1 DEF Meets, Touches
  <2> QED BY <1>2, <2>2 DEF Scales
<1>3. CASE Scales(z, 512, 128)
  <2>1. x < 512
    BY <1>3 DEF Scales
  <2>2. Fits(512)
    BY <2>1 DEF Meets, Touches
  <2> QED BY <1>3, <2>2 DEF Scales
<1>4. CASE Scales(z, 1024, 64)
  <2>1. x < 1024
    BY <1>4 DEF Scales
  <2>2. Fits(1024)
    BY <2>1 DEF Meets, Touches
  <2> QED BY <1>4, <2>2 DEF Scales
<1>5. CASE Scales(z, 2048, 32)
  <2>1. x < 2048
    BY <1>5 DEF Scales
  <2>2. Fits(2048)
    BY <2>1 DEF Meets, Touches
  <2> QED BY <1>5, <2>2 DEF Scales
<1>6. CASE Scales(z, 4096, 16)
  <2>1. x < 4096
    BY <1>6 DEF Scales
  <2>2. Fits(4096)
    BY <2>1 DEF Meets, Touches
  <2> QED BY <1>6, <2>2 DEF Scales
<1>7. CASE Scales(z, 8192, 8)
  <2>1. x < 8192
    BY <1>7 DEF Scales
  <2>2. Fits(8192)
    BY <2>1 DEF Meets, Touches
  <2> QED BY <1>7, <2>2 DEF Scales
<1>8. CASE Scales(z, 16384, 4)
  <2>1. x < 16384
    BY <1>8 DEF Scales
  <2>2. Fits(16384)
    BY <2>1 DEF Meets, Touches
  <2> QED BY <1>8, <2>2 DEF Scales
<1>9. CASE Scales(z, 32768, 2)
  <2>1. x < 32768
    BY <1>9 DEF Scales
  <2>2. Fits(32768)
    BY <2>1 DEF Meets, Touches
  <2> QED BY <1>9, <2>2 DEF Scales
<1>10. CASE Scales(z, 65536, 1)
  <2>1. x < 65536
    BY <1>10 DEF Scales
  <2>2. Fits(65536)
    BY <2>1 DEF Meets, Touches
  <2> QED BY <1>10, <2>2 DEF Scales
<1> QED BY Powers, <1>1, <1>2, <1>3, <1>4, <1>5, <1>6, <1>7, <1>8, <1>9, <1>10
\* The cell of column j and band k.
Cell(k, j) == [lat |-> 80 - 10 * k, lon |-> 10 * (j - 18)]

LEMMA CellsAre == \A c \in Cells : \E k \in 0..17 : \E j \in 0..35 : c = Cell(k, j)
<1> SUFFICES ASSUME NEW c \in Cells PROVE \E k \in 0..17 : \E j \in 0..35 : c = Cell(k, j)
  OBVIOUS
<1>1. PICK lat \in {10 * i : i \in -9..8}, lon \in {10 * i : i \in -18..17} :
          c = [lat |-> lat, lon |-> lon]
  BY DEF Cells
<1>2. PICK m \in -9..8 : lat = 10 * m
  OBVIOUS
<1>3. PICK n \in -18..17 : lon = 10 * n
  OBVIOUS
<1>4. 8 - m \in 0..17 /\ n + 18 \in 0..35
  OBVIOUS
<1>5. lat = 80 - 10 * (8 - m) /\ lon = 10 * ((n + 18) - 18)
  BY <1>2, <1>3
<1>6. c = Cell(8 - m, n + 18)
  BY <1>1, <1>5, SMTT(30) DEF Cell
<1> QED BY <1>4, <1>6

\* The corners of a tile lie in the bands m and n and the columns c and d, and the
\* reference asks no more of a cell.
Judged(t, m, n, c, d, k, j) ==
  /\ RowsMeet(t, Cell(k, j)) <=> k \in {m, n}
  /\ j \in 0..35 /\ ColumnsMeet(t, Cell(k, j)) => j = c \/ j = d
  /\ j = c \/ j = d => ColumnsTouch(t, Cell(k, j))

CornersAt(t, m, n, c, d) ==
  /\ snapToGrid(t.z, t.x, t.y) = Cell(m, c)
  /\ snapToGrid(t.z, t.x + 1, t.y) = Cell(m, d)
  /\ snapToGrid(t.z, t.x, t.y + 1) = Cell(n, c)
  /\ snapToGrid(t.z, t.x + 1, t.y + 1) = Cell(n, d)
  /\ \A k \in 0..17, j \in 0..36 : Judged(t, m, n, c, d, k, j)

LEMMA CellsOfTile ==
  ASSUME NEW z \in 7..16, NEW x \in Nat, NEW y \in Nat, x < 2^z, y < 2^z
  PROVE  \E m \in 0..17, n \in 0..17, c \in 0..36, d \in 0..36 :
            CornersAt([z |-> z, x |-> x, y |-> y], m, n, c, d)
<1> DEFINE t == [z |-> z, x |-> x, y |-> y]
<1>1. t.z = z /\ t.x = x /\ t.y = y
  OBVIOUS
<1> HIDE DEF t
<1>2. PICK a \in Nat, b \in Nat : a = y * 2^(16 - z) /\ b = (y + 1) * 2^(16 - z) /\ RowsFit(a, b)
  BY RowsOfTile, Zenon
<1>3. PICK c \in 0..36, d \in 0..36 :
           /\ c = (36 * x) \div 2^z /\ d = (36 * (x + 1)) \div 2^z
           /\ \A j \in 0..35 : Meets(x, 2^z, j) => j = c \/ j = d
           /\ Touches(x, 2^z, c) /\ Touches(x, 2^z, d)
  BY ColumnsOfTile, Zenon
<1>4. PICK m, n \in 0..17 :
           /\ m = BandOf(a) /\ n = BandOf(b)
           /\ \A k \in 0..17 : BandMeets(a, b, k) <=> k \in {m, n}
  <2>1. RowsFit(a, b)
    BY <1>2
  <2> QED BY <2>1, BandsOfRows
<1>5. /\ snapToGrid(z, x, y) = Cell(m, c)
      /\ snapToGrid(z, x + 1, y) = Cell(m, d)
      /\ snapToGrid(z, x, y + 1) = Cell(n, c)
      /\ snapToGrid(z, x + 1, y + 1) = Cell(n, d)
  <2>1. \A u, v : snapToGrid(z, u, v) = Cell(BandOf(v * 2^(16 - z)), (36 * u) \div 2^z)
    BY Zenon DEF snapToGrid, Cell, BandOf
  <2> QED BY <1>2, <1>3, <1>4, <2>1, Zenon
<1>6. ASSUME NEW k \in 0..17, NEW j \in 0..36 PROVE Judged(t, m, n, c, d, k, j)
  <2>1. Cell(k, j).lat = 80 - 10 * k /\ Cell(k, j).lon = 10 * (j - 18)
    BY DEF Cell
  <2>2. RowsMeet(t, Cell(k, j)) <=> BandMeets(a, b, k)
    BY <1>1, <1>2, <2>1, Zenon DEF RowsMeet, BandMeets
  <2>3. BandMeets(a, b, k) <=> k \in {m, n}
    BY <1>4, Zenon
  <2>4. Cell(k, j).lon \div 10 + 19 = j + 1 /\ Cell(k, j).lon \div 10 + 18 = j
    BY <2>1
  <2>5. ColumnsMeet(t, Cell(k, j)) <=> Meets(x, 2^z, j)
    BY <1>1, <2>4 DEF ColumnsMeet, Meets
  <2>6. ColumnsTouch(t, Cell(k, j)) <=> Touches(x, 2^z, j)
    BY <1>1, <2>4, <2>5, SMTT(30) DEF ColumnsTouch, Touches
  <2> QED BY <1>3, <2>2, <2>3, <2>5, <2>6, Zenon DEF Judged
<1>7. CornersAt(t, m, n, c, d)
  BY <1>1, <1>5, <1>6, Zenon DEF CornersAt
<1> QED BY <1>7, Zenon DEF t

(* The four corners of a tile are enough, for every tile of the zooms that *)
(* are split by the grid: they find each cell whose interior meets the     *)
(* tile, and no cell that does not touch it (getOverlappingFilePaths).     *)
THEOREM CornersAreEnough == \A t \in RegionalTiles : FoundByCorners(t)
<1> SUFFICES ASSUME NEW t \in RegionalTiles PROVE FoundByCorners(t)
  OBVIOUS
<1> DEFINE layer == zoomToLayer(t.z)
<1>1. t.z \in 7..16 /\ t.x \in Nat /\ t.y \in Nat
  BY DEF RegionalTiles
<1>2. layer # "L0"
  <2>1. ~(t.z <= 6)
    BY <1>1, SMTT(30)
  <2> QED BY <2>1, Zenon DEF zoomToLayer
<1>3. PICK m \in 0..17, n \in 0..17, c \in 0..36, d \in 0..36 : CornersAt(t, m, n, c, d)
  <2>1. t = [z |-> t.z, x |-> t.x, y |-> t.y] /\ t.x < 2^t.z /\ t.y < 2^t.z
    BY DEF RegionalTiles
  <2>2. \E m \in 0..17, n \in 0..17, c \in 0..36, d \in 0..36 :
           CornersAt([z |-> t.z, x |-> t.x, y |-> t.y], m, n, c, d)
    BY <1>1, <2>1, CellsOfTile, Zenon
  <2> QED BY <2>1, <2>2, ZenonT(60)
<1>4. OverlappingFiles(t) = {File(layer, Cell(k, j)) : k \in {m, n}, j \in {c, d}}
  <2>1. OverlappingFiles(t) = {File(layer, snapToGrid(t.z, p[1], p[2])) : p \in Corners(t)}
    BY <1>2 DEF OverlappingFiles
  <2>2. Corners(t) = {<<t.x, t.y>>, <<t.x + 1, t.y>>, <<t.x, t.y + 1>>, <<t.x + 1, t.y + 1>>}
    BY DEF Corners
  <2>3. OverlappingFiles(t) =
          {File(layer, snapToGrid(t.z, t.x, t.y)), File(layer, snapToGrid(t.z, t.x + 1, t.y)),
           File(layer, snapToGrid(t.z, t.x, t.y + 1)), File(layer, snapToGrid(t.z, t.x + 1, t.y + 1))}
    BY <2>1, <2>2
  <2>4. {File(layer, Cell(k, j)) : k \in {m, n}, j \in {c, d}} =
          {File(layer, Cell(m, c)), File(layer, Cell(m, d)),
           File(layer, Cell(n, c)), File(layer, Cell(n, d))}
    BY SMTT(30)
  <2>5. /\ snapToGrid(t.z, t.x, t.y) = Cell(m, c)
        /\ snapToGrid(t.z, t.x + 1, t.y) = Cell(m, d)
        /\ snapToGrid(t.z, t.x, t.y + 1) = Cell(n, c)
        /\ snapToGrid(t.z, t.x + 1, t.y + 1) = Cell(n, d)
    BY <1>3, Zenon DEF CornersAt
  <2> QED BY <2>3, <2>4, <2>5
<1>5. ASSUME NEW e \in Cells, RowsMeet(t, e), ColumnsMeet(t, e)
      PROVE  File(layer, e) \in OverlappingFiles(t)
  <2>1. PICK k \in 0..17, j \in 0..35 : e = Cell(k, j)
    BY CellsAre
  <2>2. k \in {m, n} /\ j \in {c, d}
    BY <1>3, <1>5, <2>1 DEF CornersAt, Judged
  <2> QED BY <1>4, <2>1, <2>2
<1>6. ASSUME NEW f \in OverlappingFiles(t) PROVE RowsMeet(t, f) /\ ColumnsTouch(t, f)
  <2>1. PICK k \in {m, n}, j \in {c, d} : f = File(layer, Cell(k, j))
    BY <1>4
  <2>2. RowsMeet(t, Cell(k, j)) /\ ColumnsTouch(t, Cell(k, j))
    BY <1>3 DEF CornersAt, Judged
  <2>3. f.lat = Cell(k, j).lat /\ f.lon = Cell(k, j).lon
    BY <2>1 DEF File
  <2> QED BY <2>2, <2>3 DEF RowsMeet, ColumnsTouch, ColumnsMeet
<1> QED BY <1>5, <1>6 DEF FoundByCorners

(* What the corners find is right for any set of regional tiles, at any    *)
(* time.                                                                   *)
THEOREM CornersAreRight == Spec => []CornersFindCells
<1>1. CornersFindCells
  BY CornersAreEnough, TileIndexAssumption DEF CornersFindCells, Misplaced
<1> QED BY <1>1, PTL
=============================================================================
