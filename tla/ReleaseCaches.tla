--------------------------- MODULE ReleaseCaches ---------------------------
(***************************************************************************)
(* The two caches of files of the active release: rendered styles          *)
(* (internal/server/http_style_release.go, renderCache) and glyphs and     *)
(* sprites (internal/server/http_assets.go). A request holds one release   *)
(* from Acquire to its end; the release may be switched at any moment, so  *)
(* requests of several releases meet in one cache.                         *)
(*                                                                         *)
(* A body is represented by the key of the release it was read from.       *)
(***************************************************************************)
EXTENDS Integers, Sequences, FiniteSetsExt

CONSTANTS
  Requests,
  Keys,     \* Release.Key
  NoKey,
  Paths,    \* paths of files within a release
  Styles,   \* those that are style variants of every manifest
  Stacks,   \* what asset requests ask for: the paths of a font stack, or of one sprite
  Has,      \* Has[k]: the paths that release k has
  Size,     \* Size[k][p]: bytes of the file
  Limit     \* assetCacheLimit

ASSUME CachesAssumption ==
  /\ NoKey \notin Keys
  /\ Styles \subseteq Paths /\ Stacks \subseteq Seq(Paths) \ {<<>>}
  /\ Has \in [Keys -> SUBSET Paths] /\ \A k \in Keys : Styles \subseteq Has[k]
  /\ Size \in [Keys -> [Paths -> Nat]] /\ Limit \in Nat

VARIABLES
  active,     \* key of the holder's release
  pc,         \* where a request is
  kind,       \* the handler that serves it
  held,       \* the release it acquired
  names,      \* the paths it still has to try
  asked,      \* the paths it was asked for
  answer,     \* the body it got, or its status
  renderKey, rendered,            \* renderCache.key, entries
  assetKey, assetBytes, assets    \* AssetHTTPHandler.key, bytes, cache

reqVars == <<pc, kind, held, names, asked, answer>>
renderVars == <<renderKey, rendered>>
assetVars == <<assetKey, assetBytes, assets>>
vars == <<active, reqVars, renderVars, assetVars>>

Nothing == [p \in {} |-> NoKey]
Cached  == UNION {[P -> Keys] : P \in SUBSET Paths}
Status(s)  == [status |-> s, key |-> NoKey, path |-> <<>>]
Body(k, p) == [status |-> "ok", key |-> k, path |-> <<p>>]

TypeOK ==
  /\ active \in Keys \cup {NoKey}
  /\ pc \in [Requests -> {"idle", "lookup", "read", "store"}]
  /\ kind \in [Requests -> {"style", "asset"}]
  /\ held \in [Requests -> Keys \cup {NoKey}]
  /\ \A q \in Requests : pc[q] # "idle" => held[q] # NoKey
  /\ names \in [Requests -> Seq(Paths)] /\ asked \in [Requests -> Seq(Paths)]
  /\ answer \in [Requests -> {Status(s) : s \in {"none", "unavailable", "missing", "failed"}}
                               \cup {Body(k, p) : k \in Keys, p \in Paths}]
  /\ renderKey \in Keys \cup {NoKey} /\ rendered \in Cached
  /\ assetKey \in Keys \cup {NoKey} /\ assets \in Cached /\ assetBytes \in Nat

Init ==
  /\ active = NoKey
  /\ pc = [q \in Requests |-> "idle"] /\ kind = [q \in Requests |-> "style"]
  /\ held = [q \in Requests |-> NoKey]
  /\ names = [q \in Requests |-> <<>>] /\ asked = [q \in Requests |-> <<>>]
  /\ answer = [q \in Requests |-> Status("none")]
  /\ renderKey = NoKey /\ rendered = Nothing
  /\ assetKey = NoKey /\ assets = Nothing /\ assetBytes = 0

\* Holder.Reload switched to another release, or back to an earlier one.
Switch ==
  /\ \E k \in Keys \ {active} : active' = k
  /\ UNCHANGED <<reqVars, renderVars, assetVars>>

\* The handler returns: the response is written, the release given back.
Respond(q, a) ==
  /\ answer' = [answer EXCEPT ![q] = a] /\ pc' = [pc EXCEPT ![q] = "idle"]
  /\ UNCHANGED <<kind, held, names, asked>>

Goto(q, label) ==
  /\ pc' = [pc EXCEPT ![q] = label]
  /\ UNCHANGED <<kind, held, names, asked, answer>>

Loaded == active # NoKey

\* serveReleaseName, serveReleaseVariant, serveGlyphs and serveSprite, up to Acquire.
Acquire(q) ==
  /\ pc[q] = "idle"
  /\ held' = [held EXCEPT ![q] = active]
  /\ \E s \in [kind : {"style"}, want : {<<p>> : p \in Styles}]
              \cup [kind : {"asset"}, want : Stacks] :
       /\ kind' = [kind EXCEPT ![q] = s.kind]
       /\ names' = [names EXCEPT ![q] = s.want] /\ asked' = [asked EXCEPT ![q] = s.want]
  /\ IF Loaded
     THEN answer' = [answer EXCEPT ![q] = Status("none")] /\ pc' = [pc EXCEPT ![q] = "lookup"]
     ELSE answer' = [answer EXCEPT ![q] = Status("unavailable")] /\ UNCHANGED pc
  /\ UNCHANGED <<active, renderVars, assetVars>>

\* Mutant: get does not compare the release.
AnyRendered(k, p) == p \in DOMAIN rendered
IsRendered(k, p)  == renderKey = k /\ p \in DOMAIN rendered

\* renderCache.get
LookupStyle(q) ==
  /\ pc[q] = "lookup" /\ kind[q] = "style"
  /\ LET p == Head(names[q]) IN
       IF IsRendered(held[q], p) THEN Respond(q, Body(rendered[p], p)) ELSE Goto(q, "read")
  /\ UNCHANGED <<active, renderVars, assetVars>>

\* load, first critical section: a request of another release empties the cache.
LookupAsset(q) ==
  /\ pc[q] = "lookup" /\ kind[q] = "asset"
  /\ LET k == held[q]
         p == Head(names[q])
     IN /\ IF assetKey # k
           THEN assetKey' = k /\ assetBytes' = 0 /\ assets' = Nothing
           ELSE UNCHANGED assetVars
        /\ IF p \in DOMAIN assets' THEN Respond(q, Body(assets'[p], p)) ELSE Goto(q, "read")
  /\ UNCHANGED <<active, renderVars>>

\* serveGlyphs goes on to the next font of the stack; the last one missing is a 404.
TryNext(q) ==
  IF Len(names[q]) = 1 THEN Respond(q, Status("missing"))
  ELSE /\ names' = [names EXCEPT ![q] = Tail(@)] /\ pc' = [pc EXCEPT ![q] = "lookup"]
       /\ UNCHANGED <<kind, held, asked, answer>>

\* Mutant: any error sends serveGlyphs to the next font.
SkipBroken(q) == TryNext(q)
GiveUp(q)     == Respond(q, Status("failed"))

\* rel.ReadFile, with no lock held.
Read(q) ==
  /\ pc[q] = "read"
  /\ \/ Head(names[q]) \in Has[held[q]] /\ Goto(q, "store")
     \/ Head(names[q]) \notin Has[held[q]] /\ TryNext(q)
     \/ GiveUp(q)
  /\ UNCHANGED <<active, renderVars, assetVars>>

\* renderCache.put
StoreStyle(q) ==
  /\ pc[q] = "store" /\ kind[q] = "style"
  /\ LET p == Head(names[q])
         kept == IF renderKey = held[q] THEN rendered ELSE Nothing
     IN /\ rendered' = [x \in DOMAIN kept \cup {p} |-> IF x = p THEN held[q] ELSE kept[x]]
        /\ Respond(q, Body(held[q], p))
  /\ renderKey' = held[q]
  /\ UNCHANGED <<active, assetVars>>

\* Mutants: a file of the old release is stored; the copy of a parallel load is counted again.
FitsAnyRelease(k, p) == assetBytes + Size[k][p] <= Limit /\ p \notin DOMAIN assets
FitsAgain(k, p)      == assetKey = k /\ assetBytes + Size[k][p] <= Limit
Fits(k, p) == assetKey = k /\ assetBytes + Size[k][p] <= Limit /\ p \notin DOMAIN assets

\* load, second critical section.
StoreAsset(q) ==
  /\ pc[q] = "store" /\ kind[q] = "asset"
  /\ LET k == held[q]
         p == Head(names[q])
     IN /\ IF Fits(k, p)
           THEN /\ assets' = [x \in DOMAIN assets \cup {p} |-> IF x = p THEN k ELSE assets[x]]
                /\ assetBytes' = assetBytes + Size[k][p]
           ELSE UNCHANGED <<assets, assetBytes>>
        /\ Respond(q, Body(k, p))
  /\ UNCHANGED <<active, assetKey, renderVars>>

Next ==
  \/ Switch
  \/ \E q \in Requests :
       \/ Acquire(q) \/ LookupStyle(q) \/ LookupAsset(q) \/ Read(q)
       \/ StoreStyle(q) \/ StoreAsset(q)

Spec == Init /\ [][Next]_vars

----------------------------------------------------------------------------
(* Properties.                                                             *)

(* "a switch never serves a style of the old release" (renderCache): what  *)
(* a request answers comes from the release it acquired, whatever requests *)
(* of other releases did to the cache between its steps.                   *)
ServesOwnRelease ==
  \A q \in Requests : answer[q].status = "ok" => answer[q].key = held[q]

(* A cache never mixes releases: a load that began under one release and   *)
(* ends after another one took the cache over leaves nothing behind.       *)
OneRelease ==
  /\ \A p \in DOMAIN rendered : rendered[p] = renderKey
  /\ \A p \in DOMAIN assets : assets[p] = assetKey

(* "assetCacheLimit bounds the bytes of assets kept in memory": the bytes  *)
(* counted are those of the files kept, parallel loads of one file and     *)
(* changes of release included, and they stay within the limit.            *)
AssetBudget ==
  /\ assetBytes = MapThenSumSet(LAMBDA p : Size[assets[p]][p], DOMAIN assets)
  /\ assetBytes <= Limit

(* "served from the first font that has the range" (AssetHTTPHandler): no  *)
(* earlier font of the stack has the file, in the release of the request,  *)
(* and a 404 says that none has; a read that fails is not a missing file.  *)
FirstFontWins ==
  \A q \in Requests :
    LET has(i) == asked[q][i] \in Has[held[q]]
    IN /\ answer[q].status = "ok" =>
            \E i \in DOMAIN asked[q] :
              has(i) /\ answer[q].path = <<asked[q][i]>> /\ \A j \in 1..(i - 1) : ~has(j)
       /\ answer[q].status = "missing" => \A i \in DOMAIN asked[q] : ~has(i)
=============================================================================
