------------------------------- MODULE Styles -------------------------------
(***************************************************************************)
(* internal/server/http_style.go and http_style_release.go: which style a  *)
(* name stands for, with legacy files that are edited while they are read  *)
(* through the template cache, and the styles of the active release.       *)
(*                                                                         *)
(* A template's text is identified with the modification time of the edit  *)
(* that wrote it: every edit gets a later one.  What a release style       *)
(* renders to is the subject of ReleaseCaches.                             *)
(***************************************************************************)
EXTENDS Integers, Sequences, SequencesExt, FiniteSetsExt

CONSTANTS
  Requests,
  Files,        \* base names that may exist as <name>.json in stylesDir
  Kinds,        \* of "none", "dir", "link" (to a directory) and "dangling" links: what else they are
  Names,        \* names clients ask for
  Proper,       \* names that match validStyleName
  Versions,
  Number,       \* the value of a version that ParseUint takes, or -1
  Text,         \* the rank of a version among strings
  NoVersion,    \* the version of a URL without one
  Manifests,    \* manifests of releases that become active
  Drafts,       \* manifests for which the choice of styles and versions is examined
  NoRelease,
  MaxEdits

ASSUME StylesAssumption ==
  /\ Number \in [Versions -> Int] /\ Text \in [Versions -> Nat]
  /\ Kinds \subseteq {"none", "dir", "link", "dangling"}
  /\ MaxEdits \in Nat /\ Files \subseteq Names /\ "" \notin Names

VARIABLES
  dir,        \* stylesDir: what is found under each base name
  tmplCache,  \* h.tmplCache: modTime and text by name
  active,     \* the manifest of the active release, or NoRelease
  clock,      \* the modification time of the last edit
  req         \* requests and their answers

vars == <<dir, tmplCache, active, clock, req>>

----------------------------------------------------------------------------
(* Manifests: sequences of [id, version, marked, variants].                *)

styleVariants == <<"light", "dark">>
Variants == Range(styleVariants)

\* Manifest.Validate, as far as styles go.
Validate(m) ==
  /\ \A i \in DOMAIN m : m[i].variants # {} /\ m[i].variants \subseteq Variants
  /\ \A i, j \in DOMAIN m : i # j =>
       /\ <<m[i].id, m[i].version>> # <<m[j].id, m[j].version>>
       /\ ~(m[i].marked /\ m[j].marked)

\* A release becomes active only after its manifest was read and validated (Store.Load).
ASSUME ManifestsAreValid ==
  /\ NoRelease \notin Manifests
  /\ \A m \in Manifests \cup Drafts : m \in Seq(Range(m)) /\ Validate(m)
  /\ \A m \in Drafts : \A i \in DOMAIN m : m[i].version \in Versions

\* Mutant: versions are strings.
TextLess(a, b) == Text[a] < Text[b]
VersionLess(a, b) ==
  IF Number[a] >= 0 /\ Number[b] >= 0 THEN Number[a] < Number[b] ELSE Text[a] < Text[b]

\* The position of the newest version of id, 0 if there is none.
LatestStyle(m, id) ==
  LET best[i \in 0..Len(m)] ==
        IF i = 0 THEN 0
        ELSE IF /\ m[i].id = id
                /\ best[i - 1] = 0 \/ VersionLess(m[best[i - 1]].version, m[i].version)
             THEN i ELSE best[i - 1]
  IN best[Len(m)]

FindStyle(m, id, version) ==
  Max({0} \cup {i \in DOMAIN m : m[i].id = id /\ m[i].version = version})

Marked(m) == {i \in DOMAIN m : m[i].marked}

\* Mutant: the version that is marked, not the newest one.
MarkedStyle(m) == IF m = <<>> THEN 0 ELSE Min(Marked(m) \cup {Len(m)})
DefaultStyle(m) ==
  CASE m = <<>>                      -> 0
    [] m # <<>> /\ Marked(m) # {} -> LatestStyle(m, m[Min(Marked(m))].id)
    [] m # <<>> /\ Marked(m) = {}  -> LatestStyle(m, m[1].id)

\* releaseStyles: the newest version of every id, the default style first.
ReleaseStyles(m) ==
  LET out[i \in 0..Len(m)] ==
        IF i = 0 THEN <<>>
        ELSE IF \E j \in 1..(i - 1) : m[j].id = m[i].id THEN out[i - 1]
             ELSE Append(out[i - 1], LatestStyle(m, m[i].id))
      latest  == out[Len(m)]
      default == CHOOSE i \in DOMAIN latest : m[latest[i]].id = m[DefaultStyle(m)].id
  IN IF m = <<>> THEN <<>> ELSE <<latest[default]>> \o RemoveAt(latest, default)

\* The style and variant a name stands for: an alias, or an id and its light variant first.
NamedStyle(m, name) == IF name \in Variants THEN DefaultStyle(m) ELSE LatestStyle(m, name)
NamedVariant(s, name) ==
  IF name \in Variants THEN name
  ELSE IF "light" \in s.variants THEN "light" ELSE "dark"

----------------------------------------------------------------------------
(* The listing.                                                            *)

NoFile == [kind |-> "none", mtime |-> 0, parses |-> FALSE]
File(t, parses) == [kind |-> "file", mtime |-> t, parses |-> parses]
Other(kind) == [NoFile EXCEPT !.kind = kind]

\* listStyles: entries that are no directories; links are not followed.
Listed(n) == dir[n].kind \notin {"none", "dir"}
LegacyNames == {n \in Files : Listed(n)}

\* Mutant: release styles are listed although a legacy file has their name.
AnyName(name, have) == TRUE
NotTaken(name, have) == name \notin have

\* What handleList adds to the legacy names have: aliases and ids, with the version they show.
Aliases(m, have) ==
  {[name |-> v, shows |-> <<>>] :
     v \in {u \in Variants : m # <<>> /\ u \notin have /\ u \in m[DefaultStyle(m)].variants}}
Styles(m, have) ==
  {[name |-> m[i].id, shows |-> <<m[i].id, m[i].version>>] :
     i \in {j \in Range(ReleaseStyles(m)) : NotTaken(m[j].id, have)}}
Listing(m, have) ==
  {[name |-> n, shows |-> <<>>] : n \in have}
  \cup (IF m = NoRelease THEN {} ELSE Aliases(m, have) \cup Styles(m, have))

----------------------------------------------------------------------------
(* Requests.  quiet: nothing has changed or failed since the request began. *)

Idle(name, status, body) ==
  [step |-> "idle", name |-> name, mtime |-> 0, text |-> 0, status |-> status, body |-> body,
   have |-> {}, quiet |-> TRUE]
NoRequest == Idle("", 0, <<>>)

Init ==
  /\ \E made \in SUBSET Files, others \in [Files -> Kinds] :
       dir = [n \in Files |-> IF n \in made THEN File(1, TRUE) ELSE Other(others[n])]
  /\ tmplCache = [n \in Files |-> [modTime |-> 0, text |-> 0]]
  /\ active \in Manifests \cup {NoRelease}
  /\ clock = 1
  /\ req = [r \in Requests |-> NoRequest]

Answer(r, status, body) ==
  req' = [req EXCEPT ![r] = [Idle(@.name, status, body) EXCEPT !.quiet = req[r].quiet,
                                                               !.mtime = req[r].mtime]]

Goto(r, step) == req' = [req EXCEPT ![r].step = step]

\* os.Stat follows links.
Exists(n) == n \in Files /\ dir[n].kind \in {"file", "dir", "link"}

\* handleGetStyle, to the Stat.
Get(r, n) ==
  /\ req[r].step = "idle"
  /\ req' = [req EXCEPT ![r] =
       CASE n \notin Proper                -> Idle(n, 400, <<>>)
         [] n \in Proper /\ Exists(n)      -> [Idle(n, 0, <<>>) EXCEPT !.step = "lookup", !.mtime = dir[n].mtime]
         [] n \in Proper /\ ~Exists(n)     -> [Idle(n, 0, <<>>) EXCEPT !.step = "release"]]
  /\ UNCHANGED <<dir, tmplCache, active, clock>>

\* Something of the request's own fails.
Fails(r) == req' = [req EXCEPT ![r] = [Idle(@.name, 500, <<>>) EXCEPT !.quiet = FALSE]]

\* Stat or ReadFile fails otherwise: permissions, a failing disk.
Denied(r) ==
  /\ req[r].step \in {"lookup", "read"}
  /\ Fails(r)
  /\ UNCHANGED <<dir, tmplCache, active, clock>>

\* renderStyle: a template that parses may still fail to execute.
Render(r, text) == Answer(r, 200, <<text>>) \/ Fails(r)

\* serveLegacyStyle: the parsed template is used while the file is unchanged.
LookupTemplate(r) ==
  LET cached == tmplCache[req[r].name] IN
  /\ req[r].step = "lookup"
  /\ IF cached.text # 0 /\ cached.modTime = req[r].mtime
     THEN Render(r, cached.text) ELSE Goto(r, "read")
  /\ UNCHANGED <<dir, tmplCache, active, clock>>

ReadTemplate(r) ==
  LET file == dir[req[r].name] IN
  /\ req[r].step = "read"
  /\ IF file.kind = "file" /\ file.parses
     THEN req' = [req EXCEPT ![r].step = "store", ![r].text = file.mtime]
     ELSE Answer(r, 500, <<>>)
  /\ UNCHANGED <<dir, tmplCache, active, clock>>

\* Mutant: the modification time is taken when the template is stored.
ModTimeNow(r) == dir[req[r].name].mtime
ModTime(r)    == req[r].mtime

StoreTemplate(r) ==
  /\ req[r].step = "store"
  /\ tmplCache' = [tmplCache EXCEPT ![req[r].name] = [modTime |-> ModTime(r), text |-> req[r].text]]
  /\ Render(r, req[r].text)
  /\ UNCHANGED <<dir, active, clock>>

\* What a release style is answered with.
Found(s, variant) == <<s.id, s.version, variant>>

\* serveReleaseName
ServeReleaseName(r) ==
  /\ req[r].step = "release"
  /\ LET i == IF active = NoRelease THEN 0 ELSE NamedStyle(active, req[r].name)
         variant == NamedVariant(active[i], req[r].name)
     IN IF i # 0 /\ variant \in active[i].variants
        THEN Answer(r, 200, Found(active[i], variant)) ELSE Answer(r, 404, <<>>)
  /\ UNCHANGED <<dir, tmplCache, active, clock>>

\* serveReleaseVariant
ReleaseVariant(m, id, version, variant) ==
  LET i == IF version = NoVersion THEN LatestStyle(m, id) ELSE FindStyle(m, id, version)
  IN IF i # 0 /\ variant \in m[i].variants THEN Found(m[i], variant) ELSE <<>>

GetVariant(r, id, version, variant) ==
  /\ req[r].step = "idle"
  /\ LET body == IF active = NoRelease THEN <<>> ELSE ReleaseVariant(active, id, version, variant)
         status == CASE id \notin Proper                                            -> 400
                     [] id \in Proper /\ variant \in Variants /\ active = NoRelease -> 503
                     [] id \in Proper /\ body # <<>>                                -> 200
                     [] OTHER                                                       -> 404
     IN req' = [req EXCEPT ![r] = Idle("", status, body)]
  /\ UNCHANGED <<dir, tmplCache, active, clock>>

\* handleList reads the directory, then acquires the release.
List(r) ==
  /\ req[r].step = "idle"
  /\ req' = [req EXCEPT ![r] = [NoRequest EXCEPT !.step = "list", !.have = LegacyNames]]
  /\ UNCHANGED <<dir, tmplCache, active, clock>>

ListRelease(r) ==
  /\ req[r].step = "list"
  /\ Answer(r, 200, <<Listing(active, req[r].have)>>)
  /\ UNCHANGED <<dir, tmplCache, active, clock>>

----------------------------------------------------------------------------
(* Others change the files and the release.                                *)

Disturb == req' = [r \in Requests |-> IF req[r].step = "idle" THEN NoRequest
                                      ELSE [req[r] EXCEPT !.quiet = FALSE]]

Edit(n, parses) ==
  /\ clock < MaxEdits /\ dir[n].kind \in {"none", "file"}
  /\ clock' = clock + 1
  /\ dir' = [dir EXCEPT ![n] = File(clock', parses)]
  /\ Disturb /\ UNCHANGED <<tmplCache, active>>

Delete(n) ==
  /\ dir[n].kind = "file"
  /\ dir' = [dir EXCEPT ![n] = NoFile]
  /\ Disturb /\ UNCHANGED <<tmplCache, active, clock>>

Switch(m) ==
  /\ m # active
  /\ active' = m
  /\ Disturb /\ UNCHANGED <<dir, tmplCache, clock>>

Next ==
  \/ \E r \in Requests :
       \/ \E n \in Names : Get(r, n)
       \/ \E id \in Names, version \in Versions \cup {NoVersion}, variant \in Variants \cup {""} :
            GetVariant(r, id, version, variant)
       \/ LookupTemplate(r) \/ ReadTemplate(r) \/ StoreTemplate(r) \/ Denied(r)
       \/ ServeReleaseName(r) \/ List(r) \/ ListRelease(r)
  \/ \E n \in Files : Delete(n) \/ \E parses \in BOOLEAN : Edit(n, parses)
  \/ \E m \in Manifests : Switch(m)

Spec == Init /\ [][Next]_vars

----------------------------------------------------------------------------
(* Properties.                                                             *)

\* The order within numbers and within other versions.
Newer(v, w) == /\ (Number[v] >= 0) = (Number[w] >= 0)
               /\ IF Number[v] >= 0 THEN Number[v] > Number[w] ELSE Text[v] > Text[w]

\* The version that is served without a version in the URL.
NewestServed(m, id) ==
  LET i == LatestStyle(m, id)
      versions == {m[j].version : j \in {k \in DOMAIN m : m[k].id = id}}
      mixed == \E v, w \in versions : Number[v] >= 0 /\ Number[w] < 0
  IN \A j \in DOMAIN m : m[j].id = id => (mixed /\ j < i) \/ ~Newer(m[j].version, m[i].version)

\* What concerns no state is evaluated once, in the first one.
AtStart == active = NoRelease /\ dir = [n \in Files |-> NoFile] /\ \A r \in Requests : req[r] = NoRequest

(* The version that is served as the newest one is: no number is passed    *)
(* over for a smaller one, no other version for one that sorts before it.  *)
(* Numbers and others have no common order, "9" < "10" < "1a" < "9": in a  *)
(* manifest with both, only later entries are not passed over              *)
(* (latestStyle, versionLess).                                             *)
LatestIsNewest ==
  AtStart => \A m \in Drafts : \A i \in DOMAIN m : NewestServed(m, m[i].id)

\* The URLs of a style of m.
URLsAgree(m) ==
  LET listed == ReleaseStyles(m) IN
  /\ \A v \in Variants : NamedStyle(m, v) = listed[1]
  /\ \A i \in Marked(m) : m[i].id = m[listed[1]].id
  /\ \A i \in Range(listed) : \A v \in m[i].variants, version \in {NoVersion, m[i].version} :
       ReleaseVariant(m, m[i].id, version, v) = Found(m[i], v)

(* The URLs of a style agree: the listing starts with the style that the   *)
(* aliases stand for, in the version they serve, and with the marked one   *)
(* if there is one; every variant of a listed style is served in the       *)
(* version that is shown, with and without that version in the URL         *)
(* (releaseStyles: "the default style first"; serveReleaseVariant).        *)
StylesAgree == AtStart => \A m \in Drafts \ {<<>>} : URLsAgree(m)

Asked(r) == req[r].step = "idle" /\ req[r].quiet /\ req[r].name # ""
Lists(q) == req[q].step = "idle" /\ req[q].quiet /\ req[q].name = "" /\ Len(req[q].body) = 1

(* A legacy style is answered with a text no older than the file was when  *)
(* the request began, and with the very file if it did not change: however *)
(* reads and edits overlap, the cache never pairs an old text with a new   *)
(* modification time (styleTemplate: "mtime-based cache invalidation").    *)
ServedIsCurrent ==
  \A r \in Requests : req[r].mtime > 0 /\ req[r].status = 200 =>
    /\ req[r].body[1] >= req[r].mtime
    /\ req[r].quiet => req[r].body = <<req[r].mtime>>

\* Legacy files that are no file or no template, and styles called like an alias.
Plain(n) ==
  /\ n \in Proper
  /\ n \in Files => dir[n] \in {NoFile, File(dir[n].mtime, TRUE)}
  /\ ~(n \in Variants /\ active # NoRelease /\ \E i \in DOMAIN active : active[i].id = n)

(* Clients follow the listing: while nothing changes, a name is served if  *)
(* and only if it is listed, and a style in the version that is shown.     *)
(* Plain excludes what handleList's "every entry has a name that           *)
(* GET /styles/{name} serves" does not hold for.                           *)
ListingIsTrue ==
  \A r, q \in Requests : Asked(r) /\ Lists(q) /\ Plain(req[r].name) =>
    LET entries == {e \in req[q].body[1] : e.name = req[r].name} IN
    /\ req[r].status = IF entries = {} THEN 404 ELSE 200
    /\ \A e \in entries : e.shows # <<>> =>
         Len(req[r].body) = 3 /\ e.shows = SubSeq(req[r].body, 1, 2)
=============================================================================
