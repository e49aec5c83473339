---------------------------- MODULE ReleaseStore ----------------------------
(***************************************************************************)
(* A release is opened from an object store: s3Store.Current, the manifest *)
(* and pmtiles.Open, as Holder.reload calls them, while the pointer moves, *)
(* old releases are removed and the store fails.                           *)
(*                                                                         *)
(* A small file is complete or it is not JSON; its text is left out.  The  *)
(* file of an archive is a sequence of units, see PMTiles.                 *)
(***************************************************************************)
EXTENDS ObjectStore, PMTiles

CONSTANTS
  Releases, NoRelease,
  Loader,       \* the goroutine in Holder.reload
  Pointers,     \* contents of current.json
  Names,        \* the release each pointer's prefix names, or NoRelease
  Manifests,    \* releases whose manifest is valid
  File,         \* the archive uploaded for each release
  MaxFileSize

ASSUME ReleaseAssumption ==
  /\ Names \in [Pointers -> Releases \cup {NoRelease}] /\ NoRelease \notin Releases
  /\ Manifests \subseteq Releases /\ Loader \in Callers
  /\ \A v \in Versions : Length[v] > 0

VARIABLES
  load,     \* how far the loader is: step, release, whose manifest, archive size
  healthy   \* no fault since the load began or, later, since the archive is open

loadVars == <<load, healthy>>

Pointer     == <<NoRelease, "current.json">>
Manifest(a) == <<a, "manifest">>
Archive(a)  == <<a, "archive">>

ASSUME UploadAssumption ==
  /\ Objects = {Pointer} \cup {Manifest(a) : a \in Releases} \cup {Archive(a) : a \in Releases}
  /\ Versions = Pointers \cup (Objects \ {Pointer})
  /\ \A a \in Releases : Length[Archive(a)] = Len(File[a]) /\ File[a][1].rootLen \in Nat

\* A pointer that is written and a manifest that is valid are not too large.
ASSUME SmallFilesFit ==
  /\ MaxFileSize \in Nat
  /\ \A v \in Pointers \cup {Manifest(a) : a \in Manifests} : Length[v] <= MaxFileSize

NoLoad == [step |-> "none", release |-> NoRelease, manifest |-> NoRelease, size |-> 0]

LoadInit ==
  /\ stored \in {[o \in Objects |-> IF o = Pointer THEN p ELSE o] : p \in Pointers \cup {Absent}}
  /\ ranged \in BOOLEAN /\ expired = {}
  /\ call = [c \in Callers |-> NoCall(Pointer)]
  /\ reply = [c \in Callers |-> NoReply]
  /\ load = NoLoad /\ healthy = TRUE

At(step) == load.step = step
Underway == load.step \notin {"none", "failed", "open"}

Reached(step, a, m, size) ==
  /\ load' = [step |-> step, release |-> a, manifest |-> m, size |-> size]
  /\ UNCHANGED healthy

\* Holder.reload with a context of its own.
BeginLoad ==
  /\ At("none")
  /\ load' = [NoLoad EXCEPT !.step = "pointer"]
  /\ healthy' = TRUE
  /\ OpenObject(Loader, Pointer)

\* The load returns, and its context is cancelled.
LoadReturns ==
  /\ expired' = expired \ {Loader}
  /\ reply' = [reply EXCEPT ![Loader] = NoReply]
  /\ UNCHANGED <<stored, ranged, call>>

FailLoad ==
  /\ load' = [NoLoad EXCEPT !.step = "failed"]
  /\ LoadReturns
  /\ UNCHANGED healthy

LoadBroken == Underway /\ Broken(Loader) /\ FailLoad

\* readObject: the size is known, the whole of it is read.
ReadSmallFile ==
  /\ load.step \in {"pointer", "manifest"} /\ Returned(Loader, "size")
  /\ LET n == reply[Loader].n IN
     IF n > MaxFileSize THEN FailLoad
     ELSE /\ ReadAt(Loader, call[Loader].object, n, 0, n)
          /\ UNCHANGED loadVars

Whole(r) == r.n = Length[r.version]

\* s3Store.Current: a complete pointer of the right schema with a valid prefix.
PointerRead ==
  /\ At("pointer") /\ Returned(Loader, "data")
  /\ LET a == Names[reply[Loader].version] IN
     IF Whole(reply[Loader]) /\ a # NoRelease
     THEN Reached("manifest", a, NoRelease, 0) /\ OpenObject(Loader, Manifest(a))
     ELSE FailLoad

\* Mutant: the archive is looked for where the pointer leads now.
WhereItLeads(a) == IF stored[Pointer] = Absent THEN a ELSE Names[stored[Pointer]]
SameRelease(a)  == a

\* ReadFile and ParseManifest, then s3Loc.OpenArchive.
ManifestRead ==
  /\ At("manifest") /\ Returned(Loader, "data")
  /\ LET a == SameRelease(load.release) IN
     IF Whole(reply[Loader]) /\ a \in Manifests
     THEN Reached("archive", a, load.release, 0) /\ OpenObject(Loader, Archive(a))
     ELSE FailLoad

ArchiveSized ==
  /\ At("archive") /\ Returned(Loader, "size")
  /\ Reached("header", load.release, load.manifest, reply[Loader].n)
  /\ ReadAt(Loader, Archive(load.release), reply[Loader].n, 0, HeaderSize)

\* The bytes a finished read returned.
Read(c) == Bytes(File[reply[c].version[1]], reply[c].off, reply[c].n)

\* pmtiles.Open: the header, and the sections it declares.
HeaderRead ==
  /\ At("header") /\ Returned(Loader, "data")
  /\ LET h == Read(Loader)[1] IN
     IF Complete(h, load.size) /\ h.rootLen > 0 /\ h.rootLen <= MaxBlock
     THEN /\ Reached("root", load.release, load.manifest, load.size)
          /\ ReadAt(Loader, Archive(load.release), load.size, RootOffset(h), h.rootLen)
     ELSE FailLoad

RootRead ==
  /\ At("root") /\ Returned(Loader, "data")
  /\ IF WellFormed(Read(Loader))
     THEN /\ load' = [load EXCEPT !.step = "open"]
          /\ healthy' = (stored[Archive(load.release)] # Absent)
          /\ LoadReturns
     ELSE FailLoad

LoadStep == ReadSmallFile \/ PointerRead \/ ManifestRead \/ ArchiveSized
            \/ HeaderRead \/ RootRead \/ LoadBroken

----------------------------------------------------------------------------
(* The store and the pipeline.                                             *)

\* Of the faults, only failures of the first cfg.Retries attempts have to be hidden.
Fault(c) ==
  /\ \/ Refuse(c) /\ healthy' = (healthy /\ call[c].attempt < Retries)
     \/ (Deny(c) \/ Cut(c)) /\ healthy' = FALSE
  /\ UNCHANGED load

StoreStep(c) ==
  /\ AnswerHead(c) \/ AnswerGet(c) \/ Resume(c) \/ Cancel(c)
  /\ UNCHANGED loadVars

Deadline ==
  /\ Underway /\ Loader \notin expired
  /\ Expire(Loader)
  /\ healthy' = FALSE /\ UNCHANGED load

\* A release is complete before the pointer names it.  The pointer rests once the
\* archive is open: nothing looks at it any more.
MovePointer(p) ==
  /\ ~At("open") /\ p # stored[Pointer]
  /\ Names[p] # NoRelease => stored[Archive(Names[p])] # Absent
  /\ Put([stored EXCEPT ![Pointer] = p])
  /\ healthy' = FALSE /\ UNCHANGED load

\* The release in use is removed, once the pointer does not name it.  Others can be
\* removed without anybody noticing.
RemoveRelease(a) ==
  /\ a = load.release /\ stored[Archive(a)] # Absent
  /\ stored[Pointer] # Absent => Names[stored[Pointer]] # a
  /\ Put([stored EXCEPT ![Manifest(a)] = Absent, ![Archive(a)] = Absent])
  /\ healthy' = FALSE /\ UNCHANGED load

Environment ==
  \/ \E c \in Callers : Fault(c)
  \/ Deadline
  \/ \E p \in Pointers : MovePointer(p)
  \/ \E a \in Releases : RemoveRelease(a)
=============================================================================
