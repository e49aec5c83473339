------------------------------ MODULE CacheDir ------------------------------
(***************************************************************************)
(* internal/tilecache/disk_cache.go, prepareCacheDir: a start of the       *)
(* service claims the configured directory with a marker file and clears   *)
(* what an earlier run left there. The service may crash between any two   *)
(* file operations, and the directory may hold anything.                   *)
(*                                                                         *)
(* An entry of the directory is a name; what matters of its content is     *)
(* whether this run wrote it.                                              *)
(***************************************************************************)

CONSTANTS
  ZoomDirs,   \* names that match zDirRe
  DbFiles,    \* names that start with metadata.db
  Foreign,    \* every other name, but the two below
  Marker, Tmp, Db  \* markerFileName, markerFileName + ".tmp", metadata.db

Stale     == ZoomDirs \cup DbFiles
Artifacts == Stale \cup {Marker, Tmp}
Names     == Artifacts \cup Foreign

ASSUME NamesAssumption ==
  /\ Db \in DbFiles /\ Marker # Tmp
  /\ Stale \cap {Marker, Tmp} = {} /\ Artifacts \cap Foreign = {}

VARIABLES
  exists,  \* the directory exists
  dir,     \* its entries
  step,    \* where the start is
  adopting,  \* clearCacheContents is called without a marker
  todo,    \* entries of its listing still to be looked at
  fresh,   \* the entries this run wrote
  found,   \* history: the entries when this run started
  owned    \* history: a run has written its marker into this directory

vars == <<exists, dir, step, adopting, todo, fresh, found, owned>>

TypeOK ==
  /\ exists \in BOOLEAN /\ dir \subseteq Names /\ (dir # {} => exists)
  /\ step \in {"down", "inspect", "create", "marker", "adopt", "list", "clear",
               "claim", "rename", "open", "serving", "refused", "failed"}
  /\ adopting \in BOOLEAN /\ todo \subseteq Names
  /\ fresh \subseteq dir /\ found \subseteq Names /\ owned \in BOOLEAN

\* The first run meets any directory: a misconfigured path, or the layout before markers.
Init ==
  /\ exists \in BOOLEAN /\ dir \in SUBSET (Names \ {Marker}) /\ (dir # {} => exists)
  /\ step = "down" /\ adopting = FALSE
  /\ todo = {} /\ fresh = {} /\ found = {} /\ owned = FALSE

At(from, to) == step = from /\ step' = to
Same == UNCHANGED <<exists, dir, fresh, found, owned>>

\* The outside world: the service starts and stops or crashes anywhere; files come and go.
Start ==
  /\ At("down", "inspect")
  /\ found' = dir
  /\ UNCHANGED <<exists, dir, adopting, todo, fresh, owned>>

Stop ==
  /\ step # "down" /\ step' = "down"
  /\ adopting' = FALSE /\ todo' = {} /\ fresh' = {} /\ found' = {}
  /\ UNCHANGED <<exists, dir, owned>>

PutForeign ==
  /\ exists /\ \E n \in Foreign : dir' = dir \cup {n}
  /\ UNCHANGED <<exists, step, adopting, todo, fresh, found, owned>>

RemoveDir ==
  /\ step = "down" /\ exists' = FALSE /\ dir' = {} /\ owned' = FALSE
  /\ UNCHANGED <<step, adopting, todo, fresh, found>>

\* A file operation fails, or leaves half of its work behind: the service goes on with
\* the memory tier only.
Fail ==
  /\ step \notin {"down", "serving", "refused", "failed"} /\ step' = "failed"
  /\ \/ dir' = dir
     \/ step = "claim" /\ dir' = dir \cup {Tmp}
     \/ step = "rename" /\ dir' = dir \ {Tmp}
     \/ step = "open" /\ dir' = dir \cup {Db}
  /\ UNCHANGED <<exists, adopting, todo, fresh, found, owned>>

\* prepareCacheDir: does the directory exist, does it have the marker, what else is in it?
Inspect ==
  /\ At("inspect", IF exists THEN "marker" ELSE "create")
  /\ Same /\ UNCHANGED <<adopting, todo>>

Create ==
  /\ At("create", "claim") /\ exists' = TRUE
  /\ UNCHANGED <<dir, adopting, todo, fresh, found, owned>>

CheckMarker ==
  /\ At("marker", IF Marker \in dir THEN "list" ELSE "adopt")
  /\ Same /\ UNCHANGED <<adopting, todo>>

\* Mutant: any artifact makes a directory ours.
OursIfAnyArtifact == dir = {} \/ dir \cap Artifacts # {}
LooksOurs         == dir \subseteq Artifacts

Adopt ==
  /\ At("adopt", IF ~LooksOurs THEN "refused" ELSE IF dir = {} THEN "claim" ELSE "list")
  /\ adopting' = (LooksOurs /\ dir # {})
  /\ Same /\ UNCHANGED todo

\* clearCacheContents lists the directory once more, then goes through that list.
List ==
  /\ At("list", "clear")
  /\ todo' = dir
  /\ Same /\ UNCHANGED adopting

\* Mutants: only metadata.db itself is removed; the marker is removed as well.
ClearsDbOnly(n) == n \in ZoomDirs \cup {Db, Tmp}
ClearsMarker(n) == n \in Artifacts
Clears(n)       == n \in Stale \cup {Tmp}

Clear ==
  /\ step = "clear" /\ UNCHANGED step
  /\ \E n \in todo :
       /\ todo' = todo \ {n}
       /\ dir' = IF Clears(n) THEN dir \ {n} ELSE dir
  /\ UNCHANGED <<exists, adopting, fresh, found, owned>>

Cleared ==
  /\ todo = {} /\ At("clear", IF adopting THEN "claim" ELSE "open")
  /\ Same /\ UNCHANGED <<adopting, todo>>

\* writeMarker: temp file, then rename.
WriteTmp ==
  /\ At("claim", "rename")
  /\ dir' = dir \cup {Tmp}
  /\ UNCHANGED <<exists, adopting, todo, fresh, found, owned>>

RenameTmp ==
  /\ At("rename", "open")
  /\ dir' = (dir \ {Tmp}) \cup {Marker} /\ owned' = TRUE
  /\ UNCHANGED <<exists, adopting, todo, fresh, found>>

Store(written) ==
  /\ dir' = dir \cup written /\ fresh' = fresh \cup (written \ dir)
  /\ UNCHANGED <<exists, adopting, todo, found, owned>>

\* NewDiskTileCache opens the database, an existing one with its rows.
OpenDb == At("open", "serving") /\ Store({Db})

\* The running cache writes tiles, and SQLite its journal next to the database.
WriteTile ==
  /\ step = "serving" /\ UNCHANGED step
  /\ \E z \in ZoomDirs, aside \in SUBSET DbFiles : Store({z} \cup aside)

Run == \/ Inspect \/ Create \/ CheckMarker \/ Adopt \/ List \/ Clear \/ Cleared
       \/ WriteTmp \/ RenameTmp \/ OpenDb \/ WriteTile
World == Start \/ Stop \/ PutForeign \/ RemoveDir \/ Fail

Next == Run \/ World

Spec == Init /\ [][Next]_vars

----------------------------------------------------------------------------
(* Properties.                                                             *)

(* "Any other directory is left untouched" (prepareCacheDir): a directory  *)
(* without the marker that holds anything else when the service starts is  *)
(* never written or cleared, tile directories in it included.              *)
UnrelatedUntouched ==
  (Marker \notin found /\ found \cap Foreign # {}) => dir \ Foreign = found \ Foreign

(* The cache starts empty ("Always start fresh after cache clear"): what a *)
(* running service finds under the names of tiles and of the database was  *)
(* written by itself, wherever an earlier run crashed.                     *)
ServesOwnFiles == step = "serving" => dir \cap Stale \subseteq fresh

(* A crash never locks the service out: a directory is refused only for a  *)
(* foreign file, and never once a run has claimed it.                      *)
RestartRecovers == step = "refused" => dir \cap Foreign # {} /\ ~owned
=============================================================================
