--------------------------- MODULE CacheDirProofs ---------------------------
(* The safety properties of CacheDir hold for every set of names.          *)
EXTENDS CacheDir, TLAPS

Unrelated == Marker \notin found /\ found \cap Foreign # {}

\* An unrelated directory is still as it was found, and the start has not got past "adopt".
Untouched ==
  Unrelated =>
    /\ step \in {"inspect", "marker", "adopt", "refused", "failed"}
    /\ dir \ Foreign = found \ Foreign /\ dir \cap Foreign # {}

\* How far the clear has got: the stale entries are those still on the list.
Progress ==
  /\ step = "create" => dir = {}
  /\ step = "clear" => dir \cap Stale \subseteq todo
  /\ step \in {"claim", "rename", "open"} => dir \cap Stale = {}
  /\ step = "serving" => dir \cap Stale \subseteq fresh

\* The marker stays, and only a directory without it gets to "adopt".
Claimed ==
  /\ owned => Marker \in dir
  /\ step = "adopt" => Marker \notin dir
  /\ RestartRecovers

\* What holds before the cache runs.
Waiting ==
  /\ step = "down" => found = {}
  /\ step = "create" => ~exists
  /\ step \notin {"down", "inspect", "create", "failed"} => exists
  /\ step # "serving" => fresh = {}

DirInv == TypeOK /\ Waiting /\ Untouched /\ Progress /\ Claimed

LEMMA InitInv == Init => DirInv
  BY NamesAssumption DEF Init, DirInv, TypeOK, Waiting, Untouched, Unrelated, Progress,
                         Claimed, RestartRecovers, Names, Artifacts, Stale

LEMMA StepInv == DirInv /\ [Next]_vars => DirInv'
<1> SUFFICES ASSUME DirInv, [Next]_vars PROVE DirInv'
  OBVIOUS
<1> USE NamesAssumption DEF At, Same, Names, Artifacts, Stale, DirInv, TypeOK, Waiting,
        Untouched, Unrelated, Progress, Claimed, RestartRecovers
<1>0. DirInv OBVIOUS
<1>1. CASE UNCHANGED vars BY <1>0, <1>1 DEF vars
<1>2. CASE World
  <2>1. CASE Start BY <1>0, <2>1 DEF Start
  <2>2. CASE Stop BY <1>0, <2>2 DEF Stop
  <2>3. CASE PutForeign BY <1>0, <2>3 DEF PutForeign
  <2>4. CASE RemoveDir BY <1>0, <2>4 DEF RemoveDir
  <2>5. CASE Fail BY <1>0, <2>5 DEF Fail
  <2> QED BY <1>2, <2>1, <2>2, <2>3, <2>4, <2>5 DEF World
<1>3. CASE Run
  <2>1. CASE Inspect BY <1>0, <2>1 DEF Inspect
  <2>2. CASE Create BY <1>0, <2>2 DEF Create
  <2>3. CASE CheckMarker BY <1>0, <2>3 DEF CheckMarker
  <2>4. CASE Adopt BY <1>0, <2>4 DEF Adopt, LooksOurs
  <2>5. CASE List BY <1>0, <2>5 DEF List
  <2>6. CASE Clear BY <1>0, <2>6 DEF Clear, Clears
  <2>7. CASE Cleared BY <1>0, <2>7 DEF Cleared
  <2>8. CASE WriteTmp BY <1>0, <2>8 DEF WriteTmp
  <2>9. CASE RenameTmp BY <1>0, <2>9 DEF RenameTmp
  <2>10. CASE OpenDb BY <1>0, <2>10 DEF OpenDb, Store
  <2>11. CASE WriteTile BY <1>0, <2>11 DEF WriteTile, Store
  <2> QED BY <1>3, <2>1, <2>2, <2>3, <2>4, <2>5, <2>6, <2>7, <2>8, <2>9, <2>10, <2>11 DEF Run
<1> QED BY <1>1, <1>2, <1>3 DEF Next

THEOREM DirInvariant == Spec => []DirInv
  BY InitInv, StepInv, PTL DEF Spec

(* A directory that is not the cache's is left as it was found.            *)
THEOREM UnrelatedIsSafe == Spec => []UnrelatedUntouched
<1>1. DirInv => UnrelatedUntouched
  BY DEF DirInv, Untouched, Unrelated, UnrelatedUntouched
<1> QED BY <1>1, DirInvariant, PTL

(* A running cache finds only files of its own.                            *)
THEOREM ServesOnlyOwn == Spec => []ServesOwnFiles
<1>1. DirInv => ServesOwnFiles
  BY DEF DirInv, Progress, ServesOwnFiles
<1> QED BY <1>1, DirInvariant, PTL

(* A crash never locks the service out of its directory.                   *)
THEOREM RestartIsSafe == Spec => []RestartRecovers
<1>1. DirInv => RestartRecovers
  BY DEF DirInv, Claimed
<1> QED BY <1>1, DirInvariant, PTL
=============================================================================
