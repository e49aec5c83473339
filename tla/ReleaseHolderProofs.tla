------------------------ MODULE ReleaseHolderProofs ------------------------
(***************************************************************************)
(* Proofs about ReleaseHolder, for any number of requests, loaders,        *)
(* closers, slots and keys.  HolderInv is the inductive invariant; the     *)
(* safety properties and the refinement of ReleaseLease follow from it.    *)
(***************************************************************************)
EXTENDS ReleaseHolder, FiniteSetTheorems, TLAPS

\* Where an actor is while it holds reloadMu.
UnderReloadMu == (ReloadSteps \ {"lock"}) \cup {"closeLast"}

\* A reload or a closer that is past its lock is the one that holds it.
LockInv ==
  /\ \A a \in Actors : pc[a] \in UnderReloadMu => reloadMu = a
  /\ \A a \in Reloaders : pc[a] \in {"idle", "returned"} \cup ReloadSteps
  /\ \A c \in Closers : pc[c] \in {"idle"} \cup CloseSteps

\* Only a closed holder has closers at work, at most one of them before its retire.
CloserInv ==
  /\ \A c \in Closers : pc[c] # "idle" => closed
  /\ \A c, d \in Closers :
       pc[c] \in {"stop", "join", "retire"} /\ pc[d] \in {"stop", "join", "retire"} => c = d

Holders(s) == {r \in Requests : lease[r] = s}

RefsInv == \A s \in Slots : refs[s] = Cardinality(Holders(s))

\* No request holds s and no thread is about to close it.
Untouched(s) ==
  /\ \A r \in Requests : lease[r] # s
  /\ \A t \in Threads : doomed[t] # s

\* The slot a reload prepared is open, fresh, and named by the key it read.
NextInv ==
  \A a \in Reloaders :
    /\ next[a] # NoSlot <=> pc[a] \in {"validate", "switch"}
    /\ next[a] # NoSlot =>
         /\ next[a] \in open /\ next[a] # cur /\ ~retired[next[a]]
         /\ Untouched(next[a])
         /\ key[next[a]] = target[a] /\ target[a] \in Keys \ Bad
         /\ pc[a] = "switch" => target[a] \notin Rejected

\* A leased slot is open, and retired unless it is the active one.
LeaseInv ==
  \A r \in Requests : lease[r] # NoSlot =>
    /\ lease[r] \in open /\ doomed[r] = NoSlot
    /\ lease[r] # cur => retired[lease[r]]

\* An actor dooms a slot only between its unlock of mu and its closing step.
DoomInv ==
  /\ \A a \in Actors : doomed[a] # NoSlot => pc[a] \in {"closeOld", "closeLast"}
  /\ \A a \in Reloaders : pc[a] = "load" => target[a] # NoKey
  /\ ClosedOnceUnused

\* What a reload that reports success has established.
JobInv ==
  /\ \A a \in Reloaders : failed[a] => pc[a] = "report"
  /\ \A a \in Reloaders :
       pc[a] \in {"closeOld", "report"} /\ ~failed[a] /\ ~closed => cur # NoSlot

HolderInv ==
  /\ TypeOK /\ LockInv /\ CloserInv /\ RefsInv /\ NextInv /\ LeaseInv /\ DoomInv
  /\ JobInv /\ ActiveIsServable /\ NoArchiveLeaks /\ StatusIsHonest

----------------------------------------------------------------------------
(* Each action preserves HolderInv.                                        *)

USE DEF Actors, Reloaders, Threads, ReloadSteps, CloseSteps,
        envVars, slotVars, ctlVars, jobVars, TypeOK

LEMMA MovePointerStep ==
  ASSUME NEW k \in Keys \cup {NoKey}, HolderInv, MovePointer(k)
  PROVE  HolderInv'
BY HolderAssumption DEF MovePointer,
      HolderInv, LockInv, CloserInv, RefsInv, NextInv, LeaseInv, DoomInv, JobInv,
      ActiveIsServable, NoArchiveLeaks, StatusIsHonest, ClosedOnceUnused, Holders,
      Untouched, UnderReloadMu

LEMMA StoreRecoversStep ==
  ASSUME HolderInv, StoreRecovers
  PROVE  HolderInv'
BY HolderAssumption DEF StoreRecovers,
      HolderInv, LockInv, CloserInv, RefsInv, NextInv, LeaseInv, DoomInv, JobInv,
      ActiveIsServable, NoArchiveLeaks, StatusIsHonest, ClosedOnceUnused, Holders,
      Untouched, UnderReloadMu

LEMMA SignalStep ==
  ASSUME HolderInv, Signal
  PROVE  HolderInv'
BY HolderAssumption DEF Signal,
      HolderInv, LockInv, CloserInv, RefsInv, NextInv, LeaseInv, DoomInv, JobInv,
      ActiveIsServable, NoArchiveLeaks, StatusIsHonest, ClosedOnceUnused, Holders,
      Untouched, UnderReloadMu

LEMMA CallReloadStep ==
  ASSUME NEW a \in Reloaders, HolderInv, CallReload(a)
  PROVE  HolderInv'
BY HolderAssumption DEF CallReload, Goto,
      HolderInv, LockInv, CloserInv, RefsInv, NextInv, LeaseInv, DoomInv, JobInv,
      ActiveIsServable, NoArchiveLeaks, StatusIsHonest, ClosedOnceUnused, Holders,
      Untouched, UnderReloadMu

LEMMA LockReloadStep ==
  ASSUME NEW a \in Reloaders, HolderInv, LockReload(a)
  PROVE  HolderInv'
BY HolderAssumption DEF LockReload, Goto,
      HolderInv, LockInv, CloserInv, RefsInv, NextInv, LeaseInv, DoomInv, JobInv,
      ActiveIsServable, NoArchiveLeaks, StatusIsHonest, ClosedOnceUnused, Holders,
      Untouched, UnderReloadMu

LEMMA ReportStep ==
  ASSUME NEW a \in Reloaders, HolderInv, Report(a)
  PROVE  HolderInv'
BY HolderAssumption DEF Report, Goto, Outcome,
      HolderInv, LockInv, CloserInv, RefsInv, NextInv, LeaseInv, DoomInv, JobInv,
      ActiveIsServable, NoArchiveLeaks, StatusIsHonest, ClosedOnceUnused, Holders,
      Untouched, UnderReloadMu

LEMMA StartStep ==
  ASSUME HolderInv, Start
  PROVE  HolderInv'
BY HolderAssumption DEF Start,
      HolderInv, LockInv, CloserInv, RefsInv, NextInv, LeaseInv, DoomInv, JobInv,
      ActiveIsServable, NoArchiveLeaks, StatusIsHonest, ClosedOnceUnused, Holders,
      Untouched, UnderReloadMu

LEMMA PollerTicksStep ==
  ASSUME HolderInv, PollerTicks
  PROVE  HolderInv'
BY HolderAssumption DEF PollerTicks, Selecting, Goto,
      HolderInv, LockInv, CloserInv, RefsInv, NextInv, LeaseInv, DoomInv, JobInv,
      ActiveIsServable, NoArchiveLeaks, StatusIsHonest, ClosedOnceUnused, Holders,
      Untouched, UnderReloadMu

LEMMA PollerStopsStep ==
  ASSUME HolderInv, PollerStops
  PROVE  HolderInv'
BY HolderAssumption DEF PollerStops, Selecting, Goto,
      HolderInv, LockInv, CloserInv, RefsInv, NextInv, LeaseInv, DoomInv, JobInv,
      ActiveIsServable, NoArchiveLeaks, StatusIsHonest, ClosedOnceUnused, Holders,
      Untouched, UnderReloadMu

LEMMA CallCloseStep ==
  ASSUME NEW c \in Closers, HolderInv, CallClose(c)
  PROVE  HolderInv'
BY HolderAssumption DEF CallClose, Goto, MarkClosed,
      HolderInv, LockInv, CloserInv, RefsInv, NextInv, LeaseInv, DoomInv, JobInv,
      ActiveIsServable, NoArchiveLeaks, StatusIsHonest, ClosedOnceUnused, Holders,
      Untouched, UnderReloadMu

LEMMA CloseStopStep ==
  ASSUME NEW c \in Closers, HolderInv, CloseStop(c)
  PROVE  HolderInv'
BY HolderAssumption DEF CloseStop, Goto, StopPoller,
      HolderInv, LockInv, CloserInv, RefsInv, NextInv, LeaseInv, DoomInv, JobInv,
      ActiveIsServable, NoArchiveLeaks, StatusIsHonest, ClosedOnceUnused, Holders,
      Untouched, UnderReloadMu

LEMMA JoinStep ==
  ASSUME NEW c \in Closers, HolderInv, Join(c)
  PROVE  HolderInv'
BY HolderAssumption DEF Join, Goto,
      HolderInv, LockInv, CloserInv, RefsInv, NextInv, LeaseInv, DoomInv, JobInv,
      ActiveIsServable, NoArchiveLeaks, StatusIsHonest, ClosedOnceUnused, Holders,
      Untouched, UnderReloadMu

LEMMA TriggerStep ==
  ASSUME HolderInv, Trigger
  PROVE  HolderInv'
<1>1. TypeOK'
  BY HolderAssumption DEF HolderInv, Trigger, SendTrigger
<1>2. LockInv' /\ CloserInv' /\ JobInv' /\ StatusIsHonest'
  BY HolderAssumption DEF HolderInv, Trigger, SendTrigger, LockInv, CloserInv, JobInv,
     StatusIsHonest, UnderReloadMu
<1>3. RefsInv' /\ LeaseInv' /\ ActiveIsServable' /\ NoArchiveLeaks'
  BY DEF HolderInv, Trigger, RefsInv, Holders, LeaseInv, ActiveIsServable, NoArchiveLeaks
<1>4. NextInv' /\ DoomInv'
  BY HolderAssumption DEF HolderInv, Trigger, SendTrigger, NextInv, Untouched, DoomInv, ClosedOnceUnused
<1> QED BY <1>1, <1>2, <1>3, <1>4 DEF HolderInv

LEMMA PollerTriggeredStep ==
  ASSUME HolderInv, PollerTriggered
  PROVE  HolderInv'
<1>1. TypeOK'
  BY ZenonT(60), HolderAssumption DEF HolderInv, PollerTriggered, Selecting, Goto
<1>2. LockInv' /\ CloserInv' /\ JobInv' /\ StatusIsHonest'
  BY HolderAssumption DEF HolderInv, PollerTriggered, Selecting, Goto, LockInv, CloserInv, JobInv,
     StatusIsHonest, UnderReloadMu
<1>3. RefsInv' /\ LeaseInv' /\ ActiveIsServable' /\ NoArchiveLeaks'
  BY DEF HolderInv, PollerTriggered, RefsInv, Holders, LeaseInv, ActiveIsServable, NoArchiveLeaks
<1>4. NextInv' /\ DoomInv'
  BY HolderAssumption DEF HolderInv, PollerTriggered, Selecting, Goto, NextInv, Untouched, DoomInv, ClosedOnceUnused
<1> QED BY <1>1, <1>2, <1>3, <1>4 DEF HolderInv

LEMMA ReadPointerStep ==
  ASSUME NEW a \in Reloaders, HolderInv, ReadPointer(a)
  PROVE  HolderInv'
<1> USE HolderAssumption DEF HolderInv, ReadPointer, Goto, Fail, UpToDate
<1>1. TypeOK'
  <2>1. target' \in [Reloaders -> Keys \cup {NoKey}]
    OBVIOUS
  <2>2. failed' \in [Reloaders -> BOOLEAN]
    OBVIOUS
  <2>3. pc' \in [Actors -> {"idle"} \cup ReloadSteps \cup CloseSteps]
    OBVIOUS
  <2> QED BY <2>1, <2>2, <2>3
<1>2. LockInv'
  BY DEF LockInv, UnderReloadMu
<1>3. CloserInv'
  BY DEF CloserInv
<1>4. RefsInv'
  BY DEF RefsInv, Holders
<1>5. NextInv'
  BY DEF NextInv, LockInv, UnderReloadMu, Untouched, LeaseInv, DoomInv, ClosedOnceUnused
<1>6. LeaseInv'
  BY DEF LeaseInv, DoomInv, ClosedOnceUnused, NextInv, Untouched, LockInv, UnderReloadMu
<1>7. DoomInv'
  BY DEF DoomInv, LeaseInv, ClosedOnceUnused, NextInv, Untouched, LockInv, UnderReloadMu
<1>8. JobInv'
  BY DEF JobInv, LockInv, CloserInv, NextInv, UnderReloadMu
<1>9. ActiveIsServable'
  BY DEF ActiveIsServable, DoomInv, ClosedOnceUnused, NextInv, Untouched, LeaseInv
<1>10. NoArchiveLeaks'
  BY DEF NoArchiveLeaks, NextInv, DoomInv, ClosedOnceUnused, LeaseInv, RefsInv, Untouched
<1>11. StatusIsHonest'
  BY DEF StatusIsHonest, JobInv, CloserInv, LockInv, NextInv, UnderReloadMu
<1> QED BY <1>1, <1>2, <1>3, <1>4, <1>5, <1>6, <1>7, <1>8, <1>9, <1>10, <1>11

LEMMA RefuseSwitchStep ==
  ASSUME NEW a \in Reloaders, HolderInv, RefuseSwitch(a)
  PROVE  HolderInv'
<1> USE HolderAssumption DEF HolderInv, RefuseSwitch, Goto, Fail, Discard, CloseArchive
<1>1. TypeOK'
  BY ZenonT(60)
<1>2. LockInv'
  BY DEF LockInv, UnderReloadMu
<1>3. CloserInv'
  BY DEF CloserInv
<1>4. RefsInv'
  BY DEF RefsInv, Holders
<1>5. NextInv'
  BY DEF NextInv, LockInv, UnderReloadMu, Untouched, LeaseInv, DoomInv, ClosedOnceUnused
<1>6. LeaseInv'
  BY DEF LeaseInv, DoomInv, ClosedOnceUnused, NextInv, Untouched, LockInv, UnderReloadMu
<1>7. DoomInv'
  BY DEF DoomInv, LeaseInv, ClosedOnceUnused, NextInv, Untouched, LockInv, UnderReloadMu
<1>8. JobInv'
  BY DEF JobInv, LockInv, CloserInv, NextInv, UnderReloadMu
<1>9. ActiveIsServable'
  BY DEF ActiveIsServable, DoomInv, ClosedOnceUnused, NextInv, Untouched, LeaseInv
<1>10. NoArchiveLeaks'
  BY DEF NoArchiveLeaks, NextInv, DoomInv, ClosedOnceUnused, LeaseInv, RefsInv, Untouched
<1>11. StatusIsHonest'
  BY DEF StatusIsHonest, JobInv, CloserInv, LockInv, NextInv, UnderReloadMu
<1> QED BY <1>1, <1>2, <1>3, <1>4, <1>5, <1>6, <1>7, <1>8, <1>9, <1>10, <1>11

LEMMA ValidateStep ==
  ASSUME NEW a \in Reloaders, HolderInv, Validate(a)
  PROVE  HolderInv'
<1> USE HolderAssumption DEF HolderInv, Validate, Goto
<1>1. CASE Fail(a) /\ Discard(a)
  <2>1. TypeOK'
    <3>1. open' \subseteq Slots /\ key' \in [Slots -> Keys \cup {NoKey}]
      BY <1>1 DEF Discard, CloseArchive
    <3>2. retired' \in [Slots -> BOOLEAN]
      BY <1>1 DEF Discard, CloseArchive
    <3>3. next' \in [Reloaders -> Slots \cup {NoSlot}]
      BY <1>1 DEF Discard
    <3>4. failed' \in [Reloaders -> BOOLEAN]
      BY <1>1 DEF Fail
    <3>5. pc' \in [Actors -> {"idle"} \cup ReloadSteps \cup CloseSteps]
      BY <1>1 DEF Fail
    <3>6. UNCHANGED <<envVars, refs, cur, lease, doomed, ctlVars, reloadMu, target>>
      OBVIOUS
    <3> HIDE DEF Validate, Goto
    <3> QED BY <3>1, <3>2, <3>3, <3>4, <3>5, <3>6
  <2>2. LockInv'
    BY <1>1 DEF LockInv, UnderReloadMu, Fail, Discard, CloseArchive
  <2>3. CloserInv'
    BY <1>1 DEF CloserInv, Fail, Discard, CloseArchive
  <2>4. RefsInv'
    BY <1>1 DEF RefsInv, Holders, Fail, Discard, CloseArchive
  <2>5. NextInv'
    BY <1>1 DEF NextInv, LockInv, UnderReloadMu, Untouched, LeaseInv, DoomInv, ClosedOnceUnused, Fail, Discard, CloseArchive
  <2>6. LeaseInv'
    BY <1>1 DEF LeaseInv, DoomInv, ClosedOnceUnused, NextInv, Untouched, LockInv, UnderReloadMu, Fail, Discard, CloseArchive
  <2>7. DoomInv'
    BY <1>1 DEF DoomInv, LeaseInv, ClosedOnceUnused, NextInv, Untouched, LockInv, UnderReloadMu, Fail, Discard, CloseArchive
  <2>8. JobInv'
    BY <1>1 DEF JobInv, LockInv, CloserInv, NextInv, UnderReloadMu, Fail, Discard, CloseArchive
  <2>9. ActiveIsServable'
    BY <1>1 DEF ActiveIsServable, DoomInv, ClosedOnceUnused, NextInv, Untouched, LeaseInv, Fail, Discard, CloseArchive
  <2>10. NoArchiveLeaks'
    BY <1>1 DEF NoArchiveLeaks, NextInv, DoomInv, ClosedOnceUnused, LeaseInv, RefsInv, Untouched, Fail, Discard, CloseArchive
  <2>11. StatusIsHonest'
    BY <1>1 DEF StatusIsHonest, JobInv, CloserInv, LockInv, NextInv, UnderReloadMu, Fail, Discard, CloseArchive
  <2> QED BY <2>1, <2>2, <2>3, <2>4, <2>5, <2>6, <2>7, <2>8, <2>9, <2>10, <2>11
<1>2. CASE StylesRender(target[a]) /\ Goto(a, "switch") /\ UNCHANGED <<failed, open, key, retired, next>>
  <2>1. TypeOK'
    BY <1>2 DEF StylesRender
  <2>2. LockInv'
    BY <1>2 DEF LockInv, UnderReloadMu, StylesRender
  <2>3. CloserInv'
    BY <1>2 DEF CloserInv, StylesRender
  <2>4. RefsInv'
    BY <1>2 DEF RefsInv, Holders, StylesRender
  <2>5. NextInv'
    BY <1>2 DEF NextInv, LockInv, UnderReloadMu, Untouched, LeaseInv, DoomInv, ClosedOnceUnused, StylesRender
  <2>6. LeaseInv'
    BY <1>2 DEF LeaseInv, DoomInv, ClosedOnceUnused, NextInv, Untouched, LockInv, UnderReloadMu, StylesRender
  <2>7. DoomInv'
    BY <1>2 DEF DoomInv, LeaseInv, ClosedOnceUnused, NextInv, Untouched, LockInv, UnderReloadMu, StylesRender
  <2>8. JobInv'
    BY <1>2 DEF JobInv, LockInv, CloserInv, NextInv, UnderReloadMu, StylesRender
  <2>9. ActiveIsServable'
    BY <1>2 DEF ActiveIsServable, DoomInv, ClosedOnceUnused, NextInv, Untouched, LeaseInv, StylesRender
  <2>10. NoArchiveLeaks'
    BY <1>2 DEF NoArchiveLeaks, NextInv, DoomInv, ClosedOnceUnused, LeaseInv, RefsInv, Untouched, StylesRender
  <2>11. StatusIsHonest'
    BY <1>2 DEF StatusIsHonest, JobInv, CloserInv, LockInv, NextInv, UnderReloadMu, StylesRender
  <2> QED BY <2>1, <2>2, <2>3, <2>4, <2>5, <2>6, <2>7, <2>8, <2>9, <2>10, <2>11
<1> QED BY <1>1, <1>2

LEMMA LoadReleaseStep ==
  ASSUME NEW a \in Reloaders, HolderInv, LoadRelease(a)
  PROVE  HolderInv'
<1> USE HolderAssumption DEF HolderInv, LoadRelease, Goto
<1>1. CASE Fail(a) /\ UNCHANGED <<slotVars, next>>
  <2>1. TypeOK'
    BY <1>1 DEF Fail
  <2>2. LockInv'
    BY <1>1 DEF LockInv, UnderReloadMu, Fail
  <2>3. CloserInv'
    BY <1>1 DEF CloserInv, Fail
  <2>4. RefsInv'
    BY <1>1 DEF RefsInv, Holders, Fail
  <2>5. NextInv'
    BY <1>1 DEF NextInv, LockInv, UnderReloadMu, Untouched, LeaseInv, DoomInv, ClosedOnceUnused, Fail
  <2>6. LeaseInv'
    BY <1>1 DEF LeaseInv, DoomInv, ClosedOnceUnused, NextInv, Untouched, LockInv, UnderReloadMu, Fail
  <2>7. DoomInv'
    BY <1>1 DEF DoomInv, LeaseInv, ClosedOnceUnused, NextInv, Untouched, LockInv, UnderReloadMu, Fail
  <2>8. JobInv'
    BY <1>1 DEF JobInv, LockInv, CloserInv, NextInv, UnderReloadMu, Fail
  <2>9. ActiveIsServable'
    BY <1>1 DEF ActiveIsServable, DoomInv, ClosedOnceUnused, NextInv, Untouched, LeaseInv, Fail
  <2>10. NoArchiveLeaks'
    BY <1>1 DEF NoArchiveLeaks, NextInv, DoomInv, ClosedOnceUnused, LeaseInv, RefsInv, Untouched, Fail
  <2>11. StatusIsHonest'
    BY <1>1 DEF StatusIsHonest, JobInv, CloserInv, LockInv, NextInv, UnderReloadMu, Fail
  <2> QED BY <2>1, <2>2, <2>3, <2>4, <2>5, <2>6, <2>7, <2>8, <2>9, <2>10, <2>11
<1>2. CASE UNCHANGED failed
  <2>0. PICK s \in Slots :
          /\ Free(s) /\ target[a] \notin Bad
          /\ open' = open \cup {s}
          /\ key' = [key EXCEPT ![s] = target[a]]
          /\ refs' = [refs EXCEPT ![s] = 0]
          /\ retired' = [retired EXCEPT ![s] = FALSE]
          /\ next' = [next EXCEPT ![a] = s]
          /\ pc' = [pc EXCEPT ![a] = "validate"]
    BY <1>2 DEF Fail, JobInv
  <2> HIDE DEF LoadRelease
  <2>a. /\ pc[a] = "load"
        /\ UNCHANGED <<pointer, reliable, hup, cur, lease, doomed, closed, stop, trigger, check,
                      reloadMu, target, failed>>
    BY <1>2 DEF LoadRelease
  <2>b. Holders(s) = {}
    BY <2>0 DEF Free, Holders
  <2>1. TypeOK'
    BY <2>0, <2>a DEF Free
  <2>2. LockInv'
    BY <2>0, <2>a DEF LockInv, UnderReloadMu, Free
  <2>3. CloserInv'
    BY <2>0, <2>a DEF CloserInv, Free
  <2>4. RefsInv'
    <3>1. \A x \in Slots : Holders(x)' = Holders(x)
      BY <2>a DEF Holders
    <3>2. Cardinality(Holders(s)) = 0
      BY <2>b, FS_EmptySet
    <3> QED BY <2>0, <3>1, <3>2 DEF RefsInv
  <2>5. NextInv'
    BY <2>0, <2>a DEF NextInv, LockInv, UnderReloadMu, Untouched, LeaseInv, DoomInv, ClosedOnceUnused, Free
  <2>6. LeaseInv'
    BY <2>0, <2>a DEF LeaseInv, DoomInv, ClosedOnceUnused, NextInv, Untouched, LockInv, UnderReloadMu, Free
  <2>7. DoomInv'
    BY <2>0, <2>a DEF DoomInv, LeaseInv, ClosedOnceUnused, NextInv, Untouched, LockInv, UnderReloadMu, Free
  <2>8. JobInv'
    BY <2>0, <2>a DEF JobInv, LockInv, CloserInv, NextInv, UnderReloadMu, Free
  <2>9. ActiveIsServable'
    BY <2>0, <2>a DEF ActiveIsServable, DoomInv, ClosedOnceUnused, NextInv, Untouched, LeaseInv, Free
  <2>10. NoArchiveLeaks'
    BY <2>0, <2>a DEF NoArchiveLeaks, NextInv, DoomInv, ClosedOnceUnused, LeaseInv, RefsInv, Untouched, Free
  <2>11. StatusIsHonest'
    BY <2>0, <2>a DEF StatusIsHonest, JobInv, CloserInv, LockInv, NextInv, UnderReloadMu, Free
  <2> QED BY <2>1, <2>2, <2>3, <2>4, <2>5, <2>6, <2>7, <2>8, <2>9, <2>10, <2>11
<1> QED BY <1>1, <1>2

LEMMA SwitchStep ==
  ASSUME NEW a \in Reloaders, HolderInv, Switch(a)
  PROVE  HolderInv'
<1> USE HolderAssumption DEF HolderInv, Switch, Goto, RetireCur, Unheld, HolderOpen
<1>1. TypeOK'
  OBVIOUS
<1>2. LockInv'
  BY DEF LockInv, UnderReloadMu
<1>3. CloserInv'
  BY DEF CloserInv
<1>4. RefsInv'
  BY DEF RefsInv, Holders
<1>5. NextInv'
  BY DEF NextInv, LockInv, UnderReloadMu, Untouched, LeaseInv, DoomInv, ClosedOnceUnused
<1>6. LeaseInv'
  BY DEF LeaseInv, DoomInv, ClosedOnceUnused, NextInv, Untouched, LockInv, UnderReloadMu
<1>7. DoomInv'
  <2>1. \A t \in Threads : doomed'[t] # NoSlot => doomed'[t] = doomed[t] \/ (t = a /\ doomed'[t] = cur)
    BY DEF ClosedOnceUnused
  <2>2. doomed'[a] # NoSlot => cur # NoSlot /\ refs[cur] = 0 /\ doomed'[a] = cur
    OBVIOUS
  <2>3. doomed'[a] # NoSlot => \A r \in Requests : lease[r] # cur
    <3> SUFFICES ASSUME doomed'[a] # NoSlot
                 PROVE  \A r \in Requests : lease[r] # cur
      OBVIOUS
    <3>1. IsFiniteSet(Holders(cur))
      BY FS_Subset DEF Holders
    <3>2. Cardinality(Holders(cur)) = 0
      BY <2>2 DEF RefsInv
    <3>3. Holders(cur) = {}
      BY <3>1, <3>2, FS_EmptySet
    <3> QED BY <3>3 DEF Holders
  <2>4. ClosedOnceUnused'
    BY <2>1, <2>2, <2>3 DEF DoomInv, ClosedOnceUnused, ActiveIsServable, NextInv, Untouched
  <2> QED BY <2>2, <2>4 DEF DoomInv, LockInv, UnderReloadMu
<1>8. JobInv'
  BY DEF JobInv, LockInv, CloserInv, NextInv, UnderReloadMu
<1>9. ActiveIsServable'
  BY DEF ActiveIsServable, DoomInv, ClosedOnceUnused, NextInv, Untouched, LeaseInv
<1>10. NoArchiveLeaks'
  <2>1. ASSUME cur # NoSlot, refs[cur] # 0
        PROVE  \E r \in Requests : lease[r] = cur
    <3>1. Holders(cur) # {}
      BY <2>1, FS_EmptySet DEF RefsInv
    <3> QED BY <3>1 DEF Holders
  <2>2. \A t \in Threads : doomed[t] # NoSlot => t # a
    BY DEF DoomInv
  <2>3. cur # NoSlot /\ refs[cur] = 0 => doomed'[a] = cur
    OBVIOUS
  <2>4. \A t \in Threads : t # a => doomed'[t] = doomed[t]
    OBVIOUS
  <2>5. ASSUME NEW y \in open, y # cur
        PROVE  \/ y = cur'
               \/ \E r \in Requests : lease[r] = y
               \/ \E b \in Reloaders : next'[b] = y
               \/ \E t \in Threads : doomed'[t] = y
    BY <2>2, <2>4, <2>5 DEF NoArchiveLeaks, TypeOK
  <2> QED BY <2>1, <2>3, <2>5 DEF NoArchiveLeaks
<1>11. StatusIsHonest'
  BY DEF StatusIsHonest, JobInv, CloserInv, LockInv, NextInv, UnderReloadMu
<1> QED BY <1>1, <1>2, <1>3, <1>4, <1>5, <1>6, <1>7, <1>8, <1>9, <1>10, <1>11

LEMMA RetireStep ==
  ASSUME NEW c \in Closers, HolderInv, Retire(c)
  PROVE  HolderInv'
<1> USE HolderAssumption DEF HolderInv, Retire, Goto, RetireCur, Unheld
<1>1. TypeOK'
  OBVIOUS
<1>2. LockInv'
  BY DEF LockInv, UnderReloadMu
<1>3. CloserInv'
  BY DEF CloserInv
<1>4. RefsInv'
  BY DEF RefsInv, Holders
<1>5. NextInv'
  BY DEF NextInv, LockInv, UnderReloadMu, Untouched, LeaseInv, DoomInv, ClosedOnceUnused
<1>6. LeaseInv'
  BY DEF LeaseInv, DoomInv, ClosedOnceUnused, NextInv, Untouched, LockInv, UnderReloadMu
<1>7. DoomInv'
  <2>1. \A t \in Threads : doomed'[t] # NoSlot => doomed'[t] = doomed[t] \/ (t = c /\ doomed'[t] = cur)
    BY DEF ClosedOnceUnused
  <2>2. doomed'[c] # NoSlot => cur # NoSlot /\ refs[cur] = 0 /\ doomed'[c] = cur
    OBVIOUS
  <2>3. doomed'[c] # NoSlot => \A r \in Requests : lease[r] # cur
    <3> SUFFICES ASSUME doomed'[c] # NoSlot
                 PROVE  \A r \in Requests : lease[r] # cur
      OBVIOUS
    <3>1. IsFiniteSet(Holders(cur))
      BY FS_Subset DEF Holders
    <3>2. Cardinality(Holders(cur)) = 0
      BY <2>2 DEF RefsInv
    <3>3. Holders(cur) = {}
      BY <3>1, <3>2, FS_EmptySet
    <3> QED BY <3>3 DEF Holders
  <2>4. ClosedOnceUnused'
    BY <2>1, <2>2, <2>3 DEF DoomInv, ClosedOnceUnused, ActiveIsServable, NextInv, Untouched
  <2> QED BY <2>2, <2>4 DEF DoomInv, LockInv, UnderReloadMu
<1>8. JobInv'
  BY DEF JobInv, LockInv, CloserInv, NextInv, UnderReloadMu
<1>9. ActiveIsServable'
  BY DEF ActiveIsServable, DoomInv, ClosedOnceUnused, NextInv, Untouched, LeaseInv
<1>10. NoArchiveLeaks'
  <2>1. ASSUME cur # NoSlot, refs[cur] # 0
        PROVE  \E r \in Requests : lease[r] = cur
    <3>1. Holders(cur) # {}
      BY <2>1, FS_EmptySet DEF RefsInv
    <3> QED BY <3>1 DEF Holders
  <2>2. \A t \in Threads : doomed[t] # NoSlot => t # c
    BY DEF DoomInv
  <2>3. cur # NoSlot /\ refs[cur] = 0 => doomed'[c] = cur
    OBVIOUS
  <2>4. \A t \in Threads : t # c => doomed'[t] = doomed[t]
    OBVIOUS
  <2>5. ASSUME NEW y \in open, y # cur
        PROVE  \/ y = cur'
               \/ \E r \in Requests : lease[r] = y
               \/ \E b \in Reloaders : next'[b] = y
               \/ \E t \in Threads : doomed'[t] = y
    BY <2>2, <2>4, <2>5 DEF NoArchiveLeaks, TypeOK
  <2> QED BY <2>1, <2>3, <2>5 DEF NoArchiveLeaks
<1>11. StatusIsHonest'
  BY DEF StatusIsHonest, JobInv, CloserInv, LockInv, NextInv, UnderReloadMu
<1> QED BY <1>1, <1>2, <1>3, <1>4, <1>5, <1>6, <1>7, <1>8, <1>9, <1>10, <1>11

LEMMA CloseOldStep ==
  ASSUME NEW a \in Reloaders, HolderInv, CloseOld(a)
  PROVE  HolderInv'
<1> USE HolderAssumption DEF HolderInv, CloseOld, Goto, CloseDoomed, CloseArchive
<1>1. TypeOK'
  <2>1. open' \subseteq Slots /\ key' \in [Slots -> Keys \cup {NoKey}]
    OBVIOUS
  <2>2. retired' \in [Slots -> BOOLEAN]
    OBVIOUS
  <2>3. doomed' \in [Threads -> Slots \cup {NoSlot}]
    OBVIOUS
  <2>4. pc' \in [Actors -> {"idle"} \cup ReloadSteps \cup CloseSteps]
    OBVIOUS
  <2>5. UNCHANGED <<envVars, refs, cur, lease, ctlVars, jobVars>>
    OBVIOUS
  <2>6. reloadMu' \in Actors \cup {Nobody}
    OBVIOUS
  <2> HIDE DEF CloseOld, CloseLast, RequestCloses, CloseDoomed, CloseArchive, Goto
  <2> QED BY <2>1, <2>2, <2>3, <2>4, <2>5, <2>6
<1>2. LockInv'
  BY DEF LockInv, UnderReloadMu
<1>3. CloserInv'
  BY DEF CloserInv
<1>4. RefsInv'
  BY DEF RefsInv, Holders
<1>5. NextInv'
  BY DEF NextInv, LockInv, UnderReloadMu, Untouched, LeaseInv, DoomInv, ClosedOnceUnused
<1>6. LeaseInv'
  BY DEF LeaseInv, DoomInv, ClosedOnceUnused, NextInv, Untouched, LockInv, UnderReloadMu
<1>7. DoomInv'
  BY DEF DoomInv, LeaseInv, ClosedOnceUnused, NextInv, Untouched, LockInv, UnderReloadMu
<1>8. JobInv'
  BY DEF JobInv, LockInv, CloserInv, NextInv, UnderReloadMu
<1>9. ActiveIsServable'
  BY DEF ActiveIsServable, DoomInv, ClosedOnceUnused, NextInv, Untouched, LeaseInv
<1>10. NoArchiveLeaks'
  BY DEF NoArchiveLeaks, NextInv, DoomInv, ClosedOnceUnused, LeaseInv, RefsInv, Untouched
<1>11. StatusIsHonest'
  BY DEF StatusIsHonest, JobInv, CloserInv, LockInv, NextInv, UnderReloadMu
<1> QED BY <1>1, <1>2, <1>3, <1>4, <1>5, <1>6, <1>7, <1>8, <1>9, <1>10, <1>11

LEMMA CloseLastStep ==
  ASSUME NEW c \in Closers, HolderInv, CloseLast(c)
  PROVE  HolderInv'
<1> USE HolderAssumption DEF HolderInv, CloseLast, Goto, CloseDoomed, CloseArchive
<1>1. TypeOK'
  <2>1. open' \subseteq Slots /\ key' \in [Slots -> Keys \cup {NoKey}]
    OBVIOUS
  <2>2. retired' \in [Slots -> BOOLEAN]
    OBVIOUS
  <2>3. doomed' \in [Threads -> Slots \cup {NoSlot}]
    OBVIOUS
  <2>4. pc' \in [Actors -> {"idle"} \cup ReloadSteps \cup CloseSteps]
    OBVIOUS
  <2>5. UNCHANGED <<envVars, refs, cur, lease, ctlVars, jobVars>>
    OBVIOUS
  <2>6. reloadMu' \in Actors \cup {Nobody}
    OBVIOUS
  <2> HIDE DEF CloseOld, CloseLast, RequestCloses, CloseDoomed, CloseArchive, Goto
  <2> QED BY <2>1, <2>2, <2>3, <2>4, <2>5, <2>6
<1>2. LockInv'
  BY DEF LockInv, UnderReloadMu
<1>3. CloserInv'
  BY DEF CloserInv
<1>4. RefsInv'
  BY DEF RefsInv, Holders
<1>5. NextInv'
  BY DEF NextInv, LockInv, UnderReloadMu, Untouched, LeaseInv, DoomInv, ClosedOnceUnused
<1>6. LeaseInv'
  BY DEF LeaseInv, DoomInv, ClosedOnceUnused, NextInv, Untouched, LockInv, UnderReloadMu
<1>7. DoomInv'
  BY DEF DoomInv, LeaseInv, ClosedOnceUnused, NextInv, Untouched, LockInv, UnderReloadMu
<1>8. JobInv'
  BY DEF JobInv, LockInv, CloserInv, NextInv, UnderReloadMu
<1>9. ActiveIsServable'
  BY DEF ActiveIsServable, DoomInv, ClosedOnceUnused, NextInv, Untouched, LeaseInv
<1>10. NoArchiveLeaks'
  BY DEF NoArchiveLeaks, NextInv, DoomInv, ClosedOnceUnused, LeaseInv, RefsInv, Untouched
<1>11. StatusIsHonest'
  BY DEF StatusIsHonest, JobInv, CloserInv, LockInv, NextInv, UnderReloadMu
<1> QED BY <1>1, <1>2, <1>3, <1>4, <1>5, <1>6, <1>7, <1>8, <1>9, <1>10, <1>11

LEMMA RequestClosesStep ==
  ASSUME NEW r \in Requests, HolderInv, RequestCloses(r)
  PROVE  HolderInv'
<1> USE HolderAssumption DEF HolderInv, RequestCloses, CloseDoomed, CloseArchive
<1>1. TypeOK'
  <2>1. open' \subseteq Slots /\ key' \in [Slots -> Keys \cup {NoKey}]
    OBVIOUS
  <2>2. retired' \in [Slots -> BOOLEAN]
    OBVIOUS
  <2>3. doomed' \in [Threads -> Slots \cup {NoSlot}]
    OBVIOUS
  <2>4. pc' \in [Actors -> {"idle"} \cup ReloadSteps \cup CloseSteps]
    OBVIOUS
  <2>5. UNCHANGED <<envVars, refs, cur, lease, ctlVars, jobVars>>
    OBVIOUS
  <2>6. reloadMu' \in Actors \cup {Nobody}
    OBVIOUS
  <2> HIDE DEF CloseOld, CloseLast, RequestCloses, CloseDoomed, CloseArchive, Goto
  <2> QED BY <2>1, <2>2, <2>3, <2>4, <2>5, <2>6
<1>2. LockInv'
  BY DEF LockInv, UnderReloadMu
<1>3. CloserInv'
  BY DEF CloserInv
<1>4. RefsInv'
  BY DEF RefsInv, Holders
<1>5. NextInv'
  BY DEF NextInv, LockInv, UnderReloadMu, Untouched, LeaseInv, DoomInv, ClosedOnceUnused
<1>6. LeaseInv'
  BY DEF LeaseInv, DoomInv, ClosedOnceUnused, NextInv, Untouched, LockInv, UnderReloadMu
<1>7. DoomInv'
  BY DEF DoomInv, LeaseInv, ClosedOnceUnused, NextInv, Untouched, LockInv, UnderReloadMu
<1>8. JobInv'
  BY DEF JobInv, LockInv, CloserInv, NextInv, UnderReloadMu
<1>9. ActiveIsServable'
  BY DEF ActiveIsServable, DoomInv, ClosedOnceUnused, NextInv, Untouched, LeaseInv
<1>10. NoArchiveLeaks'
  BY DEF NoArchiveLeaks, NextInv, DoomInv, ClosedOnceUnused, LeaseInv, RefsInv, Untouched
<1>11. StatusIsHonest'
  BY DEF StatusIsHonest, JobInv, CloserInv, LockInv, NextInv, UnderReloadMu
<1> QED BY <1>1, <1>2, <1>3, <1>4, <1>5, <1>6, <1>7, <1>8, <1>9, <1>10, <1>11

LEMMA AcquireStep ==
  ASSUME NEW r \in Requests, HolderInv, Acquire(r)
  PROVE  HolderInv'
<1> USE HolderAssumption DEF HolderInv, Acquire, Idle, AddRef
<1>1. TypeOK'
  OBVIOUS
<1>2. LockInv'
  BY DEF LockInv, UnderReloadMu
<1>3. CloserInv'
  BY DEF CloserInv
<1>4. RefsInv'
  <2>1. \A x \in Slots : IsFiniteSet(Holders(x)) /\ Cardinality(Holders(x)) \in Nat
    BY FS_Subset, FS_CardinalityType DEF Holders
  <2>2. r \notin Holders(cur) /\ Holders(cur)' = Holders(cur) \cup {r}
    BY DEF Holders
  <2>3. Cardinality(Holders(cur)') = Cardinality(Holders(cur)) + 1
    BY ZenonT(60), <2>1, <2>2, FS_AddElement
  <2>4. \A x \in Slots : x # cur => Holders(x)' = Holders(x)
    BY DEF Holders
  <2> QED BY <2>1, <2>3, <2>4 DEF RefsInv
<1>5. NextInv'
  BY DEF NextInv, LockInv, UnderReloadMu, Untouched, LeaseInv, DoomInv, ClosedOnceUnused
<1>6. LeaseInv'
  <2>1. cur \in open
    BY DEF ActiveIsServable
  <2> QED BY <2>1 DEF LeaseInv
<1>7. DoomInv'
  BY DEF DoomInv, LeaseInv, ClosedOnceUnused, NextInv, Untouched, LockInv, UnderReloadMu
<1>8. JobInv'
  BY DEF JobInv, LockInv, CloserInv, NextInv, UnderReloadMu
<1>9. ActiveIsServable'
  BY DEF ActiveIsServable, DoomInv, ClosedOnceUnused, NextInv, Untouched, LeaseInv
<1>10. NoArchiveLeaks'
  BY DEF NoArchiveLeaks, NextInv, DoomInv, ClosedOnceUnused, LeaseInv, RefsInv, Untouched
<1>11. StatusIsHonest'
  BY DEF StatusIsHonest, JobInv, CloserInv, LockInv, NextInv, UnderReloadMu
<1> QED BY <1>1, <1>2, <1>3, <1>4, <1>5, <1>6, <1>7, <1>8, <1>9, <1>10, <1>11

LEMMA UnrefStep ==
  ASSUME NEW r \in Requests, HolderInv, Unref(r)
  PROVE  HolderInv'
<1> USE HolderAssumption DEF HolderInv, Unref, LastUser
<1>a. PICK s \in Slots : s = lease[r] /\ s \in open
  BY DEF LeaseInv
<1>b. \A x \in Slots : IsFiniteSet(Holders(x)) /\ Cardinality(Holders(x)) \in Nat
  BY FS_Subset, FS_CardinalityType DEF Holders
<1>c. r \in Holders(s) /\ Holders(s)' = Holders(s) \ {r}
  BY <1>a DEF Holders
<1>d. Cardinality(Holders(s)') = refs[s] - 1 /\ refs[s] - 1 \in Nat
  <2>0. IsFiniteSet(Holders(s)) /\ r \in Holders(s)
    BY <1>a, <1>b, <1>c
  <2>1. IsFiniteSet(Holders(s) \ {r}) /\ Cardinality(Holders(s) \ {r}) = Cardinality(Holders(s)) - 1
    BY <2>0, FS_RemoveElement
  <2>2. refs[s] = Cardinality(Holders(s))
    BY <1>a DEF HolderInv, RefsInv
  <2> QED BY <1>c, <2>1, <2>2, FS_CardinalityType
<1>e. refs[s] = 1 <=> \A x \in Requests : x # r => lease[x] # s
  <2>1. IsFiniteSet(Holders(s)')
    BY <1>b, <1>c, FS_RemoveElement
  <2>2. refs[s] = 1 <=> Holders(s)' = {}
    BY <1>d, <2>1, FS_EmptySet
  <2>3. refs[s] = 1 <=> Holders(s) \ {r} = {}
    BY <1>c, <2>2
  <2> QED BY <2>3 DEF Holders
<1>f. doomed[r] = NoSlot
  BY <1>a DEF LeaseInv
<1>g. lease' = [lease EXCEPT ![r] = NoSlot] /\ refs' = [refs EXCEPT ![s] = refs[s] - 1]
  BY <1>a
<1>1. TypeOK'
  <2>1. refs' \in [Slots -> Nat]
    BY <1>a, <1>d, <1>g
  <2>2. doomed' \in [Threads -> Slots \cup {NoSlot}]
    BY <1>a
  <2>3. lease' \in [Requests -> Slots \cup {NoSlot}]
    OBVIOUS
  <2> QED BY <2>1, <2>2, <2>3
<1>2. LockInv'
  BY DEF LockInv, UnderReloadMu
<1>3. CloserInv'
  BY DEF CloserInv
<1>4. RefsInv'
  <2>1. \A x \in Slots : x # s => Holders(x)' = Holders(x)
    BY <1>a DEF Holders
  <2>2. refs'[s] = Cardinality(Holders(s)')
    BY <1>d, <1>g
  <2>3. \A x \in Slots : x # s => refs'[x] = Cardinality(Holders(x)')
    BY <1>g, <2>1 DEF RefsInv
  <2> QED BY <2>2, <2>3 DEF RefsInv
<1>5. NextInv'
  BY DEF NextInv, LockInv, UnderReloadMu, Untouched, LeaseInv, DoomInv, ClosedOnceUnused
<1>6. LeaseInv'
  BY DEF LeaseInv, DoomInv, ClosedOnceUnused, NextInv, Untouched, LockInv, UnderReloadMu
<1>7. DoomInv'
  <2>1. doomed'[r] # NoSlot => doomed'[r] = s /\ retired[s] /\ refs[s] = 1
    BY <1>a
  <2>2. \A t \in Threads : t # r => doomed'[t] = doomed[t]
    OBVIOUS
  <2>3. retired[s] => s # cur
    BY <1>a DEF ActiveIsServable
  <2>4. \A t \in Threads : doomed[t] # s
    BY <1>a DEF DoomInv, ClosedOnceUnused
  <2>5. ClosedOnceUnused'
    BY <1>a, <1>e, <1>g, <2>1, <2>2, <2>3, <2>4 DEF DoomInv, ClosedOnceUnused
  <2> QED BY <2>2, <2>5 DEF DoomInv
<1>8. JobInv'
  BY DEF JobInv, LockInv, CloserInv, NextInv, UnderReloadMu
<1>9. ActiveIsServable'
  BY DEF ActiveIsServable, DoomInv, ClosedOnceUnused, NextInv, Untouched, LeaseInv
<1>10. NoArchiveLeaks'
  <2>1. s # cur => retired[s]
    BY <1>a DEF LeaseInv
  <2>2. s # cur /\ refs[s] = 1 => doomed'[r] = s
    BY <1>a, <2>1
  <2>3. refs[s] # 1 => \E x \in Requests : lease'[x] = s
    BY <1>e, <1>g
  <2>4. \A t \in Threads : t # r => doomed'[t] = doomed[t]
    OBVIOUS
  <2> QED BY <1>a, <1>f, <1>g, <2>2, <2>3, <2>4 DEF NoArchiveLeaks
<1>11. StatusIsHonest'
  BY DEF StatusIsHonest, JobInv, CloserInv, LockInv, NextInv, UnderReloadMu
<1> QED BY <1>1, <1>2, <1>3, <1>4, <1>5, <1>6, <1>7, <1>8, <1>9, <1>10, <1>11

----------------------------------------------------------------------------
(* HolderInv is an invariant.                                              *)

LEMMA InitInv == Init => HolderInv
<1> SUFFICES ASSUME Init PROVE HolderInv
  OBVIOUS
<1> USE HolderAssumption DEF Init
<1>1. TypeOK
  OBVIOUS
<1>2. RefsInv
  <2>1. \A s \in Slots : Holders(s) = {}
    BY DEF Holders
  <2> QED BY <2>1, FS_EmptySet DEF RefsInv
<1>3. LockInv /\ CloserInv /\ NextInv /\ LeaseInv /\ DoomInv /\ JobInv
  BY DEF LockInv, UnderReloadMu, CloserInv, NextInv, LeaseInv, DoomInv,
         ClosedOnceUnused, JobInv
<1>4. ActiveIsServable /\ NoArchiveLeaks /\ StatusIsHonest
  BY DEF ActiveIsServable, NoArchiveLeaks, StatusIsHonest
<1> QED BY <1>1, <1>2, <1>3, <1>4 DEF HolderInv

LEMMA StutterStep == HolderInv /\ UNCHANGED vars => HolderInv'
BY DEF vars,
      HolderInv, LockInv, CloserInv, RefsInv, NextInv, LeaseInv, DoomInv, JobInv,
      ActiveIsServable, NoArchiveLeaks, StatusIsHonest, ClosedOnceUnused, Holders,
      Untouched, UnderReloadMu

LEMMA NextStep == HolderInv /\ [Next]_vars => HolderInv'
<1> SUFFICES ASSUME HolderInv, [Next]_vars PROVE HolderInv'
  OBVIOUS
<1>1. CASE EnvStep
  BY <1>1, MovePointerStep, StoreRecoversStep, SignalStep DEF EnvStep
<1>2. ASSUME NEW r \in Requests, RequestStep(r) PROVE HolderInv'
  BY <1>2, AcquireStep, UnrefStep, RequestClosesStep DEF RequestStep
<1>3. ASSUME NEW a \in Reloaders, CallReload(a) \/ LockReload(a) \/ ReloadWork(a)
      PROVE  HolderInv'
  <2>1. CASE CallReload(a) \/ LockReload(a) \/ ReadPointer(a) \/ LoadRelease(a)
    BY <2>1, CallReloadStep, LockReloadStep, ReadPointerStep, LoadReleaseStep
  <2>2. CASE Validate(a) \/ RefuseSwitch(a) \/ Switch(a) \/ CloseOld(a) \/ Report(a)
    BY <2>2, ValidateStep, RefuseSwitchStep, SwitchStep, CloseOldStep, ReportStep
  <2> QED BY <1>3, <2>1, <2>2 DEF ReloadWork
<1>4. CASE Start \/ Trigger \/ PollerStep
  BY <1>4, StartStep, TriggerStep, PollerTicksStep, PollerTriggeredStep, PollerStopsStep
     DEF PollerStep
<1>5. ASSUME NEW c \in Closers, CloseStep(c) PROVE HolderInv'
  BY <1>5, CallCloseStep, CloseStopStep, JoinStep, RetireStep, CloseLastStep DEF CloseStep
<1>6. CASE UNCHANGED vars
  BY <1>6, StutterStep
<1> QED BY <1>1, <1>2, <1>3, <1>4, <1>5, <1>6 DEF Next

(* The inductive invariant holds in every reachable state of the holder.   *)
THEOREM HolderInvariant == Spec => []HolderInv
<1>1. HolderInv /\ [Next]_vars => HolderInv'
  BY NextStep
<1> QED BY InitInv, <1>1, PTL DEF Spec

(* The variables of the holder keep their types.                           *)
THEOREM TypeCorrect == Spec => []TypeOK
<1>1. HolderInv => TypeOK
  BY DEF HolderInv
<1> QED BY <1>1, HolderInvariant, PTL

(* A request can read the release it acquired until it gives it back,      *)
(* however many reloads and closes run meanwhile (holder.go, Acquire).     *)
THEOREM LeasesAreSafe == Spec => []LeasedStaysOpen
<1>1. HolderInv => LeasedStaysOpen
  BY DEF HolderInv, LeaseInv, LeasedStaysOpen
<1> QED BY <1>1, HolderInvariant, PTL

(* A release that does not load or validate is never the active one.       *)
THEOREM ActiveIsAlwaysServable == Spec => []ActiveIsServable
<1>1. HolderInv => ActiveIsServable
  BY DEF HolderInv
<1> QED BY <1>1, HolderInvariant, PTL

(* No archive is closed twice, or while a request or the holder uses it    *)
(* (unref, reload and Close decide under mu and close after the unlock).   *)
THEOREM ClosesAreSafe == Spec => []ClosedOnceUnused
<1>1. HolderInv => ClosedOnceUnused
  BY DEF HolderInv, DoomInv
<1> QED BY <1>1, HolderInvariant, PTL

(* Every open archive has a thread or the holder that will close it.       *)
THEOREM NothingLeaks == Spec => []NoArchiveLeaks
<1>1. HolderInv => NoArchiveLeaks
  BY DEF HolderInv
<1> QED BY <1>1, HolderInvariant, PTL

(* An open holder whose last check succeeded has a release to serve.       *)
THEOREM StatusIsAlwaysHonest == Spec => []StatusIsHonest
<1>1. HolderInv => StatusIsHonest
  BY DEF HolderInv
<1> QED BY <1>1, HolderInvariant, PTL

(* Only Close unloads: a loaded holder stays loaded while it is open.      *)
THEOREM StaysLoaded == Spec => NeverUnloaded
<1>1. HolderInv /\ [Next]_vars => [cur # NoSlot /\ ~closed => cur' # NoSlot]_vars
  <2> SUFFICES ASSUME HolderInv, [Next]_vars, cur # NoSlot, ~closed
               PROVE  cur' # NoSlot
    OBVIOUS
  <2>1. ASSUME NEW a \in Reloaders, Switch(a) PROVE cur' # NoSlot
    BY <2>1 DEF HolderInv, NextInv, Switch
  <2>2. ASSUME NEW c \in Closers, Retire(c) PROVE FALSE
    BY <2>2 DEF HolderInv, CloserInv, Retire
  <2> QED BY <2>1, <2>2 DEF Next, EnvStep, MovePointer, StoreRecovers, Signal, RequestStep,
         Acquire, Unref, RequestCloses, CallReload, LockReload, ReloadWork, ReadPointer,
         LoadRelease, Validate, RefuseSwitch, CloseOld, Report, Start, Trigger, PollerStep,
         PollerTicks, PollerTriggered, PollerStops, CloseStep, CallClose, CloseStop, Join,
         CloseLast, vars
<1> QED BY <1>1, HolderInvariant, PTL DEF Spec, NeverUnloaded

----------------------------------------------------------------------------
(* The holder implements ReleaseLease.                                     *)

LEMMA LeaseInit == Init => Lease!LeaseInit
BY DEF Init, Lease!LeaseInit, Closing

\* Every step of the holder is a step of the lease contract, or none.
LEMMA LeaseStep == HolderInv /\ [Next]_vars => [Lease!LeaseNext]_(Lease!leaseVars)
<1> SUFFICES ASSUME HolderInv, [Next]_vars
             PROVE  Lease!LeaseNext \/ UNCHANGED Lease!leaseVars
  OBVIOUS
<1> USE HolderAssumption DEF HolderInv
<1>q. ASSUME UNCHANGED <<open, cur, lease, closed>>, UNCHANGED Closing
      PROVE  UNCHANGED Lease!leaseVars
  BY <1>q DEF Lease!leaseVars
<1>1. ASSUME NEW r \in Requests, Acquire(r) PROVE Lease!Take(r)
  BY <1>1 DEF Acquire, Idle, Lease!Take, Closing
<1>2. ASSUME NEW r \in Requests, Unref(r) PROVE Lease!GiveBack(r)
  BY <1>2 DEF Unref, Lease!GiveBack, Closing
<1>c. ASSUME NEW s \in Slots \cup {NoSlot}, s # NoSlot => s \in open /\ s # cur,
             s # NoSlot => \A r \in Requests : lease[r] # s,
             open' = open \ {s}, UNCHANGED <<cur, lease, closed>>, UNCHANGED Closing
      PROVE  Lease!CloseOne(s) \/ UNCHANGED Lease!leaseVars
  <2>1. CASE s = NoSlot
    <3>1. open' = open
      BY <2>1, <1>c
    <3> QED BY <1>c, <1>q, <3>1
  <2>2. CASE s # NoSlot
    BY <1>c, <2>2 DEF Lease!CloseOne, Lease!Unused
  <2> QED BY <2>1, <2>2
<1>3. ASSUME NEW r \in Requests, RequestCloses(r)
      PROVE  Lease!CloseOne(doomed[r]) /\ doomed[r] \in Slots
  <2>1. doomed[r] \in Slots /\ doomed[r] \in open /\ doomed[r] # cur
    BY <1>3 DEF RequestCloses, DoomInv, ClosedOnceUnused
  <2>2. \A q \in Requests : lease[q] # doomed[r]
    BY <1>3 DEF RequestCloses, DoomInv, ClosedOnceUnused
  <2>3. open' = open \ {doomed[r]} /\ UNCHANGED <<cur, lease, closed>> /\ UNCHANGED Closing
    BY <1>3 DEF RequestCloses, CloseDoomed, CloseArchive, Closing
  <2> QED BY <2>1, <2>2, <2>3 DEF Lease!CloseOne, Lease!Unused
<1>4. ASSUME NEW a \in Reloaders, LoadRelease(a)
      PROVE  (\E s \in Slots : Lease!OpenOne(s)) \/ UNCHANGED Lease!leaseVars
  <2>1. UNCHANGED <<cur, lease, closed>> /\ UNCHANGED Closing
    BY <1>4 DEF LoadRelease, Goto, Fail, Closing
  <2>2. UNCHANGED open \/ \E s \in Slots : Free(s) /\ open' = open \cup {s}
    BY <1>4 DEF LoadRelease
  <2> QED BY <1>q, <2>1, <2>2 DEF Free, Lease!OpenOne, Lease!Unused
<1>5. ASSUME NEW a \in Reloaders, Validate(a) \/ RefuseSwitch(a)
      PROVE  Lease!CloseOne(next[a]) \/ UNCHANGED Lease!leaseVars
  <2>1. UNCHANGED <<cur, lease, closed>> /\ UNCHANGED Closing
    BY <1>5 DEF Validate, RefuseSwitch, Goto, Fail, Closing
  <2>2. UNCHANGED open \/ open' = open \ {next[a]}
    BY <1>5 DEF Validate, RefuseSwitch, Discard, CloseArchive
  <2>3. next[a] \in open /\ next[a] # cur /\ \A r \in Requests : lease[r] # next[a]
    BY <1>5 DEF Validate, RefuseSwitch, NextInv, Untouched
  <2> QED BY <1>q, <2>1, <2>2, <2>3 DEF Lease!CloseOne, Lease!Unused
<1>6. ASSUME NEW a \in Reloaders, Switch(a) PROVE Lease!Publish(next[a]) /\ next[a] \in Slots
  <2>1. next[a] \in open /\ next[a] # cur /\ \A r \in Requests : lease[r] # next[a]
    BY <1>6 DEF Switch, NextInv, Untouched
  <2>2. ~closed /\ cur' = next[a] /\ UNCHANGED <<open, lease, closed>>
    BY <1>6 DEF Switch, HolderOpen
  <2> QED BY <2>1, <2>2 DEF Lease!Publish, Lease!Unused
<1>7. ASSUME NEW t \in Actors, CloseDoomed(t), UNCHANGED <<cur, lease, closed>>,
             UNCHANGED Closing
      PROVE  Lease!LeaseNext \/ UNCHANGED Lease!leaseVars
  <2>1. doomed[t] # NoSlot => /\ doomed[t] \in open /\ doomed[t] # cur
                              /\ \A r \in Requests : lease[r] # doomed[t]
    BY DEF DoomInv, ClosedOnceUnused
  <2>2. open' = open \ {doomed[t]} /\ doomed[t] \in Slots \cup {NoSlot}
    BY <1>7 DEF CloseDoomed, CloseArchive
  <2>3. Lease!CloseOne(doomed[t]) \/ UNCHANGED Lease!leaseVars
    BY <1>7, <1>c, <2>1, <2>2
  <2> QED BY <2>1, <2>2, <2>3 DEF Lease!LeaseNext, Lease!CloseOne
<1>8. ASSUME NEW a \in Reloaders, CloseOld(a)
      PROVE  Lease!LeaseNext \/ UNCHANGED Lease!leaseVars
  BY <1>7, <1>8 DEF CloseOld, Goto, Closing
<1>9. ASSUME NEW c \in Closers, CloseLast(c)
      PROVE  Lease!LeaseNext \/ UNCHANGED Lease!leaseVars
  <2>1. UNCHANGED Closing
    BY <1>9 DEF CloseLast, Goto, Closing
  <2> QED BY <1>7, <1>9, <2>1 DEF CloseLast
<1>10. ASSUME NEW c \in Closers, Retire(c) PROVE Lease!Shut
  <2>1. closed /\ closed' /\ Closing
    BY <1>10 DEF Retire, CloserInv, Closing
  <2>2. ~Closing'
    BY <1>10 DEF Retire, Goto, CloserInv, Closing
  <2> QED BY <1>10, <2>1, <2>2 DEF Lease!Shut, Retire
<1>11. ASSUME NEW c \in Closers, CallClose(c) PROVE UNCHANGED Lease!leaseVars
  <2>1. (closed /\ ~Closing)' <=> (closed /\ ~Closing)
    <3>1. CASE closed
      BY <1>11, <3>1 DEF CallClose, MarkClosed, Goto, Closing
    <3>2. CASE ~closed
      <4>1. pc'[c] \in {"retire", "stop"}
        BY <1>11, <3>2 DEF CallClose, Goto
      <4> QED BY <3>2, <4>1 DEF Closing
    <3> QED BY <3>1, <3>2
  <2> QED BY <1>11, <2>1 DEF CallClose, Lease!leaseVars
<1>12. ASSUME NEW c \in Closers, CloseStop(c) \/ Join(c) PROVE UNCHANGED Lease!leaseVars
  <2>1. Closing /\ Closing'
    BY <1>12 DEF CloseStop, Join, Goto, Closing
  <2> QED BY <1>12, <2>1 DEF CloseStop, Join, Lease!leaseVars
<1>13. ASSUME NEW a \in Reloaders,
              CallReload(a) \/ LockReload(a) \/ ReadPointer(a) \/ Report(a)
       PROVE  UNCHANGED Lease!leaseVars
  <2>1. UNCHANGED Closing
    BY <1>13 DEF CallReload, LockReload, ReadPointer, Report, Fail, Goto, Closing
  <2> QED BY <1>13, <1>q, <2>1 DEF CallReload, LockReload, ReadPointer, Report
<1>14. CASE EnvStep \/ Start \/ Trigger \/ PollerStep
  <2>1. UNCHANGED Closing
    BY <1>14 DEF EnvStep, MovePointer, StoreRecovers, Signal, Start, Trigger, PollerStep,
         PollerTicks, PollerTriggered, PollerStops, Goto, Closing
  <2> QED BY <1>14, <1>q, <2>1 DEF EnvStep, MovePointer, StoreRecovers, Signal, Start, Trigger,
         PollerStep, PollerTicks, PollerTriggered, PollerStops
<1>15. CASE UNCHANGED vars
  BY <1>15 DEF vars, Lease!leaseVars, Closing
<1>16. ASSUME NEW r \in Requests, RequestStep(r) PROVE Lease!LeaseNext
  BY <1>1, <1>2, <1>3, <1>16 DEF RequestStep, Lease!LeaseNext
<1>17. ASSUME NEW a \in Reloaders, CallReload(a) \/ LockReload(a) \/ ReloadWork(a)
       PROVE  Lease!LeaseNext \/ UNCHANGED Lease!leaseVars
  <2>1. CASE Validate(a) \/ RefuseSwitch(a)
    <3>1. next[a] \in Slots
      BY <2>1 DEF Validate, RefuseSwitch, NextInv
    <3> QED BY <1>5, <2>1, <3>1 DEF Lease!LeaseNext
  <2> QED BY <1>4, <1>6, <1>8, <1>13, <1>17, <2>1 DEF ReloadWork, Lease!LeaseNext
<1>18. ASSUME NEW c \in Closers, CloseStep(c)
       PROVE  Lease!LeaseNext \/ UNCHANGED Lease!leaseVars
  BY <1>9, <1>10, <1>11, <1>12, <1>18 DEF CloseStep, Lease!LeaseNext
<1> QED BY <1>14, <1>15, <1>16, <1>17, <1>18 DEF Next

(* The reference counts and the two mutexes implement the lease contract:  *)
(* an archive is closed only while unused, and nothing is published after  *)
(* Close retired the last release.                                         *)
THEOREM HolderImplementsLease == Spec => ImplementsLease
<1>1. HolderInv /\ [Next]_vars => [Lease!LeaseNext]_(Lease!leaseVars)
  BY LeaseStep
<1> QED BY LeaseInit, <1>1, HolderInvariant, PTL DEF Spec, ImplementsLease, Lease!LeaseSpec
=============================================================================
