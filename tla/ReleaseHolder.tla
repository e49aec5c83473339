--------------------------- MODULE ReleaseHolder ---------------------------
(***************************************************************************)
(* internal/release/holder.go: the holder of the active tile release.      *)
(* Requests lease the active release with Acquire and give it back; a      *)
(* reload reads the release pointer, opens the archive it names, validates *)
(* it and swaps it in under mu; the replaced archive is closed by the last *)
(* user.  A poller reloads on a ticker and on SIGHUP; Close stops it.      *)
(*                                                                         *)
(* Every critical section of h.mu is one action.  What happens outside mu  *)
(* (store reads, the archive closing after the unlock) is a step of its    *)
(* own.  h.reloadMu is held over several steps, so it is a variable.       *)
(***************************************************************************)
EXTENDS Integers, FiniteSets

CONSTANTS
  Requests,   \* goroutines that serve requests
  Loaders,    \* goroutines that call Reload directly (start-up, tests)
  Poller,     \* the goroutine Start launches
  Closers,    \* goroutines that call Close
  Slots,      \* identities of slots; an identity nobody refers to is free
  Keys,       \* release keys a pointer can name
  Bad,        \* the keys whose manifest or archive does not load
  Rejected,   \* the keys whose archive opens but whose styles do not validate
  NoKey,      \* the pointer is missing or malformed
  NoSlot,     \* a nil *slot
  Nobody      \* reloadMu is free

Reloaders == Loaders \cup {Poller}
Actors    == Reloaders \cup Closers
Threads   == Actors \cup Requests

ASSUME HolderAssumption ==
  /\ IsFiniteSet(Requests)
  /\ NoSlot \notin Slots /\ NoKey \notin Keys /\ Nobody \notin Actors
  /\ Poller \notin Loaders \cup Closers /\ Loaders \cap Closers = {}
  /\ Actors \cap Requests = {}
  /\ Bad \subseteq Keys /\ Rejected \subseteq Keys

VARIABLES
  pointer,    \* the key the store's pointer names now
  reliable,   \* from now on the store answers every read
  hup,        \* a SIGHUP waits in the signal channel (capacity 1)
  open,       \* the slots whose archive is open
  key,        \* slot.rel.Key
  refs,       \* slot.refs
  retired,    \* slot.retired
  cur,        \* h.cur
  lease,      \* the slot each request holds
  doomed,     \* the slot each thread has decided to close, after its unlock
  closed,     \* h.closed
  stop,       \* h.stop: "nil", "open" or "closed"
  trigger,    \* a value waits in h.trigger (capacity 1)
  reloadMu,   \* who holds h.reloadMu
  pc,         \* where each actor is
  target,     \* the key a reload read from the pointer
  next,       \* the slot a reload prepared
  failed,     \* a reload's err # nil
  check       \* h.lastCheck and h.lastErr: "never", "ok" or "error"

envVars  == <<pointer, reliable, hup>>
slotVars == <<open, key, refs, retired>>
ctlVars  == <<closed, stop, trigger, check>>
jobVars  == <<target, next, failed>>
vars == <<envVars, slotVars, cur, lease, doomed, ctlVars, reloadMu, pc, jobVars>>

ReloadSteps == {"lock", "current", "load", "validate", "switch", "closeOld", "report"}
CloseSteps  == {"stop", "join", "retire", "closeLast", "returned"}

TypeOK ==
  /\ pointer \in Keys \cup {NoKey} /\ reliable \in BOOLEAN
  /\ hup \in BOOLEAN
  /\ open \subseteq Slots /\ key \in [Slots -> Keys \cup {NoKey}]
  /\ refs \in [Slots -> Nat] /\ retired \in [Slots -> BOOLEAN]
  /\ cur \in Slots \cup {NoSlot}
  /\ lease \in [Requests -> Slots \cup {NoSlot}]
  /\ doomed \in [Threads -> Slots \cup {NoSlot}]
  /\ closed \in BOOLEAN /\ stop \in {"nil", "open", "closed"}
  /\ trigger \in BOOLEAN /\ check \in {"never", "ok", "error"}
  /\ reloadMu \in Actors \cup {Nobody}
  /\ pc \in [Actors -> {"idle"} \cup ReloadSteps \cup CloseSteps]
  /\ target \in [Reloaders -> Keys \cup {NoKey}]
  /\ next \in [Reloaders -> Slots \cup {NoSlot}]
  /\ failed \in [Reloaders -> BOOLEAN]

Init ==
  /\ pointer \in Keys \cup {NoKey} /\ reliable \in BOOLEAN
  /\ hup = FALSE
  /\ open = {} /\ key = [s \in Slots |-> NoKey]
  /\ refs = [s \in Slots |-> 0] /\ retired = [s \in Slots |-> FALSE]
  /\ cur = NoSlot /\ lease = [r \in Requests |-> NoSlot]
  /\ doomed = [t \in Threads |-> NoSlot]
  /\ closed = FALSE /\ stop = "nil" /\ trigger = FALSE /\ check = "never"
  /\ reloadMu = Nobody /\ pc = [a \in Actors |-> "idle"]
  /\ target = [a \in Reloaders |-> NoKey]
  /\ next = [a \in Reloaders |-> NoSlot]
  /\ failed = [a \in Reloaders |-> FALSE]

Goto(a, step) == pc' = [pc EXCEPT ![a] = step]

\* A slot identity that no variable of any goroutine refers to.
Free(s) ==
  /\ s \notin open /\ s # cur
  /\ \A r \in Requests : lease[r] # s
  /\ \A t \in Threads : doomed[t] # s
  /\ \A a \in Reloaders : next[a] # s

----------------------------------------------------------------------------
(* The environment: the publisher, the store and the operator.             *)

MovePointer(k) ==
  /\ pointer # k
  /\ pointer' = k
  /\ UNCHANGED <<reliable, hup, slotVars, cur, lease, doomed, ctlVars, reloadMu, pc, jobVars>>

\* A store that is not reliable may answer or fail, so one recovery is enough.
StoreRecovers ==
  /\ ~reliable
  /\ reliable' = TRUE
  /\ UNCHANGED <<pointer, hup, slotVars, cur, lease, doomed, ctlVars, reloadMu, pc, jobVars>>

\* SIGHUP: a signal that finds the channel full is dropped, the waiting one stands for it.
Signal ==
  /\ stop # "nil"
  /\ hup' = TRUE
  /\ UNCHANGED <<pointer, reliable, slotVars, cur, lease, doomed, ctlVars, reloadMu, pc, jobVars>>

----------------------------------------------------------------------------
(* closeRelease.  A closed slot is garbage: its fields are forgotten.      *)

CloseArchive(s) ==
  /\ open' = open \ {s}
  /\ key' = [x \in Slots |-> IF x = s THEN NoKey ELSE key[x]]
  /\ retired' = [x \in Slots |-> IF x = s THEN FALSE ELSE retired[x]]

\* The closing a thread decided on under mu, after the unlock.
CloseDoomed(t) ==
  /\ CloseArchive(doomed[t])
  /\ doomed' = [doomed EXCEPT ![t] = NoSlot]

----------------------------------------------------------------------------
(* Requests.                                                               *)

Idle(r) == lease[r] = NoSlot /\ doomed[r] = NoSlot

AddRef(s) == refs' = [refs EXCEPT ![s] = @ + 1]

Acquire(r) ==
  /\ Idle(r) /\ cur # NoSlot
  /\ AddRef(cur)
  /\ lease' = [lease EXCEPT ![r] = cur]
  /\ UNCHANGED <<envVars, open, key, retired, cur, doomed, ctlVars, reloadMu, pc, jobVars>>

\* Mutants: nobody, or any user of a retired slot, closes it.
NoLastUser(s)    == FALSE
EveryUserLast(s) == retired[s]
LastUser(s)      == retired[s] /\ refs[s] = 1

\* The release func: the reference goes and, when it was the last one on a
\* retired slot, the request has to close the archive after the unlock.
Unref(r) ==
  /\ lease[r] # NoSlot
  /\ refs' = [refs EXCEPT ![lease[r]] = @ - 1]
  /\ doomed' = [doomed EXCEPT ![r] = IF LastUser(lease[r]) THEN lease[r] ELSE NoSlot]
  /\ lease' = [lease EXCEPT ![r] = NoSlot]
  /\ UNCHANGED <<envVars, open, key, retired, cur, ctlVars, reloadMu, pc, jobVars>>

RequestCloses(r) ==
  /\ doomed[r] # NoSlot
  /\ CloseDoomed(r)
  /\ UNCHANGED <<envVars, refs, cur, lease, ctlVars, reloadMu, pc, jobVars>>

----------------------------------------------------------------------------
(* Reload.  The context of a poller's reload is cancelled by Close.        *)

MayFail(a) == ~reliable \/ (a = Poller /\ stop = "closed")

CallReload(a) ==
  /\ a \in Loaders /\ pc[a] = "idle"
  /\ Goto(a, "lock")
  /\ UNCHANGED <<envVars, slotVars, cur, lease, doomed, ctlVars, reloadMu, jobVars>>

LockReload(a) ==
  /\ pc[a] = "lock" /\ reloadMu = Nobody
  /\ reloadMu' = a
  /\ Goto(a, "current")
  /\ UNCHANGED <<envVars, slotVars, cur, lease, doomed, ctlVars, jobVars>>

Fail(a) == failed' = [failed EXCEPT ![a] = TRUE] /\ Goto(a, "report")

UpToDate == cur # NoSlot /\ key[cur] = pointer

\* store.Current and the comparison with the active key (cur moves only under reloadMu).
ReadPointer(a) ==
  /\ pc[a] = "current"
  /\ \/ /\ MayFail(a) \/ pointer = NoKey
        /\ Fail(a) /\ UNCHANGED target
     \/ /\ pointer # NoKey
        /\ IF UpToDate
             THEN Goto(a, "report") /\ UNCHANGED target
             ELSE Goto(a, "load") /\ target' = [target EXCEPT ![a] = pointer]
        /\ UNCHANGED failed
  /\ UNCHANGED <<envVars, slotVars, cur, lease, doomed, ctlVars, reloadMu, next>>

\* Manifest and archive.  A failed OpenArchive leaves nothing open.
LoadRelease(a) ==
  /\ pc[a] = "load"
  /\ \/ /\ MayFail(a) \/ target[a] \in Bad
        /\ Fail(a) /\ UNCHANGED <<slotVars, next>>
     \/ /\ target[a] \notin Bad
        /\ \E s \in Slots :
             /\ Free(s)
             /\ open' = open \cup {s}
             /\ key' = [key EXCEPT ![s] = target[a]]
             /\ refs' = [refs EXCEPT ![s] = 0]
             /\ retired' = [retired EXCEPT ![s] = FALSE]
             /\ next' = [next EXCEPT ![a] = s]
        /\ Goto(a, "validate") /\ UNCHANGED failed
  /\ UNCHANGED <<envVars, cur, lease, doomed, ctlVars, reloadMu, target>>

\* Mutant: the rejected archive stays open.
DiscardLeaks(a) ==
  /\ next' = [next EXCEPT ![a] = NoSlot]
  /\ UNCHANGED <<open, key, retired>>

Discard(a) ==
  /\ CloseArchive(next[a])
  /\ next' = [next EXCEPT ![a] = NoSlot]

StylesRender(k) == k \notin Rejected

Validate(a) ==
  /\ pc[a] = "validate"
  /\ \/ /\ MayFail(a) \/ ~StylesRender(target[a])
        /\ Fail(a) /\ Discard(a)
     \/ /\ StylesRender(target[a])
        /\ Goto(a, "switch") /\ UNCHANGED <<failed, open, key, retired, next>>
  /\ UNCHANGED <<envVars, refs, cur, lease, doomed, ctlVars, reloadMu, target>>

\* The holder was closed meanwhile: the new archive is closed, nothing is switched.
RefuseSwitch(a) ==
  /\ pc[a] = "switch" /\ closed
  /\ Fail(a) /\ Discard(a)
  /\ UNCHANGED <<envVars, refs, cur, lease, doomed, ctlVars, reloadMu, target>>

\* Mutant: the replaced archive is closed although requests hold it.
AnyActive(s) == s # NoSlot
Unheld(s)    == s # NoSlot /\ refs[s] = 0

\* A thread that takes the active slot away retires it and, when no request
\* holds it, has to close its archive after the unlock.
RetireCur(t) ==
  /\ retired' = [s \in Slots |-> IF s = cur THEN TRUE ELSE retired[s]]
  /\ doomed' = [doomed EXCEPT ![t] = IF Unheld(cur) THEN cur ELSE NoSlot]

\* Mutant: the switch does not look at h.closed.
AlwaysOpen == TRUE
HolderOpen == ~closed

Switch(a) ==
  /\ pc[a] = "switch" /\ HolderOpen
  /\ cur' = next[a]
  /\ next' = [next EXCEPT ![a] = NoSlot]
  /\ RetireCur(a)
  /\ Goto(a, "closeOld")
  /\ UNCHANGED <<envVars, open, key, refs, lease, ctlVars, reloadMu, target, failed>>

CloseOld(a) ==
  /\ pc[a] = "closeOld"
  /\ CloseDoomed(a)
  /\ Goto(a, "report")
  /\ UNCHANGED <<envVars, refs, cur, lease, ctlVars, reloadMu, jobVars>>

\* Mutant: lastErr is not recorded.
NoError(a) == "ok"
Outcome(a) == IF failed[a] THEN "error" ELSE "ok"

\* lastCheck and lastErr under mu, then reloadMu is released.
Report(a) ==
  /\ pc[a] = "report"
  /\ check' = Outcome(a)
  /\ reloadMu' = Nobody
  /\ target' = [target EXCEPT ![a] = NoKey]
  /\ failed' = [failed EXCEPT ![a] = FALSE]
  /\ Goto(a, "idle")
  /\ UNCHANGED <<envVars, slotVars, cur, lease, doomed, closed, stop, trigger, next>>

----------------------------------------------------------------------------
(* The poller, and the goroutine that turns SIGHUP into Trigger.           *)

Start ==
  /\ stop = "nil" /\ ~closed
  /\ stop' = "open"
  /\ UNCHANGED <<envVars, slotVars, cur, lease, doomed, closed, trigger, check, reloadMu, pc, jobVars>>

\* The poller is in its select; it returns by moving to "returned".
Selecting == stop # "nil" /\ pc[Poller] = "idle"

\* A non-blocking send: a full channel keeps the value it has.
\* Mutant: the channel has no buffer, so only a selecting poller hears it.
SendUnbuffered == trigger' = (trigger \/ Selecting)
SendTrigger    == trigger' = TRUE

Trigger ==
  /\ hup
  /\ hup' = FALSE /\ SendTrigger
  /\ UNCHANGED <<pointer, reliable, slotVars, cur, lease, doomed, closed, stop, check,
                 reloadMu, pc, jobVars>>

\* The interval is not modelled; with interval 0 no tick ever comes.
PollerTicks ==
  /\ Selecting
  /\ Goto(Poller, "lock")
  /\ UNCHANGED <<envVars, slotVars, cur, lease, doomed, ctlVars, reloadMu, jobVars>>

PollerTriggered ==
  /\ Selecting /\ trigger
  /\ trigger' = FALSE
  /\ Goto(Poller, "lock")
  /\ UNCHANGED <<envVars, slotVars, cur, lease, doomed, closed, stop, check, reloadMu, jobVars>>

PollerStops ==
  /\ Selecting /\ stop = "closed"
  /\ Goto(Poller, "returned")
  /\ UNCHANGED <<envVars, slotVars, cur, lease, doomed, ctlVars, reloadMu, jobVars>>

----------------------------------------------------------------------------
(* Close.                                                                  *)

\* Mutant: Close does not mark the holder closed.
LeaveOpen  == UNCHANGED closed
MarkClosed == closed' = TRUE

CallClose(c) ==
  /\ pc[c] = "idle"
  /\ MarkClosed
  /\ Goto(c, CASE closed -> "returned"
               [] ~closed /\ stop = "nil" -> "retire"
               [] OTHER -> "stop")
  /\ UNCHANGED <<envVars, slotVars, cur, lease, doomed, stop, trigger, check, reloadMu, jobVars>>

StopPoller == stop' = "closed"

CloseStop(c) ==
  /\ pc[c] = "stop"
  /\ StopPoller
  /\ Goto(c, "join")
  /\ UNCHANGED <<envVars, slotVars, cur, lease, doomed, closed, trigger, check, reloadMu, jobVars>>

Join(c) ==
  /\ pc[c] = "join" /\ pc[Poller] = "returned"
  /\ Goto(c, "retire")
  /\ UNCHANGED <<envVars, slotVars, cur, lease, doomed, ctlVars, reloadMu, jobVars>>

\* reloadMu is taken, which waits for a running reload; then cur is retired under mu.
Retire(c) ==
  /\ pc[c] = "retire" /\ reloadMu = Nobody
  /\ reloadMu' = c
  /\ cur' = NoSlot
  /\ RetireCur(c)
  /\ Goto(c, "closeLast")
  /\ UNCHANGED <<envVars, open, key, refs, lease, ctlVars, jobVars>>

CloseLast(c) ==
  /\ pc[c] = "closeLast"
  /\ CloseDoomed(c)
  /\ reloadMu' = Nobody
  /\ Goto(c, "returned")
  /\ UNCHANGED <<envVars, refs, cur, lease, ctlVars, jobVars>>

----------------------------------------------------------------------------
EnvStep == (\E k \in Keys \cup {NoKey} : MovePointer(k)) \/ StoreRecovers \/ Signal

RequestStep(r) == Acquire(r) \/ Unref(r) \/ RequestCloses(r)

\* The steps of a reload that holds reloadMu.
ReloadWork(a) ==
  \/ ReadPointer(a) \/ LoadRelease(a) \/ Validate(a)
  \/ RefuseSwitch(a) \/ Switch(a) \/ CloseOld(a) \/ Report(a)

PollerStep == PollerTicks \/ PollerTriggered \/ PollerStops

CloseStep(c) ==
  CallClose(c) \/ CloseStop(c) \/ Join(c) \/ Retire(c) \/ CloseLast(c)

Next ==
  \/ EnvStep
  \/ \E r \in Requests : RequestStep(r)
  \/ \E a \in Reloaders : CallReload(a) \/ LockReload(a) \/ ReloadWork(a)
  \/ Start \/ Trigger \/ PollerStep
  \/ \E c \in Closers : CloseStep(c)

Spec == Init /\ [][Next]_vars

(***************************************************************************)
(* Fairness.  Started work goes on: a store read ends after its attempts   *)
(* (ObjectStore), file operations and archive closes finish and handlers   *)
(* return.  Go's mutexes do not starve a waiter and its select picks       *)
(* uniformly among the ready cases, hence strong fairness for taking       *)
(* reloadMu and for the stop and trigger cases.  Nobody has to call        *)
(* Reload, Acquire, Start or Close, and a tick may never come.             *)
(***************************************************************************)
Fairness ==
  /\ \A r \in Requests : WF_vars(Unref(r)) /\ WF_vars(RequestCloses(r))
  /\ \A a \in Reloaders : WF_vars(ReloadWork(a)) /\ SF_vars(LockReload(a))
  /\ WF_vars(Trigger)
  /\ SF_vars(PollerTriggered) /\ SF_vars(PollerStops)
  /\ \A c \in Closers : /\ WF_vars(CloseStop(c)) /\ WF_vars(Join(c))
                        /\ SF_vars(Retire(c)) /\ WF_vars(CloseLast(c))

FairSpec == Spec /\ Fairness
----------------------------------------------------------------------------
(* Properties.                                                             *)

(* A request that acquired a release can read its archive until it gives   *)
(* the release back, whatever reloads and Close do meanwhile (holder.go,   *)
(* Holder: "requests that already hold the old release finish on it").     *)
LeasedStaysOpen ==
  \A r \in Requests : lease[r] # NoSlot => lease[r] \in open

(* The release new requests get is open, not retired, and passed manifest, *)
(* archive and style checks: a broken release never becomes active         *)
(* (holder.go, validate and "A failed load keeps the old release").        *)
ActiveIsServable ==
  cur # NoSlot =>
    /\ cur \in open /\ ~retired[cur]
    /\ key[cur] \in Keys \ (Bad \cup Rejected)

(* The goroutines that decided to close an archive after unlocking mu each *)
(* close another one, still open, that no request can use: an archive is   *)
(* closed at most once and never under a reader (unref, reload, Close).    *)
ClosedOnceUnused ==
  \A t \in Threads : doomed[t] # NoSlot =>
    /\ doomed[t] \in open /\ doomed[t] # cur
    /\ \A r \in Requests : lease[r] # doomed[t]
    /\ \A u \in Threads \ {t} : doomed[u] # doomed[t]

(* Every open archive still has somebody who will close it: it is active,  *)
(* leased, being loaded, or about to be closed (no leaked file handle on   *)
(* any error path, nor when a reload meets Close).                         *)
NoArchiveLeaks ==
  \A s \in open :
    \/ s = cur
    \/ \E r \in Requests : lease[r] = s
    \/ \E a \in Reloaders : next[a] = s
    \/ \E t \in Threads : doomed[t] = s

(* Readiness without an error means there is a release to serve: Status    *)
(* never shows a successful last check and nothing loaded while the        *)
(* holder is open (holder.go, Status and LastError).                       *)
StatusIsHonest ==
  check = "ok" /\ ~closed => cur # NoSlot

(* Once a release is loaded, new requests always get one until Close: no   *)
(* step of a failing or concurrent reload unloads it (README: "No request  *)
(* fails during a switch").                                                *)
NeverUnloaded ==
  [][cur # NoSlot /\ ~closed => cur' # NoSlot]_vars

(* Somebody between setting h.closed and retiring the active slot.         *)
Closing == \E c \in Closers : pc[c] \in {"stop", "join", "retire"}

(* The holder implements the lease contract: an archive is closed only     *)
(* while it is neither active nor leased, and nothing becomes active after *)
(* Close retired the last release.                                         *)
Lease == INSTANCE ReleaseLease
           WITH active <- cur, shut <- closed /\ ~Closing
ImplementsLease == Lease!LeaseSpec

Serves(k) == cur # NoSlot /\ key[cur] = k
Loadable  == Keys \ (Bad \cup Rejected)

(* One check is enough: once the pointer has settled on a good release and *)
(* the store answers, a single tick or a single SIGHUP leads to its being  *)
(* served for good; also a SIGHUP that arrives during a reload that read   *)
(* the old pointer, or that is merged with earlier ones (README: the   *)
(* pointer is checked every interval and on SIGHUP; Trigger, "asks the     *)
(* poller to reload now"; capacity-1 channels).                            *)
Asked == hup \/ pc[Poller] = "lock"
Settled(k) == pointer = k /\ reliable /\ ~closed
Converges ==
  \A k \in Loadable : [](Asked /\ []Settled(k) => <>[]Serves(k))

(* Close does not hang, whatever the poller and other reloads are doing,   *)
(* and in the end every archive is closed, those that requests still held  *)
(* and those of a reload in flight included (holder.go, Close waits for    *)
(* done and reloadMu; unref closes what Close had to leave open).          *)
CloseReleasesAll ==
  \A c \in Closers : (pc[c] # "idle") ~> (pc[c] = "returned" /\ open = {})
=============================================================================
