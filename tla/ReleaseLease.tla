---------------------------- MODULE ReleaseLease ----------------------------
(***************************************************************************)
(* What internal/release promises to its callers, without saying how: an   *)
(* archive is opened, may become the active one, is leased to requests,    *)
(* and is closed only when it is not active and no request holds it.       *)
(* ReleaseHolder implements this with reference counts and two mutexes.    *)
(***************************************************************************)

CONSTANTS
  Requests,   \* the requests that lease an archive
  Slots,      \* identities of loaded releases, one per opened archive
  NoSlot      \* "no release"

VARIABLES
  open,     \* the archives that are open
  active,   \* the release new requests get
  lease,    \* the release each request holds
  shut      \* the holder is closed for good

leaseVars == <<open, active, lease, shut>>

LeaseInit ==
  /\ open = {}
  /\ active = NoSlot
  /\ lease = [r \in Requests |-> NoSlot]
  /\ shut = FALSE

Unused(s) == s # active /\ \A r \in Requests : lease[r] # s

\* An archive is opened under an identity nobody uses.
OpenOne(s) ==
  /\ s \notin open /\ Unused(s)
  /\ open' = open \cup {s}
  /\ UNCHANGED <<active, lease, shut>>

\* An open archive nobody uses yet becomes the active one, in one step.
Publish(s) ==
  /\ s \in open /\ Unused(s) /\ ~shut
  /\ active' = s
  /\ UNCHANGED <<open, lease, shut>>

\* An idle request takes the active release.
Take(r) ==
  /\ lease[r] = NoSlot /\ active # NoSlot
  /\ lease' = [lease EXCEPT ![r] = active]
  /\ UNCHANGED <<open, active, shut>>

\* A request gives its release back.
GiveBack(r) ==
  /\ lease[r] # NoSlot
  /\ lease' = [lease EXCEPT ![r] = NoSlot]
  /\ UNCHANGED <<open, active, shut>>

\* An archive is closed only when it is neither active nor leased.
CloseOne(s) ==
  /\ s \in open /\ Unused(s)
  /\ open' = open \ {s}
  /\ UNCHANGED <<active, lease, shut>>

\* The holder shuts down: nothing is active any more, and never again.
Shut ==
  /\ ~shut
  /\ shut' = TRUE
  /\ active' = NoSlot
  /\ UNCHANGED <<open, lease>>

LeaseNext ==
  \/ \E s \in Slots : OpenOne(s) \/ Publish(s) \/ CloseOne(s)
  \/ \E r \in Requests : Take(r) \/ GiveBack(r)
  \/ Shut

LeaseSpec == LeaseInit /\ [][LeaseNext]_leaseVars
=============================================================================
