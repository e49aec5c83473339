----------------------------- MODULE ObjectStore -----------------------------
(***************************************************************************)
(* internal/objstore/objstore.go: HEAD and ranged GET against a store that *)
(* fails, refuses, ignores Range, cuts its answers, and whose objects are  *)
(* replaced and removed between two requests.                              *)
(*                                                                         *)
(* What an object holds is a version; Length gives its size.  A caller has *)
(* at most one call: a HEAD or a GET with its attempts.  Signing, escaping *)
(* and the wording of errors are left out.                                 *)
(***************************************************************************)
EXTENDS Integers

CONSTANTS
  Callers,   \* goroutines using the client
  Objects,   \* keys in the bucket
  Versions,  \* what an object can hold
  Length,    \* the size of each version
  Absent,    \* what is stored under a key without an object
  Retries    \* cfg.Retries: extra attempts

ASSUME StoreAssumption ==
  /\ Retries \in Nat
  /\ Length \in [Versions -> Nat] /\ Absent \notin Versions

VARIABLES
  stored,    \* the version under each key, or Absent
  ranged,    \* whether the store honours Range
  expired,   \* callers whose context is done
  call,      \* the request each caller makes
  reply      \* what its last call returned

storeVars == <<stored, ranged, expired, call, reply>>
worldVars == <<stored, ranged, expired>>

NoReply         == [status |-> "none"]
Sized(n)        == [status |-> "size", n |-> n]
Data(v, off, n) == [status |-> "data", version |-> v, off |-> off, n |-> n]
Missing         == [status |-> "missing"]   \* wraps ErrNotFound
Error           == [status |-> "error"]

NoCall(o) == [step |-> "none", method |-> "HEAD", object |-> o,
              off |-> 0, end |-> 0, size |-> 0, attempt |-> 0]

Returned(c, status) == call[c].step = "none" /\ reply[c].status = status
Broken(c) == call[c].step = "none" /\ reply[c].status \in {"missing", "error"}

Begin(c, request) ==
  /\ call' = [call EXCEPT ![c] = request]
  /\ reply' = [reply EXCEPT ![c] = NoReply]
  /\ UNCHANGED worldVars

\* The reply has been used.
Consume(c) ==
  /\ reply' = [reply EXCEPT ![c] = NoReply]
  /\ UNCHANGED <<stored, ranged, expired, call>>

\* The call returns; its fields no longer matter.
End(c, r) ==
  /\ call' = [call EXCEPT ![c] = NoCall(call[c].object)]
  /\ reply' = [reply EXCEPT ![c] = r]
  /\ UNCHANGED worldVars

\* Client.Open
OpenObject(c, o) == Begin(c, [NoCall(o) EXCEPT !.step = "send"])

LastByte(size, off, n) == IF off + n > size THEN size - 1 ELSE off + n - 1

\* Object.ReadAt of n > 0 bytes below the end; size is what Open was told.
ReadAt(c, o, size, off, n) ==
  /\ off < size
  /\ Begin(c, [step |-> "send", method |-> "GET", object |-> o, off |-> off,
               end |-> LastByte(size, off, n), size |-> size, attempt |-> 0])

----------------------------------------------------------------------------
(* do: the attempts.                                                       *)

Sent(c, method) == call[c].step = "send" /\ call[c].method = method

\* Mutant: the last attempt is not made.
OneFewer(c) == call[c].attempt + 1 < Retries
MayRetry(c) == call[c].attempt < Retries

\* A network error, a timeout of the attempt or a 5xx answer.
Refuse(c) ==
  /\ call[c].step = "send"
  /\ IF MayRetry(c)
     THEN /\ call' = [call EXCEPT ![c].step = "wait"]
          /\ UNCHANGED <<worldVars, reply>>
     ELSE End(c, Error)

\* The pause before the next attempt is over.
Resume(c) ==
  /\ call[c].step = "wait"
  /\ call' = [call EXCEPT ![c].step = "send", ![c].attempt = @ + 1]
  /\ UNCHANGED <<worldVars, reply>>

\* Only a HEAD is bound to the caller's context; ReadAt uses context.Background.
Cancel(c) ==
  /\ c \in expired /\ call[c].step # "none" /\ call[c].method = "HEAD"
  /\ End(c, Error)

----------------------------------------------------------------------------
(* The answers of the store, and what Open and ReadAt make of them.        *)

AnswerHead(c) ==
  /\ Sent(c, "HEAD")
  /\ End(c, LET v == stored[call[c].object]
            IN IF v = Absent THEN Missing ELSE Sized(Length[v]))

\* 401, 403 and other answers Open and ReadAt have no use for.
Deny(c) ==
  /\ call[c].step = "send"
  /\ End(c, Error)

Asked(c) == call[c].end - call[c].off + 1

WantsWhole(c) == call[c].off = 0 /\ call[c].end = call[c].size - 1

\* 200: the store ignored Range and sends all of v.
WholeReply(c, v) ==
  CASE ~WantsWhole(c)                        -> Error
    [] WantsWhole(c) /\ Length[v] < Asked(c) -> Error
    [] OTHER                                 -> Data(v, 0, Asked(c))

\* 206; beyond the end it is 416, or the Content-Range is not the one asked for.
RangeReply(c, v) ==
  IF call[c].end < Length[v] THEN Data(v, call[c].off, Asked(c)) ELSE Error

AnswerGet(c) ==
  /\ Sent(c, "GET")
  /\ LET v == stored[call[c].object] IN
     End(c, CASE v = Absent -> Error
              [] v # Absent /\ ranged -> RangeReply(c, v)
              [] v # Absent /\ ~ranged -> WholeReply(c, v))

\* The connection breaks while the body is read: there is no other attempt.
Cut(c) ==
  /\ Sent(c, "GET") /\ stored[call[c].object] # Absent
  /\ End(c, Error)

----------------------------------------------------------------------------
(* The environment.                                                        *)

\* Objects are replaced, uploaded or removed.
Put(objects) ==
  /\ stored' = objects
  /\ UNCHANGED <<ranged, expired, call, reply>>

\* The deadline of a caller's context passes.
Expire(c) ==
  /\ expired' = expired \cup {c}
  /\ UNCHANGED <<stored, ranged, call, reply>>

=============================================================================
