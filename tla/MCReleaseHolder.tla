-------------------------- MODULE MCReleaseHolder --------------------------
(***************************************************************************)
(* TLC instances of ReleaseHolder.  With two requests, four slots are      *)
(* enough that a load never has to wait for an identity: the active slot,  *)
(* the one being loaded or closed by the reload that holds reloadMu, and   *)
(* one per request.                                                        *)
(***************************************************************************)
EXTENDS ReleaseHolder, TLC

CONSTANTS r1, r2, s1, s2, s3, s4, k1, k2, kBad, kRejected, main, c1, c2

\* Identities that may be exchanged (safety runs only).
Exchangeable ==
  Permutations(Slots) \cup Permutations(Requests) \cup Permutations(Closers)
=============================================================================
