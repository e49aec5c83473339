-------------------------- MODULE MCTwoTierCache --------------------------
(***************************************************************************)
(* TLC instance of TwoTierCache: more tiles than the memory holds and a    *)
(* short write queue, so that refusals, overwrites and promotions happen.  *)
(***************************************************************************)
EXTENDS TwoTierCache, TLC

CONSTANTS t1, t2, t3, q1, q2, q3

Exchangeable == Permutations(Tiles) \cup Permutations(Requests)
=============================================================================
