-------------------------- MODULE MCReleaseCaches --------------------------
(* Two releases with the same style and fonts; only the second release has *)
(* the range of font A, font C is nowhere. Font files grow between the     *)
(* releases, and the limit holds two of the three.                         *)
EXTENDS ReleaseCaches, TLC

CONSTANTS q1, q2, q3, k1, k2, light, fontA, fontB, fontC, sprite

MCPaths  == {light, fontA, fontB, fontC, sprite}
MCStyles == {light}
MCStacks == {<<fontA, fontB>>, <<fontC, fontA>>, <<sprite>>}
MCHas    == (k1 :> {light, fontB, sprite}) @@ (k2 :> {light, fontA, fontB, sprite})
MCSize   == [k \in {k1, k2} |-> [p \in MCPaths |-> IF p = sprite THEN 1 ELSE IF k = k1 THEN 1 ELSE 2]]

Exchangeable == Permutations(Requests)
=============================================================================
