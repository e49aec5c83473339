------------------------------ MODULE MCStyles ------------------------------
(***************************************************************************)
(* TLC instance of Styles: two requests, two names that can be files, and  *)
(* two releases, one of which has a style called like an alias.            *)
(***************************************************************************)
EXTENDS Styles, TLC

CONSTANTS r1, r2

Style(id, version, marked, variants) ==
  [id |-> id, version |-> version, marked |-> marked, variants |-> variants]

MCManifests ==
  { <<Style("s", "10", FALSE, {"light", "dark"}), Style("s", "9", TRUE, {"light"}), Style("t", "1a", FALSE, {"dark"})>>,
    <<Style("light", "9", FALSE, {"dark"}), Style("s", "09", FALSE, {"light", "dark"})>> }

\* As strings: "09" < "10" < "1a" < "9" < "b".
MCNumber == "09" :> 9 @@ "10" :> 10 @@ "1a" :> -1 @@ "9" :> 9 @@ "b" :> -1
MCText   == "09" :> 1 @@ "10" :> 2 @@ "1a" :> 3 @@ "9" :> 4 @@ "b" :> 5

RequestSymmetry == Permutations(Requests)

\* Up to two styles, and one style in up to four versions.
AllStyles == [id : {"s", "t"}, version : Versions, marked : BOOLEAN, variants : (SUBSET Variants) \ {{}}]
Pairs     == {m \in UNION {[1..n -> AllStyles] : n \in 0..2} : Validate(m)}
Histories == {[i \in DOMAIN h |-> Style("s", h[i], FALSE, {"light"})] :
                h \in {v \in UNION {[1..n -> Versions] : n \in 3..4} : IsInjective(v)}}
MCDrafts  == Pairs \cup Histories
=============================================================================
