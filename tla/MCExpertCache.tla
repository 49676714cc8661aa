---------------------------- MODULE MCExpertCache ----------------------------
(***************************************************************************)
(* Two layers of three experts; a token selects two, and the budget is     *)
(* three: a layer's selection fits beside one expert of another, so loads  *)
(* find the entry they want, a spare one, or only ones in flight.          *)
(***************************************************************************)
EXTENDS ExpertCache, TLC

CONSTANTS e1, e2, e3, e4, e5, e6

First == {e1, e2, e3}
Second == {e4, e5, e6}
ExpertsDef == First \cup Second
LayerOfDef == [x \in ExpertsDef |-> IF x \in First THEN 1 ELSE 2]
AloneDef == {4, 5}
PicksDef == (SUBSET First \cup SUBSET Second) \ {{}}

(* The experts of a layer are alike. *)
Alike == Permutations(First) \cup Permutations(Second)
=============================================================================
