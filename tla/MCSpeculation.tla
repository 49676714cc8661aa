--------------------------- MODULE MCSpeculation ---------------------------
(***************************************************************************)
(* Two drafts and three over a compressed row of four positions, on a      *)
(* device that copies at any time and on one that does not.                *)
(***************************************************************************)
EXTENDS Speculation

CONSTANTS ta, tb

TopDef(h) == IF h = <<>> \/ Len(h) = 6 THEN Eos
             ELSE IF h[Len(h)] = ta THEN tb ELSE ta

Mtp(depth, strict, copies) ==
  [kind |-> "mtp", depth |-> depth, strict |-> strict, copies |-> copies]
ConfigsDef ==
  {Mtp(2, strict, copies) : strict, copies \in BOOLEAN} \cup {Mtp(3, FALSE, TRUE)}
  \cup {[kind |-> "dspark", depth |-> 3, strict |-> FALSE, copies |-> TRUE]}
PromptsDef == {<<ta>>, <<tb, ta, ta>>}
=============================================================================
