--------------------------- MODULE MCDistSession ---------------------------
(***************************************************************************)
(* A session over two chained workers, one of which runs the last layer,   *)
(* and a third that can take the place of both.                            *)
(***************************************************************************)
EXTENDS DistSession

CONSTANTS wa, wb, wc

SpanDef == [w \in Workers |->
  IF w = wa THEN [first |-> 1, last |-> 1, output |-> FALSE, hidden |-> TRUE]
  ELSE IF w = wb THEN [first |-> 2, last |-> 2, output |-> TRUE, hidden |-> FALSE]
  ELSE [first |-> 1, last |-> 2, output |-> FALSE, hidden |-> TRUE]]

TranscriptsDef == {<<>>, <<1>>, <<2>>, <<2, 1>>}
PromptsDef == {<<1>>, <<2, 1>>}
KeptDef == {<<2>>}
=============================================================================
