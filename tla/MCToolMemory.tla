--------------------------- MODULE MCToolMemory ---------------------------
(* Two texts, one of them larger; two snapshots, of which the longer one   *)
(* holds both; a history of two messages, and one of a message with an id  *)
(* the server never drew and of a message with calls of one turn or of two.*)
EXTENDS ToolMemory

CONSTANTS d1, d2, k1, k2

TextsDef == {d1, d2}
KeysDef == {k1, k2}
SizeDef == [d \in TextsDef |-> IF d = d1 THEN 2 ELSE 4]
BlocksDef == [k \in KeysDef |-> IF k = k1 THEN {d1} ELSE {d1, d2}]
RequestsDef == {<<<<1>>, <<2>>>>, <<<<0, 1>>, <<2, 3>>>>}
=============================================================================
