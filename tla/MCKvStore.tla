------------------------------ MODULE MCKvStore ------------------------------
EXTENDS KvStore

(* One conversation at two lengths, and another; the longer snapshot fits  *)
(* the budget alone, and only without a trailer.                           *)
MCTexts == {<<1>>, <<1, 2>>, <<3>>}
MCBytes == [t \in MCTexts |-> IF Len(t) = 1 THEN 3 ELSE 7]
=============================================================================
