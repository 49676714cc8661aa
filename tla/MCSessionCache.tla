--------------------------- MODULE MCSessionCache ---------------------------
(***************************************************************************)
(* Two histories that part after three tokens, in sessions of ten and of   *)
(* eight positions: chunks of three and of four in rings of six and of     *)
(* eight rows, so that the ring wraps, a compressed row closes inside, at  *)
(* and after a chunk, and payloads move between rings of different sizes.  *)
(* A third session's chunk is longer than the largest ring, as --prefill-  *)
(* chunk allows; a prompt that it resumes may still fit.                   *)
(***************************************************************************)
EXTENDS SessionCache

CONSTANTS ta, tb

Begins(h) == {SubSeq(h, 1, n) : n \in 0..Len(h)}
As(n) == [i \in 1..n |-> ta]
HistoriesDef == Begins(As(9)) \cup Begins(As(3) \o <<tb, ta>>)

Session(ctx, chunk, streams) == [ctx |-> ctx, chunk |-> chunk, streams |-> streams]
ConfigsDef == {Session(10, 3, TRUE), Session(8, 4, FALSE),
               Session(10, 9, FALSE)}
=============================================================================
