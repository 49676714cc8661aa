------------------------- MODULE MCServerLifecycle -------------------------
(* Two connections.  They are not declared symmetric: the run checks       *)
(* liveness.                                                               *)
EXTENDS ServerLifecycle
=============================================================================
