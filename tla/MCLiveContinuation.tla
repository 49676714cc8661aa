------------------------- MODULE MCLiveContinuation -------------------------
(* A conversation of the Anthropic API with an edit of it, and one of the  *)
(* Responses API; the first two may be exchanged.                          *)
EXTENDS LiveContinuation, TLC

CONSTANTS x, y, z

MCConvs == {x, y, z}
MCApis == (x :> "responses") @@ (y :> "anthropic") @@ (z :> "anthropic")
Swapped == Permutations({y, z})

(* Bound: once a binding was aliased, which the first property exempts,    *)
(* one request waits at a time.                                            *)
OneWaitsOnceAliased == aliased => Len(parsed) < MaxQueue
=============================================================================
