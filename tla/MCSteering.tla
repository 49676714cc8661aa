----------------------------- MODULE MCSteering -----------------------------
(* Three profiles, one with a long name; three slots; scales 0, 1 and 2. *)
EXTENDS Steering

MCScales == 0 .. 2
=============================================================================
