-------------------------- MODULE RequestOutcomes --------------------------
(***************************************************************************)
(* What the server promises about accepted requests, without threads,      *)
(* queues or condition variables: requests are served one at a time in     *)
(* the order they were accepted, each gets exactly one outcome, its client *)
(* is released only after that, and the server closes only when no         *)
(* accepted request is still owed an outcome.                              *)
(***************************************************************************)
EXTENDS Naturals, Sequences

CONSTANTS Clients, Outcomes

VARIABLES
  order,      \* the accepted requests, oldest first
  outcomes,   \* the outcomes published so far, in the same order
  released,   \* how many of those clients have been released
  closed      \* the server has begun to free its resources

vars == <<order, outcomes, released, closed>>

Init ==
  /\ order = <<>>
  /\ outcomes = <<>>
  /\ released = 0
  /\ closed = FALSE

Accept(c) ==
  /\ ~closed
  /\ \A i \in DOMAIN order : order[i] # c
  /\ order' = Append(order, c)
  /\ UNCHANGED <<outcomes, released, closed>>

(* One request at a time: the previous client has been released. *)
Publish(o) ==
  /\ Len(outcomes) < Len(order)
  /\ released = Len(outcomes)
  /\ outcomes' = Append(outcomes, o)
  /\ UNCHANGED <<order, released, closed>>

Release ==
  /\ released < Len(outcomes)
  /\ released' = released + 1
  /\ UNCHANGED <<order, outcomes, closed>>

Close ==
  /\ ~closed
  /\ released = Len(order)
  /\ closed' = TRUE
  /\ UNCHANGED <<order, outcomes, released>>

Next ==
  \/ \E c \in Clients : Accept(c)
  \/ \E o \in Outcomes : Publish(o)
  \/ Release
  \/ Close

Spec == Init /\ [][Next]_vars
=============================================================================
