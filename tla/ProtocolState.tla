--------------------------- MODULE ProtocolState ---------------------------
(***************************************************************************)
(* The provider-independent lifecycle of one inference request,            *)
(* ds4_protocol_state.c.  The record keeps the fields that decide a        *)
(* transition; token counts and timestamps are reporting only.  Every      *)
(* function of the C file returns whether it applied: the operators below  *)
(* return the state it leaves behind, and the Can* operators its verdict.  *)
(***************************************************************************)
EXTENDS Naturals

Terminals == {"COMPLETE", "ERROR", "CANCELLED"}

Phases == {"QUEUED", "PREFILL", "DECODE", "RECOVERY", "SERIALIZE"} \cup Terminals

ProtocolStates == [request_id : Nat, phase : Phases,
                   recovery_attempted : BOOLEAN, terminal : BOOLEAN]

IsTerminal(phase) == phase \in Terminals

(* The forward edges between phases that are not terminal. *)
ForwardEdges == {<<"QUEUED", "PREFILL">>,   <<"QUEUED", "SERIALIZE">>,
                 <<"PREFILL", "DECODE">>,   <<"PREFILL", "SERIALIZE">>,
                 <<"DECODE", "RECOVERY">>,  <<"DECODE", "SERIALIZE">>,
                 <<"RECOVERY", "DECODE">>,  <<"RECOVERY", "SERIALIZE">>}

TransitionAllowed(from, to) ==
  /\ ~IsTerminal(from)
  /\ IsTerminal(to) \/ <<from, to>> \in ForwardEdges

StateInit(id) == [request_id |-> id, phase |-> "QUEUED",
                  recovery_attempted |-> FALSE, terminal |-> FALSE]

Transition(state, next) ==
  IF TransitionAllowed(state.phase, next)
  THEN [state EXCEPT !.phase = next]
  ELSE state

CanBeginRecovery(state) ==
  ~state.recovery_attempted /\ state.phase = "DECODE"

(* The flag is set before the transition is attempted. *)
BeginRecovery(state) ==
  IF CanBeginRecovery(state)
  THEN Transition([state EXCEPT !.recovery_attempted = TRUE], "RECOVERY")
  ELSE state

CanFinish(state, outcome) ==
  /\ IsTerminal(outcome)
  /\ ~state.terminal
  /\ TransitionAllowed(state.phase, outcome)

Finish(state, outcome) ==
  IF CanFinish(state, outcome)
  THEN [state EXCEPT !.phase = outcome, !.terminal = TRUE]
  ELSE state
=============================================================================
