------------------------------ MODULE DistRoute ------------------------------
(***************************************************************************)
(* The route through the workers (ds4_distributed.c): which chains of      *)
(* registered workers carry a token from the layer after the coordinator's *)
(* own to the last one, and the chain the depth-first search picks.        *)
(***************************************************************************)
EXTENDS Naturals, Sequences, FiniteSets

CONSTANTS
  Workers,      \* the workers that may register
  Span,         \* what a worker announces in its HELLO
  LocalEnd,     \* the coordinator's layers are 0..LocalEnd
  LastLayer,    \* the model's last layer
  LocalHead     \* the coordinator has the output head loaded

(* A HELLO the coordinator accepts: the layers exist, and the output head  *)
(* goes with the last one.                                                 *)
Acceptable(h) == /\ h.first <= h.last /\ h.last <= LastLayer
                 /\ h.output => h.last = LastLayer

Hellos == {h \in [first : 0..LastLayer, last : 0..LastLayer,
                  output : BOOLEAN, hidden : BOOLEAN] : Acceptable(h)}

ASSUME LayersAreNat == LocalEnd \in Nat /\ LastLayer \in Nat /\ LocalEnd < LastLayer
ASSUME SpansAreAccepted == Span \in [Workers -> Hellos]
ASSUME HeadIsKnown == LocalHead \in BOOLEAN

(* Whether a worker may carry a route at all: one that does not end it     *)
(* with logits has to hand hidden states on, and a last one without an     *)
(* output head needs the coordinator's.                                    *)
CandidateOk(w) ==
  /\ (Span[w].last < LastLayer \/ ~Span[w].output) => Span[w].hidden
  /\ (Span[w].last >= LastLayer /\ ~Span[w].output) => LocalHead

(* The order candidates for one layer are tried in: with the output head   *)
(* first, then the one that reaches farthest.                              *)
Before(v, w) == \/ Span[v].output /\ ~Span[w].output
                \/ /\ Span[v].output = Span[w].output
                   /\ Span[v].last > Span[w].last

(* Chains of registered workers from layer n to the last.                 *)
Paths(R) == UNION {[1..k -> R] : k \in 1..Cardinality(R)}

Chains(R, n) ==
  {p \in Paths(R) :
     /\ Span[p[1]].first = n /\ Span[p[Len(p)]].last = LastLayer
     /\ \A i \in DOMAIN p : CandidateOk(p[i])
     /\ \A i \in 1..(Len(p) - 1) : Span[p[i + 1]].first = Span[p[i]].last + 1}

(* The routes: at each worker no better one leads on to the last layer.    *)
(* More than one only where the order leaves a tie.                        *)
Routes(R) ==
  {p \in Chains(R, LocalEnd + 1) :
     \A i \in DOMAIN p : \A q \in Chains(R, Span[p[i]].first) : ~Before(q[1], p[i])}

(* What the depth-first search returns, starting at a layer: the first     *)
(* candidate in the order from which it gets to the end.                   *)
First(C) == {w \in C : \A v \in C : ~Before(v, w)}

Search(R) ==
  LET routes[n \in 0..LastLayer] ==
        LET starts == {w \in R : Span[w].first = n /\ CandidateOk(w)}
            Rest(w) == IF Span[w].last = LastLayer THEN {<<>>} ELSE routes[Span[w].last + 1]
            arrive == {w \in starts : Rest(w) # {}}
        IN UNION {{<<w>> \o r : r \in Rest(w)} : w \in First(arrive)}
  IN routes[LocalEnd + 1]

(* The search finds the route wherever there is one. *)
ASSUME SearchFindsTheRoute == \A R \in SUBSET Workers : Search(R) = Routes(R)

(* A route a worker accepts (dist_route_validate_blob): one layer after    *)
(* the other, up to the last.                                              *)
Covers(p) ==
  /\ p # <<>>
  /\ Span[p[1]].first = LocalEnd + 1
  /\ \A i \in 1..(Len(p) - 1) : Span[p[i + 1]].first = Span[p[i]].last + 1
  /\ Span[p[Len(p)]].last = LastLayer
==============================================================================
