---------------------------- MODULE SnapshotStore ----------------------------
(***************************************************************************)
(* What a directory of session snapshots promises, whatever stops the      *)
(* process: a snapshot is restored to the very state it was taken of, one  *)
(* the store acknowledged is there until the store itself removes it, and  *)
(* nothing appears that was never put there.  KvStore implements it.       *)
(***************************************************************************)
CONSTANTS Texts, NoText

VARIABLES
  session,  \* the text the live session stands at, or NoText
  present,  \* snapshots a restore would find
  kept,     \* those acknowledged as stored
  dropped   \* removed, and still able to come back after a loss of power

vars == <<session, present, kept, dropped>>

Init == session = NoText /\ present = {} /\ kept = {} /\ dropped = {}

(* The session is evaluated to another text, or lost. *)
Evaluate ==
  session' \in Texts \cup {NoText} /\ UNCHANGED <<present, kept, dropped>>

(* The state put under a text is the state at that text. *)
Put ==
  /\ \E t \in Texts : session = t /\ present' = present \cup {t}
  /\ dropped' \in SUBSET dropped /\ UNCHANGED <<session, kept>>

Keep ==
  /\ \E t \in present : kept' = kept \cup {t}
  /\ dropped' = {} /\ UNCHANGED <<session, present>>

Drop ==
  /\ \E t \in present : /\ present' = present \ {t} /\ kept' = kept \ {t}
                        /\ dropped' \in SUBSET (dropped \cup {t})
  /\ session' \in {session, NoText}

(* A restored snapshot may be removed by the same step. *)
Restore ==
  \E t \in present :
    /\ session' = t
    /\ \/ UNCHANGED <<present, kept, dropped>>
       \/ /\ present' = present \ {t} /\ kept' = kept \ {t}
          /\ dropped' \in SUBSET (dropped \cup {t})

(* The process stops, with the machine or without it. *)
Stop ==
  /\ session' = NoText
  /\ kept \subseteq present' /\ present' \subseteq present \cup dropped
  /\ kept' = kept /\ dropped' \in SUBSET dropped

Next == Evaluate \/ Put \/ Keep \/ Drop \/ Restore \/ Stop

Spec == Init /\ [][Next]_vars
=============================================================================
