---------------------------- MODULE Server_proof ----------------------------
(***************************************************************************)
(* Theorems about the server: the safety of its threads, for any finite    *)
(* set of connections (ServerLifecycle), and of what a request is taken to *)
(* continue, for any conversations, positions, queue and disk              *)
(* (LiveContinuation).                                                     *)
(***************************************************************************)
EXTENDS ServerLifecycle, LiveContinuation, FiniteSetTheorems, TLAPS

-----------------------------------------------------------------------------
(* The inductive invariant.                                                *)

(* The worker has a job from dequeue until it has signalled it. *)
WorkerHoldsJob ==
  workerJob \in Clients <=> workerPc \notin {"check", "asleep", "exited"}

(* Main owns the connection it is about to start a thread for. *)
MainHoldsClient ==
  mainPc \in {"accepted", "spawn"} =>
    accepted \in Clients /\ clientPc[accepted] = "accepted"

(* Before its enqueue a client has no request and nothing is done. *)
FreshUntilEnqueued ==
  \A c \in Clients : clientPc[c] \in {"unborn", "accepted", "parsing"} =>
    ~done[c] /\ protocol[c] = NoRequest

(* The flag and the phase of a protocol state agree. *)
FlagMatchesPhase ==
  \A c \in Clients : protocol[c].terminal <=> IsTerminal(protocol[c].phase)

(* After the epilogue the job has its outcome. *)
EpilogueFinishes == workerPc \in {"idle", "signal"} => Current.terminal

(* A request without an outcome is queued or being run. *)
OwedAreHeld ==
  \A c \in Clients :
    protocol[c].request_id > 0 /\ ~protocol[c].terminal => c \in Held

(* The order in which main shuts the server down. *)
ShutdownOrder ==
  /\ mainPc \in {"join", "countClients", "asleep", "closing", "exited"} => stopping
  /\ mainPc \in {"countClients", "asleep", "closing", "exited"} => workerPc = "exited"
  /\ mainPc \in {"closing", "exited"} => clients = 0
  /\ workerPc = "exited" => stopping /\ queue = <<>>

IInv ==
  /\ TypeOK
  /\ WorkerHoldsJob
  /\ MainHoldsClient
  /\ FreshUntilEnqueued
  /\ JobsOutliveTheirUsers
  /\ ClientCountExact
  /\ FlagMatchesPhase
  /\ EpilogueFinishes
  /\ OwedAreHeld
  /\ ReleasedHaveOutcome
  /\ ShutdownOrder

-----------------------------------------------------------------------------
(* The queue as a sequence.                                                *)

(* Appending a new job adds it to the jobs queued and repeats none of      *)
(* them: enqueue links the job after the tail.                             *)
LEMMA AppendedJob ==
  ASSUME NEW c \in Clients, queue \in Seq(Clients), queue' = Append(queue, c)
  PROVE  /\ queue' \in Seq(Clients)
         /\ Queued' = Queued \cup {c}
         /\ (/\ c \notin Queued
             /\ \A i, j \in DOMAIN queue : queue[i] = queue[j] => i = j)
              => \A i, j \in DOMAIN queue' : queue'[i] = queue'[j] => i = j
<1>1. /\ queue' \in Seq(Clients) /\ DOMAIN queue' = 1 .. Len(queue) + 1
      /\ DOMAIN queue = 1 .. Len(queue) /\ Len(queue) \in Nat
      /\ \A i \in DOMAIN queue : queue'[i] = queue[i]
      /\ queue'[Len(queue) + 1] = c
  OBVIOUS
<1>2. Queued' = Queued \cup {c}
  BY <1>1 DEF Queued
<1>3. ASSUME c \notin Queued, NEW i \in DOMAIN queue', NEW j \in DOMAIN queue',
             \A k, l \in DOMAIN queue : queue[k] = queue[l] => k = l,
             queue'[i] = queue'[j]
      PROVE  i = j
  <2>1. \A k \in DOMAIN queue : queue[k] # c
    BY <1>3 DEF Queued
  <2> QED  BY <1>1, <1>3, <2>1
<1> QED  BY <1>1, <1>2, <1>3

(* Removing the oldest job leaves the others: dequeue advances the head.   *)
LEMMA RemovedJob ==
  ASSUME queue \in Seq(Clients), queue # <<>>, queue' = Tail(queue),
         \A i, j \in DOMAIN queue : queue[i] = queue[j] => i = j
  PROVE  /\ Head(queue) \in Clients
         /\ Head(queue) \in Queued
         /\ queue' \in Seq(Clients)
         /\ Queued' = Queued \ {Head(queue)}
         /\ \A i, j \in DOMAIN queue' : queue'[i] = queue'[j] => i = j
<1>1. /\ queue' \in Seq(Clients) /\ DOMAIN queue' = 1 .. Len(queue) - 1
      /\ DOMAIN queue = 1 .. Len(queue) /\ Len(queue) \in Nat /\ Len(queue) > 0
      /\ \A i \in DOMAIN queue' : queue'[i] = queue[i + 1]
      /\ Head(queue) = queue[1] /\ queue[1] \in Clients
  OBVIOUS
<1>2. \A i, j \in DOMAIN queue' : queue'[i] = queue'[j] => i = j
  <2> SUFFICES ASSUME NEW i \in DOMAIN queue', NEW j \in DOMAIN queue',
                      queue[i + 1] = queue[j + 1]
               PROVE  i = j
    BY <1>1
  <2>1. i + 1 \in DOMAIN queue /\ j + 1 \in DOMAIN queue
    BY <1>1
  <2>2. i + 1 = j + 1
    BY <2>1
  <2> QED  BY <1>1, <2>2
<1>3. Queued' = Queued \ {Head(queue)}
  <2>1. ASSUME NEW c \in Queued' PROVE c \in Queued \ {Head(queue)}
    <3>1. PICK i \in DOMAIN queue' : c = queue'[i]
      BY DEF Queued
    <3>2. c = queue[i + 1] /\ i + 1 \in DOMAIN queue /\ i + 1 # 1 /\ 1 \in DOMAIN queue
      BY <1>1, <3>1
    <3>3. c # queue[1]
      BY <3>2
    <3> QED  BY <1>1, <3>2, <3>3 DEF Queued
  <2>2. ASSUME NEW c \in Queued \ {Head(queue)} PROVE c \in Queued'
    <3>1. PICK i \in DOMAIN queue : c = queue[i] /\ i # 1
      BY <1>1 DEF Queued
    <3>2. i - 1 \in DOMAIN queue' /\ queue'[i - 1] = queue[(i - 1) + 1]
          /\ (i - 1) + 1 = i
      BY <1>1, <3>1
    <3> QED  BY <3>1, <3>2 DEF Queued
  <2> QED  BY <2>1, <2>2
<1>4. Head(queue) \in Queued
  BY <1>1 DEF Queued
<1> QED  BY <1>1, <1>2, <1>3, <1>4

-----------------------------------------------------------------------------
(* The number of clients.                                                  *)

(* A counted set of connections is finite and its size is a number, so     *)
(* s->clients cannot leave the naturals while it is exact.                 *)
LEMMA CountedFinite ==
  /\ IsFiniteSet(Counted) /\ Cardinality(Counted) \in Nat
  /\ IsFiniteSet(Counted') /\ Cardinality(Counted') \in Nat
<1>1. Counted \subseteq Clients /\ Counted' \subseteq Clients
  BY DEF Counted
<1> QED  BY <1>1, ClientsFinite, FS_Subset, FS_CardinalityType

(* clients++ for a connection not counted before, main's increment. *)
LEMMA CountGrows ==
  ASSUME ClientCountExact, NEW c, c \notin Counted,
         Counted' = Counted \cup {c}, clients' = clients + 1
  PROVE  ClientCountExact' /\ clients' \in Nat
BY CountedFinite, FS_AddElement DEF ClientCountExact

(* clients-- for a connection that was counted, client_done's decrement:   *)
(* the count cannot be zero at that point.                                 *)
LEMMA CountShrinks ==
  ASSUME ClientCountExact, NEW c, c \in Counted, Counted' = Counted \ {c}
  PROVE  /\ clients > 0
         /\ clients' = clients - 1 => ClientCountExact' /\ clients' \in Nat
<1>1. Cardinality(Counted') = Cardinality(Counted) - 1
  BY CountedFinite, FS_RemoveElement
<1> QED  BY <1>1, CountedFinite DEF ClientCountExact

(* No client begins or ends: every step that is not one of those above. *)
LEMMA CountStays ==
  ASSUME ClientCountExact, Counted' = Counted, clients' = clients
  PROVE  ClientCountExact' /\ clients' \in Nat
BY CountedFinite DEF ClientCountExact

-----------------------------------------------------------------------------
(* A step of the running job.                                              *)

JobPcs == {"start", "route", "steering", "prefill", "stream", "decode",
           "recover", "serialize", "epilogue", "idle", "signal"}

(* Any step that replaces the protocol state of the worker's job alone by  *)
(* one with the same id, keeps a terminal one as it is, and moves the      *)
(* worker between the states in which it has a job, keeps the invariant:   *)
(* this is all that the request handlers do to the shared state.           *)
LEMMA JobStepKeepsInvariant ==
  ASSUME IInv, JobStep, NEW state \in ProtocolStates,
         workerPc \in JobPcs, workerPc' \in JobPcs,
         failed' \in BOOLEAN, workerBusy' \in BOOLEAN,
         active' \in ProtocolStates, tally' \in [Terminals -> Nat],
         protocol' = [protocol EXCEPT ![workerJob] = state],
         state.request_id = Current.request_id,
         state.terminal <=> IsTerminal(state.phase),
         Current.terminal => state.terminal,
         workerPc' \in {"idle", "signal"} => state.terminal
  PROVE  IInv'
<1> USE DEF IInv
<1>0. workerJob \in Clients /\ workerJob' = workerJob /\ workerPc' # "exited"
      /\ workerPc # "exited"
  BY DEF WorkerHoldsJob, JobPcs, JobStep
<1>1. TypeOK'
  BY <1>0 DEF TypeOK, JobStep, JobPcs, signalVars, mainVars, clientVars
<1>2. WorkerHoldsJob'
  BY <1>0 DEF WorkerHoldsJob, JobPcs
<1>3. MainHoldsClient'
  BY DEF MainHoldsClient, JobStep, mainVars, clientVars
<1>4. Held' = Held /\ Queued' = Queued
  BY DEF Held, Queued, JobStep
<1>5. JobsOutliveTheirUsers'
  BY <1>4 DEF JobsOutliveTheirUsers, Waiting, JobStep, clientVars
<1>6. ClientCountExact'
  BY DEF ClientCountExact, Counted, Threads, JobStep, mainVars, clientVars
<1>7. clientPc[workerJob] \notin {"unborn", "accepted", "parsing"}
  <2>1. workerJob \in Held
    BY <1>0, NoneIsNoClient DEF Held
  <2> QED  BY <2>1 DEF JobsOutliveTheirUsers, Waiting
<1>8. FreshUntilEnqueued'
  BY <1>0, <1>7 DEF FreshUntilEnqueued, TypeOK, JobStep, clientVars
<1>9. /\ protocol'[workerJob] = state
      /\ \A c \in Clients : c # workerJob => protocol'[c] = protocol[c]
  BY <1>0 DEF TypeOK
<1>10. FlagMatchesPhase' /\ EpilogueFinishes'
  BY <1>0, <1>9 DEF FlagMatchesPhase, EpilogueFinishes, Current
<1>11. OwedAreHeld'
  BY <1>0, <1>4, <1>9 DEF OwedAreHeld, Current
<1>12. ReleasedHaveOutcome'
  BY <1>0, <1>9 DEF ReleasedHaveOutcome, Current, JobStep, clientVars
<1>13. ShutdownOrder'
  BY <1>0 DEF ShutdownOrder, JobStep, mainVars, clientVars
<1> QED
  BY <1>1, <1>2, <1>3, <1>5, <1>6, <1>8, <1>10, <1>11, <1>12, <1>13

(* The functions of the protocol state keep its type and its id, and agree *)
(* with its terminal flag; a finish that applies is terminal.              *)
LEMMA ProtocolSteps ==
  ASSUME NEW st \in ProtocolStates, st.terminal <=> IsTerminal(st.phase)
  PROVE  /\ \A phase \in Phases \ Terminals :
              TransitionAllowed(st.phase, phase) =>
                /\ ~st.terminal
                /\ Transition(st, phase) = [st EXCEPT !.phase = phase]
         /\ \A outcome \in Terminals :
              /\ CanFinish(st, outcome) <=> ~st.terminal
              /\ CanFinish(st, outcome) =>
                   Finish(st, outcome)
                     = [st EXCEPT !.phase = outcome, !.terminal = TRUE]
         /\ CanBeginRecovery(st) =>
              /\ ~st.terminal
              /\ BeginRecovery(st)
                   = [st EXCEPT !.phase = "RECOVERY", !.recovery_attempted = TRUE]
BY DEF ProtocolStates, TransitionAllowed, Transition, CanFinish, Finish,
       CanBeginRecovery, BeginRecovery, IsTerminal, Terminals, Phases, ForwardEdges

(* server_protocol_transition to a phase that is not terminal. *)
LEMMA MoveToKeepsInvariant ==
  ASSUME IInv, JobStep, NEW phase \in Phases \ Terminals, MoveTo(phase),
         workerPc \in JobPcs, workerPc' \in JobPcs \ {"idle", "signal"},
         failed' \in BOOLEAN
  PROVE  IInv'
<1> USE DEF IInv
<1>1. workerJob \in Clients /\ Current \in ProtocolStates
      /\ (Current.terminal <=> IsTerminal(Current.phase))
  BY DEF WorkerHoldsJob, JobPcs, TypeOK, Current, FlagMatchesPhase
<1>2. workerBusy' \in BOOLEAN /\ tally' \in [Terminals -> Nat]
  BY DEF MoveTo, TypeOK
<1>3. CASE TransitionAllowed(Current.phase, phase)
  <2> DEFINE state == [Current EXCEPT !.phase = phase]
  <2>1. ~Current.terminal /\ Transition(Current, phase) = state
    BY <1>1, <1>3, ProtocolSteps
  <2>2. state \in ProtocolStates /\ state.request_id = Current.request_id
        /\ ~state.terminal /\ ~IsTerminal(state.phase)
    BY <1>1, <2>1 DEF ProtocolStates, IsTerminal
  <2>3. active' \in ProtocolStates
        /\ protocol' = [protocol EXCEPT ![workerJob] = state]
    BY <1>3, <2>1, <2>2 DEF MoveTo, Publish
  <2> HIDE DEF state
  <2> QED  BY <1>1, <1>2, <2>1, <2>2, <2>3, JobStepKeepsInvariant
<1>4. CASE ~TransitionAllowed(Current.phase, phase)
  <2>1. active' \in ProtocolStates
        /\ protocol' = [protocol EXCEPT ![workerJob] = Current]
    BY <1>1, <1>4 DEF MoveTo, TypeOK, Current
  <2> QED  BY <1>1, <1>2, <2>1, JobStepKeepsInvariant
<1> QED  BY <1>3, <1>4

(* server_protocol_finish: afterwards the job has an outcome. *)
LEMMA FinishJobKeepsInvariant ==
  ASSUME IInv, JobStep, NEW outcome \in Terminals, FinishJob(outcome),
         workerPc \in JobPcs, workerPc' \in JobPcs, failed' \in BOOLEAN
  PROVE  IInv'
<1> USE DEF IInv
<1>1. workerJob \in Clients /\ Current \in ProtocolStates
      /\ (Current.terminal <=> IsTerminal(Current.phase))
  BY DEF WorkerHoldsJob, JobPcs, TypeOK, Current, FlagMatchesPhase
<1>2. workerBusy' \in BOOLEAN
  BY DEF FinishJob, TypeOK
<1>3. CASE CanFinish(Current, outcome)
  <2> DEFINE state == [Current EXCEPT !.phase = outcome, !.terminal = TRUE]
  <2>1. Finish(Current, outcome) = state
    BY <1>1, <1>3, ProtocolSteps
  <2>2. state \in ProtocolStates /\ state.request_id = Current.request_id
        /\ state.terminal /\ IsTerminal(state.phase)
    BY <1>1 DEF ProtocolStates, IsTerminal, Phases
  <2>3. active' \in ProtocolStates /\ tally' \in [Terminals -> Nat]
        /\ protocol' = [protocol EXCEPT ![workerJob] = state]
    BY <1>3, <2>1, <2>2 DEF FinishJob, Publish, TypeOK
  <2> HIDE DEF state
  <2> QED  BY <1>1, <1>2, <2>2, <2>3, JobStepKeepsInvariant
<1>4. CASE ~CanFinish(Current, outcome)
  <2>1. Current.terminal
    BY <1>1, <1>4, ProtocolSteps
  <2>2. active' \in ProtocolStates /\ tally' \in [Terminals -> Nat]
        /\ protocol' = [protocol EXCEPT ![workerJob] = Current]
    BY <1>1, <1>4 DEF FinishJob, TypeOK, Current
  <2> QED  BY <1>1, <1>2, <2>1, <2>2, JobStepKeepsInvariant
<1> QED  BY <1>3, <1>4

(* A handler that returns early, or a step that only moves the worker.     *)
LEMMA PcStepKeepsInvariant ==
  ASSUME IInv, OnlyWorkerMoves, workerPc \in JobPcs,
         workerPc' \in JobPcs \ {"idle", "signal"}
  PROVE  IInv'
<1> USE DEF IInv
<1>1. workerJob \in Clients /\ Current \in ProtocolStates
      /\ (Current.terminal <=> IsTerminal(Current.phase))
  BY DEF WorkerHoldsJob, JobPcs, TypeOK, Current, FlagMatchesPhase
<1>2. JobStep /\ protocol' = [protocol EXCEPT ![workerJob] = Current]
      /\ failed' \in BOOLEAN /\ workerBusy' \in BOOLEAN
      /\ active' \in ProtocolStates /\ tally' \in [Terminals -> Nat]
  BY <1>1 DEF OnlyWorkerMoves, JobStep, TypeOK, Current, healthVars
<1> QED  BY <1>1, <1>2, JobStepKeepsInvariant

-----------------------------------------------------------------------------
(* Every action keeps the invariant.                                       *)

(* generate_job, worker_main's epilogue and its return to idle. *)
LEMMA WorkerJobKeepsInvariant ==
  ASSUME IInv,
         \/ Start \/ BeginSteering \/ FinishSteering \/ Generate
         \/ Epilogue \/ GoIdle
  PROVE  IInv'
<1> USE DEF WorkerGoes, JobPcs
<1>0. failed \in BOOLEAN
  BY DEF IInv, TypeOK
<1>1. CASE Start
  <2>1. workerJob \in Clients /\ Current \in ProtocolStates
        /\ (Current.terminal <=> IsTerminal(Current.phase))
    BY <1>1 DEF Start, IInv, WorkerHoldsJob, TypeOK, Current, FlagMatchesPhase
  <2>2. JobStep /\ protocol' = [protocol EXCEPT ![workerJob] = Current]
        /\ failed' \in BOOLEAN /\ workerBusy' \in BOOLEAN
        /\ active' \in ProtocolStates /\ tally' \in [Terminals -> Nat]
    BY <1>1, <2>1 DEF Start, JobStep, IInv, TypeOK, Current
  <2> QED  BY <1>1, <2>1, <2>2, JobStepKeepsInvariant DEF Start
<1>2. CASE BeginSteering
  BY <1>0, <1>2, MoveToKeepsInvariant DEF BeginSteering, Phases, Terminals
<1>3. CASE FinishSteering
  BY <1>0, <1>3, FinishJobKeepsInvariant DEF FinishSteering, Terminals
<1>4. CASE BeginPrefill
  BY <1>0, <1>4, MoveToKeepsInvariant DEF BeginPrefill, Phases, Terminals
<1>5. CASE PrefillFails
  BY <1>5, PcStepKeepsInvariant DEF PrefillFails
<1>6. CASE PrefillInterrupted
  <2>1. PICK streamFailed \in BOOLEAN :
          FinishJob(IF stopRequested \/ streamFailed THEN "CANCELLED" ELSE "ERROR")
    BY <1>6 DEF PrefillInterrupted
  <2>2. (IF stopRequested \/ streamFailed THEN "CANCELLED" ELSE "ERROR") \in Terminals
    BY DEF Terminals
  <2> QED  BY <1>0, <1>6, <2>1, <2>2, FinishJobKeepsInvariant DEF PrefillInterrupted
<1>7. CASE PrefillDone
  BY <1>0, <1>7, MoveToKeepsInvariant DEF PrefillDone, Phases, Terminals
<1>8. CASE StreamStartFails \/ StreamStarts
  BY <1>8, PcStepKeepsInvariant DEF StreamStartFails, StreamStarts
<1>9. CASE TryRecovery
  <2> DEFINE state == [Current EXCEPT !.phase = "RECOVERY",
                                      !.recovery_attempted = TRUE]
  <2>1. workerJob \in Clients /\ Current \in ProtocolStates
        /\ (Current.terminal <=> IsTerminal(Current.phase))
    BY <1>9 DEF TryRecovery, IInv, WorkerHoldsJob, TypeOK, Current, FlagMatchesPhase
  <2>2. ~Current.terminal /\ BeginRecovery(Current) = state
    BY <1>9, <2>1, ProtocolSteps DEF TryRecovery
  <2>3. state \in ProtocolStates /\ state.request_id = Current.request_id
        /\ ~state.terminal /\ ~IsTerminal(state.phase)
    BY <2>1, <2>2 DEF ProtocolStates, IsTerminal, Phases, Terminals
  <2>4. JobStep /\ protocol' = [protocol EXCEPT ![workerJob] = state]
        /\ failed' \in BOOLEAN /\ workerBusy' \in BOOLEAN
        /\ active' \in ProtocolStates /\ tally' \in [Terminals -> Nat]
        /\ workerPc = "decode" /\ workerPc' = "recover"
    BY <1>9, <2>2, <2>3 DEF TryRecovery, Publish, IInv, TypeOK
  <2> HIDE DEF state
  <2> QED  BY <2>1, <2>2, <2>3, <2>4, JobStepKeepsInvariant
<1>10. CASE RecoveryContinues
  BY <1>0, <1>10, MoveToKeepsInvariant DEF RecoveryContinues, Phases, Terminals
<1>11. CASE RecoveryFails
  BY <1>11, MoveToKeepsInvariant DEF RecoveryFails, Phases, Terminals
<1>12. CASE DecodeEnds
  <2>1. failed' \in BOOLEAN
    BY <1>12 DEF DecodeEnds, IInv, TypeOK
  <2> QED  BY <1>12, <2>1, MoveToKeepsInvariant DEF DecodeEnds, Phases, Terminals
<1>13. CASE FinishResponse
  <2>1. PICK responseOk \in BOOLEAN : FinishJob(FinalOutcome(responseOk))
    BY <1>13 DEF FinishResponse
  <2>2. FinalOutcome(responseOk) \in Terminals
    BY DEF Terminals, FinalOutcome
  <2> QED  BY <1>0, <1>13, <2>1, <2>2, FinishJobKeepsInvariant DEF FinishResponse
<1>14. CASE Epilogue
  <2>1. workerPc = "epilogue" /\ workerPc' = "idle" /\ JobStep /\ failed' \in BOOLEAN
    BY <1>0, <1>14 DEF Epilogue
  <2>2. CASE Current.terminal
    <3>1. workerJob \in Clients /\ Current \in ProtocolStates
          /\ (Current.terminal <=> IsTerminal(Current.phase))
      BY <2>1 DEF IInv, WorkerHoldsJob, TypeOK, Current, FlagMatchesPhase
    <3>2. protocol' = [protocol EXCEPT ![workerJob] = Current]
          /\ workerBusy' \in BOOLEAN
          /\ active' \in ProtocolStates /\ tally' \in [Terminals -> Nat]
      BY <1>14, <2>2, <3>1
         DEF Epilogue, OutcomeMissing, healthVars, IInv, TypeOK, Current
    <3> QED  BY <2>1, <2>2, <3>1, <3>2, JobStepKeepsInvariant
  <2>3. CASE ~Current.terminal
    <3>1. FinishJob(IF stopRequested THEN "CANCELLED" ELSE "ERROR")
      BY <1>14, <2>3 DEF Epilogue, OutcomeMissing
    <3>2. (IF stopRequested THEN "CANCELLED" ELSE "ERROR") \in Terminals
      BY DEF Terminals
    <3> QED  BY <2>1, <3>1, <3>2, FinishJobKeepsInvariant
  <2> QED  BY <2>2, <2>3
<1>15. CASE GoIdle
  <2>1. workerJob \in Clients /\ Current \in ProtocolStates
        /\ (Current.terminal <=> IsTerminal(Current.phase))
    BY <1>15 DEF GoIdle, IInv, WorkerHoldsJob, TypeOK, Current, FlagMatchesPhase
  <2>2. Current.terminal
    BY <1>15 DEF GoIdle, IInv, EpilogueFinishes
  <2> QED  BY <1>15, <2>1, <2>2, JobStepKeepsInvariant
           DEF GoIdle, IInv, TypeOK, Current
<1> QED
  BY <1>1, <1>2, <1>3, <1>4, <1>5, <1>6, <1>7, <1>8, <1>9, <1>10, <1>11,
     <1>12, <1>13, <1>14, <1>15 DEF Generate

(* dequeue and the release of the client. *)
LEMMA WorkerQueueKeepsInvariant ==
  ASSUME IInv, Dequeue \/ NothingToDequeue \/ WorkerSpuriousWake \/ SignalDone
  PROVE  IInv'
<1> USE NoneIsNoClient DEF IInv
<1>1. CASE Dequeue
  <2> USE <1>1 DEF Dequeue, WorkerGoes, signalVars, mainVars, clientVars, healthVars
  <2>1. /\ Head(queue) \in Clients /\ Head(queue) \in Queued
        /\ queue' \in Seq(Clients)
        /\ Queued' = Queued \ {Head(queue)}
        /\ \A i, j \in DOMAIN queue' : queue'[i] = queue'[j] => i = j
    BY RemovedJob DEF TypeOK, JobsOutliveTheirUsers
  <2>2. workerJob = None /\ workerJob' = Head(queue)
    BY DEF WorkerHoldsJob, TypeOK
  <2>3. Held' = Held
    BY <2>1, <2>2 DEF Held
  <2>4. TypeOK' /\ WorkerHoldsJob'
    BY <2>1, <2>2 DEF TypeOK, WorkerHoldsJob
  <2>5. MainHoldsClient' /\ FreshUntilEnqueued' /\ FlagMatchesPhase'
        /\ EpilogueFinishes' /\ ReleasedHaveOutcome'
    BY DEF MainHoldsClient, FreshUntilEnqueued, FlagMatchesPhase,
           EpilogueFinishes, ReleasedHaveOutcome
  <2>6. JobsOutliveTheirUsers' /\ OwedAreHeld'
    BY <2>1, <2>2, <2>3 DEF JobsOutliveTheirUsers, OwedAreHeld, Waiting
  <2>7. ClientCountExact' /\ ShutdownOrder'
    BY DEF ClientCountExact, Counted, Threads, ShutdownOrder
  <2> QED  BY <2>4, <2>5, <2>6, <2>7
<1>2. CASE NothingToDequeue \/ WorkerSpuriousWake
  <2> USE <1>2 DEF NothingToDequeue, WorkerSpuriousWake, WorkerGoes,
          OnlyWorkerMoves, signalVars, mainVars, clientVars, healthVars
  <2>1. Held' = Held /\ Queued' = Queued
    BY DEF Held, Queued
  <2>2. TypeOK' /\ WorkerHoldsJob'
    BY DEF TypeOK, WorkerHoldsJob
  <2>3. MainHoldsClient' /\ FreshUntilEnqueued' /\ FlagMatchesPhase'
        /\ EpilogueFinishes' /\ ReleasedHaveOutcome'
    BY DEF MainHoldsClient, FreshUntilEnqueued, FlagMatchesPhase,
           EpilogueFinishes, ReleasedHaveOutcome
  <2>4. JobsOutliveTheirUsers' /\ OwedAreHeld'
    BY <2>1 DEF JobsOutliveTheirUsers, OwedAreHeld, Waiting
  <2>5. ClientCountExact' /\ ShutdownOrder'
    BY DEF ClientCountExact, Counted, Threads, ShutdownOrder, TypeOK
  <2> QED  BY <2>2, <2>3, <2>4, <2>5
<1>3. CASE SignalDone
  <2> USE <1>3 DEF SignalDone, WorkerGoes, signalVars, mainVars, healthVars
  <2>1. workerJob \in Clients /\ workerJob' = None /\ Current.terminal
    BY DEF WorkerHoldsJob, EpilogueFinishes
  <2>2. Queued' = Queued /\ Held' = Held \ {workerJob} /\ workerJob \in Held
    BY <2>1 DEF Held, Queued, JobsOutliveTheirUsers
  <2>3. clientPc[workerJob] = "asleep" /\ ~done[workerJob]
    BY <2>1, <2>2 DEF JobsOutliveTheirUsers, Waiting
  <2>4. /\ clientPc' = [clientPc EXCEPT ![workerJob] = "checking"]
        /\ done' = [done EXCEPT ![workerJob] = TRUE]
    BY <2>1, <2>3 DEF Woken, TypeOK
  <2>5. TypeOK' /\ WorkerHoldsJob'
    BY <2>1, <2>4 DEF TypeOK, WorkerHoldsJob
  <2>6. MainHoldsClient'
    BY <2>3, <2>4 DEF MainHoldsClient, TypeOK
  <2>7. FreshUntilEnqueued' /\ ReleasedHaveOutcome' /\ FlagMatchesPhase'
        /\ EpilogueFinishes'
    BY <2>1, <2>4 DEF FreshUntilEnqueued, ReleasedHaveOutcome, FlagMatchesPhase,
                      EpilogueFinishes, Current, TypeOK
  <2>8. JobsOutliveTheirUsers'
    <3>1. Waiting' = Waiting
      BY <2>3, <2>4 DEF Waiting, TypeOK
    <3>2. {c \in Waiting : ~done'[c]} = {c \in Waiting : ~done[c]} \ {workerJob}
      BY <2>4 DEF Waiting, TypeOK
    <3>3. workerJob' \notin Queued'
      BY <2>1, <2>2 DEF TypeOK, Queued
    <3> QED  BY <2>2, <3>1, <3>2, <3>3 DEF JobsOutliveTheirUsers
  <2>9. OwedAreHeld'
    BY <2>1, <2>2 DEF OwedAreHeld, Current
  <2>10. ClientCountExact'
    <3>1. Counted' = Counted
      BY <2>3, <2>4 DEF Counted, Threads, TypeOK
    <3> QED  BY <3>1, CountStays
  <2>11. ShutdownOrder'
    BY DEF ShutdownOrder
  <2> QED  BY <2>5, <2>6, <2>7, <2>8, <2>9, <2>10, <2>11
<1> QED  BY <1>1, <1>2, <1>3

(* The main thread and the signal handler: they touch no job. *)
LEMMA MainKeepsInvariant ==
  ASSUME IInv,
         Main \/ MainSpuriousWake \/ Signal \/ SecondSignal
              \/ \E c \in Clients : Accept(c)
  PROVE  IInv'
<1> USE NoneIsNoClient DEF IInv
<1>1. CASE \/ LoopCheck \/ AcceptFails \/ Join \/ CountClients \/ CloseResources
           \/ MainSpuriousWake \/ Signal \/ SecondSignal \/ Drain
  <2> USE <1>1 DEF LoopCheck, AcceptFails, Join, CountClients, CloseResources,
          MainSpuriousWake, Signal, SecondSignal, Drain, MainGoes, OnlyMainMoves,
          ClientsRemain, WakeWorker, Woken,
          signalVars, mainVars, clientVars, workerVars, healthVars
  <2>1. Held' = Held /\ Queued' = Queued
    BY DEF Held, Queued
  <2>2. TypeOK' /\ WorkerHoldsJob'
    <3>1. /\ UNCHANGED <<accepted, clientVars, queue, protocol, workerJob,
                         failed, healthVars>>
          /\ stopRequested' \in BOOLEAN /\ killed' \in BOOLEAN /\ stopping' \in BOOLEAN
          /\ mainPc' \in {"loop", "accept", "accepted", "spawn", "drain", "join",
                          "countClients", "asleep", "closing", "exited"}
      BY DEF TypeOK
    <3>2. workerPc' = workerPc \/ (workerPc = "asleep" /\ workerPc' = "check")
      OBVIOUS
    <3> QED  BY IInv, <3>1, <3>2
             DEF TypeOK, WorkerHoldsJob, clientVars, healthVars, IInv
  <2>3. MainHoldsClient' /\ FreshUntilEnqueued' /\ FlagMatchesPhase'
        /\ EpilogueFinishes' /\ ReleasedHaveOutcome'
    BY DEF MainHoldsClient, FreshUntilEnqueued, FlagMatchesPhase,
           EpilogueFinishes, ReleasedHaveOutcome, Current
  <2>4. JobsOutliveTheirUsers' /\ OwedAreHeld'
    BY <2>1 DEF JobsOutliveTheirUsers, OwedAreHeld, Waiting
  <2>5. ClientCountExact'
    <3>1. Counted' = Counted
      BY DEF Counted, Threads
    <3> QED  BY <3>1, CountStays
  <2>6. ShutdownOrder'
    BY DEF ShutdownOrder, TypeOK
  <2> QED  BY <2>2, <2>3, <2>4, <2>5, <2>6
<1>2. CASE \/ DropAccepted \/ CountClient \/ SpawnThread \/ SpawnFails
           \/ \E c \in Clients : Accept(c)
  <2> USE <1>2 DEF DropAccepted, CountClient, SpawnThread, SpawnFails, Accept,
          MainGoes, AddClient, DropClient, signalVars, workerVars, healthVars
  <2>1. Held' = Held /\ Queued' = Queued
    BY DEF Held, Queued
  <2>2. ClientCountExact' /\ clients' \in Nat
    <3>1. CASE DropAccepted \/ \E c \in Clients : Accept(c)
      <4>1. Counted' = Counted
        BY <3>1 DEF Counted, Threads, MainHoldsClient, TypeOK
      <4> QED  BY <3>1, <4>1, CountStays
    <3>2. CASE CountClient
      <4>1. accepted \notin Counted /\ Counted' = Counted \cup {accepted}
        BY <3>2 DEF Counted, Threads, MainHoldsClient, TypeOK
      <4> QED  BY <3>2, <4>1, CountGrows
    <3>3. CASE SpawnThread
      <4>1. Counted' = Counted
        BY <3>3 DEF Counted, Threads, MainHoldsClient, TypeOK
      <4> QED  BY <3>3, <4>1, CountStays
    <3>4. CASE SpawnFails
      <4>1. accepted \in Counted /\ Counted' = Counted \ {accepted}
        BY <3>4 DEF Counted, Threads, MainHoldsClient, TypeOK
      <4> QED  BY <3>4, <4>1, CountShrinks
    <3> QED  BY <3>1, <3>2, <3>3, <3>4
  <2>3. TypeOK' /\ WorkerHoldsJob'
    BY <2>2 DEF TypeOK, WorkerHoldsJob
  <2>4. MainHoldsClient'
    BY DEF MainHoldsClient, TypeOK
  <2>5. Waiting' = Waiting
    BY DEF Waiting, MainHoldsClient, TypeOK
  <2>6. JobsOutliveTheirUsers' /\ OwedAreHeld'
    BY <2>1, <2>5 DEF JobsOutliveTheirUsers, OwedAreHeld
  <2>7. FreshUntilEnqueued'
    BY DEF FreshUntilEnqueued, MainHoldsClient, TypeOK
  <2>8. FlagMatchesPhase' /\ EpilogueFinishes' /\ ReleasedHaveOutcome'
    BY DEF FlagMatchesPhase, EpilogueFinishes, ReleasedHaveOutcome, Current
  <2>9. ShutdownOrder'
    BY DEF ShutdownOrder
  <2> QED  BY <2>2, <2>3, <2>4, <2>6, <2>7, <2>8, <2>9
<1> QED  BY <1>1, <1>2 DEF Main

(* A client thread outside its enqueue: no job is added or released. *)
LEMMA ClientKeepsInvariant ==
  ASSUME IInv, NEW c \in Clients,
         \/ AnswerDirectly(c) \/ EnqueueRefused(c) \/ ClientCheck(c)
         \/ ClientSpuriousWake(c) \/ ClientDone(c)
  PROVE  IInv'
<1> USE NoneIsNoClient
    DEF IInv, AnswerDirectly, EnqueueRefused, ClientCheck, ClientSpuriousWake,
        ClientDone, ClientGoes, MayLeave, OnlyClientMoves, WakeMain, Woken,
        signalVars, mainVars, workerVars, healthVars
<1>1. /\ Held' = Held /\ Queued' = Queued
      /\ UNCHANGED <<done, protocol, queue, workerPc, workerJob, stopping,
                     accepted, active, tally, failed, workerBusy>>
  BY DEF Held, Queued
<1>2. ClientCountExact' /\ clients' \in Nat
  <2>1. CASE ClientDone(c)
    <3>1. c \in Counted /\ Counted' = Counted \ {c}
      BY <2>1 DEF Counted, Threads, MainHoldsClient, TypeOK
    <3> QED  BY <2>1, <3>1, CountShrinks
  <2>2. CASE ~ClientDone(c)
    <3>1. Counted' = Counted /\ clients' = clients
      BY <2>2 DEF Counted, Threads, MainHoldsClient, TypeOK
    <3> QED  BY <3>1, CountStays
  <2> QED  BY <2>1, <2>2
<1>3. TypeOK' /\ WorkerHoldsJob'
  <2>1. /\ clientPc' \in [Clients -> {"unborn", "accepted", "parsing", "checking",
                                     "asleep", "leaving", "gone"}]
        /\ mainPc' = mainPc \/ (mainPc = "asleep" /\ mainPc' = "countClients")
    BY DEF TypeOK
  <2> QED  BY <1>1, <1>2, <2>1 DEF TypeOK, WorkerHoldsJob
<1>4. MainHoldsClient' /\ FreshUntilEnqueued'
  BY <1>1 DEF MainHoldsClient, FreshUntilEnqueued, TypeOK
<1>5. JobsOutliveTheirUsers'
  <2>1. {d \in Waiting' : ~done[d]} = {d \in Waiting : ~done[d]}
    BY DEF Waiting, FreshUntilEnqueued, TypeOK
  <2> QED  BY <1>1, <2>1 DEF JobsOutliveTheirUsers
<1>6. FlagMatchesPhase' /\ EpilogueFinishes' /\ ReleasedHaveOutcome' /\ OwedAreHeld'
  BY <1>1 DEF FlagMatchesPhase, EpilogueFinishes, ReleasedHaveOutcome, OwedAreHeld,
              Current
<1>7. ShutdownOrder'
  BY <1>1 DEF ShutdownOrder, TypeOK
<1> QED  BY <1>2, <1>3, <1>4, <1>5, <1>6, <1>7

(* enqueue: the new job is on its client's stack, and the client waits. *)
LEMMA EnqueueKeepsInvariant ==
  ASSUME IInv, NEW c \in Clients, Enqueue(c)
  PROVE  IInv'
<1> USE NoneIsNoClient
    DEF IInv, Enqueue, ClientGoes, AddToQueue, Appended, WakeWorker, Woken,
        signalVars, mainVars, healthVars
<1>1. c \notin Held /\ ~done[c] /\ protocol[c] = NoRequest
  BY DEF JobsOutliveTheirUsers, Waiting, FreshUntilEnqueued
<1>2. /\ queue' \in Seq(Clients) /\ Queued' = Queued \cup {c}
      /\ \A i, j \in DOMAIN queue' : queue'[i] = queue'[j] => i = j
  BY <1>1, AppendedJob DEF TypeOK, JobsOutliveTheirUsers, Held
<1>3. Held' = Held \cup {c} /\ workerJob # c
  BY <1>1, <1>2 DEF Held
<1>4. /\ requestSeq' \in Nat /\ requestSeq' > 0
      /\ StateInit(requestSeq + 1) \in ProtocolStates
      /\ ~StateInit(requestSeq + 1).terminal
      /\ ~IsTerminal(StateInit(requestSeq + 1).phase)
  BY DEF TypeOK, StateInit, ProtocolStates, Phases, IsTerminal, Terminals
<1>5. workerPc' = workerPc \/ (workerPc = "asleep" /\ workerPc' = "check")
  OBVIOUS
<1>6. TypeOK' /\ WorkerHoldsJob'
  <2>1. protocol' \in [Clients -> ProtocolStates]
        /\ clientPc' \in [Clients -> {"unborn", "accepted", "parsing", "checking",
                                     "asleep", "leaving", "gone"}]
    BY <1>4 DEF TypeOK
  <2> QED  BY <1>2, <1>4, <1>5, <2>1 DEF TypeOK, WorkerHoldsJob
<1>7. MainHoldsClient' /\ FreshUntilEnqueued'
  BY DEF MainHoldsClient, FreshUntilEnqueued, TypeOK
<1>8. JobsOutliveTheirUsers'
  <2>1. {d \in Waiting' : ~done[d]} = {d \in Waiting : ~done[d]} \cup {c}
    BY <1>1 DEF Waiting, TypeOK
  <2> QED  BY <1>2, <1>3, <2>1 DEF JobsOutliveTheirUsers
<1>9. ClientCountExact'
  <2>1. Counted' = Counted
    BY DEF Counted, Threads, TypeOK
  <2> QED  BY <2>1, CountStays
<1>10. FlagMatchesPhase' /\ ReleasedHaveOutcome'
  BY <1>1, <1>4 DEF FlagMatchesPhase, ReleasedHaveOutcome, TypeOK
<1>11. EpilogueFinishes'
  BY <1>3, <1>5 DEF EpilogueFinishes, Current, WorkerHoldsJob, TypeOK
<1>12. OwedAreHeld'
  BY <1>3 DEF OwedAreHeld, TypeOK
<1>13. ShutdownOrder'
  BY DEF ShutdownOrder
<1> QED
  BY <1>6, <1>7, <1>8, <1>9, <1>10, <1>11, <1>12, <1>13

(* The initial state. *)
LEMMA InitInvariant == Init => IInv
<1> SUFFICES ASSUME Init PROVE IInv
  OBVIOUS
<1> USE NoneIsNoClient DEF Init
<1>1. NoRequest \in ProtocolStates /\ ~NoRequest.terminal
      /\ ~IsTerminal(NoRequest.phase) /\ NoRequest.request_id = 0
  BY DEF NoRequest, StateInit, ProtocolStates, Phases, IsTerminal, Terminals
<1>2. Held = {} /\ Queued = {} /\ Waiting = {} /\ Counted = {}
  BY DEF Held, Queued, Waiting, Counted, Threads
<1>3. TypeOK
  <2>1. queue \in Seq(Clients) /\ tally \in [Terminals -> Nat]
        /\ done \in [Clients -> BOOLEAN] /\ protocol \in [Clients -> ProtocolStates]
    BY <1>1
  <2>2. stopRequested \in BOOLEAN /\ killed \in BOOLEAN /\ stopping \in BOOLEAN
        /\ failed \in BOOLEAN /\ workerBusy \in BOOLEAN
    OBVIOUS
  <2>3. clientPc \in [Clients -> {"unborn", "accepted", "parsing", "checking",
                                  "asleep", "leaving", "gone"}]
    OBVIOUS
  <2> QED  BY <1>1, <2>1, <2>2, <2>3 DEF TypeOK
<1>4. ClientCountExact
  BY <1>2, FS_EmptySet DEF ClientCountExact
<1> QED
  BY <1>1, <1>2, <1>3, <1>4
     DEF IInv, WorkerHoldsJob, MainHoldsClient, FreshUntilEnqueued,
         JobsOutliveTheirUsers, FlagMatchesPhase, EpilogueFinishes, OwedAreHeld,
         ReleasedHaveOutcome, ShutdownOrder

(* Every step, a stutter included, keeps the invariant. *)
LEMMA StepKeepsInvariant == IInv /\ [Next]_vars => IInv'
<1> SUFFICES ASSUME IInv, [Next]_vars PROVE IInv'
  OBVIOUS
<1>1. CASE UNCHANGED vars
  BY <1>1 DEF vars, signalVars, mainVars, clientVars, workerVars, healthVars,
     IInv, TypeOK, WorkerHoldsJob, MainHoldsClient, FreshUntilEnqueued,
     JobsOutliveTheirUsers, Held, Queued, Waiting, ClientCountExact, Counted,
     Threads, FlagMatchesPhase, EpilogueFinishes, OwedAreHeld, Current,
     ReleasedHaveOutcome, ShutdownOrder
<1>2. CASE Main \/ MainSpuriousWake \/ Signal \/ SecondSignal
                \/ \E c \in Clients : Accept(c)
  BY <1>2, MainKeepsInvariant
<1>3. CASE Worker \/ WorkerSpuriousWake
  BY <1>3, WorkerJobKeepsInvariant, WorkerQueueKeepsInvariant DEF Worker
<1>4. CASE \E c \in Clients : Client(c) \/ ClientSpuriousWake(c)
  BY <1>4, ClientKeepsInvariant, EnqueueKeepsInvariant DEF Client
<1> QED
  BY <1>1, <1>2, <1>3, <1>4 DEF Next, Ended, SpuriousWake

(* The invariant holds in every reachable state. *)
THEOREM Invariance == Spec => []IInv
BY InitInvariant, StepKeepsInvariant, PTL DEF Spec

-----------------------------------------------------------------------------
(* What follows from it, for any finite number of connections.             *)

(* Every variable keeps its type; in particular s->clients is never negative. *)
THEOREM TypeCorrect == Spec => []TypeOK
<1>1. IInv => TypeOK
  BY DEF IInv
<1> QED  BY <1>1, Invariance, PTL

(* The queue and the worker never point at a job whose client has gone, *)
(* and no waiting client's job is lost.                                  *)
THEOREM NoDanglingJob == Spec => []JobsOutliveTheirUsers
<1>1. IInv => JobsOutliveTheirUsers
  BY DEF IInv
<1> QED  BY <1>1, Invariance, PTL

(* s->clients is the number of threads that may touch the server. *)
THEOREM ClientCountCorrect == Spec => []ClientCountExact
<1>1. IInv => ClientCountExact
  BY DEF IInv
<1> QED  BY <1>1, Invariance, PTL

(* A client is released only when its request has ended. *)
THEOREM ReleaseAfterOutcome == Spec => []ReleasedHaveOutcome
<1>1. IInv => ReleasedHaveOutcome
  BY DEF IInv
<1> QED  BY <1>1, Invariance, PTL

(* server_close_resources runs only when the worker has exited, nothing is *)
(* queued, no client thread is left and every request has an outcome.      *)
THEOREM CloseIsSafe == Spec => []ClosesOnlyWhenQuiet
<1>1. IInv => ClosesOnlyWhenQuiet
  <2> SUFFICES ASSUME IInv, mainPc \in {"closing", "exited"}
               PROVE  /\ workerPc = "exited" /\ queue = <<>> /\ Threads = {}
                      /\ \A c \in Clients :
                           protocol[c].request_id > 0 => protocol[c].terminal
    BY DEF ClosesOnlyWhenQuiet
  <2>1. workerPc = "exited" /\ queue = <<>> /\ clients = 0
    BY DEF IInv, ShutdownOrder
  <2>2. Threads = {}
    <3>1. Counted = {}
      BY <2>1, CountedFinite, FS_EmptySet DEF IInv, ClientCountExact
    <3> QED  BY <3>1 DEF Counted, Threads
  <2>3. Held = {}
    BY <2>1, NoneIsNoClient DEF Held, Queued, IInv, WorkerHoldsJob, TypeOK
  <2> QED  BY <2>1, <2>2, <2>3 DEF IInv, OwedAreHeld
<1> QED  BY <1>1, Invariance, PTL

(* What one step of the worker does to the request it runs. *)
LEMMA WorkerKeepsOutcomes ==
  ASSUME IInv, workerJob \in Clients,
         \/ UNCHANGED protocol
         \/ \E phase \in Phases \ Terminals : MoveTo(phase) /\ phase # "RECOVERY"
         \/ \E outcome \in Terminals : FinishJob(outcome)
         \/ TryRecovery
  PROVE  KeepsOutcomes
<1>1. Current \in ProtocolStates /\ (Current.terminal <=> IsTerminal(Current.phase))
  BY DEF IInv, TypeOK, Current, FlagMatchesPhase
<1>2. ASSUME NEW state, Kept(Current, state),
             protocol' = [protocol EXCEPT ![workerJob] = state]
      PROVE  KeepsOutcomes
  BY <1>2 DEF KeepsOutcomes, Kept, Current, IInv, TypeOK
<1>3. CASE UNCHANGED protocol
  BY <1>3 DEF KeepsOutcomes, Kept
<1>4. ASSUME NEW phase \in Phases \ Terminals, MoveTo(phase), phase # "RECOVERY"
      PROVE  KeepsOutcomes
  <2>1. CASE TransitionAllowed(Current.phase, phase)
    <3>1. ~Current.terminal
          /\ protocol' = [protocol EXCEPT ![workerJob] = [Current EXCEPT !.phase = phase]]
      BY <1>1, <1>4, <2>1, ProtocolSteps DEF MoveTo, Publish
    <3>2. Kept(Current, [Current EXCEPT !.phase = phase])
      BY <1>1, <1>4, <3>1 DEF Kept, ProtocolStates
    <3> QED  BY <1>2, <3>1, <3>2
  <2> QED  BY <1>3, <1>4, <2>1 DEF MoveTo
<1>5. ASSUME NEW outcome \in Terminals, FinishJob(outcome)
      PROVE  KeepsOutcomes
  <2> DEFINE state == [Current EXCEPT !.phase = outcome, !.terminal = TRUE]
  <2>1. CASE CanFinish(Current, outcome)
    <3>1. ~Current.terminal /\ protocol' = [protocol EXCEPT ![workerJob] = state]
      BY <1>1, <1>5, <2>1, ProtocolSteps DEF FinishJob, Publish
    <3>2. Kept(Current, state)
      BY <1>1, <3>1 DEF Kept, ProtocolStates, Terminals
    <3> QED  BY <1>2, <3>1, <3>2
  <2> QED  BY <1>3, <1>5, <2>1 DEF FinishJob
<1>6. CASE TryRecovery
  <2> DEFINE state == [Current EXCEPT !.phase = "RECOVERY",
                                      !.recovery_attempted = TRUE]
  <2>1. ~Current.terminal /\ protocol' = [protocol EXCEPT ![workerJob] = state]
        /\ ~Current.recovery_attempted
    BY <1>1, <1>6, ProtocolSteps DEF TryRecovery, Publish, CanBeginRecovery
  <2>2. Kept(Current, state)
    BY <2>1 DEF Kept
  <2> QED  BY <1>2, <2>1, <2>2
<1> QED  BY <1>3, <1>4, <1>5, <1>6

(* An outcome, once published, is never replaced, and a job recovers once. *)
THEOREM OutcomesFinal == Spec => OutcomeIsFinal
<1>1. IInv /\ [Next]_vars => [KeepsOutcomes]_vars
  <2> SUFFICES ASSUME IInv, Next PROVE KeepsOutcomes
    OBVIOUS
  <2>1. UNCHANGED protocol => KeepsOutcomes
    BY DEF KeepsOutcomes, Kept
  <2>2. CASE \E c \in Clients : Client(c) \/ ClientSpuriousWake(c)
    <3>1. PICK c \in Clients : Client(c) \/ ClientSpuriousWake(c)
      BY <2>2
    <3>2. CASE Enqueue(c)
      <4>1. protocol[c] = NoRequest
            /\ protocol' = [protocol EXCEPT ![c] = StateInit(requestSeq + 1)]
        BY <3>2 DEF Enqueue, ClientGoes, AddToQueue, IInv, FreshUntilEnqueued
      <4>2. Kept(protocol[c], protocol'[c])
        BY <4>1 DEF Kept, NoRequest, StateInit, IInv, TypeOK
      <4>3. \A d \in Clients : d # c => Kept(protocol[d], protocol'[d])
        BY <4>1 DEF Kept, IInv, TypeOK
      <4> QED  BY <4>2, <4>3 DEF KeepsOutcomes
    <3> QED  BY <2>1, <3>1, <3>2 DEF Client, AnswerDirectly, EnqueueRefused,
                 ClientCheck, ClientDone, ClientSpuriousWake, OnlyClientMoves
  <2>3. CASE Main \/ MainSpuriousWake \/ Signal \/ SecondSignal \/ Ended
             \/ \E c \in Clients : Accept(c)
    BY <2>1, <2>3 DEF Main, MainSpuriousWake, Signal, SecondSignal, Ended, Accept,
       LoopCheck, AcceptFails, DropAccepted, CountClient, SpawnThread, SpawnFails,
       Drain, Join, CountClients, CloseResources, OnlyMainMoves, vars
  <2>4. CASE Dequeue \/ NothingToDequeue \/ WorkerSpuriousWake \/ SignalDone \/ Start
             \/ PrefillFails \/ StreamStartFails \/ StreamStarts \/ GoIdle
    BY <2>1, <2>4 DEF Dequeue, NothingToDequeue, WorkerSpuriousWake, SignalDone,
       Start, PrefillFails, StreamStartFails, StreamStarts, GoIdle, OnlyWorkerMoves
  <2>5. CASE \/ BeginSteering \/ FinishSteering \/ BeginPrefill \/ PrefillInterrupted
             \/ PrefillDone \/ TryRecovery \/ RecoveryContinues \/ RecoveryFails
             \/ DecodeEnds \/ FinishResponse \/ Epilogue
    <3>1. workerJob \in Clients
      BY <2>5 DEF BeginSteering, FinishSteering, BeginPrefill, PrefillInterrupted,
         PrefillDone, TryRecovery, RecoveryContinues, RecoveryFails, DecodeEnds,
         FinishResponse, Epilogue, WorkerGoes, IInv, WorkerHoldsJob
    <3>2. CASE \/ BeginSteering \/ BeginPrefill \/ PrefillDone \/ RecoveryContinues
               \/ RecoveryFails \/ DecodeEnds
      <4>1. \E phase \in Phases \ Terminals : MoveTo(phase) /\ phase # "RECOVERY"
        BY <3>2 DEF BeginSteering, BeginPrefill, PrefillDone, RecoveryContinues,
           RecoveryFails, DecodeEnds, Phases, Terminals
      <4> QED  BY <3>1, <4>1, WorkerKeepsOutcomes
    <3>3. CASE FinishSteering \/ PrefillInterrupted \/ FinishResponse
      <4>1. \E outcome \in Terminals : FinishJob(outcome)
        BY <3>3 DEF FinishSteering, PrefillInterrupted, FinishResponse, FinalOutcome,
           Terminals
      <4> QED  BY <3>1, <4>1, WorkerKeepsOutcomes
    <3>4. CASE Epilogue
      <4>1. UNCHANGED protocol \/ \E outcome \in Terminals : FinishJob(outcome)
        BY <3>4 DEF Epilogue, Terminals
      <4> QED  BY <3>1, <4>1, WorkerKeepsOutcomes
    <3> QED  BY <2>5, <3>1, <3>2, <3>3, <3>4, WorkerKeepsOutcomes
  <2> QED
    BY <2>2, <2>3, <2>4, <2>5 DEF Next, Worker, Generate, SpuriousWake
<1> QED  BY <1>1, Invariance, PTL DEF Spec, OutcomeIsFinal

-----------------------------------------------------------------------------
(* What /healthz reports.                                                  *)

(* The worker is busy from the start of a job until it goes idle. *)
BusyMatchesPc ==
  workerBusy <=> workerPc \in JobPcs \ {"start", "signal"}

HInv == BusyMatchesPc /\ HealthIsTrue

EndedWith(o) == {c \in Clients : protocol[c].phase = o}

(* No request ends or begins anew: the counters stay true. *)
LEMMA CountersStay ==
  ASSUME CountersMatchOutcomes, tally' = tally,
         \A c \in Clients, o \in Terminals : protocol'[c].phase = o <=> protocol[c].phase = o
  PROVE  CountersMatchOutcomes'
<1> SUFFICES ASSUME NEW o \in Terminals
             PROVE  tally'[o] = Cardinality(EndedWith(o)')
  BY DEF CountersMatchOutcomes, EndedWith
<1>1. EndedWith(o)' = EndedWith(o)
  BY DEF EndedWith
<1> QED  BY <1>1 DEF CountersMatchOutcomes, EndedWith

(* The request of the running job ends, and is counted once. *)
LEMMA CountersGrow ==
  ASSUME TypeOK, CountersMatchOutcomes, workerJob \in Clients,
         ~IsTerminal(Current.phase), NEW outcome \in Terminals, NEW state,
         protocol' = [protocol EXCEPT ![workerJob] = state], state.phase = outcome,
         tally' = [tally EXCEPT ![outcome] = @ + 1]
  PROVE  CountersMatchOutcomes'
<1> SUFFICES ASSUME NEW o \in Terminals
             PROVE  tally'[o] = Cardinality(EndedWith(o)')
  BY DEF CountersMatchOutcomes, EndedWith
<1>1. IsFiniteSet(EndedWith(o)) /\ Cardinality(EndedWith(o)) \in Nat
  BY ClientsFinite, FS_Subset, FS_CardinalityType DEF EndedWith
<1>2. tally[o] = Cardinality(EndedWith(o))
  BY DEF CountersMatchOutcomes, EndedWith
<1>3. workerJob \notin EndedWith(o)
  BY DEF EndedWith, Current, IsTerminal
<1>4. /\ protocol'[workerJob].phase = outcome
      /\ \A c \in Clients : c # workerJob => protocol'[c] = protocol[c]
  BY DEF TypeOK
<1>5. CASE o = outcome
  <2>1. EndedWith(o)' = EndedWith(o) \cup {workerJob}
    BY <1>4, <1>5 DEF EndedWith
  <2>2. Cardinality(EndedWith(o)') = Cardinality(EndedWith(o)) + 1
    BY <1>1, <1>3, <2>1, FS_AddElement
  <2> QED  BY <1>2, <1>5, <2>2 DEF TypeOK
<1>6. CASE o # outcome
  <2>1. EndedWith(o)' = EndedWith(o)
    BY <1>3, <1>4, <1>6 DEF EndedWith
  <2> QED  BY <1>2, <1>6, <2>1 DEF TypeOK
<1> QED  BY <1>5, <1>6

(* A step that changes no state of a request, and no job under a worker    *)
(* that is busy. *)
LEMMA HealthStays ==
  ASSUME HInv, UNCHANGED <<protocol, healthVars>>, workerBusy => workerJob' = workerJob,
         workerPc' \in JobPcs \ {"start", "signal"} <=> workerPc \in JobPcs \ {"start", "signal"}
  PROVE  HInv'
<1>1. CountersMatchOutcomes'
  BY CountersStay DEF HInv, HealthIsTrue, healthVars
<1> QED  BY <1>1 DEF HInv, HealthIsTrue, PhaseIsCurrent, BusyMatchesPc, Current, healthVars

(* The steps of a running job: its state and the copy change together. *)
LEMMA MoveToHealth ==
  ASSUME IInv, HInv, NEW phase \in Phases \ Terminals, MoveTo(phase), workerJob' = workerJob,
         workerPc \in JobPcs \ {"start", "signal"}, workerPc' \in JobPcs \ {"start", "signal"}
  PROVE  HInv'
<1>1. workerBusy /\ workerBusy' = workerBusy /\ tally' = tally /\ workerJob \in Clients
  BY DEF HInv, BusyMatchesPc, MoveTo, IInv, WorkerHoldsJob, JobPcs
<1>2. Current \in ProtocolStates /\ (Current.terminal <=> IsTerminal(Current.phase))
  BY <1>1 DEF IInv, TypeOK, Current, FlagMatchesPhase
<1>3. CASE TransitionAllowed(Current.phase, phase)
  <2> DEFINE state == [Current EXCEPT !.phase = phase]
  <2>1. ~Current.terminal /\ Transition(Current, phase) = state
    BY <1>2, <1>3, ProtocolSteps
  <2>2. state.phase = phase
    BY <1>2 DEF ProtocolStates
  <2>3. protocol' = [protocol EXCEPT ![workerJob] = state] /\ active' = state
    BY <1>3, <2>1 DEF MoveTo, Publish
  <2> HIDE DEF state
  <2>4. protocol'[workerJob] = state /\ \A c \in Clients : c # workerJob => protocol'[c] = protocol[c]
    BY <1>1, <2>3 DEF IInv, TypeOK
  <2>5. CountersMatchOutcomes'
    BY <1>1, <1>2, <2>1, <2>2, <2>4, CountersStay DEF HInv, HealthIsTrue, Current, IsTerminal
  <2> QED  BY <1>1, <2>3, <2>4, <2>5 DEF HInv, HealthIsTrue, PhaseIsCurrent, BusyMatchesPc, Current
<1>4. CASE ~TransitionAllowed(Current.phase, phase)
  BY <1>1, <1>4, HealthStays DEF MoveTo, healthVars
<1> QED  BY <1>3, <1>4

LEMMA FinishJobHealth ==
  ASSUME IInv, HInv, NEW outcome \in Terminals, FinishJob(outcome), workerJob' = workerJob,
         workerPc \in JobPcs \ {"start", "signal"}, workerPc' \in JobPcs \ {"start", "signal"}
  PROVE  HInv'
<1>1. workerBusy /\ workerBusy' = workerBusy /\ workerJob \in Clients
  BY DEF HInv, BusyMatchesPc, FinishJob, IInv, WorkerHoldsJob, JobPcs
<1>2. Current \in ProtocolStates /\ (Current.terminal <=> IsTerminal(Current.phase))
  BY <1>1 DEF IInv, TypeOK, Current, FlagMatchesPhase
<1>3. CASE CanFinish(Current, outcome)
  <2> DEFINE state == [Current EXCEPT !.phase = outcome, !.terminal = TRUE]
  <2>1. ~Current.terminal /\ Finish(Current, outcome) = state
    BY <1>2, <1>3, ProtocolSteps
  <2>2. state.phase = outcome
    BY <1>2 DEF ProtocolStates
  <2>3. /\ protocol' = [protocol EXCEPT ![workerJob] = state] /\ active' = state
        /\ tally' = [tally EXCEPT ![outcome] = @ + 1]
    BY <1>3, <2>1 DEF FinishJob, Publish
  <2> HIDE DEF state
  <2>4. CountersMatchOutcomes'
    <3>1. ~IsTerminal(Current.phase) /\ TypeOK /\ CountersMatchOutcomes
      BY <1>2, <2>1 DEF IInv, HInv, HealthIsTrue
    <3> QED  BY <1>1, <2>2, <2>3, <3>1, CountersGrow
  <2>5. protocol'[workerJob] = state
    BY <1>1, <2>3 DEF IInv, TypeOK
  <2> QED  BY <1>1, <2>3, <2>4, <2>5 DEF HInv, HealthIsTrue, PhaseIsCurrent, BusyMatchesPc, Current
<1>4. CASE ~CanFinish(Current, outcome)
  BY <1>1, <1>4, HealthStays DEF FinishJob, healthVars
<1> QED  BY <1>3, <1>4

LEMMA StepKeepsHealth ==
  ASSUME IInv, HInv, [Next]_vars
  PROVE  HInv'
<1>1. CASE \/ UNCHANGED vars \/ Ended \/ Main \/ MainSpuriousWake \/ Signal \/ SecondSignal
           \/ \E c \in Clients : \/ Accept(c) \/ AnswerDirectly(c) \/ EnqueueRefused(c)
                                \/ ClientCheck(c) \/ ClientDone(c) \/ ClientSpuriousWake(c)
  <2>1. /\ UNCHANGED <<protocol, healthVars, workerJob>>
        /\ workerPc' = workerPc \/ (workerPc = "asleep" /\ workerPc' = "check")
    BY <1>1 DEF Main, MainSpuriousWake, Signal, SecondSignal, Ended, Accept,
       LoopCheck, AcceptFails, DropAccepted, CountClient, SpawnThread, SpawnFails,
       Drain, WakeWorker, Woken, Join, CountClients, CloseResources, OnlyMainMoves, vars,
       AnswerDirectly, EnqueueRefused, ClientCheck, ClientDone, ClientSpuriousWake,
       OnlyClientMoves, workerVars
  <2> QED  BY <2>1, HealthStays DEF JobPcs
<1>2. ASSUME NEW c \in Clients, Enqueue(c)
      PROVE  HInv'
  <2>1. clientPc[c] = "parsing" /\ ~done[c] /\ protocol[c] = NoRequest
    BY <1>2 DEF Enqueue, ClientGoes, IInv, FreshUntilEnqueued
  <2>2. /\ protocol' = [protocol EXCEPT ![c] = StateInit(requestSeq + 1)]
        /\ UNCHANGED <<healthVars, workerJob>>
        /\ workerPc' = workerPc \/ (workerPc = "asleep" /\ workerPc' = "check")
    BY <1>2 DEF Enqueue, AddToQueue, WakeWorker, Woken
  <2>3. \A d \in Clients, o \in Terminals : protocol'[d].phase = o <=> protocol[d].phase = o
    BY <2>1, <2>2 DEF IInv, TypeOK, NoRequest, StateInit, Terminals
  <2>4. CountersMatchOutcomes'
    BY <2>2, <2>3, CountersStay DEF HInv, HealthIsTrue, healthVars
  <2>5. workerBusy => workerJob \in Clients /\ workerJob # c
    <3>1. workerBusy => workerJob \in Clients
      BY DEF HInv, HealthIsTrue, PhaseIsCurrent, IInv, TypeOK
    <3>2. workerJob \in Clients => workerJob \in Waiting
      BY NoneIsNoClient DEF IInv, JobsOutliveTheirUsers, Held
    <3> QED  BY <2>1, <3>1, <3>2 DEF Waiting
  <2>6. workerBusy => Current' = Current
    BY <2>2, <2>5 DEF Current, IInv, TypeOK
  <2>7. PhaseIsCurrent' /\ BusyMatchesPc'
    BY <2>2, <2>6 DEF HInv, HealthIsTrue, PhaseIsCurrent, BusyMatchesPc, JobPcs, healthVars
  <2> QED  BY <2>4, <2>7 DEF HInv, HealthIsTrue
<1>3. CASE \/ Dequeue \/ NothingToDequeue \/ WorkerSpuriousWake \/ SignalDone
           \/ PrefillFails \/ StreamStartFails \/ StreamStarts
  <2>1. UNCHANGED <<protocol, healthVars>> /\ (workerBusy => workerJob' = workerJob)
    BY <1>3 DEF Dequeue, NothingToDequeue, WorkerSpuriousWake, SignalDone, WorkerGoes,
       PrefillFails, StreamStartFails, StreamStarts, OnlyWorkerMoves, HInv, BusyMatchesPc, JobPcs
  <2>2. workerPc' \in JobPcs \ {"start", "signal"} <=> workerPc \in JobPcs \ {"start", "signal"}
    BY <1>3 DEF Dequeue, NothingToDequeue, WorkerSpuriousWake, SignalDone, WorkerGoes,
       PrefillFails, StreamStartFails, StreamStarts, JobPcs
  <2> QED  BY <2>1, <2>2, HealthStays
<1>4. CASE Start \/ GoIdle
  <2>1. /\ UNCHANGED <<protocol, tally, workerJob>> /\ active' = Current
        /\ workerJob \in Clients
    BY <1>4 DEF Start, GoIdle, WorkerGoes, JobStep, IInv, WorkerHoldsJob
  <2>2. CountersMatchOutcomes'
    BY <2>1, CountersStay DEF HInv, HealthIsTrue
  <2>3. CASE Start
    <3>1. workerBusy' = TRUE /\ workerPc' = "route"
      BY <2>3 DEF Start, WorkerGoes
    <3> QED  BY <2>1, <2>2, <3>1, NoneIsNoClient
             DEF HInv, HealthIsTrue, PhaseIsCurrent, BusyMatchesPc, JobPcs, Current
  <2>4. CASE GoIdle
    <3>1. workerBusy' = FALSE /\ workerPc' = "signal" /\ Current.terminal
      BY <2>4 DEF GoIdle, WorkerGoes, IInv, EpilogueFinishes
    <3> QED  BY <2>1, <2>2, <3>1 DEF HInv, HealthIsTrue, PhaseIsCurrent, BusyMatchesPc, JobPcs
  <2> QED  BY <1>4, <2>3, <2>4
<1>5. CASE \/ BeginSteering \/ BeginPrefill \/ PrefillDone \/ RecoveryContinues
           \/ RecoveryFails \/ DecodeEnds
  <2>1. PICK phase \in Phases \ Terminals : MoveTo(phase)
    BY <1>5 DEF BeginSteering, BeginPrefill, PrefillDone, RecoveryContinues,
       RecoveryFails, DecodeEnds, Phases, Terminals
  <2>2. /\ workerJob' = workerJob /\ workerPc \in JobPcs \ {"start", "signal"}
        /\ workerPc' \in JobPcs \ {"start", "signal"}
    BY <1>5 DEF BeginSteering, BeginPrefill, PrefillDone, RecoveryContinues,
       RecoveryFails, DecodeEnds, WorkerGoes, JobStep, JobPcs
  <2> QED  BY <2>1, <2>2, MoveToHealth
<1>6. CASE FinishSteering \/ PrefillInterrupted \/ FinishResponse
           \/ (Epilogue /\ ~Current.terminal)
  <2>1. PICK outcome \in Terminals : FinishJob(outcome)
    BY <1>6 DEF FinishSteering, PrefillInterrupted, FinishResponse, FinalOutcome, Epilogue,
       OutcomeMissing, Terminals
  <2>2. /\ workerJob' = workerJob /\ workerPc \in JobPcs \ {"start", "signal"}
        /\ workerPc' \in JobPcs \ {"start", "signal"}
    BY <1>6 DEF FinishSteering, PrefillInterrupted, FinishResponse, Epilogue, WorkerGoes,
       JobStep, JobPcs
  <2> QED  BY <2>1, <2>2, FinishJobHealth
<1>7. CASE Epilogue /\ Current.terminal
  BY <1>7, HealthStays DEF Epilogue, OutcomeMissing, WorkerGoes, JobStep, JobPcs
<1>8. CASE TryRecovery
  <2> DEFINE state == [Current EXCEPT !.phase = "RECOVERY", !.recovery_attempted = TRUE]
  <2>1. /\ workerBusy /\ workerBusy' = workerBusy /\ tally' = tally /\ workerJob \in Clients
        /\ workerJob' = workerJob /\ workerPc' = "recover"
    BY <1>8 DEF TryRecovery, WorkerGoes, JobStep, HInv, BusyMatchesPc, IInv, WorkerHoldsJob, JobPcs
  <2>2. Current \in ProtocolStates /\ (Current.terminal <=> IsTerminal(Current.phase))
    BY <2>1 DEF IInv, TypeOK, Current, FlagMatchesPhase
  <2>3. ~Current.terminal /\ BeginRecovery(Current) = state
    BY <1>8, <2>2, ProtocolSteps DEF TryRecovery
  <2>4. state.phase = "RECOVERY"
    BY <2>2 DEF ProtocolStates
  <2>5. protocol' = [protocol EXCEPT ![workerJob] = state] /\ active' = state
    BY <1>8, <2>3 DEF TryRecovery, Publish
  <2> HIDE DEF state
  <2>6. protocol'[workerJob] = state /\ \A c \in Clients : c # workerJob => protocol'[c] = protocol[c]
    BY <2>1, <2>5 DEF IInv, TypeOK
  <2>7. CountersMatchOutcomes'
    BY <2>1, <2>2, <2>3, <2>4, <2>6, CountersStay
       DEF HInv, HealthIsTrue, Current, IsTerminal, Terminals
  <2> QED  BY <2>1, <2>5, <2>6, <2>7
           DEF HInv, HealthIsTrue, PhaseIsCurrent, BusyMatchesPc, Current, JobPcs
<1> QED
  BY <1>1, <1>2, <1>3, <1>4, <1>5, <1>6, <1>7, <1>8
     DEF Next, Worker, Generate, Client, SpuriousWake

(* For any finite set of connections, what /healthz reports is true at     *)
(* every moment: the counters count each request once, under the outcome   *)
(* it ended with, and the phase is the running job's                       *)
(* (server_protocol_transition, server_protocol_finish, worker_main).      *)
THEOREM HealthCorrect == Spec => []HealthIsTrue
<1>1. Init => HInv
  <2> SUFFICES ASSUME Init PROVE HInv
    OBVIOUS
  <2>1. ASSUME NEW o \in Terminals PROVE tally[o] = Cardinality(EndedWith(o))
    <3>1. EndedWith(o) = {}
      BY DEF Init, NoRequest, StateInit, EndedWith, Terminals
    <3> QED  BY <3>1, FS_EmptySet DEF Init
  <2>2. CountersMatchOutcomes
    <3> SUFFICES ASSUME NEW o \in Terminals PROVE tally[o] = Cardinality(EndedWith(o))
      BY DEF CountersMatchOutcomes, EndedWith
    <3> QED  BY <2>1
  <2> QED  BY <2>2 DEF Init, HInv, HealthIsTrue, PhaseIsCurrent, BusyMatchesPc, JobPcs,
               NoRequest, StateInit
<1>2. IInv /\ HInv /\ [Next]_vars => HInv'
  BY StepKeepsHealth
<1>3. HInv => HealthIsTrue
  BY DEF HInv
<1> QED  BY <1>1, <1>2, <1>3, Invariance, PTL DEF Spec

-----------------------------------------------------------------------------
(* The threads implement RequestOutcomes.  Requests are accepted in the    *)
(* order of their ids, the queue keeps that order, the worker always has   *)
(* the oldest request that is still owed, and so the requests answered and *)
(* the requests released are, at every moment, the first few by id.        *)

(* How many requests have been released: all but those queued and the one  *)
(* the worker has; and how many have an outcome.                           *)
Running == IF workerJob \in Clients THEN 1 ELSE 0

Served == requestSeq - Len(queue) - Running

Answered == Served + (IF workerJob \in Clients /\ Current.terminal THEN 1 ELSE 0)

Id(c) == protocol[c].request_id

(* Request ids are handed out without a gap and without a repetition. *)
IdsInUse ==
  /\ \A c \in Clients : Id(c) \in 0 .. requestSeq
  /\ \A i \in 1 .. requestSeq : \E c \in Clients : Id(c) = i
  /\ \A c, d \in Clients : Id(c) = Id(d) /\ Id(c) > 0 => c = d

(* The worker has the oldest request not yet released, and behind it the   *)
(* queue holds the later ones in the order they were accepted.             *)
OldestFirst ==
  /\ Served \in Nat
  /\ workerJob \in Clients => Id(workerJob) = Served + 1
  /\ \A k \in DOMAIN queue : Id(queue[k]) = Served + Running + k

(* The requests released and the requests answered are the oldest ones. *)
OldestDone ==
  \A c \in Clients :
    /\ done[c] <=> Id(c) > 0 /\ Id(c) <= Served
    /\ protocol[c].terminal <=> Id(c) > 0 /\ Id(c) <= Answered

OInv == IdsInUse /\ OldestFirst /\ OldestDone

(* At first nothing is accepted. *)
LEMMA InitOrder == Init => OInv
<1> SUFFICES ASSUME Init PROVE OInv
  OBVIOUS
<1>1. /\ requestSeq = 0 /\ Len(queue) = 0 /\ DOMAIN queue = {} /\ workerJob \notin Clients
      /\ \A c \in Clients : Id(c) = 0 /\ ~done[c] /\ ~protocol[c].terminal
  <2>1. queue = <<>>
    BY DEF Init
  <2>2. Len(queue) = 0 /\ DOMAIN queue = {}
    BY <2>1
  <2>3. NoRequest.request_id = 0 /\ NoRequest.terminal = FALSE
    BY DEF NoRequest, StateInit
  <2> QED  BY <2>2, <2>3, NoneIsNoClient DEF Init, Id
<1>2. Running = 0 /\ Served = 0 /\ Answered = 0
  <2>1. Running = 0
    BY <1>1 DEF Running
  <2>2. Served = 0
    BY <1>1, <2>1 DEF Served
  <2> QED  BY <1>1, <2>1, <2>2 DEF Answered
<1>3. IdsInUse
  BY <1>1 DEF IdsInUse
<1> QED  BY <1>1, <1>2, <1>3 DEF OInv, OldestFirst, OldestDone

(* A step that accepts, dequeues, ends and releases nothing. *)
LEMMA OrderStays ==
  ASSUME IInv, OInv, UNCHANGED <<requestSeq, queue, workerJob, done>>,
         \A c \in Clients : /\ protocol'[c].request_id = protocol[c].request_id
                            /\ protocol'[c].terminal = protocol[c].terminal
  PROVE  OInv'
<1>1. Running' = Running /\ Served' = Served /\ \A c \in Clients : Id(c)' = Id(c)
  BY DEF Running, Served, Id
<1>2. Answered' = Answered
  BY <1>1 DEF Answered, Current
<1>3. IdsInUse'
  BY <1>1 DEF OInv, IdsInUse
<1>4. OldestFirst'
  <2>1. Served' \in Nat /\ (workerJob' \in Clients => Id(workerJob)' = Served' + 1)
    BY <1>1 DEF OInv, OldestFirst, Id
  <2>2. ASSUME NEW k \in DOMAIN queue' PROVE Id(queue[k])' = Served' + Running' + k
    <3>1. queue[k] \in Clients /\ k \in DOMAIN queue /\ queue'[k] = queue[k]
      BY DEF IInv, TypeOK
    <3>2. Id(queue[k])' = Id(queue[k])
      BY <3>1 DEF Id
    <3>3. Id(queue[k]) = Served + Running + k
      BY <3>1 DEF OInv, OldestFirst
    <3> QED  BY <1>1, <3>2, <3>3
  <2> QED  BY <2>1, <2>2 DEF OldestFirst
<1> QED  BY <1>1, <1>2, <1>3, <1>4 DEF OInv, OldestDone

(* enqueue: the next id, behind all the others. *)
LEMMA EnqueueOrder ==
  ASSUME IInv, OInv, NEW c \in Clients, Enqueue(c)
  PROVE  /\ OInv' /\ Id(c) = 0 /\ Id(c)' = requestSeq + 1
         /\ requestSeq' = requestSeq + 1 /\ Served' = Served /\ Answered' = Answered
         /\ done' = done
         /\ \A d \in Clients \ {c} : protocol'[d] = protocol[d]
<1>1. /\ protocol[c] = NoRequest /\ ~done[c] /\ c # workerJob /\ c \notin Queued
  BY NoneIsNoClient DEF Enqueue, ClientGoes, IInv, FreshUntilEnqueued,
     JobsOutliveTheirUsers, Held, Waiting
<1>2. /\ requestSeq \in Nat /\ queue \in Seq(Clients) /\ requestSeq' = requestSeq + 1
      /\ queue' = Append(queue, c) /\ UNCHANGED <<done, workerJob>>
      /\ protocol'[c] = StateInit(requestSeq + 1)
      /\ \A d \in Clients \ {c} : protocol'[d] = protocol[d]
  BY DEF Enqueue, AddToQueue, Appended, IInv, TypeOK
<1>3. /\ Len(queue') = Len(queue) + 1 /\ Len(queue) \in Nat
      /\ DOMAIN queue = 1 .. Len(queue) /\ DOMAIN queue' = 1 .. Len(queue) + 1
      /\ \A k \in 1 .. Len(queue) : queue'[k] = queue[k] /\ queue[k] \in Clients \ {c}
      /\ queue'[Len(queue) + 1] = c
  <2>1. \A k \in 1 .. Len(queue) : queue[k] \in Queued /\ queue[k] \in Clients
    BY <1>2 DEF Queued
  <2> QED  BY <1>1, <1>2, <2>1
<1>4. /\ Id(c) = 0 /\ Id(c)' = requestSeq + 1 /\ ~protocol[c].terminal /\ ~protocol'[c].terminal
      /\ \A d \in Clients \ {c} : Id(d)' = Id(d)
  BY <1>1, <1>2 DEF Id, NoRequest, StateInit
<1>5. Running' = Running /\ Running \in {0, 1}
  BY <1>2 DEF Running
<1>6. Served' = Served /\ Served \in Nat /\ Served + Running + Len(queue) = requestSeq
  BY <1>2, <1>3, <1>5 DEF Served, OInv, OldestFirst
<1>7. workerJob \in Clients => Current' = Current
  BY <1>1, <1>2 DEF Current
<1>8. Answered' = Answered
  BY <1>2, <1>6, <1>7 DEF Answered
<1>9. Answered \in Nat /\ Answered <= requestSeq
  BY <1>3, <1>6 DEF Answered, Running
<1>10. IdsInUse'
  <2>1. \A d \in Clients : Id(d)' \in 0 .. requestSeq'
    BY <1>2, <1>4 DEF OInv, IdsInUse
  <2>2. ASSUME NEW i \in 1 .. requestSeq' PROVE \E d \in Clients : Id(d)' = i
    <3>1. CASE i = requestSeq + 1
      BY <1>4, <3>1
    <3>2. CASE i # requestSeq + 1
      <4>1. PICK d \in Clients : Id(d) = i
        BY <1>2, <3>2 DEF OInv, IdsInUse
      <4> QED  BY <1>4, <4>1
    <3> QED  BY <3>1, <3>2
  <2>3. ASSUME NEW d \in Clients, NEW e \in Clients, Id(d)' = Id(e)', Id(d)' > 0
        PROVE  d = e
    BY <1>2, <1>4, <2>3 DEF OInv, IdsInUse
  <2> QED  BY <2>1, <2>2, <2>3 DEF IdsInUse
<1>11. OldestFirst'
  <2>1. workerJob' \in Clients => Id(workerJob)' = Served' + 1
    <3>1. workerJob \in Clients => protocol'[workerJob] = protocol[workerJob]
      BY <1>1, <1>2
    <3> QED  BY <1>2, <1>6, <3>1 DEF OInv, OldestFirst, Id
  <2>2. ASSUME NEW k \in DOMAIN queue' PROVE Id(queue[k])' = Served' + Running' + k
    <3>1. CASE k = Len(queue) + 1
      <4>1. Id(queue[k])' = requestSeq + 1
        BY <1>3, <1>4, <3>1 DEF Id
      <4> QED  BY <1>3, <1>5, <1>6, <3>1, <4>1
    <3>2. CASE k # Len(queue) + 1
      <4>1. k \in 1 .. Len(queue)
        BY <1>3, <3>2
      <4>2. Id(queue[k])' = Id(queue[k])
        BY <1>2, <1>3, <4>1 DEF Id
      <4>3. Id(queue[k]) = Served + Running + k
        BY <1>3, <4>1 DEF OInv, OldestFirst
      <4> QED  BY <1>5, <1>6, <4>2, <4>3
    <3> QED  BY <3>1, <3>2
  <2> QED  BY <1>6, <2>1, <2>2 DEF OldestFirst
<1>12. OldestDone'
  <2> SUFFICES ASSUME NEW d \in Clients
               PROVE  /\ done'[d] <=> Id(d)' > 0 /\ Id(d)' <= Served'
                      /\ protocol'[d].terminal <=> Id(d)' > 0 /\ Id(d)' <= Answered'
    BY DEF OldestDone
  <2>1. CASE d = c
    BY <1>1, <1>2, <1>3, <1>4, <1>5, <1>6, <1>8, <1>9, <2>1
  <2>2. CASE d # c
    <3>1. d \in Clients \ {c} /\ protocol'[d] = protocol[d] /\ done'[d] = done[d] /\ Id(d)' = Id(d)
      BY <1>2, <1>4, <2>2
    <3> QED  BY <1>6, <1>8, <3>1 DEF OInv, OldestDone
  <2> QED  BY <2>1, <2>2
<1> QED  BY <1>2, <1>4, <1>6, <1>8, <1>10, <1>11, <1>12 DEF OInv

(* dequeue: the head is the oldest request that is owed. *)
LEMMA DequeueOrder ==
  ASSUME IInv, OInv, Dequeue
  PROVE  /\ OInv' /\ Served' = Served /\ Answered' = Answered
         /\ UNCHANGED <<requestSeq, protocol, done>>
<1>1. /\ queue \in Seq(Clients) /\ queue # <<>> /\ workerJob \notin Clients
      /\ workerJob' = Head(queue) /\ queue' = Tail(queue)
      /\ UNCHANGED <<requestSeq, protocol, done>> /\ requestSeq \in Nat
  BY DEF Dequeue, WorkerGoes, IInv, TypeOK, WorkerHoldsJob, clientVars
<1>2. /\ Len(queue) \in Nat /\ Len(queue) > 0 /\ DOMAIN queue = 1 .. Len(queue)
      /\ Len(queue') = Len(queue) - 1 /\ DOMAIN queue' = 1 .. Len(queue) - 1
      /\ \A k \in DOMAIN queue' : queue'[k] = queue[k + 1]
      /\ workerJob' = queue[1] /\ workerJob' \in Clients
  BY <1>1
<1>3. \A d : Id(d)' = Id(d)
  BY <1>1 DEF Id
<1>4. Running = 0 /\ Running' = 1
  BY <1>1, <1>2 DEF Running
<1>5. Served' = Served /\ Served \in Nat
  BY <1>1, <1>2, <1>4 DEF Served, OInv, OldestFirst
<1>6. Id(queue[1]) = Served + 1
  <2>1. 1 \in DOMAIN queue
    BY <1>2
  <2>2. Id(queue[1]) = Served + Running + 1
    BY <2>1 DEF OInv, OldestFirst
  <2> QED  BY <1>4, <1>5, <2>2
<1>7. ~protocol[queue[1]].terminal /\ Answered = Served
  <2>1. Answered = Served
    BY <1>1, <1>5 DEF Answered
  <2> QED  BY <1>2, <1>5, <1>6, <2>1 DEF OInv, OldestDone
<1>8. Answered' = Answered
  BY <1>1, <1>2, <1>5, <1>7 DEF Answered, Current
<1>9. IdsInUse'
  BY <1>1, <1>3 DEF OInv, IdsInUse
<1>10. OldestFirst'
  <2>1. Id(workerJob)' = Served' + 1
    BY <1>1, <1>2, <1>5, <1>6 DEF Id
  <2>2. ASSUME NEW k \in DOMAIN queue' PROVE Id(queue[k])' = Served' + Running' + k
    <3>1. k + 1 \in DOMAIN queue /\ k \in Nat
      BY <1>2
    <3>2. Id(queue[k])' = Id(queue[k + 1])
      BY <1>1, <1>2 DEF Id
    <3>3. Id(queue[k + 1]) = Served + Running + (k + 1)
      BY <3>1 DEF OInv, OldestFirst
    <3> QED  BY <1>4, <1>5, <3>1, <3>2, <3>3
  <2> QED  BY <1>5, <2>1, <2>2 DEF OldestFirst
<1>11. OldestDone'
  BY <1>1, <1>3, <1>5, <1>8 DEF OInv, OldestDone
<1> QED  BY <1>1, <1>5, <1>8, <1>9, <1>10, <1>11 DEF OInv

(* server_protocol_finish on the running job: one more is answered. *)
LEMMA FinishOrder ==
  ASSUME IInv, OInv, JobStep, workerJob \in Clients, ~Current.terminal,
         NEW state, state.terminal = TRUE, state.request_id = Current.request_id,
         protocol' = [protocol EXCEPT ![workerJob] = state]
  PROVE  /\ OInv' /\ Served' = Served /\ Answered = Served /\ Answered' = Served + 1
         /\ Id(workerJob) = Served + 1 /\ Served < requestSeq
         /\ UNCHANGED <<requestSeq, done, mainPc>>
         /\ \A c \in Clients : Id(c)' = Id(c)
         /\ \A c \in Clients \ {workerJob} : protocol'[c] = protocol[c]
<1>1. /\ UNCHANGED <<requestSeq, queue, workerJob, done, mainPc>>
      /\ requestSeq \in Nat /\ queue \in Seq(Clients) /\ Len(queue) \in Nat
      /\ protocol'[workerJob] = state
      /\ \A c \in Clients \ {workerJob} : protocol'[c] = protocol[c]
  BY DEF JobStep, IInv, TypeOK, clientVars, mainVars
<1>2. \A c \in Clients : Id(c)' = Id(c)
  BY <1>1 DEF Id, Current
<1>3. Running' = Running /\ Running = 1 /\ Served' = Served /\ Served \in Nat
  BY <1>1 DEF Running, Served, OInv, OldestFirst
<1>4. Served < requestSeq
  BY <1>1, <1>3 DEF Served
<1>5. Answered = Served /\ Answered' = Served + 1
  <2>1. Current'.terminal
    BY <1>1 DEF Current
  <2> QED  BY <1>1, <1>3, <2>1 DEF Answered
<1>6. Id(workerJob) = Served + 1
  BY DEF OInv, OldestFirst
<1>7. IdsInUse'
  BY <1>1, <1>2 DEF OInv, IdsInUse
<1>8. OldestFirst'
  <2>1. Id(workerJob)' = Served' + 1
    BY <1>1, <1>3, <1>6 DEF Id, Current
  <2>2. ASSUME NEW k \in DOMAIN queue' PROVE Id(queue[k])' = Served' + Running' + k
    <3>1. queue'[k] = queue[k] /\ queue[k] \in Clients /\ k \in DOMAIN queue
      BY <1>1
    <3>2. Id(queue[k])' = Id(queue[k])
      BY <1>1, <3>1 DEF Id, Current
    <3>3. Id(queue[k]) = Served + Running + k
      BY <3>1 DEF OInv, OldestFirst
    <3> QED  BY <1>3, <3>2, <3>3
  <2> QED  BY <1>3, <2>1, <2>2 DEF OldestFirst
<1>9. OldestDone'
  <2> SUFFICES ASSUME NEW d \in Clients
               PROVE  /\ done'[d] <=> Id(d)' > 0 /\ Id(d)' <= Served'
                      /\ protocol'[d].terminal <=> Id(d)' > 0 /\ Id(d)' <= Answered'
    BY DEF OldestDone
  <2>0. Id(d) \in Nat /\ (Id(d) = Id(workerJob) => d = workerJob)
    BY <1>1, <1>3, <1>6 DEF OInv, IdsInUse
  <2>1. done'[d] <=> Id(d)' > 0 /\ Id(d)' <= Served'
    BY <1>1, <1>2, <1>3 DEF OInv, OldestDone
  <2>2. CASE d = workerJob
    BY <1>1, <1>2, <1>3, <1>5, <1>6, <2>1, <2>2
  <2>3. CASE d # workerJob
    <3>1. protocol'[d] = protocol[d] /\ Id(d)' = Id(d)
      BY <1>1, <1>2, <2>3
    <3>2. protocol[d].terminal <=> Id(d) > 0 /\ Id(d) <= Served
      BY <1>5 DEF OInv, OldestDone
    <3>3. Id(d) # Served + 1
      BY <1>6, <2>0, <2>3
    <3> QED  BY <1>3, <1>5, <2>0, <2>1, <3>1, <3>2, <3>3
  <2> QED  BY <2>2, <2>3
<1> QED  BY <1>1, <1>2, <1>3, <1>4, <1>5, <1>6, <1>7, <1>8, <1>9 DEF OInv

(* worker_main sets done: one more is released. *)
LEMMA SignalOrder ==
  ASSUME IInv, OInv, SignalDone
  PROVE  /\ OInv' /\ Served' = Served + 1 /\ Answered = Served + 1 /\ Answered' = Answered
         /\ UNCHANGED <<requestSeq, protocol, mainPc>>
<1>1. /\ UNCHANGED <<requestSeq, queue, protocol, mainPc>>
      /\ workerJob \in Clients /\ workerJob' \notin Clients /\ Current.terminal
      /\ requestSeq \in Nat /\ queue \in Seq(Clients) /\ Len(queue) \in Nat
      /\ done' = [done EXCEPT ![workerJob] = TRUE] /\ done \in [Clients -> BOOLEAN]
  BY NoneIsNoClient
     DEF SignalDone, WorkerGoes, IInv, TypeOK, WorkerHoldsJob, EpilogueFinishes, mainVars
<1>2. \A d : Id(d)' = Id(d)
  BY <1>1 DEF Id
<1>3. Running = 1 /\ Running' = 0 /\ Served \in Nat
  BY <1>1 DEF Running, OInv, OldestFirst
<1>4. Served' = Served + 1
  BY <1>1, <1>3 DEF Served
<1>5. Answered = Served + 1 /\ Answered' = Answered
  BY <1>1, <1>3, <1>4 DEF Answered
<1>6. IdsInUse'
  BY <1>1, <1>2 DEF OInv, IdsInUse
<1>7. OldestFirst'
  <2>1. ASSUME NEW k \in DOMAIN queue' PROVE Id(queue[k])' = Served' + Running' + k
    <3>1. queue'[k] = queue[k] /\ k \in DOMAIN queue
      BY <1>1
    <3>2. Id(queue[k])' = Id(queue[k])
      BY <1>1 DEF Id
    <3>3. Id(queue[k]) = Served + Running + k
      BY <3>1 DEF OInv, OldestFirst
    <3> QED  BY <1>3, <1>4, <3>2, <3>3
  <2> QED  BY <1>1, <1>3, <1>4, <2>1 DEF OldestFirst
<1>8. OldestDone'
  <2> SUFFICES ASSUME NEW d \in Clients
               PROVE  /\ done'[d] <=> Id(d)' > 0 /\ Id(d)' <= Served'
                      /\ protocol'[d].terminal <=> Id(d)' > 0 /\ Id(d)' <= Answered'
    BY DEF OldestDone
  <2>1. Id(workerJob) = Served + 1
    BY <1>1 DEF OInv, OldestFirst
  <2>2. Id(d) \in Nat /\ (Id(d) = Id(workerJob) => d = workerJob)
    BY <1>1, <1>3, <2>1 DEF OInv, IdsInUse
  <2>3. protocol'[d].terminal <=> Id(d)' > 0 /\ Id(d)' <= Answered'
    BY <1>1, <1>2, <1>5 DEF OInv, OldestDone
  <2>4. CASE d = workerJob
    BY <1>1, <1>2, <1>3, <1>4, <2>1, <2>3, <2>4
  <2>5. CASE d # workerJob
    <3>1. done'[d] = done[d] /\ (done[d] <=> Id(d) > 0 /\ Id(d) <= Served)
      BY <1>1, <2>5 DEF OInv, OldestDone
    <3>2. Id(d) # Served + 1
      BY <2>1, <2>2, <2>5
    <3> QED  BY <1>2, <1>3, <1>4, <2>2, <2>3, <3>1, <3>2
  <2> QED  BY <2>4, <2>5
<1> QED  BY <1>1, <1>4, <1>5, <1>6, <1>7, <1>8 DEF OInv

(* Each id up to request_seq names one job. *)
LEMMA JobsById ==
  ASSUME IdsInUse, NEW i \in 1 .. requestSeq
  PROVE  /\ JobOf(i) \in Clients /\ Id(JobOf(i)) = i
         /\ \A c \in Clients : Id(c) = i => c = JobOf(i)
<1>1. \E c \in Clients : protocol[c].request_id = i
  BY DEF IdsInUse, Id
<1>2. JobOf(i) \in Clients /\ Id(JobOf(i)) = i
  BY <1>1 DEF JobOf, Id
<1> QED  BY <1>2 DEF IdsInUse

(* The jobs with the first n ids are n. *)
LEMMA CountById ==
  ASSUME IdsInUse, requestSeq \in Nat, NEW n \in 0 .. requestSeq
  PROVE  Cardinality({c \in Clients : Id(c) > 0 /\ Id(c) <= n}) = n
<1> DEFINE S == {c \in Clients : Id(c) > 0 /\ Id(c) <= n}
           f == [i \in 1 .. n |-> JobOf(i)]
<1>1. \A i \in 1 .. n : i \in 1 .. requestSeq
  OBVIOUS
<1>2. \A i \in 1 .. n : JobOf(i) \in S /\ Id(JobOf(i)) = i
  BY <1>1, JobsById
<1>3. ASSUME NEW c \in S PROVE Id(c) \in 1 .. n /\ JobOf(Id(c)) = c
  <2>1. Id(c) \in 1 .. n
    BY DEF IdsInUse
  <2> QED  BY <1>1, <2>1, JobsById
<1> HIDE DEF S
<1>4. f \in [1 .. n -> S]
  BY <1>2
<1>5. \A i, j \in 1 .. n : f[i] = f[j] => i = j
  <2> SUFFICES ASSUME NEW i \in 1 .. n, NEW j \in 1 .. n, f[i] = f[j] PROVE i = j
    OBVIOUS
  <2>1. JobOf(i) = JobOf(j)
    OBVIOUS
  <2> QED  BY <1>2, <2>1
<1>6. \A c \in S : \E i \in 1 .. n : f[i] = c
  BY <1>3
<1> HIDE DEF f
<1>7. f \in Bijection(1 .. n, S)
  BY <1>4, <1>5, <1>6 DEF Bijection, Injection, Surjection, IsInjective
<1>8. ExistsBijection(1 .. n, S)
  BY <1>7 DEF ExistsBijection
<1>9. IsFiniteSet(1 .. n) /\ Cardinality(1 .. n) = n
  BY FS_Interval
<1>10. Cardinality(S) = n
  BY <1>8, <1>9, FS_Bijection
<1> QED  BY <1>10 DEF S

(* The counts of the abstract view are the bounds on the ids. *)
LEMMA CountsAreBounds ==
  IInv /\ OInv =>
    /\ Served \in Nat /\ Answered \in Nat /\ Served <= Answered /\ Answered <= requestSeq
    /\ Answered <= Served + 1
    /\ ReleasedCount = Served /\ PublishedCount = Answered
<1> SUFFICES ASSUME IInv, OInv
             PROVE  /\ Served \in Nat /\ Answered \in Nat /\ Served <= Answered
                    /\ Answered <= requestSeq /\ Answered <= Served + 1
                    /\ ReleasedCount = Served /\ PublishedCount = Answered
  OBVIOUS
<1>1. Served \in Nat /\ requestSeq \in Nat /\ Len(queue) \in Nat
  BY DEF OInv, OldestFirst, IInv, TypeOK
<1>2. /\ Answered \in Nat /\ Served <= Answered /\ Answered <= requestSeq
      /\ Answered <= Served + 1
  <2>1. CASE workerJob \in Clients
    <3>1. Served < requestSeq
      BY <1>1, <2>1 DEF Served, Running
    <3> QED  BY <1>1, <2>1, <3>1 DEF Answered
  <2>2. CASE workerJob \notin Clients
    <3>1. Served <= requestSeq
      BY <1>1, <2>2 DEF Served, Running
    <3> QED  BY <1>1, <2>2, <3>1 DEF Answered
  <2> QED  BY <2>1, <2>2
<1>3. ReleasedCount = Served
  <2>1. {c \in Clients : done[c]} = {c \in Clients : Id(c) > 0 /\ Id(c) <= Served}
    BY DEF OInv, OldestDone
  <2> QED  BY <1>1, <1>2, <2>1, CountById DEF ReleasedCount, OInv
<1>4. PublishedCount = Answered
  <2>1. {c \in Clients : protocol[c].terminal}
          = {c \in Clients : Id(c) > 0 /\ Id(c) <= Answered}
    BY DEF OInv, OldestDone
  <2> QED  BY <1>1, <1>2, <2>1, CountById DEF PublishedCount, OInv
<1> QED  BY <1>1, <1>2, <1>3, <1>4

(* The abstract variables that are not counts. *)
Ordered == [i \in 1 .. requestSeq |-> JobOf(i)]

OutcomesUpTo(n) == [i \in 1 .. n |-> protocol[JobOf(i)].phase]

Closed == mainPc \in {"closing", "exited"}

(* A job keeps its place in the order when ids are kept. *)
LEMMA NamesStay ==
  ASSUME IdsInUse, IdsInUse', requestSeq \in Nat, requestSeq' \in Nat,
         requestSeq <= requestSeq',
         \A c \in Clients : Id(c) > 0 => Id(c)' = Id(c)
  PROVE  \A i \in 1 .. requestSeq : JobOf(i)' = JobOf(i)
<1> SUFFICES ASSUME NEW i \in 1 .. requestSeq PROVE JobOf(i)' = JobOf(i)
  OBVIOUS
<1>1. JobOf(i) \in Clients /\ Id(JobOf(i)) = i
  BY JobsById
<1>2. protocol'[JobOf(i)].request_id = i
  BY <1>1 DEF Id
<1>3. i \in 1 .. requestSeq'
  OBVIOUS
<1>4. \E c \in Clients : protocol'[c].request_id = i
  BY <1>1, <1>2
<1>5. JobOf(i)' \in Clients /\ protocol'[JobOf(i)'].request_id = i
  BY <1>4 DEF JobOf
<1> QED  BY <1>1, <1>2, <1>5 DEF IdsInUse, Id

WithOutcome(state, outcome) == [state EXCEPT !.phase = outcome, !.terminal = TRUE]

(* A step that accepts, takes, ends and releases no request. *)
Quiet ==
  /\ UNCHANGED <<requestSeq, queue, workerJob, done>>
  /\ \A c \in Clients : /\ protocol'[c].request_id = protocol[c].request_id
                        /\ protocol'[c].terminal = protocol[c].terminal
                        /\ protocol[c].terminal => protocol'[c] = protocol[c]

(* The step that gives the running request its outcome. *)
Answers(outcome) ==
  /\ JobStep /\ workerJob \in Clients /\ ~Current.terminal
  /\ protocol' = [protocol EXCEPT ![workerJob] = WithOutcome(Current, outcome)]

(* A transition between phases publishes nothing. *)
LEMMA MoveToIsQuiet ==
  ASSUME IInv, JobStep, workerJob \in Clients, NEW phase \in Phases \ Terminals, MoveTo(phase)
  PROVE  Quiet
<1>1. Current \in ProtocolStates /\ (Current.terminal <=> IsTerminal(Current.phase))
  BY DEF IInv, TypeOK, Current, FlagMatchesPhase
<1>2. UNCHANGED <<requestSeq, queue, workerJob, done>>
  BY DEF JobStep, clientVars
<1>3. CASE TransitionAllowed(Current.phase, phase)
  <2> DEFINE state == [Current EXCEPT !.phase = phase]
  <2>1. ~Current.terminal /\ protocol' = [protocol EXCEPT ![workerJob] = state]
    BY <1>1, <1>3, ProtocolSteps DEF MoveTo, Publish
  <2>2. state.request_id = Current.request_id /\ state.terminal = Current.terminal
    BY <1>1 DEF ProtocolStates
  <2> HIDE DEF state
  <2> QED  BY <1>2, <2>1, <2>2 DEF Quiet, Current, IInv, TypeOK
<1>4. CASE ~TransitionAllowed(Current.phase, phase)
  BY <1>2, <1>4 DEF MoveTo, Quiet
<1> QED  BY <1>3, <1>4

(* server_protocol_finish publishes an outcome or leaves the job alone. *)
LEMMA FinishJobAnswers ==
  ASSUME IInv, JobStep, workerJob \in Clients, NEW outcome \in Terminals, FinishJob(outcome)
  PROVE  Quiet \/ Answers(outcome)
<1>1. Current \in ProtocolStates /\ (Current.terminal <=> IsTerminal(Current.phase))
  BY DEF IInv, TypeOK, Current, FlagMatchesPhase
<1>2. CASE CanFinish(Current, outcome)
  BY <1>1, <1>2, ProtocolSteps DEF FinishJob, Publish, Answers, WithOutcome
<1>3. CASE ~CanFinish(Current, outcome)
  BY <1>3 DEF FinishJob, Quiet, JobStep, clientVars
<1> QED  BY <1>2, <1>3

(* Every step is one of these. *)
LEMMA StepKinds ==
  ASSUME IInv, [Next]_vars
  PROVE  \/ (Quiet /\ (CountClients \/ Closed' = Closed))
         \/ Dequeue \/ SignalDone
         \/ \E c \in Clients : Enqueue(c)
         \/ \E outcome \in Terminals : Answers(outcome)
<1>1. CASE \/ UNCHANGED vars \/ Ended \/ Main \/ MainSpuriousWake \/ Signal \/ SecondSignal
           \/ \E c \in Clients : \/ Accept(c) \/ AnswerDirectly(c) \/ EnqueueRefused(c)
                                \/ ClientCheck(c) \/ ClientDone(c) \/ ClientSpuriousWake(c)
  <2>1. UNCHANGED <<requestSeq, queue, workerJob, done, protocol>>
    BY <1>1 DEF Main, MainSpuriousWake, Signal, SecondSignal, Ended, Accept,
       LoopCheck, AcceptFails, DropAccepted, CountClient, SpawnThread, SpawnFails,
       Drain, WakeWorker, Woken, Join, CountClients, CloseResources, OnlyMainMoves, vars,
       AnswerDirectly, EnqueueRefused, ClientCheck, ClientDone, ClientSpuriousWake,
       OnlyClientMoves, workerVars, clientVars
  <2>2. CountClients \/ Closed' = Closed
    BY <1>1 DEF Main, MainSpuriousWake, Signal, SecondSignal, Ended, Accept, MainGoes,
       LoopCheck, AcceptFails, DropAccepted, CountClient, SpawnThread, SpawnFails,
       Drain, Join, CloseResources, vars, mainVars, WakeMain, Woken,
       AnswerDirectly, EnqueueRefused, ClientCheck, ClientDone, ClientSpuriousWake,
       OnlyClientMoves, Closed
  <2> QED  BY <2>1, <2>2 DEF Quiet
<1>2. CASE \/ NothingToDequeue \/ WorkerSpuriousWake
           \/ PrefillFails \/ StreamStartFails \/ StreamStarts \/ Start \/ GoIdle
           \/ (Epilogue /\ Current.terminal)
  <2>1. UNCHANGED <<requestSeq, queue, workerJob, done, protocol, mainPc>>
    BY <1>2 DEF NothingToDequeue, WorkerSpuriousWake, PrefillFails, StreamStartFails,
       StreamStarts, Start, GoIdle, Epilogue, OutcomeMissing, JobStep, OnlyWorkerMoves,
       clientVars, mainVars
  <2> QED  BY <2>1 DEF Quiet, Closed
<1>3. CASE \/ BeginSteering \/ BeginPrefill \/ PrefillDone \/ RecoveryContinues
           \/ RecoveryFails \/ DecodeEnds
  <2>1. PICK phase \in Phases \ Terminals : MoveTo(phase)
    BY <1>3 DEF BeginSteering, BeginPrefill, PrefillDone, RecoveryContinues,
       RecoveryFails, DecodeEnds, Phases, Terminals
  <2>2. JobStep /\ workerJob \in Clients
    BY <1>3 DEF BeginSteering, BeginPrefill, PrefillDone, RecoveryContinues,
       RecoveryFails, DecodeEnds, WorkerGoes, IInv, WorkerHoldsJob
  <2> QED  BY <2>1, <2>2, MoveToIsQuiet DEF JobStep, mainVars, Closed
<1>4. CASE FinishSteering \/ PrefillInterrupted \/ FinishResponse
           \/ (Epilogue /\ ~Current.terminal)
  <2>1. PICK outcome \in Terminals : FinishJob(outcome)
    BY <1>4 DEF FinishSteering, PrefillInterrupted, FinishResponse, FinalOutcome, Epilogue,
       OutcomeMissing, Terminals
  <2>2. JobStep /\ workerJob \in Clients
    BY <1>4 DEF FinishSteering, PrefillInterrupted, FinishResponse, Epilogue,
       WorkerGoes, IInv, WorkerHoldsJob
  <2> QED  BY <2>1, <2>2, FinishJobAnswers DEF JobStep, mainVars, Closed
<1>5. CASE TryRecovery
  <2> DEFINE state == [Current EXCEPT !.phase = "RECOVERY", !.recovery_attempted = TRUE]
  <2>1. workerJob \in Clients /\ JobStep
    BY <1>5 DEF TryRecovery, WorkerGoes, IInv, WorkerHoldsJob
  <2>2. Current \in ProtocolStates /\ (Current.terminal <=> IsTerminal(Current.phase))
    BY <2>1 DEF IInv, TypeOK, Current, FlagMatchesPhase
  <2>3. ~Current.terminal /\ protocol' = [protocol EXCEPT ![workerJob] = state]
    BY <1>5, <2>2, ProtocolSteps DEF TryRecovery, Publish
  <2>4. state.request_id = Current.request_id /\ state.terminal = Current.terminal
    BY <2>2 DEF ProtocolStates
  <2> HIDE DEF state
  <2> QED  BY <2>1, <2>3, <2>4 DEF Quiet, Current, IInv, TypeOK, JobStep, clientVars, mainVars, Closed
<1> QED
  BY <1>1, <1>2, <1>3, <1>4, <1>5
     DEF Next, Worker, Generate, Client, SpuriousWake

(* Publishing keeps the order. *)
LEMMA AnswersOrder ==
  ASSUME IInv, OInv, NEW outcome \in Terminals, Answers(outcome)
  PROVE  /\ OInv' /\ Served' = Served /\ Answered = Served /\ Answered' = Served + 1
         /\ Id(workerJob) = Served + 1 /\ Served < requestSeq
         /\ UNCHANGED <<requestSeq, done, mainPc>>
         /\ \A c \in Clients : Id(c)' = Id(c)
         /\ \A c \in Clients \ {workerJob} : protocol'[c] = protocol[c]
         /\ protocol'[workerJob].phase = outcome
<1>1. workerJob \in Clients /\ JobStep /\ ~Current.terminal
      /\ Current \in ProtocolStates
      /\ protocol' = [protocol EXCEPT ![workerJob] = WithOutcome(Current, outcome)]
  BY DEF Answers, IInv, TypeOK, Current
<1>2. LET state == WithOutcome(Current, outcome)
      IN  state.terminal = TRUE /\ state.request_id = Current.request_id /\ state.phase = outcome
  BY <1>1 DEF WithOutcome, ProtocolStates
<1>3. protocol'[workerJob].phase = outcome
  BY <1>1, <1>2 DEF IInv, TypeOK
<1> QED  BY <1>1, <1>2, <1>3, FinishOrder

(* Every step keeps the order. *)
LEMMA StepKeepsOrder == IInv /\ OInv /\ [Next]_vars => OInv'
BY StepKinds, OrderStays, DequeueOrder, SignalOrder, EnqueueOrder, AnswersOrder DEF Quiet

(* What is needed of a state to see its abstract step. *)
Seen ==
  /\ IInv /\ OInv /\ requestSeq \in Nat
  /\ Served \in Nat /\ Answered \in Nat /\ Served <= Answered /\ Answered <= requestSeq
  /\ Answered <= Served + 1
  /\ ReleasedCount = Served /\ PublishedCount = Answered

(* The invariants give all of it. *)
LEMMA OrderIsSeen == IInv /\ OInv => Seen
BY CountsAreBounds DEF Seen, IInv, TypeOK

(* The abstract order and outcomes are sequences of the expected length. *)
LEMMA OrderedIsSeq ==
  ASSUME Seen
  PROVE  /\ Ordered \in Seq(Clients) /\ Len(Ordered) = requestSeq
         /\ \A n \in 0 .. requestSeq :
              /\ OutcomesUpTo(n) \in Seq(Phases) /\ Len(OutcomesUpTo(n)) = n
<1>1. requestSeq \in Nat /\ \A i \in 1 .. requestSeq : JobOf(i) \in Clients
  BY JobsById DEF Seen, OInv
<1>2. Ordered \in Seq(Clients) /\ Len(Ordered) = requestSeq
  BY <1>1 DEF Ordered
<1>3. ASSUME NEW n \in 0 .. requestSeq
      PROVE  OutcomesUpTo(n) \in Seq(Phases) /\ Len(OutcomesUpTo(n)) = n
  <2>1. \A i \in 1 .. n : protocol[JobOf(i)].phase \in Phases
    BY <1>1 DEF Seen, IInv, TypeOK, ProtocolStates
  <2> QED  BY <2>1 DEF OutcomesUpTo
<1> QED  BY <1>2, <1>3

(* The outcomes published stay in place when the ids and the finished      *)
(* requests do. *)
LEMMA OutcomesStay ==
  ASSUME Seen, NEW n \in Nat, n <= Answered,
         \A i \in 1 .. n : JobOf(i)' = JobOf(i),
         \A c \in Clients : protocol[c].terminal => protocol'[c].phase = protocol[c].phase
  PROVE  OutcomesUpTo(n)' = OutcomesUpTo(n)
<1> SUFFICES ASSUME NEW i \in 1 .. n
             PROVE  protocol'[JobOf(i)'].phase = protocol[JobOf(i)].phase
  BY DEF OutcomesUpTo
<1>1. i \in 1 .. requestSeq
  BY DEF Seen
<1>2. JobOf(i) \in Clients /\ Id(JobOf(i)) = i
  BY <1>1, JobsById DEF Seen, OInv
<1>3. protocol[JobOf(i)].terminal
  BY <1>2 DEF Seen, OInv, OldestDone
<1> QED  BY <1>2, <1>3

(* The outcomes published so far are the same after a step that publishes   *)
(* none.                                                                    *)
LEMMA SameOutcomes ==
  ASSUME Seen, Seen', requestSeq <= requestSeq', Answered' = Answered,
         \A c \in Clients : Id(c) > 0 => Id(c)' = Id(c),
         \A c \in Clients : protocol[c].terminal => protocol'[c].phase = protocol[c].phase
  PROVE  /\ \A i \in 1 .. requestSeq : JobOf(i)' = JobOf(i)
         /\ OutcomesUpTo(PublishedCount)' = OutcomesUpTo(PublishedCount)
<1>1. \A i \in 1 .. requestSeq : JobOf(i)' = JobOf(i)
  BY NamesStay DEF Seen, OInv
<1>2. \A i \in 1 .. Answered : i \in 1 .. requestSeq
  BY DEF Seen
<1>3. \A i \in 1 .. Answered : JobOf(i)' = JobOf(i)
  BY <1>1, <1>2
<1>4. \A n \in Nat : n = Answered => OutcomesUpTo(n)' = OutcomesUpTo(n)
  BY <1>3, OutcomesStay DEF Seen
<1>5. Answered \in Nat /\ PublishedCount = Answered /\ PublishedCount' = Answered
  BY DEF Seen
<1>6. OutcomesUpTo(Answered)' = OutcomesUpTo(Answered)
  BY <1>4, <1>5 DEF OutcomesUpTo
<1> QED  BY <1>1, <1>5, <1>6 DEF OutcomesUpTo

(* The abstract variables, by name. *)
LEMMA StutterOf ==
  ASSUME Ordered' = Ordered, ReleasedCount' = ReleasedCount, Closed' = Closed,
         OutcomesUpTo(PublishedCount)' = OutcomesUpTo(PublishedCount)
  PROVE  UNCHANGED Outcomes!vars
BY DEF Outcomes!vars, Ordered, OutcomesUpTo, Closed

LEMMA AcceptOf ==
  ASSUME NEW c, ~Closed, \A i \in DOMAIN Ordered : Ordered[i] # c,
         Ordered' = Append(Ordered, c), ReleasedCount' = ReleasedCount, Closed' = Closed,
         OutcomesUpTo(PublishedCount)' = OutcomesUpTo(PublishedCount)
  PROVE  Outcomes!Accept(c)
BY DEF Outcomes!Accept, Ordered, OutcomesUpTo, Closed

LEMMA PublishOf ==
  ASSUME NEW o, Len(OutcomesUpTo(PublishedCount)) < Len(Ordered),
         ReleasedCount = Len(OutcomesUpTo(PublishedCount)),
         OutcomesUpTo(PublishedCount)' = Append(OutcomesUpTo(PublishedCount), o),
         Ordered' = Ordered, ReleasedCount' = ReleasedCount, Closed' = Closed
  PROVE  Outcomes!Publish(o)
BY DEF Outcomes!Publish, Ordered, OutcomesUpTo, Closed

LEMMA ReleaseOf ==
  ASSUME ReleasedCount < Len(OutcomesUpTo(PublishedCount)),
         ReleasedCount' = ReleasedCount + 1,
         Ordered' = Ordered, Closed' = Closed,
         OutcomesUpTo(PublishedCount)' = OutcomesUpTo(PublishedCount)
  PROVE  Outcomes!Release
BY DEF Outcomes!Release, Ordered, OutcomesUpTo, Closed

LEMMA CloseOf ==
  ASSUME ~Closed, ReleasedCount = Len(Ordered), Closed' = TRUE,
         Ordered' = Ordered, ReleasedCount' = ReleasedCount,
         OutcomesUpTo(PublishedCount)' = OutcomesUpTo(PublishedCount)
  PROVE  Outcomes!Close
BY DEF Outcomes!Close, Ordered, OutcomesUpTo, Closed

(* Append, position by position. *)
LEMMA AppendedSeq ==
  ASSUME NEW S, NEW s \in Seq(S), NEW e \in S
  PROVE  Append(s, e) = [i \in 1 .. Len(s) + 1 |-> IF i \in 1 .. Len(s) THEN s[i] ELSE e]
<1> DEFINE t == Append(s, e)
<1>1. /\ t \in Seq(S) /\ Len(t) = Len(s) + 1 /\ Len(s) \in Nat
      /\ \A i \in 1 .. Len(s) : t[i] = s[i]
      /\ t[Len(s) + 1] = e
  OBVIOUS
<1> HIDE DEF t
<1>2. t = [i \in 1 .. Len(s) + 1 |-> t[i]]
  BY <1>1
<1>3. \A i \in 1 .. Len(s) + 1 : t[i] = IF i \in 1 .. Len(s) THEN s[i] ELSE e
  BY <1>1
<1>4. t = [i \in 1 .. Len(s) + 1 |-> IF i \in 1 .. Len(s) THEN s[i] ELSE e]
  BY <1>2, <1>3
<1> QED  BY <1>4 DEF t

(* enqueue is the acceptance of a request. *)
LEMMA EnqueueServes ==
  ASSUME Seen, Seen', NEW c \in Clients, Enqueue(c)
  PROVE  Outcomes!Accept(c)
<1>1. /\ Id(c) = 0 /\ Id(c)' = requestSeq + 1 /\ requestSeq' = requestSeq + 1
      /\ Served' = Served /\ Answered' = Answered
      /\ \A d \in Clients \ {c} : protocol'[d] = protocol[d]
  BY EnqueueOrder DEF Seen
<1>2. ~Closed /\ Closed' = Closed
  BY DEF Enqueue, mainVars, Seen, IInv, ShutdownOrder, Closed
<1>3. ~protocol[c].terminal
  BY <1>1 DEF Seen, OInv, OldestDone
<1>4. /\ \A d \in Clients : Id(d) > 0 => Id(d)' = Id(d)
      /\ \A d \in Clients : protocol[d].terminal => protocol'[d].phase = protocol[d].phase
  BY <1>1, <1>3 DEF Id
<1>5. requestSeq \in Nat /\ requestSeq <= requestSeq' /\ requestSeq + 1 \in 1 .. requestSeq'
  BY <1>1 DEF Seen
<1>6. /\ \A i \in 1 .. requestSeq : JobOf(i)' = JobOf(i)
      /\ OutcomesUpTo(PublishedCount)' = OutcomesUpTo(PublishedCount)
  BY <1>1, <1>4, <1>5, SameOutcomes
<1>7. \A i \in 1 .. requestSeq : JobOf(i) # c
  <2>1. \A i \in 1 .. requestSeq : Id(JobOf(i)) = i
    BY JobsById DEF Seen, OInv
  <2> QED  BY <1>1, <2>1
<1>8. ASSUME NEW i \in 1 .. requestSeq + 1, i = requestSeq + 1 PROVE JobOf(i)' = c
  <2>1. protocol'[c].request_id = i
    BY <1>1, <1>8 DEF Id
  <2>2. JobOf(i)' \in Clients /\ protocol'[JobOf(i)'].request_id = i
    BY <2>1 DEF JobOf
  <2> QED  BY <1>5, <1>8, <2>1, <2>2 DEF Seen, OInv, IdsInUse, Id
<1>9. Ordered' = Append(Ordered, c)
  <2>1. Ordered \in Seq(Clients) /\ Len(Ordered) = requestSeq
    BY OrderedIsSeq
  <2>2. Append(Ordered, c) = [i \in 1 .. requestSeq + 1 |->
                                IF i \in 1 .. requestSeq THEN Ordered[i] ELSE c]
    BY <2>1, AppendedSeq
  <2>3. Ordered' = [i \in 1 .. requestSeq + 1 |-> JobOf(i)']
    BY <1>1 DEF Ordered
  <2>4. \A i \in 1 .. requestSeq + 1 :
          JobOf(i)' = IF i \in 1 .. requestSeq THEN Ordered[i] ELSE c
    <3> SUFFICES ASSUME NEW i \in 1 .. requestSeq + 1
                 PROVE  JobOf(i)' = IF i \in 1 .. requestSeq THEN Ordered[i] ELSE c
      OBVIOUS
    <3>1. CASE i \in 1 .. requestSeq
      BY <1>6, <3>1 DEF Ordered
    <3>2. CASE i = requestSeq + 1
      BY <1>5, <1>8, <3>2
    <3> QED  BY <1>5, <3>1, <3>2
  <2> QED  BY <2>2, <2>3, <2>4
<1>10. ReleasedCount' = ReleasedCount
  BY <1>1 DEF Seen
<1>11. \A i \in DOMAIN Ordered : Ordered[i] # c
  BY <1>7 DEF Ordered
<1> QED  BY <1>2, <1>6, <1>9, <1>10, <1>11, AcceptOf

(* The outcome published is that of the oldest request owed one, and the   *)
(* client before it has been released.                                     *)
LEMMA AnswerServes ==
  ASSUME Seen, Seen', NEW outcome \in Terminals, Answers(outcome)
  PROVE  Outcomes!Publish(outcome)
<1>1. /\ Served' = Served /\ Answered = Served /\ Answered' = Served + 1
      /\ workerJob \in Clients /\ Id(workerJob) = Served + 1 /\ Served < requestSeq
      /\ UNCHANGED <<requestSeq, mainPc>>
      /\ \A c \in Clients : Id(c)' = Id(c)
      /\ \A c \in Clients \ {workerJob} : protocol'[c] = protocol[c]
      /\ protocol'[workerJob].phase = outcome /\ ~protocol[workerJob].terminal
  BY AnswersOrder DEF Seen, Answers, Current
<1>2. requestSeq \in Nat /\ Served \in Nat /\ Served \in 0 .. requestSeq
  BY <1>1 DEF Seen
<1>3. \A i \in 1 .. requestSeq : JobOf(i)' = JobOf(i)
  BY <1>1, <1>2, NamesStay DEF Seen, OInv
<1>4. \A i \in 1 .. Served : i \in 1 .. requestSeq
  BY <1>2
<1>5. \A i \in 1 .. Served : /\ JobOf(i)' = JobOf(i)
                             /\ JobOf(i) \in Clients /\ Id(JobOf(i)) = i
  BY <1>3, <1>4, JobsById DEF Seen, OInv
<1>6. \A i \in 1 .. Served : JobOf(i) \in Clients \ {workerJob}
  BY <1>1, <1>2, <1>5
<1>7. ASSUME NEW i \in 1 .. Served + 1, i = Served + 1 PROVE JobOf(i)' = workerJob
  <2>1. i \in 1 .. requestSeq
    BY <1>1, <1>2, <1>7
  <2>2. JobOf(i) = workerJob
    BY <1>1, <1>7, <2>1, JobsById DEF Seen, OInv
  <2> QED  BY <1>3, <2>1, <2>2
<1>8. /\ PublishedCount = Served /\ PublishedCount' = Served + 1
      /\ ReleasedCount = Served /\ ReleasedCount' = Served
  BY <1>1 DEF Seen
<1>9. /\ Len(OutcomesUpTo(PublishedCount)) = Served
      /\ OutcomesUpTo(PublishedCount) \in Seq(Phases) /\ Len(Ordered) = requestSeq
  BY <1>2, <1>8, OrderedIsSeq
<1>10. OutcomesUpTo(PublishedCount)' = Append(OutcomesUpTo(PublishedCount), outcome)
  <2>1. Append(OutcomesUpTo(PublishedCount), outcome)
          = [i \in 1 .. Served + 1 |->
               IF i \in 1 .. Served THEN OutcomesUpTo(PublishedCount)[i] ELSE outcome]
    <3>1. OutcomesUpTo(PublishedCount) \in Seq(Phases) /\ outcome \in Phases
      BY <1>9 DEF Phases
    <3> HIDE DEF OutcomesUpTo
    <3> QED  BY <1>9, <3>1, AppendedSeq
  <2>2. OutcomesUpTo(PublishedCount)' = [i \in 1 .. Served + 1 |-> protocol'[JobOf(i)'].phase]
    BY <1>8 DEF OutcomesUpTo
  <2>3. ASSUME NEW i \in 1 .. Served
        PROVE  protocol'[JobOf(i)'].phase = OutcomesUpTo(PublishedCount)[i]
    BY <1>1, <1>5, <1>6, <1>8 DEF OutcomesUpTo
  <2>4. ASSUME NEW i \in 1 .. Served + 1
        PROVE  protocol'[JobOf(i)'].phase
                 = IF i \in 1 .. Served THEN OutcomesUpTo(PublishedCount)[i] ELSE outcome
    <3>1. CASE i \in 1 .. Served
      BY <2>3, <3>1
    <3>2. CASE i = Served + 1
      BY <1>1, <1>2, <1>7, <3>2
    <3> QED  BY <1>2, <3>1, <3>2
  <2> QED  BY <2>1, <2>2, <2>4
<1>11. Ordered' = Ordered /\ Closed' = Closed
  BY <1>1, <1>3 DEF Ordered, Closed
<1> QED  BY <1>1, <1>8, <1>9, <1>10, <1>11, PublishOf

(* Setting done releases that client. *)
LEMMA SignalServes ==
  ASSUME Seen, Seen', SignalDone
  PROVE  Outcomes!Release
<1>1. /\ Served' = Served + 1 /\ Answered = Served + 1 /\ Answered' = Answered
      /\ UNCHANGED <<requestSeq, protocol, mainPc>>
  BY SignalOrder DEF Seen
<1>2. /\ \A i \in 1 .. requestSeq : JobOf(i)' = JobOf(i)
      /\ OutcomesUpTo(PublishedCount)' = OutcomesUpTo(PublishedCount)
  BY <1>1, SameOutcomes DEF Seen, Id
<1>3. Ordered' = Ordered /\ Closed' = Closed
  BY <1>1, <1>2 DEF Ordered, Closed
<1>4. Len(OutcomesUpTo(PublishedCount)) = Answered
  BY OrderedIsSeq DEF Seen
<1> QED  BY <1>1, <1>2, <1>3, <1>4, ReleaseOf DEF Seen

(* A step that moves no request, or hands the oldest one to the worker. *)
LEMMA RestServes ==
  ASSUME Seen, Seen', Dequeue \/ (Quiet /\ (CountClients \/ Closed' = Closed))
  PROVE  Outcomes!Close \/ UNCHANGED Outcomes!vars
<1>1. /\ Served' = Served /\ Answered' = Answered /\ requestSeq' = requestSeq
      /\ \A c \in Clients : Id(c)' = Id(c)
      /\ \A c \in Clients : protocol[c].terminal => protocol'[c].phase = protocol[c].phase
  <2>1. CASE Dequeue
    BY <2>1, DequeueOrder DEF Seen, Id
  <2>2. CASE Quiet
    <3>1. Served' = Served
      BY <2>2 DEF Quiet, Served, Running
    <3>2. Answered' = Answered
      BY <2>2, <3>1 DEF Quiet, Answered, Current
    <3> QED  BY <2>2, <3>1, <3>2 DEF Quiet, Id
  <2> QED  BY <2>1, <2>2
<1>2. /\ \A i \in 1 .. requestSeq : JobOf(i)' = JobOf(i)
      /\ OutcomesUpTo(PublishedCount)' = OutcomesUpTo(PublishedCount)
  BY <1>1, SameOutcomes DEF Seen
<1>3. Ordered' = Ordered /\ ReleasedCount' = ReleasedCount
  BY <1>1, <1>2 DEF Ordered, Seen
<1>4. CASE Closed' = Closed
  BY <1>2, <1>3, <1>4, StutterOf
<1>5. CASE CountClients /\ Closed' # Closed
  <2>1. ~Closed /\ Closed' = TRUE /\ mainPc = "countClients"
    BY <1>5 DEF CountClients, MainGoes, Closed
  <2>2. queue = <<>> /\ workerJob \notin Clients
    BY <2>1 DEF Seen, IInv, ShutdownOrder, WorkerHoldsJob
  <2>3. Served = requestSeq
    BY <2>2 DEF Served, Running, Seen
  <2>4. ReleasedCount = Len(Ordered)
    BY <2>3, OrderedIsSeq DEF Seen
  <2> QED  BY <1>2, <1>3, <2>1, <2>4, CloseOf
<1>6. CASE Dequeue
  BY <1>4, <1>6 DEF Dequeue, mainVars, Closed
<1> QED  BY <1>4, <1>5, <1>6

(* Every step is an abstract step or a stutter. *)
LEMMA StepServes ==
  ASSUME Seen, Seen', [Next]_vars
  PROVE  [Outcomes!Next]_(Outcomes!vars)
<1>1. CASE Dequeue \/ (Quiet /\ (CountClients \/ Closed' = Closed))
  BY <1>1, RestServes DEF Outcomes!Next
<1>2. CASE SignalDone
  BY <1>2, SignalServes DEF Outcomes!Next
<1>3. CASE \E c \in Clients : Enqueue(c)
  BY <1>3, EnqueueServes DEF Outcomes!Next
<1>4. CASE \E outcome \in Terminals : Answers(outcome)
  BY <1>4, AnswerServes DEF Outcomes!Next
<1> QED  BY <1>1, <1>2, <1>3, <1>4, StepKinds DEF Seen

(* The initial state is an abstract one. *)
LEMMA InitServes == Init /\ Seen => Outcomes!Init
<1> SUFFICES ASSUME Init, Seen PROVE Outcomes!Init
  OBVIOUS
<1>1. requestSeq = 0 /\ mainPc = "loop"
  BY DEF Init
<1>2. ReleasedCount = 0 /\ PublishedCount = 0
  BY <1>1 DEF Seen
<1>3. Ordered = <<>> /\ OutcomesUpTo(PublishedCount) = <<>> /\ Closed = FALSE
  BY <1>1, <1>2 DEF Ordered, OutcomesUpTo, Closed
<1> QED  BY <1>2, <1>3 DEF Outcomes!Init, Ordered, OutcomesUpTo, Closed

(* For any finite number of connections, the threads, the queue and the    *)
(* condition variables serve requests in the order they were accepted,     *)
(* give each one outcome before its client is released, one client at a    *)
(* time, and main closes only when none is owed (enqueue, dequeue,         *)
(* server_protocol_finish, worker_main).                                   *)
THEOREM RequestsServedInOrder == Spec => ServesInOrder
<1>1. Init => Seen
  BY InitInvariant, InitOrder, OrderIsSeen
<1>2. IInv /\ OInv /\ [Next]_vars => OInv'
  BY StepKeepsOrder
<1>3. IInv /\ OInv => Seen
  BY OrderIsSeen
<1>4. Seen /\ Seen' /\ [Next]_vars => [Outcomes!Next]_(Outcomes!vars)
  BY StepServes
<1>5. Init => OInv
  BY InitOrder
<1>6. Init => Outcomes!Init
  BY <1>1, InitServes
<1> QED  BY <1>2, <1>3, <1>4, <1>5, <1>6, Invariance, PTL
         DEF Spec, ServesInOrder, Outcomes!Spec

-----------------------------------------------------------------------------
(* What a request continues.  The safety properties do not mention the     *)
(* bindings kept while a job runs, nor the session then; Inv does.         *)

(* While a request is in decode every binding left is of its conversation, *)
(* or of its own API and about to go; the prefix it was computed on is not *)
(* empty and no answer is awaited.                                         *)
JobOwnsBindings ==
  job # NoJob =>
    /\ job.conv \in Convs
    /\ session.pos > 0
    /\ answerable = Nobody
    /\ \A s \in Slots : bind[s].valid /\ s # ApiOf[job.conv] => bind[s].conv = job.conv

Checkpoint == [conv : Owners, pos : Positions, valid : BOOLEAN]

(* What is valid has tokens, and what has tokens has an owner. *)
Proper(at) ==
  /\ at \in Checkpoint
  /\ at.valid => at.pos > 0
  /\ at.pos > 0 => at.conv # Nobody

Owned ==
  /\ Proper(session)
  /\ \A s \in Slots : bind[s].valid => bind[s].conv \in Convs

(* The parts that hold until an interrupted prefill aliases a binding. *)
Truthful ==
  /\ \A s \in Slots :
       bind[s].valid /\ bind[s].pos = session.pos /\ session.pos > 0
         => session.conv \in Past(bind[s].conv)
  /\ \A f \in disk : f.conv \in Past(f.key)
  /\ job # NoJob => session.conv \in Past(job.conv)

Answerable ==
  answerable # Nobody =>
    /\ ApiOf[answerable] \in {"responses", "anthropic"}
    /\ HasCallId(ApiOf[answerable], answerable)
    /\ AtFrontier(ApiOf[answerable])
    /\ session.pos > 0

Inv ==
  /\ LiveTypeOK /\ JobOwnsBindings /\ Owned
  /\ (~aliased => Truthful)
  /\ TailServedLive /\ Answerable

-----------------------------------------------------------------------------
(* The bases of a prefill. *)

File == [key : Convs, pos : Positions \ {0}, conv : Convs \cup {Mixed}]
Requests == [conv : Convs, kind : Kinds, calls : Convs \cup {Nobody}]

(* Pasts are made of conversations.                                        *)
LEMMA PastIsOwned ==
  ASSUME NEW c \in Convs
  PROVE  c \in Past(c) /\ Past(c) \subseteq Convs
BY DEF Past

(* What is stored is the checkpoint under the key. *)
LEMMA StoredFiles ==
  ASSUME NEW d, NEW key, NEW at, NEW e \in Stored(d, key, at), NEW f \in e
  PROVE  \/ f \in d
         \/ f = [key |-> key, pos |-> at.pos, conv |-> at.conv] /\ at.valid /\ key \in Convs
BY DEF Stored

LEMMA LoadedFiles ==
  ASSUME NEW d, NEW r, NEW b \in Loaded(d, r)
  PROVE  /\ b.source = "disk"
         /\ b.disk \subseteq d
         /\ \E f \in d : /\ f.key = r.conv
                         /\ b.at = [conv |-> f.conv, pos |-> f.pos, valid |-> TRUE]
<1>1. PICK f \in {g \in d : g.key = r.conv} : \E kept \in {d, d \ {f}} :
        b = [source |-> "disk", disk |-> kept,
             at |-> [conv |-> f.conv, pos |-> f.pos, valid |-> TRUE]]
  BY DEF Loaded
<1>2. PICK kept \in {d, d \ {f}} :
        b = [source |-> "disk", disk |-> kept,
             at |-> [conv |-> f.conv, pos |-> f.pos, valid |-> TRUE]]
  BY <1>1
<1>3. b.source = "disk" /\ b.disk = kept
  BY <1>2
<1>4. b.at = [conv |-> f.conv, pos |-> f.pos, valid |-> TRUE]
  BY <1>2
<1> QED BY <1>1, <1>3, <1>4

LEMMA BrokenFiles ==
  ASSUME NEW d, NEW r, NEW b \in Broken(d, r)
  PROVE  b.source = "cold" /\ b.at = Empty /\ b.disk \subseteq d
<1>1. PICK f \in {g \in d : g.key = r.conv} : \E kept \in {d, d \ {f}} :
        b = [source |-> "cold", at |-> Empty, disk |-> kept]
  BY DEF Broken
<1>2. PICK kept \in {d, d \ {f}} :
        b = [source |-> "cold", at |-> Empty, disk |-> kept]
  BY <1>1
<1>3. b.source = "cold" /\ b.at = Empty /\ b.disk = kept
  BY <1>2
<1> QED BY <1>3

LEMMA EmptyIsProper == Proper(Empty) /\ Empty.pos = 0
BY BoundsAreNat DEF Empty, Checkpoint, Proper, Positions, Owners

LEMMA BaseCases ==
  ASSUME NEW r, NEW b \in Bases(r)
  PROVE  \/ /\ b.source \in Sources(r)
            /\ b.at = session /\ b.disk = disk
         \/ /\ Misses(r)
            /\ \E d \in Stored(disk, CurrentKey, session) :
                 \/ b = [source |-> "cold", at |-> session, disk |-> d]
                 \/ b \in Loaded(d, r)
                 \/ b \in Broken(d, r)
BY DEF Bases

LEMMA SourceCases ==
  ASSUME LiveTypeOK, NEW r \in Requests, NEW s \in Sources(r)
  PROVE  \/ /\ s \in {"responses", "anthropic"} /\ s = ApiOf[r.conv]
            /\ bind[s].valid /\ bind[s].pos = session.pos /\ session.pos > 0
         \/ /\ s = "memory" /\ r.kind # "tail"
            /\ session.conv = r.conv /\ session.pos > 0
         \/ /\ s = "thinking" /\ r.kind # "tail"
            /\ bind[s].valid /\ bind[s].conv = r.conv
            /\ bind[s].pos = session.pos /\ session.pos > 0
<1>1. CASE LiveSlots(r) # {}
  BY <1>1 DEF Sources, LiveSlots, CallIds, VisiblePrefix, AtFrontier, HasCallId
<1>2. CASE LiveSlots(r) = {}
  BY <1>2 DEF Sources, Replays, Thinking, VisiblePrefix, AtFrontier
<1> QED BY <1>1, <1>2

(* The live checkpoint is filed under a conversation, and truthfully. *)
LEMMA KeyOfCurrent ==
  ASSUME LiveTypeOK, Owned, session.valid, CurrentKey \in Convs
  PROVE  Truthful => session.conv \in Past(CurrentKey)
<1>1. session.pos > 0
  BY DEF Owned, Proper
<1>2. ASSUME NEW slot \in Slots, AtFrontier(slot), CurrentKey = TextOf(slot)
      PROVE  Truthful => session.conv \in Past(CurrentKey)
  <2>1. CurrentKey = bind[slot].conv
    BY <1>2, NotConvs DEF TextOf
  <2> QED BY <1>1, <1>2, <2>1 DEF AtFrontier, Truthful
<1>3. CASE AtFrontier("responses")
  BY <1>2, <1>3 DEF CurrentKey, Slots
<1>4. CASE ~AtFrontier("responses") /\ AtFrontier("thinking")
  BY <1>2, <1>4 DEF CurrentKey, Slots
<1>5. CASE ~AtFrontier("responses") /\ ~AtFrontier("thinking")
  BY <1>5, PastIsOwned DEF CurrentKey
<1> QED BY <1>3, <1>4, <1>5

(* Storing a checkpoint under a conversation keeps the disk's type, and    *)
(* under one it may have been continued as, its truth.                     *)
LEMMA StoreKeepsDisk ==
  ASSUME NEW d \in SUBSET File, NEW at \in Checkpoint, NEW key,
         Proper(at), at.valid => at.conv # Nobody,
         NEW e \in Stored(d, key, at)
  PROVE  /\ e \subseteq File
         /\ (/\ \A f \in d : f.conv \in Past(f.key)
             /\ at.valid /\ key \in Convs => at.conv \in Past(key))
            => \A f \in e : f.conv \in Past(f.key)
<1>1. ASSUME NEW f \in e PROVE f \in File
  BY <1>1, StoredFiles DEF File, Checkpoint, Owners, Proper, Positions
<1>2. ASSUME NEW f \in e, \A g \in d : g.conv \in Past(g.key),
             at.valid /\ key \in Convs => at.conv \in Past(key)
      PROVE  f.conv \in Past(f.key)
  <2>1. CASE f \in d
    BY <1>2, <2>1
  <2>2. CASE /\ f = [key |-> key, pos |-> at.pos, conv |-> at.conv]
             /\ at.valid /\ key \in Convs
    BY <1>2, <2>2
  <2> QED BY <1>2, <2>1, <2>2, StoredFiles
<1> QED BY <1>1, <1>2

LEMMA BaseFacts ==
  ASSUME LiveTypeOK, Owned, NEW r \in Requests, NEW b \in Bases(r)
  PROVE  /\ Proper(b.at)
         /\ b.source \in Slots \cup {"memory", "disk", "cold"}
         /\ b.disk \subseteq File
         /\ b.source # "cold" /\ b.source # "disk"
              => b.at = session /\ session.pos > 0
         /\ Continued(b, r) \in Convs
         /\ b.source \in Slots \ {ApiOf[r.conv]} => Continued(b, r) = r.conv
         /\ r.kind = "tail" => b.source \in {"responses", "anthropic"}
         /\ Truthful => /\ \A f \in b.disk : f.conv \in Past(f.key)
                        /\ b.source # "cold" => b.at.conv \in Past(Continued(b, r))
<1>t. session \in Checkpoint /\ disk \subseteq File
  BY DEF LiveTypeOK, Checkpoint, File
<1>1. CASE b.source \in Sources(r) /\ b.at = session /\ b.disk = disk
  <2>1. /\ b.source \in Slots \cup {"memory"} /\ session.pos > 0
        /\ b.source \in Slots => bind[b.source].valid /\ bind[b.source].pos = session.pos
        /\ b.source \in Slots \ {ApiOf[r.conv]} => bind[b.source].conv = r.conv
        /\ b.source = "memory" => session.conv = r.conv
        /\ r.kind = "tail" => b.source \in {"responses", "anthropic"}
    BY <1>1, SourceCases DEF Slots
  <2>2. r.conv \in Convs
    BY DEF Requests
  <2>3. CASE b.source \in Slots
    <3>1. Continued(b, r) = bind[b.source].conv
      BY <2>3 DEF Continued
    <3>2. Continued(b, r) \in Convs
      BY <2>1, <2>3, <3>1 DEF Owned
    <3>3. Truthful => session.conv \in Past(Continued(b, r))
      BY <2>1, <2>3, <3>1 DEF Truthful
    <3> QED BY <1>t, <1>1, <2>1, <3>1, <3>2, <3>3 DEF Truthful, Slots, Owned
  <2>4. CASE b.source = "memory"
    <3>1. Continued(b, r) = r.conv
      BY <2>4 DEF Continued, Slots
    <3>2. session.conv \in Past(Continued(b, r))
      BY <2>1, <2>2, <2>4, <3>1, PastIsOwned
    <3> QED BY <1>t, <1>1, <2>1, <2>2, <2>4, <3>1, <3>2 DEF Truthful, Slots, Owned
  <2> QED BY <2>1, <2>3, <2>4
<1>2. ASSUME Misses(r), NEW d \in Stored(disk, CurrentKey, session),
             \/ b = [source |-> "cold", at |-> session, disk |-> d]
             \/ b \in Loaded(d, r)
             \/ b \in Broken(d, r)
      PROVE  /\ Proper(b.at)
             /\ b.source \in {"disk", "cold"}
             /\ b.disk \subseteq File
             /\ r.kind # "tail"
             /\ Truthful => /\ \A f \in b.disk : f.conv \in Past(f.key)
                            /\ b.source # "cold" => b.at.conv \in Past(r.conv)
  <2>1. r.kind # "tail"
    BY <1>2 DEF Misses, Replays
  <2>2. d \subseteq File /\ (Truthful => \A f \in d : f.conv \in Past(f.key))
    <3>1. session.valid => session.conv # Nobody
      BY DEF Owned, Proper
    <3>2. Truthful /\ session.valid /\ CurrentKey \in Convs
            => session.conv \in Past(CurrentKey)
      BY KeyOfCurrent
    <3> DEFINE key == CurrentKey
               at == session
    <3>3. /\ disk \in SUBSET File /\ at \in Checkpoint /\ Proper(at)
          /\ at.valid => at.conv # Nobody
          /\ Truthful /\ at.valid /\ key \in Convs => at.conv \in Past(key)
          /\ d \in Stored(disk, key, at)
      BY <1>t, <1>2, <3>1, <3>2 DEF Owned
    <3>4. Truthful => \A f \in disk : f.conv \in Past(f.key)
      BY DEF Truthful
    <3> HIDE DEF key, at
    <3> QED BY <3>3, <3>4, StoreKeepsDisk
  <2>3. CASE b = [source |-> "cold", at |-> session, disk |-> d]
    BY <1>t, <2>1, <2>2, <2>3 DEF Owned
  <2>4. CASE b \in Loaded(d, r)
    <3>1. PICK f \in d : /\ f.key = r.conv
                         /\ b.at = [conv |-> f.conv, pos |-> f.pos, valid |-> TRUE]
      BY <2>4, LoadedFiles
    <3>2. b.source = "disk" /\ b.disk \subseteq d
      BY <2>4, LoadedFiles
    <3> QED
      BY <2>1, <2>2, <3>1, <3>2, NotConvs
      DEF File, Checkpoint, Owners, Proper, Positions
  <2>5. CASE b \in Broken(d, r)
    <3>1. b.source = "cold" /\ b.at = Empty /\ b.disk \subseteq d
      BY <2>5, BrokenFiles
    <3> QED BY <2>1, <2>2, <3>1, EmptyIsProper
  <2> QED BY <1>2, <2>3, <2>4, <2>5
<1> QED
  <2>1. CASE b.source \in Sources(r) /\ b.at = session /\ b.disk = disk
    BY <1>1, <2>1
  <2>2. CASE /\ Misses(r)
             /\ \E d \in Stored(disk, CurrentKey, session) :
                  \/ b = [source |-> "cold", at |-> session, disk |-> d]
                  \/ b \in Loaded(d, r)
                  \/ b \in Broken(d, r)
    <3>1. /\ Proper(b.at)
          /\ b.source \in {"disk", "cold"}
          /\ b.disk \subseteq File
          /\ r.kind # "tail"
          /\ Truthful => /\ \A f \in b.disk : f.conv \in Past(f.key)
                         /\ b.source # "cold" => b.at.conv \in Past(r.conv)
      BY <1>2, <2>2
    <3>2. Continued(b, r) = r.conv /\ r.conv \in Convs
      BY <3>1 DEF Continued, Slots, Requests
    <3> QED BY <3>1, <3>2 DEF Slots
  <2> QED BY <2>1, <2>2, BaseCases

(* The checkpoint a prefill reaches. *)
LEMMA AtFacts ==
  ASSUME NEW r, r.conv \in Convs, NEW b, Proper(b.at), Continued(b, r) \in Convs,
         NEW n \in Positions, NEW v \in BOOLEAN
  PROVE  /\ Proper(At(b, r, n, v))
         /\ At(b, r, n, v).pos = n
         /\ n > 0 => At(b, r, n, v).valid = v
         /\ n > 0 /\ b.source = "cold" => At(b, r, n, v).conv = r.conv
         /\ n > 0 /\ b.source # "cold" /\ b.at.conv \in Past(Continued(b, r))
              => At(b, r, n, v).conv = b.at.conv
<1>c. Past(Continued(b, r)) \subseteq Convs
  BY PastIsOwned
<1>1. Content(b, r, n) \in Owners
  BY DEF Content, Owners, Checkpoint, Proper
<1>2. n > 0 => Content(b, r, n) # Nobody
  <2> HIDE DEF Continued
  <2> QED BY <1>c, NotConvs DEF Content, Checkpoint, Positions, Proper
<1>3. /\ n > 0 /\ b.source = "cold" => Content(b, r, n) = r.conv
      /\ n > 0 /\ b.source # "cold" /\ b.at.conv \in Past(Continued(b, r))
           => Content(b, r, n) = b.at.conv
  BY DEF Content, Positions
<1> QED BY <1>1, <1>2, <1>3 DEF At, Checkpoint, Proper

LEMMA ReachablePositions ==
  ASSUME NEW b, Proper(b.at), NEW n \in Reachable(b)
  PROVE  n \in Positions
BY BoundsAreNat DEF Reachable, Checkpoint, Positions, Proper

(* The request at the head of the queue. *)
LEMMA HeadRequest ==
  ASSUME LiveTypeOK, NextRequest
  PROVE  /\ Head(parsed) \in Requests
         /\ parsed' \in Seq(Requests)
         /\ job = NoJob
<1>1. parsed \in Seq(Requests)
  BY DEF LiveTypeOK, Requests
<1> QED BY <1>1 DEF NextRequest

-----------------------------------------------------------------------------
(* Inv is inductive. *)

LEMMA InitInv == LiveInit => Inv
<1> SUFFICES ASSUME LiveInit PROVE Inv
  OBVIOUS
<1>1. Empty \in Checkpoint /\ NoBinding \in Binds
  BY BoundsAreNat DEF Empty, Checkpoint, Owners, Positions, NoBinding, Binds
<1>2. LiveTypeOK
  <2>1. session \in Checkpoint /\ bind \in [Slots -> Binds]
    BY <1>1 DEF LiveInit
  <2>2. parsed \in Seq(Requests)
    BY DEF LiveInit
  <2> QED BY <2>1, <2>2 DEF LiveInit, LiveTypeOK, Checkpoint, Requests
<1>3. Owned
  BY <1>1 DEF LiveInit, Owned, Proper, Empty, NoBinding
<1>4. JobOwnsBindings /\ TailServedLive /\ Answerable
  BY DEF LiveInit, JobOwnsBindings, TailServedLive, Answerable, NoJob
<1>5. Truthful
  BY DEF LiveInit, Truthful, NoBinding
<1> QED BY <1>2, <1>3, <1>4, <1>5 DEF Inv

LEMMA ParseKeeps ==
  ASSUME Inv, NEW c \in Convs, NEW kind \in Kinds, Parse(c, kind)
  PROVE  Inv'
<1>1. parsed' \in Seq(Requests)
  <2>1. PICK calls \in CallsOf(c, kind) :
          parsed' = Append(parsed, [conv |-> c, kind |-> kind, calls |-> calls])
    BY DEF Parse
  <2>2. calls \in Convs \cup {Nobody}
    BY DEF CallsOf, Kinds
  <2> QED BY <2>1, <2>2 DEF Inv, LiveTypeOK, Requests
<1> QED
  BY <1>1
  DEF Inv, Parse, LiveTypeOK, Requests, Past, JobOwnsBindings, Owned, Truthful, TailServedLive,
      Answerable, HasCallId, AtFrontier, Proper, Checkpoint

LEMMA RefuseKeeps ==
  ASSUME Inv, Refuse
  PROVE  Inv'
BY HeadRequest
DEF Inv, Refuse, Past, Requests, NextRequest, LiveTypeOK, JobOwnsBindings, Owned, Truthful,
    TailServedLive, Answerable, HasCallId, AtFrontier, Proper, Checkpoint

LEMMA StreamFailsKeeps ==
  ASSUME Inv, StreamFails
  PROVE  Inv'
BY DEF Inv, StreamFails, Past, LiveTypeOK, JobOwnsBindings, Owned, Truthful,
    TailServedLive, Answerable, HasCallId, AtFrontier, NoJob, Slots, Proper, Checkpoint

LEMMA StopsKeeps ==
  ASSUME Inv, PrefillStops
  PROVE  Inv'
<1> DEFINE r == Head(parsed)
<1>1. /\ r \in Requests /\ parsed' \in Seq(Requests) /\ job = NoJob
      /\ LiveTypeOK /\ Owned
  BY HeadRequest DEF PrefillStops, Inv
<1>2. PICK b \in Bases(r) :
       \/ session' \in Interrupted(b, r) /\ disk' = b.disk
       \/ /\ b.source # "disk"
          /\ session' \in Failed(b, r) /\ disk' = b.disk
       \/ /\ b.source = "disk"
          /\ session' = Empty
          /\ disk' = {f \in b.disk : f.key # r.conv \/ f.pos # b.at.pos}
  BY DEF PrefillStops
<1> HIDE DEF r
<1>3. /\ Proper(b.at) /\ b.disk \subseteq File
      /\ r.conv \in Convs /\ Continued(b, r) \in Convs
      /\ Truthful => \A f \in b.disk : f.conv \in Past(f.key)
  BY <1>1, BaseFacts DEF Requests
<1>4. Proper(session)'
  <2>1. CASE session' = Empty
    BY <2>1, BoundsAreNat DEF Empty, Checkpoint, Owners, Positions, Proper
  <2>2. CASE session' = b.at
    BY <1>3, <2>2 DEF Proper, Checkpoint
  <2>3. ASSUME NEW n \in Reachable(b), NEW v \in BOOLEAN, session' = At(b, r, n, v)
        PROVE  Proper(session)'
    <3>1. Proper(At(b, r, n, v))
      BY <1>1, <1>3, AtFacts, ReachablePositions
    <3> QED BY <2>3, <3>1 DEF Proper, Checkpoint
  <2> QED BY <1>2, <2>1, <2>2, <2>3 DEF Interrupted, Failed
<1>5. disk' \subseteq b.disk
  BY <1>2
<1>6. /\ bind' = bind /\ job' = job
      /\ aliased' = (aliased \/ Aliases(session'))
      /\ answerable' = IF session' = session THEN answerable ELSE Nobody
      /\ edits' = edits /\ \A c : Past(c)' = Past(c)
  BY DEF PrefillStops, Touched, Past
<1>7. LiveTypeOK'
  BY <1>1, <1>3, <1>4, <1>5, <1>6
  DEF LiveTypeOK, Proper, Checkpoint, File, Requests
<1>8. ~aliased' => Truthful'
  BY <1>1, <1>3, <1>4, <1>5, <1>6 DEF Inv, Truthful, Aliases
<1>9. JobOwnsBindings' /\ TailServedLive' /\ Owned'
  BY <1>1, <1>4, <1>6 DEF Inv, JobOwnsBindings, TailServedLive, Owned
<1>10. Answerable'
  BY <1>6 DEF Inv, Answerable, HasCallId, AtFrontier
<1> QED BY <1>7, <1>8, <1>9, <1>10 DEF Inv

LEMMA DoneKeeps ==
  ASSUME Inv, PrefillEnds
  PROVE  Inv'
<1> DEFINE r == Head(parsed)
           Then(c) == {c} \cup {d \in Convs : <<c, d>> \in edits'}
<1>1. /\ r \in Requests /\ parsed' \in Seq(Requests) /\ job = NoJob
      /\ LiveTypeOK /\ Owned
  BY HeadRequest DEF PrefillEnds, Inv
<1>b. PICK b \in Bases(r) : \E n \in Targets(b) :
       /\ session' = At(b, r, n, TRUE)
       /\ bind' = Unused(b.source)
       /\ disk' \in Stored(b.disk, Content(b, r, n), session')
       /\ job' = [conv |-> r.conv, kind |-> r.kind, source |-> b.source]
       /\ edits' = edits \cup Edited(b, r)
  BY DEF PrefillEnds
<1>2. PICK n \in Targets(b) :
       /\ session' = At(b, r, n, TRUE)
       /\ bind' = Unused(b.source)
       /\ disk' \in Stored(b.disk, Content(b, r, n), session')
       /\ job' = [conv |-> r.conv, kind |-> r.kind, source |-> b.source]
       /\ edits' = edits \cup Edited(b, r)
  BY <1>b
<1>3. answerable' = Nobody /\ aliased' = aliased
  BY DEF PrefillEnds
<1> HIDE DEF r
<1>4. /\ Proper(b.at) /\ b.disk \subseteq File
      /\ b.source \in Slots \cup {"memory", "disk", "cold"}
      /\ r.conv \in Convs /\ Continued(b, r) \in Convs
      /\ b.source \in Slots \ {ApiOf[r.conv]} => Continued(b, r) = r.conv
      /\ r.kind = "tail" => b.source \in {"responses", "anthropic"}
      /\ Truthful => /\ \A f \in b.disk : f.conv \in Past(f.key)
                     /\ b.source # "cold" => b.at.conv \in Past(Continued(b, r))
  BY <1>1, BaseFacts DEF Requests
<1>5. n \in Positions /\ n > 0
  BY <1>4, ReachablePositions DEF Targets
<1>p. \A c : Past(c) \subseteq Then(c)
  BY <1>2 DEF Past
<1>6. /\ Proper(session)' /\ session'.pos = n
      /\ b.source = "cold" => session'.conv = r.conv
      /\ Truthful /\ b.source # "cold" => session'.conv = b.at.conv
  <2> DEFINE v == TRUE
  <2>1. v \in BOOLEAN /\ session' = At(b, r, n, v)
    BY <1>2
  <2> HIDE DEF v
  <2>2. /\ Proper(At(b, r, n, v)) /\ At(b, r, n, v).pos = n
        /\ b.source = "cold" => At(b, r, n, v).conv = r.conv
        /\ b.source # "cold" /\ b.at.conv \in Past(Continued(b, r))
             => At(b, r, n, v).conv = b.at.conv
    BY <1>4, <1>5, <2>1, AtFacts
  <2>3. Proper(session)'
    BY <2>1, <2>2 DEF Proper, Checkpoint
  <2> QED BY <1>4, <2>1, <2>2, <2>3
<1>o. Truthful => session'.conv \in Past(Continued(b, r)) \cup {r.conv}
  BY <1>4, <1>6
<1>w. Truthful => session'.conv \in Then(r.conv)
  <2>1. CASE Continued(b, r) = r.conv
    BY <1>4, <1>o, <1>p, <2>1, PastIsOwned
  <2>2. CASE Continued(b, r) # r.conv
    <3>1. Past(Continued(b, r)) \ {r.conv} \subseteq Then(r.conv)
      BY <1>2, <1>4, <2>2, PastIsOwned DEF Edited, Past
    <3>2. r.conv \in Then(r.conv)
      BY DEF Past
    <3> QED BY <1>o, <3>1, <3>2
  <2> QED BY <2>1, <2>2
<1>7. session'.conv = Content(b, r, n)
  BY <1>2 DEF At
<1>8. /\ disk' \subseteq File
      /\ Truthful => \A f \in disk' : f.conv \in Then(f.key)
  <2>1. session'.conv \in Convs \cup {Mixed} /\ session' \in Checkpoint
    BY <1>5, <1>6 DEF Proper, Checkpoint, Owners
  <2>2. Proper(session')
    BY <1>6 DEF Proper, Checkpoint
  <2>3. b.disk \in SUBSET File
    BY <1>4
  <2> DEFINE at == session'
             key == Content(b, r, n)
  <2>4. /\ at \in Checkpoint /\ Proper(at) /\ key = at.conv
        /\ at.conv # Nobody
        /\ disk' \in Stored(b.disk, key, at)
    BY <1>2, <1>7, <2>1, <2>2, NotConvs
  <2> HIDE DEF at, key
  <2>5. at.valid /\ key \in Convs => at.conv \in Past(key)
    BY <2>4, PastIsOwned
  <2>6. /\ disk' \subseteq File
        /\ Truthful => \A f \in disk' : f.conv \in Past(f.key)
    BY <1>4, <2>3, <2>4, <2>5, StoreKeepsDisk
  <2> QED BY <1>p, <2>6
<1>9. \A s \in Slots :
        bind'[s].valid => bind'[s].conv = Continued(b, r) /\ s = b.source
  BY <1>2, <1>4 DEF Unused, NoBinding, Continued
<1>10. bind' \in [Slots -> Binds]
  BY <1>1, <1>2, BoundsAreNat DEF Unused, NoBinding, LiveTypeOK, Binds, Positions
<1>e. edits' \subseteq Convs \X Convs
  <2>1. Past(Continued(b, r)) \subseteq Convs
    BY <1>4, PastIsOwned
  <2>2. Edited(b, r) \subseteq Convs \X Convs
    BY <1>4, <2>1 DEF Edited
  <2> QED BY <1>1, <1>2, <2>2 DEF LiveTypeOK
<1>11. LiveTypeOK'
  BY <1>1, <1>2, <1>3, <1>4, <1>6, <1>8, <1>10, <1>e
  DEF LiveTypeOK, Proper, Checkpoint, File, Requests
<1>12. ~aliased' => Truthful'
  <2> SUFFICES ASSUME ~aliased' PROVE Truthful'
    OBVIOUS
  <2>1. Truthful
    BY <1>3 DEF Inv
  <2>2. ASSUME NEW s \in Slots, bind'[s].valid
        PROVE  session'.conv \in Then(bind'[s].conv)
    <3>1. bind'[s].conv = Continued(b, r) /\ b.source \in Slots
      BY <1>9, <2>2
    <3>2. session'.conv \in Past(Continued(b, r))
      BY <1>4, <1>6, <2>1, <3>1 DEF Slots
    <3> QED BY <1>p, <3>1, <3>2
  <2>3. job' # NoJob => session'.conv \in Then(job'.conv)
    BY <1>2, <1>w, <2>1
  <2> QED BY <1>8, <2>1, <2>2, <2>3 DEF Truthful, Past
<1>13. JobOwnsBindings' /\ TailServedLive' /\ Owned' /\ Answerable'
  BY <1>1, <1>2, <1>3, <1>4, <1>5, <1>6, <1>9
  DEF JobOwnsBindings, TailServedLive, Owned, Answerable, Requests
<1> QED BY <1>11, <1>12, <1>13 DEF Inv

(* What the end of a turn leaves of the session and the bindings. *)
LEMMA EndingFacts ==
  ASSUME LiveTypeOK, Owned, JobOwnsBindings, job # NoJob, NEW e \in Endings
  PROVE  /\ Proper(e.at)
         /\ e.ok \in BOOLEAN /\ e.calls \in BOOLEAN
         /\ e.calls => e.ok /\ e.at.pos > 0
         /\ e.at.pos > 0 => e.at.conv = session.conv
<1>1. /\ session \in Checkpoint /\ session.pos > 0 /\ session.conv # Nobody
  BY DEF Owned, Proper, JobOwnsBindings
<1>2. ASSUME NEW n \in session.pos .. MaxPos, NEW v \in BOOLEAN
      PROVE  Proper(LeftAt(n, v)) /\ n > 0 /\ LeftAt(n, v).pos = n
             /\ LeftAt(n, v).conv = session.conv
  BY <1>1, <1>2, BoundsAreNat DEF LeftAt, Checkpoint, Proper, Positions
<1>3. session.valid \in BOOLEAN
  BY <1>1 DEF Checkpoint
<1>4. Proper(Empty) /\ Empty.pos = 0
  BY BoundsAreNat DEF Empty, Checkpoint, Proper, Positions, Owners
<1>5. CASE e \in {[ok |-> FALSE, calls |-> FALSE, at |-> LeftAt(n, v)] :
                  n \in session.pos .. MaxPos, v \in BOOLEAN}
  <2>1. PICK n \in session.pos .. MaxPos, v \in BOOLEAN :
          e = [ok |-> FALSE, calls |-> FALSE, at |-> LeftAt(n, v)]
    BY <1>5
  <2>2. e.ok = FALSE /\ e.calls = FALSE /\ e.at = LeftAt(n, v)
    BY <2>1
  <2> QED BY <1>2, <2>2
<1>6. CASE e = [ok |-> TRUE, calls |-> FALSE, at |-> Empty]
  <2>1. e.ok = TRUE /\ e.calls = FALSE /\ e.at = Empty
    BY <1>6
  <2>2. Proper(e.at)
    BY <1>4, <2>1
  <2>3. e.at.pos = 0
    BY <1>4, <2>1
  <2>4. ~(e.at.pos > 0)
    BY <2>3
  <2> QED BY <2>1, <2>2, <2>4
<1>7. CASE e \in {[ok |-> TRUE, calls |-> c, at |-> LeftAt(n, session.valid)] :
                  n \in session.pos .. MaxPos, c \in BOOLEAN}
  <2>1. PICK n \in session.pos .. MaxPos, c \in BOOLEAN :
          e = [ok |-> TRUE, calls |-> c, at |-> LeftAt(n, session.valid)]
    BY <1>7
  <2>2. e.ok = TRUE /\ e.calls = c /\ e.at = LeftAt(n, session.valid)
    BY <2>1
  <2>3. Proper(e.at) /\ e.at.conv = session.conv
    BY <1>2, <1>3, <2>2
  <2>4. e.at.pos > 0
    BY <1>2, <1>3, <2>2
  <2>5. e.ok \in BOOLEAN /\ e.calls \in BOOLEAN /\ e.ok
    BY <2>2
  <2> QED BY <2>3, <2>4, <2>5
<1> QED BY <1>5, <1>6, <1>7 DEF Endings

LEMMA RememberedFacts ==
  ASSUME Inv, job # NoJob, NEW e \in Endings, NEW thinking \in ThinkingAfter(e)
  PROVE  /\ Remembered(e, thinking) \in [Slots -> Binds]
         /\ \A s \in Slots : Remembered(e, thinking)[s].valid
                               => Remembered(e, thinking)[s].conv = job.conv
<1>1. /\ Proper(e.at) /\ e.calls \in BOOLEAN
      /\ job.conv \in Convs
      /\ bind \in [Slots -> Binds]
      /\ \A s \in Slots : bind[s].valid /\ s # ApiOf[job.conv]
                            => bind[s].conv = job.conv
      /\ ApiOf[job.conv] # "thinking"
  BY EndingFacts, ConvsHaveApis DEF Inv, LiveTypeOK, JobOwnsBindings, Apis
<1>2. /\ Binding(e) \in Binds /\ Binding(e).conv = job.conv
      /\ NoBinding \in Binds /\ ~NoBinding.valid
  BY <1>1, BoundsAreNat
  DEF Binding, NoBinding, Binds, Proper, Checkpoint, Positions
<1>3. thinking \in Binds /\ (thinking.valid => thinking.conv = job.conv)
  BY <1>1, <1>2 DEF ThinkingAfter, Slots
<1> QED BY <1>1, <1>2, <1>3 DEF Remembered

LEMMA EndTurnKeeps ==
  ASSUME Inv, EndTurn
  PROVE  Inv'
<1>1. job # NoJob /\ job' = NoJob /\ UNCHANGED <<disk, parsed, aliased, edits>>
  BY DEF EndTurn
<1>e. PICK e \in Endings : \E thinking \in ThinkingAfter(e) :
       /\ session' = e.at
       /\ bind' = Remembered(e, thinking)
       /\ answerable' = IF e.calls THEN Asked ELSE Nobody
  BY DEF EndTurn
<1>2. PICK thinking \in ThinkingAfter(e) :
       /\ session' = e.at
       /\ bind' = Remembered(e, thinking)
       /\ answerable' = IF e.calls THEN Asked ELSE Nobody
  BY <1>e
<1>3. /\ Proper(e.at) /\ e.calls \in BOOLEAN /\ e.ok \in BOOLEAN
      /\ e.calls => e.ok /\ e.at.pos > 0
      /\ e.at.pos > 0 => e.at.conv = session.conv
      /\ job.conv \in Convs
  BY <1>1, EndingFacts DEF Inv, JobOwnsBindings
<1>4. /\ bind' \in [Slots -> Binds]
      /\ \A s \in Slots : bind'[s].valid => bind'[s].conv = job.conv
  BY <1>1, <1>2, RememberedFacts
<1>5. Proper(session)'
  BY <1>2, <1>3 DEF Proper, Checkpoint
<1>6. LiveTypeOK'
  <2>1. answerable' \in Convs \cup {Nobody}
    BY <1>2, <1>3 DEF Asked
  <2> QED BY <1>1, <1>4, <1>5, <2>1 DEF Inv, LiveTypeOK, Proper, Checkpoint
<1>7. ~aliased' => Truthful'
  <2>1. Truthful /\ session'.pos > 0 => session'.conv \in Past(job.conv)
    BY <1>1, <1>2, <1>3 DEF Truthful
  <2> QED BY <1>1, <1>4, <2>1 DEF Inv, Truthful, Past
<1>8. Answerable'
  <2>1. CASE answerable' = Nobody
    BY <2>1 DEF Answerable
  <2>2. CASE answerable' # Nobody
    <3>1. e.calls /\ ApiOf[job.conv] \in Slots /\ answerable' = job.conv
      BY <1>2, <2>2 DEF Asked
    <3>2. ApiOf[job.conv] \in {"responses", "anthropic"}
      BY <1>3, <3>1, ConvsHaveApis DEF Apis, Slots
    <3>3. bind'[ApiOf[job.conv]] = Binding(e)
      BY <1>2, <1>3, <3>1, <3>2 DEF Remembered, Slots
    <3>4. bind'[ApiOf[job.conv]] =
            [valid |-> TRUE, conv |-> job.conv, pos |-> session'.pos,
             text |-> job.kind # "tail", calls |-> TRUE]
      BY <1>2, <1>3, <3>1, <3>3 DEF Binding
    <3> QED
      BY <1>2, <1>3, <3>1, <3>2, <3>4 DEF Answerable, HasCallId, AtFrontier
  <2> QED BY <2>1, <2>2
<1>9. JobOwnsBindings' /\ TailServedLive' /\ Owned'
  BY <1>1, <1>3, <1>4, <1>5 DEF JobOwnsBindings, TailServedLive, Owned, NoJob
<1> QED BY <1>6, <1>7, <1>8, <1>9 DEF Inv

LEMMA RewrittenKeeps ==
  ASSUME Inv, EndTurnRewritten
  PROVE  Inv'
<1>1. job # NoJob /\ job' = NoJob /\ UNCHANGED <<parsed, aliased, edits>>
  BY DEF EndTurnRewritten
<1>2. PICK e \in {x \in Endings : x.calls /\ x.at.valid} :
       /\ bind' = Remembered(e, NoBinding)
       /\ \/ session' = e.at /\ UNCHANGED disk
          \/ /\ e.at.conv = job.conv
             /\ \E b \in {[source |-> "memory", at |-> e.at, disk |-> disk]}
                         \cup Loaded(disk, job) :
                  /\ \E n \in b.at.pos .. MaxPos, v \in BOOLEAN :
                       session' = At(b, job, n, v)
                  /\ disk' = b.disk
          \/ /\ e.at.conv = job.conv
             /\ \E b \in Broken(disk, job) : session' = b.at /\ disk' = b.disk
       /\ answerable' = IF session' = e.at THEN Asked ELSE Nobody
  BY DEF EndTurnRewritten
<1>3. /\ job.conv \in Convs /\ session.pos > 0
      /\ disk \in SUBSET File /\ LiveTypeOK /\ Owned
  BY <1>1 DEF Inv, JobOwnsBindings, LiveTypeOK, File
<1>4. /\ e \in Endings /\ e.ok /\ e.calls = TRUE
      /\ Proper(e.at) /\ e.at.pos > 0 /\ e.at.conv = session.conv
  BY <1>1, EndingFacts DEF Inv
<1>5. job.conv \in Past(job.conv)
  BY <1>3, PastIsOwned
<1>6. /\ Proper(session)' /\ disk' \subseteq disk
      /\ Truthful /\ session'.pos > 0 => session'.conv \in Past(job.conv)
  <2>1. CASE session' = e.at /\ disk' = disk
    BY <1>1, <1>4, <2>1 DEF Truthful, Proper, Checkpoint
  <2>2. CASE \E b \in Broken(disk, job) : session' = b.at /\ disk' = b.disk
    <3>1. session' = Empty /\ disk' \subseteq disk
      BY <2>2, BrokenFiles
    <3>2. Proper(session)' /\ session'.pos = 0
      BY <3>1, EmptyIsProper DEF Proper, Checkpoint
    <3> QED BY <3>1, <3>2
  <2>3. ASSUME e.at.conv = job.conv,
               NEW b \in {[source |-> "memory", at |-> e.at, disk |-> disk]}
                         \cup Loaded(disk, job),
               NEW n \in b.at.pos .. MaxPos, NEW v \in BOOLEAN,
               session' = At(b, job, n, v), disk' = b.disk
        PROVE  /\ Proper(session)' /\ disk' \subseteq disk
               /\ Truthful => session'.conv \in Past(job.conv)
    <3>1. /\ Proper(b.at) /\ b.at.pos > 0 /\ b.source \in {"memory", "disk"}
          /\ b.disk \subseteq disk
          /\ Truthful => b.at.conv \in Past(job.conv)
      <4>1. CASE b = [source |-> "memory", at |-> e.at, disk |-> disk]
        BY <1>4, <1>5, <2>3, <4>1
      <4>2. CASE b \in Loaded(disk, job)
        <5>1. PICK f \in disk :
                /\ f.key = job.conv
                /\ b.at = [conv |-> f.conv, pos |-> f.pos, valid |-> TRUE]
          BY <4>2, LoadedFiles
        <5>2. b.source = "disk" /\ b.disk \subseteq disk
          BY <4>2, LoadedFiles
        <5> QED
          BY <1>3, <5>1, <5>2, NotConvs
          DEF File, Checkpoint, Owners, Proper, Positions, Truthful
      <4> QED BY <4>1, <4>2
    <3>2. n \in Positions /\ n > 0
      BY <3>1, BoundsAreNat DEF Proper, Checkpoint, Positions
    <3>3. Continued(b, job) = job.conv /\ b.source # "cold"
      BY <3>1 DEF Continued, Slots
    <3>4. /\ Proper(At(b, job, n, v))
          /\ Truthful => At(b, job, n, v).conv = b.at.conv
      <4> DEFINE r == job
      <4>1. r.conv \in Convs /\ Continued(b, r) \in Convs
        BY <1>3, <3>3
      <4>2. Truthful => b.at.conv \in Past(Continued(b, r))
        BY <3>1, <3>3
      <4> HIDE DEF r
      <4>3. /\ Proper(At(b, r, n, v))
            /\ Truthful => At(b, r, n, v).conv = b.at.conv
        BY <3>1, <3>2, <3>3, <4>1, <4>2, AtFacts
      <4> QED BY <4>3 DEF r
    <3> QED BY <2>3, <3>1, <3>4 DEF Proper, Checkpoint
  <2> QED BY <1>2, <2>1, <2>2, <2>3
<1>7. /\ bind' \in [Slots -> Binds]
      /\ \A s \in Slots : bind'[s].valid => bind'[s].conv = job.conv
  BY <1>1, <1>2, <1>4, RememberedFacts DEF ThinkingAfter
<1>8. Answerable'
  <2>1. CASE answerable' = Nobody
    BY <2>1 DEF Answerable
  <2>2. CASE answerable' # Nobody
    <3>1. ApiOf[job.conv] \in Slots /\ answerable' = job.conv /\ session' = e.at
      BY <1>2, <2>2 DEF Asked
    <3>2. ApiOf[job.conv] \in {"responses", "anthropic"}
      BY <1>3, <3>1, ConvsHaveApis DEF Apis, Slots
    <3>3. bind'[ApiOf[job.conv]] =
            [valid |-> TRUE, conv |-> job.conv, pos |-> session'.pos,
             text |-> job.kind # "tail", calls |-> TRUE]
      BY <1>2, <1>4, <3>1, <3>2 DEF Remembered, Binding, Slots
    <3> QED
      BY <1>3, <1>4, <3>1, <3>2, <3>3 DEF Answerable, HasCallId, AtFrontier
  <2> QED BY <2>1, <2>2
<1>9. answerable' \in Convs \cup {Nobody}
  BY <1>2, <1>3 DEF Asked
<1>10. LiveTypeOK'
  BY <1>1, <1>3, <1>6, <1>7, <1>9
  DEF LiveTypeOK, Proper, Checkpoint, File
<1>11. ~aliased' => Truthful'
  BY <1>1, <1>6, <1>7 DEF Inv, Truthful, Past
<1>12. JobOwnsBindings' /\ TailServedLive' /\ Owned'
  BY <1>1, <1>3, <1>6, <1>7
  DEF JobOwnsBindings, TailServedLive, Owned, NoJob
<1> QED BY <1>8, <1>10, <1>11, <1>12 DEF Inv

LEMMA StutterKeeps ==
  ASSUME Inv, UNCHANGED liveVars
  PROVE  Inv'
BY DEF liveVars, Past, Inv, LiveTypeOK, JobOwnsBindings, Owned, Truthful, TailServedLive,
       Answerable, HasCallId, AtFrontier, Proper, Checkpoint

THEOREM LiveInvariance == LiveSpec => []Inv
<1>1. Inv /\ [LiveNext]_liveVars => Inv'
  BY ParseKeeps, RefuseKeeps, StopsKeeps, DoneKeeps, StreamFailsKeeps,
     EndTurnKeeps, RewrittenKeeps, StutterKeeps DEF LiveNext
<1> QED BY <1>1, InitInv, PTL DEF LiveSpec

(* The type of every variable. *)
THEOREM LiveTypeCorrect == LiveSpec => []LiveTypeOK
<1>1. Inv => LiveTypeOK
  BY DEF Inv
<1> QED BY <1>1, LiveInvariance, PTL

(* Unless an interrupted prefill stopped at a bound position, a binding at *)
(* the session's position speaks of the history the session holds, a       *)
(* snapshot is filed under the history it holds, and a reply follows its   *)
(* own history; or, in each of the three, an edit of the history, whose    *)
(* client answered the calls of a live turn with it (only call ids and a   *)
(* position are compared then).                                            *)
THEOREM HistoryIsOwn ==
  LiveSpec => [](BindingsDescribeSession /\ DiskDescribesItself /\ ServedFromOwnHistory)
<1>1. Inv => BindingsDescribeSession /\ DiskDescribesItself /\ ServedFromOwnHistory
  BY DEF Inv, Truthful, BindingsDescribeSession, DiskDescribesItself, ServedFromOwnHistory
<1> QED BY <1>1, LiveInvariance, PTL

(* Tool results without their calls are only ever answered from a live     *)
(* binding.                                                                *)
THEOREM TailIsLive == LiveSpec => []TailServedLive
<1>1. Inv => TailServedLive
  BY DEF Inv
<1> QED BY <1>1, LiveInvariance, PTL

(* A client that answers a tool call before anything else touches the      *)
(* session is accepted and continues it.                                   *)
THEOREM AnswerIsAccepted == LiveSpec => []PromptAnswerAccepted
<1>1. Inv => PromptAnswerAccepted
  <2> SUFFICES ASSUME Inv, answerable # Nobody
               PROVE  PromptAnswerAccepted
    BY DEF PromptAnswerAccepted
  <2> DEFINE r == [conv |-> answerable, kind |-> "tail", calls |-> answerable]
  <2>1. /\ ApiOf[answerable] \in {"responses", "anthropic"}
        /\ HasCallId(ApiOf[answerable], answerable)
        /\ AtFrontier(ApiOf[answerable])
        /\ session.pos > 0
    BY DEF Inv, Answerable
  <2>2. r.conv = answerable /\ r.calls = answerable
    OBVIOUS
  <2>3. ApiOf[answerable] \in LiveSlots(r)
    BY <2>1, <2>2 DEF LiveSlots, CallIds
  <2> QED BY <2>1, <2>3 DEF PromptAnswerAccepted
<1> QED BY <1>1, LiveInvariance, PTL

=============================================================================
