-------------------------- MODULE ServerLifecycle --------------------------
(***************************************************************************)
(* Threads and condition variables of ds4_server.c: the main thread that   *)
(* accepts connections and shuts the server down, one detached thread per  *)
(* connection, and the single worker that runs every request.              *)
(*                                                                         *)
(* A job lives on the stack of its client thread: the queue and the worker *)
(* hold pointers to it, so the client may only return once the worker has  *)
(* set job->done.  After main has seen clients = 0 it frees the engine,    *)
(* the session and the mutexes, so nothing may still be running by then.   *)
(*                                                                         *)
(* A region between a lock and its unlock is one action; pthread_cond_wait *)
(* releases the mutex and sleeps in one action, and may wake spuriously.   *)
(* protocol[c] and done[c] keep their last value after client c has gone,  *)
(* so that properties can speak of the outcome of every request.           *)
(***************************************************************************)
EXTENDS ProtocolState, Sequences, FiniteSets

CONSTANTS
  Clients,    \* the connections; each carries at most one job
  None        \* no job

ASSUME NoneIsNoClient == None \notin Clients

ASSUME ClientsFinite == IsFiniteSet(Clients)

VARIABLES
  stopRequested,  \* g_stop_requested, set by the signal handler
  killed,         \* the handler has called _exit
  mainPc,         \* where the main thread is
  accepted,       \* the connection main is starting a thread for, or None
  stopping,       \* s->stopping, under s->mu
  clients,        \* s->clients, under s->mu
  requestSeq,     \* s->request_seq, under s->mu
  queue,          \* s->head .. s->tail, under s->mu
  clientPc,       \* where each connection's thread is
  protocol,       \* job->protocol
  done,           \* job->done, under job->mu
  workerPc,       \* where the worker thread is
  workerJob,      \* the worker's local j, or None
  failed,         \* the worker's local finish reads "error"
  workerBusy,     \* s->worker_busy, under s->mu
  active,         \* s->active_protocol, under s->mu
  tally           \* completed_, failed_ and cancelled_requests, under s->mu

mainVars   == <<mainPc, accepted, stopping>>
clientVars == <<clients, requestSeq, clientPc, done>>
healthVars == <<workerBusy, active, tally>>
workerVars == <<workerPc, workerJob, failed>>
signalVars == <<stopRequested, killed>>
vars == <<signalVars, mainVars, clientVars, queue, protocol,
          workerVars, healthVars>>

OnlyMainMoves ==
  UNCHANGED <<signalVars, accepted, stopping, clientVars, queue, protocol,
              workerVars, healthVars>>
OnlyClientMoves ==
  UNCHANGED <<signalVars, mainVars, clients, requestSeq, done, queue, protocol,
              workerVars, healthVars>>
OnlyWorkerMoves ==
  UNCHANGED <<signalVars, mainVars, clientVars, queue, protocol, workerJob,
              failed, healthVars>>

NoRequest == StateInit(0)    \* a protocol state that is still all zeroes

Init ==
  /\ stopRequested = FALSE /\ killed = FALSE
  /\ mainPc = "loop" /\ accepted = None /\ stopping = FALSE
  /\ clients = 0
  /\ requestSeq = 0
  /\ queue = <<>>
  /\ clientPc = [c \in Clients |-> "unborn"]
  /\ protocol = [c \in Clients |-> NoRequest]
  /\ done = [c \in Clients |-> FALSE]
  /\ workerPc = "check" /\ workerJob = None /\ failed = FALSE
  /\ workerBusy = FALSE
  /\ active = NoRequest
  /\ tally = [o \in Terminals |-> 0]

-----------------------------------------------------------------------------
(* Condition variables.  One thread waits on each of s->cv (the worker),   *)
(* s->clients_cv (main) and j->cv (the client), so signal and broadcast    *)
(* have the same effect.                                                   *)

Woken(pc, waiting, then) == IF pc = waiting THEN then ELSE pc

(* Mutated form: nobody signals s->cv. *)
LeaveWorkerAsleep == UNCHANGED workerPc

WakeWorker == workerPc' = Woken(workerPc, "asleep", "check")

(* Mutated form: nobody broadcasts s->clients_cv. *)
LeaveMainAsleep == UNCHANGED mainPc

WakeMain == mainPc' = Woken(mainPc, "asleep", "countClients")

-----------------------------------------------------------------------------
(* The signal handler.                                                     *)

Alive == ~killed /\ mainPc # "exited"

Signal ==
  /\ Alive
  /\ ~stopRequested
  /\ stopRequested' = TRUE
  /\ UNCHANGED <<killed, mainVars, clientVars, queue, protocol, workerVars, healthVars>>

(* _exit(130): every thread is gone. *)
SecondSignal ==
  /\ Alive
  /\ stopRequested
  /\ killed' = TRUE
  /\ UNCHANGED <<stopRequested, mainVars, clientVars, queue, protocol,
                 workerVars, healthVars>>

-----------------------------------------------------------------------------
(* The main thread.                                                        *)

MainGoes(from, to) ==
  /\ Alive
  /\ mainPc = from
  /\ mainPc' = to

LoopCheck ==
  /\ MainGoes("loop", IF stopRequested THEN "drain" ELSE "accept")
  /\ OnlyMainMoves

Accept(c) ==
  /\ MainGoes("accept", "accepted")
  /\ clientPc[c] = "unborn"
  /\ clientPc' = [clientPc EXCEPT ![c] = "accepted"]
  /\ accepted' = c
  /\ UNCHANGED <<signalVars, stopping, clients, requestSeq, done, queue,
                 protocol, workerVars, healthVars>>

(* The handler has closed the listening socket.  An accept that fails for  *)
(* any other reason only goes round the loop.                              *)
AcceptFails ==
  /\ stopRequested
  /\ MainGoes("accept", "loop")
  /\ OnlyMainMoves

(* A connection that was accepted while the stop arrived is closed. *)
DropAccepted ==
  /\ MainGoes("accepted", "drain")
  /\ stopRequested
  /\ clientPc' = [clientPc EXCEPT ![accepted] = "gone"]
  /\ accepted' = None
  /\ UNCHANGED <<signalVars, stopping, clients, requestSeq, done, queue,
                 protocol, workerVars, healthVars>>

AddClient == clients' = clients + 1

CountClient ==
  /\ MainGoes("accepted", "spawn")
  /\ ~stopRequested
  /\ AddClient
  /\ UNCHANGED <<signalVars, accepted, stopping, requestSeq, clientPc, done,
                 queue, protocol, workerVars, healthVars>>

SpawnThread ==
  /\ MainGoes("spawn", "loop")
  /\ clientPc' = [clientPc EXCEPT ![accepted] = "parsing"]
  /\ accepted' = None
  /\ UNCHANGED <<signalVars, stopping, clients, requestSeq, done, queue,
                 protocol, workerVars, healthVars>>

DropClient == clients' = clients - 1

SpawnFails ==
  /\ MainGoes("spawn", "loop")
  /\ DropClient
  /\ clientPc' = [clientPc EXCEPT ![accepted] = "gone"]
  /\ accepted' = None
  /\ UNCHANGED <<signalVars, stopping, requestSeq, done, queue, protocol,
                 workerVars, healthVars>>

Drain ==
  /\ MainGoes("drain", "join")
  /\ stopping' = TRUE
  /\ WakeWorker
  /\ UNCHANGED <<signalVars, accepted, clientVars, queue, protocol,
                 workerJob, failed, healthVars>>

Join ==
  /\ workerPc = "exited"
  /\ MainGoes("join", "countClients")
  /\ OnlyMainMoves

(* Mutated form: main only waits for the worker. *)
NoClientRemains == FALSE

ClientsRemain == clients > 0

CountClients ==
  /\ MainGoes("countClients", IF ClientsRemain THEN "asleep" ELSE "closing")
  /\ OnlyMainMoves

MainSpuriousWake ==
  /\ MainGoes("asleep", "countClients")
  /\ OnlyMainMoves

(* The shutdown checkpoint, then server_close_resources. *)
CloseResources ==
  /\ MainGoes("closing", "exited")
  /\ OnlyMainMoves

-----------------------------------------------------------------------------
(* A client thread.                                                        *)

ClientGoes(c, from, to) ==
  /\ Alive
  /\ clientPc[c] = from
  /\ clientPc' = [clientPc EXCEPT ![c] = to]

(* Health, model listings, OPTIONS, and every request that is refused      *)
(* before it becomes a job.                                                *)
AnswerDirectly(c) ==
  /\ ClientGoes(c, "parsing", "leaving")
  /\ OnlyClientMoves

(* Mutated form: the newest job is served first. *)
Prepended(c) == <<c>> \o queue

Appended(c) == Append(queue, c)

AddToQueue(c) ==
  /\ requestSeq' = requestSeq + 1
  /\ protocol' = [protocol EXCEPT ![c] = StateInit(requestSeq + 1)]
  /\ queue' = Appended(c)

(* The client holds j->mu from before the enqueue until it first waits.    *)
Enqueue(c) ==
  /\ ClientGoes(c, "parsing", "checking")
  /\ ~stopping
  /\ AddToQueue(c)
  /\ WakeWorker
  /\ UNCHANGED <<signalVars, mainVars, clients, done, workerJob, failed,
                 healthVars>>

EnqueueRefused(c) ==
  /\ ClientGoes(c, "parsing", "leaving")
  /\ stopping
  /\ OnlyClientMoves

(* Mutated form: any wakeup is taken for completion. *)
AnyWakeup(c) == TRUE

MayLeave(c) == done[c]

ClientCheck(c) ==
  /\ ClientGoes(c, "checking", IF MayLeave(c) THEN "leaving" ELSE "asleep")
  /\ OnlyClientMoves

ClientSpuriousWake(c) ==
  /\ ClientGoes(c, "asleep", "checking")
  /\ OnlyClientMoves

ClientDone(c) ==
  /\ ClientGoes(c, "leaving", "gone")
  /\ clients' = IF clients > 0 THEN clients - 1 ELSE clients
  /\ WakeMain
  /\ UNCHANGED <<signalVars, accepted, stopping, requestSeq, done, queue,
                 protocol, workerVars, healthVars>>

-----------------------------------------------------------------------------
(* The worker thread.                                                      *)

WorkerGoes(from, to) ==
  /\ Alive
  /\ workerPc = from
  /\ workerPc' = to

(* server_protocol_transition, _begin_recovery and _finish: change the     *)
(* job's protocol state and copy it to active_protocol, under s->mu.       *)
(* Mutated form: the copy /healthz reads is not refreshed.                 *)
PublishUnseen(state) ==
  /\ protocol' = [protocol EXCEPT ![workerJob] = state]
  /\ UNCHANGED active

Publish(state) ==
  /\ protocol' = [protocol EXCEPT ![workerJob] = state]
  /\ active' = state

Current == protocol[workerJob]

MoveTo(phase) ==
  /\ IF TransitionAllowed(Current.phase, phase)
       THEN Publish(Transition(Current, phase))
       ELSE UNCHANGED <<protocol, active>>
  /\ UNCHANGED <<workerBusy, tally>>

FinishJob(outcome) ==
  /\ IF CanFinish(Current, outcome)
       THEN /\ Publish(Finish(Current, outcome))
            /\ tally' = [tally EXCEPT ![outcome] = @ + 1]
       ELSE UNCHANGED <<protocol, active, tally>>
  /\ UNCHANGED workerBusy

Dequeue ==
  /\ WorkerGoes("check", "start")
  /\ queue # <<>>
  /\ workerJob' = Head(queue)
  /\ queue' = Tail(queue)
  /\ failed' = FALSE
  /\ UNCHANGED <<signalVars, mainVars, clientVars, protocol, healthVars>>

NothingToDequeue ==
  /\ WorkerGoes("check", IF stopping THEN "exited" ELSE "asleep")
  /\ queue = <<>>
  /\ OnlyWorkerMoves

WorkerSpuriousWake ==
  /\ WorkerGoes("asleep", "check")
  /\ OnlyWorkerMoves

Start ==
  /\ WorkerGoes("start", "route")
  /\ workerBusy' = TRUE
  /\ active' = Current
  /\ UNCHANGED <<signalVars, mainVars, clientVars, queue, protocol,
                 workerJob, failed, tally>>

(* Every step of a running job leaves the queue, the clients and main alone. *)
JobStep ==
  UNCHANGED <<signalVars, mainVars, clientVars, queue, workerJob>>

BeginSteering ==
  /\ WorkerGoes("route", "steering")
  /\ MoveTo("SERIALIZE")
  /\ UNCHANGED failed
  /\ JobStep

FinishSteering ==
  /\ WorkerGoes("steering", "epilogue")
  /\ FinishJob("COMPLETE")
  /\ UNCHANGED failed
  /\ JobStep

BeginPrefill ==
  /\ WorkerGoes("route", "prefill")
  /\ MoveTo("PREFILL")
  /\ UNCHANGED failed
  /\ JobStep

(* Steering refused (400), missing tool state (409), prefill failed, or    *)
(* the watchdog expired during it: generate_job returns with no outcome.   *)
PrefillFails ==
  /\ WorkerGoes("prefill", "epilogue")
  /\ OnlyWorkerMoves

(* The cancel callback saw the stop, a dead stream, or the deadline. *)
PrefillInterrupted ==
  /\ WorkerGoes("prefill", "epilogue")
  /\ \E streamFailed \in BOOLEAN :
       FinishJob(IF stopRequested \/ streamFailed THEN "CANCELLED" ELSE "ERROR")
  /\ UNCHANGED failed
  /\ JobStep

PrefillDone ==
  /\ WorkerGoes("prefill", "stream")
  /\ MoveTo("DECODE")
  /\ UNCHANGED failed
  /\ JobStep

(* The first bytes of the stream could not be written. *)
StreamStartFails ==
  /\ WorkerGoes("stream", "epilogue")
  /\ OnlyWorkerMoves

StreamStarts ==
  /\ WorkerGoes("stream", "decode")
  /\ OnlyWorkerMoves

(* A malformed, unterminated or unsafe tool call. *)
TryRecovery ==
  /\ WorkerGoes("decode", "recover")
  /\ CanBeginRecovery(Current)
  /\ Publish(BeginRecovery(Current))
  /\ UNCHANGED <<workerBusy, tally, failed>>
  /\ JobStep

(* continue_after_invalid_dsml succeeded: decode_again. *)
RecoveryContinues ==
  /\ WorkerGoes("recover", "decode")
  /\ MoveTo("DECODE")
  /\ UNCHANGED failed
  /\ JobStep

RecoveryFails ==
  /\ WorkerGoes("recover", "serialize")
  /\ failed' = TRUE
  /\ MoveTo("SERIALIZE")
  /\ JobStep

(* The loop ends by a stop token, the length, a tool call, an error, the   *)
(* watchdog or the stop flag.                                              *)
DecodeEnds ==
  /\ WorkerGoes("decode", "serialize")
  /\ \E error \in BOOLEAN : failed' = (error \/ stopRequested)
  /\ MoveTo("SERIALIZE")
  /\ JobStep

FinalOutcome(responseOk) ==
  IF stopRequested THEN "CANCELLED"
  ELSE IF failed \/ ~responseOk THEN "ERROR" ELSE "COMPLETE"

FinishResponse ==
  /\ WorkerGoes("serialize", "epilogue")
  /\ \E responseOk \in BOOLEAN : FinishJob(FinalOutcome(responseOk))
  /\ UNCHANGED failed
  /\ JobStep

OutcomeMissing == ~Current.terminal

Epilogue ==
  /\ WorkerGoes("epilogue", "idle")
  /\ IF OutcomeMissing
       THEN FinishJob(IF stopRequested THEN "CANCELLED" ELSE "ERROR")
       ELSE UNCHANGED <<protocol, healthVars>>
  /\ UNCHANGED failed
  /\ JobStep

GoIdle ==
  /\ WorkerGoes("idle", "signal")
  /\ workerBusy' = FALSE
  /\ active' = Current
  /\ UNCHANGED <<protocol, tally, failed>>
  /\ JobStep

(* Needs j->mu, which the client holds while it is checking.  The worker   *)
(* does not look at the job again.                                         *)
SignalDone ==
  /\ WorkerGoes("signal", "check")
  /\ clientPc[workerJob] # "checking"
  /\ done' = [done EXCEPT ![workerJob] = TRUE]
  /\ clientPc' = [clientPc EXCEPT ![workerJob] = Woken(@, "asleep", "checking")]
  /\ workerJob' = None
  /\ UNCHANGED <<signalVars, mainVars, clients, requestSeq, queue, protocol,
                 failed, healthVars>>

-----------------------------------------------------------------------------
Main ==
  \/ LoopCheck \/ AcceptFails \/ DropAccepted \/ CountClient \/ SpawnThread
  \/ SpawnFails \/ Drain \/ Join \/ CountClients \/ CloseResources

Client(c) ==
  \/ AnswerDirectly(c) \/ Enqueue(c) \/ EnqueueRefused(c)
  \/ ClientCheck(c) \/ ClientDone(c)

Generate ==
  \/ BeginPrefill \/ PrefillFails \/ PrefillInterrupted \/ PrefillDone
  \/ StreamStartFails \/ StreamStarts
  \/ TryRecovery \/ RecoveryContinues \/ RecoveryFails
  \/ DecodeEnds \/ FinishResponse

Worker ==
  \/ Dequeue \/ NothingToDequeue \/ Start
  \/ BeginSteering \/ FinishSteering \/ Generate
  \/ Epilogue \/ GoIdle \/ SignalDone

SpuriousWake ==
  \/ MainSpuriousWake \/ WorkerSpuriousWake
  \/ \E c \in Clients : ClientSpuriousWake(c)

(* The process has ended. *)
Ended == ~Alive /\ UNCHANGED vars

Next ==
  \/ Main \/ Worker \/ SpuriousWake \/ Signal \/ SecondSignal \/ Ended
  \/ \E c \in Clients : Accept(c) \/ Client(c)

(* Every thread runs when it can: the kernel schedules them, the worker's  *)
(* GPU steps return, and client sockets have receive and send timeouts.    *)
(* Nothing obliges a client to connect, a signal to come or a wakeup to be *)
(* spurious.  SignalDone is strongly fair: a mutex that is free again and  *)
(* again, however often its client wakes up for nothing, is acquired.      *)
Fairness ==
  /\ WF_vars(Main)
  /\ WF_vars(Worker)
  /\ SF_vars(SignalDone)
  /\ \A c \in Clients : WF_vars(Client(c))

Spec == Init /\ [][Next]_vars

FairSpec == Spec /\ Fairness

-----------------------------------------------------------------------------
(* Properties.                                                             *)

TypeOK ==
  /\ stopRequested \in BOOLEAN /\ killed \in BOOLEAN
  /\ mainPc \in {"loop", "accept", "accepted", "spawn", "drain", "join",
                 "countClients", "asleep", "closing", "exited"}
  /\ accepted \in Clients \cup {None}
  /\ stopping \in BOOLEAN
  /\ clients \in Nat
  /\ requestSeq \in Nat
  /\ queue \in Seq(Clients)
  /\ clientPc \in [Clients -> {"unborn", "accepted", "parsing", "checking",
                               "asleep", "leaving", "gone"}]
  /\ protocol \in [Clients -> ProtocolStates]
  /\ done \in [Clients -> BOOLEAN]
  /\ workerPc \in {"check", "asleep", "start", "route", "steering", "prefill",
                   "stream", "decode", "recover", "serialize", "epilogue",
                   "idle", "signal", "exited"}
  /\ workerJob \in Clients \cup {None}
  /\ failed \in BOOLEAN
  /\ workerBusy \in BOOLEAN
  /\ active \in ProtocolStates
  /\ tally \in [Terminals -> Nat]

Queued == {queue[i] : i \in DOMAIN queue}

(* The jobs that somebody still holds a pointer to. *)
Held == Queued \cup ({workerJob} \ {None})

Waiting == {c \in Clients : clientPc[c] \in {"checking", "asleep"}}

Threads == {c \in Clients : clientPc[c] \notin {"unborn", "accepted", "gone"}}

(* Whatever the queue or the worker still points at is on the stack of a   *)
(* client that waits and has not been told to go, no job is held twice,    *)
(* and a client that waits without its job being held has been released:   *)
(* neither a dangling job nor a lost one.                                  *)
JobsOutliveTheirUsers ==
  /\ Held = {c \in Waiting : ~done[c]}
  /\ workerJob \notin Queued
  /\ \A i, j \in DOMAIN queue : queue[i] = queue[j] => i = j

(* The threads that may touch the server, and the one main is creating. *)
Counted == {c \in Clients : c \in Threads \/ (mainPc = "spawn" /\ c = accepted)}

(* Every thread that may touch the server is counted, a thread that is     *)
(* about to be created included: main frees the server at zero.            *)
ClientCountExact == clients = Cardinality(Counted)

(* Main frees the session, the engine and the mutexes when nobody can use  *)
(* them any more and no accepted request is owed an outcome.               *)
ClosesOnlyWhenQuiet ==
  mainPc \in {"closing", "exited"} =>
    /\ workerPc = "exited"
    /\ queue = <<>>
    /\ Threads = {}
    /\ \A c \in Clients : protocol[c].request_id > 0 => protocol[c].terminal

(* The counters /healthz reports count every request exactly once, under   *)
(* the outcome the request ended with.                                     *)
CountersMatchOutcomes ==
  \A o \in Terminals :
    tally[o] = Cardinality({c \in Clients : protocol[c].phase = o})

(* The phase /healthz shows is the one the running job is in, and an idle  *)
(* worker never shows a request that has not ended.                        *)
PhaseIsCurrent ==
  IF workerBusy
  THEN workerJob # None /\ active = Current
  ELSE active.request_id > 0 => active.terminal

(* What /healthz reports is true at every moment, although it is a copy    *)
(* that every change of a job's state has to refresh: phase and counters.  *)
HealthIsTrue == CountersMatchOutcomes /\ PhaseIsCurrent

(* A client is released only after its request has its outcome. *)
ReleasedHaveOutcome ==
  \A c \in Clients : done[c] => protocol[c].terminal

(* An outcome stays as it was published, and a job recovers only once. *)
Kept(old, new) ==
  /\ old.terminal => new = old
  /\ old.recovery_attempted /\ new.phase = "RECOVERY" => old.phase = "RECOVERY"

KeepsOutcomes == \A c \in Clients : Kept(protocol[c], protocol'[c])

(* An outcome is final: no later step of any thread changes it, and a      *)
(* second recovery never starts.                                           *)
OutcomeIsFinal == [][KeepsOutcomes]_vars

(* The abstract view: requests in the order of their ids. *)
JobOf(i) == CHOOSE c \in Clients : protocol[c].request_id = i

PublishedCount == Cardinality({c \in Clients : protocol[c].terminal})

ReleasedCount == Cardinality({c \in Clients : done[c]})

Outcomes == INSTANCE RequestOutcomes WITH
  Outcomes <- Terminals,
  order    <- [i \in 1 .. requestSeq |-> JobOf(i)],
  outcomes <- [i \in 1 .. PublishedCount |-> protocol[JobOf(i)].phase],
  released <- ReleasedCount,
  closed   <- mainPc \in {"closing", "exited"}

(* The threads together serve requests in order, give each one outcome     *)
(* before releasing its client, and close only when nothing is owed.       *)
ServesInOrder == Outcomes!Spec

(* An accepted request gets its outcome and its client goes home, unless   *)
(* the process is killed.                                                  *)
AcceptedJobReleased ==
  \A c \in Clients :
    clientPc[c] = "checking" ~> (clientPc[c] = "gone" \/ killed)

(* A stop request ends the process, whatever is queued or running. *)
ShutdownCompletes ==
  stopRequested ~> (mainPc = "exited" \/ killed)
=============================================================================
