---------------------------- MODULE AgentHeadless ----------------------------
(***************************************************************************)
(* The front end of ds4-agent --non-interactive (ds4_agent.c,              *)
(* run_agent_non_interactive) with the model thread of AgentWorker.  With  *)
(* -p it submits one prompt and ends; without, it reads prompts from stdin *)
(* and queues what arrives while the worker is busy.  It polls without a   *)
(* timeout, so it depends on the byte the worker writes in the wake pipe.  *)
(*                                                                         *)
(* Left out: --load-session and the output.  No key interrupts and no tool *)
(* asks in this mode.                                                      *)
(***************************************************************************)
EXTENDS AgentWorker

CONSTANT SaveOnExit

ASSUME SaveOnExitIsBoolean == SaveOnExit \in BOOLEAN
ASSUME PromptIsMessage == MaxMessages # 0  \* the prompt of -p is message 1

VARIABLES
    oneShot,      \* -p was given; it never changes
    input,        \* what was read and is not a prompt yet
    eof, submitted,
    sawError,     \* the status in the snapshot was ERROR
    readable,     \* the poll found a byte in the wake pipe
    rc,
    pending, byte \* w->wake_pending; a byte is in the pipe

promptVars == <<queue, input, typed, eof, submitted, sawError, readable, rc>>
wake == <<pending, byte>>
headlessVars == <<workerVars, ui, oneShot, promptVars, wake>>

Stages == {"top", "poll", "read", "consume", "answer", "prompt", "check", "leave", "save", "stop", "joining",
        "exited"}

HeadlessInit ==
    /\ WorkerInit
    /\ oneShot \in BOOLEAN
    /\ ui = "top" /\ queue = <<>> /\ input = <<>> /\ typed = 0
    /\ eof = FALSE /\ submitted = FALSE /\ sawError = FALSE /\ readable = FALSE /\ rc = 0
    /\ pending = FALSE /\ byte = FALSE

ExitUsesSession == ui = "save" /\ activity

\* agent_wake_locked: one byte until the front end has consumed
AgentWake ==
    /\ pending' = TRUE
    /\ byte' = (byte \/ ~pending)

-----------------------------------------------------------------------------
GoOn(there) == ui' = there /\ UNCHANGED <<workerVars, promptVars, wake>>

\* the prompt of the command line, until it is accepted
SubmitOneShot ==
    /\ ui = "top" /\ oneShot /\ ~submitted /\ CanSubmit
    /\ Submit(<<1>>)
    /\ typed' = 1
    /\ submitted' = TRUE
    /\ ui' = "poll"
    /\ UNCHANGED <<thread, initialized, flags, handoffs, session, delivered, gone, queue, input, eof, sawError,
                   readable, rc, wake>>

\* the queue becomes one text, put back if the worker does not take it
SubmitQueue ==
    /\ ui = "top" /\ ~oneShot /\ queue # <<>> /\ Idle
    /\ IF CanSubmit THEN Submit(Flat(queue)) /\ queue' = <<>>
       ELSE queue' = <<Flat(queue)>> /\ UNCHANGED <<cmd, asleep, status>>
    /\ ui' = "poll"
    /\ UNCHANGED <<thread, initialized, flags, handoffs, session, delivered, gone, input, typed, eof, submitted,
                   sawError, readable, rc, wake>>

NothingToSubmit ==
    /\ ui = "top"
    /\ IF oneShot THEN submitted \/ ~CanSubmit ELSE queue = <<>> \/ ~Idle
    /\ GoOn("poll")

StdinOpen == ~oneShot /\ initialized /\ ~eof

\* a byte in the pipe, something on stdin, or the end of the quiet time
Poll ==
    /\ ui = "poll"
    /\ byte \/ StdinOpen \/ input # <<>>
    /\ readable' = byte
    /\ ui' = "read"
    /\ UNCHANGED <<workerVars, queue, input, typed, eof, submitted, sawError, rc, wake>>

\* the pipe is drained if the poll said so; stdin has text, its end, or nothing
Read ==
    /\ ui = "read"
    /\ byte' = (byte /\ ~readable)
    /\ \/ StdinOpen /\ typed < MaxMessages /\ typed' = typed + 1 /\ input' = Append(input, typed + 1)
          /\ UNCHANGED eof
       \/ StdinOpen /\ eof' = TRUE /\ UNCHANGED <<typed, input>>
       \/ UNCHANGED <<typed, input, eof>>
    /\ ui' = "consume"
    /\ UNCHANGED <<workerVars, queue, submitted, sawError, readable, rc, pending>>

\* poll or read fails
Break ==
    /\ ui \in {"poll", "read"}
    /\ rc' = 1
    /\ ui' = "leave"
    /\ UNCHANGED <<workerVars, queue, input, typed, eof, submitted, sawError, readable, wake>>

\* Mutated form: the wake is not re-armed.
Seen == UNCHANGED pending

\* worker_consume, what it does to the wake
Rearm == pending' = FALSE

ConsumeSeen ==
    /\ ui = "consume"
    /\ sawError' = (status = "error")
    /\ Rearm
    /\ ui' = "answer"
    /\ UNCHANGED <<workerVars, queue, input, typed, eof, submitted, readable, rc, byte>>

\* a drain request is answered; then an error ends the loop
HandOver ==
    /\ ui = "answer"
    /\ IF drain.pending
       THEN /\ drain' = [pending |-> FALSE, answered |-> TRUE, text |-> Flat(queue)]
            /\ queue' = <<>>
            /\ asleep' = FALSE
            /\ AgentWake
       ELSE UNCHANGED <<drain, queue, asleep, wake>>
    /\ rc' = IF sawError THEN 1 ELSE rc
    /\ ui' = IF sawError THEN "leave" ELSE "prompt"
    /\ UNCHANGED <<thread, status, initialized, flags, cmd, approval, heard, session, delivered, gone,
                   input, typed, eof, submitted, sawError, readable>>

\* Mutated form: a prompt is submitted past those already queued.
MayPass == Idle

MaySubmit == Idle /\ queue = <<>>

\* after the quiet time, or the end of stdin, the input is a prompt
Prompt ==
    /\ ui = "prompt" /\ input # <<>>
    /\ IF MaySubmit /\ CanSubmit THEN Submit(input) /\ UNCHANGED queue
       ELSE queue' = Append(queue, input) /\ UNCHANGED <<cmd, asleep, status>>
    /\ input' = <<>>
    /\ ui' = "check"
    /\ UNCHANGED <<thread, initialized, flags, handoffs, session, delivered, gone, typed, eof, submitted,
                   sawError, readable, rc, wake>>

NoPrompt == ui = "prompt" /\ (input = <<>> \/ ~eof) /\ GoOn("check")

Finished == Idle /\ IF oneShot THEN submitted ELSE eof /\ input = <<>> /\ queue = <<>>

Check == ui = "check" /\ GoOn(IF Finished THEN "leave" ELSE "top")

Leave == ui = "leave" /\ GoOn(IF rc = 0 /\ SaveOnExit THEN "save" ELSE "stop")

SavedOnExit ==
    /\ ui = "save"
    /\ SaveSession
    /\ ui' = "stop"
    /\ UNCHANGED <<thread, asleep, status, initialized, flags, cmd, handoffs, delivered, gone, promptVars, wake>>

SaveOnExitFails ==
    /\ ui = "save"
    /\ rc' = 1
    /\ ui' = "stop"
    /\ UNCHANGED <<workerVars, queue, input, typed, eof, submitted, sawError, readable, wake>>

StopAtEnd ==
    /\ ui = "stop"
    /\ Stop
    /\ ui' = "joining"
    /\ UNCHANGED <<thread, status, initialized, interrupt, saveReq, compactReq, cmd, handoffs, session,
                   delivered, gone, promptVars, wake>>

JoinAtEnd == ui = "joining" /\ pc = "stopped" /\ GoOn("exited")

-----------------------------------------------------------------------------
\* The loop of the front end, without the failing system calls
FrontEnd ==
    /\ \/ SubmitOneShot \/ SubmitQueue \/ NothingToSubmit \/ Poll \/ Read \/ ConsumeSeen \/ HandOver
       \/ Prompt \/ NoPrompt \/ Check \/ Leave \/ SavedOnExit \/ SaveOnExitFails \/ StopAtEnd \/ JoinAtEnd
    /\ UNCHANGED oneShot

FrontEndStep == FrontEnd \/ (Break /\ UNCHANGED oneShot)

\* What the worker publishes, it publishes with a wake.
Published ==
    \/ status' # status \/ initialized' # initialized \/ delivered' # delivered
    \/ drain'.pending /\ ~drain.pending

WorkerStepWakes ==
    /\ Worker
    /\ IF Published THEN AgentWake ELSE UNCHANGED wake
    /\ UNCHANGED <<ui, oneShot, promptVars>>

SpuriousReturn == SpuriousWake /\ UNCHANGED <<ui, oneShot, promptVars, wake>>

Ended == ui = "exited" /\ UNCHANGED headlessVars

HeadlessNext == FrontEndStep \/ WorkerStepWakes \/ SpuriousReturn \/ Ended

HeadlessSpec == HeadlessInit /\ [][HeadlessNext]_headlessVars

-----------------------------------------------------------------------------
HeadlessTypeOK ==
    /\ pc \in Pcs /\ ret \in Pcs /\ turn \in Seq(Messages) /\ rounds \in 0..MaxRounds /\ asks = 0
    /\ status \in Statuses
    /\ \A flag \in {asleep, initialized, stop, interrupt, saveReq, compactReq, activity, dirty, changed, eof,
                     submitted, sawError, readable, pending, byte, oneShot} : flag \in BOOLEAN
    /\ cmd \in Seq(Messages)
    /\ drain \in [pending : BOOLEAN, answered : BOOLEAN, text : Seq(Messages)]
    /\ conv \in 0..MaxMessages /\ name \in 0..MaxMessages
    /\ DOMAIN files \subseteq Messages
    /\ delivered \in Seq(Messages) /\ gone \subseteq Messages
    /\ ui \in Stages /\ queue \in Seq(Seq(Messages)) /\ input \in Seq(Messages)
    /\ typed \in 0..MaxMessages /\ rc \in {0, 1}

\* The messages on their way, in the order they will be delivered.
OnTheWay == delivered \o drain.text \o turn \o cmd \o Flat(queue) \o input

\* Messages read from stdin are delivered in the order they came, none twice and
\* none lost but with a turn that failed to start, whether they are submitted,
\* queued, taken back by the queue or handed over in the middle of a turn.
OrderKept ==
    /\ \A i, j \in 1..Len(OnTheWay) : i < j => OnTheWay[i] < OnTheWay[j]
    /\ ToSet(OnTheWay) \union gone = 1..typed

\* The front end saves the session itself before it ends, without a lock: the
\* worker must have finished with it.
WorkerOwnsSession == ~(WorkerUsesSession /\ ExitUsesSession)

\* A run that ends well leaves nothing undone: "non-interactive mode depends on
\* this to avoid exiting in the small handoff window between accepting stdin and
\* starting generation" (worker_submit).
EndsWhenDone ==
    ui \in {"leave", "save"} /\ rc = 0 =>
        /\ cmd = <<>> /\ turn = <<>> /\ queue = <<>> /\ input = <<>>
        /\ pc \in {"after", "saveq", "wait"}

(***************************************************************************)
(* Liveness: both threads run.  The front end never sleeps in poll with    *)
(* something to see, so a run ends.                                        *)
(***************************************************************************)
FairHeadlessSpec == HeadlessSpec /\ WF_headlessVars(FrontEnd) /\ WF_headlessVars(WorkerStepWakes)

\* A one-shot run ends, and a run whose stdin has ended.
RunEnds == (oneShot \/ eof) ~> ui = "exited"
=============================================================================
