---------------------------- MODULE AgentWorker ----------------------------
(***************************************************************************)
(* The model thread of ds4-agent (ds4_agent.c, worker_main and below) and  *)
(* the state it shares with the front end under w->mu.  It runs user turns *)
(* (prefill, generate, tools, queued messages, again), compactions and     *)
(* deferred saves.  The front ends are AgentInteractive and AgentHeadless. *)
(*                                                                         *)
(* Abstracted: tokens, rendered output, power requests, bash jobs.  The    *)
(* transcript is the conversation it belongs to (`conv`, the number of its *)
(* first message, 0 for the system prompt alone) and whether it differs    *)
(* from its saved file (`changed`).  A critical section is one step.       *)
(***************************************************************************)
EXTENDS Naturals, Sequences, SequencesExt

CONSTANTS
    MaxMessages,  \* bound: user messages typed
    MaxRounds,    \* bound: tool rounds started
    MaxAsks,      \* bound: questions asked about starting the browser
    Coordinator   \* the engine coordinates distributed workers

ASSUME BoundsAreNat == MaxMessages \in Nat /\ MaxRounds \in Nat /\ MaxAsks \in Nat
ASSUME CoordinatorIsBoolean == Coordinator \in BOOLEAN

VARIABLES
    pc, ret,      \* where the worker is; where it goes on after a compaction or save
    turn,         \* the user text of the turn that is starting
    rounds, asks,
    asleep,       \* the worker is inside pthread_cond_wait
    status, initialized, stop, interrupt, cmd, saveReq, compactReq,
    drain,        \* queued_user_drain_*
    approval,     \* web_approval_*; `of` is the question the answer was given to
    heard,        \* observer: the last question answered, and the one it was given to
    conv, name,   \* the transcript's conversation; the session identity
    files,        \* session files: identity -> conversation inside
    activity, dirty, changed,
    delivered,    \* observer: the messages put in a transcript, in order
    gone,         \* observer: the messages dropped, refused or taken back
    ui,           \* the front end: where its loop is,
    queue,        \*   the prompts not submitted, each a sequence of messages,
    typed         \*   and the messages read so far

thread == <<pc, ret, turn, rounds, asks>>
flags == <<stop, interrupt, saveReq, compactReq>>
handoffs == <<drain, approval, heard>>
session == <<conv, name, files, activity, dirty, changed>>
workerVars == <<thread, asleep, status, initialized, flags, cmd, handoffs, session, delivered, gone>>

Messages == 1..MaxMessages
Statuses == {"idle", "prefill", "generating", "compacting", "saving", "draining", "error", "stopped"}
Pcs == {"init", "ready", "wait", "append", "round", "prefill", "generate", "interrupted", "answered",
        "tool", "asking", "result", "drain", "draining", "after", "saveq", "saving", "compact",
        "summarize", "rebuild", "stopped"}
NoDrain == [pending |-> FALSE, answered |-> FALSE, text |-> <<>>]
NoApproval == [pending |-> FALSE, answered |-> FALSE, allow |-> FALSE, of |-> 0]

(***************************************************************************)
(* What the front end calls, each under the mutex.                         *)
(***************************************************************************)
\* worker_is_idle: an error counts as idle
Idle == initialized /\ status \in {"idle", "error"}

CanSubmit == initialized /\ status = "idle" /\ cmd = <<>>

\* worker_submit, when it accepts
Submit(text) ==
    cmd' = text /\ asleep' = FALSE /\ status' = "prefill"

\* worker_interrupt: latched, and the condition variable is not signalled
Interrupt ==
    /\ interrupt' = TRUE
    /\ status' = IF Coordinator /\ status \in {"prefill", "generating", "compacting"}
                 THEN "draining" ELSE status

\* worker_stop
Stop == stop' = TRUE /\ asleep' = FALSE

\* worker_should_interrupt
Interrupted == interrupt \/ stop

\* The worker reads or writes the session or the transcript.
WorkerUsesSession ==
    \/ pc = "saving" /\ activity
    \/ pc \in {"init", "append", "round", "prefill", "generate", "interrupted", "tool", "asking", "result",
            "drain", "draining", "compact", "summarize", "rebuild"}

\* agent_prompt_queue_take_all: the queued texts become one
Flat(texts) ==
    LET upto[n \in 0..Len(texts)] == IF n = 0 THEN <<>> ELSE upto[n - 1] \o texts[n]
    IN  upto[Len(texts)]

(***************************************************************************)
(* A save: the transcript goes to the file of the session's identity.      *)
(***************************************************************************)
\* agent_worker_save_session_now with something to save
SaveSession ==
    /\ activity
    /\ files' = [n \in DOMAIN files \union {name} |-> IF n = name THEN conv ELSE files[n]]
    /\ dirty' = FALSE
    /\ changed' = FALSE
    /\ UNCHANGED <<conv, name, activity>>

\* agent_worker_reset_to_sysprompt, after the transcript is ready
ResetIdentity ==
    /\ activity' = FALSE
    /\ dirty' = FALSE
    /\ changed' = FALSE
    /\ name' = 0
    /\ status' = "idle"

-----------------------------------------------------------------------------
WorkerInit ==
    /\ pc = "init" /\ ret = "wait" /\ turn = <<>> /\ rounds = 0 /\ asks = 0
    /\ asleep = FALSE
    /\ status = "idle" /\ initialized = FALSE
    /\ stop = FALSE /\ interrupt = FALSE /\ saveReq = FALSE /\ compactReq = FALSE
    /\ cmd = <<>>
    /\ drain = NoDrain /\ approval = NoApproval /\ heard = <<0, 0>>
    /\ conv = 0 /\ name = 0 /\ files = <<>>
    /\ activity = FALSE /\ dirty = FALSE /\ changed = FALSE
    /\ delivered = <<>> /\ gone = {}

Goto(there) == pc' = there /\ UNCHANGED <<ret, turn, rounds, asks>>

\* back to the caller; a tool result remembers that it has been compacted for
Return ==
    /\ pc' = ret
    /\ ret' = IF ret = "result" THEN ret ELSE "wait"
    /\ UNCHANGED <<turn, rounds, asks>>

\* worker_main: the system prompt is prefilled, or fails
LoadSystemPrompt ==
    /\ pc = "init"
    /\ Goto("ready")
    /\ ResetIdentity
    /\ UNCHANGED <<asleep, initialized, flags, cmd, handoffs, conv, files, delivered, gone>>

LoadSystemPromptFails ==
    /\ pc = "init"
    /\ Goto("ready")
    /\ status' = "error"
    /\ UNCHANGED <<asleep, initialized, flags, cmd, handoffs, session, delivered, gone>>

Initialized ==
    /\ pc = "ready"
    /\ Goto("wait")
    /\ initialized' = TRUE
    /\ UNCHANGED <<asleep, status, flags, cmd, handoffs, session, delivered, gone>>

(***************************************************************************)
(* The command loop.                                                       *)
(***************************************************************************)
Sleep ==
    /\ pc = "wait" /\ ~asleep
    /\ ~stop /\ cmd = <<>> /\ ~saveReq /\ ~compactReq
    /\ asleep' = TRUE
    /\ UNCHANGED <<thread, status, initialized, flags, cmd, handoffs, session, delivered, gone>>

SpuriousWake ==
    /\ asleep
    /\ asleep' = FALSE
    /\ UNCHANGED <<thread, status, initialized, flags, cmd, handoffs, session, delivered, gone>>

Stopped ==
    /\ pc = "wait" /\ ~asleep /\ stop
    /\ Goto("stopped")
    /\ status' = "stopped"
    /\ UNCHANGED <<asleep, initialized, flags, cmd, handoffs, session, delivered, gone>>

\* the command is taken and worker_run_turn forgets an earlier interrupt
TakeCommand ==
    /\ pc = "wait" /\ ~asleep /\ ~stop /\ cmd # <<>>
    /\ turn' = cmd /\ cmd' = <<>>
    /\ interrupt' = FALSE
    /\ \/ pc' = "append" /\ UNCHANGED ret
       \/ conv # 0 /\ pc' = "compact" /\ ret' = "append"
    /\ UNCHANGED <<rounds, asks, asleep, status, initialized, stop, saveReq, compactReq, handoffs, session,
                   delivered, gone>>

(***************************************************************************)
(* Deferred work: from the command loop when no command waits, and after   *)
(* every turn, compaction first.                                           *)
(***************************************************************************)
SaveDue == saveReq /\ (pc = "wait" => ~asleep /\ ~stop /\ cmd = <<>>)
CompactDue == compactReq /\ (pc = "wait" => ~asleep /\ ~stop /\ cmd = <<>> /\ ~saveReq)
Then == IF pc = "after" THEN "saveq" ELSE "wait"

DeferredCompact ==
    /\ pc \in {"wait", "after"} /\ CompactDue
    /\ compactReq' = FALSE
    /\ ret' = Then
    /\ pc' = IF activity THEN "compact" ELSE Then
    /\ UNCHANGED <<turn, rounds, asks, asleep, status, initialized, stop, interrupt, saveReq, cmd, handoffs,
                   session, delivered, gone>>

NoDeferredCompact ==
    /\ pc = "after" /\ ~compactReq
    /\ Goto("saveq")
    /\ UNCHANGED <<asleep, status, initialized, flags, cmd, handoffs, session, delivered, gone>>

DeferredSave ==
    /\ pc \in {"wait", "saveq"} /\ SaveDue
    /\ Goto("saving")
    /\ saveReq' = FALSE
    /\ status' = "saving"
    /\ UNCHANGED <<asleep, initialized, stop, interrupt, compactReq, cmd, handoffs, session, delivered, gone>>

NoDeferredSave ==
    /\ pc = "saveq" /\ ~saveReq
    /\ Goto("wait")
    /\ UNCHANGED <<asleep, status, initialized, flags, cmd, handoffs, session, delivered, gone>>

\* the save may fail, and IDLE is published whatever became of the status
FinishSave ==
    /\ pc = "saving"
    /\ Goto("wait")
    /\ SaveSession \/ UNCHANGED session
    /\ status' = "idle"
    /\ UNCHANGED <<asleep, initialized, flags, cmd, handoffs, delivered, gone>>

(***************************************************************************)
(* A turn.                                                                 *)
(***************************************************************************)
\* user text joins the transcript; the first one names the session
Join(text) ==
    /\ conv' = IF conv = 0 THEN Head(text) ELSE conv
    /\ name' = IF name = 0 THEN Head(text) ELSE name
    /\ activity' = TRUE
    /\ changed' = TRUE
    /\ dirty' = TRUE
    /\ delivered' = delivered \o text
    /\ UNCHANGED files

AppendUser ==
    /\ pc = "append"
    /\ Join(turn)
    /\ turn' = <<>>
    /\ pc' = "round"
    /\ UNCHANGED <<ret, rounds, asks, asleep, status, initialized, flags, cmd, handoffs, gone>>

BeginPrefill ==
    /\ pc = "round"
    /\ Goto("prefill")
    /\ status' = "prefill"
    /\ UNCHANGED <<asleep, initialized, flags, cmd, handoffs, session, delivered, gone>>

Prefilled ==
    /\ pc = "prefill"
    /\ Goto("generate")
    /\ status' = "generating"
    /\ UNCHANGED <<asleep, initialized, flags, cmd, handoffs, session, delivered, gone>>

\* a prefill or an evaluation fails
TurnFails ==
    /\ pc \in {"prefill", "generate"}
    /\ Goto("after")
    /\ status' = "error"
    /\ UNCHANGED <<asleep, initialized, flags, cmd, handoffs, session, delivered, gone>>

TurnInterrupted ==
    /\ pc \in {"prefill", "generate"} /\ Interrupted
    /\ pc' = "interrupted" /\ ret' = "after"
    /\ UNCHANGED <<turn, rounds, asks, asleep, status, initialized, flags, cmd, handoffs, session,
                   delivered, gone>>

ClearInterrupt ==
    /\ pc = "interrupted"
    /\ Goto("answered")
    /\ interrupt' = FALSE
    /\ UNCHANGED <<asleep, status, initialized, stop, saveReq, compactReq, cmd, handoffs, session,
                   delivered, gone>>

FinalAnswer ==
    /\ pc = "generate" /\ ~Interrupted
    /\ pc' = "answered" /\ ret' = "after"
    /\ UNCHANGED <<turn, rounds, asks, asleep, status, initialized, flags, cmd, handoffs, session,
                   delivered, gone>>

PublishIdle ==
    /\ pc = "answered"
    /\ Return
    /\ status' = "idle"
    /\ UNCHANGED <<asleep, initialized, flags, cmd, handoffs, session, delivered, gone>>

(***************************************************************************)
(* Tools, and the questions they ask.                                      *)
(***************************************************************************)
ToolCall ==
    /\ pc = "generate" /\ ~Interrupted
    /\ rounds < MaxRounds
    /\ rounds' = rounds + 1
    /\ pc' = "tool"
    /\ UNCHANGED <<ret, turn, asks, asleep, status, initialized, flags, cmd, handoffs, session,
                   delivered, gone>>

\* Mutated form: an answer that arrived after its question was given up is not forgotten.
AskAgain == [approval EXCEPT !.pending = TRUE]

\* agent_web_confirm, what it sets before it waits
Question == [NoApproval EXCEPT !.pending = TRUE]

\* asked and waited for in one critical section, unless already interrupted
Ask ==
    /\ pc = "tool" /\ asks < MaxAsks /\ ~Interrupted
    /\ asks' = asks + 1
    /\ approval' = Question
    /\ pc' = "asking"
    /\ asleep' = TRUE
    /\ UNCHANGED <<ret, turn, rounds, status, initialized, flags, cmd, drain, heard, session, delivered, gone>>

AskInVain ==
    /\ pc = "tool" /\ asks < MaxAsks /\ Interrupted
    /\ asks' = asks + 1
    /\ approval' = NoApproval
    /\ UNCHANGED <<pc, ret, turn, rounds, asleep, status, initialized, flags, cmd, drain, heard, session,
                   delivered, gone>>

AwaitAnswer ==
    /\ pc = "asking" /\ ~asleep
    /\ ~Interrupted /\ ~approval.answered
    /\ asleep' = TRUE
    /\ UNCHANGED <<thread, status, initialized, flags, cmd, handoffs, session, delivered, gone>>

Answered ==
    /\ pc = "asking" /\ ~asleep /\ approval.answered
    /\ heard' = <<asks, approval.of>>
    /\ Goto("tool")
    /\ UNCHANGED <<asleep, status, initialized, flags, cmd, drain, approval, session, delivered, gone>>

AskInterrupted ==
    /\ pc = "asking" /\ ~asleep /\ Interrupted /\ ~approval.answered
    /\ approval' = [approval EXCEPT !.pending = FALSE]
    /\ Goto("tool")
    /\ UNCHANGED <<asleep, status, initialized, flags, cmd, drain, heard, session, delivered, gone>>

ToolDone ==
    /\ pc = "tool"
    /\ \/ pc' = "result" /\ ret' = "wait"
       \/ pc' = "compact" /\ ret' = "result"
    /\ UNCHANGED <<turn, rounds, asks, asleep, status, initialized, flags, cmd, handoffs, session,
                   delivered, gone>>

\* the result joins the transcript, or does not fit even after the compaction
AppendResult ==
    /\ pc = "result"
    /\ changed' = TRUE
    /\ Goto("drain")
    /\ UNCHANGED <<asleep, status, initialized, flags, cmd, handoffs, conv, name, files, activity, dirty,
                   delivered, gone>>

ContextFull ==
    /\ pc = "result" /\ ret = "result"
    /\ Goto("after")
    /\ status' = "error"
    /\ UNCHANGED <<asleep, initialized, flags, cmd, handoffs, session, delivered, gone>>

RequestDrain ==
    /\ pc = "drain"
    /\ drain' = [NoDrain EXCEPT !.pending = TRUE]
    /\ Goto("draining")
    /\ asleep' = ~stop
    /\ UNCHANGED <<status, initialized, flags, cmd, approval, heard, session, delivered, gone>>

AwaitDrain ==
    /\ pc = "draining" /\ ~asleep
    /\ ~stop /\ ~drain.answered
    /\ asleep' = TRUE
    /\ UNCHANGED <<thread, status, initialized, flags, cmd, handoffs, session, delivered, gone>>

\* the queued text joins the transcript, and the next round may compact first
Drained ==
    /\ pc = "draining" /\ ~asleep
    /\ stop \/ drain.answered
    /\ IF drain.text = <<>> THEN UNCHANGED <<session, delivered>> ELSE Join(drain.text)
    /\ drain' = NoDrain
    /\ \/ pc' = "round" /\ UNCHANGED ret
       \/ pc' = "compact" /\ ret' = "round"
    /\ UNCHANGED <<turn, rounds, asks, asleep, status, initialized, flags, cmd, approval, heard, gone>>

(***************************************************************************)
(* Compaction (agent_worker_compact), for a turn or deferred.              *)
(***************************************************************************)
InTurn == ret \in {"append", "round", "result"}

\* Where a compaction that failed leaves its caller: a turn is over.
AfterFailure == IF InTurn THEN "after" ELSE ret

\* the message of the turn that was starting is not in the transcript yet
LoseTurn ==
    /\ gone' = gone \union {turn[i] : i \in 1..Len(turn)}
    /\ turn' = <<>>

NothingToCompact ==
    /\ pc = "compact" /\ conv = 0
    /\ Return
    /\ status' = IF InTurn THEN status ELSE "idle"
    /\ UNCHANGED <<asleep, initialized, flags, cmd, handoffs, session, delivered, gone>>

BeginCompact ==
    /\ pc = "compact" /\ conv # 0
    /\ Goto("summarize")
    /\ status' = "compacting"
    /\ UNCHANGED <<asleep, initialized, flags, cmd, handoffs, session, delivered, gone>>

\* Mutated form: a deferred compaction does not make the session dirty.
CompactedClean == changed' = TRUE /\ UNCHANGED dirty

Compacted == changed' = TRUE /\ dirty' = (dirty \/ ~InTurn)

\* the summary is written; the rebuild publishes PREFILL
Summarized ==
    /\ pc = "summarize" /\ ~Interrupted
    /\ Goto("rebuild")
    /\ status' = "prefill"
    /\ UNCHANGED <<asleep, initialized, flags, cmd, handoffs, session, delivered, gone>>

Rebuilt ==
    /\ pc = "rebuild"
    /\ Return
    /\ Compacted
    /\ status' = IF InTurn THEN status ELSE "idle"
    /\ UNCHANGED <<asleep, initialized, flags, cmd, handoffs, conv, name, files, activity, delivered, gone>>

CompactFails ==
    /\ pc \in {"summarize", "rebuild"}
    /\ pc' = AfterFailure /\ ret' = "wait"
    /\ status' = "error"
    /\ LoseTurn
    /\ UNCHANGED <<rounds, asks, asleep, initialized, flags, cmd, handoffs, session, delivered>>

CompactInterrupted ==
    /\ pc \in {"summarize", "rebuild"} /\ Interrupted
    /\ pc' = "interrupted" /\ ret' = AfterFailure
    /\ LoseTurn
    /\ UNCHANGED <<rounds, asks, asleep, status, initialized, flags, cmd, handoffs, session, delivered>>

-----------------------------------------------------------------------------
\* The command loop, deferred work and compactions
Loop ==
    \/ LoadSystemPrompt \/ LoadSystemPromptFails \/ Initialized
    \/ Sleep \/ Stopped \/ TakeCommand
    \/ DeferredCompact \/ NoDeferredCompact \/ DeferredSave \/ NoDeferredSave \/ FinishSave
    \/ NothingToCompact \/ BeginCompact \/ Summarized \/ Rebuilt \/ CompactFails \/ CompactInterrupted

\* A turn and its tools
Turn ==
    \/ AppendUser \/ BeginPrefill \/ Prefilled \/ TurnFails \/ TurnInterrupted \/ ClearInterrupt
    \/ FinalAnswer \/ PublishIdle
    \/ ToolCall \/ Ask \/ AskInVain \/ AwaitAnswer \/ Answered \/ AskInterrupted \/ ToolDone
    \/ AppendResult \/ ContextFull \/ RequestDrain \/ AwaitDrain \/ Drained

Worker == Loop \/ Turn
=============================================================================
