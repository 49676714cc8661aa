-------------------------- MODULE AgentInteractive --------------------------
(***************************************************************************)
(* The terminal front end of ds4-agent (ds4_agent.c, run_agent) with the   *)
(* model thread of AgentWorker: one pass of its loop looks at Ctrl+C, the  *)
(* worker's status, its requests, the queue, the edit keys and the line    *)
(* typed, in this order.  /new, /switch, /save and the save before leaving *)
(* run on this thread when the worker is idle.                             *)
(*                                                                         *)
(* Left out: drawing, completion, history, /del, /strip, /power and the    *)
(* prompt of the command line.  The poll has a timeout of 100 ms, so the   *)
(* loop never depends on the wake pipe.                                    *)
(***************************************************************************)
EXTENDS AgentWorker

CONSTANT MaxActs    \* bound: keys and commands that are not messages

ASSUME ActsIsNat == MaxActs \in Nat

VARIABLES
    uret,     \* why the session is left or saved
    acts,
    shown,    \* the question on the screen
    raced     \* observer: idle was shown over a pending command, or both threads used the session

uiVars == <<uret, queue, typed, acts, shown>>
vars == <<workerVars, ui, uiVars, raced>>

Goals == {"loop", "new", "switch", "quit", "eof"}
Uis == {"loop", "signal", "consume", "fix", "asks", "prompt", "send", "edit", "escape", "line", "busy", "free",
        "save", "leave", "new", "newsync", "switch", "switching", "stop", "joining", "exited"}

TypeOK ==
    /\ pc \in Pcs /\ ret \in Pcs
    /\ turn \in Seq(Messages) /\ rounds \in 0..MaxRounds /\ asks \in 0..MaxAsks
    /\ asleep \in BOOLEAN /\ status \in Statuses /\ initialized \in BOOLEAN
    /\ stop \in BOOLEAN /\ interrupt \in BOOLEAN /\ saveReq \in BOOLEAN /\ compactReq \in BOOLEAN
    /\ cmd \in Seq(Messages)
    /\ drain \in [pending : BOOLEAN, answered : BOOLEAN, text : Seq(Messages)]
    /\ approval \in [pending : BOOLEAN, answered : BOOLEAN, allow : BOOLEAN, of : 0..MaxAsks]
    /\ heard \in (0..MaxAsks) \X (0..MaxAsks)
    /\ conv \in 0..MaxMessages /\ name \in 0..MaxMessages
    /\ DOMAIN files \subseteq Messages /\ \A n \in DOMAIN files : files[n] \in 0..MaxMessages
    /\ activity \in BOOLEAN /\ dirty \in BOOLEAN /\ changed \in BOOLEAN
    /\ activity => name # 0
    /\ delivered \in Seq(Messages) /\ gone \subseteq Messages
    /\ ui \in Uis /\ uret \in Goals /\ queue \in Seq(Seq(Messages))
    /\ typed \in 0..MaxMessages /\ acts \in 0..MaxActs /\ shown \in 0..MaxAsks /\ raced \in BOOLEAN

Init ==
    /\ WorkerInit
    /\ ui = "loop" /\ uret = "loop" /\ queue = <<>> /\ typed = 0 /\ acts = 0 /\ shown = 0 /\ raced = FALSE

UIUsesSession == ui \in {"new", "newsync", "switching"} \/ (ui = "save" /\ activity)

ThreadsCollide == WorkerUsesSession /\ UIUsesSession

-----------------------------------------------------------------------------
\* A step of the loop that leaves the worker alone
Walk(there) == ui' = there /\ UNCHANGED <<workerVars, uiVars>>

\* A step that leaves the worker alone and uses up one key or command
Act(there) ==
    /\ acts < MaxActs /\ acts' = acts + 1
    /\ ui' = there
    /\ UNCHANGED <<workerVars, uret, queue, typed, shown>>

NoKey == ui = "loop" /\ Walk("consume")

\* Ctrl+C: the check and the interrupt are two critical sections
CtrlC == ui = "loop" /\ Act(IF Idle THEN "consume" ELSE "signal")

SendInterrupt ==
    /\ ui \in {"signal", "escape"}
    /\ ui' = IF ui = "signal" THEN "consume" ELSE "line"
    /\ Interrupt
    /\ UNCHANGED <<thread, asleep, initialized, stop, saveReq, compactReq, cmd, handoffs, session, delivered,
                   gone, uiVars>>

Consume == ui = "consume" /\ Walk(IF status = "error" THEN "fix" ELSE "asks")

\* the error has been shown: whatever the status is by now, it becomes IDLE
ForgetError ==
    /\ ui = "fix"
    /\ ui' = "asks"
    /\ status' = "idle"
    /\ UNCHANGED <<thread, asleep, initialized, flags, cmd, handoffs, session, delivered, gone, uiVars>>

\* agent_prompt_queue_take_all
All == Flat(queue)

AnswerDrain ==
    /\ ui = "asks" /\ drain.pending
    /\ drain' = [pending |-> FALSE, answered |-> TRUE, text |-> All]
    /\ queue' = <<>>
    /\ asleep' = FALSE
    /\ ui' = "loop"
    /\ UNCHANGED <<thread, status, initialized, flags, cmd, approval, heard, session, delivered, gone,
                   uret, typed, acts, shown>>

\* the question is shown; `of` remembers which one it was
TakeQuestion ==
    /\ ui = "asks" /\ ~drain.pending /\ approval.pending
    /\ approval' = [approval EXCEPT !.pending = FALSE]
    /\ shown' = asks
    /\ ui' = "prompt"
    /\ UNCHANGED <<thread, asleep, status, initialized, flags, cmd, drain, heard, session, delivered, gone,
                   uret, queue, typed, acts>>

\* Mutated form: the answer does not wake the worker.
TellQuietly(allow) ==
    /\ approval' = [approval EXCEPT !.answered = TRUE, !.allow = allow, !.of = shown]
    /\ UNCHANGED asleep

\* worker_answer_web_approval
Tell(allow) ==
    /\ approval' = [approval EXCEPT !.answered = TRUE, !.allow = allow, !.of = shown]
    /\ asleep' = FALSE

\* yes, no, or no after 30 seconds
AnswerQuestion ==
    /\ ui = "prompt"
    /\ \E allow \in BOOLEAN : Tell(allow)
    /\ ui' = "loop"
    /\ UNCHANGED <<thread, status, initialized, flags, cmd, drain, heard, session, delivered, gone, uiVars>>

NothingAsked == ui = "asks" /\ ~drain.pending /\ ~approval.pending /\ Walk("send")

\* Mutated form: a text that is refused is not put back.
SubmitAndForget(text) ==
    /\ queue' = <<>>
    /\ IF CanSubmit THEN Submit(text) ELSE UNCHANGED <<cmd, asleep, status>>

\* the queue becomes one text, put back if the worker does not take it
SubmitQueued(text) ==
    IF CanSubmit THEN Submit(text) /\ queue' = <<>>
    ELSE queue' = <<text>> /\ UNCHANGED <<cmd, asleep, status>>

SendQueue ==
    /\ ui = "send" /\ queue # <<>> /\ Idle
    /\ SubmitQueued(All)
    /\ ui' = "edit"
    /\ UNCHANGED <<thread, initialized, flags, handoffs, session, delivered, gone, uret, typed, acts, shown>>

NoSend == ui = "send" /\ (queue = <<>> \/ ~Idle) /\ Walk("edit")

NoEdit == ui = "edit" /\ Walk("line")

\* Ctrl+X: the oldest queued text goes back to the editor
CtrlX ==
    /\ ui = "edit" /\ queue # <<>>
    /\ acts < MaxActs /\ acts' = acts + 1
    /\ gone' = gone \union ToSet(Head(queue))
    /\ queue' = Tail(queue)
    /\ ui' = "line"
    /\ UNCHANGED <<thread, asleep, status, initialized, flags, cmd, handoffs, session, delivered, uret, typed, shown>>

Escape == ui = "edit" /\ queue # <<>> /\ ~Idle /\ Act("escape")

NoLine == ui = "line" /\ Walk("loop")

\* a line: the worker is found busy or free once, for the whole command
EnterLine ==
    /\ ui = "line" /\ (typed < MaxMessages \/ acts < MaxActs)
    /\ Walk(IF Idle THEN "free" ELSE "busy")

EndOfInput == ui = "line" /\ ui' = "leave" /\ uret' = "eof" /\ UNCHANGED <<workerVars, queue, typed, acts, shown>>

(***************************************************************************)
(* The commands.                                                           *)
(***************************************************************************)
QueueMessage ==
    /\ ui = "busy" /\ typed < MaxMessages
    /\ typed' = typed + 1
    /\ queue' = Append(queue, <<typed + 1>>)
    /\ ui' = "loop"
    /\ UNCHANGED <<workerVars, uret, acts, shown>>

\* accepted, or back in the editor
SendMessage ==
    /\ ui = "free" /\ typed < MaxMessages
    /\ typed' = typed + 1
    /\ IF CanSubmit THEN Submit(<<typed + 1>>) /\ UNCHANGED gone
       ELSE gone' = gone \union {typed + 1} /\ UNCHANGED <<cmd, asleep, status>>
    /\ ui' = "loop"
    /\ UNCHANGED <<thread, initialized, flags, handoffs, session, delivered, uret, queue, acts, shown>>

\* a request wakes the worker
Request ==
    /\ asleep' = FALSE
    /\ ui' = "loop"
    /\ acts < MaxActs /\ acts' = acts + 1
    /\ UNCHANGED <<thread, status, initialized, stop, interrupt, cmd, handoffs, session, delivered, gone,
                   uret, queue, typed, shown>>

RequestSave == ui = "busy" /\ saveReq' = TRUE /\ Request /\ UNCHANGED compactReq

RequestCompact == ui \in {"busy", "free"} /\ compactReq' = TRUE /\ Request /\ UNCHANGED saveReq

\* /save, /new, /switch and /quit of an idle worker
Command(goal, there) ==
    /\ ui = "free"
    /\ acts < MaxActs /\ acts' = acts + 1
    /\ uret' = goal
    /\ ui' = there
    /\ UNCHANGED <<workerVars, queue, typed, shown>>

SaveNow == Command("loop", IF Idle THEN "save" ELSE "loop")

NewSession == Command("new", "leave")

SwitchSession == DOMAIN files # {} /\ Command("switch", "leave")

Quit == Command("quit", "leave")

Refused == ui = "busy" /\ Act("loop")

(***************************************************************************)
(* Leaving a session, after the offer to save it.                          *)
(***************************************************************************)
NeedsSave == activity /\ dirty

Leaving == uret \in {"quit", "eof"}

Left == IF Leaving THEN "stop" ELSE uret

\* the save failed, and the user goes on or not
AfterFailedSave ==
    CASE uret = "loop" -> {"loop"}
      [] uret = "eof" -> {"exited", "stop"}
      [] uret = "quit" -> {"exited", "loop"}
      [] OTHER -> {uret, "loop"}

NothingToSave == ui = "leave" /\ ~NeedsSave /\ Walk(Left)

DeclineSave == ui = "leave" /\ NeedsSave /\ Walk(IF Leaving THEN "exited" ELSE uret)

AcceptSave ==
    /\ ui = "leave" /\ NeedsSave
    /\ IF Idle THEN Walk("save") ELSE \E there \in AfterFailedSave : Walk(there)

Saved ==
    /\ ui = "save"
    /\ SaveSession
    /\ ui' = IF uret = "loop" THEN "loop" ELSE Left
    /\ UNCHANGED <<thread, asleep, status, initialized, flags, cmd, handoffs, delivered, gone, uiVars>>

SaveFails == ui = "save" /\ \E there \in AfterFailedSave : Walk(there)

(***************************************************************************)
(* /new and /switch.                                                       *)
(***************************************************************************)
\* the transcript is replaced; from the cache, the reset is complete
ResetFromCache ==
    /\ ui = "new"
    /\ conv' = 0
    /\ ResetIdentity
    /\ ui' = "loop"
    /\ UNCHANGED <<thread, asleep, initialized, flags, cmd, handoffs, files, delivered, gone, uiVars>>

\* without a cache, it has to be prefilled, under the status PREFILL
ResetTranscript ==
    /\ ui = "new"
    /\ conv' = 0 /\ changed' = TRUE
    /\ status' = "prefill"
    /\ ui' = "newsync"
    /\ UNCHANGED <<thread, asleep, initialized, flags, cmd, handoffs, name, files, activity, dirty, delivered,
                   gone, uiVars>>

ResetDone ==
    /\ ui = "newsync" /\ ~Interrupted
    /\ ResetIdentity
    /\ ui' = "loop"
    /\ UNCHANGED <<thread, asleep, initialized, flags, cmd, handoffs, conv, files, delivered, gone, uiVars>>

\* nothing is undone: status, identity and activity stay
ResetFails == ui = "newsync" /\ Walk("loop")

\* unlike /new, /switch looks again whether the worker is idle
CheckSwitch == ui = "switch" /\ Walk(IF Idle THEN "switching" ELSE "loop")

Switched ==
    /\ ui = "switching"
    /\ \E n \in DOMAIN files : name' = n /\ conv' = files[n]
    /\ activity' = TRUE /\ dirty' = FALSE /\ changed' = FALSE
    /\ status' = "idle"
    /\ ui' = "loop"
    /\ UNCHANGED <<thread, asleep, initialized, flags, cmd, handoffs, files, delivered, gone, uiVars>>

SwitchFails == ui = "switching" /\ Walk("loop")

(***************************************************************************)
(* Leaving the program.                                                    *)
(***************************************************************************)
StopWorker ==
    /\ ui = "stop"
    /\ Stop
    /\ ui' = "joining"
    /\ UNCHANGED <<thread, status, initialized, interrupt, saveReq, compactReq, cmd, handoffs, session,
                   delivered, gone, uiVars>>

JoinWorker == ui = "joining" /\ pc = "stopped" /\ Walk("exited")

-----------------------------------------------------------------------------
LoopStep ==
    \/ NoKey \/ CtrlC \/ SendInterrupt \/ Consume \/ ForgetError
    \/ AnswerDrain \/ TakeQuestion \/ AnswerQuestion \/ NothingAsked
    \/ SendQueue \/ NoSend \/ NoEdit \/ CtrlX \/ Escape \/ NoLine \/ EnterLine \/ EndOfInput

CommandStep ==
    \/ QueueMessage \/ SendMessage \/ RequestSave \/ RequestCompact
    \/ SaveNow \/ NewSession \/ SwitchSession \/ Quit \/ Refused
    \/ NothingToSave \/ DeclineSave \/ AcceptSave \/ Saved \/ SaveFails
    \/ ResetFromCache \/ ResetTranscript \/ ResetDone \/ ResetFails \/ CheckSwitch \/ Switched \/ SwitchFails
    \/ StopWorker \/ JoinWorker

UI == LoopStep \/ CommandStep

\* the process may exit while the worker is anywhere
WorkerStep == ui # "exited" /\ Worker /\ UNCHANGED <<ui, uiVars>>

Spurious == ui # "exited" /\ SpuriousWake /\ UNCHANGED <<ui, uiVars>>

IdleWhilePending == cmd # <<>> /\ Idle

Observe == raced' = (raced \/ ThreadsCollide' \/ IdleWhilePending')

Exited == ui = "exited" /\ UNCHANGED vars

Next == ((UI \/ WorkerStep \/ Spurious) /\ Observe) \/ Exited

Spec == Init /\ [][Next]_vars

(***************************************************************************)
(* Properties.                                                             *)
(***************************************************************************)
SetOf(texts) == {texts[i] : i \in 1..Len(texts)}

\* The places a message can be in, one after the other.
Waiting == Flat(queue) \o cmd \o turn \o drain.text

\* A message typed is in exactly one place: the queue, the pending command, the
\* turn being started, the answer to a drain request, a transcript, or given
\* back or dropped.  Catches a pending command overwritten by another submit, a
\* text lost or doubled when the worker refuses it, a drain answered twice.
MessagesKept ==
    LET held == Waiting \o delivered IN
    /\ \A i, j \in 1..Len(held) : held[i] = held[j] => i = j
    /\ SetOf(held) \union gone = 1..typed
    /\ SetOf(held) \intersect gone = {}

\* The answer a tool acts on was given to the question it asked, although the
\* worker may give up a question (Ctrl+C) that is still on the screen and ask
\* another one before the user answers.  Not once a command was accepted in the
\* middle of a turn (IdleWhilePending): that turn's end starts another one at
\* once, and its question takes the late answer.
AnswersItsQuestion == raced \/ heard[1] = heard[2]

AtRest == pc = "wait" /\ ~UIUsesSession

\* A session that is not marked dirty is on disk as it is, so that leaving it
\* without the offer to save loses nothing.  Not after the two threads have
\* used the session at once, nor after a /new that failed half way.
CleanMeansSaved ==
    AtRest /\ ~raced /\ conv = name /\ activity /\ ~dirty =>
        ~changed /\ name \in DOMAIN files /\ files[name] = conv

(***************************************************************************)
(* Liveness.  Both threads run; the user answers what is asked, within the *)
(* time limit or at the prompt that blocks the loop.                       *)
(***************************************************************************)
FairSpec ==
    /\ Spec
    /\ WF_vars(UI /\ Observe)
    /\ WF_vars(WorkerStep /\ Observe)

\* The worker does not wait for ever for what it asked of the terminal: the
\* answer to a question, or the queue; nor the terminal for the worker it has
\* told to stop, wherever that is.
WaitsEnd ==
    /\ pc = "asking" ~> pc # "asking" \/ ui = "exited"
    /\ pc = "draining" ~> pc # "draining" \/ ui = "exited"
    /\ ui = "joining" ~> ui = "exited"
=============================================================================
