----------------------------- MODULE DistSession -----------------------------
(***************************************************************************)
(* One session spread over a coordinator and its workers                   *)
(* (ds4_distributed.c).  The coordinator runs the first layers, sends the  *)
(* hidden states along a route of workers, each of which keeps the KV rows *)
(* of its own layers, and takes back logits.  Workers come, go and restart *)
(* at any time; work of a route that was given up may still reach them.    *)
(*                                                                         *)
(* A token hash is the sequence it was computed from.  A KV state is the   *)
(* timeline it claims (tl), whether it may be continued (valid), the       *)
(* cached hash, and whether its rows are what the claim says (sound).  The *)
(* same flag travels with hidden states, results and snapshots: no code    *)
(* reads it.                                                               *)
(***************************************************************************)
EXTENDS DistRoute, SequencesExt, FiniteSetsExt

CONSTANTS
  Tokens,
  Transcripts,  \* bound: the transcripts callers get to, with their prefixes
  Prompts,      \* the ones a caller may ask for
  Cap,          \* chunk_cap: tokens evaluated at once
  Window,       \* chunks of a pipelined prefill under way at once
  Kept,         \* transcripts a caller may save
  NoHash,       \* token_hash_valid is false
  MaxFaults,    \* bound: crashes, disconnects and failures
  MaxLate       \* bound: frames of abandoned routes that still arrive

ASSUME TranscriptsArePrefixClosed ==
  /\ Transcripts \subseteq Seq(Tokens) /\ <<>> \in Transcripts
  /\ \A t \in Transcripts : \A n \in 0..Len(t) : SubSeq(t, 1, n) \in Transcripts
ASSUME PromptsAreTranscripts == Prompts \subseteq Transcripts \ {<<>>}
ASSUME CapIsPositive == Cap \in Nat \ {0} /\ Window \in Nat \ {0}
ASSUME NoHashIsNone == NoHash \notin Transcripts
ASSUME BoundsAreNat == MaxFaults \in Nat /\ MaxLate \in Nat

VARIABLES
  at,       \* a worker's control connection, as the worker sees it
  entry,    \* its entry in the registry, and whether that connection lives
  kv,       \* the state of its session
  fwd,      \* pairs of workers with a data connection from one to the other
  plan,     \* the coordinator's route, and whether the registry still has
            \* the generation it was built from
  own,      \* the owner session: the coordinator's own layers
  logits,   \* what the owner's logits were computed from
  call,     \* the call under way
  answer,   \* the outcome of the last one
  wire,     \* work on its way to each hop of the route
  back,     \* results on their way to the coordinator
  late,     \* work on its way to a worker whose route was given up
  saved,    \* the last snapshot of the whole session
  faults

workerVars == <<at, entry, kv, fwd>>
vars == <<at, entry, kv, fwd, plan, own, logits, call, answer, wire, back, late,
          saved, faults>>

States == [tl : Transcripts, valid : BOOLEAN, hash : Transcripts \cup {NoHash},
           sound : BOOLEAN]
Empty == [tl |-> <<>>, valid |-> FALSE, hash |-> NoHash, sound |-> TRUE]

(* A WORK frame: the transcript before its tokens and after them.          *)
Frames == [pre : Transcripts, post : Transcripts, reset : BOOLEAN, sound : BOOLEAN]
Results == [post : Transcripts, ok : BOOLEAN, sound : BOOLEAN]
Hops == 1..Cardinality(Workers)
NoPlan == [path |-> <<>>, ready |-> FALSE, current |-> FALSE, live |-> FALSE]
NoAnswer == [op |-> "none", target |-> <<>>, ok |-> FALSE]
Idle == [op |-> "none", target |-> <<>>, from |-> 0, next |-> 0, got |-> 0,
         reset |-> FALSE, piped |-> FALSE, replay |-> FALSE, sound |-> TRUE]

Init ==
  /\ at = [w \in Workers |-> "away"]
  /\ entry = [w \in Workers |-> "none"]
  /\ kv = [w \in Workers |-> Empty]
  /\ fwd = {}
  /\ plan = NoPlan
  /\ own = [tl |-> <<>>, valid |-> FALSE]
  /\ logits = [of |-> <<>>, sound |-> TRUE]
  /\ call = Idle
  /\ answer = NoAnswer
  /\ wire = [k \in Hops |-> <<>>] /\ back = <<>> /\ late = {}
  /\ saved = [of |-> <<>>, logits |-> <<>>, sound |-> TRUE]
  /\ faults = 0
-----------------------------------------------------------------------------
(* Connections.                                                            *)

LastHop == Len(plan.path)

(* Work of the route in use that has not been done. *)
InFlight == UNION {{[path |-> plan.path, hop |-> k, frame |-> wire[k][i]]
                      : i \in DOMAIN wire[k]} : k \in {j \in Hops : j <= LastHop}}

(* The coordinator's end of the route is gone: what is under way to a      *)
(* worker may still reach it, as far as it was sent.                       *)
Abandon(old) ==
  /\ wire' = [k \in Hops |-> <<>>]
  /\ \E S \in SUBSET (old \cup InFlight) : Cardinality(S) <= MaxLate /\ late' = S

(* The control connections of some workers end: a worker finds out when it *)
(* has dealt with what it received.                                        *)
HungUp(S) == [w \in Workers |-> IF w \in S /\ at[w] = "connected" THEN "hup" ELSE at[w]]
Dead(S) == [w \in Workers |-> IF w \in S /\ entry[w] = "live" THEN "dead" ELSE entry[w]]

UsesLive(S) == plan.live /\ plan.path[1] \in S

(* Mutated form: the generation is left as it was. *)
SameGeneration == plan

NewGeneration == [plan EXCEPT !.current = FALSE]

(* dist_run_worker connects and says HELLO; dist_coordinator_add_worker    *)
(* takes the place of an older entry of the same worker.                   *)
Register(w) ==
  /\ at[w] = "away"
  /\ at' = [at EXCEPT ![w] = "connected"]
  /\ entry' = [entry EXCEPT ![w] = "live"]
  /\ plan' = NewGeneration
  /\ UNCHANGED <<kv, fwd, own, logits, call, answer, wire, back, late, saved, faults>>

(* dist_coordinator_client_main: the thread that watches the connection.   *)
RemoveWorker(w) ==
  /\ entry[w] = "dead"
  /\ entry' = [entry EXCEPT ![w] = "none"]
  /\ plan' = NewGeneration
  /\ UNCHANGED <<at, kv, fwd, own, logits, call, answer, wire, back, late, saved, faults>>

(* dist_run_worker, after its read loop: no session outlives the           *)
(* connection to the coordinator.                                          *)
Notice(w) ==
  /\ at[w] = "hup"
  /\ at' = [at EXCEPT ![w] = "away"]
  /\ kv' = [kv EXCEPT ![w] = Empty]
  /\ fwd' = {f \in fwd : f[1] # w}
  /\ late' = {l \in late : l.hop # 1 \/ l.path[1] # w}
  /\ UNCHANGED <<entry, plan, own, logits, call, answer, wire, back, saved, faults>>

Fault == faults < MaxFaults /\ faults' = faults + 1

(* The relays of S end: each answers for one request it waits for, and     *)
(* shuts its own upstream connection.                                      *)
RelaysEnd(S, old) ==
  IF UsesLive(S)
  THEN /\ Abandon(old)
       /\ plan' = [plan EXCEPT !.live = FALSE]
       /\ LET unanswered == UNION {{wire[k][i] : i \in DOMAIN wire[k]} : k \in Hops \ {1}}
          IN \/ /\ unanswered = {} /\ back' = back
             \/ \E f \in unanswered :
                  /\ \A g \in unanswered : Len(f.post) <= Len(g.post)
                  /\ back' = Append(back, [post |-> f.post, ok |-> FALSE, sound |-> TRUE])
  ELSE late' = old /\ UNCHANGED <<plan, wire, back>>

(* A worker's process ends and is started again, or one of its connections *)
(* breaks: to the coordinator, or from a worker before it.                 *)
Crash(w) ==
  LET upstream == {u \in Workers : <<u, w>> \in fwd}
      lost == upstream \cup {w}
      rest == {l \in late : l.path[l.hop] # w}
  IN /\ Fault /\ at[w] # "away"
     /\ at' = [HungUp(upstream) EXCEPT ![w] = "away"]
     /\ entry' = Dead(lost)
     /\ kv' = [kv EXCEPT ![w] = Empty]
     /\ fwd' = {f \in fwd : w \notin {f[1], f[2]}}
     /\ IF UsesLive({w})
        THEN /\ Abandon(rest)
             /\ plan' = [plan EXCEPT !.live = FALSE]
             /\ back' \in {back, <<>>}
        ELSE RelaysEnd(upstream, rest)
     /\ UNCHANGED <<own, logits, call, answer, saved>>

Disconnect(w) ==
  /\ Fault /\ at[w] = "connected"
  /\ at' = HungUp({w}) /\ entry' = Dead({w})
  /\ IF UsesLive({w})
     THEN /\ Abandon(late)
          /\ plan' = [plan EXCEPT !.live = FALSE]
          /\ back' \in {back, <<>>}
     ELSE UNCHANGED <<plan, wire, back, late>>
  /\ UNCHANGED <<kv, fwd, own, logits, call, answer, saved>>

LinkBreaks(u, w) ==
  /\ Fault /\ <<u, w>> \in fwd
  /\ fwd' = fwd \ {<<u, w>>}
  /\ at' = HungUp({u}) /\ entry' = Dead({u})
  /\ RelaysEnd({u}, late)
  /\ UNCHANGED <<kv, own, logits, call, answer, saved>>

-----------------------------------------------------------------------------
(* Workers: dist_worker_process_work_payload.                              *)

(* The session as the checks find it: reset if the frame says so, with its *)
(* hash at hand.                                                           *)
Base(s, f) == IF f.reset THEN [Empty EXCEPT !.hash = <<>>]
              ELSE [s EXCEPT !.hash = IF s.hash = NoHash THEN s.tl ELSE s.hash]

(* Mutated form: only the length of the prefix is compared. *)
SamePosition(b, f) == Len(b.hash) = Len(f.pre)

SamePrefix(b, f) == b.hash = f.pre

(* ds4_session_slice_check_timeline. *)
Continues(b, f) == IF b.valid THEN Len(b.tl) = Len(f.pre) ELSE f.pre = <<>>

Extended(b, f) ==
  [tl |-> b.tl \o SubSeq(f.post, Len(f.pre) + 1, Len(f.post)),
   valid |-> TRUE, hash |-> f.post,
   sound |-> b.sound /\ f.sound /\ b.tl = f.pre]

(* A failed evaluation has written some of its rows. *)
Spoiled(b) == [b EXCEPT !.valid = FALSE, !.hash = NoHash, !.sound = FALSE]

Refused(b, f) == IF SamePrefix(b, f) THEN [b EXCEPT !.hash = NoHash] ELSE b

Does(b, f) == SamePrefix(b, f) /\ Continues(b, f)

Takes(k) == call.op \in {"sync", "eval"} /\ plan.live /\ k <= LastHop /\ wire[k] # <<>>

(* Mutated form: a refused frame is dropped. *)
NoReply(f) == back

(* dist_worker_upstream_send_work_error. *)
ErrorReply(f) == Append(back, [post |-> f.post, ok |-> FALSE, sound |-> TRUE])

Work(k) ==
  LET w == plan.path[k]
      f == Head(wire[k])
      b == Base(kv[w], f)
      s == Extended(b, f)
  IN /\ Does(b, f)
     /\ kv' = [kv EXCEPT ![w] = s]
     /\ IF k < LastHop
        THEN /\ wire' = [wire EXCEPT ![k] = Tail(@),
                                     ![k + 1] = Append(@, [f EXCEPT !.sound = s.sound])]
             /\ fwd' = fwd \cup {<<w, plan.path[k + 1]>>}
             /\ back' = back
        ELSE /\ wire' = [wire EXCEPT ![k] = Tail(@)]
             /\ back' = Append(back, [post |-> f.post, ok |-> TRUE, sound |-> s.sound])
             /\ fwd' = fwd
     /\ UNCHANGED <<at, entry, plan, own, logits, call, answer, late, saved, faults>>

(* The frame is refused, or it is a fault of this worker: the next one     *)
(* cannot be reached, or the evaluation fails half way.                    *)
WorkRefused(k) ==
  LET w == plan.path[k]
      f == Head(wire[k])
      b == Base(kv[w], f)
  IN /\ \/ /\ ~Does(b, f)
           /\ kv' = [kv EXCEPT ![w] = Refused(b, f)]
           /\ faults' = faults
        \/ /\ Does(b, f) /\ Fault
           /\ \/ kv' = [kv EXCEPT ![w] = Spoiled(b)]
              \/ k < LastHop /\ kv' = [kv EXCEPT ![w] = Extended(b, f)]
     /\ wire' = [wire EXCEPT ![k] = Tail(@)]
     /\ back' = ErrorReply(f)
     /\ UNCHANGED <<at, entry, fwd, plan, own, logits, call, answer, late, saved>>

(* Work of a route given up reaches its worker all the same. *)
LateWork(l) ==
  LET w == l.path[l.hop]
      f == l.frame
      b == Base(kv[w], f)
      s == Extended(b, f)
  IN /\ (l.hop = 1) => at[w] = "hup"
     /\ kv' = [kv EXCEPT ![w] = IF Does(b, f) THEN s ELSE Refused(b, f)]
     /\ late' = (late \ {l}) \cup
                (IF Does(b, f) /\ l.hop < Len(l.path)
                 THEN {[path |-> l.path, hop |-> l.hop + 1,
                        frame |-> [f EXCEPT !.sound = s.sound]]} ELSE {})
     /\ UNCHANGED <<at, entry, fwd, plan, own, logits, call, answer, wire, back, saved,
                    faults>>

-----------------------------------------------------------------------------
(* The coordinator: which route a call uses.                               *)

Built(e) ==
  {[path |-> p, ready |-> TRUE, current |-> TRUE, live |-> e[p[1]] = "live"]
     : p \in Routes({w \in Workers : e[w] # "none"})}

(* dist_session_ensure_route: the plan it has, as long as the registry has *)
(* not changed, or a new one.                                              *)
Ensured == IF plan.ready /\ plan.current THEN {plan} ELSE Built(entry)

Ends(op, target, ok) ==
  /\ call' = Idle
  /\ answer' = [op |-> op, target |-> target, ok |-> ok]

NoRoute(op, target) ==
  /\ Ensured = {}
  /\ plan' = NoPlan
  /\ Ends(op, target, FALSE)
  /\ UNCHANGED <<workerVars, logits, wire, back, late, saved, faults>>

Calls(op, target, from, reset) ==
  /\ plan' \in Ensured
  /\ call' = [Idle EXCEPT !.op = op, !.target = target, !.from = from,
                          !.next = from, !.got = from, !.reset = reset,
                          !.piped = Len(target) - from > Cap]
  /\ answer' = NoAnswer
  /\ UNCHANGED <<workerVars, own, logits, wire, back, late, saved, faults>>

(* Mutated form: only the lengths are compared. *)
Shorter(p) == own.valid /\ Len(own.tl) < Len(p)

PrefixOf(p) == own.valid /\ IsStrictPrefix(own.tl, p)

(* ds4_dist_session_sync: the whole prompt, or what follows the checkpoint *)
(* when that is a prefix of it.                                            *)
BeginSync(p) ==
  /\ call.op = "none"
  /\ \/ NoRoute("sync", p) /\ own' = own
     \/ /\ own.valid /\ own.tl = p
        /\ plan' \in Ensured
        /\ Ends("sync", p, TRUE)
        /\ UNCHANGED <<workerVars, own, logits, wire, back, late, saved, faults>>
     \/ PrefixOf(p) /\ Calls("sync", p, Len(own.tl), FALSE)
     \/ ~PrefixOf(p) /\ ~(own.valid /\ own.tl = p) /\ Calls("sync", p, 0, TRUE)

(* ds4_dist_session_eval: one more token after what was answered.          *)
BeginEval(t) ==
  /\ call.op = "none" /\ answer.ok /\ own.valid
  /\ LET target == Append(own.tl, t)
     IN /\ target \in Transcripts
        /\ \/ NoRoute("eval", target) /\ own' = own
           \/ Calls("eval", target, Len(own.tl), FALSE)

(* ds4_session_invalidate, by a caller that gives the transcript up. *)
Invalidate ==
  /\ call.op = "none"
  /\ own' = [tl |-> <<>>, valid |-> FALSE]
  /\ UNCHANGED <<workerVars, plan, logits, call, answer, wire, back, late, saved, faults>>
-----------------------------------------------------------------------------
(* The coordinator: its own layers, and the results.                       *)

Evaluating == call.op \in {"sync", "eval"}

(* The coordinator's layers as the next chunk finds them. *)
Local == IF call.reset /\ call.next = 0 THEN [tl |-> <<>>, valid |-> FALSE] ELSE own

Room == IF call.piped THEN call.next - call.got < Window * Cap ELSE call.next = call.got

(* A chunk starts: there is room for it, and the slot is acquired before   *)
(* the session is reset.                                                   *)
NextChunk ==
  /\ Evaluating /\ call.next < Len(call.target) /\ Room
  /\ IF Local.valid THEN Len(Local.tl) = call.next ELSE call.next = 0

ChunkEnd == Min({call.next + Cap, Len(call.target)})

(* ds4_session_eval_layer_slice, and the frame for the first hop.          *)
LocalChunk ==
  /\ NextChunk
  /\ LET pre == IF call.piped THEN SubSeq(call.target, 1, call.next) ELSE Local.tl
         new == SubSeq(call.target, call.next + 1, ChunkEnd)
         f == [pre |-> pre, post |-> pre \o new, reset |-> call.reset /\ call.next = 0,
               sound |-> Local.tl = pre]
     IN /\ own' = [tl |-> Local.tl \o new, valid |-> TRUE]
        /\ wire' = IF plan.live THEN [wire EXCEPT ![1] = Append(@, f)] ELSE wire
  /\ call' = [call EXCEPT !.next = ChunkEnd]
  /\ UNCHANGED <<workerVars, plan, logits, answer, back, late, saved, faults>>

(* What a failed evaluation leads to: once, the whole transcript is played *)
(* again; over the same route if a worker answered that it could not, else *)
(* over a new one after every worker of the old one was dropped.  A        *)
(* pipelined prefill has shut the connection to the first hop.             *)
RemoteError == 2
AfterFailure(rc) ==
  LET shut == IF call.piped THEN {plan.path[1]} ELSE {}
      forgets == rc # RemoteError /\ ~call.replay
      dropped == IF forgets THEN ToSet(plan.path) ELSE {}
      again == [call EXCEPT !.from = 0, !.next = 0, !.got = 0, !.reset = TRUE,
                            !.piped = Len(call.target) > Cap, !.replay = TRUE]
      left == [w \in Workers |-> IF w \in dropped THEN "none" ELSE Dead(shut)[w]]
  IN /\ at' = HungUp(shut \cup dropped) /\ entry' = left
     /\ Abandon(late) /\ back' = <<>>
     /\ \/ /\ call.replay
           /\ plan' = [plan EXCEPT !.ready = FALSE, !.current = FALSE,
                                   !.live = @ /\ ~call.piped]
           /\ Ends(call.op, call.target, FALSE)
        \/ /\ ~call.replay /\ ~forgets
           /\ plan' = [plan EXCEPT !.live = @ /\ ~call.piped]
           /\ call' = again /\ answer' = answer
        \/ /\ forgets /\ Built(left) = {}
           /\ plan' = NoPlan /\ Ends(call.op, call.target, FALSE)
        \/ /\ forgets /\ plan' \in Built(left)
           /\ call' = again /\ answer' = answer
     /\ UNCHANGED <<kv, fwd, logits, saved>>

(* The coordinator's own evaluation fails: a result that was already an    *)
(* error decides what is done about it.                                    *)
LocalFails ==
  /\ NextChunk /\ Fault
  /\ own' = [Local EXCEPT !.valid = FALSE]
  /\ \E rc \in {1} \cup {RemoteError : i \in {j \in DOMAIN back : ~back[j].ok}} :
       AfterFailure(rc)

(* What the next result must answer for: of a pipelined prefill the hashes *)
(* are those of the prompt, else they are those of the session.            *)
NextGot == IF call.piped THEN Min({call.got + Cap, Len(call.target)}) ELSE call.next
Expected == IF call.piped THEN SubSeq(call.target, 1, NextGot) ELSE own.tl

(* dist_prefill_result_reader_main, dist_coordinator_eval_remote_on_fd: a  *)
(* result counts for the request it answers.                               *)
ReadResult ==
  /\ Evaluating /\ back # <<>>
  /\ LET r == Head(back)
         done == NextGot = Len(call.target)
     IN IF r.post = Expected /\ r.ok
        THEN /\ back' = Tail(back)
             /\ IF done \/ ~call.piped
                THEN logits' = [of |-> r.post, sound |-> r.sound] ELSE logits' = logits
             /\ IF done
                THEN /\ Ends(call.op, call.target, TRUE)
                     /\ plan' = [plan EXCEPT !.ready = @ \/ call.replay]
                ELSE /\ call' = [call EXCEPT !.got = NextGot]
                     /\ UNCHANGED <<answer, plan>>
             /\ UNCHANGED <<workerVars, own, wire, late, saved, faults>>
        ELSE /\ AfterFailure(IF r.post = Expected THEN RemoteError ELSE 1)
             /\ UNCHANGED <<own, faults>>

(* The connection to the first hop is gone and nothing is left to read. *)
RouteBroken ==
  /\ Evaluating /\ ~plan.live /\ back = <<>>
  /\ call.piped \/ call.next > call.got
  /\ AfterFailure(1)
  /\ UNCHANGED <<own, faults>>
-----------------------------------------------------------------------------
(* Snapshots of the whole session.                                         *)

(* ds4_dist_session_save_payload: its own layers, then one shard a worker. *)
BeginSave ==
  /\ call.op = "none" /\ own.tl \in Kept
  /\ \/ NoRoute("save", own.tl) /\ own' = own
     \/ /\ Ensured # {} /\ ~own.valid
        /\ plan' \in Ensured
        /\ Ends("save", own.tl, FALSE)
        /\ UNCHANGED <<workerVars, own, logits, wire, back, late, saved, faults>>
     \/ own.valid /\ Calls("save", own.tl, 0, FALSE)

Shard == plan.path[call.got + 1]
NextShard == [call EXCEPT !.got = @ + 1, !.sound = @ /\ kv'[Shard].sound
                                                   /\ kv'[Shard].tl = call.target]

(* Mutated form: only the number of tokens is compared. *)
SameCount(s) == s.valid /\ Len(s.tl) = Len(call.target)

(* dist_worker_handle_snapshot_save. *)
Savable(s) == s.valid /\ s.tl = call.target

SaveShard ==
  /\ call.op = "save" /\ call.got < LastHop
  /\ kv' = kv
  /\ \/ /\ Savable(kv[Shard])
        /\ call' = NextShard /\ UNCHANGED <<answer, faults>>
     \/ /\ \/ ~Savable(kv[Shard]) /\ faults' = faults
           \/ Savable(kv[Shard]) /\ Fault
        /\ Ends("save", call.target, FALSE)
  /\ UNCHANGED <<at, entry, fwd, plan, own, logits, wire, back, late, saved>>

EndSave ==
  /\ call.op = "save" /\ call.got = LastHop
  /\ saved' = [of |-> call.target, logits |-> logits.of,
               sound |-> call.sound /\ logits.sound]
  /\ Ends("save", call.target, TRUE)
  /\ UNCHANGED <<workerVars, plan, own, logits, wire, back, late, faults>>

(* ds4_dist_session_load_payload: in the same order.  A caller whose       *)
(* restore failed invalidates the session.                                 *)
BeginLoad ==
  /\ call.op = "none" /\ saved.of # <<>>
  /\ \/ NoRoute("load", saved.of) /\ own' = [tl |-> <<>>, valid |-> FALSE]
     \/ /\ plan' \in Ensured
        /\ call' = [Idle EXCEPT !.op = "load", !.target = saved.of]
        /\ own' = [tl |-> saved.of, valid |-> TRUE]
        /\ answer' = NoAnswer
        /\ UNCHANGED <<workerVars, logits, wire, back, late, saved, faults>>

LoadShard ==
  /\ call.op = "load" /\ call.got < LastHop
  /\ \/ /\ kv' = [kv EXCEPT ![Shard] = [tl |-> saved.of, valid |-> TRUE,
                                          hash |-> saved.of, sound |-> saved.sound]]
        /\ call' = NextShard
        /\ UNCHANGED <<own, answer, faults>>
     \/ /\ Fault
        /\ kv' = [kv EXCEPT ![Shard] = Spoiled(@)]
        /\ own' = [tl |-> <<>>, valid |-> FALSE]
        /\ Ends("load", call.target, FALSE)
  /\ UNCHANGED <<at, entry, fwd, plan, logits, wire, back, late, saved>>

EndLoad ==
  /\ call.op = "load" /\ call.got = LastHop
  /\ logits' = [of |-> saved.logits, sound |-> saved.sound]
  /\ Ends("load", call.target, TRUE)
  /\ UNCHANGED <<workerVars, plan, own, wire, back, late, saved, faults>>
-----------------------------------------------------------------------------
Callers == \/ \E p \in Prompts : BeginSync(p)
           \/ \E t \in Tokens : BeginEval(t)
           \/ BeginSave \/ BeginLoad \/ Invalidate

Coordinator == LocalChunk \/ ReadResult \/ RouteBroken
               \/ SaveShard \/ EndSave \/ LoadShard \/ EndLoad

Hop(k) == Takes(k) /\ (Work(k) \/ WorkRefused(k))

Failures == LocalFails \/ \E w \in Workers : \/ Crash(w) \/ Disconnect(w)
                                             \/ \E u \in Workers : LinkBreaks(u, w)

Membership == \E w \in Workers : Register(w) \/ RemoveWorker(w) \/ Notice(w)

Next == \/ Callers \/ Coordinator \/ Failures \/ Membership
        \/ \E k \in Hops : Hop(k)
        \/ \E l \in late : LateWork(l)

Fairness == WF_vars(Coordinator) /\ \A k \in Hops : WF_vars(Hop(k))

Spec == Init /\ [][Next]_vars /\ Fairness
-----------------------------------------------------------------------------
Plans == [path : Seq(Workers), ready : BOOLEAN, current : BOOLEAN, live : BOOLEAN]
Ops == {"none", "sync", "eval", "save", "load"}
CallStates == [op : Ops, target : Transcripts, from : Nat, next : Nat, got : Nat,
               reset : BOOLEAN, piped : BOOLEAN, replay : BOOLEAN, sound : BOOLEAN]
Answers == [op : Ops, target : Transcripts, ok : BOOLEAN]
LateFrames == {l \in [path : Seq(Workers), hop : Nat, frame : Frames] :
                 l.hop \in 1..Len(l.path)}

(* Every variable has its type. *)
TypeOK ==
  /\ at \in [Workers -> {"away", "connected", "hup"}]
  /\ entry \in [Workers -> {"none", "live", "dead"}]
  /\ kv \in [Workers -> States]
  /\ fwd \subseteq Workers \X Workers
  /\ plan \in Plans
  /\ own \in [tl : Transcripts, valid : BOOLEAN]
  /\ logits \in [of : Transcripts, sound : BOOLEAN]
  /\ call \in CallStates
  /\ answer \in Answers
  /\ wire \in [Hops -> Seq(Frames)]
  /\ back \in Seq(Results)
  /\ late \subseteq LateFrames
  /\ saved \in [of : Transcripts, logits : Transcripts, sound : BOOLEAN]
  /\ faults \in 0..MaxFaults

(* The logits a caller is given were computed from KV rows of every layer  *)
(* that hold exactly the tokens before them, whatever frames of routes     *)
(* given up, restarts and replays happened in between                      *)
(* (dist_worker_process_work_payload's prefix check).                      *)
LogitsSound == logits.sound

(* The cached plan is one the registry still supports: as long as the      *)
(* generation has not changed, its workers are registered, one follows the *)
(* other to the last layer, and its connection to the first is the one the *)
(* registry holds (dist_session_ensure_route).                             *)
PlanIsCurrent ==
  (plan.ready /\ plan.current) =>
    /\ Covers(plan.path)
    /\ \A w \in ToSet(plan.path) : entry[w] # "none"
    /\ (plan.live => entry[plan.path[1]] = "live")

(* A sync or a decode that worked leaves the coordinator's layers at the   *)
(* transcript asked for, and the logits are of it, also when a replay over *)
(* another route finished what the first attempt began                     *)
(* (dist_coordinator_rebuild_from_transcript).                             *)
WorkedReachesTarget ==
  [][(/\ answer' # answer \/ call' # call
      /\ Evaluating /\ call'.op = "none" /\ answer'.ok)
       => /\ own'.valid /\ own'.tl = call.target
          /\ logits'.of = call.target /\ logits'.sound]_vars

(* A snapshot holds rows of one transcript from every worker, although     *)
(* workers may restart or change sessions between two shards.              *)
SavedIsWhole == saved.sound

(* Whatever fails, a call comes back. *)
CallsEnd == (call.op # "none") ~> (call.op = "none")

==============================================================================
