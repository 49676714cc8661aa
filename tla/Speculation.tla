----------------------------- MODULE Speculation -----------------------------
(***************************************************************************)
(* Speculative decoding of one session (ds4.c): a drafter guesses the next *)
(* tokens, one batched forward of the target model checks them, what it    *)
(* rejects is rolled back.  A layer that compresses Ratio positions into   *)
(* one row keeps a frontier (the rows counted so far and the open group);  *)
(* raw rows need no rollback, the next forward overwrites them.            *)
(*                                                                         *)
(* A frontier and a row of logits are the history they were computed from. *)
(* Drafts are arbitrary: what only makes them good or long (the drafter's  *)
(* own cache, margins, confidence, the adaptive depth) is a choice.        *)
(***************************************************************************)
EXTENDS Integers, SequencesExt

CONSTANTS
  Tokens, Eos,
  Top(_),     \* the target's most likely token after a history
  Ctx,        \* ctx_size
  Ratio,      \* positions in a compressed row
  Configs,    \* how the engine was opened
  Prompts,    \* bound: the prompts that do not extend the checkpoint
  Lost,       \* a token of no history
  MaxFaults   \* bound: device calls that fail

ASSUME EosIsAToken == Eos \in Tokens
ASSUME SizesAreNat == Ctx \in Nat /\ Ratio \in Nat /\ MaxFaults \in Nat
ASSUME RatioIsFourOrMore == Ratio >= 4   \* ds4.c:638
ASSUME PromptsAreHistories == Prompts \subseteq Seq(Tokens) \ {<<>>}
ASSUME LostIsNoToken == Lost \notin Tokens
ASSUME ConfigsAreOptions ==
  Configs \subseteq [kind : {"mtp", "dspark"},
                     depth : 1..4,        \* mtp_draft_tokens
                     strict : BOOLEAN,    \* quality, or DS4_MTP_STRICT
                     copies : BOOLEAN]    \* a copy outside a command batch
                                          \* succeeds: not on Metal

VARIABLES
  conf,
  ckpt,     \* checkpoint
  valid,    \* checkpoint_valid
  front,    \* the compressors' frontier
  logits,
  seed,     \* combined_prev_hc_valid
  drafted,  \* mtp_draft_valid
  call,     \* the speculative call under way
  turn,     \* the generation under way: where it began, what its caller
            \* streamed, whether every token was asked greedily
  faults

graph == <<ckpt, front, logits>>
vars == <<conf, ckpt, valid, front, logits, seed, drafted, call, turn, faults>>

(* Contents that are no history: of a buffer nobody filled, and of what was *)
(* computed since a restore failed and its result was dropped.             *)
Unknown == <<Lost>>
Torn == <<Lost, Lost>>

(* A call: the tokens it committed before the verifier runs, the window    *)
(* the verifier gets, the checkpoint and the frontier it started from and  *)
(* the two frontiers captured on its way.                                  *)
Paths == {"none", "combined", "sample", "suffix", "exact", "dspark"}
NoCall == [pc |-> "idle", path |-> "none", out |-> <<>>, window |-> <<>>,
           base |-> <<>>, snap |-> Unknown, kept |-> <<Unknown, Unknown>>]

Init ==
  /\ conf \in Configs
  /\ ckpt = <<>> /\ valid = FALSE /\ front = <<>> /\ logits = Unknown
  /\ seed = FALSE /\ drafted = FALSE
  /\ call = NoCall
  /\ turn = [from |-> 0, out |-> <<>>, greedy |-> TRUE, open |-> FALSE]
  /\ faults = 0
-----------------------------------------------------------------------------
(* A frontier serves the end of history g if it counts the same rows: what *)
(* it holds of later positions of the open group is overwritten.           *)
Serves(f, g) ==
  f \notin {Unknown, Torn} /\ IsPrefix(g, f) /\ Len(f) \div Ratio = Len(g) \div Ratio

(* What a forward over tokens ts computes when it continues history g.     *)
After(f, g, ts) ==
  IF Serves(f, g) THEN g \o ts ELSE IF f = Torn THEN Torn ELSE Unknown

(* Both frontiers a verifier captures on its way: after its first row and  *)
(* after its second.  A window that fills whole groups is compressed in    *)
(* one go and captures none.                                               *)
FirstRows(n) == SubSeq(call.window, 1, n)
Aligned == Len(ckpt) % Ratio = 0 /\ Len(call.window) % Ratio = 0
Captures ==
  [i \in 1..2 |-> IF Len(call.window) > i /\ ~Aligned
                    THEN After(front, ckpt, FirstRows(i)) ELSE Unknown]

Room == Ctx - Len(ckpt)

(* A draft ends at Eos, unless a block of DSpark made it.                  *)
Guesses(n) ==
  {d \in SeqOf(Tokens, n) : Len(d) > 0
     /\ (conf.kind = "mtp" => \A i \in 1..Len(d) - 1 : d[i] # Eos)}

(* Tokens returned to the caller stop after Eos.                           *)
UpToEos(ts) ==
  IF \E i \in DOMAIN ts : ts[i] = Eos
    THEN SubSeq(ts, 1, CHOOSE i \in DOMAIN ts :
                         ts[i] = Eos /\ \A j \in 1..i - 1 : ts[j] # Eos)
    ELSE ts

(* combined_prev_hc counts as valid when its copy reports no success: the  *)
(* result of the copy is read the wrong way round.                         *)
SeedFromLast == seed' = ~conf.copies

Return(ts, greedily) ==
  LET still == turn.greedy /\ greedily
  IN  /\ call' = NoCall
      /\ turn' = [turn EXCEPT !.greedy = still, !.open = ~Contains(ts, Eos),
                              !.out = IF still THEN @ \o ts ELSE <<>>]

(* A call that fails returns -1 and leaves the session invalid.            *)
Broken ==
  /\ faults < MaxFaults /\ faults' = faults + 1
  /\ valid' = FALSE /\ call' = NoCall
  /\ turn' = [turn EXCEPT !.open = FALSE]
  /\ UNCHANGED seed

(* One token through every layer.                                          *)
Decode(ts) ==
  /\ front' = After(front, ckpt, ts) /\ logits' = front'
  /\ ckpt' = ckpt \o ts
DecodeFails == front' = Unknown /\ Broken /\ UNCHANGED <<ckpt, logits>>
-----------------------------------------------------------------------------
(* What the caller does between two calls.                                 *)

(* ds4_session_sync: a prompt that continues the checkpoint is appended,   *)
(* any other one starts over.                                              *)
Continues(p) == valid /\ IsPrefix(ckpt, p)

Synced(p, n, ok) ==
  /\ ckpt' = SubSeq(p, 1, n)
  /\ front' = IF Continues(p) THEN After(front, ckpt, SubSeq(p, Len(ckpt) + 1, n))
                              ELSE SubSeq(p, 1, n)
  /\ logits' = IF n = 0 \/ (Continues(p) /\ n = Len(ckpt)) THEN logits ELSE front'
  /\ valid' = (n > 0)
  /\ turn' = [from |-> n, out |-> <<>>, greedy |-> TRUE, open |-> ok]

Sync(p) ==
  /\ call.pc = "idle" /\ Len(p) < Ctx
  /\ drafted' = FALSE /\ UNCHANGED <<conf, seed, call>>
  /\ \/ /\ \/ Synced(p, Len(p), TRUE)
           \/ \E n \in (IF Continues(p) THEN Len(ckpt) ELSE 0)..Len(p) - 1 :
                Synced(p, n, FALSE)
        /\ UNCHANGED faults
     \/ /\ faults < MaxFaults /\ faults' = faults + 1
        /\ valid' = FALSE /\ front' = Unknown
        /\ ckpt' \in {IF Continues(p) THEN ckpt ELSE <<>>}
        /\ turn' = [turn EXCEPT !.open = FALSE]
        /\ UNCHANGED logits

NextPrompts == Prompts \cup {Append(ckpt, t) : t \in Tokens \ {Eos}}

Invalidate ==
  /\ call.pc = "idle" /\ valid
  /\ ckpt' = <<>> /\ valid' = FALSE /\ drafted' = FALSE
  /\ turn' = [turn EXCEPT !.open = FALSE]
  /\ UNCHANGED <<conf, front, logits, seed, call, faults>>

(* A caller samples from the logits and stops at Eos and at the context.   *)
Asks(t, greedy) ==
  /\ call.pc = "idle" /\ turn.open /\ Room > 0 /\ t # Eos
  /\ greedy => t = Top(logits)

(* ds4_session_eval by itself: the first token of a server's answer, and   *)
(* what a sampled step falls back to, which then seeds the next one.       *)
DraftsNext == drafted' \in IF conf.kind = "mtp" /\ conf.depth > 1 THEN BOOLEAN ELSE {FALSE}

Plain(t, greedy) ==
  /\ Asks(t, greedy)
  /\ \/ /\ Decode(<<t>>) /\ DraftsNext /\ Return(<<t>>, greedy)
        /\ SeedFromLast \/ UNCHANGED seed
        /\ UNCHANGED <<valid, faults>>
     \/ DecodeFails /\ drafted' = FALSE
  /\ UNCHANGED conf

(* The canonical greedy call evaluates the first token, then drafts.       *)
Canonical(t) ==
  /\ Asks(t, TRUE)
  /\ \/ /\ Decode(<<t>>) /\ DraftsNext
        /\ IF conf.kind = "mtp" THEN SeedFromLast ELSE UNCHANGED seed
        /\ call' = [NoCall EXCEPT !.pc = "draft", !.out = <<t>>]
        /\ UNCHANGED <<valid, turn, faults>>
     \/ DecodeFails /\ drafted' = FALSE
  /\ UNCHANGED conf

(* With a seed the first token and its drafts go through one forward.      *)
RoomForBatch == Room > conf.depth
Batch(t, d, path) ==
  /\ Asks(t, path # "sample")
  /\ conf.kind = "mtp" /\ ~conf.strict /\ seed
  /\ RoomForBatch
  /\ d \in Guesses(conf.depth)
  /\ call' = [NoCall EXCEPT !.pc = "verify", !.path = path,
                            !.base = ckpt, !.window = <<t>> \o d]
  /\ seed' = FALSE /\ drafted' = FALSE
  /\ UNCHANGED <<conf, graph, valid, turn, faults>>
Combined(t, d) == conf.depth = 2 /\ Batch(t, d, "combined")
Sample(t, d) == conf.depth \in 2..4 /\ Batch(t, d, "sample")
-----------------------------------------------------------------------------
(* Drafts after an evaluated first token.  The first draft is checked      *)
(* against logits that are there already.                                  *)
Scheduled == 2

(* Mutated form: the first draft is taken as it is.                        *)
MayDraftUnchecked(d) ==
  /\ d \in Guesses(conf.depth)
  /\ IF conf.kind = "dspark" THEN Len(d) <= Scheduled /\ Len(d) <= Room
                             ELSE drafted /\ conf.depth > 1 /\ Len(d) <= Room - 1

MayDraft(d) ==
  /\ d \in Guesses(conf.depth) /\ d[1] = Top(logits)
  /\ IF conf.kind = "dspark" THEN Len(d) <= Scheduled /\ Len(d) <= Room
                             ELSE drafted /\ conf.depth > 1 /\ Len(d) <= Room - 1

Draft(d) ==
  /\ call.pc = "draft" /\ MayDraft(d)
  /\ drafted' = FALSE
  /\ LET path == IF conf.kind = "dspark" THEN "dspark"
                 ELSE IF conf.strict /\ Len(d) = 2 THEN "exact" ELSE "suffix"
         verify == [call EXCEPT !.pc = "verify", !.path = path,
                                !.base = ckpt, !.window = d]
     IN  \/ call' = verify /\ UNCHANGED faults
         \/ /\ path = "exact" \/ (path = "suffix" /\ Len(d) > 2)
            /\ faults < MaxFaults /\ faults' = faults + 1
            /\ call' = [verify EXCEPT !.pc = "seq"]
  /\ UNCHANGED <<conf, graph, valid, seed, turn>>

NoDraft ==
  /\ call.pc = "draft"
  /\ Return(call.out, TRUE) /\ drafted' \in {drafted, FALSE}
  /\ UNCHANGED <<conf, graph, valid, seed, faults>>

(* A second draft with little margin is not worth a verifier.              *)
SkipSecond(d) ==
  /\ call.pc = "draft" /\ MayDraft(d)
  /\ conf.kind = "mtp" /\ ~conf.strict /\ Len(d) = 2
  /\ drafted' = FALSE
  /\ \/ /\ Decode(<<d[1]>>) /\ Return(Append(call.out, d[1]), TRUE)
        /\ UNCHANGED <<valid, seed, faults>>
     \/ DecodeFails
  /\ UNCHANGED conf
-----------------------------------------------------------------------------
(* metal_graph_verify_suffix_tops, and metal_graph_verify_decode2_exact.   *)
(* With a snapshot a failure falls back to it; whether the restore itself  *)
(* failed is not looked at.                                                *)
Snapshot == call.path = "exact" \/ (call.path = "suffix" /\ Len(call.window) > 2)

Fallback(f) ==
  /\ \/ front' = f /\ faults < MaxFaults /\ faults' = faults + 1
     \/ front' = Torn /\ faults + 1 < MaxFaults /\ faults' = faults + 2
  /\ call' = [call EXCEPT !.pc = "seq"]
  /\ UNCHANGED <<valid, logits, seed, turn>>

Verify ==
  /\ call.pc = "verify"
  /\ \/ /\ front' = After(front, ckpt, call.window)
        /\ ckpt' = ckpt \o call.window
        /\ call' = [call EXCEPT !.pc = "settle", !.snap = front, !.kept = Captures]
        /\ UNCHANGED <<valid, logits, seed, turn, faults>>
     \/ Snapshot /\ Fallback(front) /\ UNCHANGED ckpt
     \/ ~Snapshot /\ DecodeFails
  /\ UNCHANGED <<conf, drafted>>

(* The target's logits after row i of the window, and the rows it agrees   *)
(* with: each is the target's own choice after the row before it.          *)
Row(i) == IF front \in {Unknown, Torn} THEN front ELSE call.base \o FirstRows(i)
Agrees(k) == \A j \in 2..k : call.window[j] = Top(Row(j - 1))
Agreed == CHOOSE k \in DOMAIN call.window :
            Agrees(k) /\ (k = Len(call.window) \/ ~Agrees(k + 1))
Committed == IF call.path = "dspark" /\ Agreed < Len(call.window) /\ Agreed > 2
               THEN 2 ELSE Agreed

(* Mutated form: only the capture after the first row is used.             *)
RollbackFirst(k) ==
  IF k = 1 /\ k < Len(call.window) THEN call.kept[1] ELSE front

(* The compressors go back to the frontier captured after row k.           *)
Rollback(k) == IF k < Len(call.window) /\ k <= 2 THEN call.kept[k] ELSE front

Unsettled(k) ==
  /\ ckpt' = call.base \o FirstRows(k)
  /\ front' = Unknown /\ Broken /\ UNCHANGED logits
SettleFails(k) ==
  \/ call.path \in {"combined", "dspark"} /\ Unsettled(k)
  \/ call.path = "suffix" /\ ~Snapshot /\ Unsettled(0)
  \/ /\ Snapshot /\ k < Len(call.window)
     /\ ckpt' = call.base /\ Fallback(call.snap)

(* A snapshot is restored and the accepted drafts evaluated again when the *)
(* verifier captured nothing on its way, or its logits could not be read.  *)
Replays(k) ==
  /\ call.path = "suffix" /\ Snapshot
  /\ \/ k < Len(call.window) /\ UNCHANGED faults
     \/ k = Len(call.window) /\ faults < MaxFaults /\ faults' = faults + 1
  /\ ckpt' = call.base /\ front' = call.snap
  /\ call' = [call EXCEPT !.pc = "replay", !.window = FirstRows(k)]
  /\ UNCHANGED <<valid, logits, seed, turn>>

Settle ==
  /\ call.pc = "settle" /\ call.path # "sample"
  /\ LET k == Committed IN
     \/ /\ call.path # "suffix" \/ ~Snapshot \/ k = Len(call.window)
        /\ ckpt' = call.base \o FirstRows(k)
        /\ front' = Rollback(k) /\ logits' = Row(k)
        /\ IF call.path = "exact" THEN UNCHANGED seed ELSE SeedFromLast
        /\ valid' = TRUE /\ UNCHANGED faults
        /\ Return(call.out \o UpToEos(FirstRows(k)), TRUE)
     \/ Replays(k)
     \/ SettleFails(k)
  /\ drafted' = FALSE /\ UNCHANGED conf

(* Rejection sampling keeps any number of drafts; a rejected one is        *)
(* replaced by a token r of the residual distribution and evaluated.       *)
SettleSample(k, r) ==
  /\ call.pc = "settle" /\ call.path = "sample" /\ k \in DOMAIN call.window
  /\ LET whole == call.base \o FirstRows(k) IN
     \/ /\ IF k = Len(call.window)
             THEN /\ ckpt' = whole /\ front' = front /\ logits' = Row(k)
                  /\ Return(Tail(FirstRows(k)), FALSE)
             ELSE /\ ckpt' = Append(whole, r)
                  /\ front' = After(Rollback(k), whole, <<r>>) /\ logits' = front'
                  /\ Return(Append(Tail(FirstRows(k)), r), FALSE)
        /\ SeedFromLast /\ valid' = TRUE
        /\ drafted' \in IF seed' THEN BOOLEAN ELSE {FALSE}
        /\ UNCHANGED faults
     \/ Unsettled(k) /\ drafted' = FALSE
  /\ UNCHANGED conf

Replay ==
  /\ call.pc = "replay"
  /\ \/ /\ Decode(call.window) /\ Return(call.out \o UpToEos(call.window), TRUE)
        /\ valid' = TRUE /\ UNCHANGED <<seed, faults>>
     \/ Fallback(front) /\ UNCHANGED ckpt
  /\ drafted' = FALSE /\ UNCHANGED conf

(* The fallback evaluates the drafts one by one while the target agrees.   *)
Follows(k) ==
  \A j \in 1..k : call.window[j] =
    Top(IF j = 1 THEN logits ELSE After(front, ckpt, FirstRows(j - 1)))
Followed == CHOOSE k \in 0..Len(call.window) :
              Follows(k) /\ (k = Len(call.window) \/ ~Follows(k + 1))

Sequential ==
  /\ call.pc = "seq"
  /\ \/ /\ Decode(FirstRows(Followed)) /\ Return(call.out \o FirstRows(Followed), TRUE)
        /\ UNCHANGED <<valid, seed, faults>>
     \/ /\ \E k \in 0..Followed : ckpt' = ckpt \o FirstRows(k)
        /\ front' = Unknown /\ Broken /\ UNCHANGED logits
  /\ UNCHANGED <<conf, drafted>>
-----------------------------------------------------------------------------
Calls ==
  \/ \E t \in Tokens : Canonical(t) \/ \E g \in BOOLEAN : Plain(t, g)
  \/ \E t \in Tokens : \E d \in Guesses(conf.depth) : Combined(t, d) \/ Sample(t, d)
  \/ NoDraft \/ \E d \in Guesses(conf.depth) : Draft(d) \/ SkipSecond(d)
  \/ Verify \/ Settle \/ Replay \/ Sequential
  \/ \E k \in 1..Len(call.window) : \E r \in Tokens : SettleSample(k, r)
Next == Calls \/ Invalidate \/ \E p \in NextPrompts : Sync(p)
Spec == Init /\ [][Next]_vars
-----------------------------------------------------------------------------
(* Every variable keeps its type (ds4_session and ds4_gpu_graph).          *)
Contents == Seq(Tokens) \cup {Unknown, Torn}
TypeOK ==
  /\ conf \in Configs /\ valid \in BOOLEAN /\ seed \in BOOLEAN /\ drafted \in BOOLEAN
  /\ ckpt \in Seq(Tokens) /\ front \in Contents /\ logits \in Contents
  /\ call \in [pc : {"idle", "draft", "verify", "settle", "replay", "seq"},
                path : Paths, out : Seq(Tokens), window : Seq(Tokens),
                base : Seq(Tokens), snap : Contents, kept : [1..2 -> Contents]]
  /\ turn \in [from : Nat, out : Seq(Tokens), greedy : BOOLEAN, open : BOOLEAN]
  /\ faults \in 0..MaxFaults

(* Between calls a valid session can go on: the compressors stand at the   *)
(* checkpoint, and the logits are those after its last token, whatever     *)
(* drafts were kept, rejected, rolled back, replayed or failed half way    *)
(* (spec_frontier_commit_from, spec_frontier_restore), as long as no       *)
(* restore failed after a failed verifier.                                 *)
GraphServesCheckpoint ==
  (call.pc = "idle" /\ valid /\ front # Torn) => Serves(front, ckpt) /\ logits = ckpt

(* Greedy speculation changes nothing but the speed: what the caller was   *)
(* given since the prompt are the target's own choices one after the       *)
(* other, and the checkpoint holds them; only after an Eos does it hold    *)
(* more (ds4_session_eval_speculative_argmax).                             *)
GreedyIsTheTarget ==
  (call.pc = "idle" /\ valid /\ turn.greedy /\ front # Torn) =>
    LET rest == SubSeq(ckpt, turn.from + 1, Len(ckpt)) IN
    /\ IsPrefix(turn.out, rest)
    /\ turn.out = rest \/ Contains(turn.out, Eos)
    /\ \A i \in DOMAIN turn.out : turn.out[i] = Top(SubSeq(ckpt, 1, turn.from + i - 1))

(* A call never goes past the context the caches were made for, though it  *)
(* checks the room before it knows how many drafts there will be.          *)
WithinContext == Len(ckpt) <= Ctx
=============================================================================
