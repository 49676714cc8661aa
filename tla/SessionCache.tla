---------------------------- MODULE SessionCache ----------------------------
(***************************************************************************)
(* What one GPU session keeps of the tokens it has read (ds4.c): a         *)
(* checkpoint of token ids, a ring of raw rows for the last positions, the *)
(* frontier of the compressors and the logits.  A prompt is brought in by  *)
(* chunks, as one batch, token by token or streamed; a callback may save   *)
(* the session between two chunks, a cancel may stop it, a device call may *)
(* fail, and a payload may be loaded into a session of another size.       *)
(*                                                                         *)
(* A row, a frontier and a row of logits are the history they were         *)
(* computed from, as in Speculation.                                       *)
(***************************************************************************)
EXTENDS Integers, FiniteSetsExt, SequencesExt

CONSTANTS
  Histories,  \* bound: what a session may come to hold, closed under prefixes
  Configs,    \* how an engine and its session are opened
  Window,     \* DS4_N_SWA
  Ratio,      \* positions in a compressed row
  MaxRaw,     \* the largest ring (8192 in the code)
  Align,      \* rows a ring is padded to (256 in the code)
  ResumeMin,  \* metal_graph_resume_prefill_min_tokens (4)
  StreamMax,  \* metal_graph_streaming_decode_prefill_max_tokens (18 or 64)
  Lost,       \* a token of no history
  MaxFaults   \* bound: device calls and reads that fail

Tokens == {h[Len(h)] : h \in Histories \ {<<>>}}

ASSUME HistoriesArePrefixClosed ==
  /\ <<>> \in Histories /\ Histories \subseteq Seq(Tokens)
  /\ \A h \in Histories : \A n \in 0..Len(h) : SubSeq(h, 1, n) \in Histories
ASSUME LostIsNoToken == Lost \notin Tokens
ASSUME SizesArePositive ==
  /\ {Window, Ratio, MaxRaw, Align, ResumeMin} \subseteq Nat \ {0}
  /\ {StreamMax, MaxFaults} \subseteq Nat
ASSUME WindowFitsTheLargestRing == Window <= MaxRaw
ASSUME ConfigsAreOptions ==
  Configs \subseteq [ctx : Nat \ {0}, chunk : Nat \ {0},
                     streams : BOOLEAN]  \* ssd_streaming without quality

VARIABLES
  conf,
  ckpt,    \* checkpoint
  valid,   \* checkpoint_valid
  raw,     \* layer_raw_cache, by row of the ring
  front,   \* layer_n_comp and the compressors' states
  logits,
  job,     \* the ds4_session_sync under way
  file,    \* the payload saved last
  spoiled, \* observer: an interrupted prefill left the graph past the
           \* checkpoint, or a chunk too large overran its own window
  faults

graph == <<raw, front, logits>>
vars == <<conf, ckpt, valid, raw, front, logits, job, file, spoiled, faults>>

Unknown == <<Lost>>
Least(a, b) == IF a < b THEN a ELSE b
Most(a, b) == IF a < b THEN b ELSE a

(* The sizes a session is created with.                                    *)
PrefillCap(c) == Least(c.chunk, c.ctx)
RawWindow(c) == Least(Window, c.ctx)
Padded(n) == ((n + Align - 1) \div Align) * Align
Wanted(c) == Least(Padded(Least(RawWindow(c) + PrefillCap(c), c.ctx)), MaxRaw)

(* Chunk and window do not fit the largest ring together: so the PRO       *)
(* variant's default chunk of 8192, and any larger one that is asked for.  *)
TooLarge(c) == c.chunk + Window > MaxRaw + 1

(* A ring that can wrap has 256 rows at least: the window of 128 and the   *)
(* 64 tokens that are streamed at most.                                    *)
ASSUME StreamFitsTheRing ==
  \A c \in Configs : Wanted(c) < c.ctx => RawWindow(c) + StreamMax <= Wanted(c) + 1

(* Mutated form: the ring holds a chunk and nothing before it.             *)
ChunkOnly(c) == Least(PrefillCap(c), c.ctx)

RawCap(c) == Least(Most(Wanted(c), RawWindow(c)), c.ctx)

cap == RawCap(conf)
window == RawWindow(conf)

NoJob == [how |-> "none", prompt |-> <<>>, start |-> 0, pos |-> 0,
          reports |-> FALSE, reporting |-> FALSE]
NoFile == [ctx |-> 0, window |-> 0, tokens |-> <<>>, rows |-> <<>>,
           front |-> Unknown, logits |-> Unknown, spoiled |-> FALSE]
Blank(c) == [i \in 0..RawCap(c) - 1 |-> Unknown]

Opened(c) ==
  /\ conf' = c /\ raw' = Blank(c) /\ front' = Unknown /\ logits' = Unknown
  /\ ckpt' = <<>> /\ valid' = FALSE /\ job' = NoJob /\ spoiled' = FALSE

Init ==
  /\ conf \in Configs
  /\ raw = Blank(conf) /\ front = Unknown /\ logits = Unknown
  /\ ckpt = <<>> /\ valid = FALSE /\ job = NoJob /\ spoiled = FALSE
  /\ file = NoFile /\ faults = 0
-----------------------------------------------------------------------------
(* A frontier serves the end of history h if it counts the same rows.      *)
Serves(f, h) ==
  f # Unknown /\ IsPrefix(h, f) /\ Len(f) \div Ratio = Len(h) \div Ratio

(* The positions before the end of h that the next token attends to.       *)
Reach(h) == Most(0, Len(h) - window + 1)..Len(h) - 1
HoldsRow(h, p) == raw[p % cap] = SubSeq(h, 1, p + 1)
GraphServes(h) == Serves(front, h) /\ \A p \in Reach(h) : HoldsRow(h, p)

(* n tokens after h see their window.  A batch at position zero attends to *)
(* its own rows; any other one is stored before it attends, and attends to *)
(* what metal_graph_raw_span_for_batch leaves.  Two positions of one batch *)
(* are stored to one row in no order.                                      *)
Overwritten(h, n) == 0..Len(h) + n - cap - 1
HasRoom(h, n) == n <= cap /\ Reach(h) \cap Overwritten(h, n) = {}
Sees(h, n) == GraphServes(h) /\ HasRoom(h, n)

(* What a row of the ring holds after a batch.                             *)
Row(h, ts, i) ==
  LET ps == {p \in Len(h)..Len(h) + Len(ts) - 1 : p % cap = i}
  IN  IF ps = {} THEN raw[i]
      ELSE IF Sees(h, Len(ts)) THEN SubSeq(h \o ts, 1, Max(ps) + 1) ELSE Unknown

(* A forward over tokens ts that continues history h.                      *)
Forward(h, ts) ==
  /\ front' = IF Sees(h, Len(ts)) THEN h \o ts ELSE Unknown
  /\ raw' = [i \in 0..cap - 1 |-> Row(h, ts, i)]
  /\ spoiled' = (spoiled \/ (TooLarge(conf) /\ ~HasRoom(h, Len(ts))))

Faulty == faults < MaxFaults /\ faults' = faults + 1
Broken ==
  /\ Faulty
  /\ raw' = Blank(conf) /\ front' = Unknown /\ valid' = FALSE
-----------------------------------------------------------------------------
(* ds4_session_sync.                                                       *)
Continues(p) == valid /\ IsPrefix(ckpt, p)
Streams(n) == conf.streams /\ n <= StreamMax

Started(p, start, how, reports) ==
  job' = [how |-> how, prompt |-> p, start |-> start, pos |-> start,
          reports |-> reports, reporting |-> reports]

Prefilled(n) == IF Streams(n) THEN "stream" ELSE "chunks"

(* The suffix of a prompt that continues the checkpoint: long enough for a *)
(* prefill, or token by token.                                             *)
Resume(p) ==
  /\ Continues(p)
  /\ LET n == Len(p) - Len(ckpt) IN
       IF n >= ResumeMin THEN Started(p, Len(ckpt), Prefilled(n), TRUE)
                         ELSE Started(p, Len(ckpt), "tokens", FALSE)
  /\ UNCHANGED <<conf, ckpt, valid, graph, file, spoiled, faults>>

(* metal_graph_reset_prefill_state empties the compressors; the rows of    *)
(* the ring stay.  Only a prompt longer than a chunk reports progress.     *)
Reset(p) ==
  /\ ~Continues(p)
  /\ ckpt' = <<>> /\ valid' = FALSE
  /\ \/ /\ front' = <<>> /\ spoiled' = FALSE
        /\ IF PrefillCap(conf) < Len(p)
             THEN Started(p, 0, Prefilled(Len(p)), TRUE)
             ELSE Started(p, 0, IF Streams(Len(p)) THEN "stream" ELSE "whole", FALSE)
        /\ UNCHANGED faults
     \/ Faulty /\ front' = Unknown /\ UNCHANGED <<job, spoiled>>
  /\ UNCHANGED <<conf, raw, logits, file>>

Sync(p) ==
  /\ job = NoJob /\ 0 < Len(p) /\ Len(p) < conf.ctx
  /\ Resume(p) \/ Reset(p)

Read == SubSeq(job.prompt, 1, job.pos)
Ahead(n) == SubSeq(job.prompt, job.pos + 1, job.pos + n)
Left == Len(job.prompt) - job.pos
Running(how) == job.how = how /\ ~job.reporting /\ Left > 0

(* Mutated form: the callback runs and the checkpoint stays.               *)
OnlyTold(n) ==
  /\ job' = [job EXCEPT !.pos = @ + n, !.reporting = TRUE]
  /\ UNCHANGED <<ckpt, valid>>

(* A reported chunk becomes the checkpoint before the session's own        *)
(* callback sees it (ds4_session_note_prefill_progress).                   *)
Reported(n) ==
  /\ ckpt' = SubSeq(job.prompt, 1, job.pos + n) /\ valid' = TRUE
  /\ job' = [job EXCEPT !.pos = @ + n, !.reporting = TRUE]

(* A chunk ends where a chunk of a cold prompt would end.                  *)
ChunkCap == IF job.start = 0 THEN PrefillCap(conf) ELSE Least(PrefillCap(conf), cap)

ChunkSize ==
  LET mod == job.pos % PrefillCap(conf)
      local == IF job.start = 0 THEN ChunkCap ELSE Least(ChunkCap, PrefillCap(conf) - mod)
  IN  Least(Left, local)

Fails ==
  /\ Running("chunks") \/ Running("stream") \/ Running("tokens") \/ Running("whole")
  /\ Broken /\ job' = NoJob
  /\ UNCHANGED <<conf, ckpt, logits, file, spoiled>>

Chunk ==
  /\ Running("chunks")
  /\ Forward(Read, Ahead(ChunkSize)) /\ logits' = front' /\ Reported(ChunkSize)
  /\ UNCHANGED <<conf, file, faults>>

(* Streamed one token after the other; only the last one's logits are read *)
(* and only the last one is reported.                                      *)
StreamToken ==
  /\ Running("stream") /\ Forward(Read, Ahead(1))
  /\ IF Left > 1
       THEN job' = [job EXCEPT !.pos = @ + 1] /\ UNCHANGED <<ckpt, valid, logits>>
       ELSE /\ logits' = front'
            /\ IF job.reports THEN Reported(1)
               ELSE job' = [job EXCEPT !.pos = @ + 1] /\ UNCHANGED <<ckpt, valid>>
  /\ UNCHANGED <<conf, file, faults>>

SyncToken ==
  /\ Running("tokens")
  /\ Forward(Read, Ahead(1)) /\ logits' = front'
  /\ ckpt' = Append(ckpt, Ahead(1)[1])
  /\ job' = [job EXCEPT !.pos = @ + 1]
  /\ UNCHANGED <<conf, valid, file, faults>>

(* metal_graph_prefill_raw_swa: a cold prompt that fits one batch.         *)
Whole ==
  /\ Running("whole")
  /\ Forward(Read, Ahead(Left)) /\ logits' = front'
  /\ job' = [job EXCEPT !.pos = Len(job.prompt)]
  /\ UNCHANGED <<conf, ckpt, valid, file, faults>>

ReportDone ==
  /\ job.reporting /\ job' = [job EXCEPT !.reporting = FALSE]
  /\ UNCHANGED <<conf, ckpt, valid, graph, file, spoiled, faults>>

(* A cancel is seen between chunks and between tokens, after the last one  *)
(* too; the batch of a short prompt and the last token of a sync by tokens *)
(* are past it.                                                            *)
Interruptible ==
  \/ job.how \in {"chunks", "stream"}
  \/ job.how = "tokens" /\ Left > 0

Interrupt ==
  /\ Interruptible /\ ~job.reporting
  /\ valid' = (ckpt # <<>>) /\ job' = NoJob
  /\ spoiled' = (spoiled \/ (ckpt # <<>> /\ job.how = "stream" /\ ~GraphServes(ckpt)))
  /\ UNCHANGED <<conf, ckpt, graph, file, faults>>

Finish ==
  /\ job # NoJob /\ ~job.reporting /\ Left = 0
  /\ ckpt' = job.prompt /\ valid' = TRUE /\ job' = NoJob
  /\ UNCHANGED <<conf, graph, file, spoiled, faults>>
-----------------------------------------------------------------------------
(* One token outside a sync; the caller has tested the room.               *)
Eval(t) ==
  /\ job = NoJob /\ valid /\ Len(ckpt) < conf.ctx
  /\ \/ /\ Forward(ckpt, <<t>>) /\ logits' = front'
        /\ ckpt' = Append(ckpt, t) /\ UNCHANGED <<valid, faults>>
     \/ Broken /\ UNCHANGED <<ckpt, logits, spoiled>>
  /\ UNCHANGED <<conf, job, file>>

Invalidate ==
  /\ job = NoJob /\ valid
  /\ ckpt' = <<>> /\ valid' = FALSE
  /\ UNCHANGED <<conf, graph, job, file, spoiled, faults>>

(* ds4_session_save_payload, between calls or in a progress callback: the  *)
(* last rows in the order of their positions.                              *)
Live == Least(Least(window, cap), Len(ckpt))
LiveRow(i) == raw[(Len(ckpt) - Live + i - 1) % cap]

Save ==
  /\ valid /\ (job = NoJob \/ job.reporting)
  /\ file' = [ctx |-> conf.ctx, window |-> window, tokens |-> ckpt,
              rows |-> [i \in 1..Live |-> LiveRow(i)],
              front |-> front, logits |-> logits, spoiled |-> spoiled]
  /\ UNCHANGED <<conf, ckpt, valid, graph, job, spoiled, faults>>

(* ds4_session_load_payload puts the rows where this session's ring wants  *)
(* them.  After a failure its callers invalidate the session.              *)
Fits ==
  /\ file.ctx <= conf.ctx /\ Len(file.tokens) < conf.ctx
  /\ file.window = window /\ Len(file.rows) <= cap
First == Len(file.tokens) - Len(file.rows)
Loaded ==
  [i \in 0..cap - 1 |->
     LET rs == {r \in DOMAIN file.rows : (First + r - 1) % cap = i}
     IN  IF rs = {} THEN raw[i] ELSE file.rows[Max(rs)]]

Load ==
  /\ job = NoJob /\ file # NoFile
  /\ IF Fits
       THEN \/ /\ ckpt' = file.tokens /\ valid' = TRUE /\ raw' = Loaded
               /\ front' = file.front /\ logits' = file.logits
               /\ spoiled' = file.spoiled /\ UNCHANGED faults
            \/ /\ Broken /\ ckpt' = <<>> /\ logits' = Unknown /\ UNCHANGED spoiled
       ELSE /\ ckpt' = <<>> /\ valid' = FALSE
            /\ UNCHANGED <<graph, spoiled, faults>>
  /\ UNCHANGED <<conf, job, file>>

(* The process ends and another one, of any size, opens the same files.    *)
Restart(c) == Opened(c) /\ UNCHANGED <<file, faults>>
-----------------------------------------------------------------------------
Next ==
  \/ \E p \in Histories : Sync(p)
  \/ Chunk \/ StreamToken \/ SyncToken \/ Whole
  \/ ReportDone \/ Fails \/ Interrupt \/ Finish
  \/ \E t \in Tokens : Append(ckpt, t) \in Histories /\ Eval(t)
  \/ Invalidate \/ Save \/ Load \/ \E c \in Configs : Restart(c)
Spec == Init /\ [][Next]_vars
-----------------------------------------------------------------------------
(* Every variable keeps its type (ds4_session and ds4_gpu_graph).          *)
Contents == Histories \cup {Unknown}
TypeOK ==
  /\ conf \in Configs /\ valid \in BOOLEAN /\ spoiled \in BOOLEAN
  /\ ckpt \in Histories /\ front \in Contents /\ logits \in Contents
  /\ raw \in [0..cap - 1 -> Contents]
  /\ job \in [how : {"none", "chunks", "stream", "tokens", "whole"},
              prompt : Histories, start : Nat, pos : Nat,
              reports : BOOLEAN, reporting : BOOLEAN]
  /\ file \in [ctx : Nat, window : Nat, tokens : Histories, rows : Seq(Contents),
               front : Contents, logits : Contents, spoiled : BOOLEAN]
  /\ faults \in 0..MaxFaults

(* Whoever looks at a valid session, between calls or in a progress        *)
(* callback, can go on from it: ring, compressors and logits are those of  *)
(* its checkpoint, however the tokens came in, whatever was interrupted,   *)
(* failed, saved and loaded into another size; but for what an interrupted *)
(* streamed prefill left, or a batch that a chunk too large stored over    *)
(* the window it attends to (ds4_session_sync, ds4_session_load_payload).  *)
Seen == valid /\ (job = NoJob \/ job.reporting)
CacheServesCheckpoint == Seen /\ ~spoiled => GraphServes(ckpt) /\ logits = ckpt

(* A payload is complete: of whatever moment it was, a session it is       *)
(* loaded into can go on and sample (ds4_session_save_payload).            *)
PayloadIsComplete ==
  file # NoFile /\ ~file.spoiled =>
    /\ file.logits = file.tokens /\ Serves(file.front, file.tokens)
    /\ \A i \in DOMAIN file.rows :
         file.rows[i] = SubSeq(file.tokens, 1, Len(file.tokens) - Len(file.rows) + i)
=============================================================================
