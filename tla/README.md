# A TLA+ development of ds4

ds4 is an inference engine for one large model: an engine (`ds4.c`), an
OpenAI/Anthropic compatible HTTP server (`ds4_server.c`), a coding agent
(`ds4_agent.c`), a disk cache of prompt prefixes (`ds4_kvstore.c`) and a
distributed mode (`ds4_distributed.c`). The numerics fill most of the source;
what this development is about is the control around them: threads that share
one session, bindings between a conversation and what the session holds, files,
and what is left behind when a step fails.

The modules are translated from the code. Names are the code's where TLA+
allows. `PROJECT.json` maps every definition to its lines.

## 1. The system

| Component | State it keeps | Operations | What makes it correct |
|---|---|---|---|
| request lifecycle (`ds4_server.c`, `ds4_protocol_state.c`) | listening socket, stop flags, client count, job queue, one worker, a protocol state per job, the copy `/healthz` shows | accept, spawn, parse, enqueue, dequeue, the phases of `generate_job`, signal, drain, join, close | no job outlives its client's stack; one outcome per job; nothing freed while a thread may use it; every accepted client is released; a stop ends the process |
| live continuation (`ds4_server.c`) | the session's checkpoint; three bindings (responses, anthropic, thinking): position, call ids, visible text | parse, choose what to continue, prefill, decode, remember, canonicalize, evict to disk | a reply is sampled after its own conversation's history, or one whose calls its client answered from an edit of it; results without their calls only from a live binding |
| tool memory (`ds4_server.c`) | call id to the exact text sampled, LRU, RAM and disk entries | put, attach, restore, prune | a call id is replayed with the text that was sampled under it |
| replies (`ds4_server.c`: decode loop, DSML parser and tracker, OpenAI stream) | the text so far, what the tracker and the marker scan have read, the stream's mode and position, the tool stream's state and ids | append a token, project it, close thinking by force, stop at the end of a block, repair or ask again, parse, finish | what the client was shown piece by piece is what the parser makes of the whole; nothing shown that turns out to be markup |
| steering (`ds4_server.c`, `ds4.c`) | cache of profiles, active profile and scale, server default | select per request, control endpoint, load | a request runs with what it asked for, the next one with the default |
| KV store (`ds4_kvstore.c`) | a directory of snapshots, keyed by the hash of their text | store, evict, load, touch, supersede, rewrite trailer | what is loaded is what was stored; the budget; a crash leaves nothing half written under a final name |
| agent worker (`ds4_agent.c`) | status, command slot, drain and approval handshakes, requests, transcript | turn, tool round, drain, question, compaction, save, stop | it alone changes the session; its waits end |
| agent terminal | editor, queue of messages, the question on the screen | submit, queue, Ctrl+C, ESC, `/save` `/new` `/switch` `/compact`, leave | no message lost or doubled; unsaved work is offered to be saved |
| agent headless mode | queue, stdin buffer, wake pipe | poll, read, submit, drain, save on exit | order kept; the run ends, and not before its turns |
| session files | one file per identity | save, load, delete, strip | a file holds the session it is named after |
| session and prefix synchronization (`ds4.c`) | checkpoint tokens, valid flag, ring of raw rows, compressors, logits, payloads | sync, rewrite, evaluate, invalidate, save, load | the graph is valid for the tokens it is said to be valid for |
| speculative decoding (`ds4.c`, `ds4_dspark_runtime.c`) | draft state, frontiers | draft, verify, accept, roll back | what is emitted is what the target model would emit |
| distributed inference (`ds4_distributed.c`) | registry of workers, the cached plan, each worker's KV rows and token hash, frames and results in flight | register, plan, prefill in a pipeline, decode, replay, save and load by shards | logits are computed from rows of the tokens asked for, whatever workers went away or late frames arrived |
| expert cache of SSD streaming (`ds4_metal.m`, `ds4.c`) | experts held in buffers, free slots, stamps of command buffers, an early load under way | load on the main or the async thread, take a victim, flush, join, prefill, clear | no buffer is read over while a command buffer has still to read it; no buffer has two owners or none; the budget |

The HTTP/JSON/SSE front end, the tools of the agent with their own parser, web
browsing, CLI, evaluation, GPU back ends, the vendored libraries
and the offline tools are listed in `PROJECT.json` with the reason they are not
modelled: they are parsing, formatting, numerics or pure I/O.

How they interact:

* A client thread of the server parses a request into a job on its own stack,
  links it in `s->head..tail` under `s->mu`, signals `s->cv` and waits on
  `j->cv`. The worker pops jobs and is the only thread that touches the session.
  The parser of the client thread *reads* the live bindings, and the worker
  decides on them again later: the two looks are separated by other requests.
* Steering, live continuation, tool memory and KV store are all called from the
  worker, inside one job. So the modules about them take a job, or a part of
  one that may fail, as a step.
* The tool memory has a lock of its own: client threads put into it and read it
  while they parse, the worker while it answers and while it stores snapshots.
* The coordinator of a distributed session is called like a local session; a
  control thread keeps the registry of workers, each worker serves one data
  connection from the hop before it, and the last one answers the coordinator.
* The expert cache is used by the main thread, by the async load thread of
  `ds4.c` while the main thread encodes the shared expert, and by a pool that
  reads the file; the GPU finishes command buffers in the order of their commit.
* The agent's worker owns the session while it is not idle; the terminal runs
  `/save`, `/new` and `/switch` itself when it finds the worker idle. They talk
  through flags under `w->mu`, one condition variable and a wake pipe.

What is hard here: condition variables with several waiters and a stack-allocated
job; shutdown at any point; early returns of `generate_job` (some after the
outcome was published, some before, some after the session moved and before the
bindings were cleared); a status that is published before the work it stands for
is over; reads in one critical section that are acted on in another; files that
are replaced, evicted and loaded while positions are remembered elsewhere;
frames of a route that was given up; drafts rejected in the middle of a
compressed row; buffers reused while the GPU may still read them.
`PROJECT.json` lists these under `hazards`, each at its line.

## 2. Modules

| Module | What it models |
|---|---|
| `ProtocolState` | the phases of a request and which may follow (`ds4_protocol_state.c`), as pure operators |
| `ServerLifecycle` | accept loop, client threads, queue, worker, signals, shutdown |
| `RequestOutcomes` | the abstract promise: in-order service, one outcome each, released after it, closed only when nothing is owed |
| `Steering` | profile cache, active profile, default, requests and control endpoint |
| `LiveContinuation` | session, bindings, snapshots by text key, requests that continue one of them |
| `DsmlText` | what the server reads in a text: tags, the safe limit, the parser, the repair, the tracker, as pure operators |
| `OutputStream` | the decode loop of a chat, the OpenAI stream and the answer |
| `ToolMemory` | call ids, the texts they stand for, their LRU, the trailers behind snapshots, requests that replay them |
| `KvStore` | the directory of snapshots: store, evict, restore, discard, crash, loss of power |
| `SnapshotStore` | the abstract promise: what is restored is the state asked for, an acknowledged snapshot leaves only by a removal |
| `AgentWorker` | the model thread and everything shared under `w->mu` |
| `AgentInteractive` | `AgentWorker` with the terminal's loop and commands |
| `AgentHeadless` | `AgentWorker` with the non-interactive loop |
| `DistRoute` | which chains of workers make a route, and the one the search picks, as pure operators |
| `DistSession` | coordinator, workers, registry, frames in flight, calls on a session, snapshots by shards |
| `Speculation` | one session that drafts, verifies, accepts, rolls back and replays |
| `SessionCache` | one GPU session: checkpoint, ring of raw rows, compressors, logits; prompts, callbacks, cancels, payloads |
| `ExpertCache` | the cache, the load, the pool, the main thread's pass over the layers, the GPU |
| `*_proof` | theorems of the module they are named after; `Server_proof` those of `ServerLifecycle` and `LiveContinuation`, `Agent_proof` those of `AgentInteractive` and `AgentHeadless`, `Session_proof` those of `Steering` and `SessionCache`, `KvAndReply_proof` those of `KvStore` and `OutputStream` |
| `MC*` | instances for TLC |

**ServerLifecycle.** One program counter for main, one per client, one for the
worker. A critical section is one action (`Enqueue`, `Dequeue`, `SignalDone`); a
condition variable is the program counter value `asleep`, which a signal turns
into the check of the loop, and which `SpuriousWake` may leave at any time.
`generate_job` is cut where another thread could see a difference: at each
`server_protocol_*` call, which writes `j->protocol` and the copy for
`/healthz` under the mutex, and at each return. Whether steering, prefill,
stream start or decode succeed is a choice. `ds4_protocol_*` calls are
`ProtocolState` operators, refused transitions included. Main's shutdown is
drain, join, wait for `clients == 0`, close. A second signal kills the process.

**Steering.** A job is one action, since jobs run one after the other and the
control endpoint is a job too. `SelectCached`, `SelectLoaded`, `SelectFails`
are the ways `ds4_session_steering_select` may end. The attention and the FFN
scale go through the same code and are one variable. Profile names of 64 bytes
and more are a set of their own: their cache key is truncated.

**LiveContinuation.** A checkpoint is the conversation whose history its tokens
are, their number and the valid flag. `Parse` is the client thread's look at the
bindings; `Bases` is the worker's order of choices (binding, memory, disk, cold),
including a snapshot whose payload cannot be restored and therefore destroys the
session it was loaded into. `PrefillStops` is every return between the start of
the prefill and the clearing of unused bindings; `EndTurn` and
`EndTurnRewritten` are the ends of a turn without and with canonicalization.
An edited history is another conversation, and may still hold the calls of the one
it was edited from: a replay names the calls of any conversation of its API
(`CallsOf`), and `CallIds` compares those and the position, as
`responses_live_matches_request` and `anthropic_live_matches_request` do, never the
history before them. A binding after a request of results alone has no visible
text (`text`); what is stored at its position gets a key no history begins with.
Three observers exist, which no action reads: `aliased` (an interrupted prefill
stopped exactly where another conversation is bound), `edits` (the pairs <<c, d>>
such that c was continued on the tokens of d because its results named d's calls;
`Past(c)` is c and those d) and `answerable` (tool calls were the last thing that
touched the session; a rewrite of the checkpoint clears it).

**KvStore.** A text is a sequence of pieces; the SHA-1 of a text is its name and
does not collide. `files` is the directory as programs see it, `stable` what a
loss of power leaves of it, `store` the one procedure under way; a store is cut
at each system call that a crash could fall behind (`EvictOne`, `Write`,
`Flush`, `Publish`, `SyncDirectory`), a load is one action because it changes at
most one name. `PowerLoss` keeps each name as it was or as it was last synced,
and damages data that was not. Eviction may pick any file: the score (hits, age,
anchors, superseded checkpoints) only chooses the victim. Trailers change size
between the estimate and the write, and in place, because client threads change
the tool memory. `LiveContinuation` uses the store as what a request sees of it:
a snapshot under a text is restored to that text's state, or not at all, which
is what `WholeUnderItsName` says here. The observer `acked` holds what was
written and acknowledged; when a file already there answers a store
(`StoreExisting`), nothing is written and nothing is promised beyond that file,
which an earlier failed directory sync may have left volatile.

**ToolMemory.** The memory is one record (text of an id, reference counts,
LRU list, bytes) that changes under `tool_mu`: each critical section is one
action. A request restores its ids from snapshots, one lock for each entry
(`ReadTrailer`, `ClientPuts`), and attaches texts to its messages under another
(`Attach`); between them the worker and other requests put, prune and store. The
worker loads and stores snapshots by itself; a store measures its trailer
(`BeginStore`), and writes it later from the memory of that time (`StoreNew`,
`StoreOver`). `RemoveSnapshot` and `Restart` are the disk's side. A trailer is
read as it stands at one moment, and where an entry came from is left out.
Ids never repeat (they are 128 random bits).

**DsmlText, OutputStream.** A text is a sequence of symbols. A tag is `<`, an
optional `/`, and the rest, so a token can end inside it where it matters; `x` is
visible text, `w` a blank line, `q` and `e` the quote and the escape of JSON. What
the model samples is an input: a script, cut into tokens of one or two symbols at
every place, in which a special token (`hidden`) never reaches the text. When
tokens are forced into the session (`TokenInside`, `Eos`, `LoopClose`) or the turn
is asked for again (`AskAgain`, `Refuse`), the model goes on with its script or
with another. Budgets, the watchdog, the limit of a block and the detection of a
loop are choices, since they may come at any token. One action is one token: it
is appended, tracked, streamed and scanned before the next. `Streamed` is the
update of the stream, `ToolUpdate` its tool mode. `wire` is what the client has
after merging deltas by index, counted from the start of the current attempt;
`stale` remembers that calls of the attempt before are left. The observer `odd`
marks the texts on which the tracker and its reference are known to differ.

**DistRoute, DistSession.** A token hash is the sequence it was computed from.
A worker's state is the timeline it claims, whether it may be continued, the
cached hash, and an observer `sound` that no code reads: whether its rows are
what the claim says. It travels with frames, results and snapshots, so that
`LogitsSound` asks whether the code's own checks (position, prefix hash, reset)
suffice. `Register` is connect and HELLO together; a worker serves one frame
(`Work`, `WorkRefused`) and a coordinator one chunk (`LocalChunk`, `ReadResult`)
as one step. Crashes, disconnects, links that break between two workers,
unnoticed departures (`Notice` comes later), and failures of the local slice
(`LocalFails`, with the code's two return values) come at any time. A route that
is given up leaves its frames in `late`, from where they may still arrive
(`LateWork`) or never.

**Speculation.** A frontier of a compressor and a row of logits are the history
they were computed from, so a frontier left at the wrong place shows as the
wrong history. A configuration is the drafter (`mtp`, `dspark`), the depth, strict
or not, and whether a device copy outside a command batch succeeds, which it
does on CUDA and ROCm and does not on Metal. A call goes through draft, verify,
settle, replay and sequential evaluation on the path the code selects
(`combined`, `sample`, `suffix`, `exact`, `dspark`). Drafts are arbitrary: the
drafter's cache, margins, confidence, adaptive caps and `max_tokens` only choose
how many tokens `Draft` adds. Rows that are not compressed need no rollback, as
the next forward overwrites them in place. `Top` is a function of the history:
that batched arithmetic may decide a near tie differently is not modelled.

**SessionCache.** Rows of the ring, the compressors' frontier and the logits are
the history they were computed from; `Lost` stands for what was computed from
anything else. `Forward` is every batch and every single token: it is right if
the frontier stands at the position (`Serves`) and every row of the window is in
the ring and not stored over by the batch itself (`Sees`). `ds4_session_sync` is
cut at each chunk, each token and each callback: `Resume` and `Reset` choose the
way (`chunks`, `stream`, `tokens`, `whole`) from the length, the chunk and
whether experts are streamed; `Reported` is the checkpoint moving before the
session's own callback, which may `Save`. A cancel is seen where the code looks
for it. A payload goes into whatever session is open, of another context and
another ring (`Restart`, `Load`); a read that fails leaves the session invalid,
as all callers do. The ring's size is the code's arithmetic (`Wanted`, `RawCap`).
`spoiled` is an observer: an interrupted streamed prefill left the graph past the
checkpoint, or a batch of a chunk that is `TooLarge` for the largest ring was stored
over the window it attends to (section 5), in this session or in the one the payload
came from. A session with such a chunk is an instance like the others, and what it
reads without such a batch is held to the same properties. `StreamFitsTheRing` states
what the ring's 256 rows mean for a stream. The debugging switch
`DS4_METAL_GRAPH_RAW_CAP`, which sets the ring by hand, is left out.

**ExpertCache.** The main thread takes a pass (a token, a prompt, a seed)
through the layers; `pc` has one place per point where a command buffer is
committed, a load joined or experts encoded. Command buffers are numbered in
order: `batch` is being encoded, `pend` committed, `done` finished, and `reads`
holds what encoded buffers have still to read. A load goes through clear,
reserve, read and install, on either thread; an early load lets the pool read
while the main thread goes on. Which unprotected entry is the least valuable is
a choice. A model's first `HashLayers` layers select experts by the token id and
so without reading the router's result back: there only the stamps of the
entries keep a load from taking a buffer that is still to be read, while a
readback orders every later load after all reads encoded before it.
`BatchTornAway` is the async thread's wait that commits the batch the main
thread is encoding into: Metal stops the process. `dropped` tells that a failed
load let reserved buffers go. A seed stops before it asks for more experts than
the budget has (`ds4.c:14437`).

**Agent.** `AgentWorker` has one program counter for the worker; each critical
section on `w->mu` is a step. The transcript is the number of the conversation's
first message and whether it differs from its file; a file is the conversation
in it. `drain` and `approval` are the two handshakes. `Published` IDLE is
separate from the deferred compaction and save that follow it, as in the code.
The terminal's loop has one place per thing one pass looks at; a
check-then-act pair is two steps (`CtrlC`, `SendInterrupt`). The headless loop
additionally has the wake pipe (`pending`, `byte`), because it polls without a
timeout.

## 3. Runs

| Run | Instance | Shows |
|---|---|---|
| `server` | 2 connections, fair; 68,840 states | jobs outlive their users, close only when quiet, the health report is true; the threads implement `RequestOutcomes`; accepted clients are released; a stop ends the process |
| `steering` | 3 profiles (one with a long name), 3 slots, scales 0 to 2; 7,026 states | a loaded default is restored |
| `live` | 3 conversations, one of Responses and two of Anthropic, positions 0 to 2, 2 queued requests, 1 snapshot; 831,717 states up to symmetry | replies after their own history or one whose calls were answered from an edit, results alone only from a live binding, an immediate tool answer is accepted |
| `kv_store` | 3 texts, 2 of one conversation, 2 context sizes, trailers of 0 or 1; 483,100 states | files are whole under their names, acknowledged snapshots survive, the budget holds, the store implements `SnapshotStore` |
| `tool_memory` | 1 client, the worker, 2 texts, 2 snapshots, 3 ids; 835,324 states | counters and references stay exact, an id brings back the text sampled under it, an id that is held is replayed, trailers are of the snapshot they stand behind |
| `output_stream` | 11 scripts and 3 to go on with, 5 requests, tokens of 1 or 2 symbols, texts up to 27; 241,125 states | calls, reasoning and content shown are those of the parse, under the ids that are remembered; content never contains markup or thinking; the tracker is where its reference is |
| `agent` | 2 messages, 2 tool rounds, 2 questions, 1 key or command, a coordinator, fair; 435,593 states | messages are kept, a session not marked dirty is on disk, a question gets its own answer; the worker's waits for the terminal end; a worker told to stop is joined |
| `agent_headless` | one prompt, or 3 from stdin; 2 rounds, save on exit, fair; 93,564 states | order is kept, a run ends and not before its turns |
| `dist_session` | coordinator of the first layer, 3 workers for two routes, 1 failure, 1 late frame, fair; 209,839 states | logits are of the tokens asked for, a cached plan is supported by the registry, a saved snapshot is whole, calls end, a call that worked reached its target |
| `speculation` | 6 configurations, 3 tokens, context 8, ratio 4, 2 failing device calls; 610,590 states | the frontier is of the checkpoint's tokens, greedy output is what the target alone would write |
| `session_cache` | contexts of 10 and 8, chunks of 3, 4 and 9, window 3, rings of 6 and 8, ratio 4, streaming on and off, 1 failure; 1,438,957 states | what a valid session holds is of its checkpoint's tokens, a saved payload is complete |
| `expert_cache` | 2 layers of 3 experts, 2 selected, budget 3, 2 passes, 1 failure; 622,323 states up to symmetry | no buffer is read over, owned twice, or lost; the budget; the split buffer is still open; no step leaves all threads waiting |

Not every property a theorem of section 4 states is rerun by TLC: the type
invariants of server, steering, live continuation, KV store, distributed session,
speculation, engine session, tool memory, expert cache and replies, `ClientCountExact`, `OutcomeIsFinal`, `CacheIsSound`,
`WithinContext`, and the headless agent's `WorkerOwnsSession` and
`EndsWhenDone` are left to the proofs. `TypeOK` of the terminal holds on the instance
above; it is stated in the module and checked by adding it to the configuration.

### Bounds

* Two connections make every pair of client positions meet, in both orders, with
  main and the worker anywhere; both can be queued at once, so the order of the
  queue is observable. The safety properties are proved for every number.
* Three steering profiles are the least with an active profile, another cached
  one and a default, one of them under a truncated key; three slots are filled
  and overflow. Proved for every number.
* Two conversations of one API may be edits of each other; with one of another API
  the bindings of all three slots compete (`thinking` serves every API but
  Responses). The two are treated alike by every definition, hence the symmetry; no
  liveness is checked in this run. Once a binding was aliased, one request waits at
  a time (`OneWaitsOnceAliased`, a constraint of the run): three states of four are
  such, and without the constraint, where the run passes too, there are 2,683,432.
  `MaxPos` 2 tells empty, earlier and later. `MaxQueue` 2 lets one request be parsed before
  another is served. One snapshot forces eviction. Proved for every number.
* Three snapshots in a budget for two: the longer one fits alone, and only
  without a trailer, so the final size check fails when the trailer grew; a
  prompt has a longest and a shorter candidate; one is consumed by its restore
  and one is not. Crashes, losses of power and restarts are not bounded.
* The agent needs a second message to be submitted while the first is being run
  and a second question to be confused with the first; one save, interrupt or
  switch meets every state of the worker. `MaxRounds` bounds tool rounds; with two,
  a queued message is drained in one and none is in the other.
* Tool memory: texts of 2 and 4 bytes, 1 more per entry, under limits of 2
  entries and 6 bytes: either limit is reached first, and one turn can exceed
  them alone. Three ids are a turn of two calls and one more, or three turns; one
  snapshot holds one text, the other both. One client thread and the worker are
  two threads that put; the id 0 is one the server never drew.
* Replies: each script has one of the shapes the code distinguishes (answers with
  and without a close of thinking, blocks of one call and of two, text that looks
  like markup, JSON with an escaped quote, nested parameters, blocks cut short in
  a string and in JSON, one that does not parse, an end without a beginning).
  Tokens of one or two symbols end in every place of a tag. The window of 80 bytes
  is 4 symbols, longer than the longest tag as in the code. `MaxText` 27 holds a
  script, a forced close and another script.
* Distributed: a route of two workers, and one of a single worker that takes the
  place of both and leaves the output head to the coordinator; prompts of one
  and two tokens in chunks of one with a window of two, so a failure falls
  between two chunks in the pipe and the replay takes the other route. One late
  frame arrives before, among or after those of the replay. One failure;
  departures and returns of workers are not bounded.
* Speculation: a context of 8 has two compressed rows of four; up to three
  tokens are checked at once and accepted or rejected on either side of a row's
  edge, from every offset within a row, and room runs out in the second. Two
  failures: one of a batch and one of its rollback.
* Session: contexts of 10 and 8 tokens over a window of 3: the larger session's
  ring of 6 wraps, a compressed row closes before, at and after the end of a
  chunk, a prompt resumes inside a chunk. Suffixes of one token go token by token,
  of two are streamed, longer ones go in chunks; cold prompts of up to 3 or 4 are
  one batch. Two histories that part after three tokens make a prompt extend the
  checkpoint, or not. Chunk and window fit the largest ring together (4096 and 128
  in 8192 by default) but for the third session, whose chunk of 9 is larger than the
  ring of 8: its batches overrun their window, or two of their positions share a row,
  or they just fit. A payload of the smaller session fits the larger ones and not the
  other way.
* Expert cache: two layers, so the buffers of one are wanted by the other while
  they are read; three experts with two selected give hits, misses and a split
  of a layer into both; a budget of three is enough for one layer and one short
  of two. A second pass finds what the first left. Experts of a layer are
  symmetric: every constant treats them alike.
* `acts`, `typed`, `rounds`, `asks`, `drawn`, `faults` and `passes` only count up
  to their bound: they cut behaviours off, they do not change any step.

Deadlock is checked wherever the process has an end: a finished one stutters in
an explicit step (`Ended`, `Exited`). `dist_session`, `speculation` and
`expert_cache` model what others call, and do not check it: a session nobody
calls rests. What would be a deadlock inside a call is `CallsEnd` in the first
and `NeverStuck` in the last (in every state where a call is under way a step is
enabled; no step of a pass is taken back, so passes end); a call of the second
is a sequence of steps none of which waits.

### Fairness

* `server`: weak fairness of main, of the worker and of each client thread: a
  thread that can run is scheduled. Spurious wake-ups are not fair. Strong
  fairness of `SignalDone`: a client that wakes up spuriously again and again
  takes and releases `j->mu`, between which the worker's lock attempt must
  eventually win. Nothing is assumed about the signal, the peer or the
  outcome of any step of a job.
* agent, terminal: weak fairness of the loop (the poll has a timeout of 100 ms,
  and a question is answered or times out after 30 s) and of the worker. No key,
  command or wake-up is fair by itself.
* agent, headless: weak fairness of the front end without its failing system
  calls, and of the worker. A fair front end may still never read the end of
  stdin: `RunEnds` promises the end of a run only after it, or with `-p`.
* distributed: weak fairness of the coordinator's call and of each hop that has
  a frame: a frame sent over a live connection is served, and a broken one is
  noticed by the read or write on it. Nothing about registration, departures,
  failures or late frames.

## 4. Theorems

TLAPS checks every proof to its leaves. Liveness under fairness and `ENABLED`
are out of its reach and left to TLC. Induction is used over the naturals only,
from the least-number principle (`NatInd`, `Upwards`): that is enough for what a fold
over a sequence, a sum over a finite set, or the steps of one call keep from one element
to the next, and not for what a recursive definition over a text computes.

**Server** (`Server_proof`; assumes the set of connections is finite and
`None` is not in it): `TypeCorrect`, `NoDanglingJob`, `ClientCountCorrect`,
`ReleaseAfterOutcome`, `CloseIsSafe`, `OutcomesFinal`, `HealthCorrect`,
`RequestsServedInOrder`. `CloseIsSafe` is not
inductive: that main closes only when every request has an outcome needs to know
that a request without one is in the queue or with the worker (`OwedAreHeld`),
that a queued job's client still waits (`JobsOutliveTheirUsers`), what the worker
holds at each place (`WorkerHoldsJob`), what main holds (`MainHoldsClient`), that
the count is exact, that a client not enqueued has a fresh protocol state
(`FreshUntilEnqueued`), that flag and phase agree, that the epilogue leaves an
outcome (`EpilogueFinishes`) and the order of the shutdown (`ShutdownOrder`).
`IInv` is their conjunction. `OutcomesFinal` is an action property from the same
invariant. `HealthCorrect` adds that the worker is busy exactly from the start of
a job until it goes idle (`BusyMatchesPc`): then no client enqueues under the
request whose state `/healthz` shows, and a request joins the set its counter
counts in the step that ends it (`CountersGrow`), and no other (`CountersStay`).
`RequestsServedInOrder` is the refinement `ServesInOrder`: the threads implement
`RequestOutcomes`, whose state is the requests in order of acceptance. `OInv` says where
each of them is: ids are given out without a gap (`IdsInUse`), the queue holds them
in order and the worker has the oldest (`OldestFirst`), so the answered requests and
the released ones are the first ones by id (`OldestDone`); their numbers are the
last ids among them (`CountById`, by a bijection). Each step is an `Accept`, `Publish`,
`Release` or `Close` of the abstract specification, or a stutter.

**Steering** (`Session_proof`; assumes `None` and the truncated key are no
profile names, 0 is a scale and the cache has at least one slot):
`SteeringInvariant`, `DefaultRestored`. The strengthening is that the keys in
the cache are the keys of profiles (`KeysFit`).

**Engine session** (`Session_proof`; any histories closed under prefixes, any
sizes of context, chunk and ring, any number of faults): `SessionServesItsCheckpoint`, `PayloadsAreComplete`, `SessionTypes`, from
`CacheInvariance`. The invariant follows the graph through a sync: it is not at the
checkpoint then but at what was read of the prompt (`GraphOK`), and the checkpoint
keeps up after each chunk or token, at the last token of a stream, or at the end of
a batch (`JobOK`). Of what was read the ring holds the last window (`Stored`), and
during a stream the window before its start as well, `Low`, since a cancel falls
back to it; that these are not overwritten by what is streamed is the assumption
`StreamFitsTheRing` (a ring that can wrap has at least 256 rows, the window has 128,
at most 64 tokens are streamed). A batch is stored over no row it attends to
(`Fitting`), unless its chunk is too large for the largest ring: such a batch, and
only one that really has no room, sets `spoiled`, and the theorem says nothing of the
session until it starts anew. Any other leaves every row within a ring of its new
end where its position says (`ForwardStores`): of the positions of a ring no two share a row (`OneRow`). A
saved file has the last rows in the order of their positions (`FileOK`), so each
lands in the row a ring of any other size looks for it (`LoadKeeps`).

**Live continuation** (`Server_proof`; every set of conversations, one
API each, any bounds): `LiveTypeCorrect`, `HistoryIsOwn`, `TailIsLive`,
`AnswerIsAccepted`. The argument: the job in decode owns whatever binding is left
(`JobOwnsBindings`), a binding belongs to a conversation of its slot's API
(`Owned`), and unless a stopped prefill aliased a position, bindings, snapshots
and the running job tell the truth about the session (`Truthful`): that it holds
their own history or one they were continued on (`Past`). `Past` only grows, and
when an edited replay is continued it takes in the whole past of what it is
continued on, so what was true of the bound conversation is true of the new one.
`BindingsDescribeSession` and `DiskDescribesItself` are theorems only
(`HistoryIsOwn`); the run checks their consequence.

**KV store** (`KvAndReply_proof`; any texts, sizes, trailers, budget and context
sizes): `TypeCorrect`, `FilesAreWhole`, `AcknowledgedLasts`, and
`StoreKeepsPromise`, that every step is one of `SnapshotStore` or invisible to
it. Wholeness is not inductive: a loss of power swaps the directory for the
synced one, so the synced one must be whole as well, and both durable
(`GoodFiles`); what is about to be published must be written, durable and of the
session it is named after at each stage (`StoreInProgress`). `StaysWithinBudget`
is `WithinBudget`, a sum over the files. The lemmas say what replacing, adding and
removing one file does to such a sum; the invariant (`Roomy`) that the room made
before a write is kept until the snapshot is published: what is asked for covers
the bytes written, and together with the files there it fits the budget.

**Replies** (`KvAndReply_proof`; any scripts that are neither empty nor begin with a
hidden token, any cut into tokens, any request, any window that holds a closing tag):
`ShownContentStops`, `PositionsInText`. What was shown is compared with a text that
still grows, so that it stops at the markup of the text so far does not last by
itself: a tag may have begun in it. The invariant (`ReplyInv`, `Followed`) says more. While
the stream is in its thinking nothing is content, and no close begins before the place
it has emitted to; afterwards the content is what lies between the first close, or the
start, and a place to stop (`Projected`), where no opening can begin before that place
whatever is appended (`Clear`: some symbol that is already there differs), and no blank
ends at it (`Stop`). Such a place stays one when the text grows (`FollowedGrows`), and the
safe limit is one (`HoldsBack`): the tag is shorter than the window, so an opening that
begins before the limit would show the last `<` behind it. `StreamedKeeps` takes
this through one update of the stream, whose tool mode is a function that exists and
whose steps say nothing (`ToolStepsExist`, `ToolUpdateKeeps`); `FollowedStops` gets the
property from it. A forced close and a repair only append (`GrowingKeeps`, `RepairedIs`), a new attempt
starts afresh. `PositionsInText` is the type invariant `ReplyTypeOK`: the offsets of the
tracker, of the marker scan and of the stream lie in the text, after the steps of a
tracker's call too (`TrackedStays`).

**Tool memory** (`ToolMemory_proof`; any clients, ids, texts, snapshots and
limits): `TypeCorrect`, `CountersAreExact`, `ReplayIsVerbatim`, `TheKnownAreReplayed`,
`TrailersHoldTheirOwn`. A memory whose list, texts, references and bytes agree is one
of the set `Mems`. That set is closed under adding, touching, pruning and removing
an id, so the walks of a put or of a restore, which are folds, go from one such
memory to the next; this is `CountersAreExact`. Truth of the texts is an invariant
of everything a text may come from or go to: the memory, the trailers, and the
pairs a thread has still to put (`Inv`). For `TheKnownAreReplayed` a request must
also be shown to hold only ids that are known or behind a snapshot it has yet to
read (`Reachable`), whatever is pruned between its two locks.

**Agent** (`Agent_proof`, one module for worker, terminal and headless mode; any
bounds): `MessagesInOrder`, `MessagesInOnePlace`, `CleanSessionIsSaved`,
`SaveOnExitIsAlone`, `NothingUndone`, `AnswerIsToItsQuestion`. The messages of a run are
in the queue, in the command slot, with the drain, in the turn's text or in the
transcript. `Held` says at which places of the worker each of these may hold any;
then a step leaves them, takes a command, joins a text to the transcript, drains or
loses (`LoopCarries`, `TurnCarries`), and keeps them in the order of submission
(`InOrder`) or in one place each (`OnePlace`). A drain flattens the queue.
`CleanSessionIsSaved` needs that text names the conversation it belongs to and that
a turn that has changed the session is marked, also in the middle of a save or a
switch (`OnDisk`). The headless front end decides on the status alone, so its
invariant states what a status tells: IDLE means between two turns with no command
pending (`IdleIsBetween`), a pending command shows PREFILL (`CommandWaits`), and text
is held by a turn only until it joins the transcript (`TurnHeld`). It assumes that
the prompt given on the command line is a message (`PromptIsMessage`).
For `AnswerIsToItsQuestion`: the worker may give a question up while the terminal
still shows it, and nothing in the handoff names the question. `PromptKnown` says
where the worker can be while the terminal waits at a prompt: still asking
(`Asking`), giving the turn up with the interrupt latched (`GivenUp`, `Ending`), or
between turns with no command (`TurnOver`), from where only the terminal, which
waits, could start a turn that asks again. `raced` exempts a command accepted in
the middle of a turn.

**Distributed session** (`DistSession_proof`; any workers with acceptable layer
spans, prefix-closed transcripts, any chunk and window size, any number of
failures and late frames): `TypeCorrectness`, `LogitsAreSound`,
`SnapshotsAreWhole`, `PlansAreCurrent`, `WorkedIsAtTarget`, `Invariance`. That logits are sound is
not inductive: the rows behind them lie with the workers, and what will be added
to them is in the frames. `Inv` says that a worker that may be continued has the
rows its hash claims (`WorkersOK`), that every frame and result, late or not,
carries hidden states of its own prefix and extends it by one chunk
(`TrafficOK`), that the coordinator's layers and logits are what they claim
(`CoordinatorOK`), that a call's counters agree with its target and a snapshot in
the making has the shards so far (`CallOK`), and that a current plan is covered by
the registry (`PlanSupported`). With it, the worker's prefix check is enough:
a late frame finds its own prefix, or is refused.
`WorkedIsAtTarget` is the action property `WorkedReachesTarget`. A result names no
frame, so that the one that completes the count is the last needs `Traffic`: while an
evaluation runs, every frame and result under way ends at a token of its own, a
chunk apart from the others, between what has been counted and what has been sent;
otherwise nothing is under way. Every hop, refusal, loss and replay keeps it
(`MovedOn`: the items after a step map one to one to items before it).

**Speculation** (`Speculation_proof`; any tokens, target, context, ratio of four
or more and number of failures): `GraphServes`, `StaysWithinContext`,
`GreedyServesTheTarget`, `TypeCorrectness`. Between calls the graph stands at the checkpoint
(`Standing`); during one, it stands at the base the call remembers, the window
fits the context (`WindowOK`) and the verifier's captures are the rows of the
window's first two tokens (`Verified`). The theorems assume `RowsAreCaptured`: a
device that copies at any time, or drafts of at most two. Where it fails (Metal,
`--mtp-draft 3` or 4, sampling) a rejection behind the second row finds no
capture to roll back to (`ds4.c:31323`), and the run leaves that configuration
out as well.
Greedy output (`GreedyIsTheTarget`) is the target's own because each draft the
verifier accepts is the target's choice after the tokens before it, and the token
pushed last is its choice after those (`Targeted`).

**Expert cache** (`ExpertCache_proof`; any experts, layers, picks, budget, standalone
buffers, passes and faults): `SoundBuffers`, `WithinBudget`, `LockedSlotsAreFound`,
`TypeCorrect`, from `Invariance`. A buffer has one owner: an entry, the free list, or
the load or the early load, of which one at most holds any (`EntriesOK`, `TakingOK`).
What a command buffer has still to read lies in the entry it was read from, stamped
with that command buffer or a later one, and numbered after everything known to have
run (`ReadsOK`, `GpuOK`); so the entry is in flight, and nobody takes its buffer. The
reads of a prompt carry no stamp: there the graph has run before anything is loaded
(place `ran`). To keep this, the invariant follows the loads. An early load under way
is of the layer the main thread is in and of exactly what its selection lacks, and the
next load meets it only to settle it (`PendingOK`). A load keeps the selection, what it
has yet to do and what it holds are apart and without entries, and an early one is of
all that lacks (`LoadOK`). In a split layer the part that was there stays, and the rest,
once there, has no stamp, so installing it clears nothing the GPU reads; the second
stage has its command buffer open because nothing left to load makes the load wait
(`SplitOK`). For the budget: without a fault there is no cap, each slot handed out is
in the free list, an entry or a load (`SlotsOK`), and a load that may still reserve
counts at least the entries and what it holds (`LimitsOK`), so when every slot is
handed out and none is free there is a victim; a standalone buffer is never needed.
This assumes that a layer's selection fits the budget (`Roomy`), as
`StaysWithinBudget` does.

Only model-checked: all liveness; `NeverStuck` of the expert cache, which speaks of
`ENABLED`; of the replies, `ReplyIsShown` and `TrackerIsExact`, which compare what the
stream and the tracker do by increments with what the parser and the recognizer, which
are recursive functions, make of the whole text: an induction over that text.

## 5. Where code and comments disagree

What follows was met in the code while modelling it. The models follow the code
in each of these; no run states the contrary.

Engine session.
* A prefill that is streamed token by token (4 to 18 tokens after a checkpoint, 64
  for one quantization) looks for a cancel after each token and reports only the
  last (`ds4.c:21134`). A cancel in between returns with the old checkpoint,
  declared valid (30391), and compressors that have counted rows of tokens after
  it; a payload saved then holds them too. `ds4.h:330` has a cancel seen only where
  the checkpoint is unchanged or a valid prefix, and the comment at `ds4.c:30485`
  says that a checkpoint is more than its tokens. Without the premise `~spoiled`
  TLC refutes `CacheServesCheckpoint` within a few steps.
* The ring is limited to 8192 rows (`ds4.c:23047`) after chunk and window were
  added, and 8192 is the PRO variant's chunk (8610): from the second chunk on, a
  chunk is stored over the rows before it, and its first 127 tokens attend to a
  window cut off at its start. The comment at 23028 has the ring "cover the
  previous window plus the current ubatch". The observer `spoiled` marks such a
  batch (`TooLarge`, `HasRoom`): with `TooLarge` false for all sessions, TLC refutes
  `CacheServesCheckpoint` in four states.
* With `--prefill-chunk` above 8192 the first batch is longer than the ring, and
  two of its positions are stored to one row in no order (`ds4_cuda.cu:4889`); the
  comment at `ds4.c:18869` has the ring end with the last rows.

Server.
* A per-request steering profile does not revert when the server has no default
  profile, or one that is not in the cache (`ds4_server.c:10947`; the comments at
  10926 and 13334 promise it). `LoadedDefaultIsRestored` speaks of a loaded one.
* A launch steering file given with scale 0 becomes the default without being
  loaded (`ds4.c:11082`).
* A binding is matched by position only (`ds4_server.c:11187`, 11200; the
  comment at 9638 speaks of the conversation). A prefill of another conversation
  stopped at that very position is not told apart. The observer `aliased` in
  `LiveContinuation` exempts it.
* A full replay whose last results answer the bound calls is continued on the live
  tokens, whatever history precedes the calls (`ds4_server.c:8824`, 8838; used at
  9643 to 9687). A client that edited or compacted its history and kept the last
  calls is answered from the old one, and the snapshot filed later under the edited
  text holds the old history. The comment at 9699 leaves
  edits to "normal token/text/disk matching", and the one at 8706 calls the binding
  one from ids to a frontier that either matches or is not used. `ServedFromOwnHistory` with
  `session.conv = job.conv` is refuted by TLC; as stated it says that, but for `aliased`, this
  is the only way, and the observer `edits` which histories it concerns.
* A trailer rewritten in place may be read torn (`ds4_kvstore.c:888`,
  `ds4_server.c:9310`). The flag that a snapshot has a trailer is decided from
  the estimate (`ds4_kvstore.c:1080`, 1096), so one that grew from nothing stays
  unread. A rewrite drops ids the memory no longer holds.

Replies. The well-formed texts of `ReplyIsShown` and the observers leave these out.
* `</think>` and `｜DSML｜` sampled as special tokens are hidden (`ds4_server.c:10878`,
  11554): the thinking they close stays open for the server, an answer behind it is
  streamed and parsed as reasoning until a forced close or the end (the comment at
  7231 has the stream wait for a `</think>` it can see).
* The OpenAI stream enters its tool mode at an opening inside unclosed thinking
  (`ds4_server.c:6528`) and never leaves it for text: what the model answers after
  the recovery is not streamed, while the calls of a block the parser ignores are.
* The recovery injects in the middle of a batch of accepted drafts
  (`ds4_server.c:11671`): the rest of the batch comes after the injected text but
  before it in the session. The close for a loop waits for the end of the batch
  for this reason (comment at 11645). An EOS inside a batch (11541) ends the turn
  inside thinking without the forced close.
* After partial deltas, a second attempt restarts at index 0 (`ds4_server.c:11908`);
  a tool stream that failed after it emitted anything suppresses the final calls
  (6617), as for a parameter without the `string` attribute, which leaves truncated
  arguments under finish `tool_calls` (comment at 5673: "final parsing remains
  authoritative").
* A `</think>` inside a parameter makes the parser drop a call that was streamed;
  an opening behind a blank line is preferred to an earlier one; an empty JSON value
  is streamed as nothing and parsed as `null`; JSON that is none is streamed as it
  is and would be sent whole as `{}` (`ds4_server.c:2690`).
* The tracker misses a closing tag when a token ends between `<` and `/`
  (`ds4_server.c:6130`), and unlike its reference does not end a parameter at a tag
  inside a JSON string.
* After "no budget" the recovery skips the marker (`ds4_server.c:10280`) and the next
  token moves the scan back by 80 bytes, so it is tried again. A loop and a
  recovery at the same token end in "without recovery budget" (11795).
* Calls parsed after an error or a timeout set the finish to `tool_calls`
  (`ds4_server.c:12134`).
* Anthropic streams, read but not modelled: a tool block that failed half way is
  not closed, and a turn of thinking without text ends without `message_stop`.

Agent.
* The end of a turn publishes IDLE before its deferred work (`ds4_agent.c:8194`), so
  `/save`, `/new` or `/switch` of the terminal meet the worker's compaction of the
  session; the comment at 8143 says the worker "owns all DS4 session mutation". The
  observer `raced` marks it, and `CleanMeansSaved` speaks of the other states.
* The second IDLE of deferred work may be published over a turn submitted in
  between (`ds4_agent.c:8111`, 8132, 10009; comment at 8245).
* A `/new` whose prefill fails (`ds4_agent.c:4233`) leaves the new transcript under
  the old identity, so a later save overwrites the old session's file; the status
  stays PREFILL and queued messages are never sent.
* `/del` of the loaded session leaves it clean and without a file
  (`ds4_agent.c:5240`).
* An interrupt sent to a worker that has just become idle stays pending
  (`ds4_agent.c:9976`).

Distributed.
* After a prefill whose last remote step failed, the coordinator's checkpoint
  already equals the prompt (`ds4_distributed.c:5524`); the next sync of it finds
  nothing to do and returns 0 with the logits of an earlier transcript, where
  `ds4_distributed.h:83` promises to "synchronize the distributed KV state to the
  requested prompt timeline". `WorkedReachesTarget` speaks of calls that evaluated
  something.
* A pipelined prefill that ends in a REMOTE_ERROR is replayed over the connection
  its reader has shut.
* `forget_route_workers` (`ds4_distributed.c:2102`, 2965) closes a descriptor the
  client thread still polls.

Speculation.
* `spec_argmax_snapshot_combined_prev_hc` and its bootstrap (`ds4.c:30936`, 30955)
  take `ds4_gpu_tensor_copy(...) == 0` for success; the function returns nonzero
  on success. On CUDA the combined path, "default-on" at `ds4.c:31563`, is never
  taken; on Metal, where the copy fails outside a batch, it is taken with a
  tensor nobody wrote, which only costs acceptance.
* The sampled combined path returns its drafts without the first token
  (`ds4.c:31413`; comments at 31412 and 32741). `SettleSample` does the same.
* A chunk that begins and ends on a row's edge skips the captures
  (`ds4.c:19094`), so a partial acceptance has nothing to roll back to.
* The generic path for more than four drafts takes a nonzero result of the target's
  top for failure, may return -2 after having evaluated the first token, and
  pushes the target's token unevaluated.
* The DSpark commit loop continues past the end of the sequence; a failing
  `spec_frontier_restore` is ignored (`ds4.c:31890`, 32140; modelled as `Torn`).
* A greedy tool section of the agent still calls the sampling entry with its
  temperature (`ds4_agent.c:7846`).

Expert cache.
* Buffers reserved by a load that fails are neither freed nor owned
  (`ds4_metal.m:10784`): their slots are lost until the cache is cleared.
  `NothingLost` holds up to the observer `dropped`.
* With early loads disabled by the environment, a split layer loads its missing
  experts after it fetched the command buffer it encodes into
  (`ds4_metal.m:23998`), and a wait in that load commits it. The run has them
  enabled, as by default.
* The wait of a load on the async thread may commit the batch the main thread is
  encoding into, without a lock (`ds4_metal.m:6445`; `BatchTornAway`).

## 6. Plan

Written so far, in this order: server lifecycle, steering, live continuation, KV
store, agent, distributed session, tool memory, speculation, expert cache, replies,
engine session. What
would be next, each with its run and, where it pays, its proof:

1. The streams of the Anthropic and Responses protocols, against the same parse of
   `DsmlText`; stop strings and failing writes.
2. `KvBoundaries`: the arithmetic of store boundaries and the mark of the last
   continued store, against a definition by sets; the eviction score's order.
3. Agent session files: `/del`, `/strip`, `--load-session`, composed with the
   terminal.
4. `SessionCache` with `Speculation` in place of its single tokens.
5. The generic speculative path and the sampled DSpark path.

## 7. Not modelled

Floating point, kernels, tensor layout and tokenization; wire formats; the
progress lines of the server; file permissions, symbolic links and other
processes in the same directory; memory exhaustion (`die`); power requests and
background bash jobs of the agent; `/del`, `/strip` and drawing in the terminal;
`--load-session`. In the KV store: corruption of a file by
anything but this program, a stale temporary file (it is never read, counted or
removed), minimum and maximum token counts of a snapshot, quantization and
model (one of each; the context size stands for compatibility). The attention and FFN steering scales are one. Two clients
that share a call id by chance are not modelled: ids carry random bits. A
compaction is assumed to change the length of the transcript.

Replies: the Anthropic and Responses streams, stop strings, failing writes, names,
entities and UTF-8 in a block, the second and third spelling of its tags, and the
environment switches of the recovery. Tool memory: `--disable-exact-dsml-tool-replay`, which leaves it empty; torn reads
of a trailer. Distributed: the coordinator that serves prompts of its own,
telemetry, the threads that hold slots and forward inside the pipeline, an output
head that fails on the coordinator, saves while another call runs. Speculation:
the drafters, five drafts or more, the sampled DSpark path, test hooks, batches
that change a near tie. Engine session: the CPU back end, batch decode
(`DS4_BATCH_DECODE`), the ring and chunk sizes of the environment, layer slices.
Expert cache: the hit validator, compact and full address
tables, command buffers owned outside a batch, the switches of the environment,
a disabled `mlock`, device errors, the wrap of command buffer numbers; the caches
of CUDA and ROCm.

Most of the source is outside a model checker's reach: kernels (CUDA, ROCm,
Metal), the forward passes and quantization in `ds4.c`, tokenizer, parsers and
printing make up some nine tenths of its lines, and there is no state in them
that several steps or actors share.
