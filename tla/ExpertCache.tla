----------------------------- MODULE ExpertCache -----------------------------
(***************************************************************************)
(* The expert cache of SSD streaming on Metal (ds4_metal.m) and the        *)
(* threads that use it.  The experts a layer selects are read from the     *)
(* model file into buffers; command buffers read those buffers long after  *)
(* the call that encoded them has returned.  The main thread encodes and   *)
(* commits; a load runs either on it or, while it encodes the shared       *)
(* expert, on the async load thread of ds4.c; the pread pool fills the     *)
(* buffers of an early load while both go on; the GPU finishes command     *)
(* buffers in the order they were committed.                               *)
(*                                                                         *)
(* A buffer is a slot of the slabs (1..Budget) or a standalone allocation. *)
(* Which unprotected entry is the least valuable is a choice.              *)
(***************************************************************************)
EXTENDS Integers, FiniteSets, FiniteSetsExt

CONSTANTS
  Experts,      \* every expert of every layer
  Layers,       \* the model has layers 1..Layers
  LayerOf,      \* the layer of an expert
  NSel,         \* experts a token selects in a layer
  HashLayers,   \* how many of a model's first layers select by the token's id
  Budget,       \* experts the user lets the cache hold
  Alone,        \* standalone buffers
  Picks,        \* sets of experts of a layer that a token, rows or a seed select
  MaxPasses,    \* bound: tokens, prompts and seeds
  MaxFaults     \* bound: reads, locks and readbacks that fail

ASSUME CountsAreNat == /\ Layers \in Nat \ {0} /\ NSel \in Nat \ {0}
                       /\ Budget \in Nat \ {0}
                       /\ MaxPasses \in Nat /\ MaxFaults \in Nat
ASSUME HashLayersAreNat == HashLayers # {} /\ HashLayers \subseteq 0..Layers
ASSUME ExpertsHaveLayers == LayerOf \in [Experts -> 1..Layers]
ASSUME ExpertsAreFinite == IsFiniteSet(Experts)
ASSUME PicksAreOfALayer ==
  \A S \in Picks : S # {} /\ S \subseteq Experts
                   /\ \A x, y \in S : LayerOf[x] = LayerOf[y]
ASSUME AloneAreBuffers == Alone \subseteq Nat \ 0..Budget

VARIABLES
  cache,        \* entries and slots: see CacheType
  bytes,        \* the expert whose weights a buffer holds, None while being read
  gpu,          \* command buffer epochs and the reads not yet executed
  pending,      \* the early load the pread pool works on
  load,         \* the load in progress, on one of the two threads
  main,         \* the main thread
  faults,       \* bound counter
  dropped       \* observer: a failed load has let go of its buffers

vars == <<cache, bytes, gpu, pending, load, main, faults, dropped>>

None == "none"
Slots == 1..Budget
Bufs == Slots \cup Alone
Empty == [buf |-> 0, seq |-> 0]
Held == [x : Experts, buf : Bufs]

(* g_stream_expert_cache and the slab arrays: an entry has a buffer (0: not *)
(* valid) and the last command buffer that reads it; slots handed out so    *)
(* far, the free list, the slots locked in memory, the budget cap a failed  *)
(* lock leaves behind (0: none), and whether the margin was given back.     *)
CacheType == [entry : [Experts -> [buf : Bufs \cup {0}, seq : Nat]],
              used : 0..Budget, free : SUBSET Slots, locked : SUBSET Slots,
              cap : Nat, relief : BOOLEAN]

(* Command buffers are numbered as they are created: the last number, the   *)
(* open batch (0: none), the newest committed one not yet waited for, and   *)
(* the newest the CPU knows to have finished.                               *)
GpuType == [seq : Nat, batch : Nat, pend : Nat, done : Nat,
            reads : SUBSET [seq : Nat, x : Experts, buf : Bufs]]

NoPending == [on |-> FALSE, layer |-> 1, sel |-> {}, held |-> {}, state |-> "good"]
NoLoad(ok) == [on |-> FALSE, ok |-> ok, by |-> "main", how |-> "missing",
               step |-> "clear", layer |-> 1, keep |-> {}, todo |-> {},
               held |-> {}, reserved |-> 0, budget |-> 0]

Init ==
  /\ cache = [entry |-> [x \in Experts |-> Empty], used |-> 0, free |-> {},
              locked |-> {}, cap |-> 0, relief |-> FALSE]
  /\ bytes = [b \in Bufs |-> None]
  /\ gpu = [seq |-> 0, batch |-> 0, pend |-> 0, done |-> 0, reads |-> {}]
  /\ pending = NoPending
  /\ load = NoLoad(TRUE)
  /\ \E n \in HashLayers :
       main = [pc |-> "rest", kind |-> "decode", layer |-> 1, sel |-> {},
               has |-> {}, cb |-> 0, passes |-> 0, hashed |-> n]
  /\ faults = 0 /\ dropped = FALSE

-----------------------------------------------------------------------------
(* Command buffers *)

Larger(a, b) == IF a > b THEN a ELSE b

(* ds4_gpu_begin_commands: a new batch with a number of its own. *)
Begun(g) == [g EXCEPT !.seq = @ + 1, !.batch = g.seq + 1]

(* ds4_gpu_flush_commands: the batch is committed, another opened. *)
Flushed(g) == Begun([g EXCEPT !.pend = Larger(@, g.batch)])

(* ds4_gpu_wait_pending_command_buffers: all that was committed has run. *)
Drained(g) == [g EXCEPT !.done = Larger(@, g.pend), !.pend = 0,
                        !.reads = {r \in @ : r.seq = g.batch}]

(* ds4_gpu_end_commands: commit, wait for everything, no batch open. *)
Ended(g) == [g EXCEPT !.done = Larger(Larger(@, g.pend), g.batch),
                      !.pend = 0, !.batch = 0, !.reads = {}]

(* The wait of the cache: flush what is open and wait for what is pending. *)
WaitedInflight(g) ==
  LET f == IF g.batch # 0 THEN Flushed(g) ELSE g
  IN IF f.pend # 0 THEN Drained(f) ELSE f

(* ds4_gpu_commit_and_wait_selected_readback, ..._signal_batch_and_wait_event:*)
(* the batch has run up to the signal at its end, but is still pending.    *)
ReadBack(g) == [Flushed(g) EXCEPT !.reads = {}]

(* ds4_gpu_synchronize after a failure. *)
Synchronized(g) == IF g.batch # 0 THEN Ended(g) ELSE Drained(g)

(* The GPU finishes the oldest committed command buffer with reads. *)
GpuRuns ==
  LET committed == {r.seq : r \in {s \in gpu.reads : s.seq # gpu.batch}}
  IN /\ main.pc # "aborted"
     /\ committed # {}
     /\ gpu' = [gpu EXCEPT !.reads = {r \in @ : r.seq # Min(committed)}]
     /\ UNCHANGED <<cache, bytes, pending, load, main, faults, dropped>>

-----------------------------------------------------------------------------
(* Entries *)

Valid(c) == {x \in Experts : c.entry[x].buf # 0}
\* Mutated form: the open batch is not in flight yet.
OnlyCommitted(c, g) ==
  {x \in Valid(c) : c.entry[x].seq > g.done /\ c.entry[x].seq # g.batch}

InFlight(c, g) == {x \in Valid(c) : c.entry[x].seq > g.done}
Kept(layer, keep) == {x \in keep : LayerOf[x] = layer}
Spare(c, g, layer, keep) == Valid(c) \ (InFlight(c, g) \cup Kept(layer, keep))

(* The configured budget: what the user asked for, or less once memory     *)
(* could not be locked.                                                    *)
Allowed(c) == IF c.cap # 0 /\ c.cap < Budget THEN c.cap ELSE Budget

\* Mutated form: the slots do not come back.
ClearedForGood(c, g, X) ==
  LET gone == (X \cap Valid(c)) \ InFlight(c, g)
  IN [c EXCEPT !.entry = [x \in Experts |-> IF x \in gone THEN Empty ELSE @[x]]]

(* clear_entry_internal for a set of entries: not those in flight; slots go *)
(* to the free list, standalone buffers back to the system.                *)
Cleared(c, g, X) ==
  LET gone == (X \cap Valid(c)) \ InFlight(c, g)
  IN [c EXCEPT !.entry = [x \in Experts |-> IF x \in gone THEN Empty ELSE @[x]],
               !.free = @ \cup ({c.entry[x].buf : x \in gone} \cap Slots)]

(* clear_entry_internal with its buffers handed to the caller. *)
Taken(c, x) == [c EXCEPT !.entry[x] = Empty]

(* prune_global: the least valuable entries go until the budget is met or  *)
(* only protected ones are left.  prune_layer never has anything to do,    *)
(* its cap being the number of experts.                                    *)
Pruned(c, g, layer, keep) ==
  LET spare == Spare(c, g, layer, keep)
      over == Cardinality(Valid(c)) - Allowed(c)
      n == IF over > Cardinality(spare) THEN Cardinality(spare) ELSE over
  IN IF over <= 0 THEN {c}
     ELSE {Cleared(c, g, X) : X \in {Y \in SUBSET spare : Cardinality(Y) = n}}

(* install_loaded: an entry that is there makes room, its own command      *)
(* buffers waited for; the address table follows the entry.                *)
InstallWaits(c, g, held) == \E h \in held : h.x \in InFlight(c, g)
Installed(c, g, held) ==
  LET d == Cleared(c, g, {h.x : h \in held})
      new(x) == CHOOSE h \in held : h.x = x
  IN [d EXCEPT !.entry = [x \in Experts |-> IF \E h \in held : h.x = x
                                            THEN [buf |-> new(x).buf, seq |-> 0]
                                            ELSE @[x]]]

(* mark_entries_inflight: stamped with the open command buffer. *)
Marked(c, g, X) ==
  [c EXCEPT !.entry = [x \in Experts |-> IF x \in X THEN [@[x] EXCEPT !.seq = g.batch]
                                         ELSE @[x]]]

(* What a command buffer will read once these experts are encoded into it. *)
Encoded(g, c, X, cb) ==
  [g EXCEPT !.reads = @ \cup {[seq |-> cb, x |-> x, buf |-> c.entry[x].buf] : x \in X}]

(* cap_budget_to_locked: no more than the entries there are, the slots that *)
(* are locked, or the gibibytes that were.                                 *)
Caps(c) ==
  LET n == Cardinality(c.locked)
      m == Cardinality(Valid(c))
      most == IF n # 0 /\ n < m THEN n ELSE m
  IN IF most = 0 THEN {c.cap}
     ELSE {IF c.cap = 0 \/ k < c.cap THEN k ELSE c.cap : k \in 1..most}

(* release_mlock_margin: once, a tenth of the locked slots are given back   *)
(* to the system, entries and all.                                         *)
Relieved(c, g, layer, keep) ==
  LET spare == {x \in Spare(c, g, layer, keep) : c.entry[x].buf \in c.locked}
      target == (Cardinality(c.locked) + 9) \div 10
      n == IF target > Cardinality(spare) THEN Cardinality(spare) ELSE target
      After(X) ==
        LET locked == c.locked \ {c.entry[x].buf : x \in X}
            left == Cardinality(Valid(c) \ X)
            k == IF locked # {} /\ Cardinality(locked) < left
                 THEN Cardinality(locked) ELSE left
        IN [c EXCEPT !.entry = [x \in Experts |-> IF x \in X THEN Empty ELSE @[x]],
                     !.locked = locked, !.relief = TRUE,
                     !.cap = IF k # 0 /\ (@ = 0 \/ k < @) THEN k ELSE @]
  IN IF c.relief \/ n = 0 THEN {c}
     ELSE {After(X) : X \in {Y \in SUBSET spare : Cardinality(Y) = n}}

-----------------------------------------------------------------------------
(* A load: on the main thread, or by the async load thread *)

Loading(step) == load.on /\ load.step = step /\ main.pc # "aborted"

OneByOne == load.how \in {"batch", "row"}     \* get_protected, one expert at a time
Keep == IF load.how = "row" THEN {} ELSE load.keep
Count == Cardinality(Valid(cache))
\* Mutated form: what the load itself has reserved is not counted.
NeverForced == OneByOne /\ Count >= Allowed(cache)

Forced == IF OneByOne THEN Count >= Allowed(cache) ELSE load.reserved >= load.budget
SpareNow == Spare(cache, gpu, load.layer, Keep)

(* What prepare_load_buffers finds for an expert without an entry: a victim *)
(* is wanted once the budget is reached; none can be had if every entry is *)
(* protected; and those in flight are worth waiting for.                   *)
WantsVictim == Forced \/ Count >= Allowed(cache)
Awaits == SpareNow = {} /\ InFlight(cache, gpu) # {}
NoReuse == ~WantsVictim \/ (SpareNow = {} /\ InFlight(cache, gpu) = {})

(* A load of these experts begins. *)
Load(by, how, step, layer, keep, todo) ==
  load' = [on |-> TRUE, ok |-> TRUE, by |-> by, how |-> how, step |-> step,
           layer |-> layer, keep |-> keep, todo |-> todo, held |-> {},
           reserved |-> 0, budget |-> 0]

PendingMatches == /\ pending.on
                  /\ pending.layer = load.layer /\ pending.sel = load.keep

(* Nothing more is known of the buffers of a load that fails: neither an   *)
(* entry nor the free list has them.                                       *)
Fails(held) == load' = NoLoad(FALSE) /\ dropped' = (dropped \/ held # {})

(* The async load thread waits for the router's choice to be on the GPU's  *)
(* event, which the batch of that moment signals at its end.               *)
EventSignaled ==
  /\ Loading("event")
  /\ gpu.batch # main.cb /\ \A r \in gpu.reads : r.seq > main.cb
  /\ load' = [load EXCEPT !.step = "clear"]
  /\ UNCHANGED <<cache, bytes, gpu, pending, main, faults, dropped>>

EventTimesOut ==
  /\ Loading("event") /\ faults < MaxFaults
  /\ faults' = faults + 1
  /\ load' = NoLoad(FALSE)
  /\ UNCHANGED <<cache, bytes, gpu, pending, main, dropped>>

(* An earlier early load is finished first: its reads are waited for, its  *)
(* experts installed.  A load of the very same selection takes them over.  *)
Settles == Loading("clear") /\ pending.on /\ ~(load.how = "early" /\ PendingMatches)

SettlePending ==
  /\ Settles /\ pending.state # "reading"
  /\ pending' = NoPending
  /\ \/ /\ pending.state = "good" /\ ~InstallWaits(cache, gpu, pending.held)
        /\ cache' = Installed(cache, gpu, pending.held)
        /\ load' = [load EXCEPT !.step = "plan",
                                !.todo = IF PendingMatches THEN @ \ {h.x : h \in pending.held}
                                         ELSE @]
        /\ UNCHANGED dropped
     \/ /\ pending.state = "bad"
        /\ IF load.how = "missing" /\ PendingMatches THEN load' = NoLoad(FALSE)
           ELSE load' = [load EXCEPT !.step = "plan"]
        /\ dropped' = TRUE
        /\ UNCHANGED cache
  /\ UNCHANGED <<bytes, gpu, main, faults>>

(* What is to be read: for an early load, what the cache lacks.  An early  *)
(* load of a selection that is already on its way has nothing to do.       *)
PlanLoad ==
  /\ Loading("plan") \/ (Loading("clear") /\ ~Settles)
  /\ LET todo == IF load.how = "early" THEN load.keep \ Valid(cache) ELSE load.todo
     IN load' = IF PendingMatches \/ todo = {} THEN NoLoad(TRUE)
                ELSE [load EXCEPT !.step = "reserve", !.todo = todo,
                                  !.reserved = Count, !.budget = Allowed(cache)]
  /\ UNCHANGED <<cache, bytes, gpu, pending, main, faults, dropped>>

(* get_protected finds the expert there. *)
GetHit(x) ==
  /\ Loading("reserve") /\ OneByOne /\ x \in load.todo \cap Valid(cache)
  /\ load' = IF load.todo = {x} THEN NoLoad(TRUE) ELSE [load EXCEPT !.todo = @ \ {x}]
  /\ UNCHANGED <<cache, bytes, gpu, pending, main, faults, dropped>>

(* prepare_load_buffers has a buffer for the expert. *)
Reserved(x, b) ==
  load' = [load EXCEPT !.todo = @ \ {x}, !.held = @ \cup {[x |-> x, buf |-> b]},
                       !.reserved = IF Forced THEN @ ELSE @ + 1,
                       !.step = IF OneByOne \/ load.todo = {x} THEN "read" ELSE "reserve"]

(* The expert's own old buffer. *)
ReserveOwn(x) ==
  /\ Loading("reserve") /\ ~OneByOne
  /\ x \in (load.todo \cap Valid(cache)) \ InFlight(cache, gpu)
  /\ cache' = Taken(cache, x)
  /\ Reserved(x, cache.entry[x].buf)
  /\ UNCHANGED <<bytes, gpu, pending, main, faults, dropped>>

(* take_reusable: the buffer of another entry. *)
ReserveVictim(x, y) ==
  /\ x \in load.todo \ Valid(cache) /\ y \in SpareNow
  /\ (Loading("reserve") /\ WantsVictim) \/ Loading("forced")
  /\ cache' = Taken(cache, y)
  /\ Reserved(x, cache.entry[y].buf)
  /\ UNCHANGED <<bytes, gpu, pending, main, faults, dropped>>

(* alloc_slab_slot: a slot of the free list, else one never used. *)
SlotsAtHand == IF cache.free # {} THEN cache.free
               ELSE {s \in Slots : s = cache.used + 1}

TookSlot(s) == IF cache.free # {} THEN [cache EXCEPT !.free = @ \ {s}]
               ELSE [cache EXCEPT !.used = s]

WantsSlot(x) == /\ Loading("reserve") /\ NoReuse /\ cache.cap = 0
                /\ x \in load.todo \ Valid(cache)

ReserveSlot(x, s) ==
  /\ WantsSlot(x) /\ s \in SlotsAtHand
  /\ cache' = [TookSlot(s) EXCEPT !.locked = @ \cup {s}]
  /\ Reserved(x, s)
  /\ UNCHANGED <<bytes, gpu, pending, main, faults, dropped>>

(* The slot cannot be locked in memory: the budget is capped, the slot is  *)
(* not used again.                                                         *)
LockFails(x, s) ==
  /\ WantsSlot(x) /\ s \in SlotsAtHand \ cache.locked
  /\ faults < MaxFaults /\ faults' = faults + 1
  /\ \E k \in Caps(cache) : cache' = [TookSlot(s) EXCEPT !.cap = k]
  /\ load' = [load EXCEPT !.step = IF cache'.cap # 0 THEN "squeeze" ELSE "alone"]
  /\ UNCHANGED <<bytes, gpu, pending, main, dropped>>

(* Under a cap: give the margin back, then a victim or nothing. *)
Squeeze ==
  /\ \/ Loading("squeeze")
     \/ /\ Loading("reserve") /\ NoReuse /\ cache.cap # 0
        /\ load.todo \ Valid(cache) # {}
  /\ cache' \in Relieved(cache, gpu, load.layer, Keep)
  /\ load' = [load EXCEPT !.step = "forced"]
  /\ UNCHANGED <<bytes, gpu, pending, main, faults, dropped>>

NoVictim ==
  /\ Loading("forced") /\ SpareNow = {} /\ ~Awaits
  /\ Fails(load.held)
  /\ UNCHANGED <<cache, bytes, gpu, pending, main, faults>>

(* A buffer of its own, locked in memory if that can be had.  The device   *)
(* may have none to give.                                                  *)
InUse == {cache.entry[x].buf : x \in Experts}
         \cup {h.buf : h \in load.held \cup pending.held}

WantsAlone(x) ==
  \/ Loading("alone") /\ x \in load.todo \ Valid(cache)
  \/ WantsSlot(x) /\ SlotsAtHand = {}

ReserveAlone(x) ==
  /\ WantsAlone(x)
  /\ LET b == CHOOSE b \in Alone \ InUse : TRUE
     IN /\ Alone \ InUse # {}
        /\ Reserved(x, b)
  /\ \/ UNCHANGED <<cache, faults>>
     \/ /\ faults < MaxFaults /\ faults' = faults + 1
        /\ \E k \in Caps(cache) : cache' = [cache EXCEPT !.cap = k]
  /\ UNCHANGED <<bytes, gpu, pending, main, dropped>>

NoBuffer ==
  /\ \E x \in load.todo : WantsAlone(x)
  /\ Alone \subseteq InUse
  /\ Fails(load.held)
  /\ UNCHANGED <<cache, bytes, gpu, pending, main, faults>>

(* The cache waits for the command buffers in flight: to overwrite or to   *)
(* install over an entry they read, or to have a victim at all.            *)
LoadAwaits ==
  \/ Settles /\ pending.state = "good" /\ InstallWaits(cache, gpu, pending.held)
  \/ Loading("install") /\ InstallWaits(cache, gpu, load.held)
  \/ Loading("reserve") /\ ~OneByOne /\ load.todo \cap InFlight(cache, gpu) # {}
  \/ /\ Loading("reserve") /\ WantsVictim /\ Awaits
     /\ load.todo \ Valid(cache) # {}
  \/ Loading("forced") /\ Awaits

WaitInflight ==
  /\ LoadAwaits
  /\ gpu' = WaitedInflight(gpu)
  /\ UNCHANGED <<cache, bytes, pending, load, main, faults, dropped>>

(* On the async load thread that wait commits the batch the main thread is *)
(* encoding into, whose encoder may be open: Metal stops the process.      *)
BatchTornAway ==
  /\ LoadAwaits /\ load.by = "worker" /\ main.pc = "window" /\ gpu.batch # 0
  /\ main' = [main EXCEPT !.pc = "aborted"]
  /\ UNCHANGED <<cache, bytes, gpu, pending, load, faults, dropped>>

(* The reads begin.  An early load leaves them to the pread pool, if there *)
(* are threads for one, and returns.                                       *)
StartReads ==
  /\ Loading("read")
  /\ bytes' = [b \in Bufs |-> IF \E h \in load.held : h.buf = b THEN None ELSE bytes[b]]
  /\ \/ /\ load' = [load EXCEPT !.step = "reading"]
        /\ UNCHANGED pending
     \/ /\ load.how = "early"
        /\ pending' = [on |-> TRUE, layer |-> load.layer, sel |-> load.keep,
                       held |-> load.held, state |-> "reading"]
        /\ load' = NoLoad(TRUE)
  /\ UNCHANGED <<cache, gpu, main, faults, dropped>>

ReadInto(held) ==
  [b \in Bufs |-> IF \E h \in held : h.buf = b
                  THEN (CHOOSE h \in held : h.buf = b).x ELSE bytes[b]]

FinishReads ==
  /\ Loading("reading")
  /\ bytes' = ReadInto(load.held)
  /\ load' = [load EXCEPT !.step = "install"]
  /\ UNCHANGED <<cache, gpu, pending, main, faults, dropped>>

ReadsFail ==
  /\ Loading("reading") /\ faults < MaxFaults
  /\ faults' = faults + 1
  /\ Fails(load.held)
  /\ UNCHANGED <<cache, bytes, gpu, pending, main>>

PoolReads ==
  /\ main.pc # "aborted" /\ pending.state = "reading"
  /\ bytes' = ReadInto(pending.held)
  /\ pending' = [pending EXCEPT !.state = "good"]
  /\ UNCHANGED <<cache, gpu, load, main, faults, dropped>>

PoolFails ==
  /\ main.pc # "aborted" /\ pending.state = "reading" /\ faults < MaxFaults
  /\ faults' = faults + 1
  /\ pending' = [pending EXCEPT !.state = "bad"]
  /\ UNCHANGED <<cache, bytes, gpu, load, main, dropped>>

Install ==
  /\ Loading("install") /\ ~InstallWaits(cache, gpu, load.held)
  /\ cache' = Installed(cache, gpu, load.held)
  /\ load' = IF load.todo = {} THEN NoLoad(TRUE)
             ELSE [load EXCEPT !.step = "reserve", !.held = {}]
  /\ UNCHANGED <<bytes, gpu, pending, main, faults, dropped>>

LoadStep ==
  \/ EventSignaled \/ SettlePending \/ PlanLoad \/ Squeeze \/ NoVictim \/ NoBuffer
  \/ WaitInflight \/ StartReads \/ FinishReads \/ Install
  \/ \E x \in Experts : GetHit(x) \/ ReserveOwn(x) \/ ReserveAlone(x)
  \/ \E x, y \in Experts : ReserveVictim(x, y)
  \/ \E x \in Experts, s \in Slots : ReserveSlot(x, s)

LoadFaults ==
  \/ EventTimesOut \/ ReadsFail \/ PoolFails \/ BatchTornAway
  \/ \E x \in Experts, s \in Slots : LockFails(x, s)

-----------------------------------------------------------------------------
(* The main thread *)

At(pc) == main.pc = pc /\ ~load.on
To(pc) == main' = [main EXCEPT !.pc = pc]
OfLayer(l) == {x \in Experts : LayerOf[x] = l}

(* A token or a prompt: a batch is opened for its first layer. *)
Begin(kind) ==
  /\ At("rest") /\ main.passes < MaxPasses
  /\ main' = [main EXCEPT !.pc = "layer", !.kind = kind, !.layer = 1, !.passes = @ + 1]
  /\ gpu' = Begun(gpu)
  /\ UNCHANGED <<cache, bytes, pending, load, faults, dropped>>

(* Between passes: experts known to be hot are loaded in advance, as a set  *)
(* (of no more than the budget, as the preload count is) or, after a        *)
(* prompt, those its last rows selected, one by one.                        *)
Seed(how, l, S) ==
  /\ At("rest") /\ main.passes < MaxPasses
  /\ S \subseteq OfLayer(l)
  /\ main' = [main EXCEPT !.pc = "seed", !.layer = l, !.sel = S, !.passes = @ + 1]
  /\ \/ how = "row" /\ Load("main", how, "reserve", l, S, S)
     \/ /\ how = "missing" /\ Cardinality(S) <= Budget
        /\ Load("main", how, "clear", l, S, S \ Valid(cache))
  /\ UNCHANGED <<cache, bytes, gpu, pending, faults, dropped>>

Seeded ==
  /\ At("seed") /\ To("rest")
  /\ IF load.ok THEN cache' \in Pruned(cache, gpu, main.layer, main.sel)
     ELSE UNCHANGED cache
  /\ UNCHANGED <<bytes, gpu, pending, load, faults, dropped>>

Decoding(S) == /\ At("layer") /\ main.kind = "decode"
               /\ S \subseteq OfLayer(main.layer) /\ Cardinality(S) = NSel

(* A layer that selects by the token's id: the early load begins at once,   *)
(* with the layers before it still in the open batch.                       *)
HashStart(S) ==
  /\ Decoding(S) /\ main.layer <= main.hashed
  /\ main' = [main EXCEPT !.pc = "join", !.sel = S]
  /\ Load("main", "early", "clear", main.layer, S, {})
  /\ UNCHANGED <<cache, bytes, gpu, pending, faults, dropped>>

Routed(S) == Decoding(S) /\ main.layer > main.hashed

(* The router is encoded and its event signaled by the open batch; the load *)
(* thread waits for it while the shared expert is encoded.                  *)
AsyncStart(S) ==
  /\ Routed(S)
  /\ main' = [main EXCEPT !.pc = "window", !.sel = S, !.cb = gpu.batch]
  /\ Load("worker", "early", "event", main.layer, S, {})
  /\ UNCHANGED <<cache, bytes, gpu, pending, faults, dropped>>

(* The router's batch is committed early, so that the load may begin. *)
EarlyCommit ==
  /\ main.pc = "window" /\ gpu.batch = main.cb
  /\ gpu' = Flushed(gpu)
  /\ UNCHANGED <<cache, bytes, pending, load, main, faults, dropped>>

\* Mutated form: joined without committing what the event waits for.
JoinWithoutFlush ==
  /\ main.pc = "window"
  /\ To("join")
  /\ UNCHANGED <<cache, bytes, gpu, pending, load, faults, dropped>>

FlushWindow ==
  /\ main.pc = "window"
  /\ gpu' = Flushed(gpu) /\ To("join")
  /\ UNCHANGED <<cache, bytes, pending, load, faults, dropped>>

Join ==
  /\ At("join") /\ To(IF load.ok THEN "selected" ELSE "failed")
  /\ UNCHANGED <<cache, bytes, gpu, pending, load, faults, dropped>>

(* Without the thread: wait for the selection, then start the reads. *)
SyncStart(S) ==
  /\ Routed(S)
  /\ main' = [main EXCEPT !.pc = "join", !.sel = S]
  /\ gpu' = ReadBack(gpu)
  /\ Load("main", "early", "clear", main.layer, S, {})
  /\ UNCHANGED <<cache, bytes, pending, faults, dropped>>

SyncFails(S) ==
  /\ Routed(S) /\ faults < MaxFaults
  /\ faults' = faults + 1
  /\ gpu' = Drained([gpu EXCEPT !.pend = Larger(@, gpu.batch), !.batch = 0])
  /\ To("failed")
  /\ UNCHANGED <<cache, bytes, pending, load, dropped>>

(* Without the overlap: the selection is read back where it is used. *)
SelectedReadback(S) ==
  /\ Routed(S)
  /\ main' = [main EXCEPT !.pc = "selected", !.sel = S]
  /\ gpu' \in {ReadBack(gpu), Begun(Ended(gpu))}
  /\ UNCHANGED <<cache, bytes, pending, load, faults, dropped>>

(* ds4_gpu_routed_moe_one_tensor: what of the selection is there.  If a part *)
(* is, its stage may run while the rest is read; else all is loaded first.  *)
Missing == main.sel \ Valid(cache)

SplitStart ==
  /\ At("selected") /\ Missing \notin {{}, main.sel}
  /\ main' = [main EXCEPT !.pc = "split", !.has = main.sel \ Missing]
  /\ Load("main", "early", "clear", main.layer, main.sel, {})
  /\ UNCHANGED <<cache, bytes, gpu, pending, faults, dropped>>

LoadMissing ==
  /\ At("selected")
  /\ main' = [main EXCEPT !.pc = "loaded", !.has = main.sel]
  /\ IF Missing = {} THEN load' = NoLoad(TRUE)
     ELSE Load("main", "missing", "clear", main.layer, main.sel, Missing)
  /\ UNCHANGED <<cache, bytes, gpu, pending, faults, dropped>>

(* Encode a stage that reads these experts, each stamped with the batch     *)
(* open at that moment; it is refused if one of them is not there.          *)
Encode(c, g, X, cb, then) ==
  IF X \subseteq Valid(c)
  THEN cache' = Marked(c, g, X) /\ gpu' = Encoded(g, c, X, cb) /\ then
  ELSE cache' = c /\ gpu' = g /\ To("failed") /\ UNCHANGED load

EncodeLoaded ==
  /\ At("loaded") /\ load.ok
  /\ \E c \in Pruned(cache, gpu, main.layer, main.sel) :
       Encode(c, gpu, main.sel, gpu.batch, To("encoded") /\ UNCHANGED load)
  /\ UNCHANGED <<bytes, pending, faults, dropped>>

(* The stage of the resident experts is committed, the rest loaded. *)
EncodeResident ==
  /\ At("split") /\ load.ok
  /\ \E c \in Pruned(cache, gpu, main.layer, main.sel) :
       IF main.has \subseteq Valid(c)
       THEN LET g == Flushed(Encoded(gpu, c, main.has, gpu.batch))
            IN /\ cache' = Marked(c, gpu, main.has)
               /\ gpu' = g
               /\ main' = [main EXCEPT !.pc = "split_rest", !.cb = g.batch]
               /\ Load("main", "missing", "clear", main.layer, main.sel, main.sel \ main.has)
       ELSE cache' = c /\ To("failed") /\ UNCHANGED <<gpu, load>>
  /\ UNCHANGED <<bytes, pending, faults, dropped>>

(* The second stage goes into the command buffer fetched before the load,   *)
(* once the first, whose scratch it uses, has run.                          *)
EncodeMissing ==
  /\ At("split_rest") /\ load.ok
  /\ \E c \in Pruned(cache, gpu, main.layer, main.sel) :
       Encode(c, Drained(gpu), main.sel, main.cb, To("encoded") /\ UNCHANGED load)
  /\ UNCHANGED <<bytes, pending, faults, dropped>>

LoadFailed ==
  /\ main.pc \in {"loaded", "split", "split_rest"} /\ ~load.on /\ ~load.ok
  /\ To("failed")
  /\ UNCHANGED <<cache, bytes, gpu, pending, load, faults, dropped>>

(* A prompt's layer: what is encoded runs first, then all the experts its   *)
(* rows select are made resident, unless they are more than the budget.     *)
PrefillLoad(U) ==
  /\ At("layer") /\ main.kind = "prefill"
  /\ U \subseteq OfLayer(main.layer) /\ Cardinality(U) >= NSel
  /\ gpu' = Ended(gpu)
  /\ IF Cardinality(U) <= Allowed(cache)
     THEN /\ Load("main", "batch", "reserve", main.layer, U, U)
          /\ main' = [main EXCEPT !.pc = "prefill", !.sel = U]
          /\ UNCHANGED cache
     ELSE /\ cache' = Cleared(cache, Ended(gpu), OfLayer(main.layer))
          /\ To("failed")
          /\ UNCHANGED load
  /\ UNCHANGED <<bytes, pending, faults, dropped>>

(* The experts of a prompt are not stamped: the batch ends, and has run,    *)
(* before anything else is done.                                            *)
PrefillEncode ==
  /\ At("prefill")
  /\ IF load.ok /\ main.sel \subseteq Valid(cache)
     THEN /\ gpu' = Encoded(Begun(gpu), cache, main.sel, gpu.seq + 1)
          /\ To("ran")
          /\ UNCHANGED cache
     ELSE /\ cache' = Cleared(cache, gpu, OfLayer(main.layer))
          /\ To("failed")
          /\ UNCHANGED gpu
  /\ UNCHANGED <<bytes, pending, load, faults, dropped>>

PrefillRan ==
  /\ At("ran") /\ To("encoded")
  /\ gpu' = Begun(Ended(gpu))
  /\ UNCHANGED <<cache, bytes, pending, load, faults, dropped>>

(* The next layer, in the same batch or in one of its own; the pass ends    *)
(* when the GPU has run it all.                                             *)
NextLayer ==
  /\ At("encoded")
  /\ \/ /\ main.layer < Layers
        /\ main' = [main EXCEPT !.pc = "layer", !.layer = @ + 1]
        /\ gpu' \in {gpu, Begun(Ended(gpu))}
     \/ main.layer = Layers /\ To("rest") /\ gpu' = Ended(gpu)
  /\ UNCHANGED <<cache, bytes, pending, load, faults, dropped>>

(* A pass that failed waits for what it committed. *)
GiveUp ==
  /\ At("failed") /\ To("rest")
  /\ gpu' = Synchronized(gpu)
  /\ UNCHANGED <<cache, bytes, pending, load, faults, dropped>>

Goes ==
  \/ Seeded \/ FlushWindow \/ Join \/ EncodeLoaded \/ EncodeResident \/ EncodeMissing
  \/ LoadFailed \/ PrefillEncode \/ PrefillRan \/ NextLayer \/ GiveUp
  \/ SplitStart \/ LoadMissing
  \/ \E S \in Picks : HashStart(S) \/ AsyncStart(S) \/ SyncStart(S) \/ SelectedReadback(S)
                        \/ PrefillLoad(S)

Calls ==
  \/ \E kind \in {"decode", "prefill"} : Begin(kind)
  \/ \E how \in {"row", "missing"}, l \in 1..Layers, S \in Picks : Seed(how, l, S)

Next ==
  \/ GpuRuns \/ PoolReads \/ LoadStep \/ LoadFaults \/ Goes \/ Calls \/ EarlyCommit
  \/ \E S \in Picks : SyncFails(S)

Spec == Init /\ [][Next]_vars

-----------------------------------------------------------------------------
PendingType == [on : BOOLEAN, layer : 1..Layers, sel : SUBSET Experts,
                held : SUBSET Held, state : {"reading", "good", "bad"}]
LoadType == [on : BOOLEAN, ok : BOOLEAN, by : {"main", "worker"},
             how : {"missing", "early", "batch", "row"},
             step : {"event", "clear", "plan", "reserve", "squeeze", "forced",
                     "alone", "read", "reading", "install"},
             layer : 1..Layers, keep : SUBSET Experts, todo : SUBSET Experts,
             held : SUBSET Held, reserved : Nat, budget : Nat]
MainType == [pc : {"rest", "layer", "window", "join", "selected", "split",
                   "split_rest", "loaded", "encoded", "prefill", "ran",
                   "seed", "failed", "aborted"},
             kind : {"decode", "prefill"}, layer : 1..Layers, sel : SUBSET Experts,
             has : SUBSET Experts, cb : Nat, passes : 0..MaxPasses,
             hashed : HashLayers]

(* Every variable has its type. *)
TypeOK ==
  /\ cache \in CacheType /\ bytes \in [Bufs -> Experts \cup {None}] /\ gpu \in GpuType
  /\ pending \in PendingType /\ load \in LoadType /\ main \in MainType
  /\ faults \in 0..MaxFaults /\ dropped \in BOOLEAN

(* Whatever a command buffer still has to read, encoded or committed, is   *)
(* there: the expert is still in the buffer that was encoded, and the       *)
(* buffer holds all of its weights.  The readback of a routed layer comes   *)
(* after the reads of the layers before it; in a layer that selects by the  *)
(* token's id only the stamps of mark_entries_inflight keep a load from     *)
(* taking a victim the GPU has not read yet.                                *)
ReadsAreSound ==
  \A r \in gpu.reads : cache.entry[r.x].buf = r.buf /\ bytes[r.buf] = r.x

(* A buffer has one owner, an entry, the free list or a load, and an entry  *)
(* has the weights of its expert: buffers go from entry to load to entry,  *)
(* or to the pool and to whoever settles its load.                          *)
OwnersAreSound ==
  /\ \A x \in Valid(cache) : bytes[cache.entry[x].buf] = x
  /\ \A x, y \in Valid(cache) : x # y => cache.entry[x].buf # cache.entry[y].buf
  /\ LET owned == {cache.entry[x].buf : x \in Valid(cache)}
         taken == {h.buf : h \in load.held} \cup {h.buf : h \in pending.held}
     IN /\ owned \cap (cache.free \cup taken) = {} /\ cache.free \cap taken = {}
        /\ Cardinality(taken) = Cardinality(load.held) + Cardinality(pending.held)

(* The second stage of a split layer is encoded into a command buffer       *)
(* fetched before the missing experts were loaded: the load has not         *)
(* committed it, as its waits on the cache would.                           *)
SplitBufferIsOpen == main.pc = "split_rest" => main.cb = gpu.batch

(* All three: nothing reads, and nothing owns, a buffer that is another's  *)
(* by now, and nothing is encoded into one that is committed (prune_global, *)
(* mark_entries_inflight, the split stages of the routed experts).          *)
BuffersAreSound == ReadsAreSound /\ OwnersAreSound /\ SplitBufferIsOpen

(* As long as nothing fails the cache lives within the slots of its budget: *)
(* the loads that reserve several buffers at once, with entries in flight   *)
(* that cannot be had and an early load still holding its own, never need   *)
(* a buffer of their own.                                                   *)
StaysWithinBudget ==
  (faults = 0 /\ NSel <= Budget) =>
    \A h \in load.held \cup pending.held : h.buf \in Slots

(* Every slot handed out and locked in memory can still be found, as long   *)
(* as no load has failed while it held buffers.                             *)
NothingLost ==
  ~dropped =>
    cache.locked \subseteq cache.free \cup {cache.entry[x].buf : x \in Experts}
                           \cup {h.buf : h \in load.held \cup pending.held}

(* A pass under way can always go on without a fault: the main thread, the  *)
(* load, the pool and the GPU never all wait on each other, for a router's  *)
(* event nobody committed, a victim nobody gives back or reads nobody does. *)
(* No step here is ever taken back, so every pass also ends.                *)
NeverStuck ==
  main.pc \notin {"rest", "aborted"} =>
    ENABLED (GpuRuns \/ PoolReads \/ LoadStep \/ Goes)

=============================================================================
