------------------------- MODULE ExpertCache_proof -------------------------
(***************************************************************************)
(* Theorems about ExpertCache for any experts, layers, picks, budget and   *)
(* number of passes and faults: no command buffer reads, and nobody owns,  *)
(* a buffer that is another's by now; without a fault no load leaves the   *)
(* slots of the budget; and no locked slot is lost until a load fails.     *)
(***************************************************************************)
EXTENDS ExpertCache, FiniteSetTheorems, TLAPS

(* The buffers of the loads under way.                                     *)
Taking == load.held \cup pending.held
Names(held) == {h.x : h \in held}

Passing == {"layer", "window", "join", "selected", "split", "split_rest", "loaded",
            "encoded", "ran"}
Choosing == {"window", "join", "selected", "split", "split_rest", "loaded", "prefill",
             "ran", "seed"}
Beginning == {"event", "clear", "plan"}
Reading == {"read", "reading", "install"}

(* The open command buffer is the newest, and neither committed nor done;  *)
(* what is still to be read was numbered after the last one known to have  *)
(* run; a pass has an open command buffer, and between passes nothing is   *)
(* on its way.                                                             *)
InOrder(g) ==
  /\ g.pend <= g.seq /\ g.done <= g.seq
  /\ g.batch # 0 => g.batch = g.seq /\ g.pend < g.batch /\ g.done < g.batch
  /\ \A r \in g.reads : g.done < r.seq /\ r.seq <= g.seq

GpuOK ==
  /\ InOrder(gpu)
  /\ main.pc \in Passing => gpu.batch # 0
  /\ main.pc \in {"rest", "seed", "prefill"} =>
       gpu.batch = 0 /\ gpu.pend = 0 /\ gpu.reads = {}

(* What is to be read is in the entry it was read from, and stamped but    *)
(* for a prompt's, which has run before anything is loaded.                *)
ReadsOK ==
  \A r \in gpu.reads :
    /\ cache.entry[r.x].buf = r.buf /\ bytes[r.buf] = r.x
    /\ main.pc # "ran" => cache.entry[r.x].seq >= r.seq

(* The owners of the buffers: entries, the free list, loads.               *)
EntriesIn(c, b) ==
  /\ \A x \in Valid(c) : b[c.entry[x].buf] = x
  /\ \A x, y \in Valid(c) : c.entry[x].buf = c.entry[y].buf => x = y
  /\ \A x \in Valid(c) : /\ c.entry[x].buf \notin c.free
                         /\ c.entry[x].buf \in Slots => c.entry[x].buf <= c.used
  /\ \A s \in c.free : s <= c.used

TakenFrom(c, held) ==
  \A h \in held : /\ h.buf \notin c.free
                  /\ h.buf \in Slots => h.buf <= c.used
                  /\ \A x \in Valid(c) : c.entry[x].buf # h.buf

Apart(held) == \A h, k \in held : h.buf = k.buf \/ h.x = k.x => h = k

Hold(held, b) == \A h \in held : b[h.buf] = h.x

EntriesOK == EntriesIn(cache, bytes)

TakingOK ==
  /\ load.held = {} \/ pending.held = {}
  /\ ~load.on => load.held = {} /\ load.step = "clear"
  /\ TakenFrom(cache, Taking)
  /\ Apart(Taking)
  /\ load.step = "install" => Hold(load.held, bytes)
  /\ pending.state = "good" => Hold(pending.held, bytes)

(* An early load that is on its way is the one of the layer the main       *)
(* thread is in, for what its selection lacks; a load meets it only where  *)
(* it settles it.                                                          *)
PendingOK ==
  IF pending.on
  THEN /\ main.pc \in {"window", "join", "selected", "split", "split_rest", "loaded"}
       /\ pending.layer = main.layer /\ pending.sel = main.sel
       /\ Names(pending.held) = main.sel \ Valid(cache) /\ pending.held # {}
       /\ IF load.on
          THEN /\ main.pc \in {"split", "split_rest", "loaded"}
               /\ load.step = "clear"
               /\ main.pc # "split" => load.todo = main.sel \ Valid(cache)
          ELSE load.ok /\ main.pc \notin {"split_rest", "loaded"}
  ELSE pending = NoPending

LoadOK ==
  load.on =>
    /\ load.keep = main.sel /\ load.layer = main.layer
    /\ load.todo \subseteq load.keep /\ Names(load.held) \subseteq load.keep
    /\ load.todo \cap Names(load.held) = {}
    /\ Names(load.held) \cap Valid(cache) = {}
    /\ load.step \in Beginning => load.held = {}
    /\ load.step \in Reading => load.held # {} /\ (OneByOne \/ load.todo = {})
    /\ load.step = "event" => load.how = "early"
    /\ load.how = "early" =>
         /\ main.pc \in {"window", "join", "split"}
         /\ IF load.step \in Beginning THEN load.todo = {}
            ELSE load.todo \cup Names(load.held) = main.sel \ Valid(cache)
    /\ load.how = "missing" => main.pc \in {"loaded", "split_rest", "seed"}
    /\ OneByOne => /\ main.pc \in {"prefill", "seed"} /\ load.step \notin Beginning
                   /\ load.step \notin Reading => load.held = {}

(* The stages of a layer of which a part was there: that part stays, and   *)
(* the rest, once it is there, has not been encoded before the second.     *)
SplitOK ==
  /\ main.pc \in {"rest", "layer", "selected", "encoded", "ran", "failed"} => ~load.on
  /\ main.pc \in Choosing => main.sel \subseteq OfLayer(main.layer)
  /\ main.pc = "split" =>
       /\ main.has \subseteq main.sel \cap Valid(cache)
       /\ load.on \/ pending.on => main.has = main.sel \cap Valid(cache)
       /\ ~load.on /\ load.ok /\ ~pending.on =>
            \A x \in main.sel \ main.has : x \in Valid(cache) /\ cache.entry[x].seq = 0
  /\ main.pc = "split_rest" =>
       /\ main.cb = gpu.batch
       /\ load.on /\ ~pending.on =>
            /\ load.step \notin {"squeeze", "forced", "alone"}
            /\ \A x \in load.todo : x \in Valid(cache) /\ cache.entry[x].seq = 0

FlowOK == main.pc # "aborted" => PendingOK /\ LoadOK /\ SplitOK

(* Without a fault: no cap, every slot handed out can be found, a load has *)
(* no more experts to keep than the budget, and what it counts as reserved *)
(* is no less than what there is.                                          *)
Roomy == faults = 0 /\ NSel <= Budget
SlotsOK ==
  /\ cache.cap = 0
  /\ \A x \in Valid(cache) : cache.entry[x].buf \in Slots
  /\ \A h \in Taking : h.buf \in Slots
  /\ 1..cache.used \subseteq cache.free \cup {cache.entry[x].buf : x \in Experts}
                             \cup {h.buf : h \in Taking}
LimitsOK ==
  /\ load.step \notin {"squeeze", "forced", "alone"} /\ pending.state # "bad"
  /\ main.pc \in Choosing \ {"prefill", "ran", "seed"} => Cardinality(main.sel) = NSel
  /\ load.on /\ load.how # "row" => Cardinality(load.keep) <= Budget
  /\ load.on /\ ~OneByOne /\ load.step \notin Beginning =>
       /\ load.budget = Budget
       /\ \/ load.reserved >= Budget
          \/ load.reserved >= Count + Cardinality(load.held)
BudgetOK == SlotsOK /\ LimitsOK

IInv == /\ TypeOK /\ GpuOK /\ ReadsOK /\ EntriesOK /\ TakingOK /\ FlowOK
        /\ NothingLost /\ (Roomy => BudgetOK)

-----------------------------------------------------------------------------
(* What the operators do to the cache *)

(* The entries of X are gone, and what the free list gains is theirs.       *)
Shrunk(c, d, X) ==
  /\ X \subseteq Valid(c)
  /\ d \in CacheType
  /\ d.entry = [x \in Experts |-> IF x \in X THEN Empty ELSE c.entry[x]]
  /\ d.used = c.used
  /\ d.free \subseteq c.free \cup {c.entry[x].buf : x \in X}

(* An entry of a cache has its buffer and its stamp.                        *)
LEMMA EntryType ==
  ASSUME NEW c \in CacheType, NEW x \in Experts
  PROVE  /\ c.entry[x] \in [buf : Bufs \cup {0}, seq : Nat]
         /\ c.entry[x].buf \in Bufs \cup {0} /\ c.entry[x].seq \in Nat
         /\ x \in Valid(c) => c.entry[x].buf \in Bufs
         /\ x \in Valid(c) <=> c.entry[x].buf # 0
BY DEF CacheType, Valid

(* Neither a slot nor a standalone buffer is 0, which is no buffer.         *)
LEMMA BufsAreNotZero ==
  /\ 0 \notin Bufs /\ Slots \cap Alone = {} /\ Slots \subseteq Bufs /\ Alone \subseteq Bufs
BY AloneAreBuffers, CountsAreNat DEF Bufs, Slots

(* Entries whose buffers are put in the free list are of the cache's type.  *)
LEMMA ShrunkEntryType ==
  ASSUME NEW c \in CacheType, NEW X
  PROVE  [x \in Experts |-> IF x \in X THEN Empty ELSE c.entry[x]]
           \in [Experts -> [buf : Bufs \cup {0}, seq : Nat]]
BY DEF CacheType, Empty

(* cache_clear_entry: what is not in flight goes, its slots come back.      *)
LEMMA ClearedIs ==
  ASSUME NEW c \in CacheType, NEW g, NEW X
  PROVE  /\ Shrunk(c, Cleared(c, g, X), (X \cap Valid(c)) \ InFlight(c, g))
         /\ Cleared(c, g, X).free
              = c.free \cup ({c.entry[x].buf : x \in (X \cap Valid(c)) \ InFlight(c, g)}
                             \cap Slots)
         /\ Cleared(c, g, X).locked = c.locked /\ Cleared(c, g, X).cap = c.cap
<1> DEFINE gone == (X \cap Valid(c)) \ InFlight(c, g)
           E == [x \in Experts |-> IF x \in gone THEN Empty ELSE c.entry[x]]
           F == c.free \cup ({c.entry[x].buf : x \in gone} \cap Slots)
           d == Cleared(c, g, X)
<1>1. E \in [Experts -> [buf : Bufs \cup {0}, seq : Nat]]
  BY ShrunkEntryType
<1>2. F \in SUBSET Slots
  BY DEF CacheType
<1>3. d = [[c EXCEPT !.entry = E] EXCEPT !.free = F]
  BY DEF Cleared, CacheType
<1>4. gone \subseteq Valid(c)
  OBVIOUS
<1> HIDE DEF gone, E, F, d
<1>5. /\ d \in CacheType /\ d.entry = E /\ d.free = F /\ d.used = c.used
      /\ d.locked = c.locked /\ d.cap = c.cap
  BY <1>1, <1>2, <1>3 DEF CacheType
<1>6. Shrunk(c, d, gone)
  BY <1>4, <1>5 DEF Shrunk, E, F
<1> QED BY <1>5, <1>6 DEF d, gone, F

(* take_reusable: the entry goes, its buffer is the caller's.               *)
LEMMA TakenIs ==
  ASSUME NEW c \in CacheType, NEW y \in Valid(c)
  PROVE  /\ Shrunk(c, Taken(c, y), {y})
         /\ Taken(c, y).free = c.free
         /\ Taken(c, y).locked = c.locked /\ Taken(c, y).cap = c.cap
<1> DEFINE E == [x \in Experts |-> IF x \in {y} THEN Empty ELSE c.entry[x]]
           d == Taken(c, y)
<1>1. E \in [Experts -> [buf : Bufs \cup {0}, seq : Nat]]
  BY ShrunkEntryType
<1>2. [c.entry EXCEPT ![y] = Empty] = E
  BY DEF CacheType, Valid
<1>3. d = [c EXCEPT !.entry = E]
  BY <1>2 DEF Taken, CacheType
<1> HIDE DEF E, d
<1>5. /\ d \in CacheType /\ d.entry = E /\ d.free = c.free /\ d.used = c.used
      /\ d.locked = c.locked /\ d.cap = c.cap
  BY <1>1, <1>3 DEF CacheType
<1>6. Shrunk(c, d, {y})
  BY <1>5 DEF Shrunk, E
<1> QED BY <1>5, <1>6 DEF d

(* prune_global: some spare entries go, or nothing does.                    *)
LEMMA PrunedIs ==
  ASSUME NEW c \in CacheType, NEW g, NEW layer, NEW keep, NEW d \in Pruned(c, g, layer, keep)
  PROVE  \E X \in SUBSET Spare(c, g, layer, keep) :
           /\ Shrunk(c, d, X)
           /\ d.free = c.free \cup ({c.entry[x].buf : x \in X} \cap Slots)
           /\ d.locked = c.locked /\ d.cap = c.cap
<1> DEFINE S == Spare(c, g, layer, keep)
<1>1. CASE d = c
  <2>1. c.entry = [x \in Experts |-> IF x \in {} THEN Empty ELSE c.entry[x]]
    BY DEF CacheType
  <2>2. Shrunk(c, c, {})
    BY <2>1 DEF Shrunk
  <2>3. c.free = c.free \cup ({c.entry[x].buf : x \in {}} \cap Slots)
    OBVIOUS
  <2> QED BY <1>1, <2>2, <2>3
<1>2. CASE d # c
  <2>1. PICK X \in SUBSET S : d = Cleared(c, g, X)
    BY <1>2 DEF Pruned
  <2>2. (X \cap Valid(c)) \ InFlight(c, g) = X
    BY DEF Spare
  <2> QED BY ZenonT(40), <2>1, <2>2, ClearedIs
<1> QED BY <1>1, <1>2

(* install_loaded, of experts that have no entry.                           *)
LEMMA InstalledIs ==
  ASSUME NEW c \in CacheType, NEW g, NEW held \in SUBSET Held, Apart(held),
         Names(held) \cap Valid(c) = {}
  PROVE  /\ Installed(c, g, held) \in CacheType
         /\ \A h \in held : Installed(c, g, held).entry[h.x] = [buf |-> h.buf, seq |-> 0]
         /\ \A x \in Experts \ Names(held) : Installed(c, g, held).entry[x] = c.entry[x]
         /\ Valid(Installed(c, g, held)) = Valid(c) \cup Names(held)
         /\ Installed(c, g, held).free = c.free /\ Installed(c, g, held).used = c.used
         /\ Installed(c, g, held).locked = c.locked /\ Installed(c, g, held).cap = c.cap
<1> DEFINE N == Names(held)
           new(x) == CHOOSE h \in held : h.x = x
           E == [x \in Experts |-> IF x \in N THEN [buf |-> new(x).buf, seq |-> 0]
                                   ELSE c.entry[x]]
           d == Cleared(c, g, N)
           e == Installed(c, g, held)
<1>1. (N \cap Valid(c)) \ InFlight(c, g) = {}
  OBVIOUS
<1>2. /\ Shrunk(c, d, {})
      /\ d.free = c.free \cup ({c.entry[x].buf : x \in {}} \cap Slots)
      /\ d.locked = c.locked /\ d.cap = c.cap
  BY <1>1, ClearedIs
<1>3. d \in CacheType /\ d.used = c.used /\ d.free = c.free
  BY <1>2 DEF Shrunk
<1>4. d.entry = [x \in Experts |-> c.entry[x]]
  BY <1>2 DEF Shrunk
<1>5. \A h \in held : h.x \in Experts /\ h.buf \in Bufs /\ new(h.x) = h
  BY DEF Apart, Held
<1>6. \A x \in N : \E h \in held : x = h.x
  BY DEF Names
<1>7. E \in [Experts -> [buf : Bufs \cup {0}, seq : Nat]]
  <2> SUFFICES ASSUME NEW x \in Experts
               PROVE  (IF x \in N THEN [buf |-> new(x).buf, seq |-> 0] ELSE c.entry[x])
                        \in [buf : Bufs \cup {0}, seq : Nat]
    OBVIOUS
  <2>1. CASE x \in N
    <3>1. PICK h \in held : x = h.x
      BY <2>1, <1>6
    <3>2. new(x).buf = h.buf /\ h.buf \in Bufs
      BY ZenonT(40), <3>1, <1>5
    <3> QED BY <3>2, <2>1
  <2>2. CASE x \notin N
    BY <2>2, EntryType
  <2> QED BY <2>1, <2>2
<1>8. e = [d EXCEPT !.entry = E]
  <2>1. \A x \in Experts : (\E h \in held : h.x = x) <=> x \in N
    BY DEF Names
  <2>2. [x \in Experts |-> IF \E h \in held : h.x = x THEN [buf |-> new(x).buf, seq |-> 0]
                           ELSE d.entry[x]] = E
    BY <2>1, <1>4
  <2>3. e = [d EXCEPT !.entry = [x \in Experts |-> IF \E h \in held : h.x = x
                                      THEN [buf |-> new(x).buf, seq |-> 0]
                                      ELSE d.entry[x]]]
    BY <1>3 DEF Installed, CacheType, Names
  <2> QED BY <2>2, <2>3
<1>9. /\ e \in CacheType /\ e.entry = E /\ e.free = c.free /\ e.used = c.used
      /\ e.locked = c.locked /\ e.cap = c.cap
  <2> HIDE DEF E, d, e
  <2> QED BY <1>2, <1>3, <1>7, <1>8 DEF CacheType
<1>10. \A h \in held : E[h.x] = [buf |-> h.buf, seq |-> 0]
  BY <1>5 DEF Names
<1>11. \A x \in Experts \ N : E[x] = c.entry[x]
  OBVIOUS
<1>12. Valid(e) = Valid(c) \cup N
  <2>1. \A x \in N : x \in Experts /\ E[x].buf # 0
    BY <1>5, <1>6, <1>10, BufsAreNotZero
  <2> HIDE DEF E, e, d, N
  <2> QED BY <2>1, <1>9, <1>11 DEF Valid
<1> HIDE DEF E, e, d, N, new
<1> QED BY <1>9, <1>10, <1>11, <1>12 DEF e, N

(* mark_entries_inflight changes the stamps alone.                          *)
LEMMA MarkedIs ==
  ASSUME NEW c \in CacheType, NEW g, g.batch \in Nat, NEW X
  PROVE  /\ Marked(c, g, X) \in CacheType
         /\ \A x \in Experts :
              /\ Marked(c, g, X).entry[x].buf = c.entry[x].buf
              /\ Marked(c, g, X).entry[x].seq = IF x \in X THEN g.batch ELSE c.entry[x].seq
         /\ Valid(Marked(c, g, X)) = Valid(c)
         /\ Marked(c, g, X).free = c.free /\ Marked(c, g, X).used = c.used
         /\ Marked(c, g, X).locked = c.locked /\ Marked(c, g, X).cap = c.cap
<1> DEFINE E == [x \in Experts |-> IF x \in X THEN [c.entry[x] EXCEPT !.seq = g.batch]
                                   ELSE c.entry[x]]
           e == Marked(c, g, X)
<1>1. \A x \in Experts : /\ E[x] \in [buf : Bufs \cup {0}, seq : Nat]
                         /\ E[x].buf = c.entry[x].buf
                         /\ E[x].seq = IF x \in X THEN g.batch ELSE c.entry[x].seq
  BY EntryType
<1>2. e = [c EXCEPT !.entry = E]
  BY DEF Marked, CacheType
<1>3. E \in [Experts -> [buf : Bufs \cup {0}, seq : Nat]]
  BY <1>1
<1> HIDE DEF E, e
<1>4. /\ e \in CacheType /\ e.entry = E /\ e.free = c.free /\ e.used = c.used
      /\ e.locked = c.locked /\ e.cap = c.cap
  BY <1>2, <1>3 DEF CacheType
<1>5. Valid(e) = Valid(c)
  BY <1>1, <1>4 DEF Valid
<1> QED BY <1>1, <1>4, <1>5 DEF e

(* The experts that have an entry are finitely many.                        *)
LEMMA ValidIsFinite ==
  ASSUME NEW c
  PROVE  IsFiniteSet(Valid(c)) /\ Cardinality(Valid(c)) \in Nat
BY ExpertsAreFinite, FS_Subset, FS_CardinalityType DEF Valid

(* The slots are finitely many.                                             *)
LEMMA SlotsAreFinite ==
  ASSUME NEW S \in SUBSET Slots
  PROVE  IsFiniteSet(S) /\ Cardinality(S) \in Nat
<1>1. IsFiniteSet(1..Budget)
  BY CountsAreNat, FS_Interval
<1> QED BY <1>1, FS_Subset, FS_CardinalityType DEF Slots

(* cap_budget_to_locked leaves a number.                                    *)
LEMMA CapsType ==
  ASSUME NEW c \in CacheType, NEW k \in Caps(c)
  PROVE  k \in Nat
<1>1. c.cap \in Nat /\ c.locked \in SUBSET Slots
  BY DEF CacheType
<1>2. Cardinality(Valid(c)) \in Nat /\ Cardinality(c.locked) \in Nat
  BY <1>1, ValidIsFinite, SlotsAreFinite
<1> DEFINE n == Cardinality(c.locked)
           m == Cardinality(Valid(c))
           most == IF n # 0 /\ n < m THEN n ELSE m
<1>3. most \in Nat
  BY <1>2
<1>4. k \in (IF most = 0 THEN {c.cap}
             ELSE {IF c.cap = 0 \/ j < c.cap THEN j ELSE c.cap : j \in 1..most})
  BY DEF Caps
<1> HIDE DEF most
<1> QED BY <1>1, <1>3, <1>4

(* release_mlock_margin: some spare entries go, and their slots with them.  *)
LEMMA RelievedIs ==
  ASSUME NEW c \in CacheType, NEW g, NEW layer, NEW keep, NEW d \in Relieved(c, g, layer, keep)
  PROVE  \E X \in SUBSET Spare(c, g, layer, keep) :
           /\ Shrunk(c, d, X) /\ d.free = c.free
           /\ d.locked = c.locked \ {c.entry[x].buf : x \in X}
<1>1. CASE d = c
  <2>1. c.entry = [x \in Experts |-> IF x \in {} THEN Empty ELSE c.entry[x]]
    BY DEF CacheType
  <2>2. Shrunk(c, c, {})
    BY <2>1 DEF Shrunk
  <2> QED BY <1>1, <2>2
<1>2. CASE d # c
  <2> DEFINE spare == {x \in Spare(c, g, layer, keep) : c.entry[x].buf \in c.locked}
             L(X) == c.locked \ {c.entry[x].buf : x \in X}
             left(X) == Cardinality(Valid(c) \ X)
             k(X) == IF L(X) # {} /\ Cardinality(L(X)) < left(X)
                     THEN Cardinality(L(X)) ELSE left(X)
             E(X) == [x \in Experts |-> IF x \in X THEN Empty ELSE c.entry[x]]
             C(X) == IF k(X) # 0 /\ (c.cap = 0 \/ k(X) < c.cap) THEN k(X) ELSE c.cap
  <2>1. PICK X \in SUBSET spare :
          d = [c EXCEPT !.entry = E(X), !.locked = L(X), !.relief = TRUE, !.cap = C(X)]
    BY <1>2 DEF Relieved, CacheType
  <2>2. X \subseteq Spare(c, g, layer, keep) /\ X \subseteq Valid(c)
    BY DEF Spare
  <2>3. E(X) \in [Experts -> [buf : Bufs \cup {0}, seq : Nat]]
    BY ShrunkEntryType
  <2>4. c.cap \in Nat /\ c.locked \in SUBSET Slots
    BY DEF CacheType
  <2>5. L(X) \in SUBSET Slots /\ Cardinality(L(X)) \in Nat
    BY <2>4, SlotsAreFinite
  <2>6. left(X) \in Nat
    BY ValidIsFinite, FS_Subset, FS_CardinalityType
  <2>7. C(X) \in Nat
    BY <2>4, <2>5, <2>6
  <2> DEFINE e == E(X)
             l == L(X)
             p == C(X)
  <2>8. d = [[[[c EXCEPT !.entry = e] EXCEPT !.locked = l] EXCEPT !.relief = TRUE]
               EXCEPT !.cap = p]
    BY <2>1 DEF CacheType
  <2>9. e \in [Experts -> [buf : Bufs \cup {0}, seq : Nat]] /\ l \in SUBSET Slots /\ p \in Nat
    BY <2>3, <2>5, <2>7
  <2>10. /\ e = [x \in Experts |-> IF x \in X THEN Empty ELSE c.entry[x]]
         /\ l = c.locked \ {c.entry[x].buf : x \in X}
    OBVIOUS
  <2> HIDE DEF e, l, p, E, L, C, k, left, spare
  <2>11. /\ d \in CacheType /\ d.entry = e /\ d.free = c.free /\ d.used = c.used
         /\ d.locked = l
    BY <2>8, <2>9 DEF CacheType
  <2>12. Shrunk(c, d, X)
    BY <2>2, <2>10, <2>11 DEF Shrunk
  <2> QED BY <2>2, <2>10, <2>11, <2>12
<1> QED BY <1>1, <1>2

(* alloc_slab_slot: the slot is of the free list no more, or the next one.  *)
LEMMA TookSlotIs ==
  ASSUME TypeOK, EntriesOK, NEW s \in SlotsAtHand
  PROVE  /\ s \in Slots /\ TookSlot(s) \in CacheType
         /\ TookSlot(s).entry = cache.entry /\ Valid(TookSlot(s)) = Valid(cache)
         /\ TookSlot(s).locked = cache.locked /\ TookSlot(s).cap = cache.cap
         /\ TookSlot(s).free = cache.free \ {s}
         /\ s <= TookSlot(s).used /\ cache.used <= TookSlot(s).used
         /\ s \in cache.free \/ s = cache.used + 1
         /\ TookSlot(s).used = cache.used \/ (s = cache.used + 1 /\ TookSlot(s).used = s)
<1>1. cache \in CacheType /\ cache.used \in 0..Budget /\ cache.free \in SUBSET Slots
  BY DEF TypeOK, CacheType
<1>2. \A t \in cache.free : t <= cache.used
  BY DEF EntriesOK, EntriesIn
<1>3. CASE cache.free # {}
  <2>1. TookSlot(s) = [cache EXCEPT !.free = cache.free \ {s}] /\ s \in cache.free
    BY <1>1, <1>3 DEF TookSlot, SlotsAtHand, CacheType
  <2>2. /\ TookSlot(s) \in CacheType /\ TookSlot(s).entry = cache.entry
        /\ TookSlot(s).locked = cache.locked /\ TookSlot(s).cap = cache.cap
        /\ TookSlot(s).free = cache.free \ {s} /\ TookSlot(s).used = cache.used
    BY <1>1, <2>1 DEF CacheType
  <2> QED BY <1>1, <1>2, <2>1, <2>2, CountsAreNat DEF Valid, Slots
<1>4. CASE cache.free = {}
  <2>1. TookSlot(s) = [cache EXCEPT !.used = s] /\ s \in Slots /\ s = cache.used + 1
    BY <1>1, <1>4 DEF TookSlot, SlotsAtHand, CacheType
  <2>2. s \in 0..Budget /\ cache.free \ {s} = {} /\ cache.used <= s
    BY <1>1, <1>4, <2>1, CountsAreNat DEF Slots
  <2>3. /\ TookSlot(s) \in CacheType /\ TookSlot(s).entry = cache.entry
        /\ TookSlot(s).locked = cache.locked /\ TookSlot(s).cap = cache.cap
        /\ TookSlot(s).free = cache.free /\ TookSlot(s).used = s
    BY <1>1, <2>1, <2>2 DEF CacheType
  <2> QED BY <1>1, <1>4, <2>1, <2>2, <2>3, CountsAreNat DEF Valid, Slots
<1> QED BY <1>3, <1>4

-----------------------------------------------------------------------------
(* Command buffers *)

(* A read belongs to a command buffer.                                      *)
LEMMA ReadType ==
  ASSUME NEW g \in GpuType
  PROVE  /\ g.seq \in Nat /\ g.batch \in Nat /\ g.pend \in Nat /\ g.done \in Nat
         /\ \A r \in g.reads : r.seq \in Nat /\ r.x \in Experts /\ r.buf \in Bufs
         /\ g.reads \in SUBSET [seq : Nat, x : Experts, buf : Bufs]
BY DEF GpuType

(* A batch is opened with a number of its own.                              *)
LEMMA BegunIs ==
  ASSUME NEW g \in GpuType, InOrder(g)
  PROVE  /\ Begun(g) \in GpuType /\ InOrder(Begun(g))
         /\ Begun(g).batch = g.seq + 1 /\ Begun(g).seq = g.seq + 1
         /\ Begun(g).pend = g.pend /\ Begun(g).done = g.done /\ Begun(g).reads = g.reads
<1> DEFINE n == g.seq + 1
           e == Begun(g)
<1>1. n \in Nat /\ n # 0
  BY ReadType
<1>2. e = [[g EXCEPT !.seq = n] EXCEPT !.batch = n]
  BY DEF Begun, GpuType
<1> HIDE DEF e
<1>3. /\ e \in GpuType /\ e.seq = n /\ e.batch = n
      /\ e.pend = g.pend /\ e.done = g.done /\ e.reads = g.reads
  <2> HIDE DEF n
  <2> QED BY <1>1, <1>2 DEF GpuType
<1>4. \A r \in e.reads : e.done < r.seq /\ r.seq <= e.seq
  BY <1>3, ReadType DEF InOrder
<1>5. e.pend <= e.seq /\ e.done <= e.seq /\ e.pend < e.batch /\ e.done < e.batch
  BY <1>3, ReadType DEF InOrder
<1> QED BY <1>1, <1>3, <1>4, <1>5 DEF e, InOrder

(* Larger takes one of two numbers, and neither is above it.                *)
LEMMA LargerIs ==
  ASSUME NEW a \in Nat, NEW b \in Nat
  PROVE  /\ Larger(a, b) \in Nat /\ a <= Larger(a, b) /\ b <= Larger(a, b)
         /\ Larger(a, b) \in {a, b}
BY DEF Larger

(* A batch is committed, and another opened.                                *)
LEMMA FlushedIs ==
  ASSUME NEW g \in GpuType, InOrder(g)
  PROVE  /\ Flushed(g) \in GpuType /\ InOrder(Flushed(g))
         /\ Flushed(g).batch = g.seq + 1 /\ Flushed(g).seq = g.seq + 1
         /\ Flushed(g).done = g.done /\ Flushed(g).reads = g.reads
<1> DEFINE p == Larger(g.pend, g.batch)
           e == [g EXCEPT !.pend = p]
<1>1. p \in Nat /\ p <= g.seq
  <2>1. g.batch <= g.seq
    BY ReadType DEF InOrder
  <2>2. g.pend <= g.seq
    BY DEF InOrder
  <2> QED BY <2>1, <2>2, ReadType, LargerIs
<1>2. /\ e \in GpuType /\ e.pend = p /\ e.batch = g.batch /\ e.seq = g.seq
      /\ e.done = g.done /\ e.reads = g.reads
  <2> HIDE DEF p
  <2> QED BY <1>1 DEF GpuType
<1>3. Flushed(g) = [[e EXCEPT !.seq = e.seq + 1] EXCEPT !.batch = e.seq + 1]
  BY DEF Flushed, Begun, GpuType
<1> DEFINE n == g.seq + 1
<1>4. n \in Nat /\ n # 0
  BY ReadType
<1> DEFINE f == Flushed(g)
<1>5. f = [[e EXCEPT !.seq = n] EXCEPT !.batch = n]
  BY <1>2, <1>3
<1> HIDE DEF e, n, p, f
<1>6. /\ f \in GpuType /\ f.seq = n /\ f.batch = n /\ f.pend = p /\ f.done = g.done
      /\ f.reads = g.reads
  BY <1>2, <1>4, <1>5 DEF GpuType
<1>7. \A r \in f.reads : f.done < r.seq /\ r.seq <= f.seq
  BY <1>6, ReadType DEF InOrder, n
<1>8. f.pend <= f.seq /\ f.done <= f.seq /\ f.pend < f.batch /\ f.done < f.batch
  BY <1>1, <1>6, ReadType DEF InOrder, n
<1> QED BY <1>4, <1>6, <1>7, <1>8 DEF InOrder, n, f

(* What was committed has run.                                              *)
LEMMA DrainedIs ==
  ASSUME NEW g \in GpuType, InOrder(g)
  PROVE  /\ Drained(g) \in GpuType /\ InOrder(Drained(g))
         /\ Drained(g).batch = g.batch /\ Drained(g).seq = g.seq /\ Drained(g).pend = 0
         /\ g.done <= Drained(g).done /\ Drained(g).reads \subseteq g.reads
         /\ Drained(g).reads = {r \in g.reads : r.seq = g.batch}
<1> DEFINE m == Larger(g.done, g.pend)
           R == {r \in g.reads : r.seq = g.batch}
           e == Drained(g)
<1>1. m \in Nat /\ g.done <= m /\ m \in {g.done, g.pend}
  BY ReadType, LargerIs
<1>2. e = [[[g EXCEPT !.done = m] EXCEPT !.pend = 0] EXCEPT !.reads = R]
  BY DEF Drained, GpuType
<1>3. R \in SUBSET [seq : Nat, x : Experts, buf : Bufs] /\ R \subseteq g.reads
  BY ReadType
<1>4. \A r \in R : r.seq = g.batch
  OBVIOUS
<1> HIDE DEF e, m, R
<1>5. /\ e \in GpuType /\ e.seq = g.seq /\ e.batch = g.batch /\ e.pend = 0
      /\ e.done = m /\ e.reads = R
  BY <1>1, <1>2, <1>3 DEF GpuType
<1>6. m <= g.seq
  BY <1>1, ReadType DEF InOrder
<1>7. g.batch # 0 => m < g.batch
  BY <1>1, ReadType DEF InOrder
<1>8. \A r \in R : m < r.seq /\ r.seq <= g.seq
  <2> SUFFICES ASSUME NEW r \in R PROVE m < r.seq /\ r.seq <= g.seq
    OBVIOUS
  <2>1. r.seq = g.batch /\ r \in g.reads
    BY <1>3, <1>4
  <2>2. g.done < r.seq /\ r.seq <= g.seq
    BY <2>1 DEF InOrder
  <2>3. g.batch # 0
    BY <2>1, <2>2, ReadType
  <2> QED BY <2>1, <2>2, <2>3, <1>7
<1>9. InOrder(e)
  BY <1>5, <1>6, <1>7, <1>8, ReadType DEF InOrder
<1> QED BY <1>1, <1>3, <1>5, <1>9 DEF e, R

(* All has run, and no batch is open.                                       *)
LEMMA EndedIs ==
  ASSUME NEW g \in GpuType, InOrder(g)
  PROVE  /\ Ended(g) \in GpuType /\ InOrder(Ended(g))
         /\ Ended(g).batch = 0 /\ Ended(g).seq = g.seq /\ Ended(g).pend = 0
         /\ g.done <= Ended(g).done /\ Ended(g).reads = {}
<1> DEFINE m == Larger(Larger(g.done, g.pend), g.batch)
           e == Ended(g)
<1>1. m \in Nat /\ g.done <= m /\ m \in {g.done, g.pend, g.batch}
  <2>1. g.done \in Nat /\ g.pend \in Nat /\ g.batch \in Nat
    BY ReadType
  <2> QED BY <2>1 DEF Larger
<1>2. e = [[[[g EXCEPT !.done = m] EXCEPT !.pend = 0] EXCEPT !.batch = 0] EXCEPT !.reads = {}]
  BY DEF Ended, GpuType
<1> HIDE DEF e, m
<1>5. /\ e \in GpuType /\ e.seq = g.seq /\ e.batch = 0 /\ e.pend = 0
      /\ e.done = m /\ e.reads = {}
  BY <1>1, <1>2 DEF GpuType
<1>6. m <= g.seq
  BY <1>1, ReadType DEF InOrder
<1> QED BY <1>1, <1>5, <1>6, ReadType DEF e, InOrder

(* The wait of the cache.                                                   *)
LEMMA WaitedInflightIs ==
  ASSUME NEW g \in GpuType, InOrder(g)
  PROVE  /\ WaitedInflight(g) \in GpuType /\ InOrder(WaitedInflight(g))
         /\ WaitedInflight(g).batch # 0 <=> g.batch # 0
         /\ g.done <= WaitedInflight(g).done /\ WaitedInflight(g).reads \subseteq g.reads
         /\ g.batch = 0 /\ g.pend = 0 => WaitedInflight(g) = g
<1> DEFINE f == IF g.batch # 0 THEN Flushed(g) ELSE g
<1>1. /\ f \in GpuType /\ InOrder(f) /\ f.done = g.done /\ f.reads = g.reads
      /\ f.batch # 0 <=> g.batch # 0
      /\ g.batch = 0 => f = g
  <2>1. CASE g.batch # 0
    BY <2>1, FlushedIs, ReadType
  <2>2. CASE g.batch = 0
    BY <2>2
  <2> QED BY <2>1, <2>2
<1>2. WaitedInflight(g) = IF f.pend # 0 THEN Drained(f) ELSE f
  BY DEF WaitedInflight
<1> HIDE DEF f
<1>3. CASE f.pend # 0
  BY <1>1, <1>2, <1>3, DrainedIs
<1>4. CASE f.pend = 0
  BY <1>1, <1>2, <1>4, ReadType
<1> QED BY <1>3, <1>4

(* What is read back has been computed, and all before it.                  *)
LEMMA ReadBackIs ==
  ASSUME NEW g \in GpuType, InOrder(g)
  PROVE  /\ ReadBack(g) \in GpuType /\ InOrder(ReadBack(g))
         /\ ReadBack(g).batch # 0 /\ ReadBack(g).reads = {} /\ ReadBack(g).done = g.done
<1> DEFINE f == Flushed(g)
           e == ReadBack(g)
<1>1. /\ f \in GpuType /\ InOrder(f) /\ f.batch = g.seq + 1 /\ f.done = g.done
  BY FlushedIs
<1>2. e = [f EXCEPT !.reads = {}]
  BY DEF ReadBack
<1> HIDE DEF e, f
<1>3. /\ e \in GpuType /\ e.seq = f.seq /\ e.batch = f.batch /\ e.pend = f.pend
      /\ e.done = f.done /\ e.reads = {}
  BY <1>1, <1>2 DEF GpuType
<1>4. InOrder(e)
  BY <1>1, <1>3 DEF InOrder
<1> QED BY <1>1, <1>3, <1>4, ReadType DEF e

(* What a failed pass leaves has run.                                       *)
LEMMA SynchronizedIs ==
  ASSUME NEW g \in GpuType, InOrder(g)
  PROVE  /\ Synchronized(g) \in GpuType /\ InOrder(Synchronized(g))
         /\ Synchronized(g).batch = 0 /\ Synchronized(g).pend = 0
         /\ Synchronized(g).reads = {} /\ g.done <= Synchronized(g).done
<1>1. CASE g.batch # 0
  BY <1>1, EndedIs DEF Synchronized
<1>2. CASE g.batch = 0
  <2>1. \A r \in g.reads : r.seq # 0
    BY ReadType DEF InOrder
  <2>2. {r \in g.reads : r.seq = g.batch} = {}
    BY <2>1, <1>2
  <2> QED BY <1>2, <2>2, DrainedIs DEF Synchronized
<1> QED BY <1>1, <1>2

(* A failed readback leaves no batch open and nothing pending.              *)
LEMMA AbandonedIs ==
  ASSUME NEW g \in GpuType, InOrder(g)
  PROVE  LET e == Drained([g EXCEPT !.pend = Larger(@, g.batch), !.batch = 0])
         IN /\ e \in GpuType /\ InOrder(e) /\ e.reads = {} /\ g.done <= e.done
<1> DEFINE p == Larger(g.pend, g.batch)
           f == [g EXCEPT !.pend = Larger(@, g.batch), !.batch = 0]
<1>1. p \in Nat /\ p \in {g.pend, g.batch}
  BY ReadType, LargerIs
<1>2. f = [[g EXCEPT !.pend = p] EXCEPT !.batch = 0]
  BY DEF GpuType
<1> HIDE DEF f, p
<1>3. /\ f \in GpuType /\ f.seq = g.seq /\ f.batch = 0 /\ f.pend = p
      /\ f.done = g.done /\ f.reads = g.reads
  BY <1>1, <1>2 DEF GpuType
<1>4. p <= g.seq
  BY <1>1, ReadType DEF InOrder
<1>5. InOrder(f)
  BY <1>3, <1>4 DEF InOrder
<1>6. \A r \in f.reads : r.seq # f.batch
  BY <1>3, ReadType DEF InOrder
<1>7. {r \in f.reads : r.seq = f.batch} = {}
  BY <1>6
<1> QED BY <1>3, <1>5, <1>7, DrainedIs DEF f

(* Reads are encoded into a command buffer that has not run.                *)
LEMMA EncodedIs ==
  ASSUME NEW g \in GpuType, InOrder(g), NEW c \in CacheType,
         NEW X \in SUBSET Valid(c), g.batch # 0, NEW cb, cb = g.batch
  PROVE  /\ Encoded(g, c, X, cb) \in GpuType /\ InOrder(Encoded(g, c, X, cb))
         /\ Encoded(g, c, X, cb).batch = g.batch /\ Encoded(g, c, X, cb).done = g.done
         /\ Encoded(g, c, X, cb).pend = g.pend /\ Encoded(g, c, X, cb).seq = g.seq
         /\ Encoded(g, c, X, cb).reads
              = g.reads \cup {[seq |-> cb, x |-> x, buf |-> c.entry[x].buf] : x \in X}
<1> DEFINE N == {[seq |-> cb, x |-> x, buf |-> c.entry[x].buf] : x \in X}
           R == g.reads \cup N
           e == Encoded(g, c, X, cb)
<1>1. \A x \in X : x \in Experts /\ c.entry[x].buf \in Bufs
  BY EntryType DEF Valid
<1>2. N \in SUBSET [seq : Nat, x : Experts, buf : Bufs] /\ \A r \in N : r.seq = cb
  BY <1>1, ReadType
<1>3. e = [g EXCEPT !.reads = R]
  BY DEF Encoded, GpuType
<1>4. R \in SUBSET [seq : Nat, x : Experts, buf : Bufs]
  BY <1>2, ReadType
<1>5. \A r \in R : g.done < r.seq /\ r.seq <= g.seq
  BY <1>2, ReadType DEF InOrder
<1> HIDE DEF e, R, N
<1>6. /\ e \in GpuType /\ e.seq = g.seq /\ e.batch = g.batch /\ e.pend = g.pend
      /\ e.done = g.done /\ e.reads = R
  BY <1>3, <1>4 DEF GpuType
<1>7. InOrder(e)
  BY <1>5, <1>6 DEF InOrder
<1> QED BY <1>6, <1>7 DEF e, R, N

-----------------------------------------------------------------------------
(* Loads *)

Steps == {"event", "clear", "plan", "reserve", "squeeze", "forced", "alone",
          "read", "reading", "install"}

(* The load of l goes on: it is still the same load.                        *)
Same(l, m) == /\ m \in LoadType
              /\ m.on = l.on /\ m.ok = l.ok /\ m.by = l.by /\ m.how = l.how
              /\ m.layer = l.layer /\ m.keep = l.keep

(* A load that ended holds nothing and has nothing to do.                   *)
LEMMA NoLoadIs ==
  ASSUME NEW ok \in BOOLEAN
  PROVE  /\ NoLoad(ok) \in LoadType
         /\ NoLoad(ok).on = FALSE /\ NoLoad(ok).ok = ok /\ NoLoad(ok).step = "clear"
         /\ NoLoad(ok).how = "missing" /\ NoLoad(ok).held = {} /\ NoLoad(ok).todo = {}
BY CountsAreNat DEF NoLoad, LoadType

(* A load that begins.                                                      *)
LEMMA LoadIs ==
  ASSUME NEW by \in {"main", "worker"}, NEW how \in {"missing", "early", "batch", "row"},
         NEW step \in Steps, NEW layer \in 1..Layers, NEW keep \in SUBSET Experts,
         NEW todo \in SUBSET Experts, Load(by, how, step, layer, keep, todo)
  PROVE  /\ load' \in LoadType
         /\ load'.on /\ load'.ok /\ load'.by = by /\ load'.how = how /\ load'.step = step
         /\ load'.layer = layer /\ load'.keep = keep /\ load'.todo = todo
         /\ load'.held = {}
BY DEF Load, LoadType, Steps

(* The next step of a load.                                                 *)
LEMMA StepIs ==
  ASSUME NEW l \in LoadType, NEW s \in Steps
  PROVE  LET m == [l EXCEPT !.step = s]
         IN /\ Same(l, m) /\ m.step = s /\ m.todo = l.todo /\ m.held = l.held
            /\ m.reserved = l.reserved /\ m.budget = l.budget
BY DEF LoadType, Steps, Same

(* What is left to do of a load.                                            *)
LEMMA TodoIs ==
  ASSUME NEW l \in LoadType, NEW t \in SUBSET Experts
  PROVE  LET m == [l EXCEPT !.todo = t]
         IN /\ Same(l, m) /\ m.step = l.step /\ m.todo = t /\ m.held = l.held
            /\ m.reserved = l.reserved /\ m.budget = l.budget
BY DEF LoadType, Same

(* The buffers a load has in hand.                                          *)
LEMMA HeldIs ==
  ASSUME NEW l \in LoadType, NEW h \in SUBSET Held
  PROVE  LET m == [l EXCEPT !.held = h]
         IN /\ Same(l, m) /\ m.step = l.step /\ m.todo = l.todo /\ m.held = h
            /\ m.reserved = l.reserved /\ m.budget = l.budget
BY DEF LoadType, Same

(* What a load counts as reserved.                                          *)
LEMMA ReservedCountIs ==
  ASSUME NEW l \in LoadType, NEW n \in Nat
  PROVE  LET m == [l EXCEPT !.reserved = n]
         IN /\ Same(l, m) /\ m.step = l.step /\ m.todo = l.todo /\ m.held = l.held
            /\ m.reserved = n /\ m.budget = l.budget
BY DEF LoadType, Same

(* The budget a load has read.                                              *)
LEMMA LoadBudgetIs ==
  ASSUME NEW l \in LoadType, NEW n \in Nat
  PROVE  LET m == [l EXCEPT !.budget = n]
         IN /\ Same(l, m) /\ m.step = l.step /\ m.todo = l.todo /\ m.held = l.held
            /\ m.reserved = l.reserved /\ m.budget = n
BY DEF LoadType, Same

(* The configured budget is a number.                                       *)
LEMMA AllowedType ==
  ASSUME NEW c \in CacheType
  PROVE  /\ Allowed(c) \in Nat /\ Allowed(c) <= Budget
         /\ c.cap = 0 => Allowed(c) = Budget
BY CountsAreNat DEF CacheType, Allowed

(* prepare_load_buffers has a buffer for an expert.                         *)
LEMMA ReservedIs ==
  ASSUME TypeOK, NEW x \in load.todo, NEW b \in Bufs, Reserved(x, b)
  PROVE  /\ Same(load, load')
         /\ load'.todo = load.todo \ {x}
         /\ load'.held = load.held \cup {[x |-> x, buf |-> b]}
         /\ load'.reserved = (IF Forced THEN load.reserved ELSE load.reserved + 1)
         /\ load'.budget = load.budget
         /\ load'.step = (IF OneByOne \/ load.todo = {x} THEN "read" ELSE "reserve")
<1> DEFINE t == load.todo \ {x}
           h == load.held \cup {[x |-> x, buf |-> b]}
           n == IF Forced THEN load.reserved ELSE load.reserved + 1
           s == IF OneByOne \/ load.todo = {x} THEN "read" ELSE "reserve"
           m1 == [load EXCEPT !.todo = t]
           m2 == [m1 EXCEPT !.held = h]
           m3 == [m2 EXCEPT !.reserved = n]
           m4 == [m3 EXCEPT !.step = s]
<1>1. load \in LoadType
  BY DEF TypeOK
<1>2. t \in SUBSET Experts /\ h \in SUBSET Held /\ n \in Nat /\ s \in Steps
  BY <1>1 DEF LoadType, Held, Steps
<1>3. load' = m4
  BY <1>1 DEF Reserved, LoadType
<1> HIDE DEF t, h, n, s
<1>4. /\ Same(load, m1) /\ m1.step = load.step /\ m1.todo = t /\ m1.held = load.held
      /\ m1.reserved = load.reserved /\ m1.budget = load.budget
  BY <1>1, <1>2, TodoIs
<1>5. m1 \in LoadType
  BY <1>4 DEF Same
<1> HIDE DEF m1
<1>6. /\ Same(m1, m2) /\ m2.todo = t /\ m2.held = h
      /\ m2.reserved = load.reserved /\ m2.budget = load.budget
  BY <1>2, <1>4, <1>5, HeldIs
<1>7. m2 \in LoadType
  BY <1>6 DEF Same
<1> HIDE DEF m2
<1>8. /\ Same(m2, m3) /\ m3.todo = t /\ m3.held = h
      /\ m3.reserved = n /\ m3.budget = load.budget
  BY <1>2, <1>6, <1>7, ReservedCountIs
<1>9. m3 \in LoadType
  BY <1>8 DEF Same
<1> HIDE DEF m3
<1>10. /\ Same(m3, m4) /\ m4.todo = t /\ m4.held = h
       /\ m4.reserved = n /\ m4.budget = load.budget /\ m4.step = s
  BY <1>2, <1>8, <1>9, StepIs
<1> HIDE DEF m4
<1>11. Same(load, m4)
  BY <1>4, <1>6, <1>8, <1>10 DEF Same
<1> QED BY <1>3, <1>10, <1>11 DEF t, h, n, s

-----------------------------------------------------------------------------
(* Steps that touch no buffer *)

(* Nobody owns, reads or writes a buffer anew.                              *)
LEMMA BuffersStay ==
  ASSUME EntriesOK, TakingOK, UNCHANGED <<cache, bytes, pending>>,
         load'.held \subseteq load.held,
         load'.step = "install" => load.step = "install",
         ~load'.on => load'.held = {} /\ load'.step = "clear"
  PROVE  EntriesOK' /\ TakingOK'
<1>1. Taking' \subseteq Taking
  BY DEF Taking
<1>2. TakenFrom(cache, Taking')
  BY <1>1 DEF TakingOK, TakenFrom
<1>3. Apart(Taking')
  BY <1>1 DEF TakingOK, Apart
<1>4. load'.step = "install" => Hold(load'.held, bytes)
  BY DEF TakingOK, Hold
<1>5. load'.held = {} \/ pending.held = {}
  BY DEF TakingOK
<1>6. pending.state = "good" => Hold(pending.held, bytes)
  BY DEF TakingOK
<1> QED BY <1>2, <1>3, <1>4, <1>5, <1>6 DEF EntriesOK, TakingOK

(* Reads are done, none begins.                                             *)
LEMMA ReadsStay ==
  ASSUME ReadsOK, UNCHANGED <<cache, bytes>>, gpu'.reads \subseteq gpu.reads,
         main.pc = "ran" => main'.pc = "ran" \/ gpu'.reads = {}
  PROVE  ReadsOK'
BY DEF ReadsOK

(* The slots are where they were.                                           *)
LEMMA SlotsStay ==
  ASSUME SlotsOK, UNCHANGED cache, Taking' = Taking
  PROVE  SlotsOK'
BY DEF SlotsOK, Valid

(* A step of the load alone.                                                *)
LEMMA LoadAlone ==
  ASSUME IInv, load' \in LoadType, UNCHANGED <<cache, bytes, gpu, pending, main>>,
         load'.held \subseteq load.held,
         load'.step = "install" => load.step = "install",
         ~load'.on => load'.held = {} /\ load'.step = "clear"
  PROVE  /\ faults' \in 0..MaxFaults /\ dropped' \in BOOLEAN => TypeOK'
         /\ GpuOK' /\ ReadsOK' /\ EntriesOK' /\ TakingOK'
<1>1. TypeOK /\ GpuOK /\ ReadsOK /\ EntriesOK /\ TakingOK
  BY DEF IInv
<1>2. faults' \in 0..MaxFaults /\ dropped' \in BOOLEAN => TypeOK'
  BY <1>1 DEF TypeOK
<1>3. GpuOK'
  BY <1>1 DEF GpuOK
<1>4. ReadsOK'
  BY <1>1, ReadsStay
<1>5. EntriesOK' /\ TakingOK'
  BY <1>1, BuffersStay
<1> QED BY <1>2, <1>3, <1>4, <1>5

(* A load that ends or fails holds no buffers, and is gone.                 *)
LEMMA LoadEnds ==
  ASSUME IInv, NEW ok \in BOOLEAN, load' = NoLoad(ok),
         UNCHANGED <<cache, bytes, gpu, pending, main>>
  PROVE  /\ faults' \in 0..MaxFaults /\ dropped' \in BOOLEAN => TypeOK'
         /\ GpuOK' /\ ReadsOK' /\ EntriesOK' /\ TakingOK'
         /\ ~load'.on /\ load'.ok = ok /\ load'.step = "clear" /\ load'.held = {}
<1>1. /\ load' \in LoadType /\ ~load'.on /\ load'.ok = ok /\ load'.step = "clear"
      /\ load'.held = {}
  BY NoLoadIs
<1> QED BY <1>1, LoadAlone

(* The main thread's layer and selection meet no load once it has ended.    *)
LEMMA FlowOfEnded ==
  ASSUME FlowOK, ~load'.on, UNCHANGED <<cache, pending, main, gpu>>,
         pending.on => load'.ok /\ main.pc \notin {"split_rest", "loaded"},
         main.pc = "split" /\ load'.ok /\ ~pending.on =>
           \A x \in main.sel \ main.has : x \in Valid(cache) /\ cache.entry[x].seq = 0
  PROVE  FlowOK'
<1> SUFFICES ASSUME main.pc # "aborted" PROVE PendingOK' /\ LoadOK' /\ SplitOK'
  BY DEF FlowOK
<1>1. PendingOK /\ SplitOK
  BY DEF FlowOK
<1>2. PendingOK'
  BY <1>1 DEF PendingOK, Names, Valid
<1>3. LoadOK'
  BY DEF LoadOK
<1>4. SplitOK'
  BY <1>1 DEF SplitOK, Valid, OfLayer, Choosing
<1> QED BY <1>2, <1>3, <1>4

(* A load that failed: nothing is known to be there.                        *)
LEMMA LoadFails ==
  ASSUME IInv, Loading(load.step), load' = NoLoad(FALSE), ~pending.on,
         dropped' = (dropped \/ load.held # {}), faults' \in 0..MaxFaults,
         Roomy' => Roomy /\ load.held = {},
         UNCHANGED <<cache, bytes, gpu, pending, main>>
  PROVE  IInv'
<1>1. /\ faults' \in 0..MaxFaults /\ dropped' \in BOOLEAN => TypeOK'
      /\ GpuOK' /\ ReadsOK' /\ EntriesOK' /\ TakingOK'
      /\ ~load'.on /\ load'.ok = FALSE /\ load'.step = "clear" /\ load'.held = {}
  BY LoadEnds
<1>2. dropped' \in BOOLEAN
  BY DEF IInv, TypeOK
<1>3. TypeOK'
  BY <1>1, <1>2
<1>4. FlowOK'
  BY <1>1, FlowOfEnded DEF IInv
<1>5. NothingLost'
  BY <1>1 DEF IInv, NothingLost
<1>6. Roomy' => BudgetOK'
  <2> SUFFICES ASSUME Roomy' PROVE BudgetOK'
    OBVIOUS
  <2>1. BudgetOK /\ load.held = {}
    BY DEF IInv
  <2>2. SlotsOK'
    BY <1>1, <2>1, SlotsStay DEF BudgetOK, Taking
  <2>3. LimitsOK'
    BY <1>1, <2>1 DEF BudgetOK, LimitsOK, Choosing
  <2> QED BY <2>2, <2>3 DEF BudgetOK
<1> QED BY <1>1, <1>3, <1>4, <1>5, <1>6 DEF IInv

(* The router's choice is on the event: the async load goes on.             *)
LEMMA EventSignaledKeeps ==
  ASSUME IInv, EventSignaled
  PROVE  IInv'
<1>1. /\ load \in LoadType /\ load.on /\ load.step = "event" /\ main.pc # "aborted"
      /\ FlowOK /\ NothingLost /\ TypeOK
  BY DEF IInv, TypeOK, EventSignaled, Loading
<1>2. /\ load' = [load EXCEPT !.step = "clear"]
      /\ UNCHANGED <<cache, bytes, gpu, pending, main, faults, dropped>>
  BY DEF EventSignaled
<1>3. /\ Same(load, load') /\ load'.step = "clear" /\ load'.todo = load.todo
      /\ load'.held = load.held
  BY <1>1, <1>2, StepIs DEF Steps
<1>4. load' \in LoadType /\ load'.on /\ load'.how = load.how /\ load'.keep = load.keep
      /\ load'.layer = load.layer
  BY <1>1, <1>3 DEF Same
<1>5. TypeOK' /\ GpuOK' /\ ReadsOK' /\ EntriesOK' /\ TakingOK'
  BY <1>1, <1>2, <1>3, <1>4, LoadAlone DEF TypeOK
<1>6. ~pending.on /\ load.how = "early"
  BY <1>1 DEF FlowOK, PendingOK, LoadOK
<1>7. FlowOK'
  <2>1. PendingOK'
    BY <1>1, <1>2, <1>6 DEF FlowOK, PendingOK
  <2>2. LoadOK'
    BY <1>1, <1>2, <1>3, <1>4, <1>6 DEF FlowOK, LoadOK, Beginning, Reading, OneByOne, Names, Valid
  <2>3. SplitOK'
    BY <1>1, <1>2, <1>3, <1>4 DEF FlowOK, SplitOK, Valid, OfLayer, Choosing
  <2> QED BY <2>1, <2>2, <2>3 DEF FlowOK
<1>8. NothingLost'
  BY <1>1, <1>2, <1>3 DEF NothingLost
<1>9. Roomy' => BudgetOK'
  <2> SUFFICES ASSUME Roomy' PROVE BudgetOK'
    OBVIOUS
  <2>1. BudgetOK
    BY <1>2 DEF IInv, Roomy
  <2>2. SlotsOK'
    BY <1>2, <1>3, <2>1, SlotsStay DEF BudgetOK, Taking
  <2>3. LimitsOK'
    <3>1. load'.step \in Beginning /\ load'.step \notin {"squeeze", "forced", "alone"}
      BY <1>3 DEF Beginning
    <3>2. /\ pending'.state # "bad"
          /\ main'.pc \in Choosing \ {"prefill", "ran", "seed"} => Cardinality(main'.sel) = NSel
          /\ load'.on /\ load'.how # "row" => Cardinality(load'.keep) <= Budget
      BY <1>1, <1>2, <1>4, <2>1 DEF BudgetOK, LimitsOK
    <3> QED BY <3>1, <3>2 DEF LimitsOK
  <2> QED BY <2>2, <2>3 DEF BudgetOK
<1> QED BY <1>5, <1>7, <1>8, <1>9 DEF IInv

-----------------------------------------------------------------------------
(* Counting *)

BufsOf(held) == {h.buf : h \in held}

(* Loads hold as many buffers as experts.                                   *)
LEMMA HeldCounts ==
  ASSUME NEW held \in SUBSET Held, Apart(held)
  PROVE  /\ IsFiniteSet(held) /\ Cardinality(held) \in Nat
         /\ IsFiniteSet(Names(held)) /\ Cardinality(Names(held)) = Cardinality(held)
         /\ IsFiniteSet(BufsOf(held)) /\ Cardinality(BufsOf(held)) = Cardinality(held)
<1> DEFINE f == [h \in held |-> h.x]
           b == [h \in held |-> h.buf]
<1>1. f \in [held -> Experts] /\ f \in [held -> Names(held)] /\ b \in [held -> BufsOf(held)]
  BY DEF Held, Names, BufsOf
<1>2. IsInjective(f) /\ IsInjective(b)
  BY DEF Apart, IsInjective
<1>3. f \in Injection(held, Experts)
  BY <1>1, <1>2 DEF Injection
<1>4. IsFiniteSet(held)
  BY <1>3, FS_Injection, ExpertsAreFinite
<1>5. f \in Bijection(held, Names(held)) /\ b \in Bijection(held, BufsOf(held))
  BY <1>1, <1>2 DEF Bijection, Injection, Surjection, Names, BufsOf
<1>6. ExistsBijection(held, Names(held)) /\ ExistsBijection(held, BufsOf(held))
  BY <1>5 DEF ExistsBijection
<1> QED BY <1>4, <1>6, FS_Bijection, FS_CardinalityType

(* There are no more buffers in use than entries.                           *)
LEMMA EntriesCount ==
  ASSUME NEW c \in CacheType
  PROVE  LET B == {c.entry[y].buf : y \in Valid(c)}
         IN IsFiniteSet(B) /\ Cardinality(B) \in Nat /\ Cardinality(B) <= Cardinality(Valid(c))
<1> DEFINE B == {c.entry[y].buf : y \in Valid(c)}
           f == [y \in Valid(c) |-> c.entry[y].buf]
<1>1. f \in Surjection(Valid(c), B)
  BY DEF Surjection
<1> QED BY <1>1, ValidIsFinite, FS_Surjection, FS_CardinalityType

(* Without a fault a slot is at hand or a victim is: the load counts what  *)
(* it has reserved, and has no more experts to keep than the budget.        *)
LEMMA NeverAlone ==
  ASSUME IInv, Roomy, NEW x \in load.todo
  PROVE  ~WantsAlone(x)
<1> SUFFICES ASSUME WantsAlone(x) PROVE FALSE
  OBVIOUS
<1>1. SlotsOK /\ LimitsOK /\ TypeOK /\ TakingOK /\ FlowOK
  BY DEF IInv, BudgetOK
<1>2. WantsSlot(x) /\ SlotsAtHand = {}
  BY <1>1 DEF WantsAlone, Loading, LimitsOK
<1>3. /\ load.on /\ load.step = "reserve" /\ main.pc # "aborted" /\ NoReuse
      /\ cache.cap = 0 /\ x \notin Valid(cache)
  BY <1>2 DEF WantsSlot, Loading
<1>4. pending.held = {} /\ LoadOK
  BY <1>1, <1>3 DEF FlowOK, PendingOK, NoPending
<1>5. Taking = load.held /\ load.held \in SUBSET Held /\ Apart(load.held)
  BY <1>1, <1>4 DEF TakingOK, Taking, TypeOK, LoadType
<1>6. cache \in CacheType /\ cache.used \in 0..Budget
  BY <1>1 DEF TypeOK, CacheType
<1>7. cache.free = {} /\ cache.used = Budget
  <2>1. cache.free = {}
    BY <1>2 DEF SlotsAtHand
  <2>2. cache.used + 1 \notin Slots
    BY <1>2, <2>1 DEF SlotsAtHand
  <2> QED BY <1>6, <2>1, <2>2, CountsAreNat DEF Slots
<1> DEFINE B == {cache.entry[y].buf : y \in Valid(cache)}
           m == Cardinality(Valid(cache))
           n == Cardinality(load.held)
<1>8. m \in Nat /\ n \in Nat /\ Budget <= m + n
  <2>1. /\ IsFiniteSet(B) /\ Cardinality(B) \in Nat /\ Cardinality(B) <= m /\ m \in Nat
    BY <1>6, EntriesCount, ValidIsFinite
  <2>2. /\ IsFiniteSet(BufsOf(load.held)) /\ Cardinality(BufsOf(load.held)) = n /\ n \in Nat
    BY <1>5, HeldCounts
  <2>3. 1..Budget \subseteq B \cup BufsOf(load.held)
    <3> SUFFICES ASSUME NEW s \in 1..Budget PROVE s \in B \cup BufsOf(load.held)
      OBVIOUS
    <3>1. s \in {cache.entry[y].buf : y \in Experts} \cup {h.buf : h \in load.held}
      BY <1>1, <1>5, <1>7 DEF SlotsOK
    <3>2. s # 0
      OBVIOUS
    <3> QED BY <3>1, <3>2 DEF Valid, BufsOf
  <2>4. IsFiniteSet(1..Budget) /\ Cardinality(1..Budget) = Budget
    BY CountsAreNat, FS_Interval
  <2> DEFINE H == BufsOf(load.held)
  <2>5. /\ IsFiniteSet(B \cup H)
        /\ Cardinality(B \cup H) = Cardinality(B) + n - Cardinality(B \cap H)
    BY <2>1, <2>2, FS_Union
  <2>6. Cardinality(B \cap H) \in Nat
    BY <2>1, FS_Intersection, FS_CardinalityType
  <2>7. Budget <= Cardinality(B \cup H)
    BY <2>3, <2>4, <2>5, FS_Subset
  <2> HIDE DEF H, B, m, n
  <2> QED BY <2>1, <2>2, <2>5, <2>6, <2>7, CountsAreNat
<1>9. Allowed(cache) = Budget
  BY <1>3, <1>6, AllowedType
<1>10. OneByOne => load.held = {}
  BY <1>3, <1>4 DEF LoadOK, Reading
<1>11. OneByOne => n = 0
  BY <1>10, FS_EmptySet
<1>12. WantsVictim
  <2>1. CASE OneByOne
    BY <2>1, <1>8, <1>9, <1>11, CountsAreNat DEF WantsVictim, Count
  <2>2. CASE ~OneByOne
    <3>1. /\ load.budget = Budget
          /\ load.reserved >= Budget \/ load.reserved >= m + n
      BY <1>1, <1>3, <2>2 DEF LimitsOK, Count, Beginning
    <3>2. load.reserved \in Nat
      BY <1>1 DEF TypeOK, LoadType
    <3>3. load.reserved >= load.budget
      BY <3>1, <3>2, <1>8, CountsAreNat
    <3> QED BY <3>3, <2>2 DEF WantsVictim, Forced
  <2> QED BY <2>1, <2>2
<1>13. SpareNow = {} /\ InFlight(cache, gpu) = {}
  BY <1>3, <1>12 DEF NoReuse
<1>14. Valid(cache) \subseteq Keep
  BY <1>13 DEF SpareNow, Spare, Kept
<1>15. load.how # "row"
  <2> SUFFICES ASSUME load.how = "row" PROVE FALSE
    OBVIOUS
  <2>1. Valid(cache) = {} /\ n = 0
    BY <1>14, <1>11 DEF Keep, OneByOne
  <2>2. m = 0
    BY <2>1, FS_EmptySet
  <2> QED BY <1>8, <2>1, <2>2, CountsAreNat
<1>16. Cardinality(load.keep) <= Budget /\ Valid(cache) \subseteq load.keep
  BY <1>1, <1>3, <1>14, <1>15 DEF LimitsOK, Keep
<1> DEFINE N == Names(load.held)
           V == Valid(cache)
           K == load.keep
<1>17. /\ N \subseteq K /\ x \in K /\ x \notin N /\ x \notin V /\ V \subseteq K
       /\ N \cap V = {}
  BY <1>3, <1>4, <1>16 DEF LoadOK
<1>18. IsFiniteSet(N) /\ Cardinality(N) = n /\ IsFiniteSet(V) /\ Cardinality(V) = m
  BY <1>5, HeldCounts, ValidIsFinite
<1>19. IsFiniteSet(K) /\ Cardinality(K) \in Nat
  <2>1. K \in SUBSET Experts
    BY <1>1 DEF TypeOK, LoadType
  <2> QED BY <2>1, ExpertsAreFinite, FS_Subset, FS_CardinalityType
<1>20. IsFiniteSet(N \cup V) /\ Cardinality(N \cup V) = n + m
  <2>1. Cardinality(N \cap V) = 0
    BY <1>17, FS_EmptySet
  <2>2. /\ IsFiniteSet(N \cup V)
        /\ Cardinality(N \cup V) = Cardinality(N) + Cardinality(V) - Cardinality(N \cap V)
    BY <1>18, FS_Union
  <2> HIDE DEF N, V, m, n
  <2> QED BY <2>1, <2>2, <1>8, <1>18
<1>21. Cardinality((N \cup V) \cup {x}) = n + m + 1
  <2>1. x \notin N \cup V
    BY <1>17
  <2> HIDE DEF N, V, m, n
  <2> QED BY <2>1, <1>20, FS_AddElement
<1>22. Cardinality((N \cup V) \cup {x}) <= Cardinality(K)
  <2>1. (N \cup V) \cup {x} \in SUBSET K
    BY <1>17
  <2> HIDE DEF N, V, K
  <2> QED BY <2>1, <1>19, FS_Subset
<1> HIDE DEF N, V, m, n, K
<1> QED BY <1>8, <1>16, <1>19, <1>21, <1>22, CountsAreNat DEF K

-----------------------------------------------------------------------------
(* Loads that end *)

(* No early load is on its way once a load has begun in earnest.            *)
LEMMA NonePending ==
  ASSUME IInv, load.on, main.pc # "aborted", load.step # "clear"
  PROVE  ~pending.on /\ pending.held = {} /\ Taking = load.held
<1>1. PendingOK
  BY DEF IInv, FlowOK
<1>2. ~pending.on
  BY <1>1 DEF PendingOK
<1>3. pending = NoPending
  BY <1>1, <1>2 DEF PendingOK
<1>4. pending.held = {}
  BY <1>3 DEF NoPending
<1> QED BY <1>2, <1>4 DEF Taking

(* The event is not signaled in time.                                       *)
LEMMA EventTimesOutKeeps ==
  ASSUME IInv, EventTimesOut
  PROVE  IInv'
<1>1. /\ Loading(load.step) /\ load.on /\ load.step = "event" /\ main.pc # "aborted"
      /\ faults < MaxFaults /\ faults' = faults + 1 /\ load' = NoLoad(FALSE)
      /\ UNCHANGED <<cache, bytes, gpu, pending, main, dropped>>
  BY DEF EventTimesOut, Loading
<1>2. ~pending.on
  BY <1>1, NonePending
<1>3. faults \in Nat /\ faults' \in 0..MaxFaults /\ faults' # 0 /\ dropped \in BOOLEAN
  BY <1>1, CountsAreNat DEF IInv, TypeOK
<1>4. load.held = {}
  BY <1>1 DEF IInv, FlowOK, LoadOK, Beginning
<1>5. dropped' = (dropped \/ load.held # {})
  BY <1>1, <1>3, <1>4
<1>6. ~Roomy'
  BY <1>3 DEF Roomy
<1> QED BY <1>1, <1>2, <1>3, <1>5, <1>6, LoadFails

(* Every entry is protected: there is no victim to take.                    *)
LEMMA NoVictimKeeps ==
  ASSUME IInv, NoVictim
  PROVE  IInv'
<1>1. /\ Loading(load.step) /\ load.on /\ load.step = "forced" /\ main.pc # "aborted"
      /\ load' = NoLoad(FALSE) /\ dropped' = (dropped \/ load.held # {})
      /\ UNCHANGED <<cache, bytes, gpu, pending, main, faults>>
  BY DEF NoVictim, Loading, Fails
<1>2. ~pending.on
  BY <1>1, NonePending
<1>3. faults' \in 0..MaxFaults
  BY <1>1 DEF IInv, TypeOK
<1>4. ~Roomy'
  BY <1>1 DEF IInv, Roomy, BudgetOK, LimitsOK
<1> QED BY <1>1, <1>2, <1>3, <1>4, LoadFails

(* There is no standalone buffer to be had.                                 *)
LEMMA NoBufferKeeps ==
  ASSUME IInv, NoBuffer
  PROVE  IInv'
<1>1. PICK x \in load.todo : WantsAlone(x)
  BY DEF NoBuffer
<1>2. /\ Loading(load.step) /\ load.on /\ load.step # "clear" /\ main.pc # "aborted"
  BY <1>1 DEF WantsAlone, WantsSlot, Loading
<1>3. /\ load' = NoLoad(FALSE) /\ dropped' = (dropped \/ load.held # {})
      /\ UNCHANGED <<cache, bytes, gpu, pending, main, faults>>
  BY DEF NoBuffer, Fails
<1>4. ~pending.on
  BY <1>2, NonePending
<1>5. faults' \in 0..MaxFaults
  BY <1>3 DEF IInv, TypeOK
<1>6. ~Roomy
  BY <1>1, NeverAlone
<1>7. ~Roomy'
  BY <1>3, <1>6 DEF Roomy
<1> QED BY <1>2, <1>3, <1>4, <1>5, <1>7, LoadFails

(* The reads of a load fail.                                                *)
LEMMA ReadsFailKeeps ==
  ASSUME IInv, ReadsFail
  PROVE  IInv'
<1>1. /\ Loading(load.step) /\ load.on /\ load.step = "reading" /\ main.pc # "aborted"
      /\ faults < MaxFaults /\ faults' = faults + 1
      /\ load' = NoLoad(FALSE) /\ dropped' = (dropped \/ load.held # {})
      /\ UNCHANGED <<cache, bytes, gpu, pending, main>>
  BY DEF ReadsFail, Loading, Fails
<1>2. ~pending.on
  BY <1>1, NonePending
<1>3. faults \in Nat /\ faults' \in 0..MaxFaults /\ faults' # 0
  BY <1>1, CountsAreNat DEF IInv, TypeOK
<1>4. ~Roomy'
  BY <1>3 DEF Roomy
<1> QED BY <1>1, <1>2, <1>3, <1>4, LoadFails

(* A load that ended well keeps the limits.                                 *)
LEMMA LimitsOfEnded ==
  ASSUME LimitsOK, load'.step = "clear", ~load'.on, UNCHANGED <<pending, main>>
  PROVE  LimitsOK'
BY DEF LimitsOK, Choosing

(* A load that has nothing more to do ends well.                            *)
LEMMA LoadDone ==
  ASSUME IInv, load.on, main.pc # "aborted", load' = NoLoad(TRUE), load.held = {},
         UNCHANGED <<cache, bytes, gpu, pending, main, faults, dropped>>,
         pending.on => main.pc \notin {"split_rest", "loaded"},
         main.pc = "split" /\ ~pending.on =>
           \A x \in main.sel \ main.has : x \in Valid(cache) /\ cache.entry[x].seq = 0
  PROVE  IInv'
<1>1. /\ faults' \in 0..MaxFaults /\ dropped' \in BOOLEAN => TypeOK'
      /\ GpuOK' /\ ReadsOK' /\ EntriesOK' /\ TakingOK'
      /\ ~load'.on /\ load'.ok = TRUE /\ load'.step = "clear" /\ load'.held = {}
  BY LoadEnds
<1>2. TypeOK'
  BY <1>1 DEF IInv, TypeOK
<1>3. FlowOK'
  BY <1>1, FlowOfEnded DEF IInv
<1>4. NothingLost'
  BY <1>1 DEF IInv, NothingLost
<1>5. Roomy' => BudgetOK'
  <2> SUFFICES ASSUME Roomy' PROVE BudgetOK'
    OBVIOUS
  <2>1. BudgetOK
    BY DEF IInv, Roomy
  <2>2. SlotsOK'
    BY <1>1, <2>1, SlotsStay DEF BudgetOK, Taking
  <2>3. LimitsOK'
    BY <1>1, <2>1, LimitsOfEnded DEF BudgetOK
  <2> QED BY <2>2, <2>3 DEF BudgetOK
<1> QED BY <1>1, <1>2, <1>3, <1>4, <1>5 DEF IInv

-----------------------------------------------------------------------------
(* Loads that go on *)

(* How a load meets the main thread.                                        *)
LEMMA PlaceOfLoad ==
  ASSUME IInv, load.on, main.pc # "aborted"
  PROVE  /\ load.keep = main.sel /\ load.layer = main.layer
         /\ main.pc \in {"window", "join", "split", "loaded", "split_rest", "seed", "prefill"}
         /\ main.pc = "split" => load.how = "early"
         /\ main.pc \in {"loaded", "split_rest"} => load.how = "missing"
         /\ load.keep \subseteq OfLayer(load.layer)
         /\ Kept(load.layer, load.keep) = load.keep
<1>1. LoadOK /\ SplitOK /\ load \in LoadType /\ main \in MainType
  BY DEF IInv, FlowOK, TypeOK
<1>2. load.keep = main.sel /\ load.layer = main.layer
  BY <1>1 DEF LoadOK
<1>3. load.how \in {"missing", "early", "batch", "row"}
  BY <1>1 DEF LoadType
<1>4. /\ load.how = "early" => main.pc \in {"window", "join", "split"}
      /\ load.how = "missing" => main.pc \in {"loaded", "split_rest", "seed"}
      /\ load.how \in {"batch", "row"} => main.pc \in {"prefill", "seed"}
  BY <1>1 DEF LoadOK, OneByOne
<1>5. main.pc \in {"window", "join", "split", "loaded", "split_rest", "seed", "prefill"}
  BY <1>3, <1>4
<1>6. main.sel \subseteq OfLayer(main.layer)
  BY <1>1, <1>5 DEF SplitOK, Choosing
<1>7. Kept(load.layer, load.keep) = load.keep
  BY <1>2, <1>6 DEF Kept, OfLayer
<1> QED BY <1>2, <1>3, <1>4, <1>5, <1>6, <1>7

(* What is planned is reserved.                                             *)
LEMMA PlanGoesOn ==
  ASSUME IInv, load.on, main.pc # "aborted", load.step \in {"clear", "plan"}, ~pending.on,
         NEW t \in SUBSET Experts,
         t = IF load.how = "early" THEN load.keep \ Valid(cache) ELSE load.todo,
         load' = [load EXCEPT !.step = "reserve", !.todo = t,
                              !.reserved = Count, !.budget = Allowed(cache)],
         UNCHANGED <<cache, bytes, gpu, pending, main, faults, dropped>>
  PROVE  IInv'
<1> DEFINE m1 == [load EXCEPT !.step = "reserve"]
           m2 == [m1 EXCEPT !.todo = t]
           m3 == [m2 EXCEPT !.reserved = Count]
           m4 == [m3 EXCEPT !.budget = Allowed(cache)]
<1>1. load \in LoadType /\ cache \in CacheType /\ TypeOK /\ FlowOK
  BY DEF IInv, TypeOK
<1>2. Count \in Nat /\ Allowed(cache) \in Nat
  BY <1>1, ValidIsFinite, AllowedType DEF Count
<1>3. load' = m4
  BY <1>1 DEF LoadType
<1>4. Same(load, m1) /\ m1.step = "reserve" /\ m1.held = load.held
  BY <1>1, StepIs DEF Steps
<1>5. m1 \in LoadType
  BY <1>4 DEF Same
<1> HIDE DEF m1
<1>6. Same(m1, m2) /\ m2.step = "reserve" /\ m2.held = load.held /\ m2.todo = t
  BY <1>4, <1>5, TodoIs
<1>7. m2 \in LoadType
  BY <1>6 DEF Same
<1> HIDE DEF m2
<1>8. /\ Same(m2, m3) /\ m3.step = "reserve" /\ m3.held = load.held /\ m3.todo = t
      /\ m3.reserved = Count
  BY <1>2, <1>6, <1>7, ReservedCountIs
<1>9. m3 \in LoadType
  BY <1>8 DEF Same
<1> HIDE DEF m3
<1>10. /\ Same(m3, m4) /\ m4.step = "reserve" /\ m4.held = load.held /\ m4.todo = t
       /\ m4.reserved = Count /\ m4.budget = Allowed(cache)
  BY <1>2, <1>8, <1>9, LoadBudgetIs
<1> HIDE DEF m4
<1>11. /\ load' \in LoadType /\ load'.on /\ load'.how = load.how /\ load'.keep = load.keep
       /\ load'.layer = load.layer /\ load'.step = "reserve" /\ load'.held = load.held
       /\ load'.todo = t /\ load'.reserved = Count /\ load'.budget = Allowed(cache)
  BY <1>3, <1>4, <1>6, <1>8, <1>10 DEF Same
<1>12. load.held = {} /\ LoadOK /\ SplitOK /\ PendingOK
  BY <1>1 DEF FlowOK, LoadOK, Beginning
<1>13. TypeOK' /\ GpuOK' /\ ReadsOK' /\ EntriesOK' /\ TakingOK'
  BY <1>1, <1>11, LoadAlone DEF TypeOK
<1>14. FlowOK'
  <2>1. PendingOK'
    BY <1>12 DEF PendingOK
  <2>2. LoadOK'
    <3>1. Names(load'.held) = {}
      BY <1>11, <1>12 DEF Names
    <3>2. t \subseteq load.keep /\ (load.how = "early" => t = main.sel \ Valid(cache))
      BY <1>12 DEF LoadOK
    <3>3. /\ load'.keep = main'.sel /\ load'.layer = main'.layer
          /\ load'.how = "missing" => main'.pc \in {"loaded", "split_rest", "seed"}
          /\ load'.how = "early" => main'.pc \in {"window", "join", "split"}
          /\ load'.how \in {"batch", "row"} => main'.pc \in {"prefill", "seed"}
      BY <1>11, <1>12 DEF LoadOK, OneByOne
    <3>4. Valid(cache)' = Valid(cache)
      BY DEF Valid
    <3> QED BY <1>11, <1>12, <3>1, <3>2, <3>3, <3>4 DEF LoadOK, OneByOne, Reading, Beginning
  <2>3. SplitOK'
    <3>1. main.pc = "split_rest" => load.how = "missing"
      BY PlaceOfLoad
    <3>2. Valid(cache)' = Valid(cache)
      BY DEF Valid
    <3> QED BY <1>11, <1>12, <3>1, <3>2 DEF SplitOK, Choosing, OfLayer
  <2> QED BY <2>1, <2>2, <2>3 DEF FlowOK
<1>15. NothingLost'
  BY <1>11 DEF IInv, NothingLost
<1>16. Roomy' => BudgetOK'
  <2> SUFFICES ASSUME Roomy' PROVE BudgetOK'
    OBVIOUS
  <2>1. SlotsOK /\ LimitsOK
    BY DEF IInv, Roomy, BudgetOK
  <2>2. SlotsOK'
    BY <1>11, <2>1, SlotsStay DEF Taking
  <2>3. load'.budget = Budget
    BY <1>1, <1>11, <2>1, AllowedType DEF SlotsOK
  <2>4. load'.reserved >= Cardinality(Valid(cache)) + Cardinality(load'.held)
    <3>1. Cardinality(load'.held) = 0
      BY <1>11, <1>12, FS_EmptySet
    <3>2. load'.reserved = Cardinality(Valid(cache)) /\ Cardinality(Valid(cache)) \in Nat
      BY <1>2, <1>11 DEF Count
    <3> QED BY <3>1, <3>2
  <2>5. load'.reserved >= Count' + Cardinality(load'.held)
    BY <2>4 DEF Count, Valid
  <2>6. /\ load'.step \notin {"squeeze", "forced", "alone"} /\ pending'.state # "bad"
        /\ main'.pc \in Choosing \ {"prefill", "ran", "seed"} => Cardinality(main'.sel) = NSel
        /\ load'.how # "row" => Cardinality(load'.keep) <= Budget
    BY <1>11, <2>1 DEF LimitsOK
  <2>7. LimitsOK'
    BY <2>3, <2>5, <2>6 DEF LimitsOK, Choosing
  <2> QED BY <2>2, <2>7 DEF BudgetOK
<1> QED BY <1>13, <1>14, <1>15, <1>16 DEF IInv

(* What is to be read is planned.                                           *)
LEMMA PlanLoadKeeps ==
  ASSUME IInv, PlanLoad
  PROVE  IInv'
<1> DEFINE t == IF load.how = "early" THEN load.keep \ Valid(cache) ELSE load.todo
<1>1. /\ load.on /\ main.pc # "aborted" /\ load.step \in {"clear", "plan"}
      /\ load.step = "clear" => ~Settles
      /\ UNCHANGED <<cache, bytes, gpu, pending, main, faults, dropped>>
  BY DEF PlanLoad, Loading
<1>2. /\ load' = IF PendingMatches \/ t = {} THEN NoLoad(TRUE)
                 ELSE [load EXCEPT !.step = "reserve", !.todo = t,
                                   !.reserved = Count, !.budget = Allowed(cache)]
  BY DEF PlanLoad
<1>3. t \in SUBSET Experts
  BY DEF IInv, TypeOK, LoadType
<1>4. pending.on => load.how = "early" /\ PendingMatches
  <2> SUFFICES ASSUME pending.on PROVE load.how = "early" /\ PendingMatches
    OBVIOUS
  <2>1. load.step = "clear"
    BY <1>1, NonePending
  <2> QED BY <1>1, <2>1 DEF Settles, Loading
<1>5. CASE PendingMatches \/ t = {}
  <2>1. load' = NoLoad(TRUE)
    BY <1>2, <1>5
  <2>2. load.held = {} /\ SplitOK
    BY <1>1 DEF IInv, FlowOK, LoadOK, Beginning
  <2>3. pending.on => main.pc \notin {"split_rest", "loaded"}
    BY <1>1, <1>4, PlaceOfLoad
  <2>4. ASSUME main.pc = "split", ~pending.on
        PROVE  \A x \in main.sel \ main.has : x \in Valid(cache) /\ cache.entry[x].seq = 0
    <3>1. load.how = "early" /\ load.keep = main.sel
      BY <1>1, <2>4, PlaceOfLoad
    <3>2. t = {}
      BY <1>5, <2>4 DEF PendingMatches
    <3>3. main.sel \ Valid(cache) = {}
      BY <3>1, <3>2
    <3>4. main.has = main.sel \cap Valid(cache)
      BY <1>1, <2>2, <2>4 DEF SplitOK
    <3> QED BY <3>3, <3>4
  <2> HIDE DEF t
  <2> QED BY <1>1, <2>1, <2>2, <2>3, <2>4, LoadDone
<1>6. CASE ~(PendingMatches \/ t = {})
  <2>1. ~pending.on
    BY <1>4, <1>6
  <2>2. load' = [load EXCEPT !.step = "reserve", !.todo = t,
                             !.reserved = Count, !.budget = Allowed(cache)]
    BY <1>2, <1>6
  <2>3. t = IF load.how = "early" THEN load.keep \ Valid(cache) ELSE load.todo
    OBVIOUS
  <2> HIDE DEF t
  <2> QED BY <1>1, <1>3, <2>1, <2>2, <2>3, PlanGoesOn
<1> QED BY <1>5, <1>6

(* An expert has been loaded meanwhile.                                     *)
LEMMA GetHitKeeps ==
  ASSUME IInv, NEW x \in Experts, GetHit(x)
  PROVE  IInv'
<1>1. /\ load.on /\ load.step = "reserve" /\ main.pc # "aborted" /\ OneByOne
      /\ UNCHANGED <<cache, bytes, gpu, pending, main, faults, dropped>>
      /\ load' = IF load.todo = {x} THEN NoLoad(TRUE) ELSE [load EXCEPT !.todo = load.todo \ {x}]
  BY DEF GetHit, Loading, IInv, TypeOK, LoadType
<1>2. /\ load \in LoadType /\ TypeOK /\ LoadOK /\ SplitOK /\ PendingOK
      /\ main.pc \in {"prefill", "seed"} /\ load.held = {}
  BY <1>1 DEF IInv, TypeOK, FlowOK, LoadOK, Reading
<1>3. ~pending.on
  BY <1>1, NonePending
<1>4. CASE load.todo = {x}
  <2>1. load' = NoLoad(TRUE)
    BY <1>1, <1>4
  <2> QED BY <1>1, <1>2, <1>3, <2>1, LoadDone
<1>5. CASE load.todo # {x}
  <2> DEFINE t == load.todo \ {x}
  <2>1. load' = [load EXCEPT !.todo = t]
    BY <1>1, <1>5
  <2>2. t \in SUBSET Experts
    BY <1>2 DEF LoadType
  <2> DEFINE m == [load EXCEPT !.todo = t]
  <2>a. /\ Same(load, m) /\ m.step = load.step /\ m.todo = t /\ m.held = load.held
        /\ m.reserved = load.reserved /\ m.budget = load.budget
    <3>1. load \in LoadType
      BY <1>2
    <3> HIDE DEF t
    <3> QED BY <3>1, <2>2, TodoIs
  <2>3. /\ Same(load, load') /\ load'.step = "reserve" /\ load'.todo = t
        /\ load'.held = {} /\ load'.reserved = load.reserved /\ load'.budget = load.budget
    <3>1. load' = m
      BY <2>1
    <3> HIDE DEF m, t
    <3> QED BY <1>1, <1>2, <2>a, <3>1
  <2>4. /\ load' \in LoadType /\ load'.on /\ load'.how = load.how
        /\ load'.keep = load.keep /\ load'.layer = load.layer
    BY <1>1, <2>3 DEF Same
  <2>5. TypeOK' /\ GpuOK' /\ ReadsOK' /\ EntriesOK' /\ TakingOK'
    BY <1>1, <1>2, <2>3, <2>4, LoadAlone DEF TypeOK
  <2>6. FlowOK'
    <3>1. PendingOK'
      BY <1>1, <1>2, <1>3 DEF PendingOK
    <3>2. LoadOK'
      <4>1. Names(load'.held) = {} /\ t \subseteq load.keep
        BY <1>2, <2>3, <1>1 DEF Names, LoadOK
      <4>2. load.how \in {"batch", "row"} /\ load.keep = main.sel /\ load.layer = main.layer
        BY <1>1, <1>2 DEF LoadOK, OneByOne
      <4> QED BY <1>1, <1>2, <2>3, <2>4, <4>1, <4>2
              DEF LoadOK, OneByOne, Reading, Beginning
    <3>3. SplitOK'
      BY <1>1, <1>2 DEF SplitOK, Choosing, OfLayer
    <3> QED BY <3>1, <3>2, <3>3 DEF FlowOK
  <2>7. NothingLost'
    BY <1>1, <1>2, <2>3 DEF IInv, NothingLost
  <2>8. Roomy' => BudgetOK'
    <3> SUFFICES ASSUME Roomy' PROVE BudgetOK'
      OBVIOUS
    <3>1. SlotsOK /\ LimitsOK
      BY <1>1 DEF IInv, Roomy, BudgetOK
    <3>2. SlotsOK'
      BY <1>1, <1>2, <2>3, <3>1, SlotsStay DEF Taking
    <3>3. load'.how \in {"batch", "row"}
      BY <1>1, <2>4 DEF OneByOne
    <3>4. LimitsOK'
      BY <1>1, <2>3, <2>4, <3>1, <3>3 DEF LimitsOK, Choosing, OneByOne
    <3> QED BY <3>2, <3>4 DEF BudgetOK
  <2> QED BY <2>5, <2>6, <2>7, <2>8 DEF IInv
<1> QED BY <1>4, <1>5

-----------------------------------------------------------------------------
(* Buffers for a load *)

(* What is still to be read is in flight, but for a prompt's.               *)
LEMMA ReadsAreInFlight ==
  ASSUME IInv, main.pc # "ran", NEW r \in gpu.reads
  PROVE  /\ r.x \in InFlight(cache, gpu) /\ r.x \in Experts /\ r.buf \in Bufs
         /\ cache.entry[r.x].buf = r.buf /\ bytes[r.buf] = r.x
         /\ cache.entry[r.x].seq >= r.seq
<1>1. gpu \in GpuType /\ cache \in CacheType /\ ReadsOK /\ InOrder(gpu)
  BY DEF IInv, TypeOK, GpuOK
<1>2. r.seq \in Nat /\ r.x \in Experts /\ r.buf \in Bufs /\ gpu.done \in Nat
  BY <1>1, ReadType
<1>3. /\ cache.entry[r.x].buf = r.buf /\ bytes[r.buf] = r.x
      /\ cache.entry[r.x].seq >= r.seq
  BY <1>1 DEF ReadsOK
<1>4. gpu.done < r.seq
  BY <1>1 DEF InOrder
<1>5. cache.entry[r.x].seq \in Nat /\ r.x \in Valid(cache)
  BY <1>1, <1>2, <1>3, EntryType, BufsAreNotZero
<1>6. cache.entry[r.x].seq > gpu.done
  BY <1>2, <1>3, <1>4, <1>5
<1> QED BY <1>2, <1>3, <1>5, <1>6 DEF InFlight

(* What is left of the entries when those of X are gone.                    *)
LEMMA ShrunkValid ==
  ASSUME NEW c \in CacheType, NEW d, NEW X \in SUBSET Valid(c),
         d.entry = [z \in Experts |-> IF z \in X THEN Empty ELSE c.entry[z]]
  PROVE  /\ Valid(d) = Valid(c) \ X
         /\ \A z \in Experts : z \notin X => d.entry[z] = c.entry[z]
         /\ \A z \in Valid(c) \ X : d.entry[z] = c.entry[z] /\ z \in Experts
<1>1. \A z \in Experts : d.entry[z] = IF z \in X THEN Empty ELSE c.entry[z]
  OBVIOUS
<1>2. Empty.buf = 0
  BY DEF Empty
<1>3. \A z : z \in Valid(d) <=> z \in Experts /\ d.entry[z].buf # 0
  BY DEF Valid
<1>4. \A z : z \in Valid(c) <=> z \in Experts /\ c.entry[z].buf # 0
  BY DEF Valid
<1>5. Valid(d) = Valid(c) \ X
  BY <1>1, <1>2, <1>3, <1>4
<1> QED BY <1>1, <1>4, <1>5

(* A load has a buffer more: of the entries Y, of the free list or of its  *)
(* own.                                                                     *)
LEMMA BufferReserved ==
  ASSUME IInv, load.on, main.pc # "aborted", load.step \in {"reserve", "forced", "alone"},
         NEW x \in load.todo, NEW b \in Bufs, Reserved(x, b), NEW Y \in SUBSET Valid(cache),
         cache' \in CacheType,
         cache'.entry = [z \in Experts |-> IF z \in Y THEN Empty ELSE cache.entry[z]],
         Y \cap InFlight(cache, gpu) = {}, x \notin Valid(cache) \ Y,
         load.how = "early" => Y \cap main.sel = {},
         main.pc = "split_rest" => Y = {x},
         b \notin cache'.free, b \in Slots => b <= cache'.used,
         \A z \in Valid(cache) \ Y : cache.entry[z].buf # b,
         \A h \in load.held : h.buf # b,
         cache'.free \subseteq cache.free, cache.used <= cache'.used,
         cache'.locked \subseteq cache.locked \cup {b},
         cache.free \subseteq cache'.free \cup {b},
         \A z \in Y : cache.entry[z].buf = b,
         faults' \in 0..MaxFaults, UNCHANGED <<bytes, gpu, pending, main, dropped>>
  PROVE  /\ TypeOK' /\ GpuOK' /\ ReadsOK' /\ EntriesOK' /\ TakingOK' /\ FlowOK' /\ NothingLost'
         /\ Valid(cache)' = Valid(cache) \ Y
         /\ Taking' = load.held \cup {[x |-> x, buf |-> b]}
         /\ load'.held = load.held \cup {[x |-> x, buf |-> b]}
<1>1. /\ TypeOK /\ FlowOK /\ cache \in CacheType /\ load \in LoadType
      /\ EntriesIn(cache, bytes) /\ TakingOK
  BY DEF IInv, TypeOK, EntriesOK
<1>2. ~pending.on /\ pending.held = {} /\ Taking = load.held
  BY NonePending
<1>3. LoadOK /\ SplitOK /\ PendingOK
  BY <1>1 DEF FlowOK
<1> DEFINE k == [x |-> x, buf |-> b]
<1>4. k.x = x /\ k.buf = b
  OBVIOUS
<1>5. /\ Same(load, load') /\ load'.todo = load.todo \ {x} /\ load'.held = load.held \cup {k}
      /\ load'.step = (IF OneByOne \/ load.todo = {x} THEN "read" ELSE "reserve")
  BY <1>1, ReservedIs
<1>6. /\ load' \in LoadType /\ load'.on /\ load'.how = load.how /\ load'.keep = load.keep
      /\ load'.layer = load.layer
  BY <1>5 DEF Same
<1>7. /\ Valid(cache') = Valid(cache) \ Y
      /\ \A z \in Experts : z \notin Y => cache'.entry[z] = cache.entry[z]
      /\ \A z \in Valid(cache) \ Y : cache'.entry[z] = cache.entry[z] /\ z \in Experts
  BY <1>1, ShrunkValid
<1>8. \A z \in Valid(cache) \ Y : cache'.entry[z] = cache.entry[z] /\ z \in Experts
  BY <1>7
<1>9. Taking' = load.held \cup {k}
  BY <1>2, <1>5 DEF Taking
<1> HIDE DEF k
<1>10. TypeOK'
  BY <1>1, <1>6 DEF TypeOK
<1>11. GpuOK'
  BY DEF IInv, GpuOK
<1>12. ReadsOK'
  <2>1. main.pc # "ran"
    BY PlaceOfLoad
  <2>2. \A r \in gpu.reads : /\ cache'.entry[r.x] = cache.entry[r.x]
                             /\ cache.entry[r.x].buf = r.buf /\ bytes[r.buf] = r.x
                             /\ cache.entry[r.x].seq >= r.seq
    BY <2>1, ReadsAreInFlight
  <2> QED BY <2>2 DEF ReadsOK
<1>13. EntriesOK'
  <2> DEFINE V == Valid(cache) \ Y
  <2>1. \A z \in V : bytes[cache'.entry[z].buf] = z
    BY <1>1, <1>8 DEF EntriesIn
  <2>2. \A y, z \in V : cache'.entry[y].buf = cache'.entry[z].buf => y = z
    BY <1>1, <1>8 DEF EntriesIn
  <2>3. \A z \in V : cache.entry[z].buf \notin cache'.free
    BY <1>1, <1>8 DEF EntriesIn
  <2>4. cache.used \in Nat /\ cache'.used \in Nat
    BY <1>1 DEF CacheType
  <2>5. \A s \in Slots : s \in Int /\ (s <= cache.used => s <= cache'.used)
    BY <2>4, CountsAreNat DEF Slots
  <2>6. \A z \in V : cache.entry[z].buf \in Slots => cache.entry[z].buf <= cache'.used
    BY <1>1, <1>8, <2>5 DEF EntriesIn
  <2>7. \A s \in cache'.free : s <= cache'.used
    BY <1>1, <2>5 DEF EntriesIn, CacheType
  <2>8. \A z \in V : cache'.entry[z] = cache.entry[z]
    BY <1>8
  <2> HIDE DEF V
  <2>9. Valid(cache)' = V
    BY <1>7 DEF V
  <2>10. Valid(cache') = V
    BY <2>9 DEF Valid
  <2>11. EntriesIn(cache', bytes)
    BY <2>1, <2>2, <2>3, <2>6, <2>7, <2>8, <2>10 DEF EntriesIn
  <2> QED BY <2>11 DEF EntriesOK, EntriesIn, Valid
<1>14. TakingOK'
  <2>1. TakenFrom(cache, load.held) /\ Apart(load.held)
    BY <1>1, <1>2 DEF TakingOK
  <2>2. \A h \in load.held : h.buf \in Bufs /\ h.x \in Experts
    BY <1>1 DEF LoadType, Held
  <2>3. x \notin Names(load.held)
    BY <1>3 DEF LoadOK
  <2>4. Apart(load.held \cup {k})
    BY <2>1, <2>3, <1>4 DEF Apart, Names
  <2>5. Valid(cache') = Valid(cache) \ Y
    BY <1>7 DEF Valid
  <2>6. cache.used \in Nat /\ cache'.used \in Nat
    BY <1>1 DEF CacheType
  <2>7. \A s \in Slots : s <= cache.used => s <= cache'.used
    BY <2>6, CountsAreNat DEF Slots
  <2>8. TakenFrom(cache', load.held \cup {k})
    <3> SUFFICES ASSUME NEW h \in load.held \cup {k}
                 PROVE  /\ h.buf \notin cache'.free
                        /\ h.buf \in Slots => h.buf <= cache'.used
                        /\ \A z \in Valid(cache') : cache'.entry[z].buf # h.buf
      BY DEF TakenFrom
    <3>1. CASE h = k
      BY <3>1, <1>4, <1>8, <2>5
    <3>2. CASE h \in load.held
      BY <3>2, <2>1, <2>5, <2>7, <1>8 DEF TakenFrom
    <3> QED BY <3>1, <3>2
  <2>9. load'.step # "install"
    BY <1>5
  <2>10. pending.state = "good" => Hold(pending.held, bytes)
    BY <1>1 DEF TakingOK
  <2> QED BY <1>2, <1>6, <1>9, <2>4, <2>8, <2>9, <2>10 DEF TakingOK, Hold
<1>15. FlowOK'
  <2> DEFINE V == Valid(cache) \ Y
  <2>1. PendingOK'
    BY <1>2, <1>3 DEF PendingOK
  <2>2. Names(load'.held) = Names(load.held) \cup {x}
    BY <1>4, <1>5 DEF Names
  <2>3. LoadOK'
    <3>1. /\ load'.keep = main'.sel /\ load'.layer = main'.layer
          /\ load'.todo \subseteq load'.keep
          /\ load'.how = "missing" => main'.pc \in {"loaded", "split_rest", "seed"}
          /\ load'.how = "early" => main'.pc \in {"window", "join", "split"}
          /\ load'.how \in {"batch", "row"} => main'.pc \in {"prefill", "seed"}
      BY <1>3, <1>5, <1>6 DEF LoadOK, OneByOne
    <3>2. /\ Names(load'.held) \subseteq load'.keep
          /\ load'.todo \cap Names(load'.held) = {}
          /\ Names(load'.held) \cap V = {}
      <4>1. /\ load.todo \subseteq load.keep /\ Names(load.held) \subseteq load.keep
            /\ load.todo \cap Names(load.held) = {} /\ Names(load.held) \cap Valid(cache) = {}
        BY <1>3 DEF LoadOK
      <4>2. load'.todo = load.todo \ {x} /\ load'.keep = load.keep
        BY <1>5, <1>6
      <4> HIDE DEF Names
      <4> QED BY <4>1, <4>2, <2>2
    <3>3. load'.how = "early" => load'.todo \cup Names(load'.held) = main.sel \ V
      <4> SUFFICES ASSUME load.how = "early"
                   PROVE  load'.todo \cup Names(load'.held) = main.sel \ V
        BY <1>6
      <4>1. load.todo \cup Names(load.held) = main.sel \ Valid(cache)
        BY <1>3 DEF LoadOK, Beginning
      <4>2. main.sel \ V = main.sel \ Valid(cache)
        OBVIOUS
      <4> QED BY <4>1, <4>2, <1>5, <2>2
    <3>4. /\ load'.step \in {"read", "reserve"} /\ load'.held # {}
          /\ load'.step = "read" => load.how \in {"batch", "row"} \/ load'.todo = {}
          /\ load'.step = "reserve" => load.how \notin {"batch", "row"}
      BY <1>5 DEF OneByOne
    <3>5. /\ load'.step \notin Beginning /\ load'.step # "event"
          /\ load'.step \in Reading => load'.step = "read"
          /\ load'.step \notin Reading => load'.step = "reserve"
      BY <3>4 DEF Beginning, Reading
    <3> HIDE DEF V
    <3> QED BY <1>6, <1>7, <3>1, <3>2, <3>3, <3>4, <3>5 DEF LoadOK, OneByOne, V
  <2>4. SplitOK'
    <3>1. main.pc \notin {"rest", "layer", "selected", "encoded", "ran", "failed"}
      BY PlaceOfLoad
    <3>2. main.pc \in Choosing => main.sel \subseteq OfLayer(main.layer)
      BY <1>3 DEF SplitOK
    <3>3. main.pc = "split" => main.has \subseteq main.sel \cap V /\ main.has = main.sel \cap V
      <4> SUFFICES ASSUME main.pc = "split" PROVE main.has = main.sel \cap V
        OBVIOUS
      <4>1. main.has = main.sel \cap Valid(cache)
        BY <1>3 DEF SplitOK
      <4>2. Y \cap main.sel = {}
        BY PlaceOfLoad
      <4> QED BY <4>1, <4>2
    <3>4. main.pc = "split_rest" =>
            /\ main.cb = gpu.batch
            /\ \A z \in load'.todo : z \in V /\ cache'.entry[z].seq = 0
      <4> SUFFICES ASSUME main.pc = "split_rest"
                   PROVE  /\ main.cb = gpu.batch
                          /\ \A z \in load'.todo : z \in V /\ cache'.entry[z].seq = 0
        OBVIOUS
      <4>1. /\ main.cb = gpu.batch
            /\ \A z \in load.todo : z \in Valid(cache) /\ cache.entry[z].seq = 0
        BY <1>2, <1>3 DEF SplitOK
      <4> QED BY <4>1, <1>5, <1>8
    <3>5. load'.step \notin {"squeeze", "forced", "alone"}
      BY <1>5
    <3> HIDE DEF V
    <3> QED BY <1>6, <1>7, <3>1, <3>2, <3>3, <3>4, <3>5 DEF SplitOK, OfLayer, V, Choosing
  <2> QED BY <2>1, <2>3, <2>4 DEF FlowOK
<1>16. NothingLost'
  <2> SUFFICES ASSUME ~dropped, NEW s \in cache'.locked
               PROVE  s \in cache'.free \cup {cache'.entry[z].buf : z \in Experts}
                            \cup {h.buf : h \in load.held \cup {k}}
    BY <1>2, <1>5 DEF NothingLost
  <2>1. CASE s = b
    BY <2>1, <1>4
  <2>2. CASE s # b
    <3>1. s \in cache.locked
      BY <2>2
    <3>2. s \in cache.free \cup {cache.entry[z].buf : z \in Experts}
                \cup {h.buf : h \in load.held}
      BY <3>1, <1>2 DEF IInv, NothingLost
    <3>3. CASE s \in cache.free
      BY <3>3, <2>2
    <3>4. CASE s \in {cache.entry[z].buf : z \in Experts}
      <4>1. PICK z \in Experts : s = cache.entry[z].buf
        BY <3>4
      <4>2. z \notin Y
        BY <4>1, <2>2
      <4>3. cache'.entry[z] = cache.entry[z]
        BY <4>2
      <4> QED BY <4>1, <4>3
    <3>5. CASE s \in {h.buf : h \in load.held}
      BY <3>5
    <3> QED BY <3>2, <3>3, <3>4, <3>5
  <2> QED BY <2>1, <2>2
<1> QED BY <1>5, <1>7, <1>9, <1>10, <1>11, <1>12, <1>13, <1>14, <1>15, <1>16 DEF k

(* A buffer more, and still within the budget: what is reserved is counted, *)
(* and the slot is one of the budget's.                                     *)
LEMMA BudgetReserved ==
  ASSUME IInv, BudgetOK, load.on, main.pc # "aborted", load.step = "reserve",
         NEW x \in load.todo, NEW b \in Slots, Reserved(x, b), NEW Y \in SUBSET Valid(cache),
         cache' \in CacheType,
         cache'.entry = [z \in Experts |-> IF z \in Y THEN Empty ELSE cache.entry[z]],
         Taking' = load.held \cup {[x |-> x, buf |-> b]},
         \A h \in load.held : h.buf # b,
         cache'.used = cache.used \/ (b = cache.used + 1 /\ cache'.used = b),
         cache.free \subseteq cache'.free \cup {b},
         \A z \in Y : cache.entry[z].buf = b,
         cache'.cap = 0, UNCHANGED <<pending, main>>
  PROVE  BudgetOK'
<1>1. /\ TypeOK /\ cache \in CacheType /\ load \in LoadType /\ SlotsOK /\ LimitsOK
      /\ TakingOK
  BY DEF IInv, TypeOK, BudgetOK
<1>2. ~pending.on /\ pending.held = {} /\ Taking = load.held
  BY NonePending
<1> DEFINE k == [x |-> x, buf |-> b]
<1>3. k.x = x /\ k.buf = b
  OBVIOUS
<1>4. b \in Bufs
  BY BufsAreNotZero
<1>5. /\ Same(load, load') /\ load'.todo = load.todo \ {x} /\ load'.held = load.held \cup {k}
      /\ load'.step = (IF OneByOne \/ load.todo = {x} THEN "read" ELSE "reserve")
      /\ load'.reserved = (IF Forced THEN load.reserved ELSE load.reserved + 1)
      /\ load'.budget = load.budget
  BY <1>1, <1>4, ReservedIs
<1>6. /\ load' \in LoadType /\ load'.on /\ load'.how = load.how /\ load'.keep = load.keep
  BY <1>5 DEF Same
<1>7. /\ Valid(cache') = Valid(cache) \ Y
      /\ \A z \in Experts : z \notin Y => cache'.entry[z] = cache.entry[z]
      /\ \A z \in Valid(cache) \ Y : cache'.entry[z] = cache.entry[z] /\ z \in Experts
  BY <1>1, ShrunkValid
<1> HIDE DEF k
<1>8. SlotsOK'
  <2>1. \A z \in Valid(cache') : cache'.entry[z].buf \in Slots
    BY <1>1, <1>7 DEF SlotsOK
  <2>2. \A h \in Taking' : h.buf \in Slots
    BY <1>1, <1>2, <1>3 DEF SlotsOK
  <2>3. 1..cache'.used \subseteq cache'.free \cup {cache'.entry[z].buf : z \in Experts}
                                 \cup {h.buf : h \in load.held \cup {k}}
    <3> SUFFICES ASSUME NEW s \in 1..cache'.used, s # b
                 PROVE  \/ s \in cache'.free \/ \E z \in Experts : s = cache'.entry[z].buf
                        \/ \E h \in load.held \cup {k} : s = h.buf
      BY <1>3
    <3>1. cache.used \in Nat /\ cache'.used \in Nat
      BY <1>1 DEF CacheType
    <3>2. s \in 1..cache.used
      BY <3>1
    <3>3. s \in cache.free \cup {cache.entry[z].buf : z \in Experts}
                \cup {h.buf : h \in load.held}
      BY <3>2, <1>1, <1>2 DEF SlotsOK
    <3>4. CASE s \in cache.free
      BY <3>4
    <3>5. CASE s \in {cache.entry[z].buf : z \in Experts}
      BY <3>5, <1>7
    <3>6. CASE s \in {h.buf : h \in load.held}
      BY <3>6
    <3> QED BY <3>3, <3>4, <3>5, <3>6
  <2>4. {h.buf : h \in Taking'} = {h.buf : h \in load.held \cup {k}}
    BY DEF k
  <2> QED BY <2>1, <2>2, <2>3, <2>4 DEF SlotsOK
<1>9. LimitsOK'
  <2>1. load'.step \in {"read", "reserve"}
    BY <1>5
  <2>2. /\ pending.state # "bad"
        /\ main.pc \in Choosing \ {"prefill", "ran", "seed"} => Cardinality(main.sel) = NSel
        /\ load'.how # "row" => Cardinality(load'.keep) <= Budget
    BY <1>1, <1>6 DEF LimitsOK
  <2>3. load.how \notin {"batch", "row"} =>
          /\ load'.budget = Budget
          /\ \/ load'.reserved >= Budget
             \/ load'.reserved >= Cardinality(Valid(cache')) + Cardinality(load'.held)
    <3> SUFFICES ASSUME load.how \notin {"batch", "row"}
                 PROVE  /\ load'.budget = Budget
                        /\ \/ load'.reserved >= Budget
                           \/ load'.reserved >= Cardinality(Valid(cache'))
                                                + Cardinality(load'.held)
      OBVIOUS
    <3> DEFINE m == Cardinality(Valid(cache))
               n == Cardinality(load.held)
               m2 == Cardinality(Valid(cache'))
               n2 == Cardinality(load'.held)
    <3>1. /\ load.budget = Budget
          /\ load.reserved >= Budget \/ load.reserved >= m + n
      BY <1>1 DEF LimitsOK, OneByOne, Beginning, Count
    <3>2. m2 \in Nat /\ m \in Nat /\ m2 <= m
      <4>1. Valid(cache') \in SUBSET Valid(cache) /\ IsFiniteSet(Valid(cache))
        BY <1>7, ValidIsFinite
      <4> HIDE DEF m, m2
      <4> QED BY <4>1, FS_Subset, ValidIsFinite DEF m, m2
    <3>3. n \in Nat /\ n2 = n + 1
      <4>1. load.held \in SUBSET Held /\ Apart(load.held)
        BY <1>1, <1>2 DEF LoadType, TakingOK
      <4>2. IsFiniteSet(load.held) /\ n \in Nat
        BY <4>1, HeldCounts
      <4>3. k \notin load.held
        BY <1>3
      <4>4. Cardinality(load.held \cup {k}) = Cardinality(load.held) + 1
        BY <4>2, <4>3, FS_AddElement
      <4> QED BY <4>2, <4>4, <1>5
    <3>4. load.reserved \in Nat
      BY <1>1 DEF LoadType
    <3>5. Forced => load.reserved >= Budget
      BY <3>1 DEF Forced, OneByOne
    <3> HIDE DEF m, n, m2, n2
    <3>6. load'.reserved >= Budget \/ load'.reserved >= m2 + n2
      BY <1>5, <3>1, <3>2, <3>3, <3>4, <3>5, CountsAreNat
    <3> QED BY <3>1, <3>6, <1>5 DEF m2, n2
  <2>4. Count' = Cardinality(Valid(cache'))
    BY DEF Count
  <2> QED BY <1>6, <2>1, <2>2, <2>3, <2>4 DEF LimitsOK, OneByOne
<1> QED BY <1>8, <1>9 DEF BudgetOK

(* The buffer of an entry nothing reads goes to the load.                   *)
LEMMA EntryReserved ==
  ASSUME IInv, load.on, main.pc # "aborted", load.step \in {"reserve", "forced"},
         NEW x \in load.todo, NEW y \in Valid(cache) \ InFlight(cache, gpu),
         x \notin Valid(cache) \ {y}, load.how = "early" => y \notin main.sel,
         main.pc = "split_rest" => y = x,
         cache' = Taken(cache, y), Reserved(x, cache.entry[y].buf),
         UNCHANGED <<bytes, gpu, pending, main, faults, dropped>>
  PROVE  IInv'
<1> DEFINE b == cache.entry[y].buf
           Y == {y}
<1>1. /\ cache \in CacheType /\ load \in LoadType /\ EntriesIn(cache, bytes) /\ TakingOK
      /\ faults \in 0..MaxFaults
  BY DEF IInv, TypeOK, EntriesOK
<1>2. pending.held = {} /\ Taking = load.held
  BY NonePending
<1>3. /\ cache' \in CacheType
      /\ cache'.entry = [z \in Experts |-> IF z \in Y THEN Empty ELSE cache.entry[z]]
      /\ cache'.free = cache.free /\ cache'.locked = cache.locked /\ cache'.cap = cache.cap
      /\ cache'.used = cache.used
  BY <1>1, TakenIs DEF Shrunk
<1>4. b \in Bufs
  BY <1>1, EntryType DEF Valid
<1>5. /\ b \notin cache.free /\ (b \in Slots => b <= cache.used)
      /\ \A z \in Valid(cache) \ Y : cache.entry[z].buf # b
  BY <1>1 DEF EntriesIn
<1>6. \A h \in load.held : h.buf # b
  BY <1>1, <1>2 DEF TakingOK, TakenFrom
<1>7. Y \in SUBSET Valid(cache) /\ Y \cap InFlight(cache, gpu) = {} /\ x \notin Valid(cache) \ Y
  OBVIOUS
<1>8. \A z \in Y : cache.entry[z].buf = b
  OBVIOUS
<1>9. cache.used <= cache'.used
  BY <1>1, <1>3 DEF CacheType
<1>10. Reserved(x, b)
  OBVIOUS
<1>11. load.how = "early" => Y \cap main.sel = {}
  OBVIOUS
<1>12. main.pc = "split_rest" => Y = {x}
  OBVIOUS
<1> HIDE DEF b, Y
<1>13. /\ TypeOK' /\ GpuOK' /\ ReadsOK' /\ EntriesOK' /\ TakingOK' /\ FlowOK' /\ NothingLost'
       /\ Taking' = load.held \cup {[x |-> x, buf |-> b]}
  <2>1. load.step \in {"reserve", "forced", "alone"} /\ faults' \in 0..MaxFaults
    BY <1>1
  <2>2. /\ b \notin cache'.free /\ (b \in Slots => b <= cache'.used)
        /\ cache'.free \subseteq cache.free /\ cache.free \subseteq cache'.free \cup {b}
        /\ cache'.locked \subseteq cache.locked \cup {b}
    BY <1>3, <1>5
  <2> QED BY <2>1, <2>2, <1>3, <1>4, <1>5, <1>6, <1>7, <1>8, <1>9, <1>10, <1>11, <1>12,
             BufferReserved
<1>14. Roomy' => BudgetOK'
  <2> SUFFICES ASSUME Roomy' PROVE BudgetOK'
    OBVIOUS
  <2>1. BudgetOK
    BY DEF IInv, Roomy
  <2>2. SlotsOK /\ load.step = "reserve"
    BY <2>1 DEF BudgetOK, LimitsOK
  <2>3. cache'.cap = 0 /\ b \in Slots
    BY <2>2, <1>3 DEF SlotsOK, b
  <2>4. /\ cache'.used = cache.used /\ cache.free \subseteq cache'.free \cup {b}
        /\ UNCHANGED <<pending, main>>
    BY <1>3
  <2> QED BY <2>1, <2>2, <2>3, <2>4, <1>3, <1>6, <1>7, <1>8, <1>10, <1>13, BudgetReserved
<1> QED BY <1>13, <1>14 DEF IInv

(* An expert's own old buffer.                                              *)
LEMMA ReserveOwnKeeps ==
  ASSUME IInv, NEW x \in Experts, ReserveOwn(x)
  PROVE  IInv'
<1>1. /\ load.on /\ main.pc # "aborted" /\ load.step = "reserve" /\ ~OneByOne
      /\ x \in load.todo /\ x \in Valid(cache) \ InFlight(cache, gpu)
      /\ cache' = Taken(cache, x) /\ Reserved(x, cache.entry[x].buf)
      /\ UNCHANGED <<bytes, gpu, pending, main, faults, dropped>>
  BY DEF ReserveOwn, Loading
<1>2. load.how # "early"
  BY <1>1 DEF IInv, FlowOK, LoadOK, Beginning
<1> QED BY <1>1, <1>2, EntryReserved

(* The buffer of another entry, that the load does not keep.                *)
LEMMA ReserveVictimKeeps ==
  ASSUME IInv, NEW x \in Experts, NEW y \in Experts, ReserveVictim(x, y)
  PROVE  IInv'
<1>1. /\ load.on /\ main.pc # "aborted" /\ load.step \in {"reserve", "forced"}
      /\ x \in load.todo /\ x \notin Valid(cache) /\ y \in SpareNow
      /\ cache' = Taken(cache, y) /\ Reserved(x, cache.entry[y].buf)
      /\ UNCHANGED <<bytes, gpu, pending, main, faults, dropped>>
  BY DEF ReserveVictim, Loading
<1>2. /\ y \in Valid(cache) \ InFlight(cache, gpu)
      /\ y \notin Kept(load.layer, Keep)
  BY <1>1 DEF SpareNow, Spare
<1>3. load.how = "early" => y \notin main.sel
  <2>1. Kept(load.layer, load.keep) = load.keep /\ load.keep = main.sel
    BY <1>1, PlaceOfLoad
  <2> QED BY <2>1, <1>2 DEF Keep
<1>4. main.pc # "split_rest"
  <2>1. ~pending.on
    BY <1>1, NonePending
  <2>2. SplitOK
    BY <1>1 DEF IInv, FlowOK
  <2> QED BY <2>1, <2>2, <1>1 DEF SplitOK
<1> QED BY <1>1, <1>2, <1>3, <1>4, EntryReserved

(* A buffer nobody owns goes to the load, no entry does.                    *)
LEMMA FreshReserved ==
  ASSUME IInv, load.on, main.pc # "aborted", load.step \in {"reserve", "alone"},
         NEW x \in load.todo, x \notin Valid(cache), NEW b \in Bufs, Reserved(x, b),
         cache' \in CacheType, cache'.entry = cache.entry,
         b \notin cache'.free, b \in Slots => b <= cache'.used,
         \A z \in Valid(cache) : cache.entry[z].buf # b,
         \A h \in load.held : h.buf # b,
         cache'.free \subseteq cache.free, cache.used <= cache'.used,
         cache'.locked \subseteq cache.locked \cup {b},
         cache.free \subseteq cache'.free \cup {b},
         faults' \in 0..MaxFaults, UNCHANGED <<bytes, gpu, pending, main, dropped>>
  PROVE  /\ TypeOK' /\ GpuOK' /\ ReadsOK' /\ EntriesOK' /\ TakingOK' /\ FlowOK' /\ NothingLost'
         /\ cache'.entry = [z \in Experts |-> IF z \in {} THEN Empty ELSE cache.entry[z]]
         /\ Taking' = load.held \cup {[x |-> x, buf |-> b]}
<1>1. cache'.entry = [z \in Experts |-> IF z \in {} THEN Empty ELSE cache.entry[z]]
  BY DEF IInv, TypeOK, CacheType
<1>2. main.pc # "split_rest"
  <2>1. ~pending.on
    BY NonePending
  <2>2. SplitOK
    BY DEF IInv, FlowOK
  <2> QED BY <2>1, <2>2 DEF SplitOK
<1> DEFINE Y == {}
<1>3. /\ Y \in SUBSET Valid(cache) /\ Y \cap InFlight(cache, gpu) = {} /\ Y \cap main.sel = {}
      /\ x \notin Valid(cache) \ Y /\ \A z \in Y : cache.entry[z].buf = b
      /\ \A z \in Valid(cache) \ Y : cache.entry[z].buf # b
  OBVIOUS
<1>4. cache'.entry = [z \in Experts |-> IF z \in Y THEN Empty ELSE cache.entry[z]]
  BY <1>1
<1> HIDE DEF Y
<1>5. /\ TypeOK' /\ GpuOK' /\ ReadsOK' /\ EntriesOK' /\ TakingOK' /\ FlowOK' /\ NothingLost'
      /\ Taking' = load.held \cup {[x |-> x, buf |-> b]}
  BY <1>2, <1>3, <1>4, BufferReserved
<1> QED BY <1>1, <1>5

(* A slot at hand is nobody's.                                              *)
LEMMA SlotIsFree ==
  ASSUME IInv, NEW s \in SlotsAtHand
  PROVE  /\ \A z \in Valid(cache) : cache.entry[z].buf # s
         /\ \A h \in Taking : h.buf # s
<1>1. /\ TypeOK /\ EntriesOK /\ EntriesIn(cache, bytes) /\ TakenFrom(cache, Taking)
      /\ cache.used \in 0..Budget
  BY DEF IInv, EntriesOK, TakingOK, TypeOK, CacheType
<1>2. s \in Slots /\ (s \in cache.free \/ s = cache.used + 1)
  BY <1>1, TookSlotIs
<1>3. ~(s <= cache.used) \/ s \in cache.free
  BY <1>1, <1>2, CountsAreNat DEF Slots
<1> QED BY <1>1, <1>2, <1>3 DEF EntriesIn, TakenFrom

(* A slot of the slabs, locked in memory.                                   *)
LEMMA ReserveSlotKeeps ==
  ASSUME IInv, NEW x \in Experts, NEW s \in Slots, ReserveSlot(x, s)
  PROVE  IInv'
<1> DEFINE c == TookSlot(s)
           L == c.locked \cup {s}
<1>1. /\ load.on /\ main.pc # "aborted" /\ load.step = "reserve"
      /\ x \in load.todo /\ x \notin Valid(cache) /\ s \in SlotsAtHand /\ cache.cap = 0
      /\ Reserved(x, s)
      /\ UNCHANGED <<bytes, gpu, pending, main, faults, dropped>>
  BY DEF ReserveSlot, WantsSlot, Loading
<1>2. TypeOK /\ EntriesOK /\ cache \in CacheType /\ faults \in 0..MaxFaults
  BY DEF IInv, TypeOK
<1>3. /\ c \in CacheType /\ c.entry = cache.entry /\ c.locked = cache.locked
      /\ c.cap = cache.cap /\ c.free = cache.free \ {s}
      /\ s <= c.used /\ cache.used <= c.used
      /\ c.used = cache.used \/ (s = cache.used + 1 /\ c.used = s)
  BY <1>1, <1>2, TookSlotIs
<1>4. cache' = [c EXCEPT !.locked = L]
  BY <1>3 DEF ReserveSlot, CacheType
<1>5. L \in SUBSET Slots
  BY <1>3 DEF CacheType
<1> HIDE DEF c, L
<1>6. /\ cache' \in CacheType /\ cache'.entry = c.entry /\ cache'.free = c.free
      /\ cache'.used = c.used /\ cache'.locked = L /\ cache'.cap = c.cap
  BY <1>3, <1>4, <1>5 DEF CacheType
<1>7. /\ \A z \in Valid(cache) : cache.entry[z].buf # s
      /\ \A h \in load.held : h.buf # s
  BY <1>1, SlotIsFree DEF Taking
<1>8. s \in Bufs
  BY BufsAreNotZero
<1>9. /\ s \notin cache'.free /\ (s \in Slots => s <= cache'.used)
      /\ cache'.free \subseteq cache.free /\ cache.used <= cache'.used
      /\ cache'.locked \subseteq cache.locked \cup {s}
      /\ cache.free \subseteq cache'.free \cup {s} /\ cache'.entry = cache.entry
      /\ cache'.cap = 0
      /\ cache'.used = cache.used \/ (s = cache.used + 1 /\ cache'.used = s)
  BY <1>1, <1>3, <1>6 DEF L
<1>10. load.step \in {"reserve", "alone"} /\ faults' \in 0..MaxFaults
  BY <1>1, <1>2
<1>11. /\ TypeOK' /\ GpuOK' /\ ReadsOK' /\ EntriesOK' /\ TakingOK' /\ FlowOK' /\ NothingLost'
       /\ cache'.entry = [z \in Experts |-> IF z \in {} THEN Empty ELSE cache.entry[z]]
       /\ Taking' = load.held \cup {[x |-> x, buf |-> s]}
  BY <1>1, <1>6, <1>7, <1>8, <1>9, <1>10, FreshReserved
<1>12. Roomy' => BudgetOK'
  <2> SUFFICES ASSUME Roomy' PROVE BudgetOK'
    OBVIOUS
  <2>1. BudgetOK
    BY <1>1 DEF IInv, Roomy
  <2> DEFINE Y == {}
  <2>2. Y \in SUBSET Valid(cache) /\ \A z \in Y : cache.entry[z].buf = s
    OBVIOUS
  <2>3. cache'.entry = [z \in Experts |-> IF z \in Y THEN Empty ELSE cache.entry[z]]
    BY <1>11
  <2> HIDE DEF Y
  <2> QED BY <2>1, <2>2, <2>3, <1>1, <1>6, <1>7, <1>9, <1>11, BudgetReserved
<1> QED BY <1>11, <1>12 DEF IInv

(* A buffer of its own: nobody uses it.  Without a fault none is needed.    *)
LEMMA ReserveAloneKeeps ==
  ASSUME IInv, NEW x \in Experts, ReserveAlone(x)
  PROVE  IInv'
<1> DEFINE b == CHOOSE b \in Alone \ InUse : TRUE
<1>1. /\ load.on /\ main.pc # "aborted" /\ load.step \in {"reserve", "alone"}
      /\ x \in load.todo /\ x \notin Valid(cache)
  BY DEF ReserveAlone, WantsAlone, WantsSlot, Loading
<1>2. b \in Alone \ InUse /\ Reserved(x, b)
  BY DEF ReserveAlone
<1>3. /\ UNCHANGED <<bytes, gpu, pending, main, dropped>>
      /\ \/ UNCHANGED <<cache, faults>>
         \/ /\ faults < MaxFaults /\ faults' = faults + 1
            /\ \E k \in Caps(cache) : cache' = [cache EXCEPT !.cap = k]
  BY DEF ReserveAlone
<1> HIDE DEF b
<1>4. /\ TypeOK /\ cache \in CacheType /\ faults \in 0..MaxFaults /\ MaxFaults \in Nat
  BY CountsAreNat DEF IInv, TypeOK
<1>5. /\ cache' \in CacheType /\ cache'.entry = cache.entry /\ cache'.free = cache.free
      /\ cache'.used = cache.used /\ cache'.locked = cache.locked
      /\ faults' \in 0..MaxFaults
  <2>1. CASE UNCHANGED <<cache, faults>>
    BY <2>1, <1>4
  <2>2. CASE faults < MaxFaults /\ faults' = faults + 1
             /\ \E k \in Caps(cache) : cache' = [cache EXCEPT !.cap = k]
    <3>1. PICK k \in Caps(cache) : cache' = [cache EXCEPT !.cap = k]
      BY <2>2
    <3>2. k \in Nat
      BY <1>4, CapsType
    <3> QED BY <3>1, <3>2, <2>2, <1>4 DEF CacheType
  <2> QED BY <2>1, <2>2, <1>3
<1>6. b \in Bufs /\ b \notin Slots
  BY <1>2, BufsAreNotZero
<1>7. /\ \A z \in Valid(cache) : cache.entry[z].buf # b
      /\ \A h \in load.held : h.buf # b
  BY <1>2 DEF InUse, Valid
<1>8. cache.free \subseteq Slots /\ cache.used \in Nat
  BY <1>4, CountsAreNat DEF CacheType
<1>9. /\ b \notin cache'.free /\ (b \in Slots => b <= cache'.used)
      /\ cache'.free \subseteq cache.free /\ cache.used <= cache'.used
      /\ cache'.locked \subseteq cache.locked \cup {b}
      /\ cache.free \subseteq cache'.free \cup {b}
  BY <1>5, <1>6, <1>8
<1>10. /\ TypeOK' /\ GpuOK' /\ ReadsOK' /\ EntriesOK' /\ TakingOK' /\ FlowOK' /\ NothingLost'
  BY <1>1, <1>2, <1>3, <1>5, <1>6, <1>7, <1>9, FreshReserved
<1>11. ~Roomy
  <2>1. WantsAlone(x)
    BY DEF ReserveAlone
  <2> QED BY <2>1, <1>1, NeverAlone
<1>12. ~Roomy'
  BY <1>3, <1>4, <1>11 DEF Roomy
<1> QED BY <1>10, <1>12 DEF IInv

-----------------------------------------------------------------------------
(* Entries that go *)

(* What is left when entries are gone, their slots in the free list or not. *)
LEMMA ShrunkEntries ==
  ASSUME NEW c \in CacheType, NEW d \in CacheType, NEW X \in SUBSET Valid(c),
         d.entry = [z \in Experts |-> IF z \in X THEN Empty ELSE c.entry[z]],
         d.free \subseteq c.free \cup {c.entry[z].buf : z \in X}, c.used <= d.used,
         NEW b, EntriesIn(c, b)
  PROVE  /\ EntriesIn(d, b)
         /\ \A held : TakenFrom(c, held) => TakenFrom(d, held)
<1>1. /\ Valid(d) = Valid(c) \ X
      /\ \A z \in Valid(d) : d.entry[z] = c.entry[z] /\ z \in Valid(c)
  BY ShrunkValid
<1>2. c.used \in Nat /\ d.used \in Nat /\ d.free \subseteq Slots
  BY CountsAreNat DEF CacheType
<1>3. \A s \in Slots : s <= c.used => s <= d.used
  BY <1>2, CountsAreNat DEF Slots
<1>4. /\ \A x \in Valid(c) : b[c.entry[x].buf] = x
      /\ \A x, y \in Valid(c) : c.entry[x].buf = c.entry[y].buf => x = y
      /\ \A x \in Valid(c) : /\ c.entry[x].buf \notin c.free
                             /\ c.entry[x].buf \in Slots => c.entry[x].buf <= c.used
      /\ \A s \in c.free : s <= c.used
  BY DEF EntriesIn
<1>5. \A z \in Valid(d) : d.entry[z].buf \notin d.free
  BY <1>1, <1>4
<1>6. \A s \in d.free : s <= d.used
  BY <1>2, <1>3, <1>4
<1>7. EntriesIn(d, b)
  BY <1>1, <1>3, <1>4, <1>5, <1>6 DEF EntriesIn
<1>8. ASSUME NEW held, TakenFrom(c, held)
      PROVE  TakenFrom(d, held)
  <2>1. \A h \in held : /\ h.buf \notin c.free
                        /\ h.buf \in Slots => h.buf <= c.used
                        /\ \A x \in Valid(c) : c.entry[x].buf # h.buf
    BY <1>8 DEF TakenFrom
  <2>2. \A h \in held : h.buf \notin d.free
    BY <2>1
  <2> QED BY <2>1, <2>2, <1>1, <1>3 DEF TakenFrom
<1> QED BY <1>7, <1>8

(* What the GPU still has to read stays where it is when the entries that  *)
(* go are not in flight.                                                    *)
LEMMA ShrunkReads ==
  ASSUME IInv, main.pc # "ran", NEW X \in SUBSET Valid(cache), X \cap InFlight(cache, gpu) = {},
         cache'.entry = [z \in Experts |-> IF z \in X THEN Empty ELSE cache.entry[z]],
         gpu'.reads \subseteq gpu.reads, UNCHANGED bytes
  PROVE  ReadsOK'
<1>1. \A r \in gpu.reads : /\ cache'.entry[r.x] = cache.entry[r.x]
                           /\ cache.entry[r.x].buf = r.buf /\ bytes[r.buf] = r.x
                           /\ cache.entry[r.x].seq >= r.seq
  BY ReadsAreInFlight
<1> QED BY <1>1 DEF ReadsOK

(* A lock failed or a margin is given back: the load has to take a victim  *)
(* or a buffer of its own.                                                  *)
LEMMA CacheSqueezed ==
  ASSUME IInv, load.on, main.pc # "aborted", load.step \in {"reserve", "squeeze"},
         main.pc # "split_rest", NEW t \in {"squeeze", "forced", "alone"},
         load' = [load EXCEPT !.step = t],
         NEW X \in SUBSET Valid(cache), X \cap InFlight(cache, gpu) = {},
         load.how = "early" => X \cap main.sel = {},
         cache' \in CacheType,
         cache'.entry = [z \in Experts |-> IF z \in X THEN Empty ELSE cache.entry[z]],
         cache'.free \subseteq cache.free, cache.used <= cache'.used,
         cache'.locked \subseteq cache.locked,
         \A s \in cache'.locked : /\ s \in cache.free => s \in cache'.free
                                  /\ \A z \in X : cache.entry[z].buf # s,
         faults' \in 0..MaxFaults, ~Roomy', UNCHANGED <<bytes, gpu, pending, main, dropped>>
  PROVE  IInv'
<1>1. /\ TypeOK /\ FlowOK /\ cache \in CacheType /\ load \in LoadType /\ EntriesOK
      /\ EntriesIn(cache, bytes) /\ TakingOK
  BY DEF IInv, TypeOK, EntriesOK
<1>2. ~pending.on /\ pending.held = {} /\ Taking = load.held
  BY NonePending
<1>3. LoadOK /\ SplitOK /\ PendingOK
  BY <1>1 DEF FlowOK
<1>4. /\ Same(load, load') /\ load'.step = t /\ load'.todo = load.todo
      /\ load'.held = load.held
  <2> DEFINE m == [load EXCEPT !.step = t]
  <2>1. t \in Steps
    BY DEF Steps
  <2>2. Same(load, m) /\ m.step = t /\ m.todo = load.todo /\ m.held = load.held
    BY <1>1, <2>1, StepIs
  <2>3. load' = m
    OBVIOUS
  <2> HIDE DEF m
  <2> QED BY <2>2, <2>3
<1>5. /\ load' \in LoadType /\ load'.on /\ load'.how = load.how /\ load'.keep = load.keep
      /\ load'.layer = load.layer
  BY <1>4 DEF Same
<1>6. /\ Valid(cache') = Valid(cache) \ X
      /\ \A z \in Experts : z \notin X => cache'.entry[z] = cache.entry[z]
  BY <1>1, ShrunkValid
<1>7. Taking' = Taking
  BY <1>4 DEF Taking
<1>8. TypeOK' /\ GpuOK'
  BY <1>1, <1>5 DEF IInv, TypeOK, GpuOK
<1>9. ReadsOK'
  BY PlaceOfLoad, ShrunkReads
<1>10. EntriesIn(cache', bytes) /\ TakenFrom(cache', Taking)
  <2>1. cache'.free \subseteq cache.free \cup {cache.entry[z].buf : z \in X}
    OBVIOUS
  <2>2. TakenFrom(cache, Taking)
    BY <1>1 DEF TakingOK
  <2> QED BY <1>1, <2>1, <2>2, ShrunkEntries
<1>11. EntriesOK'
  BY <1>10 DEF EntriesOK
<1>12. TakingOK'
  BY <1>1, <1>4, <1>5, <1>7, <1>10 DEF TakingOK
<1>13. FlowOK'
  <2>1. PendingOK'
    BY <1>2, <1>3 DEF PendingOK
  <2>2. LoadOK'
    <3>1. t \notin Beginning /\ t \notin Reading /\ t # "event"
      BY DEF Beginning, Reading
    <3>2. load.step \notin Beginning /\ load.step \notin Reading
      BY DEF Beginning, Reading
    <3>3. load.how = "early" => main.sel \ Valid(cache') = main.sel \ Valid(cache)
      BY <1>6
    <3>4. Names(load.held) \cap Valid(cache') = {}
      BY <1>3, <1>6 DEF LoadOK
    <3> HIDE DEF Names
    <3> QED BY <1>3, <1>4, <1>5, <3>1, <3>2, <3>3, <3>4 DEF LoadOK, OneByOne
  <2>3. SplitOK'
    <3>1. main.pc \notin {"rest", "layer", "selected", "encoded", "ran", "failed"}
      BY PlaceOfLoad
    <3>2. main.pc \in Choosing => main.sel \subseteq OfLayer(main.layer)
      BY <1>3 DEF SplitOK
    <3>3. main.pc = "split" => main.has = main.sel \cap Valid(cache')
      <4> SUFFICES ASSUME main.pc = "split" PROVE main.has = main.sel \cap Valid(cache')
        OBVIOUS
      <4>1. main.has = main.sel \cap Valid(cache)
        BY <1>3 DEF SplitOK
      <4>2. X \cap main.sel = {}
        BY PlaceOfLoad
      <4> QED BY <4>1, <4>2, <1>6
    <3> QED BY <1>5, <3>1, <3>2, <3>3 DEF SplitOK, OfLayer, Choosing
  <2> QED BY <2>1, <2>2, <2>3 DEF FlowOK
<1>14. NothingLost'
  <2> SUFFICES ASSUME ~dropped, NEW s \in cache'.locked
               PROVE  \/ s \in cache'.free \/ \E z \in Experts : s = cache'.entry[z].buf
                      \/ \E h \in Taking : s = h.buf
    BY <1>7 DEF NothingLost, Taking
  <2>1. s \in cache.locked
    OBVIOUS
  <2>2. \/ s \in cache.free \/ \E z \in Experts : s = cache.entry[z].buf
        \/ \E h \in Taking : s = h.buf
    BY <2>1 DEF IInv, NothingLost, Taking
  <2>3. CASE \E z \in Experts : s = cache.entry[z].buf
    BY <2>3, <1>6
  <2> QED BY <2>2, <2>3
<1> QED BY <1>8, <1>9, <1>11, <1>12, <1>13, <1>14 DEF IInv

(* Where a load finds an expert without an entry, the rest of a split layer *)
(* is not what it loads.                                                    *)
LEMMA NotSplitRest ==
  ASSUME IInv, load.on, main.pc # "aborted", load.step # "clear",
         load.todo \ Valid(cache) # {} \/ load.step = "squeeze"
  PROVE  main.pc # "split_rest"
<1>1. ~pending.on
  BY NonePending
<1>2. SplitOK
  BY DEF IInv, FlowOK
<1> QED BY <1>1, <1>2 DEF SplitOK

(* A slot that cannot be locked is not used again.                          *)
LEMMA LockFailsKeeps ==
  ASSUME IInv, NEW x \in Experts, NEW s \in Slots, LockFails(x, s)
  PROVE  IInv'
<1> DEFINE c == TookSlot(s)
<1>1. /\ load.on /\ main.pc # "aborted" /\ load.step = "reserve"
      /\ x \in load.todo /\ x \notin Valid(cache) /\ s \in SlotsAtHand
      /\ s \notin cache.locked
      /\ faults < MaxFaults /\ faults' = faults + 1
      /\ UNCHANGED <<bytes, gpu, pending, main, dropped>>
  BY DEF LockFails, WantsSlot, Loading
<1>2. /\ TypeOK /\ EntriesOK /\ cache \in CacheType /\ faults \in 0..MaxFaults
      /\ MaxFaults \in Nat
  BY CountsAreNat DEF IInv, TypeOK
<1>3. /\ c \in CacheType /\ c.entry = cache.entry /\ c.locked = cache.locked
      /\ c.free = cache.free \ {s} /\ cache.used <= c.used
  BY <1>1, <1>2, TookSlotIs
<1>4. PICK k \in Caps(cache) : cache' = [c EXCEPT !.cap = k]
  BY DEF LockFails
<1>5. k \in Nat
  BY <1>2, CapsType
<1> HIDE DEF c
<1>6. /\ cache' \in CacheType /\ cache'.entry = cache.entry /\ cache'.free = cache.free \ {s}
      /\ cache.used <= cache'.used /\ cache'.locked = cache.locked
  BY <1>3, <1>4, <1>5 DEF CacheType
<1> DEFINE t == IF cache'.cap # 0 THEN "squeeze" ELSE "alone"
           X == {}
<1>7. t \in {"squeeze", "forced", "alone"} /\ load' = [load EXCEPT !.step = t]
  BY DEF LockFails
<1>8. /\ X \in SUBSET Valid(cache) /\ X \cap InFlight(cache, gpu) = {} /\ X \cap main.sel = {}
      /\ \A z \in X, q \in cache'.locked : cache.entry[z].buf # q
  OBVIOUS
<1>9. cache'.entry = [z \in Experts |-> IF z \in X THEN Empty ELSE cache.entry[z]]
  BY <1>2, <1>6 DEF CacheType
<1> HIDE DEF t, X
<1>10. main.pc # "split_rest"
  BY <1>1, NotSplitRest
<1>11. faults' \in 0..MaxFaults /\ ~Roomy'
  BY <1>1, <1>2 DEF Roomy
<1>12. \A q \in cache'.locked : /\ q \in cache.free => q \in cache'.free
                                /\ \A z \in X : cache.entry[z].buf # q
  BY <1>1, <1>6, <1>8
<1>13. /\ load.step \in {"reserve", "squeeze"} /\ cache'.free \subseteq cache.free
       /\ cache'.locked \subseteq cache.locked
  BY <1>1, <1>6
<1> QED BY <1>1, <1>6, <1>7, <1>8, <1>9, <1>10, <1>11, <1>12, <1>13, CacheSqueezed

(* The margin is given back: entries nothing reads go with their slots.     *)
LEMMA SqueezeKeeps ==
  ASSUME IInv, Squeeze
  PROVE  IInv'
<1>1. /\ load.on /\ main.pc # "aborted" /\ load.step \in {"reserve", "squeeze"}
      /\ cache' \in Relieved(cache, gpu, load.layer, Keep)
      /\ load' = [load EXCEPT !.step = "forced"]
      /\ UNCHANGED <<bytes, gpu, pending, main, faults, dropped>>
      /\ load.step = "squeeze" \/ (cache.cap # 0 /\ load.todo \ Valid(cache) # {})
  BY DEF Squeeze, Loading
<1>2. cache \in CacheType /\ faults \in 0..MaxFaults
  BY DEF IInv, TypeOK
<1>3. PICK X \in SUBSET Spare(cache, gpu, load.layer, Keep) :
        /\ Shrunk(cache, cache', X) /\ cache'.free = cache.free
        /\ cache'.locked = cache.locked \ {cache.entry[x].buf : x \in X}
  BY <1>1, <1>2, RelievedIs
<1>4. /\ cache' \in CacheType /\ X \in SUBSET Valid(cache)
      /\ cache'.entry = [z \in Experts |-> IF z \in X THEN Empty ELSE cache.entry[z]]
      /\ cache'.used = cache.used
  BY <1>3 DEF Shrunk
<1>5. X \cap InFlight(cache, gpu) = {}
  BY DEF Spare
<1>6. load.how = "early" => X \cap main.sel = {}
  <2>1. Kept(load.layer, load.keep) = load.keep /\ load.keep = main.sel
    BY <1>1, PlaceOfLoad
  <2> QED BY <2>1 DEF Keep, Spare
<1>7. main.pc # "split_rest"
  BY <1>1, NotSplitRest
<1>8. ~Roomy'
  BY <1>1 DEF IInv, Roomy, BudgetOK, SlotsOK, LimitsOK
<1>9. cache.used <= cache'.used
  BY <1>2, <1>4 DEF CacheType
<1>10. \A s \in cache'.locked : /\ s \in cache.free => s \in cache'.free
                                /\ \A z \in X : cache.entry[z].buf # s
  BY <1>3
<1>11. /\ cache'.free \subseteq cache.free /\ cache'.locked \subseteq cache.locked
       /\ "forced" \in {"squeeze", "forced", "alone"} /\ faults' \in 0..MaxFaults
  BY <1>1, <1>2, <1>3
<1> QED BY <1>1, <1>4, <1>5, <1>6, <1>7, <1>8, <1>9, <1>10, <1>11, CacheSqueezed

-----------------------------------------------------------------------------
(* Reads into the buffers of a load *)

(* The bytes of the buffers of loads change, nobody else's.                 *)
LEMMA TakenBytes ==
  ASSUME IInv, \A b \in Bufs : (\A h \in Taking : h.buf # b) => bytes'[b] = bytes[b],
         UNCHANGED <<cache, gpu, main>>
  PROVE  ReadsOK' /\ EntriesOK'
<1>1. /\ cache \in CacheType /\ gpu \in GpuType /\ ReadsOK /\ EntriesIn(cache, bytes)
      /\ TakenFrom(cache, Taking)
  BY DEF IInv, TypeOK, EntriesOK, TakingOK
<1>2. \A x \in Valid(cache) : bytes'[cache.entry[x].buf] = bytes[cache.entry[x].buf]
  BY <1>1, EntryType DEF TakenFrom, Valid
<1>3. ReadsOK'
  <2>1. \A r \in gpu.reads : r.x \in Experts /\ r.buf \in Bufs
    BY <1>1, ReadType
  <2>2. \A r \in gpu.reads : cache.entry[r.x].buf = r.buf /\ bytes[r.buf] = r.x
    BY <1>1 DEF ReadsOK
  <2>3. \A r \in gpu.reads : r.x \in Valid(cache)
    BY <2>1, <2>2, BufsAreNotZero DEF Valid
  <2>4. \A r \in gpu.reads : bytes'[r.buf] = bytes[r.buf]
    BY <2>2, <2>3, <1>2
  <2> QED BY <1>1, <2>4 DEF ReadsOK
<1>4. EntriesIn(cache, bytes')
  BY <1>1, <1>2 DEF EntriesIn
<1>5. EntriesIn(cache', bytes')
  BY <1>4
<1> QED BY <1>3, <1>5 DEF EntriesOK

(* The weights are where they were to go.                                   *)
LEMMA ReadIntoIs ==
  ASSUME TypeOK, NEW held \in SUBSET Held, Apart(held)
  PROVE  /\ ReadInto(held) \in [Bufs -> Experts \cup {None}]
         /\ Hold(held, ReadInto(held))
         /\ \A b \in Bufs : (\A h \in held : h.buf # b) => ReadInto(held)[b] = bytes[b]
<1>1. bytes \in [Bufs -> Experts \cup {None}]
  BY DEF TypeOK
<1>2. \A h \in held : h.x \in Experts /\ h.buf \in Bufs
  BY DEF Held
<1>3. \A h \in held : (CHOOSE k \in held : k.buf = h.buf) = h
  BY DEF Apart
<1>4. \A h \in held : ReadInto(held)[h.buf] = h.x
  BY <1>2, <1>3 DEF ReadInto
<1>5. \A b \in Bufs : (\A h \in held : h.buf # b) => ReadInto(held)[b] = bytes[b]
  BY DEF ReadInto
<1>6. \A b \in Bufs : ReadInto(held)[b] \in Experts \cup {None}
  <2> SUFFICES ASSUME NEW b \in Bufs PROVE ReadInto(held)[b] \in Experts \cup {None}
    OBVIOUS
  <2>1. CASE \E h \in held : h.buf = b
    BY <2>1, <1>2, <1>4
  <2>2. CASE ~\E h \in held : h.buf = b
    BY <2>2, <1>1, <1>5
  <2> QED BY <2>1, <2>2
<1>7. ReadInto(held) \in [Bufs -> Experts \cup {None}]
  BY <1>6 DEF ReadInto
<1> QED BY <1>4, <1>5, <1>7 DEF Hold

(* The step of a load goes on, where its buffers stay.                      *)
LEMMA ReadingGoesOn ==
  ASSUME IInv, load.on, main.pc # "aborted", load.step \in {"read", "reading"},
         NEW t \in {"reading", "install"}, load' = [load EXCEPT !.step = t],
         bytes' \in [Bufs -> Experts \cup {None}], t = "install" => Hold(load.held, bytes'),
         \A b \in Bufs : (\A h \in load.held : h.buf # b) => bytes'[b] = bytes[b],
         UNCHANGED <<cache, gpu, pending, main, faults, dropped>>
  PROVE  IInv'
<1>1. /\ TypeOK /\ FlowOK /\ cache \in CacheType /\ load \in LoadType /\ TakingOK
  BY DEF IInv, TypeOK
<1>2. ~pending.on /\ pending.held = {} /\ Taking = load.held
  BY NonePending
<1>3. LoadOK /\ SplitOK /\ PendingOK
  BY <1>1 DEF FlowOK
<1>4. /\ Same(load, load') /\ load'.step = t /\ load'.todo = load.todo
      /\ load'.held = load.held /\ load'.reserved = load.reserved /\ load'.budget = load.budget
  <2> DEFINE m == [load EXCEPT !.step = t]
  <2>1. t \in Steps
    BY DEF Steps
  <2>2. /\ Same(load, m) /\ m.step = t /\ m.todo = load.todo /\ m.held = load.held
        /\ m.reserved = load.reserved /\ m.budget = load.budget
    BY <1>1, <2>1, StepIs
  <2>3. load' = m
    OBVIOUS
  <2> HIDE DEF m
  <2> QED BY <2>2, <2>3
<1>5. /\ load' \in LoadType /\ load'.on /\ load'.how = load.how /\ load'.keep = load.keep
      /\ load'.layer = load.layer
  BY <1>4 DEF Same
<1>6. Taking' = Taking
  BY <1>4 DEF Taking
<1>7. TypeOK' /\ GpuOK'
  BY <1>1, <1>5 DEF IInv, TypeOK, GpuOK
<1>8. ReadsOK' /\ EntriesOK'
  BY <1>2, TakenBytes
<1>9. TakingOK'
  <2>1. TakenFrom(cache', Taking')
    BY <1>1, <1>6 DEF TakingOK
  <2>2. Apart(Taking')
    BY <1>1, <1>6 DEF TakingOK
  <2>3. Hold(pending'.held, bytes')
    BY <1>2 DEF Hold
  <2> QED BY <1>2, <1>4, <1>5, <2>1, <2>2, <2>3 DEF TakingOK
<1>10. FlowOK'
  <2>1. PendingOK'
    BY <1>2, <1>3 DEF PendingOK
  <2>2. /\ t \notin Beginning /\ t \in Reading /\ t # "event"
        /\ load.step \notin Beginning /\ load.step \in Reading
        /\ t \notin {"squeeze", "forced", "alone"}
    BY DEF Beginning, Reading
  <2>3. LoadOK'
    BY <1>3, <1>4, <1>5, <2>2 DEF LoadOK, OneByOne
  <2>4. SplitOK'
    BY <1>3, <1>4, <1>5, <2>2 DEF SplitOK, OfLayer, Choosing
  <2> QED BY <2>1, <2>3, <2>4 DEF FlowOK
<1>11. NothingLost'
  BY <1>4 DEF IInv, NothingLost
<1>12. Roomy' => BudgetOK'
  <2> SUFFICES ASSUME Roomy' PROVE BudgetOK'
    OBVIOUS
  <2>1. SlotsOK /\ LimitsOK
    BY DEF IInv, Roomy, BudgetOK
  <2>2. SlotsOK'
    BY <2>1, <1>6, SlotsStay
  <2>3. Count' = Count
    BY DEF Count
  <2>4. load.step \notin Beginning /\ load'.step \notin {"squeeze", "forced", "alone"}
    BY <1>4 DEF Beginning
  <2>5. LimitsOK'
    BY <2>1, <2>3, <2>4, <1>4, <1>5 DEF LimitsOK, OneByOne
  <2> QED BY <2>2, <2>5 DEF BudgetOK
<1> QED BY <1>7, <1>8, <1>9, <1>10, <1>11, <1>12 DEF IInv

(* The reads are done.                                                      *)
LEMMA FinishReadsKeeps ==
  ASSUME IInv, FinishReads
  PROVE  IInv'
<1>1. /\ load.on /\ main.pc # "aborted" /\ load.step = "reading"
      /\ bytes' = ReadInto(load.held) /\ load' = [load EXCEPT !.step = "install"]
      /\ UNCHANGED <<cache, gpu, pending, main, faults, dropped>>
  BY DEF FinishReads, Loading
<1>2. TypeOK /\ load.held \in SUBSET Held /\ Apart(Taking)
  BY DEF IInv, TypeOK, LoadType, TakingOK
<1>3. Taking = load.held
  BY <1>1, NonePending
<1>4. /\ bytes' \in [Bufs -> Experts \cup {None}] /\ Hold(load.held, bytes')
      /\ \A b \in Bufs : (\A h \in load.held : h.buf # b) => bytes'[b] = bytes[b]
  BY <1>1, <1>2, <1>3, ReadIntoIs
<1> QED BY <1>1, <1>4, ReadingGoesOn

(* The reads begin, here or in the pread pool, which then has the buffers.  *)
LEMMA StartReadsKeeps ==
  ASSUME IInv, StartReads
  PROVE  IInv'
<1>1. /\ load.on /\ main.pc # "aborted" /\ load.step = "read"
      /\ bytes' = [b \in Bufs |-> IF \E h \in load.held : h.buf = b THEN None ELSE bytes[b]]
      /\ UNCHANGED <<cache, gpu, main, faults, dropped>>
  BY DEF StartReads, Loading
<1>2. /\ TypeOK /\ FlowOK /\ load \in LoadType /\ main \in MainType /\ TakingOK
      /\ bytes \in [Bufs -> Experts \cup {None}]
  BY DEF IInv, TypeOK
<1>3. ~pending.on /\ pending.held = {} /\ Taking = load.held
  BY <1>1, NonePending
<1>4. /\ bytes' \in [Bufs -> Experts \cup {None}]
      /\ \A b \in Bufs : (\A h \in load.held : h.buf # b) => bytes'[b] = bytes[b]
  BY <1>1, <1>2
<1>5. CASE load' = [load EXCEPT !.step = "reading"] /\ UNCHANGED pending
  BY <1>1, <1>4, <1>5, ReadingGoesOn
<1>6. CASE /\ load.how = "early"
           /\ pending' = [on |-> TRUE, layer |-> load.layer, sel |-> load.keep,
                          held |-> load.held, state |-> "reading"]
           /\ load' = NoLoad(TRUE)
  <2>1. /\ pending'.on /\ pending'.layer = load.layer /\ pending'.sel = load.keep
        /\ pending'.held = load.held /\ pending'.state = "reading"
    BY <1>6
  <2>2. pending' \in PendingType
    BY <1>2, <1>6 DEF PendingType, LoadType
  <2>3. /\ load' \in LoadType /\ ~load'.on /\ load'.ok /\ load'.step = "clear"
        /\ load'.held = {}
    BY <1>6, NoLoadIs
  <2>4. Taking' = Taking
    BY <1>3, <2>1, <2>3 DEF Taking
  <2>5. LoadOK /\ SplitOK
    BY <1>1, <1>2 DEF FlowOK
  <2>6. TypeOK' /\ GpuOK'
    BY <1>1, <1>2, <1>4, <2>2, <2>3 DEF IInv, TypeOK, GpuOK
  <2>7. ReadsOK' /\ EntriesOK'
    BY <1>1, <1>3, <1>4, TakenBytes
  <2>8. TakingOK'
    BY <1>1, <1>2, <2>1, <2>3, <2>4 DEF TakingOK
  <2>9. FlowOK'
    <3>1. /\ main.pc \in {"window", "join", "split"} /\ load.keep = main.sel
          /\ load.layer = main.layer /\ Names(load.held) = main.sel \ Valid(cache)
          /\ load.held # {}
      <4>1. load.step \notin Beginning /\ load.step \in Reading /\ ~OneByOne
        BY <1>1, <1>6 DEF Beginning, Reading, OneByOne
      <4>2. load.todo = {}
        BY <1>1, <2>5, <4>1 DEF LoadOK
      <4>3. load.todo \cup Names(load.held) = main.sel \ Valid(cache)
        BY <1>1, <1>6, <2>5, <4>1 DEF LoadOK
      <4> QED BY <1>1, <1>6, <2>5, <4>1, <4>2, <4>3 DEF LoadOK
    <3>2. PendingOK'
      BY <1>1, <2>1, <2>3, <3>1 DEF PendingOK, Names
    <3>3. LoadOK'
      BY <2>3 DEF LoadOK
    <3>4. SplitOK'
      BY <1>1, <2>1, <2>3, <2>5, <3>1 DEF SplitOK, OfLayer, Choosing
    <3> QED BY <3>2, <3>3, <3>4 DEF FlowOK
  <2>10. NothingLost'
    BY <1>1, <1>3, <2>4 DEF IInv, NothingLost, Taking
  <2>11. Roomy' => BudgetOK'
    <3> SUFFICES ASSUME Roomy' PROVE BudgetOK'
      OBVIOUS
    <3>1. SlotsOK /\ LimitsOK
      BY <1>1 DEF IInv, Roomy, BudgetOK
    <3>2. SlotsOK'
      BY <1>1, <2>4, <3>1, SlotsStay
    <3>3. LimitsOK'
      BY <1>1, <2>1, <2>3, <3>1 DEF LimitsOK
    <3> QED BY <3>2, <3>3 DEF BudgetOK
  <2> QED BY <2>6, <2>7, <2>8, <2>9, <2>10, <2>11 DEF IInv
<1> QED BY <1>5, <1>6 DEF StartReads

(* What the pread pool does leaves all but the state of its load alone.     *)
LEMMA PoolGoesOn ==
  ASSUME IInv, main.pc # "aborted", pending.state = "reading", NEW st \in {"good", "bad"},
         pending' = [pending EXCEPT !.state = st],
         bytes' \in [Bufs -> Experts \cup {None}], st = "good" => Hold(pending.held, bytes'),
         \A b \in Bufs : (\A h \in Taking : h.buf # b) => bytes'[b] = bytes[b],
         faults' \in 0..MaxFaults, Roomy' => Roomy /\ st = "good",
         UNCHANGED <<cache, gpu, load, main, dropped>>
  PROVE  IInv'
<1>1. /\ TypeOK /\ FlowOK /\ pending \in PendingType /\ TakingOK
  BY DEF IInv, TypeOK
<1>2. PendingOK /\ LoadOK /\ SplitOK
  BY <1>1 DEF FlowOK
<1>3. pending.on
  BY <1>2 DEF PendingOK, NoPending
<1>4. /\ pending' \in PendingType /\ pending'.on /\ pending'.layer = pending.layer
      /\ pending'.sel = pending.sel /\ pending'.held = pending.held /\ pending'.state = st
  BY <1>1, <1>3 DEF PendingType
<1>5. Taking' = Taking
  BY <1>4 DEF Taking
<1>6. TypeOK' /\ GpuOK'
  BY <1>1, <1>4 DEF IInv, TypeOK, GpuOK
<1>7. ReadsOK' /\ EntriesOK'
  BY TakenBytes
<1>8. TakingOK'
  <2>1. load.step # "install"
    <3>1. ~load.on \/ load.step = "clear"
      BY <1>2, <1>3 DEF PendingOK
    <3> QED BY <1>1, <3>1 DEF TakingOK
  <2> QED BY <1>1, <1>4, <1>5, <2>1 DEF TakingOK
<1>9. FlowOK'
  <2>1. PendingOK'
    BY <1>2, <1>3, <1>4 DEF PendingOK
  <2>2. LoadOK'
    BY <1>2 DEF LoadOK, OneByOne
  <2>3. SplitOK'
    BY <1>2, <1>3, <1>4 DEF SplitOK, OfLayer, Choosing
  <2> QED BY <2>1, <2>2, <2>3 DEF FlowOK
<1>10. NothingLost'
  BY <1>4 DEF IInv, NothingLost
<1>11. Roomy' => BudgetOK'
  <2> SUFFICES ASSUME Roomy' PROVE BudgetOK'
    OBVIOUS
  <2>1. SlotsOK /\ LimitsOK
    BY DEF IInv, BudgetOK
  <2>2. SlotsOK'
    BY <2>1, <1>5, SlotsStay
  <2>3. Count' = Count
    BY DEF Count
  <2>4. LimitsOK'
    BY <2>1, <2>3, <1>4 DEF LimitsOK, OneByOne
  <2> QED BY <2>2, <2>4 DEF BudgetOK
<1> QED BY <1>6, <1>7, <1>8, <1>9, <1>10, <1>11 DEF IInv

(* The pool has read all of its load.                                       *)
LEMMA PoolReadsKeeps ==
  ASSUME IInv, PoolReads
  PROVE  IInv'
<1>1. /\ main.pc # "aborted" /\ pending.state = "reading"
      /\ bytes' = ReadInto(pending.held) /\ pending' = [pending EXCEPT !.state = "good"]
      /\ UNCHANGED <<cache, gpu, load, main, faults, dropped>>
  BY DEF PoolReads
<1>2. /\ TypeOK /\ pending.held \in SUBSET Held /\ Apart(Taking) /\ faults \in 0..MaxFaults
  BY DEF IInv, TypeOK, PendingType, TakingOK
<1>3. Apart(pending.held)
  BY <1>2 DEF Apart, Taking
<1>4. /\ bytes' \in [Bufs -> Experts \cup {None}] /\ Hold(pending.held, bytes')
      /\ \A b \in Bufs : (\A h \in pending.held : h.buf # b) => bytes'[b] = bytes[b]
  BY <1>1, <1>2, <1>3, ReadIntoIs
<1>5. \A b \in Bufs : (\A h \in Taking : h.buf # b) => bytes'[b] = bytes[b]
  BY <1>4 DEF Taking
<1>6. Roomy' => Roomy
  BY <1>1 DEF Roomy
<1> QED BY <1>1, <1>2, <1>4, <1>5, <1>6, PoolGoesOn

(* The pool could not read all of its load.                                 *)
LEMMA PoolFailsKeeps ==
  ASSUME IInv, PoolFails
  PROVE  IInv'
<1>1. /\ main.pc # "aborted" /\ pending.state = "reading"
      /\ faults < MaxFaults /\ faults' = faults + 1
      /\ pending' = [pending EXCEPT !.state = "bad"]
      /\ UNCHANGED <<cache, bytes, gpu, load, main, dropped>>
  BY DEF PoolFails
<1>2. faults \in 0..MaxFaults /\ MaxFaults \in Nat /\ bytes \in [Bufs -> Experts \cup {None}]
  BY CountsAreNat DEF IInv, TypeOK
<1>3. faults' \in 0..MaxFaults /\ ~Roomy'
  BY <1>1, <1>2 DEF Roomy
<1>4. bytes' \in [Bufs -> Experts \cup {None}] /\ \A b \in Bufs : bytes'[b] = bytes[b]
  BY <1>1, <1>2
<1> QED BY <1>1, <1>3, <1>4, PoolGoesOn

-----------------------------------------------------------------------------
(* Loads that arrive *)

(* Where a locked slot is found.                                            *)
LEMMA LockedAre ==
  ASSUME NothingLost, ~dropped, NEW s \in cache.locked
  PROVE  \/ s \in cache.free \/ \E z \in Experts : s = cache.entry[z].buf
         \/ \E h \in Taking : s = h.buf
<1>1. s \in cache.free \cup {cache.entry[x].buf : x \in Experts} \cup {h.buf : h \in Taking}
  BY DEF NothingLost, Taking
<1> QED BY <1>1

(* The buffers of the loads become those of entries.                        *)
LEMMA TakingInstalled ==
  ASSUME IInv, main.pc # "ran", Hold(Taking, bytes), Names(Taking) \cap Valid(cache) = {},
         cache' = Installed(cache, gpu, Taking),
         load' \in LoadType, load'.held = {}, load'.on \/ load'.step = "clear",
         pending' \in PendingType, pending'.held = {}, load'.step # "install",
         dropped' = dropped, UNCHANGED <<bytes, gpu, main, faults>>
  PROVE  /\ TypeOK' /\ GpuOK' /\ ReadsOK' /\ EntriesOK' /\ TakingOK' /\ NothingLost'
         /\ SlotsOK => SlotsOK'
         /\ Valid(cache') = Valid(cache) \cup Names(Taking)
         /\ \A x \in Names(Taking) : cache'.entry[x].seq = 0
         /\ \A x \in Valid(cache) : cache'.entry[x] = cache.entry[x]
<1>1. /\ TypeOK /\ cache \in CacheType /\ EntriesIn(cache, bytes) /\ TakingOK
      /\ TakenFrom(cache, Taking) /\ Apart(Taking)
  BY DEF IInv, TypeOK, EntriesOK, TakingOK
<1>2. Taking \in SUBSET Held
  BY <1>1 DEF TypeOK, LoadType, PendingType, Taking
<1>3. /\ cache' \in CacheType
      /\ \A h \in Taking : cache'.entry[h.x] = [buf |-> h.buf, seq |-> 0]
      /\ \A x \in Experts \ Names(Taking) : cache'.entry[x] = cache.entry[x]
      /\ Valid(cache') = Valid(cache) \cup Names(Taking)
      /\ cache'.free = cache.free /\ cache'.used = cache.used
      /\ cache'.locked = cache.locked /\ cache'.cap = cache.cap
  BY <1>1, <1>2, InstalledIs
<1>4. \A x \in Valid(cache) : x \in Experts /\ cache'.entry[x] = cache.entry[x]
  BY <1>3 DEF Valid
<1>5. \A x \in Names(Taking) : \E h \in Taking : x = h.x
  BY DEF Names
<1>6. \A h \in Taking : /\ cache'.entry[h.x].buf = h.buf /\ cache'.entry[h.x].seq = 0
                        /\ h.x \in Names(Taking) /\ h.x \in Experts
  <2>1. \A h \in Taking : h.x \in Names(Taking) /\ h.x \in Experts
    BY <1>2 DEF Names, Held
  <2>2. \A h \in Taking : cache'.entry[h.x].buf = h.buf /\ cache'.entry[h.x].seq = 0
    <3> SUFFICES ASSUME NEW h \in Taking
                 PROVE  cache'.entry[h.x].buf = h.buf /\ cache'.entry[h.x].seq = 0
      OBVIOUS
    <3>1. cache'.entry[h.x] = [buf |-> h.buf, seq |-> 0]
      BY <1>3
    <3> QED BY <3>1
  <2> QED BY <2>1, <2>2
<1>7. Taking' = {}
  BY DEF Taking
<1>8. TypeOK' /\ GpuOK'
  BY <1>1, <1>3 DEF IInv, TypeOK, GpuOK
<1>9. ReadsOK'
  <2>1. \A r \in gpu.reads : /\ r.x \in Valid(cache)
                             /\ cache.entry[r.x].buf = r.buf /\ bytes[r.buf] = r.x
                             /\ cache.entry[r.x].seq >= r.seq
    BY ReadsAreInFlight DEF InFlight
  <2> QED BY <2>1, <1>4 DEF ReadsOK
<1>10. EntriesIn(cache', bytes)
  <2>1. \A z \in Valid(cache') : bytes[cache'.entry[z].buf] = z
    BY <1>1, <1>3, <1>4, <1>5, <1>6 DEF EntriesIn, Hold
  <2>2. \A y, z \in Valid(cache') : cache'.entry[y].buf = cache'.entry[z].buf => y = z
    BY <2>1
  <2>3. \A z \in Valid(cache') :
          /\ cache'.entry[z].buf \notin cache'.free
          /\ cache'.entry[z].buf \in Slots => cache'.entry[z].buf <= cache'.used
    BY <1>1, <1>3, <1>4, <1>5, <1>6 DEF EntriesIn, TakenFrom
  <2>4. \A s \in cache'.free : s <= cache'.used
    BY <1>1, <1>3 DEF EntriesIn
  <2> QED BY <2>1, <2>2, <2>3, <2>4 DEF EntriesIn
<1>11. EntriesOK'
  BY <1>10 DEF EntriesOK
<1>12. TakingOK'
  BY <1>7 DEF TakingOK, TakenFrom, Apart, Hold
<1>13. NothingLost'
  <2> SUFFICES ASSUME ~dropped, NEW s \in cache'.locked
               PROVE  s \in cache'.free \/ \E z \in Experts : s = cache'.entry[z].buf
    BY DEF NothingLost
  <2>1. \/ s \in cache.free \/ \E z \in Experts : s = cache.entry[z].buf
        \/ \E h \in Taking : s = h.buf
    <3>1. NothingLost /\ s \in cache.locked
      BY <1>3 DEF IInv
    <3> QED BY <3>1, LockedAre
  <2>2. CASE \E z \in Experts : s = cache.entry[z].buf
    <3>1. PICK z \in Experts : s = cache.entry[z].buf
      BY <2>2
    <3>2. s # 0
      <4>1. s \in Slots
        BY <1>1, <1>3 DEF CacheType
      <4> QED BY <4>1, BufsAreNotZero
    <3>3. z \in Valid(cache)
      BY <3>1, <3>2 DEF Valid
    <3> QED BY <3>1, <3>3, <1>4
  <2>3. CASE \E h \in Taking : s = h.buf
    BY <2>3, <1>6
  <2> QED BY <2>1, <2>2, <2>3, <1>3
<1>14. ASSUME SlotsOK PROVE SlotsOK'
  <2>1. /\ cache.cap = 0
        /\ \A x \in Valid(cache) : cache.entry[x].buf \in Slots
        /\ \A h \in Taking : h.buf \in Slots
        /\ \A s \in 1..cache.used :
             \/ s \in cache.free \/ \E z \in Experts : s = cache.entry[z].buf
             \/ \E h \in Taking : s = h.buf
    BY <1>14 DEF SlotsOK
  <2>2. \A z \in Valid(cache') : cache'.entry[z].buf \in Slots
    BY <2>1, <1>3, <1>4, <1>5, <1>6
  <2>3. \A s \in 1..cache'.used :
          s \in cache'.free \/ \E z \in Experts : s = cache'.entry[z].buf
    <3> SUFFICES ASSUME NEW s \in 1..cache.used
                 PROVE  s \in cache'.free \/ \E z \in Experts : s = cache'.entry[z].buf
      BY <1>3
    <3>1. CASE \E z \in Experts : s = cache.entry[z].buf
      <4>1. PICK z \in Experts : s = cache.entry[z].buf
        BY <3>1
      <4>2. s # 0
        BY <1>1 DEF CacheType
      <4>3. z \in Valid(cache)
        BY <4>1, <4>2 DEF Valid
      <4> QED BY <4>1, <4>3, <1>4
    <3>2. CASE \E h \in Taking : s = h.buf
      BY <3>2, <1>6
    <3> QED BY <2>1, <3>1, <3>2, <1>3
  <2> QED BY <2>1, <2>2, <2>3, <1>3, <1>7 DEF SlotsOK
<1>15. \A x \in Names(Taking) : cache'.entry[x].seq = 0
  BY <1>5, <1>6
<1> QED BY <1>3, <1>4, <1>8, <1>9, <1>11, <1>12, <1>13, <1>14, <1>15

(* Where a load settles an early one, it is for the same layer: the load of *)
(* what was missing, which then finds it there.                             *)
LEMMA WhatSettles ==
  ASSUME IInv, Settles
  PROVE  /\ load.on /\ load.step = "clear" /\ pending.on /\ main.pc # "aborted"
         /\ main.pc \in {"split_rest", "loaded"} /\ load.how = "missing" /\ PendingMatches
         /\ load.held = {} /\ Taking = pending.held
         /\ load.todo = main.sel \ Valid(cache)
         /\ Names(pending.held) = main.sel \ Valid(cache)
<1>1. load.on /\ load.step = "clear" /\ pending.on /\ main.pc # "aborted"
  BY DEF Settles, Loading
<1>2. PendingOK /\ LoadOK
  BY <1>1 DEF IInv, FlowOK
<1>3. load.keep = main.sel /\ load.layer = main.layer
  BY <1>1, PlaceOfLoad
<1>4. PendingMatches /\ main.pc \in {"split", "split_rest", "loaded"}
  BY <1>1, <1>2, <1>3 DEF PendingOK, PendingMatches
<1>5. load.how # "early"
  BY <1>4 DEF Settles
<1>6. main.pc \in {"split_rest", "loaded"} /\ load.how = "missing"
  BY <1>1, <1>4, <1>5, PlaceOfLoad
<1>7. load.held = {}
  BY <1>1, <1>2 DEF LoadOK, Beginning
<1>8. load.todo = main.sel \ Valid(cache) /\ Names(pending.held) = main.sel \ Valid(cache)
  BY <1>1, <1>2, <1>6 DEF PendingOK
<1> QED BY <1>1, <1>4, <1>6, <1>7, <1>8 DEF Taking

(* No early load, as far as its type goes.                                  *)
LEMMA NoPendingIs ==
  /\ NoPending \in PendingType /\ ~NoPending.on /\ NoPending.held = {}
  /\ NoPending.state = "good"
BY CountsAreNat DEF NoPending, PendingType

(* An early load is settled: its experts are entries, or it failed and the  *)
(* load that met it fails with it.                                          *)
LEMMA SettlePendingKeeps ==
  ASSUME IInv, SettlePending
  PROVE  IInv'
<1>1. /\ Settles /\ pending' = NoPending /\ UNCHANGED <<bytes, gpu, main, faults>>
  BY DEF SettlePending
<1>2. /\ load.on /\ load.step = "clear" /\ pending.on /\ main.pc # "aborted"
      /\ main.pc \in {"split_rest", "loaded"} /\ load.how = "missing" /\ PendingMatches
      /\ load.held = {} /\ Taking = pending.held
      /\ load.todo = main.sel \ Valid(cache)
      /\ Names(pending.held) = main.sel \ Valid(cache)
  BY <1>1, WhatSettles
<1>3. /\ TypeOK /\ load \in LoadType /\ TakingOK /\ EntriesOK /\ LoadOK /\ SplitOK
  BY <1>2 DEF IInv, TypeOK, FlowOK
<1>4. /\ pending' \in PendingType /\ ~pending'.on /\ pending'.held = {}
      /\ pending'.state = "good"
  BY <1>1, NoPendingIs
<1>5. CASE /\ pending.state = "good" /\ cache' = Installed(cache, gpu, pending.held)
           /\ load' = [load EXCEPT !.step = "plan", !.todo = @ \ {h.x : h \in pending.held}]
           /\ UNCHANGED dropped
  <2> DEFINE t == load.todo \ Names(pending.held)
             m1 == [load EXCEPT !.step = "plan"]
             m2 == [m1 EXCEPT !.todo = t]
  <2>1. load' = m2
    BY <1>3, <1>5 DEF LoadType, Names
  <2>2. t = {}
    BY <1>2
  <2> HIDE DEF t
  <2>3. /\ Same(load, m1) /\ m1.step = "plan" /\ m1.held = load.held
    BY <1>3, StepIs DEF Steps
  <2>4. m1 \in LoadType
    BY <2>3 DEF Same
  <2> HIDE DEF m1
  <2>5. /\ Same(m1, m2) /\ m2.step = "plan" /\ m2.held = load.held /\ m2.todo = t
    BY <2>2, <2>3, <2>4, TodoIs
  <2> HIDE DEF m2
  <2>6. /\ load' \in LoadType /\ load'.on /\ load'.how = "missing" /\ load'.keep = load.keep
        /\ load'.layer = load.layer /\ load'.step = "plan" /\ load'.held = {}
        /\ load'.todo = {}
    BY <1>2, <2>1, <2>2, <2>3, <2>5 DEF Same
  <2>7. Hold(Taking, bytes)
    BY <1>2, <1>3, <1>5 DEF TakingOK
  <2>8. Names(Taking) \cap Valid(cache) = {}
    BY <1>2
  <2>9. cache' = Installed(cache, gpu, Taking)
    BY <1>2, <1>5
  <2>10. /\ TypeOK' /\ GpuOK' /\ ReadsOK' /\ EntriesOK' /\ TakingOK' /\ NothingLost'
         /\ SlotsOK => SlotsOK'
    BY <1>1, <1>2, <1>4, <1>5, <2>6, <2>7, <2>8, <2>9, TakingInstalled
  <2>11. FlowOK'
    <3>1. PendingOK'
      BY <1>1, <1>4 DEF PendingOK
    <3>2. LoadOK'
      <4>1. /\ "plan" \in Beginning /\ "plan" \notin Reading
        BY DEF Beginning, Reading
      <4>2. Names({}) = {}
        BY DEF Names
      <4>3. load.keep = main.sel /\ load.layer = main.layer
        BY <1>2, <1>3 DEF LoadOK
      <4> QED BY <1>1, <1>2, <2>6, <4>1, <4>2, <4>3 DEF LoadOK, OneByOne
    <3>3. SplitOK'
      <4>1. main.sel \subseteq OfLayer(main.layer)
        BY <1>2, <1>3 DEF SplitOK, Choosing
      <4>2. main.pc = "split_rest" => main.cb = gpu.batch
        BY <1>3 DEF SplitOK
      <4> QED BY <1>1, <1>2, <2>6, <4>1, <4>2 DEF SplitOK, OfLayer
    <3> QED BY <3>1, <3>2, <3>3 DEF FlowOK
  <2>12. Roomy' => BudgetOK'
    <3> SUFFICES ASSUME Roomy' PROVE BudgetOK'
      OBVIOUS
    <3>1. SlotsOK /\ LimitsOK
      BY <1>1 DEF IInv, Roomy, BudgetOK
    <3>2. load'.step \in Beginning
      BY <2>6 DEF Beginning
    <3>3. LimitsOK'
      BY <1>1, <1>2, <1>4, <2>6, <3>1, <3>2 DEF LimitsOK
    <3> QED BY <2>10, <3>1, <3>3 DEF BudgetOK
  <2> QED BY <2>10, <2>11, <2>12 DEF IInv
<1>6. CASE /\ pending.state = "bad" /\ load' = NoLoad(FALSE) /\ dropped' = TRUE
           /\ UNCHANGED cache
  <2>1. /\ load' \in LoadType /\ ~load'.on /\ ~load'.ok /\ load'.step = "clear"
        /\ load'.held = {}
    BY <1>6, NoLoadIs
  <2>2. Taking' = {}
    BY <1>4, <2>1 DEF Taking
  <2>3. TypeOK' /\ GpuOK' /\ NothingLost'
    BY <1>1, <1>3, <1>4, <1>6, <2>1 DEF IInv, TypeOK, GpuOK, NothingLost
  <2>4. ReadsOK' /\ EntriesOK'
    BY <1>1, <1>6, TakenBytes
  <2>5. TakingOK'
    BY <1>4, <2>1, <2>2 DEF TakingOK, TakenFrom, Apart, Hold
  <2>6. FlowOK'
    <3>1. PendingOK'
      BY <1>1, <1>4 DEF PendingOK
    <3>2. LoadOK'
      BY <2>1 DEF LoadOK
    <3>3. SplitOK'
      BY <1>1, <1>2, <1>3, <2>1 DEF SplitOK, OfLayer, Choosing
    <3> QED BY <3>1, <3>2, <3>3 DEF FlowOK
  <2>7. ~Roomy'
    BY <1>1, <1>6 DEF IInv, Roomy, BudgetOK, LimitsOK
  <2> QED BY <2>3, <2>4, <2>5, <2>6, <2>7 DEF IInv
<1> QED BY <1>2, <1>5, <1>6 DEF SettlePending

(* A load that goes on, for the next of its experts.                        *)
LEMMA HeldGoneIs ==
  ASSUME NEW l \in LoadType, NEW m, m = [l EXCEPT !.step = "reserve", !.held = {}]
  PROVE  Same(l, m) /\ m.step = "reserve" /\ m.held = {} /\ m.todo = l.todo
<1> DEFINE m1 == [l EXCEPT !.step = "reserve"]
           h == {}
           m2 == [m1 EXCEPT !.held = h]
<1>1. m = m2
  BY DEF LoadType
<1>2. Same(l, m1) /\ m1.step = "reserve" /\ m1.todo = l.todo
  BY StepIs DEF Steps
<1>3. m1 \in LoadType
  BY <1>2 DEF Same
<1>4. h \in SUBSET Held /\ h = {}
  OBVIOUS
<1> HIDE DEF m1, h
<1>5. Same(m1, m2) /\ m2.step = "reserve" /\ m2.held = h /\ m2.todo = l.todo
  BY <1>2, <1>3, <1>4, HeldIs
<1> HIDE DEF m2
<1> QED BY <1>1, <1>2, <1>4, <1>5 DEF Same

(* What was read becomes entries.                                           *)
LEMMA InstallKeeps ==
  ASSUME IInv, Install
  PROVE  IInv'
<1>1. /\ load.on /\ main.pc # "aborted" /\ load.step = "install"
      /\ cache' = Installed(cache, gpu, load.held)
      /\ load' = (IF load.todo = {} THEN NoLoad(TRUE)
                  ELSE [load EXCEPT !.step = "reserve", !.held = {}])
      /\ UNCHANGED <<bytes, gpu, pending, main, faults, dropped>>
  BY DEF Install, Loading
<1>2. /\ TypeOK /\ load \in LoadType /\ TakingOK /\ LoadOK /\ SplitOK /\ PendingOK
      /\ pending \in PendingType
  BY <1>1 DEF IInv, TypeOK, FlowOK
<1>3. ~pending.on /\ pending.held = {} /\ Taking = load.held
  BY <1>1, NonePending
<1>4. /\ Hold(load.held, bytes) /\ Names(load.held) \cap Valid(cache) = {}
      /\ OneByOne \/ load.todo = {}
  BY <1>1, <1>2 DEF TakingOK, LoadOK, Reading
<1>5. load.todo = {} => load' = NoLoad(TRUE)
  BY <1>1
<1>6. load.todo # {} => /\ Same(load, load') /\ load'.step = "reserve" /\ load'.held = {}
                        /\ load'.todo = load.todo
  BY <1>1, <1>2, HeldGoneIs
<1>7. /\ load' \in LoadType /\ load'.held = {} /\ (load'.on \/ load'.step = "clear")
      /\ load'.step # "install"
  BY <1>1, <1>5, <1>6, NoLoadIs DEF Same
<1>8. main.pc # "ran"
  BY <1>1, PlaceOfLoad
<1>9. /\ TypeOK' /\ GpuOK' /\ ReadsOK' /\ EntriesOK' /\ TakingOK' /\ NothingLost'
      /\ SlotsOK => SlotsOK'
      /\ Valid(cache') = Valid(cache) \cup Names(load.held)
      /\ \A x \in Names(load.held) : cache'.entry[x].seq = 0
      /\ \A x \in Valid(cache) : cache'.entry[x] = cache.entry[x]
  BY <1>1, <1>2, <1>3, <1>4, <1>7, <1>8, TakingInstalled
<1>10. PendingOK'
  BY <1>1, <1>2, <1>3 DEF PendingOK
<1>11. CASE load.todo = {}
  <2>1. ~load'.on /\ load'.ok /\ load'.step = "clear"
    BY <1>5, <1>11, NoLoadIs
  <2>2. LoadOK'
    BY <2>1 DEF LoadOK
  <2>3. SplitOK'
    <3>1. main.pc = "split" => /\ main.has = main.sel \cap Valid(cache)
                               /\ Names(load.held) = main.sel \ Valid(cache)
      <4> SUFFICES ASSUME main.pc = "split"
                   PROVE  /\ main.has = main.sel \cap Valid(cache)
                          /\ Names(load.held) = main.sel \ Valid(cache)
        OBVIOUS
      <4>1. main.has = main.sel \cap Valid(cache)
        BY <1>1, <1>2 DEF SplitOK
      <4>2. load.how = "early" /\ load.step \notin Beginning
        BY <1>1, PlaceOfLoad DEF Beginning
      <4>3. load.todo \cup Names(load.held) = main.sel \ Valid(cache)
        BY <1>1, <1>2, <4>2 DEF LoadOK
      <4> QED BY <4>1, <4>3, <1>11
    <3>2. main.pc = "split" => \A x \in main.sel \ main.has :
                                 x \in Valid(cache') /\ cache'.entry[x].seq = 0
      BY <3>1, <1>9
    <3>3. main.pc = "split" => main.has \subseteq main.sel \cap Valid(cache')
      BY <3>1, <1>9
    <3>4. /\ main.pc \in Choosing => main.sel \subseteq OfLayer(main.layer)
          /\ main.pc = "split_rest" => main.cb = gpu.batch
      BY <1>2 DEF SplitOK
    <3> QED BY <1>1, <1>3, <2>1, <3>2, <3>3, <3>4 DEF SplitOK, OfLayer, Choosing
  <2>4. Roomy' => BudgetOK'
    <3> SUFFICES ASSUME Roomy' PROVE BudgetOK'
      OBVIOUS
    <3>1. SlotsOK /\ LimitsOK
      BY <1>1 DEF IInv, Roomy, BudgetOK
    <3> QED BY <1>1, <1>9, <2>1, <3>1, LimitsOfEnded DEF BudgetOK
  <2> QED BY <1>9, <1>10, <2>2, <2>3, <2>4 DEF IInv, FlowOK
<1>12. CASE load.todo # {}
  <2>1. /\ load'.on /\ load'.how = load.how /\ load'.keep = load.keep
        /\ load'.layer = load.layer /\ load'.step = "reserve" /\ load'.todo = load.todo
        /\ load.how \in {"batch", "row"}
    BY <1>1, <1>4, <1>6, <1>12 DEF Same, OneByOne
  <2>2. /\ "reserve" \notin Beginning /\ "reserve" \notin Reading /\ Names({}) = {}
    BY DEF Beginning, Reading, Names
  <2>3. /\ load.keep = main.sel /\ load.layer = main.layer /\ load.todo \subseteq load.keep
        /\ main.pc \in {"prefill", "seed"}
    BY <1>1, <1>2, <2>1 DEF LoadOK, OneByOne
  <2>4. LoadOK'
    BY <1>1, <1>7, <2>1, <2>2, <2>3 DEF LoadOK, OneByOne
  <2>5. SplitOK'
    BY <1>1, <1>2, <2>3 DEF SplitOK, OfLayer, Choosing
  <2>6. Roomy' => BudgetOK'
    <3> SUFFICES ASSUME Roomy' PROVE BudgetOK'
      OBVIOUS
    <3>1. SlotsOK /\ LimitsOK
      BY <1>1 DEF IInv, Roomy, BudgetOK
    <3>2. LimitsOK'
      BY <1>1, <2>1, <3>1 DEF LimitsOK, OneByOne
    <3> QED BY <1>9, <3>1, <3>2 DEF BudgetOK
  <2> QED BY <1>9, <1>10, <2>4, <2>5, <2>6 DEF IInv, FlowOK
<1> QED BY <1>11, <1>12

(* The cache never waits with the rest of a split layer before it, whose    *)
(* command buffer the wait would commit.                                    *)
LEMMA NoWaitInSplitRest ==
  ASSUME IInv, LoadAwaits
  PROVE  load.on /\ main.pc # "aborted" /\ main.pc # "split_rest"
<1>1. load.on /\ main.pc # "aborted"
  BY DEF LoadAwaits, Settles, Loading
<1>2. LoadOK /\ SplitOK /\ cache \in CacheType /\ gpu \in GpuType
  BY <1>1 DEF IInv, FlowOK, TypeOK
<1>3. \A h \in load.held : h.x \in Names(load.held)
  BY DEF Names
<1>4. \A h \in pending.held : h.x \in Names(pending.held)
  BY DEF Names
<1>5. InFlight(cache, gpu) \subseteq Valid(cache)
  BY DEF InFlight
<1>6. CASE Settles /\ InstallWaits(cache, gpu, pending.held)
  BY <1>4, <1>5, <1>6, WhatSettles DEF InstallWaits
<1>7. CASE Loading("install") /\ InstallWaits(cache, gpu, load.held)
  <2>1. Names(load.held) \cap Valid(cache) = {}
    BY <1>1, <1>2 DEF LoadOK
  <2> QED BY <1>3, <1>5, <1>7, <2>1 DEF InstallWaits
<1>8. CASE load.step = "reserve" /\ load.todo \cap InFlight(cache, gpu) # {}
  <2> SUFFICES ASSUME main.pc = "split_rest" PROVE FALSE
    BY <1>1
  <2>1. ~pending.on
    BY <1>1, <1>8, NonePending
  <2>2. \A x \in load.todo : x \in Valid(cache) /\ cache.entry[x].seq = 0
    BY <1>1, <1>2, <2>1 DEF SplitOK
  <2>3. gpu.done \in Nat
    BY <1>2, ReadType
  <2>4. PICK x \in load.todo : cache.entry[x].seq > gpu.done
    BY <1>8 DEF InFlight
  <2> QED BY <2>2, <2>3, <2>4
<1>9. CASE load.step = "reserve" /\ load.todo \ Valid(cache) # {}
  BY <1>1, <1>9, NotSplitRest
<1>10. CASE load.step = "forced"
  <2>1. ~pending.on
    BY <1>1, <1>10, NonePending
  <2> QED BY <1>1, <1>2, <1>10, <2>1 DEF SplitOK
<1> QED BY <1>6, <1>7, <1>8, <1>9, <1>10 DEF LoadAwaits, Loading

(* The cache waits for the GPU.                                             *)
LEMMA WaitInflightKeeps ==
  ASSUME IInv, WaitInflight
  PROVE  IInv'
<1>1. /\ load.on /\ main.pc # "aborted" /\ main.pc # "split_rest"
      /\ gpu' = WaitedInflight(gpu)
      /\ UNCHANGED <<cache, bytes, pending, load, main, faults, dropped>>
  BY NoWaitInSplitRest DEF WaitInflight
<1>2. TypeOK /\ GpuOK /\ gpu \in GpuType /\ InOrder(gpu) /\ FlowOK
  BY DEF IInv, TypeOK, GpuOK
<1>3. /\ gpu' \in GpuType /\ InOrder(gpu') /\ (gpu'.batch # 0 <=> gpu.batch # 0)
      /\ gpu'.reads \subseteq gpu.reads
      /\ gpu.batch = 0 /\ gpu.pend = 0 => gpu' = gpu
  BY <1>1, <1>2, WaitedInflightIs
<1>4. TypeOK' /\ NothingLost'
  BY <1>1, <1>2, <1>3 DEF IInv, TypeOK, NothingLost
<1>5. GpuOK'
  BY <1>1, <1>2, <1>3 DEF GpuOK
<1>6. ReadsOK'
  BY <1>1, <1>3, ReadsStay DEF IInv
<1>7. EntriesOK'
  BY <1>1 DEF IInv, EntriesOK
<1>8. TakingOK'
  BY <1>1 DEF IInv, TakingOK, Taking
<1>9. FlowOK'
  <2>1. PendingOK /\ LoadOK /\ SplitOK
    BY <1>1, <1>2 DEF FlowOK
  <2>2. PendingOK'
    BY <1>1, <2>1 DEF PendingOK
  <2>3. LoadOK'
    BY <1>1, <2>1 DEF LoadOK, OneByOne
  <2>4. SplitOK'
    BY <1>1, <2>1 DEF SplitOK, OfLayer, Choosing
  <2> QED BY <2>2, <2>3, <2>4 DEF FlowOK
<1>10. Roomy' => BudgetOK'
  <2> SUFFICES ASSUME Roomy' PROVE BudgetOK'
    OBVIOUS
  <2>1. SlotsOK /\ LimitsOK
    BY <1>1 DEF IInv, Roomy, BudgetOK
  <2>2. SlotsOK'
    BY <1>1, <2>1, SlotsStay DEF Taking
  <2>3. Count' = Count
    BY <1>1 DEF Count
  <2>4. LimitsOK'
    BY <1>1, <2>1, <2>3 DEF LimitsOK, OneByOne
  <2> QED BY <2>2, <2>4 DEF BudgetOK
<1> QED BY <1>4, <1>5, <1>6, <1>7, <1>8, <1>9, <1>10 DEF IInv

(* Where the main thread can be.                                            *)
PCs == {"rest", "layer", "window", "join", "selected", "split", "split_rest", "loaded",
        "encoded", "prefill", "ran", "seed", "failed", "aborted"}

(* Where the main thread goes next.                                         *)
LEMMA ToIs ==
  ASSUME NEW m \in MainType, NEW pc \in PCs
  PROVE  LET n == [m EXCEPT !.pc = pc]
         IN /\ n \in MainType /\ n.pc = pc /\ n.layer = m.layer /\ n.sel = m.sel
            /\ n.has = m.has /\ n.cb = m.cb /\ n.kind = m.kind /\ n.passes = m.passes
            /\ n.hashed = m.hashed
BY DEF MainType, PCs

(* A batch torn away ends the process.                                      *)
LEMMA BatchTornAwayKeeps ==
  ASSUME IInv, BatchTornAway
  PROVE  IInv'
<1>1. /\ main' = [main EXCEPT !.pc = "aborted"] /\ main.pc = "window"
      /\ UNCHANGED <<cache, bytes, gpu, pending, load, faults, dropped>>
  BY DEF BatchTornAway
<1>2. TypeOK /\ main \in MainType
  BY DEF IInv, TypeOK
<1>3. main' \in MainType /\ main'.pc = "aborted"
  BY <1>1, <1>2, ToIs DEF PCs
<1>4. TypeOK' /\ NothingLost'
  BY <1>1, <1>2, <1>3 DEF IInv, TypeOK, NothingLost
<1>5. GpuOK'
  BY <1>1, <1>3 DEF IInv, GpuOK, Passing
<1>6. ReadsOK'
  BY <1>1, ReadsStay DEF IInv
<1>7. EntriesOK'
  BY <1>1 DEF IInv, EntriesOK
<1>8. TakingOK'
  BY <1>1 DEF IInv, TakingOK, Taking
<1>9. FlowOK'
  BY <1>3 DEF FlowOK
<1>10. Roomy' => BudgetOK'
  <2> SUFFICES ASSUME Roomy' PROVE BudgetOK'
    OBVIOUS
  <2>1. SlotsOK /\ LimitsOK
    BY <1>1 DEF IInv, Roomy, BudgetOK
  <2>2. SlotsOK'
    BY <1>1, <2>1, SlotsStay DEF Taking
  <2>3. Count' = Count
    BY <1>1 DEF Count
  <2>4. LimitsOK'
    BY <1>1, <1>3, <2>1, <2>3 DEF LimitsOK, OneByOne, Choosing
  <2> QED BY <2>2, <2>4 DEF BudgetOK
<1> QED BY <1>4, <1>5, <1>6, <1>7, <1>8, <1>9, <1>10 DEF IInv

-----------------------------------------------------------------------------
(* The main thread *)

(* Steps of the main thread that leave the cache alone and may begin a load.*)
LEMMA MainMoves ==
  ASSUME IInv, main' \in MainType, gpu' \in GpuType, GpuOK', FlowOK',
         gpu'.reads \subseteq gpu.reads, main.pc = "ran" => gpu'.reads = {},
         load' \in LoadType, load'.held = load.held,
         load'.step = "install" => load.step = "install",
         load'.on \/ load'.step = "clear", ~load'.on => load'.held = {},
         faults' \in 0..MaxFaults, Roomy' => Roomy, Roomy /\ LimitsOK => LimitsOK',
         UNCHANGED <<cache, bytes, pending, dropped>>
  PROVE  IInv'
<1>1. TypeOK /\ ReadsOK /\ EntriesOK /\ TakingOK /\ NothingLost
  BY DEF IInv
<1>2. TypeOK'
  BY <1>1 DEF TypeOK
<1>3. ReadsOK'
  BY <1>1, ReadsStay
<1>4. EntriesOK' /\ TakingOK'
  BY <1>1, BuffersStay
<1>5. NothingLost'
  BY <1>1 DEF NothingLost
<1>6. Roomy' => BudgetOK'
  <2> SUFFICES ASSUME Roomy' PROVE BudgetOK'
    OBVIOUS
  <2>1. SlotsOK /\ LimitsOK /\ LimitsOK'
    BY DEF IInv, BudgetOK
  <2>2. Taking' = Taking
    BY DEF Taking
  <2> QED BY <2>1, <2>2, SlotsStay DEF BudgetOK
<1> QED BY <1>2, <1>3, <1>4, <1>5, <1>6 DEF IInv

(* What holds where the main thread has no load.                            *)
LEMMA Unloaded ==
  ASSUME IInv, ~load.on
  PROVE  /\ TypeOK /\ load \in LoadType /\ main \in MainType /\ gpu \in GpuType
         /\ cache \in CacheType /\ faults \in 0..MaxFaults /\ InOrder(gpu)
         /\ load.held = {} /\ load.step = "clear" /\ Taking = pending.held
         /\ main.layer \in 1..Layers /\ main.sel \in SUBSET Experts
BY DEF IInv, TypeOK, GpuOK, TakingOK, Taking, MainType

(* A layer begins with no early load on its way.                            *)
LEMMA NothingOnItsWay ==
  ASSUME IInv, main.pc \in {"rest", "layer", "encoded", "prefill", "ran", "seed", "failed"}
               \/ (~load.on /\ ~load.ok /\ main.pc # "aborted")
               \/ (~load.on /\ main.pc \in {"loaded", "split_rest"})
  PROVE  ~pending.on /\ pending = NoPending /\ pending.held = {}
<1>1. PendingOK
  BY DEF IInv, FlowOK
<1>2. ~pending.on
  BY <1>1 DEF PendingOK
<1>3. pending = NoPending
  BY <1>1, <1>2 DEF PendingOK
<1> QED BY <1>2, <1>3 DEF NoPending

(* The limits, once a load begins or none is there.                         *)
LEMMA LimitsOfBegun ==
  ASSUME LimitsOK, UNCHANGED pending,
         main'.pc \in Choosing \ {"prefill", "ran", "seed"} => Cardinality(main'.sel) = NSel,
         load'.on /\ load'.how # "row" => Cardinality(load'.keep) <= Budget,
         load'.on => load'.step \in Beginning \/ (load'.step = "reserve" /\ OneByOne'),
         ~load'.on => load'.step = "clear"
  PROVE  LimitsOK'
<1>1. load'.step \notin {"squeeze", "forced", "alone"}
  BY DEF Beginning
<1>2. load'.on /\ ~OneByOne' => load'.step \in Beginning
  OBVIOUS
<1>3. pending'.state # "bad"
  BY DEF LimitsOK
<1> QED BY <1>1, <1>2, <1>3 DEF LimitsOK

(* A pass begins.                                                           *)
LEMMA BeginKeeps ==
  ASSUME IInv, NEW kind \in {"decode", "prefill"}, Begin(kind)
  PROVE  IInv'
<1>1. /\ main.pc = "rest" /\ ~load.on /\ main.passes < MaxPasses
      /\ main' = [main EXCEPT !.pc = "layer", !.kind = kind, !.layer = 1, !.passes = @ + 1]
      /\ gpu' = Begun(gpu)
      /\ UNCHANGED <<cache, bytes, pending, load, faults, dropped>>
  BY DEF Begin, At
<1>2. /\ TypeOK /\ load \in LoadType /\ main \in MainType /\ gpu \in GpuType
      /\ faults \in 0..MaxFaults /\ InOrder(gpu) /\ load.held = {} /\ load.step = "clear"
  BY <1>1, Unloaded
<1>3. /\ main' \in MainType /\ main'.pc = "layer"
  <2> DEFINE p == main.passes + 1
  <2>1. p \in 0..MaxPasses /\ 1 \in 1..Layers
    <3>1. main.passes \in 0..MaxPasses
      BY <1>2 DEF MainType
    <3> QED BY <1>1, <3>1, CountsAreNat
  <2>2. main' = [main EXCEPT !.pc = "layer", !.kind = kind, !.layer = 1, !.passes = p]
    BY <1>1
  <2> HIDE DEF p
  <2> QED BY <1>2, <2>1, <2>2 DEF MainType
<1>4. /\ gpu' \in GpuType /\ InOrder(gpu') /\ gpu'.batch # 0 /\ gpu'.reads = gpu.reads
  BY <1>1, <1>2, BegunIs, ReadType
<1>5. GpuOK'
  BY <1>3, <1>4 DEF GpuOK
<1>6. ~pending.on /\ pending = NoPending
  BY <1>1, NothingOnItsWay
<1>7. FlowOK'
  BY <1>1, <1>3, <1>6 DEF FlowOK, PendingOK, LoadOK, SplitOK, Choosing
<1>8. LimitsOK => LimitsOK'
  BY <1>1, <1>2, <1>3, LimitsOfBegun DEF Choosing
<1>9. Roomy' => Roomy
  BY <1>1 DEF Roomy
<1> QED BY <1>1, <1>2, <1>3, <1>4, <1>5, <1>7, <1>8, <1>9, MainMoves

(* The cache is seeded.                                                     *)
LEMMA SeedKeeps ==
  ASSUME IInv, NEW how \in {"row", "missing"}, NEW l \in 1..Layers, NEW S \in Picks,
         Seed(how, l, S)
  PROVE  IInv'
<1>1. /\ main.pc = "rest" /\ ~load.on /\ main.passes < MaxPasses /\ S \subseteq OfLayer(l)
      /\ main' = [main EXCEPT !.pc = "seed", !.layer = l, !.sel = S, !.passes = @ + 1]
      /\ UNCHANGED <<cache, bytes, gpu, pending, faults, dropped>>
  BY DEF Seed, At
<1>2. /\ TypeOK /\ load \in LoadType /\ main \in MainType /\ gpu \in GpuType
      /\ faults \in 0..MaxFaults /\ InOrder(gpu) /\ load.held = {} /\ load.step = "clear"
  BY <1>1, Unloaded
<1>3. S \in SUBSET Experts
  BY PicksAreOfALayer
<1>4. /\ main' \in MainType /\ main'.pc = "seed" /\ main'.layer = l /\ main'.sel = S
  <2> DEFINE p == main.passes + 1
  <2>1. p \in 0..MaxPasses
    <3>1. main.passes \in 0..MaxPasses
      BY <1>2 DEF MainType
    <3> QED BY <1>1, <3>1, CountsAreNat
  <2>2. main' = [main EXCEPT !.pc = "seed", !.layer = l, !.sel = S, !.passes = p]
    BY <1>1
  <2> HIDE DEF p
  <2> QED BY <1>2, <1>3, <2>1, <2>2 DEF MainType
<1>5. /\ load' \in LoadType /\ load'.on /\ load'.ok /\ load'.how = how
      /\ load'.layer = l /\ load'.keep = S /\ load'.held = {}
      /\ \/ how = "row" /\ load'.step = "reserve" /\ load'.todo = S
         \/ /\ how = "missing" /\ load'.step = "clear" /\ load'.todo = S \ Valid(cache)
            /\ Cardinality(S) <= Budget
  <2>1. CASE how = "row" /\ Load("main", "row", "reserve", l, S, S)
    BY ZenonT(40), <2>1, <1>3, LoadIs DEF Steps
  <2>2. CASE /\ how = "missing" /\ Cardinality(S) <= Budget
             /\ Load("main", "missing", "clear", l, S, S \ Valid(cache))
    <3>1. S \ Valid(cache) \in SUBSET Experts
      BY <1>3
    <3> DEFINE T == S \ Valid(cache)
    <3>2. /\ load' \in LoadType /\ load'.on /\ load'.ok /\ load'.how = "missing"
          /\ load'.step = "clear" /\ load'.layer = l /\ load'.keep = S /\ load'.todo = T
          /\ load'.held = {}
      <4>1. Load("main", "missing", "clear", l, S, T) /\ T \in SUBSET Experts
        BY <2>2, <3>1
      <4> HIDE DEF T
      <4> QED BY ZenonT(40), <4>1, <1>3, LoadIs DEF Steps
    <3> QED BY <2>2, <3>2
  <2> QED BY <2>1, <2>2 DEF Seed
<1>6. GpuOK'
  BY <1>1, <1>4 DEF IInv, GpuOK, Passing
<1>7. ~pending.on /\ pending = NoPending
  BY <1>1, NothingOnItsWay
<1>8. FlowOK'
  <2>1. PendingOK'
    BY <1>1, <1>7 DEF PendingOK
  <2>2. LoadOK'
    <3>1. "reserve" \notin Beginning /\ "reserve" \notin Reading /\ "clear" \notin Reading
      BY DEF Beginning, Reading
    <3>2. Names({}) = {}
      BY DEF Names
    <3> QED BY <1>1, <1>4, <1>5, <3>1, <3>2 DEF LoadOK, OneByOne
  <2>3. SplitOK'
    BY <1>1, <1>4 DEF SplitOK, OfLayer
  <2> QED BY <2>1, <2>2, <2>3 DEF FlowOK
<1>9. LimitsOK => LimitsOK'
  <2>1. load'.step \in Beginning \/ (load'.step = "reserve" /\ OneByOne')
    BY <1>5 DEF Beginning, OneByOne
  <2>2. load'.how # "row" => Cardinality(load'.keep) <= Budget
    BY <1>5
  <2> QED BY <1>1, <1>4, <1>5, <2>1, <2>2, LimitsOfBegun
<1>10. Roomy' => Roomy
  BY <1>1 DEF Roomy
<1>11. gpu'.reads \subseteq gpu.reads /\ gpu' \in GpuType /\ main.pc # "ran"
  BY <1>1, <1>2
<1> QED BY <1>1, <1>2, <1>4, <1>5, <1>6, <1>8, <1>9, <1>10, <1>11, MainMoves

(* A layer's early load has nothing to do before it has looked.             *)
LEMMA EarlyLoadIs ==
  ASSUME NEW by \in {"main", "worker"}, NEW step \in {"clear", "event"},
         NEW layer \in 1..Layers, NEW keep \in SUBSET Experts,
         Load(by, "early", step, layer, keep, {})
  PROVE  /\ load' \in LoadType /\ load'.on /\ load'.ok /\ load'.how = "early"
         /\ load'.step = step /\ load'.layer = layer /\ load'.keep = keep /\ load'.todo = {}
         /\ load'.held = {}
BY DEF Load, LoadType

(* The load of what is missing.                                             *)
LEMMA MissingLoadIs ==
  ASSUME NEW layer \in 1..Layers, NEW keep \in SUBSET Experts, NEW todo \in SUBSET Experts,
         Load("main", "missing", "clear", layer, keep, todo)
  PROVE  /\ load' \in LoadType /\ load'.on /\ load'.ok /\ load'.how = "missing"
         /\ load'.step = "clear" /\ load'.layer = layer /\ load'.keep = keep
         /\ load'.todo = todo /\ load'.held = {}
BY DEF Load, LoadType

(* A layer's early load begins, on either thread.                           *)
LEMMA EarlyStarts ==
  ASSUME IInv, main.pc = "layer", ~load.on, NEW S \in Picks, S \subseteq OfLayer(main.layer),
         Cardinality(S) = NSel, NEW pc \in {"join", "window"}, NEW step \in {"clear", "event"},
         NEW by \in {"main", "worker"}, main' \in MainType, main'.pc = pc,
         main'.layer = main.layer, main'.sel = S,
         Load(by, "early", step, main.layer, S, {}),
         gpu' \in GpuType, InOrder(gpu'), gpu'.batch # 0, gpu'.reads \subseteq gpu.reads,
         UNCHANGED <<cache, bytes, pending, faults, dropped>>
  PROVE  IInv'
<1>1. /\ TypeOK /\ load \in LoadType /\ main \in MainType
      /\ faults \in 0..MaxFaults /\ load.held = {} /\ main.layer \in 1..Layers
  BY Unloaded
<1>2. S \in SUBSET Experts
  BY PicksAreOfALayer
<1>3. /\ load' \in LoadType /\ load'.on /\ load'.ok /\ load'.how = "early"
      /\ load'.step = step /\ load'.layer = main.layer /\ load'.keep = S /\ load'.todo = {}
      /\ load'.held = {}
  <2> DEFINE l == main.layer
  <2>1. l \in 1..Layers /\ Load(by, "early", step, l, S, {})
    BY <1>1
  <2> HIDE DEF l
  <2>2. /\ load' \in LoadType /\ load'.on /\ load'.ok /\ load'.how = "early"
        /\ load'.step = step /\ load'.layer = l /\ load'.keep = S
        /\ load'.todo = {} /\ load'.held = {}
    BY <1>2, <2>1, EarlyLoadIs
  <2> QED BY <2>2 DEF l
<1>4. GpuOK'
  BY DEF GpuOK
<1>5. ~pending.on /\ pending = NoPending
  BY NothingOnItsWay
<1>6. step \in Beginning /\ step \notin Reading
  BY DEF Beginning, Reading
<1>7. FlowOK'
  <2>1. PendingOK'
    BY <1>5 DEF PendingOK
  <2>2. LoadOK'
    <3>1. Names({}) = {}
      BY DEF Names
    <3> QED BY <1>3, <1>6, <3>1 DEF LoadOK, OneByOne
  <2>3. SplitOK'
    BY <1>3 DEF SplitOK, OfLayer
  <2> QED BY <2>1, <2>2, <2>3 DEF FlowOK
<1>8. Roomy /\ LimitsOK => LimitsOK'
  <2> SUFFICES ASSUME Roomy, LimitsOK PROVE LimitsOK'
    OBVIOUS
  <2>1. Cardinality(load'.keep) <= Budget
    BY <1>3 DEF Roomy
  <2> QED BY <1>3, <1>6, <2>1, LimitsOfBegun
<1>9. Roomy' => Roomy
  BY DEF Roomy
<1> QED BY <1>1, <1>3, <1>4, <1>6, <1>7, <1>8, <1>9, MainMoves DEF Beginning

(* What the main thread has where it selects the experts of a layer.        *)
LEMMA DecodingIs ==
  ASSUME IInv, NEW S, Decoding(S)
  PROVE  /\ main.pc = "layer" /\ ~load.on /\ S \subseteq OfLayer(main.layer)
         /\ Cardinality(S) = NSel /\ gpu \in GpuType /\ InOrder(gpu) /\ gpu.batch # 0
         /\ main \in MainType
BY DEF Decoding, At, IInv, TypeOK, GpuOK, Passing

(* A layer whose experts are known by the token's id.                       *)
LEMMA HashStartKeeps ==
  ASSUME IInv, NEW S \in Picks, HashStart(S)
  PROVE  IInv'
<1>1. /\ Decoding(S) /\ main' = [main EXCEPT !.pc = "join", !.sel = S]
      /\ Load("main", "early", "clear", main.layer, S, {})
      /\ UNCHANGED <<cache, bytes, gpu, pending, faults, dropped>>
  BY DEF HashStart
<1>2. /\ main.pc = "layer" /\ ~load.on /\ S \subseteq OfLayer(main.layer)
      /\ Cardinality(S) = NSel /\ gpu \in GpuType /\ InOrder(gpu) /\ gpu.batch # 0
      /\ main \in MainType
  BY <1>1, DecodingIs
<1>3. S \in SUBSET Experts
  BY PicksAreOfALayer
<1>4. /\ main' \in MainType /\ main'.pc = "join" /\ main'.layer = main.layer
      /\ main'.sel = S
  BY <1>1, <1>2, <1>3 DEF MainType
<1>5. gpu' \in GpuType /\ InOrder(gpu') /\ gpu'.batch # 0 /\ gpu'.reads \subseteq gpu.reads
  BY <1>1, <1>2
<1> QED BY <1>1, <1>2, <1>4, <1>5, EarlyStarts

(* The load thread starts, to wait for the router's event.                  *)
LEMMA AsyncStartKeeps ==
  ASSUME IInv, NEW S \in Picks, AsyncStart(S)
  PROVE  IInv'
<1>1. /\ Decoding(S)
      /\ main' = [main EXCEPT !.pc = "window", !.sel = S, !.cb = gpu.batch]
      /\ Load("worker", "early", "event", main.layer, S, {})
      /\ UNCHANGED <<cache, bytes, gpu, pending, faults, dropped>>
  BY DEF AsyncStart, Routed
<1>2. /\ main.pc = "layer" /\ ~load.on /\ S \subseteq OfLayer(main.layer)
      /\ Cardinality(S) = NSel /\ gpu \in GpuType /\ InOrder(gpu) /\ gpu.batch # 0
      /\ main \in MainType
  BY <1>1, DecodingIs
<1>3. S \in SUBSET Experts /\ gpu.batch \in Nat
  BY <1>2, ReadType, PicksAreOfALayer
<1>4. /\ main' \in MainType /\ main'.pc = "window" /\ main'.layer = main.layer
      /\ main'.sel = S
  BY <1>1, <1>2, <1>3 DEF MainType
<1>5. gpu' \in GpuType /\ InOrder(gpu') /\ gpu'.batch # 0 /\ gpu'.reads \subseteq gpu.reads
  BY <1>1, <1>2
<1> QED BY <1>1, <1>2, <1>4, <1>5, EarlyStarts

(* Without the thread, what was selected is read back first.                *)
LEMMA SyncStartKeeps ==
  ASSUME IInv, NEW S \in Picks, SyncStart(S)
  PROVE  IInv'
<1>1. /\ Decoding(S) /\ main' = [main EXCEPT !.pc = "join", !.sel = S]
      /\ gpu' = ReadBack(gpu)
      /\ Load("main", "early", "clear", main.layer, S, {})
      /\ UNCHANGED <<cache, bytes, pending, faults, dropped>>
  BY DEF SyncStart, Routed
<1>2. /\ main.pc = "layer" /\ ~load.on /\ S \subseteq OfLayer(main.layer)
      /\ Cardinality(S) = NSel /\ gpu \in GpuType /\ InOrder(gpu) /\ gpu.batch # 0
      /\ main \in MainType
  BY <1>1, DecodingIs
<1>3. S \in SUBSET Experts
  BY PicksAreOfALayer
<1>4. /\ main' \in MainType /\ main'.pc = "join" /\ main'.layer = main.layer
      /\ main'.sel = S
  BY <1>1, <1>2, <1>3 DEF MainType
<1>5. gpu' \in GpuType /\ InOrder(gpu') /\ gpu'.batch # 0 /\ gpu'.reads \subseteq gpu.reads
  BY <1>1, <1>2, ReadBackIs
<1> QED BY <1>1, <1>2, <1>4, <1>5, EarlyStarts

(* Steps of the main thread alone, the load it has, if any, going on.       *)
LEMMA MainGoesOn ==
  ASSUME IInv, main' \in MainType, gpu' \in GpuType, GpuOK', FlowOK',
         gpu'.reads \subseteq gpu.reads, main.pc = "ran" => gpu'.reads = {},
         main'.pc \in Choosing \ {"prefill", "ran", "seed"} =>
           \/ Cardinality(main'.sel) = NSel
           \/ main.pc \in Choosing \ {"prefill", "ran", "seed"} /\ main'.sel = main.sel,
         faults' \in 0..MaxFaults, Roomy' => Roomy,
         UNCHANGED <<cache, bytes, pending, load, dropped>>
  PROVE  IInv'
<1>1. TypeOK /\ load \in LoadType /\ TakingOK
  BY DEF IInv, TypeOK
<1>2. (load'.on \/ load'.step = "clear") /\ (~load'.on => load'.held = {})
  BY <1>1 DEF TakingOK
<1>3. LimitsOK => LimitsOK'
  <2> SUFFICES ASSUME LimitsOK PROVE LimitsOK'
    OBVIOUS
  <2>1. Count' = Count
    BY DEF Count
  <2>2. main'.pc \in Choosing \ {"prefill", "ran", "seed"} => Cardinality(main'.sel) = NSel
    BY DEF LimitsOK
  <2> QED BY <2>1, <2>2 DEF LimitsOK, OneByOne
<1> QED BY <1>1, <1>2, <1>3, MainMoves

(* The router's batch is committed early.                                   *)
LEMMA EarlyCommitKeeps ==
  ASSUME IInv, EarlyCommit
  PROVE  IInv'
<1>1. /\ main.pc = "window" /\ gpu' = Flushed(gpu)
      /\ UNCHANGED <<cache, bytes, pending, load, main, faults, dropped>>
  BY DEF EarlyCommit
<1>2. /\ gpu \in GpuType /\ InOrder(gpu) /\ main \in MainType /\ faults \in 0..MaxFaults
  BY DEF IInv, TypeOK, GpuOK
<1>3. /\ gpu' \in GpuType /\ InOrder(gpu') /\ gpu'.batch # 0 /\ gpu'.reads \subseteq gpu.reads
  BY <1>1, <1>2, FlushedIs, ReadType
<1>4. GpuOK'
  BY <1>1, <1>3 DEF GpuOK
<1>5. FlowOK'
  <2>1. PendingOK /\ LoadOK /\ SplitOK
    BY <1>1 DEF IInv, FlowOK
  <2>2. PendingOK' /\ LoadOK' /\ SplitOK'
    BY <1>1, <2>1 DEF PendingOK, LoadOK, SplitOK, OneByOne, OfLayer
  <2> QED BY <2>2 DEF FlowOK
<1>6. Roomy' => Roomy
  BY <1>1 DEF Roomy
<1> QED BY <1>1, <1>2, <1>3, <1>4, <1>5, <1>6, MainGoesOn

(* The window ends: the batch is committed, the load joined.                *)
LEMMA FlushWindowKeeps ==
  ASSUME IInv, FlushWindow
  PROVE  IInv'
<1>1. /\ main.pc = "window" /\ gpu' = Flushed(gpu) /\ main' = [main EXCEPT !.pc = "join"]
      /\ UNCHANGED <<cache, bytes, pending, load, faults, dropped>>
  BY DEF FlushWindow, To
<1>2. /\ gpu \in GpuType /\ InOrder(gpu) /\ main \in MainType /\ faults \in 0..MaxFaults
  BY DEF IInv, TypeOK, GpuOK
<1>3. /\ gpu' \in GpuType /\ InOrder(gpu') /\ gpu'.batch # 0 /\ gpu'.reads \subseteq gpu.reads
  BY <1>1, <1>2, FlushedIs, ReadType
<1>4. /\ main' \in MainType /\ main'.pc = "join" /\ main'.layer = main.layer
      /\ main'.sel = main.sel /\ main'.has = main.has /\ main'.cb = main.cb
  BY ZenonT(40), <1>1, <1>2, ToIs DEF PCs
<1>5. GpuOK'
  BY <1>3, <1>4 DEF GpuOK
<1>6. FlowOK'
  <2>1. PendingOK /\ LoadOK /\ SplitOK
    BY <1>1 DEF IInv, FlowOK
  <2>2. PendingOK'
    BY <1>1, <1>4, <2>1 DEF PendingOK
  <2>3. LoadOK'
    BY <1>1, <1>4, <2>1 DEF LoadOK, OneByOne
  <2>4. SplitOK'
    BY <1>1, <1>4, <2>1 DEF SplitOK, OfLayer, Choosing
  <2> QED BY <2>2, <2>3, <2>4 DEF FlowOK
<1>7. Roomy' => Roomy
  BY <1>1 DEF Roomy
<1>8. main.pc \in Choosing \ {"prefill", "ran", "seed"}
  BY <1>1 DEF Choosing
<1> QED BY <1>1, <1>2, <1>3, <1>4, <1>5, <1>6, <1>7, <1>8, MainGoesOn

(* The load is joined.                                                      *)
LEMMA JoinKeeps ==
  ASSUME IInv, Join
  PROVE  IInv'
<1> DEFINE pc == IF load.ok THEN "selected" ELSE "failed"
<1>1. /\ main.pc = "join" /\ ~load.on /\ main' = [main EXCEPT !.pc = pc]
      /\ UNCHANGED <<cache, bytes, gpu, pending, load, faults, dropped>>
  BY DEF Join, At, To
<1>2. /\ gpu \in GpuType /\ InOrder(gpu) /\ main \in MainType /\ faults \in 0..MaxFaults
      /\ GpuOK /\ gpu.batch # 0
  BY <1>1 DEF IInv, TypeOK, GpuOK, Passing
<1>3. pc \in {"selected", "failed"} /\ (pc = "selected" <=> load.ok)
  OBVIOUS
<1> HIDE DEF pc
<1>4. /\ main' \in MainType /\ main'.pc = pc /\ main'.layer = main.layer
      /\ main'.sel = main.sel /\ main'.has = main.has /\ main'.cb = main.cb
  <2>1. pc \in PCs
    BY <1>3 DEF PCs
  <2> QED BY <1>1, <1>2, <2>1, ToIs
<1>5. GpuOK'
  BY <1>1, <1>2, <1>3, <1>4 DEF GpuOK
<1>6. FlowOK'
  <2>1. PendingOK /\ SplitOK
    BY <1>1 DEF IInv, FlowOK
  <2>2. PendingOK'
    BY <1>1, <1>3, <1>4, <2>1 DEF PendingOK
  <2>3. LoadOK'
    BY <1>1 DEF LoadOK
  <2>4. SplitOK'
    BY <1>1, <1>3, <1>4, <2>1 DEF SplitOK, OfLayer, Choosing
  <2> QED BY <2>2, <2>3, <2>4 DEF FlowOK
<1>7. Roomy' => Roomy
  BY <1>1 DEF Roomy
<1>8. main.pc \in Choosing \ {"prefill", "ran", "seed"}
  BY <1>1 DEF Choosing
<1> QED BY <1>1, <1>2, <1>4, <1>5, <1>6, <1>7, <1>8, MainGoesOn

(* The readback of a selection fails.                                       *)
LEMMA SyncFailsKeeps ==
  ASSUME IInv, NEW S \in Picks, SyncFails(S)
  PROVE  IInv'
<1>1. /\ Decoding(S) /\ faults < MaxFaults /\ faults' = faults + 1
      /\ gpu' = Drained([gpu EXCEPT !.pend = Larger(@, gpu.batch), !.batch = 0])
      /\ main' = [main EXCEPT !.pc = "failed"]
      /\ UNCHANGED <<cache, bytes, pending, load, dropped>>
  BY DEF SyncFails, Routed, To
<1>2. /\ main.pc = "layer" /\ ~load.on /\ gpu \in GpuType /\ InOrder(gpu) /\ main \in MainType
      /\ faults \in 0..MaxFaults /\ MaxFaults \in Nat
  BY <1>1, DecodingIs, CountsAreNat DEF IInv, TypeOK
<1>3. gpu' \in GpuType /\ InOrder(gpu') /\ gpu'.reads = {}
  BY <1>1, <1>2, AbandonedIs
<1>4. main' \in MainType /\ main'.pc = "failed"
  BY <1>1, <1>2, ToIs DEF PCs
<1>5. GpuOK'
  BY <1>3, <1>4 DEF GpuOK, Passing
<1>6. ~pending.on /\ pending = NoPending
  BY <1>2, NothingOnItsWay
<1>7. FlowOK'
  BY <1>1, <1>2, <1>4, <1>6 DEF FlowOK, PendingOK, LoadOK, SplitOK, Choosing
<1>8. faults' \in 0..MaxFaults /\ ~Roomy'
  BY <1>1, <1>2 DEF Roomy
<1>9. main'.pc \notin Choosing
  BY <1>4 DEF Choosing
<1> QED BY <1>1, <1>2, <1>3, <1>4, <1>5, <1>7, <1>8, <1>9, MainGoesOn

(* The selection is read back where it is used.                             *)
LEMMA SelectedReadbackKeeps ==
  ASSUME IInv, NEW S \in Picks, SelectedReadback(S)
  PROVE  IInv'
<1>1. /\ Decoding(S) /\ main' = [main EXCEPT !.pc = "selected", !.sel = S]
      /\ gpu' \in {ReadBack(gpu), Begun(Ended(gpu))}
      /\ UNCHANGED <<cache, bytes, pending, load, faults, dropped>>
  BY DEF SelectedReadback, Routed
<1>2. /\ main.pc = "layer" /\ ~load.on /\ S \subseteq OfLayer(main.layer)
      /\ Cardinality(S) = NSel /\ gpu \in GpuType /\ InOrder(gpu) /\ gpu.batch # 0
      /\ main \in MainType /\ faults \in 0..MaxFaults
  BY <1>1, DecodingIs DEF IInv, TypeOK
<1>3. S \in SUBSET Experts
  BY PicksAreOfALayer
<1>4. /\ main' \in MainType /\ main'.pc = "selected" /\ main'.layer = main.layer
      /\ main'.sel = S
  BY <1>1, <1>2, <1>3 DEF MainType
<1>5. gpu' \in GpuType /\ InOrder(gpu') /\ gpu'.batch # 0 /\ gpu'.reads = {}
  <2>1. CASE gpu' = ReadBack(gpu)
    BY <1>2, <2>1, ReadBackIs
  <2>2. CASE gpu' = Begun(Ended(gpu))
    <3> DEFINE e == Ended(gpu)
    <3>1. e \in GpuType /\ InOrder(e) /\ e.reads = {}
      BY <1>2, EndedIs
    <3>2. gpu' = Begun(e)
      BY <2>2
    <3> HIDE DEF e
    <3> QED BY <3>1, <3>2, BegunIs, ReadType
  <2> QED BY <1>1, <2>1, <2>2
<1>6. GpuOK'
  BY <1>4, <1>5 DEF GpuOK
<1>7. ~pending.on /\ pending = NoPending
  BY <1>2, NothingOnItsWay
<1>8. FlowOK'
  BY <1>1, <1>2, <1>4, <1>7 DEF FlowOK, PendingOK, LoadOK, SplitOK, OfLayer
<1>9. Roomy' => Roomy
  BY <1>1 DEF Roomy
<1> QED BY <1>1, <1>2, <1>4, <1>5, <1>6, <1>8, <1>9, MainGoesOn

(* Part of a selection is there: the rest is read meanwhile.                *)
LEMMA SplitStartKeeps ==
  ASSUME IInv, SplitStart
  PROVE  IInv'
<1>1. /\ main.pc = "selected" /\ ~load.on
      /\ main' = [main EXCEPT !.pc = "split", !.has = main.sel \ Missing]
      /\ Load("main", "early", "clear", main.layer, main.sel, {})
      /\ UNCHANGED <<cache, bytes, gpu, pending, faults, dropped>>
  BY DEF SplitStart, At
<1>2. /\ main \in MainType /\ gpu \in GpuType /\ faults \in 0..MaxFaults /\ load.held = {}
      /\ main.layer \in 1..Layers /\ main.sel \in SUBSET Experts
  BY <1>1, Unloaded
<1>3. PendingOK /\ SplitOK /\ GpuOK
  BY <1>1 DEF IInv, FlowOK
<1> DEFINE H == main.sel \ Missing
<1>4. H \in SUBSET Experts /\ H = main.sel \cap Valid(cache)
  BY <1>2 DEF Missing
<1> HIDE DEF H
<1>5. /\ main' \in MainType /\ main'.pc = "split" /\ main'.layer = main.layer
      /\ main'.sel = main.sel /\ main'.has = H
  <2>1. main' = [main EXCEPT !.pc = "split", !.has = H]
    BY <1>1 DEF H
  <2> QED BY <1>2, <1>4, <2>1 DEF MainType
<1>6. /\ load' \in LoadType /\ load'.on /\ load'.ok /\ load'.how = "early"
      /\ load'.step = "clear" /\ load'.layer = main.layer /\ load'.keep = main.sel
      /\ load'.todo = {} /\ load'.held = {}
  <2> DEFINE l == main.layer
             S == main.sel
  <2>1. l \in 1..Layers /\ S \in SUBSET Experts /\ Load("main", "early", "clear", l, S, {})
    BY <1>1, <1>2
  <2> HIDE DEF l, S
  <2>2. /\ load' \in LoadType /\ load'.on /\ load'.ok /\ load'.how = "early"
        /\ load'.step = "clear" /\ load'.layer = l /\ load'.keep = S
        /\ load'.todo = {} /\ load'.held = {}
    BY <2>1, EarlyLoadIs
  <2> QED BY <2>2 DEF l, S
<1>7. GpuOK'
  BY <1>1, <1>3, <1>5 DEF GpuOK, Passing
<1>8. FlowOK'
  <2>1. PendingOK'
    BY <1>1, <1>3, <1>5, <1>6 DEF PendingOK
  <2>2. LoadOK'
    <3>1. Names({}) = {} /\ "clear" \in Beginning /\ "clear" \notin Reading
      BY DEF Names, Beginning, Reading
    <3> QED BY <1>5, <1>6, <3>1 DEF LoadOK, OneByOne
  <2>3. SplitOK'
    <3>1. main.sel \subseteq OfLayer(main.layer)
      BY <1>1, <1>3 DEF SplitOK, Choosing
    <3> QED BY <1>1, <1>4, <1>5, <1>6, <3>1 DEF SplitOK, OfLayer
  <2> QED BY <2>1, <2>2, <2>3 DEF FlowOK
<1>9. Roomy /\ LimitsOK => LimitsOK'
  <2> SUFFICES ASSUME Roomy, LimitsOK PROVE LimitsOK'
    OBVIOUS
  <2>1. Cardinality(main.sel) = NSel
    BY <1>1 DEF LimitsOK, Choosing
  <2>2. Cardinality(load'.keep) <= Budget
    BY <1>6, <2>1 DEF Roomy
  <2>3. load'.step \in Beginning
    BY <1>6 DEF Beginning
  <2> QED BY <1>1, <1>5, <1>6, <2>1, <2>2, <2>3, LimitsOfBegun
<1>10. Roomy' => Roomy
  BY <1>1 DEF Roomy
<1> QED BY <1>1, <1>2, <1>5, <1>6, <1>7, <1>8, <1>9, <1>10, MainMoves

(* What is missing of a selection is loaded first.                          *)
LEMMA LoadMissingKeeps ==
  ASSUME IInv, LoadMissing
  PROVE  IInv'
<1>1. /\ main.pc = "selected" /\ ~load.on
      /\ main' = [main EXCEPT !.pc = "loaded", !.has = main.sel]
      /\ IF Missing = {} THEN load' = NoLoad(TRUE)
         ELSE Load("main", "missing", "clear", main.layer, main.sel, Missing)
      /\ UNCHANGED <<cache, bytes, gpu, pending, faults, dropped>>
  BY DEF LoadMissing, At
<1>2. /\ main \in MainType /\ gpu \in GpuType /\ faults \in 0..MaxFaults /\ load.held = {}
      /\ main.layer \in 1..Layers /\ main.sel \in SUBSET Experts
  BY <1>1, Unloaded
<1>3. PendingOK /\ SplitOK /\ GpuOK
  BY <1>1 DEF IInv, FlowOK
<1>4. /\ main' \in MainType /\ main'.pc = "loaded" /\ main'.layer = main.layer
      /\ main'.sel = main.sel
  BY <1>1, <1>2 DEF MainType
<1>5. main.sel \subseteq OfLayer(main.layer)
  BY <1>1, <1>3 DEF SplitOK, Choosing
<1>6. GpuOK'
  BY <1>1, <1>3, <1>4 DEF GpuOK, Passing
<1>7. Roomy' => Roomy
  BY <1>1 DEF Roomy
<1>8. Roomy /\ LimitsOK => Cardinality(main.sel) = NSel
  BY <1>1 DEF LimitsOK, Choosing
<1>9. CASE Missing = {}
  <2>1. load' \in LoadType /\ ~load'.on /\ load'.step = "clear" /\ load'.held = {}
    BY <1>1, <1>9, NoLoadIs
  <2>2. ~pending.on
    <3> SUFFICES ASSUME pending.on PROVE FALSE
      OBVIOUS
    <3>1. pending.held # {} /\ Names(pending.held) = {}
      BY <1>3, <1>9 DEF PendingOK, Missing
    <3> QED BY <3>1 DEF Names
  <2>3. pending = NoPending
    BY <1>3, <2>2 DEF PendingOK
  <2>4. FlowOK'
    <3>1. PendingOK'
      BY <1>1, <2>2, <2>3 DEF PendingOK
    <3>2. LoadOK'
      BY <2>1 DEF LoadOK
    <3>3. SplitOK'
      BY <1>4, <1>5 DEF SplitOK, OfLayer
    <3> QED BY <3>1, <3>2, <3>3 DEF FlowOK
  <2>5. Roomy /\ LimitsOK => LimitsOK'
    BY <1>1, <1>4, <1>8, <2>1, LimitsOfBegun
  <2> QED BY <1>1, <1>2, <1>4, <1>6, <1>7, <2>1, <2>4, <2>5, MainMoves
<1>10. CASE Missing # {}
  <2>1. /\ load' \in LoadType /\ load'.on /\ load'.ok /\ load'.how = "missing"
        /\ load'.step = "clear" /\ load'.layer = main.layer /\ load'.keep = main.sel
        /\ load'.todo = Missing /\ load'.held = {}
    <3> DEFINE l == main.layer
               S == main.sel
               T == Missing
    <3>1. /\ l \in 1..Layers /\ S \in SUBSET Experts /\ T \in SUBSET Experts
          /\ Load("main", "missing", "clear", l, S, T)
      BY <1>1, <1>2, <1>10 DEF Missing
    <3> HIDE DEF l, S, T
    <3>2. /\ load' \in LoadType /\ load'.on /\ load'.ok /\ load'.how = "missing"
          /\ load'.step = "clear" /\ load'.layer = l /\ load'.keep = S
          /\ load'.todo = T /\ load'.held = {}
      BY <3>1, MissingLoadIs
    <3> QED BY <3>2 DEF l, S, T
  <2>2. load'.todo = main.sel \ Valid(cache)
    BY <2>1 DEF Missing
  <2>3. FlowOK'
    <3>1. PendingOK'
      BY <1>1, <1>3, <1>4, <2>1, <2>2 DEF PendingOK
    <3>2. LoadOK'
      <4>1. Names({}) = {} /\ "clear" \in Beginning /\ "clear" \notin Reading
        BY DEF Names, Beginning, Reading
      <4> QED BY <1>4, <2>1, <2>2, <4>1 DEF LoadOK, OneByOne
    <3>3. SplitOK'
      BY <1>4, <1>5 DEF SplitOK, OfLayer
    <3> QED BY <3>1, <3>2, <3>3 DEF FlowOK
  <2>4. Roomy /\ LimitsOK => LimitsOK'
    <3> SUFFICES ASSUME Roomy, LimitsOK PROVE LimitsOK'
      OBVIOUS
    <3>1. Cardinality(load'.keep) <= Budget
      BY <1>8, <2>1 DEF Roomy
    <3>2. load'.step \in Beginning
      BY <2>1 DEF Beginning
    <3> QED BY <1>1, <1>4, <1>8, <2>1, <3>1, <3>2, LimitsOfBegun
  <2> QED BY <1>1, <1>2, <1>4, <1>6, <1>7, <2>1, <2>3, <2>4, MainMoves
<1> QED BY <1>9, <1>10

(* With no load and no early load, and no selection of a layer under way.   *)
LEMMA FlowOfQuiet ==
  ASSUME main'.pc \in {"rest", "layer", "encoded", "failed"}, ~load'.on, pending' = NoPending
  PROVE  FlowOK'
<1>1. ~pending'.on
  BY DEF NoPending
<1>2. PendingOK'
  BY <1>1 DEF PendingOK
<1>3. LoadOK'
  BY DEF LoadOK
<1>4. SplitOK'
  BY DEF SplitOK, Choosing
<1> QED BY <1>2, <1>3, <1>4 DEF FlowOK

(* The experts of a layer could not be loaded.                              *)
LEMMA LoadFailedKeeps ==
  ASSUME IInv, LoadFailed
  PROVE  IInv'
<1>1. /\ main.pc \in {"loaded", "split", "split_rest"} /\ ~load.on /\ ~load.ok
      /\ main' = [main EXCEPT !.pc = "failed"]
      /\ UNCHANGED <<cache, bytes, gpu, pending, load, faults, dropped>>
  BY DEF LoadFailed, To
<1>2. /\ gpu \in GpuType /\ InOrder(gpu) /\ main \in MainType /\ faults \in 0..MaxFaults
  BY DEF IInv, TypeOK, GpuOK
<1>3. main' \in MainType /\ main'.pc = "failed"
  BY <1>1, <1>2, ToIs DEF PCs
<1>4. pending' = NoPending
  BY <1>1, NothingOnItsWay
<1>5. GpuOK'
  BY <1>1, <1>2, <1>3 DEF GpuOK, Passing
<1>6. FlowOK'
  BY <1>1, <1>3, <1>4, FlowOfQuiet
<1>7. Roomy' => Roomy
  BY <1>1 DEF Roomy
<1>8. main'.pc \notin Choosing /\ main.pc # "ran"
  BY <1>1, <1>3 DEF Choosing
<1> QED BY <1>1, <1>2, <1>3, <1>5, <1>6, <1>7, <1>8, MainGoesOn

(* All has run, and a batch is opened.                                      *)
LEMMA EndedAndBegun ==
  ASSUME NEW g \in GpuType, InOrder(g)
  PROVE  /\ Begun(Ended(g)) \in GpuType /\ InOrder(Begun(Ended(g)))
         /\ Begun(Ended(g)).batch # 0 /\ Begun(Ended(g)).reads = {}
<1> DEFINE e == Ended(g)
<1>1. e \in GpuType /\ InOrder(e) /\ e.reads = {}
  BY EndedIs
<1> HIDE DEF e
<1>2. /\ Begun(e) \in GpuType /\ InOrder(Begun(e)) /\ Begun(e).batch # 0
      /\ Begun(e).reads = {}
  BY <1>1, BegunIs, ReadType
<1> QED BY <1>2 DEF e

(* A prompt's experts have been read.                                       *)
LEMMA PrefillRanKeeps ==
  ASSUME IInv, PrefillRan
  PROVE  IInv'
<1>1. /\ main.pc = "ran" /\ ~load.on /\ main' = [main EXCEPT !.pc = "encoded"]
      /\ gpu' = Begun(Ended(gpu))
      /\ UNCHANGED <<cache, bytes, pending, load, faults, dropped>>
  BY DEF PrefillRan, At, To
<1>2. /\ gpu \in GpuType /\ InOrder(gpu) /\ main \in MainType /\ faults \in 0..MaxFaults
  BY DEF IInv, TypeOK, GpuOK
<1>3. main' \in MainType /\ main'.pc = "encoded"
  BY <1>1, <1>2, ToIs DEF PCs
<1>4. pending' = NoPending
  BY <1>1, NothingOnItsWay
<1>5. gpu' \in GpuType /\ InOrder(gpu') /\ gpu'.batch # 0 /\ gpu'.reads = {}
  BY <1>1, <1>2, EndedAndBegun
<1>6. GpuOK'
  BY <1>3, <1>5 DEF GpuOK
<1>7. FlowOK'
  BY <1>1, <1>3, <1>4, FlowOfQuiet
<1>8. Roomy' => Roomy
  BY <1>1 DEF Roomy
<1>9. main'.pc \notin Choosing
  BY <1>3 DEF Choosing
<1> QED BY <1>1, <1>2, <1>3, <1>5, <1>6, <1>7, <1>8, <1>9, MainGoesOn

(* The next layer begins, or the pass has run.                              *)
LEMMA NextLayerKeeps ==
  ASSUME IInv, NextLayer
  PROVE  IInv'
<1>1. /\ main.pc = "encoded" /\ ~load.on
      /\ \/ /\ main.layer < Layers
            /\ main' = [main EXCEPT !.pc = "layer", !.layer = main.layer + 1]
            /\ gpu' \in {gpu, Begun(Ended(gpu))}
         \/ main' = [main EXCEPT !.pc = "rest"] /\ gpu' = Ended(gpu)
      /\ UNCHANGED <<cache, bytes, pending, load, faults, dropped>>
  BY DEF NextLayer, At, To
<1>2. /\ gpu \in GpuType /\ InOrder(gpu) /\ main \in MainType /\ faults \in 0..MaxFaults
      /\ gpu.batch # 0
  BY <1>1 DEF IInv, TypeOK, GpuOK, Passing
<1>3. main' \in MainType /\ main'.pc \in {"layer", "rest"} /\ gpu' \in GpuType /\ GpuOK'
      /\ gpu'.reads \subseteq gpu.reads
  <2>1. CASE main' = [main EXCEPT !.pc = "rest"] /\ gpu' = Ended(gpu)
    <3>1. main' \in MainType /\ main'.pc = "rest"
      BY <1>2, <2>1, ToIs DEF PCs
    <3>2. /\ gpu' \in GpuType /\ InOrder(gpu') /\ gpu'.batch = 0 /\ gpu'.pend = 0
          /\ gpu'.reads = {}
      BY <1>2, <2>1, EndedIs
    <3>3. GpuOK'
      BY <3>1, <3>2 DEF GpuOK, Passing
    <3> QED BY <3>1, <3>2, <3>3
  <2>2. CASE /\ main.layer < Layers
             /\ main' = [main EXCEPT !.pc = "layer", !.layer = main.layer + 1]
             /\ gpu' \in {gpu, Begun(Ended(gpu))}
    <3> DEFINE l == main.layer + 1
    <3>1. l \in 1..Layers
      BY <1>2, <2>2, CountsAreNat DEF MainType
    <3>2. main' = [main EXCEPT !.pc = "layer", !.layer = l]
      BY <2>2
    <3> HIDE DEF l
    <3>3. main' \in MainType /\ main'.pc = "layer"
      BY <1>2, <3>1, <3>2 DEF MainType
    <3>4. /\ gpu' \in GpuType /\ InOrder(gpu') /\ gpu'.batch # 0
          /\ gpu'.reads \subseteq gpu.reads
      BY <1>2, <2>2, EndedAndBegun
    <3>5. GpuOK'
      BY <3>3, <3>4 DEF GpuOK
    <3> QED BY <3>3, <3>4, <3>5
  <2> QED BY <1>1, <2>1, <2>2
<1>4. pending' = NoPending
  BY <1>1, NothingOnItsWay
<1>5. FlowOK'
  BY <1>1, <1>3, <1>4, FlowOfQuiet
<1>6. Roomy' => Roomy
  BY <1>1 DEF Roomy
<1>7. main'.pc \notin Choosing
  BY <1>3 DEF Choosing
<1> QED BY <1>1, <1>2, <1>3, <1>5, <1>6, <1>7, MainGoesOn

(* A pass that failed is over.                                              *)
LEMMA GiveUpKeeps ==
  ASSUME IInv, GiveUp
  PROVE  IInv'
<1>1. /\ main.pc = "failed" /\ ~load.on /\ main' = [main EXCEPT !.pc = "rest"]
      /\ gpu' = Synchronized(gpu)
      /\ UNCHANGED <<cache, bytes, pending, load, faults, dropped>>
  BY DEF GiveUp, At, To
<1>2. /\ gpu \in GpuType /\ InOrder(gpu) /\ main \in MainType /\ faults \in 0..MaxFaults
  BY DEF IInv, TypeOK, GpuOK
<1>3. main' \in MainType /\ main'.pc = "rest"
  BY <1>1, <1>2, ToIs DEF PCs
<1>4. pending' = NoPending
  BY <1>1, NothingOnItsWay
<1>5. /\ gpu' \in GpuType /\ InOrder(gpu') /\ gpu'.batch = 0 /\ gpu'.pend = 0
      /\ gpu'.reads = {}
  BY <1>1, <1>2, SynchronizedIs
<1>6. GpuOK'
  BY <1>3, <1>5 DEF GpuOK, Passing
<1>7. FlowOK'
  BY <1>1, <1>3, <1>4, FlowOfQuiet
<1>8. Roomy' => Roomy
  BY <1>1 DEF Roomy
<1>9. main'.pc \notin Choosing
  BY <1>3 DEF Choosing
<1> QED BY <1>1, <1>2, <1>3, <1>5, <1>6, <1>7, <1>8, <1>9, MainGoesOn

(* The GPU has run a command buffer.                                        *)
LEMMA GpuRunsKeeps ==
  ASSUME IInv, GpuRuns
  PROVE  IInv'
<1> DEFINE n == Min({r.seq : r \in {s \in gpu.reads : s.seq # gpu.batch}})
           R == {r \in gpu.reads : r.seq # n}
<1>1. /\ main.pc # "aborted" /\ gpu' = [gpu EXCEPT !.reads = R] /\ gpu.reads # {}
      /\ UNCHANGED <<cache, bytes, pending, load, main, faults, dropped>>
  BY DEF GpuRuns
<1>2. R \subseteq gpu.reads
  OBVIOUS
<1> HIDE DEF R
<1>3. /\ gpu \in GpuType /\ InOrder(gpu) /\ main \in MainType /\ faults \in 0..MaxFaults
      /\ GpuOK
  BY DEF IInv, TypeOK, GpuOK
<1>4. /\ gpu' \in GpuType /\ gpu'.seq = gpu.seq /\ gpu'.batch = gpu.batch
      /\ gpu'.pend = gpu.pend /\ gpu'.done = gpu.done /\ gpu'.reads = R
  BY <1>1, <1>2, <1>3 DEF GpuType
<1>5. GpuOK'
  BY <1>1, <1>2, <1>3, <1>4 DEF GpuOK, InOrder
<1>6. FlowOK'
  <2>1. PendingOK /\ LoadOK /\ SplitOK
    BY <1>1 DEF IInv, FlowOK
  <2>2. PendingOK' /\ LoadOK' /\ SplitOK'
    BY <1>1, <1>4, <2>1 DEF PendingOK, LoadOK, SplitOK, OneByOne, OfLayer
  <2> QED BY <2>2 DEF FlowOK
<1>7. Roomy' => Roomy
  BY <1>1 DEF Roomy
<1>8. TypeOK /\ ReadsOK /\ EntriesOK /\ TakingOK /\ NothingLost
  BY DEF IInv
<1>9. TypeOK'
  BY <1>1, <1>4, <1>8 DEF TypeOK
<1>10. ReadsOK'
  BY <1>1, <1>2, <1>4, <1>8, ReadsStay
<1>11. EntriesOK' /\ TakingOK'
  BY <1>1, <1>8 DEF EntriesOK, TakingOK, Taking
<1>12. NothingLost'
  BY <1>1, <1>8 DEF NothingLost
<1>13. Roomy' => BudgetOK'
  <2> SUFFICES ASSUME Roomy' PROVE BudgetOK'
    OBVIOUS
  <2>1. SlotsOK /\ LimitsOK
    BY <1>7 DEF IInv, BudgetOK
  <2>2. Taking' = Taking
    BY <1>1 DEF Taking
  <2>3. SlotsOK'
    BY <1>1, <2>1, <2>2, SlotsStay
  <2>4. Count' = Count
    BY <1>1 DEF Count
  <2>5. LimitsOK'
    BY <1>1, <2>1, <2>4 DEF LimitsOK, OneByOne
  <2> QED BY <2>3, <2>5 DEF BudgetOK
<1> QED BY <1>5, <1>6, <1>9, <1>10, <1>11, <1>12, <1>13 DEF IInv

-----------------------------------------------------------------------------
(* Steps of the main thread that change the cache *)

(* What pruning and stamping do to the cache together: the entries of X are *)
(* gone, their slots are free, and the others have the buffers they had.    *)
Lighter(c, e, X) ==
  \E d \in CacheType :
    /\ Shrunk(c, d, X)
    /\ d.free = c.free \cup ({c.entry[x].buf : x \in X} \cap Slots)
    /\ d.locked = c.locked /\ d.cap = c.cap
    /\ e \in CacheType /\ Valid(e) = Valid(d)
    /\ \A z \in Experts : e.entry[z].buf = d.entry[z].buf
    /\ e.free = d.free /\ e.used = d.used /\ e.locked = d.locked /\ e.cap = d.cap

(* What is left of a cache that has fewer entries.                          *)
LEMMA LighterIs ==
  ASSUME NEW c \in CacheType, NEW e, NEW X \in SUBSET Valid(c), Lighter(c, e, X)
  PROVE  /\ e \in CacheType /\ Valid(e) = Valid(c) \ X
         /\ \A z \in Experts : z \notin X => e.entry[z].buf = c.entry[z].buf
         /\ e.free = c.free \cup ({c.entry[x].buf : x \in X} \cap Slots)
         /\ e.used = c.used /\ e.locked = c.locked /\ e.cap = c.cap
<1>1. PICK d \in CacheType :
        /\ Shrunk(c, d, X)
        /\ d.free = c.free \cup ({c.entry[x].buf : x \in X} \cap Slots)
        /\ d.locked = c.locked /\ d.cap = c.cap
        /\ e \in CacheType /\ Valid(e) = Valid(d)
        /\ \A z \in Experts : e.entry[z].buf = d.entry[z].buf
        /\ e.free = d.free /\ e.used = d.used /\ e.locked = d.locked /\ e.cap = d.cap
  BY DEF Lighter
<1>2. /\ d.entry = [z \in Experts |-> IF z \in X THEN Empty ELSE c.entry[z]]
      /\ d.used = c.used
  BY <1>1 DEF Shrunk
<1>3. /\ Valid(d) = Valid(c) \ X
      /\ \A z \in Experts : z \notin X => d.entry[z] = c.entry[z]
  BY <1>2, ShrunkValid
<1> QED BY <1>1, <1>2, <1>3

(* Its owners are those of before but for the free list.                    *)
LEMMA LighterEntries ==
  ASSUME NEW c \in CacheType, NEW e, NEW X \in SUBSET Valid(c), Lighter(c, e, X),
         NEW b, EntriesIn(c, b)
  PROVE  /\ EntriesIn(e, b)
         /\ \A held : TakenFrom(c, held) => TakenFrom(e, held)
<1>1. /\ e \in CacheType /\ Valid(e) = Valid(c) \ X
      /\ \A z \in Experts : z \notin X => e.entry[z].buf = c.entry[z].buf
      /\ e.free = c.free \cup ({c.entry[x].buf : x \in X} \cap Slots)
      /\ e.used = c.used
  BY LighterIs
<1>2. \A z \in Valid(e) : z \in Valid(c) /\ z \notin X /\ e.entry[z].buf = c.entry[z].buf
  BY <1>1 DEF Valid
<1>3. /\ \A x \in Valid(c) : b[c.entry[x].buf] = x
      /\ \A x, y \in Valid(c) : c.entry[x].buf = c.entry[y].buf => x = y
      /\ \A x \in Valid(c) : /\ c.entry[x].buf \notin c.free
                             /\ c.entry[x].buf \in Slots => c.entry[x].buf <= c.used
      /\ \A s \in c.free : s <= c.used
  BY DEF EntriesIn
<1>4. \A s \in e.free : s \in c.free \/ \E x \in X : s = c.entry[x].buf /\ s \in Slots
  BY <1>1
<1>5. \A x \in Valid(e) : b[e.entry[x].buf] = x
  BY <1>2, <1>3
<1>6. \A x, y \in Valid(e) : e.entry[x].buf = e.entry[y].buf => x = y
  BY <1>2, <1>3
<1>7. \A x \in Valid(e) : e.entry[x].buf \notin e.free
  <2> SUFFICES ASSUME NEW x \in Valid(e), e.entry[x].buf \in e.free PROVE FALSE
    OBVIOUS
  <2> DEFINE s == e.entry[x].buf
  <2>1. CASE s \in c.free
    BY <1>2, <1>3, <2>1
  <2>2. CASE \E y \in X : s = c.entry[y].buf
    BY <1>2, <1>3, <2>2
  <2> QED BY <1>4, <2>1, <2>2
<1>8. \A x \in Valid(e) : e.entry[x].buf \in Slots => e.entry[x].buf <= e.used
  BY <1>1, <1>2, <1>3
<1>9. \A s \in e.free : s <= e.used
  BY <1>1, <1>3, <1>4
<1>10. EntriesIn(e, b)
  BY <1>5, <1>6, <1>7, <1>8, <1>9 DEF EntriesIn
<1>11. ASSUME NEW held, TakenFrom(c, held) PROVE TakenFrom(e, held)
  <2>1. \A h \in held : /\ h.buf \notin c.free
                        /\ h.buf \in Slots => h.buf <= c.used
                        /\ \A x \in Valid(c) : c.entry[x].buf # h.buf
    BY <1>11 DEF TakenFrom
  <2>2. \A h \in held : h.buf \notin e.free
    BY <1>4, <2>1
  <2>3. \A h \in held : \A x \in Valid(e) : e.entry[x].buf # h.buf
    BY <1>2, <2>1
  <2> QED BY <1>1, <2>1, <2>2, <2>3 DEF TakenFrom
<1> QED BY <1>10, <1>11

(* The main thread prunes the cache, stamps entries and may begin a load.   *)
LEMMA MainPrunes ==
  ASSUME IInv, ~load.on, main' \in MainType, gpu' \in GpuType, GpuOK', ReadsOK', FlowOK',
         load' \in LoadType, load'.held = {}, load'.step # "install",
         load'.on \/ load'.step = "clear",
         faults' \in 0..MaxFaults, Roomy' => Roomy, Roomy /\ LimitsOK => LimitsOK',
         NEW X \in SUBSET Valid(cache), Lighter(cache, cache', X),
         UNCHANGED <<bytes, pending, dropped>>
  PROVE  IInv'
<1>1. /\ TypeOK /\ EntriesOK /\ TakingOK /\ NothingLost /\ cache \in CacheType
      /\ load.held = {} /\ Taking = pending.held
  BY Unloaded DEF IInv
<1>2. Taking' = Taking
  BY <1>1 DEF Taking
<1>3. /\ cache' \in CacheType
      /\ \A z \in Experts : z \notin X => cache'.entry[z].buf = cache.entry[z].buf
      /\ cache'.free = cache.free \cup ({cache.entry[x].buf : x \in X} \cap Slots)
      /\ cache'.used = cache.used /\ cache'.locked = cache.locked /\ cache'.cap = cache.cap
  BY <1>1, LighterIs
<1>4. TypeOK'
  BY <1>1, <1>3 DEF TypeOK
<1>5. EntriesIn(cache', bytes) /\ TakenFrom(cache', Taking)
  BY <1>1, LighterEntries DEF EntriesOK, TakingOK
<1>6. EntriesOK'
  BY <1>5 DEF EntriesOK
<1>7. TakingOK'
  BY <1>1, <1>2, <1>5 DEF TakingOK
<1>8. ASSUME NEW s \in Slots, NEW z \in Experts, s = cache.entry[z].buf
      PROVE  s \in cache'.free \/ \E y \in Experts : s = cache'.entry[y].buf
  <2>1. CASE z \in X
    BY <1>3, <1>8, <2>1
  <2>2. CASE z \notin X
    BY <1>3, <1>8, <2>2
  <2> QED BY <2>1, <2>2
<1>9. NothingLost'
  <2> SUFFICES ASSUME ~dropped, NEW s \in cache.locked
               PROVE  \/ s \in cache'.free \/ \E z \in Experts : s = cache'.entry[z].buf
                      \/ \E h \in Taking : s = h.buf
    BY <1>2, <1>3 DEF NothingLost, Taking
  <2>1. s \in Slots
    BY <1>1 DEF CacheType
  <2>2. CASE s \in cache.free
    BY <1>3, <2>2
  <2>3. CASE \E z \in Experts : s = cache.entry[z].buf
    BY <1>8, <2>1, <2>3
  <2> QED BY <1>1, <2>2, <2>3, LockedAre
<1>10. Roomy' => BudgetOK'
  <2> SUFFICES ASSUME Roomy' PROVE BudgetOK'
    OBVIOUS
  <2>1. SlotsOK /\ LimitsOK /\ LimitsOK'
    BY DEF IInv, BudgetOK
  <2>2. \A x \in Valid(cache') : cache'.entry[x].buf \in Slots
    <3>1. Valid(cache') = Valid(cache) \ X
      BY <1>1, LighterIs
    <3>2. \A x \in Valid(cache) : cache.entry[x].buf \in Slots /\ x \in Experts
      BY <2>1 DEF SlotsOK, Valid
    <3> QED BY <1>3, <3>1, <3>2
  <2>3. ASSUME NEW s \in 1..cache.used
        PROVE  \/ s \in cache'.free \/ \E z \in Experts : s = cache'.entry[z].buf
               \/ \E h \in Taking : s = h.buf
    <3>1. s \in cache.free \cup {cache.entry[x].buf : x \in Experts}
                \cup {h.buf : h \in Taking}
      BY <2>1 DEF SlotsOK
    <3>2. s \in Slots
      BY <1>1, CountsAreNat DEF CacheType, Slots
    <3>3. CASE \E z \in Experts : s = cache.entry[z].buf
      BY <1>8, <3>2, <3>3
    <3> QED BY <1>3, <3>1, <3>3
  <2>4. SlotsOK'
    BY <1>2, <1>3, <2>1, <2>2, <2>3 DEF SlotsOK
  <2> QED BY <2>1, <2>4 DEF BudgetOK
<1> QED BY <1>4, <1>6, <1>7, <1>9, <1>10 DEF IInv

(* prune_global, and prune_global with what is stamped afterwards.          *)
LEMMA PrunedLighter ==
  ASSUME NEW c \in CacheType, NEW g, NEW layer, NEW keep, NEW d \in Pruned(c, g, layer, keep),
         NEW h, h.batch \in Nat, NEW Y
  PROVE  \E X \in SUBSET Valid(c) :
           /\ X \cap InFlight(c, g) = {} /\ X \cap Kept(layer, keep) = {}
           /\ Shrunk(c, d, X) /\ d \in CacheType
           /\ Lighter(c, d, X) /\ Lighter(c, Marked(d, h, Y), X)
<1>1. PICK X \in SUBSET Spare(c, g, layer, keep) :
        /\ Shrunk(c, d, X)
        /\ d.free = c.free \cup ({c.entry[x].buf : x \in X} \cap Slots)
        /\ d.locked = c.locked /\ d.cap = c.cap
  BY PrunedIs
<1>2. /\ X \subseteq Valid(c) /\ X \cap InFlight(c, g) = {} /\ X \cap Kept(layer, keep) = {}
  BY <1>1 DEF Spare
<1>3. d \in CacheType
  BY <1>1 DEF Shrunk
<1>4. Lighter(c, d, X)
  BY <1>1, <1>3 DEF Lighter
<1> DEFINE e == Marked(d, h, Y)
<1>5. /\ e \in CacheType /\ Valid(e) = Valid(d)
      /\ \A z \in Experts : e.entry[z].buf = d.entry[z].buf
      /\ e.free = d.free /\ e.used = d.used /\ e.locked = d.locked /\ e.cap = d.cap
  BY <1>3, MarkedIs
<1> HIDE DEF e
<1>6. Lighter(c, e, X)
  BY <1>1, <1>3, <1>5 DEF Lighter
<1> QED BY <1>1, <1>2, <1>3, <1>4, <1>6 DEF e

(* cache_clear_entry for entries that are not in flight.                    *)
LEMMA ClearedLighter ==
  ASSUME NEW c \in CacheType, NEW g, NEW X
  PROVE  Lighter(c, Cleared(c, g, X), (X \cap Valid(c)) \ InFlight(c, g))
<1> DEFINE d == Cleared(c, g, X)
           Y == (X \cap Valid(c)) \ InFlight(c, g)
<1>1. /\ Shrunk(c, d, Y)
      /\ d.free = c.free \cup ({c.entry[x].buf : x \in Y} \cap Slots)
      /\ d.locked = c.locked /\ d.cap = c.cap
  BY ClearedIs
<1> HIDE DEF d, Y
<1>2. d \in CacheType
  BY <1>1 DEF Shrunk
<1>3. Lighter(c, d, Y)
  BY <1>1, <1>2 DEF Lighter
<1> QED BY <1>3 DEF d, Y

(* The entries that are left are what they were.                            *)
LEMMA ShrunkIs ==
  ASSUME NEW c \in CacheType, NEW d, NEW X \in SUBSET Valid(c), Shrunk(c, d, X)
  PROVE  /\ Valid(d) = Valid(c) \ X
         /\ \A z \in Experts : z \notin X => d.entry[z] = c.entry[z]
<1>1. d.entry = [z \in Experts |-> IF z \in X THEN Empty ELSE c.entry[z]]
  BY DEF Shrunk
<1> QED BY <1>1, ShrunkValid

(* What is encoded is read from where it is, and stamped with the batch.    *)
LEMMA ReadsEncoded ==
  ASSUME IInv, main.pc # "ran", NEW X \in SUBSET Valid(cache),
         X \cap InFlight(cache, gpu) = {}, NEW d \in CacheType, Shrunk(cache, d, X),
         NEW Y \in SUBSET Valid(d), gpu.batch # 0, NEW g, g.batch = gpu.batch,
         cache' = Marked(d, g, Y), NEW R \in SUBSET gpu.reads,
         gpu'.reads = R \cup {[seq |-> gpu.batch, x |-> x, buf |-> d.entry[x].buf] : x \in Y},
         UNCHANGED bytes
  PROVE  ReadsOK'
<1>1. gpu \in GpuType /\ cache \in CacheType /\ InOrder(gpu) /\ EntriesIn(cache, bytes)
  BY DEF IInv, TypeOK, GpuOK, EntriesOK
<1>2. gpu.batch \in Nat /\ gpu.batch = gpu.seq
  BY <1>1, ReadType DEF InOrder
<1>3. \A z \in Experts : /\ cache'.entry[z].buf = d.entry[z].buf
                         /\ cache'.entry[z].seq = IF z \in Y THEN gpu.batch
                                                  ELSE d.entry[z].seq
  <2>1. g.batch \in Nat
    BY <1>2
  <2> QED BY <2>1, MarkedIs
<1>4. /\ Valid(d) = Valid(cache) \ X
      /\ \A z \in Experts : z \notin X => d.entry[z] = cache.entry[z]
  BY <1>1, ShrunkIs
<1>5. ASSUME NEW r \in R
      PROVE  /\ cache'.entry[r.x].buf = r.buf /\ bytes[r.buf] = r.x
             /\ cache'.entry[r.x].seq >= r.seq
  <2>1. /\ r.x \in InFlight(cache, gpu) /\ r.x \in Experts
        /\ cache.entry[r.x].buf = r.buf /\ bytes[r.buf] = r.x
        /\ cache.entry[r.x].seq >= r.seq
    BY ReadsAreInFlight
  <2>2. d.entry[r.x] = cache.entry[r.x]
    BY <1>4, <2>1
  <2>3. r.seq <= gpu.seq /\ r.seq \in Nat
    BY <1>1, ReadType DEF InOrder
  <2> QED BY <1>2, <1>3, <2>1, <2>2, <2>3
<1>6. ASSUME NEW x \in Y
      PROVE  /\ cache'.entry[x].buf = d.entry[x].buf /\ bytes[d.entry[x].buf] = x
             /\ cache'.entry[x].seq >= gpu.batch
  <2>1. x \in Valid(cache) /\ x \notin X /\ x \in Experts
    BY <1>4 DEF Valid
  <2>2. d.entry[x] = cache.entry[x] /\ bytes[cache.entry[x].buf] = x
    BY <1>1, <1>4, <2>1 DEF EntriesIn
  <2> QED BY <1>2, <1>3, <2>1, <2>2
<1>7. \A r \in gpu'.reads :
        \/ r \in R
        \/ \E x \in Y : r = [seq |-> gpu.batch, x |-> x, buf |-> d.entry[x].buf]
  OBVIOUS
<1>8. ASSUME NEW r \in gpu'.reads
      PROVE  /\ cache'.entry[r.x].buf = r.buf /\ bytes[r.buf] = r.x
             /\ cache'.entry[r.x].seq >= r.seq
  <2>1. CASE r \in R
    BY <1>5, <2>1
  <2>2. CASE \E x \in Y : r = [seq |-> gpu.batch, x |-> x, buf |-> d.entry[x].buf]
    <3>1. PICK x \in Y : r = [seq |-> gpu.batch, x |-> x, buf |-> d.entry[x].buf]
      BY <2>2
    <3>2. r.x = x /\ r.seq = gpu.batch /\ r.buf = d.entry[x].buf
      BY <3>1
    <3> QED BY <1>6, <3>2
  <2> QED BY <1>7, <2>1, <2>2
<1> QED BY <1>8 DEF ReadsOK

(* The routed experts of a layer are encoded, or found not to be there.     *)
LEMMA LayerEncoded ==
  ASSUME IInv, main.pc \in {"loaded", "split_rest"}, ~load.on,
         NEW c \in Pruned(cache, gpu, main.layer, main.sel),
         NEW g \in GpuType, InOrder(g), g.batch = gpu.batch, g.reads \subseteq gpu.reads,
         Encode(c, g, main.sel, gpu.batch, To("encoded") /\ UNCHANGED load),
         UNCHANGED <<bytes, pending, faults, dropped>>
  PROVE  IInv'
<1> DEFINE S == main.sel
<1>1. /\ cache \in CacheType /\ gpu \in GpuType /\ InOrder(gpu) /\ main \in MainType
      /\ load \in LoadType /\ load.held = {} /\ load.step = "clear" /\ faults \in 0..MaxFaults
      /\ GpuOK /\ S \in SUBSET Experts
  BY Unloaded DEF IInv
<1>2. gpu.batch # 0 /\ gpu.batch \in Nat
  BY <1>1, ReadType DEF GpuOK, Passing
<1>3. PICK X \in SUBSET Valid(cache) :
        /\ X \cap InFlight(cache, gpu) = {}
        /\ Shrunk(cache, c, X) /\ c \in CacheType
        /\ Lighter(cache, c, X) /\ Lighter(cache, Marked(c, g, S), X)
  BY <1>1, <1>2, PrunedLighter
<1>4. pending' = NoPending
  BY NothingOnItsWay
<1>5. \/ /\ S \subseteq Valid(c) /\ cache' = Marked(c, g, S)
         /\ gpu' = Encoded(g, c, S, gpu.batch)
         /\ main' = [main EXCEPT !.pc = "encoded"] /\ load' = load
      \/ /\ cache' = c /\ gpu' = g
         /\ main' = [main EXCEPT !.pc = "failed"] /\ load' = load
  BY DEF Encode, To
<1> HIDE DEF S
<1>6. /\ main' \in MainType /\ main'.pc \in {"encoded", "failed"}
  <2>1. PICK pc \in {"encoded", "failed"} : main' = [main EXCEPT !.pc = pc]
    BY <1>5
  <2>2. pc \in PCs
    BY DEF PCs
  <2> QED BY <1>1, <2>1, <2>2, ToIs
<1>7. Lighter(cache, cache', X)
  BY <1>3, <1>5
<1>8. /\ gpu' \in GpuType /\ InOrder(gpu') /\ gpu'.batch = gpu.batch /\ ReadsOK'
  <2>1. CASE cache' = c /\ gpu' = g
    <3>1. ReadsOK'
      <4>1. cache'.entry = [z \in Experts |-> IF z \in X THEN Empty ELSE cache.entry[z]]
        BY <1>3, <2>1 DEF Shrunk
      <4> QED BY <1>3, <2>1, <4>1, ShrunkReads
    <3> QED BY <2>1, <3>1
  <2>2. CASE /\ S \subseteq Valid(c) /\ cache' = Marked(c, g, S)
             /\ gpu' = Encoded(g, c, S, gpu.batch)
    <3>1. /\ gpu' \in GpuType /\ InOrder(gpu') /\ gpu'.batch = gpu.batch
          /\ gpu'.reads = g.reads \cup {[seq |-> gpu.batch, x |-> x, buf |-> c.entry[x].buf]
                                        : x \in S}
      BY <1>2, <1>3, <2>2, EncodedIs
    <3>2. ReadsOK'
      BY <1>2, <1>3, <2>2, <3>1, ReadsEncoded
    <3> QED BY <3>1, <3>2
  <2> QED BY <1>5, <2>1, <2>2
<1>9. GpuOK'
  BY <1>2, <1>6, <1>8 DEF GpuOK
<1>10. FlowOK'
  BY <1>4, <1>5, <1>6, FlowOfQuiet
<1>11. LimitsOK => LimitsOK'
  <2>1. main'.pc \notin Choosing /\ ~load'.on /\ load'.step = "clear"
    BY <1>1, <1>5, <1>6 DEF Choosing
  <2> QED BY <2>1, LimitsOfBegun
<1>12. Roomy' => Roomy
  BY DEF Roomy
<1> QED BY <1>1, <1>5, <1>6, <1>7, <1>8, <1>9, <1>10, <1>11, <1>12, MainPrunes

(* The routed experts of a layer are encoded.                               *)
LEMMA EncodeLoadedKeeps ==
  ASSUME IInv, EncodeLoaded
  PROVE  IInv'
<1>1. /\ main.pc = "loaded" /\ ~load.on
      /\ UNCHANGED <<bytes, pending, faults, dropped>>
  BY DEF EncodeLoaded, At
<1>2. PICK c \in Pruned(cache, gpu, main.layer, main.sel) :
        Encode(c, gpu, main.sel, gpu.batch, To("encoded") /\ UNCHANGED load)
  BY DEF EncodeLoaded
<1>3. gpu \in GpuType /\ InOrder(gpu) /\ gpu.reads \subseteq gpu.reads
  BY DEF IInv, TypeOK, GpuOK
<1> QED BY <1>1, <1>2, <1>3, LayerEncoded

(* The second stage of a split layer is encoded.                            *)
LEMMA EncodeMissingKeeps ==
  ASSUME IInv, EncodeMissing
  PROVE  IInv'
<1> DEFINE g == Drained(gpu)
<1>1. /\ main.pc = "split_rest" /\ ~load.on
      /\ UNCHANGED <<bytes, pending, faults, dropped>>
  BY DEF EncodeMissing, At
<1>2. main.cb = gpu.batch
  BY <1>1 DEF IInv, FlowOK, SplitOK
<1>3. PICK c \in Pruned(cache, gpu, main.layer, main.sel) :
        Encode(c, g, main.sel, gpu.batch, To("encoded") /\ UNCHANGED load)
  BY <1>2 DEF EncodeMissing
<1>4. gpu \in GpuType /\ InOrder(gpu)
  BY DEF IInv, TypeOK, GpuOK
<1>5. g \in GpuType /\ InOrder(g) /\ g.batch = gpu.batch /\ g.reads \subseteq gpu.reads
  BY <1>4, DrainedIs
<1> HIDE DEF g
<1> QED BY <1>1, <1>3, <1>5, LayerEncoded

(* A cache is what is left of it when no entry goes.                        *)
LEMMA LighterSame ==
  ASSUME NEW c \in CacheType
  PROVE  Lighter(c, c, {})
<1>1. c.entry = [x \in Experts |-> IF x \in {} THEN Empty ELSE c.entry[x]]
  BY DEF CacheType
<1>2. Shrunk(c, c, {})
  BY <1>1 DEF Shrunk
<1>3. c.free = c.free \cup ({c.entry[x].buf : x \in {}} \cap Slots)
  OBVIOUS
<1> QED BY <1>2, <1>3 DEF Lighter

(* Experts loaded in advance: the cache is pruned, or the load has failed.  *)
LEMMA SeededKeeps ==
  ASSUME IInv, Seeded
  PROVE  IInv'
<1>1. /\ main.pc = "seed" /\ ~load.on /\ main' = [main EXCEPT !.pc = "rest"]
      /\ cache' = cache \/ cache' \in Pruned(cache, gpu, main.layer, main.sel)
      /\ UNCHANGED <<bytes, gpu, pending, load, faults, dropped>>
  BY DEF Seeded, At, To
<1>2. /\ cache \in CacheType /\ gpu \in GpuType /\ InOrder(gpu) /\ main \in MainType
      /\ load \in LoadType /\ load.held = {} /\ load.step = "clear" /\ faults \in 0..MaxFaults
  BY <1>1, Unloaded
<1>3. gpu.batch = 0 /\ gpu.pend = 0 /\ gpu.reads = {} /\ gpu.batch \in Nat
  BY <1>1, <1>2, ReadType DEF IInv, GpuOK
<1>4. main' \in MainType /\ main'.pc = "rest"
  BY ZenonT(40), <1>1, <1>2, ToIs DEF PCs
<1>5. \E X \in SUBSET Valid(cache) : Lighter(cache, cache', X)
  <2>1. CASE cache' = cache
    BY <1>2, <2>1, LighterSame
  <2>2. CASE cache' \in Pruned(cache, gpu, main.layer, main.sel)
    BY <1>2, <1>3, <2>2, PrunedLighter
  <2> QED BY <1>1, <2>1, <2>2
<1>6. PICK X \in SUBSET Valid(cache) : Lighter(cache, cache', X)
  BY <1>5
<1>7. GpuOK'
  BY <1>1, <1>2, <1>3, <1>4 DEF GpuOK, Passing
<1>8. ReadsOK'
  BY <1>1, <1>3 DEF ReadsOK
<1>9. pending' = NoPending
  BY <1>1, NothingOnItsWay
<1>10. FlowOK'
  BY <1>1, <1>4, <1>9, FlowOfQuiet
<1>11. LimitsOK => LimitsOK'
  <2>1. main'.pc \notin Choosing /\ ~load'.on /\ load'.step = "clear"
    BY <1>1, <1>2, <1>4 DEF Choosing
  <2> QED BY <1>1, <2>1, LimitsOfBegun
<1>12. Roomy' => Roomy
  BY <1>1 DEF Roomy
<1> QED BY <1>1, <1>2, <1>4, <1>6, <1>7, <1>8, <1>10, <1>11, <1>12, MainPrunes

(* The stage of the experts that were there is encoded, the rest loaded.    *)
LEMMA EncodeResidentKeeps ==
  ASSUME IInv, EncodeResident
  PROVE  IInv'
<1> DEFINE S == main.sel
           H == main.has
           l == main.layer
<1>1. /\ main.pc = "split" /\ ~load.on /\ load.ok
      /\ UNCHANGED <<bytes, pending, faults, dropped>>
  BY DEF EncodeResident, At
<1>2. PICK c \in Pruned(cache, gpu, l, S) :
        IF H \subseteq Valid(c)
        THEN LET g == Flushed(Encoded(gpu, c, H, gpu.batch))
             IN /\ cache' = Marked(c, gpu, H)
                /\ gpu' = g
                /\ main' = [main EXCEPT !.pc = "split_rest", !.cb = g.batch]
                /\ Load("main", "missing", "clear", l, S, S \ H)
        ELSE cache' = c /\ To("failed") /\ UNCHANGED <<gpu, load>>
  BY DEF EncodeResident
<1>3. /\ cache \in CacheType /\ gpu \in GpuType /\ InOrder(gpu) /\ main \in MainType
      /\ faults \in 0..MaxFaults /\ GpuOK /\ PendingOK /\ SplitOK
      /\ l \in 1..Layers /\ S \in SUBSET Experts
  BY <1>1, Unloaded DEF IInv, FlowOK
<1>4. H \in SUBSET Experts
  BY <1>3 DEF MainType
<1>5. gpu.batch # 0 /\ gpu.batch \in Nat
  BY <1>1, <1>3, ReadType DEF GpuOK, Passing
<1>6. /\ S \subseteq OfLayer(l) /\ H \subseteq S \cap Valid(cache)
      /\ pending.on => H = S \cap Valid(cache)
      /\ ~pending.on => \A x \in S \ H : x \in Valid(cache) /\ cache.entry[x].seq = 0
  BY <1>1, <1>3 DEF SplitOK, Choosing
<1>7. Kept(l, S) = S
  BY <1>6 DEF Kept, OfLayer
<1>8. PICK X \in SUBSET Valid(cache) :
        /\ X \cap InFlight(cache, gpu) = {} /\ X \cap Kept(l, S) = {}
        /\ Shrunk(cache, c, X) /\ c \in CacheType
        /\ Lighter(cache, Marked(c, gpu, H), X)
  BY <1>3, <1>5, PrunedLighter
<1>9. /\ Valid(c) = Valid(cache) \ X /\ X \cap S = {} /\ H \subseteq Valid(c)
      /\ \A z \in Experts : z \notin X => c.entry[z] = cache.entry[z]
  BY <1>3, <1>6, <1>7, <1>8, ShrunkIs
<1> DEFINE e == Encoded(gpu, c, H, gpu.batch)
           g == Flushed(e)
           k == g.batch
           T == S \ H
<1>10. /\ cache' = Marked(c, gpu, H) /\ gpu' = g
       /\ main' = [main EXCEPT !.pc = "split_rest", !.cb = k]
       /\ Load("main", "missing", "clear", l, S, T)
  BY <1>2, <1>9
<1>11. T \in SUBSET Experts
  BY <1>3
<1>12. /\ e \in GpuType /\ InOrder(e) /\ e.seq \in Nat
       /\ e.reads = gpu.reads \cup {[seq |-> gpu.batch, x |-> x, buf |-> c.entry[x].buf] : x \in H}
  <2>1. H \in SUBSET Valid(c)
    BY <1>9
  <2>2. /\ e \in GpuType /\ InOrder(e)
        /\ e.reads = gpu.reads \cup {[seq |-> gpu.batch, x |-> x, buf |-> c.entry[x].buf]
                                     : x \in H}
    BY SMTT(20), <1>3, <1>5, <1>8, <2>1, EncodedIs
  <2> HIDE DEF e
  <2> QED BY <2>2, ReadType
<1> HIDE DEF e
<1>13. g \in GpuType /\ InOrder(g) /\ g.batch # 0 /\ g.reads = e.reads /\ k \in Nat /\ k = g.batch
  <2>1. g \in GpuType /\ InOrder(g) /\ g.batch = e.seq + 1 /\ g.reads = e.reads
    BY <1>12, FlushedIs
  <2>2. e.seq + 1 # 0 /\ e.seq + 1 \in Nat
    BY <1>12
  <2> QED BY <2>1, <2>2
<1> HIDE DEF g, k, S, H, l, T
<1>14. /\ main' \in MainType /\ main'.pc = "split_rest" /\ main'.layer = l /\ main'.sel = S
       /\ main'.has = H /\ main'.cb = gpu'.batch
  BY <1>3, <1>10, <1>13 DEF MainType, S, H, l
<1>15. /\ load' \in LoadType /\ load'.on /\ load'.ok /\ load'.how = "missing"
       /\ load'.step = "clear" /\ load'.layer = l /\ load'.keep = S
       /\ load'.todo = T /\ load'.held = {}
  BY <1>3, <1>10, <1>11, MissingLoadIs
<1>16. GpuOK'
  BY <1>10, <1>13, <1>14 DEF GpuOK
<1>17. ReadsOK'
  <2>1. H \in SUBSET Valid(c) /\ main.pc # "ran"
    BY <1>1, <1>9
  <2>2. gpu'.reads = gpu.reads \cup {[seq |-> gpu.batch, x |-> x, buf |-> c.entry[x].buf]
                                     : x \in H}
    BY <1>10, <1>12, <1>13
  <2> QED BY <1>1, <1>5, <1>8, <1>10, <2>1, <2>2, ReadsEncoded
<1>18. /\ Valid(cache') = Valid(c)
       /\ \A x \in Experts : cache'.entry[x].seq = IF x \in H THEN gpu.batch
                                                   ELSE c.entry[x].seq
  BY <1>5, <1>8, <1>10, MarkedIs
<1>19. S \ Valid(cache') = S \ Valid(cache)
  BY <1>9, <1>18
<1>20. FlowOK'
  <2>1. PendingOK'
    <3>1. pending.on => /\ pending.layer = l /\ pending.sel = S /\ pending.held # {}
                        /\ Names(pending.held) = S \ Valid(cache')
                        /\ load'.todo = S \ Valid(cache')
      BY <1>3, <1>6, <1>15, <1>19 DEF PendingOK, T, S, l
    <3>2. ~pending.on => pending = NoPending
      BY <1>3 DEF PendingOK
    <3> QED BY <1>1, <1>14, <1>15, <3>1, <3>2 DEF PendingOK
  <2>2. LoadOK'
    <3>1. Names({}) = {} /\ "clear" \in Beginning /\ "clear" \notin Reading
      BY DEF Names, Beginning, Reading
    <3>2. T \subseteq S
      BY DEF T
    <3> QED BY <1>14, <1>15, <3>1, <3>2 DEF LoadOK, OneByOne
  <2>3. SplitOK'
    <3>1. ~pending.on => \A x \in T : x \in Valid(cache') /\ cache'.entry[x].seq = 0
      BY <1>3, <1>6, <1>9, <1>18 DEF T
    <3> QED BY <1>1, <1>6, <1>14, <1>15, <3>1 DEF SplitOK, OfLayer
  <2> QED BY <2>1, <2>2, <2>3 DEF FlowOK
<1>21. Roomy /\ LimitsOK => LimitsOK'
  <2> SUFFICES ASSUME Roomy, LimitsOK PROVE LimitsOK'
    OBVIOUS
  <2>1. Cardinality(S) = NSel
    BY <1>1 DEF LimitsOK, Choosing, S
  <2>2. Cardinality(load'.keep) <= Budget
    BY <1>15, <2>1 DEF Roomy
  <2>3. load'.step \in Beginning
    BY <1>15 DEF Beginning
  <2> QED BY <1>1, <1>14, <1>15, <2>1, <2>2, <2>3, LimitsOfBegun
<1>22. Roomy' => Roomy
  BY <1>1 DEF Roomy
<1>23. Lighter(cache, cache', X)
  BY <1>8, <1>10
<1>24. gpu' \in GpuType /\ load'.step # "install"
  BY <1>10, <1>13, <1>15
<1> QED BY <1>1, <1>3, <1>14, <1>15, <1>16, <1>17, <1>20, <1>21, <1>22, <1>23, <1>24, MainPrunes

(* A prompt's layer: its experts are loaded, or are too many.               *)
LEMMA PrefillLoadKeeps ==
  ASSUME IInv, NEW U \in Picks, PrefillLoad(U)
  PROVE  IInv'
<1> DEFINE l == main.layer
<1>1. /\ main.pc = "layer" /\ ~load.on /\ U \subseteq OfLayer(l) /\ gpu' = Ended(gpu)
      /\ \/ /\ Cardinality(U) <= Allowed(cache)
            /\ Load("main", "batch", "reserve", l, U, U)
            /\ main' = [main EXCEPT !.pc = "prefill", !.sel = U]
            /\ UNCHANGED cache
         \/ /\ cache' = Cleared(cache, Ended(gpu), OfLayer(l))
            /\ main' = [main EXCEPT !.pc = "failed"]
            /\ UNCHANGED load
      /\ UNCHANGED <<bytes, pending, faults, dropped>>
  BY DEF PrefillLoad, At, To
<1>2. /\ cache \in CacheType /\ gpu \in GpuType /\ InOrder(gpu) /\ main \in MainType
      /\ load \in LoadType /\ load.held = {} /\ load.step = "clear" /\ faults \in 0..MaxFaults
      /\ l \in 1..Layers
  BY <1>1, Unloaded
<1>3. /\ gpu' \in GpuType /\ InOrder(gpu') /\ gpu'.batch = 0 /\ gpu'.pend = 0
      /\ gpu'.reads = {}
  BY <1>1, <1>2, EndedIs
<1>4. ReadsOK'
  BY <1>3 DEF ReadsOK
<1>5. ~pending.on /\ pending' = NoPending
  BY <1>1, NothingOnItsWay
<1>6. Roomy' => Roomy
  BY <1>1 DEF Roomy
<1>7. CASE /\ Cardinality(U) <= Allowed(cache)
           /\ Load("main", "batch", "reserve", l, U, U)
           /\ main' = [main EXCEPT !.pc = "prefill", !.sel = U]
           /\ UNCHANGED cache
  <2>1. U \in SUBSET Experts /\ IsFiniteSet(U) /\ Cardinality(U) \in Nat
    <3>1. U \in SUBSET Experts
      BY PicksAreOfALayer
    <3> QED BY <3>1, ExpertsAreFinite, FS_Subset, FS_CardinalityType
  <2>2. Cardinality(U) <= Budget
    BY <1>2, <1>7, <2>1, AllowedType, CountsAreNat
  <2> HIDE DEF l
  <2>3. /\ load' \in LoadType /\ load'.on /\ load'.how = "batch" /\ load'.step = "reserve"
        /\ load'.layer = l /\ load'.keep = U /\ load'.todo = U /\ load'.held = {}
    <3>1. "reserve" \in Steps
      BY DEF Steps
    <3> QED BY <1>2, <1>7, <2>1, <3>1, LoadIs
  <2>4. /\ main' \in MainType /\ main'.pc = "prefill" /\ main'.layer = l /\ main'.sel = U
    BY <1>2, <1>7, <2>1 DEF MainType, l
  <2>5. GpuOK'
    BY <1>3, <2>4 DEF GpuOK, Passing
  <2>6. FlowOK'
    <3>1. PendingOK'
      BY <1>1, <1>5 DEF PendingOK
    <3>2. LoadOK'
      <4>1. Names({}) = {} /\ "reserve" \notin Beginning /\ "reserve" \notin Reading
        BY DEF Names, Beginning, Reading
      <4> QED BY <2>3, <2>4, <4>1 DEF LoadOK, OneByOne
    <3>3. SplitOK'
      BY <1>1, <2>4 DEF SplitOK, OfLayer
    <3> QED BY <3>1, <3>2, <3>3 DEF FlowOK
  <2>7. LimitsOK => LimitsOK'
    <3>1. main'.pc \notin Choosing \ {"prefill", "ran", "seed"} /\ OneByOne'
      BY <2>3, <2>4 DEF OneByOne
    <3> QED BY <1>1, <2>2, <2>3, <3>1, LimitsOfBegun
  <2>8. main.pc # "ran" /\ gpu'.reads \subseteq gpu.reads
    BY <1>1, <1>3
  <2>9. load'.step # "install"
    BY <2>3
  <2> QED BY <1>1, <1>2, <1>3, <1>6, <1>7, <2>3, <2>4, <2>5, <2>6, <2>7, <2>8, <2>9, MainMoves
<1>8. CASE /\ cache' = Cleared(cache, Ended(gpu), OfLayer(l))
           /\ main' = [main EXCEPT !.pc = "failed"]
           /\ UNCHANGED load
  <2>1. main' \in MainType /\ main'.pc = "failed"
    BY <1>2, <1>8, ToIs DEF PCs
  <2>2. PICK X \in SUBSET Valid(cache) : Lighter(cache, cache', X)
    BY <1>2, <1>8, ClearedLighter
  <2>3. GpuOK'
    BY <1>3, <2>1 DEF GpuOK, Passing
  <2>4. FlowOK'
    BY <1>1, <1>5, <1>8, <2>1, FlowOfQuiet
  <2>5. LimitsOK => LimitsOK'
    <3>1. main'.pc \notin Choosing /\ ~load'.on /\ load'.step = "clear"
      BY <1>1, <1>2, <1>8, <2>1 DEF Choosing
    <3> QED BY <1>1, <3>1, LimitsOfBegun
  <2> QED BY <1>1, <1>2, <1>3, <1>4, <1>6, <1>8, <2>1, <2>2, <2>3, <2>4, <2>5, MainPrunes
<1> QED BY <1>1, <1>7, <1>8

(* A prompt's experts are encoded in a batch of their own, or dropped.      *)
LEMMA PrefillEncodeKeeps ==
  ASSUME IInv, PrefillEncode
  PROVE  IInv'
<1> DEFINE S == main.sel
           l == main.layer
           b == Begun(gpu)
           n == gpu.seq + 1
<1>1. /\ main.pc = "prefill" /\ ~load.on
      /\ \/ /\ S \subseteq Valid(cache)
            /\ gpu' = Encoded(b, cache, S, n) /\ main' = [main EXCEPT !.pc = "ran"]
            /\ UNCHANGED cache
         \/ /\ cache' = Cleared(cache, gpu, OfLayer(l))
            /\ main' = [main EXCEPT !.pc = "failed"]
            /\ UNCHANGED gpu
      /\ UNCHANGED <<bytes, pending, load, faults, dropped>>
  BY DEF PrefillEncode, At, To
<1>2. /\ cache \in CacheType /\ gpu \in GpuType /\ InOrder(gpu) /\ main \in MainType
      /\ load \in LoadType /\ load.held = {} /\ load.step = "clear" /\ faults \in 0..MaxFaults
      /\ EntriesIn(cache, bytes) /\ SplitOK
  BY <1>1, Unloaded DEF IInv, EntriesOK, FlowOK
<1>3. gpu.batch = 0 /\ gpu.pend = 0 /\ gpu.reads = {}
  BY <1>1 DEF IInv, GpuOK
<1>4. pending' = NoPending /\ ~pending.on
  BY <1>1, NothingOnItsWay
<1>5. Roomy' => Roomy
  BY <1>1 DEF Roomy
<1>6. CASE /\ S \subseteq Valid(cache)
           /\ gpu' = Encoded(b, cache, S, n) /\ main' = [main EXCEPT !.pc = "ran"]
           /\ UNCHANGED cache
  <2>1. main' \in MainType /\ main'.pc = "ran" /\ main'.sel = S /\ main'.layer = l
    BY <1>2, <1>6, ToIs DEF PCs
  <2>2. /\ b \in GpuType /\ InOrder(b) /\ b.batch = n /\ b.reads = {} /\ n # 0
    BY <1>2, <1>3, BegunIs, ReadType
  <2> HIDE DEF b, n
  <2>3. /\ gpu' \in GpuType /\ InOrder(gpu') /\ gpu'.batch = n
        /\ gpu'.reads = b.reads \cup {[seq |-> n, x |-> x, buf |-> cache.entry[x].buf] : x \in S}
    <3>1. S \in SUBSET Valid(cache) /\ b.batch # 0 /\ n = b.batch
      BY <1>6, <2>2
    <3> HIDE DEF S
    <3>2. /\ Encoded(b, cache, S, n) \in GpuType /\ InOrder(Encoded(b, cache, S, n))
          /\ Encoded(b, cache, S, n).batch = b.batch
          /\ Encoded(b, cache, S, n).reads
               = b.reads \cup {[seq |-> n, x |-> x, buf |-> cache.entry[x].buf] : x \in S}
      <4>1. cache \in CacheType
        BY <1>2
      <4> QED BY <2>2, <3>1, <4>1, EncodedIs
    <3> QED BY <1>6, <2>2, <3>2
  <2>4. GpuOK'
    BY <2>1, <2>2, <2>3 DEF GpuOK
  <2>5. ReadsOK'
    <3>1. \A x \in S : bytes[cache.entry[x].buf] = x
      BY <1>2, <1>6 DEF EntriesIn
    <3>2. \A r \in gpu'.reads : \E x \in S : r = [seq |-> n, x |-> x, buf |-> cache.entry[x].buf]
      BY <2>2, <2>3
    <3>3. \A r \in gpu'.reads : cache.entry[r.x].buf = r.buf /\ bytes[r.buf] = r.x
      BY <3>1, <3>2
    <3> QED BY <1>1, <1>6, <2>1, <3>3 DEF ReadsOK
  <2>6. FlowOK'
    <3>1. PendingOK' /\ LoadOK'
      BY <1>1, <1>4 DEF PendingOK, LoadOK
    <3>2. main.sel \subseteq OfLayer(l)
      BY <1>1, <1>2 DEF SplitOK, Choosing
    <3>3. SplitOK'
      BY <1>1, <2>1, <3>2 DEF SplitOK, OfLayer
    <3> QED BY <3>1, <3>3 DEF FlowOK
  <2>7. LimitsOK => LimitsOK'
    <3>1. /\ main'.pc \notin Choosing \ {"prefill", "ran", "seed"}
          /\ ~load'.on /\ load'.step = "clear"
      BY <1>1, <1>2, <2>1
    <3> QED BY <1>1, <3>1, LimitsOfBegun
  <2>8. Lighter(cache, cache', {}) /\ {} \in SUBSET Valid(cache)
    BY <1>2, <1>6, LighterSame
  <2> QED BY <1>1, <1>2, <1>5, <2>1, <2>3, <2>4, <2>5, <2>6, <2>7, <2>8, MainPrunes
<1>7. CASE /\ cache' = Cleared(cache, gpu, OfLayer(l))
           /\ main' = [main EXCEPT !.pc = "failed"]
           /\ UNCHANGED gpu
  <2>1. main' \in MainType /\ main'.pc = "failed"
    BY <1>2, <1>7, ToIs DEF PCs
  <2>2. PICK X \in SUBSET Valid(cache) : Lighter(cache, cache', X)
    BY <1>2, <1>7, ClearedLighter
  <2>3. GpuOK'
    BY <1>2, <1>7, <2>1 DEF GpuOK, Passing
  <2>4. ReadsOK'
    BY <1>3, <1>7 DEF ReadsOK
  <2>5. FlowOK'
    BY <1>1, <1>4, <2>1, FlowOfQuiet
  <2>6. LimitsOK => LimitsOK'
    <3>1. main'.pc \notin Choosing /\ ~load'.on /\ load'.step = "clear"
      BY <1>1, <1>2, <2>1 DEF Choosing
    <3> QED BY <1>1, <3>1, LimitsOfBegun
  <2> QED BY <1>1, <1>2, <1>5, <1>7, <2>1, <2>2, <2>3, <2>4, <2>5, <2>6, MainPrunes
<1> QED BY <1>1, <1>6, <1>7

-----------------------------------------------------------------------------
(* The theorems *)

(* An empty cache, idle threads and nothing encoded satisfy the invariant.  *)
LEMMA InitIsIInv == Init => IInv
<1> SUFFICES ASSUME Init PROVE IInv
  OBVIOUS
<1>1. /\ cache = [entry |-> [x \in Experts |-> Empty], used |-> 0, free |-> {},
                  locked |-> {}, cap |-> 0, relief |-> FALSE]
      /\ bytes = [b \in Bufs |-> None]
      /\ gpu = [seq |-> 0, batch |-> 0, pend |-> 0, done |-> 0, reads |-> {}]
      /\ pending = NoPending /\ load = NoLoad(TRUE) /\ faults = 0 /\ dropped = FALSE
  BY DEF Init
<1>2. PICK n \in HashLayers :
        main = [pc |-> "rest", kind |-> "decode", layer |-> 1, sel |-> {},
                has |-> {}, cb |-> 0, passes |-> 0, hashed |-> n]
  BY DEF Init
<1>3. main \in MainType /\ main.pc = "rest"
  BY <1>2, CountsAreNat DEF MainType
<1>4. /\ cache \in CacheType /\ cache.free = {} /\ cache.locked = {} /\ cache.cap = 0
      /\ cache.used = 0 /\ Valid(cache) = {}
  <2>1. [x \in Experts |-> Empty] \in [Experts -> [buf : Bufs \cup {0}, seq : Nat]]
    BY DEF Empty
  <2>2. 0 \in 0..Budget
    BY CountsAreNat
  <2>3. cache.entry = [x \in Experts |-> Empty] /\ Empty.buf = 0
    BY <1>1 DEF Empty
  <2>4. Valid(cache) = {}
    BY <2>3 DEF Valid
  <2> QED BY <1>1, <2>1, <2>2, <2>4 DEF CacheType
<1>5. gpu \in GpuType /\ InOrder(gpu) /\ gpu.batch = 0 /\ gpu.pend = 0 /\ gpu.reads = {}
  BY <1>1 DEF GpuType, InOrder
<1>6. /\ load \in LoadType /\ ~load.on /\ load.held = {} /\ load.step = "clear"
  BY <1>1, NoLoadIs
<1>7. /\ pending \in PendingType /\ ~pending.on /\ pending.held = {}
      /\ pending.state = "good"
  BY <1>1, CountsAreNat DEF PendingType, NoPending
<1>8. TypeOK
  <2>1. bytes \in [Bufs -> Experts \cup {None}]
    BY <1>1
  <2>2. faults \in 0..MaxFaults
    BY <1>1, CountsAreNat
  <2>3. dropped \in BOOLEAN
    BY <1>1
  <2> QED BY <1>3, <1>4, <1>5, <1>6, <1>7, <2>1, <2>2, <2>3 DEF TypeOK
<1>9. GpuOK
  BY <1>3, <1>5 DEF GpuOK, Passing
<1>10. ReadsOK
  BY <1>5 DEF ReadsOK
<1>11. EntriesOK
  BY <1>4 DEF EntriesOK, EntriesIn
<1>12. Taking = {}
  BY <1>6, <1>7 DEF Taking
<1>13. TakingOK
  BY <1>6, <1>7, <1>12 DEF TakingOK, TakenFrom, Apart, Hold
<1>14. FlowOK
  BY <1>1, <1>3, <1>6, <1>7 DEF FlowOK, PendingOK, LoadOK, SplitOK, Choosing
<1>15. NothingLost
  BY <1>4 DEF NothingLost
<1>16. BudgetOK
  <2>1. 1..cache.used = {}
    BY <1>4
  <2>2. SlotsOK
    BY <1>4, <1>12, <2>1 DEF SlotsOK
  <2>3. LimitsOK
    BY <1>3, <1>6, <1>7 DEF LimitsOK, Choosing
  <2> QED BY <2>2, <2>3 DEF BudgetOK
<1> QED BY <1>8, <1>9, <1>10, <1>11, <1>13, <1>14, <1>15, <1>16 DEF IInv

(* The steps of a load and of its pool, faults included, keep the invariant.*)
LEMMA LoadKeeps ==
  ASSUME IInv, LoadStep \/ LoadFaults \/ PoolReads
  PROVE  IInv'
<1>1. CASE EventSignaled
  BY <1>1, EventSignaledKeeps
<1>2. CASE SettlePending
  BY <1>2, SettlePendingKeeps
<1>3. CASE PlanLoad
  BY <1>3, PlanLoadKeeps
<1>4. CASE Squeeze
  BY <1>4, SqueezeKeeps
<1>5. CASE NoVictim
  BY <1>5, NoVictimKeeps
<1>6. CASE NoBuffer
  BY <1>6, NoBufferKeeps
<1>7. CASE WaitInflight
  BY <1>7, WaitInflightKeeps
<1>8. CASE StartReads
  BY <1>8, StartReadsKeeps
<1>9. CASE FinishReads
  BY <1>9, FinishReadsKeeps
<1>10. CASE Install
  BY <1>10, InstallKeeps
<1>11. ASSUME NEW x \in Experts, GetHit(x) PROVE IInv'
  BY <1>11, GetHitKeeps
<1>12. ASSUME NEW x \in Experts, ReserveOwn(x) PROVE IInv'
  BY <1>12, ReserveOwnKeeps
<1>13. ASSUME NEW x \in Experts, ReserveAlone(x) PROVE IInv'
  BY <1>13, ReserveAloneKeeps
<1>14. ASSUME NEW x \in Experts, NEW y \in Experts, ReserveVictim(x, y) PROVE IInv'
  BY <1>14, ReserveVictimKeeps
<1>15. ASSUME NEW x \in Experts, NEW s \in Slots, ReserveSlot(x, s) PROVE IInv'
  BY <1>15, ReserveSlotKeeps
<1>16. CASE EventTimesOut
  BY <1>16, EventTimesOutKeeps
<1>17. CASE ReadsFail
  BY <1>17, ReadsFailKeeps
<1>18. CASE PoolFails
  BY <1>18, PoolFailsKeeps
<1>19. CASE BatchTornAway
  BY <1>19, BatchTornAwayKeeps
<1>20. ASSUME NEW x \in Experts, NEW s \in Slots, LockFails(x, s) PROVE IInv'
  BY <1>20, LockFailsKeeps
<1>21. CASE PoolReads
  BY <1>21, PoolReadsKeeps
<1>22. CASE LoadStep
  BY <1>1, <1>2, <1>3, <1>4, <1>5, <1>6, <1>7, <1>8, <1>9, <1>10, <1>11, <1>12, <1>13,
     <1>14, <1>15, <1>22 DEF LoadStep
<1>23. CASE LoadFaults
  BY <1>16, <1>17, <1>18, <1>19, <1>20, <1>23 DEF LoadFaults
<1> QED BY <1>21, <1>22, <1>23

(* So do those of the main thread.                                          *)
LEMMA MainKeeps ==
  ASSUME IInv, Goes \/ Calls \/ EarlyCommit \/ \E S \in Picks : SyncFails(S)
  PROVE  IInv'
<1>1. CASE Seeded
  BY <1>1, SeededKeeps
<1>2. CASE FlushWindow
  BY <1>2, FlushWindowKeeps
<1>3. CASE Join
  BY <1>3, JoinKeeps
<1>4. CASE EncodeLoaded
  BY <1>4, EncodeLoadedKeeps
<1>5. CASE EncodeResident
  BY <1>5, EncodeResidentKeeps
<1>6. CASE EncodeMissing
  BY <1>6, EncodeMissingKeeps
<1>7. CASE LoadFailed
  BY <1>7, LoadFailedKeeps
<1>8. CASE PrefillEncode
  BY <1>8, PrefillEncodeKeeps
<1>9. CASE PrefillRan
  BY <1>9, PrefillRanKeeps
<1>10. CASE NextLayer
  BY <1>10, NextLayerKeeps
<1>11. CASE GiveUp
  BY <1>11, GiveUpKeeps
<1>12. CASE SplitStart
  BY <1>12, SplitStartKeeps
<1>13. CASE LoadMissing
  BY <1>13, LoadMissingKeeps
<1>14. ASSUME NEW S \in Picks, HashStart(S) PROVE IInv'
  BY <1>14, HashStartKeeps
<1>15. ASSUME NEW S \in Picks, AsyncStart(S) PROVE IInv'
  BY <1>15, AsyncStartKeeps
<1>16. ASSUME NEW S \in Picks, SyncStart(S) PROVE IInv'
  BY <1>16, SyncStartKeeps
<1>17. ASSUME NEW S \in Picks, SelectedReadback(S) PROVE IInv'
  BY <1>17, SelectedReadbackKeeps
<1>18. ASSUME NEW S \in Picks, PrefillLoad(S) PROVE IInv'
  BY <1>18, PrefillLoadKeeps
<1>19. CASE Goes
  BY <1>1, <1>2, <1>3, <1>4, <1>5, <1>6, <1>7, <1>8, <1>9, <1>10, <1>11, <1>12, <1>13,
     <1>14, <1>15, <1>16, <1>17, <1>18, <1>19 DEF Goes
<1>20. ASSUME NEW kind \in {"decode", "prefill"}, Begin(kind) PROVE IInv'
  BY <1>20, BeginKeeps
<1>21. ASSUME NEW how \in {"row", "missing"}, NEW l \in 1..Layers, NEW S \in Picks,
              Seed(how, l, S)
       PROVE  IInv'
  BY <1>21, SeedKeeps
<1>22. CASE Calls
  BY <1>20, <1>21, <1>22 DEF Calls
<1>23. CASE EarlyCommit
  BY <1>23, EarlyCommitKeeps
<1>24. ASSUME NEW S \in Picks, SyncFails(S) PROVE IInv'
  BY <1>24, SyncFailsKeeps
<1> QED BY <1>19, <1>22, <1>23, <1>24

(* Nothing happens.                                                         *)
LEMMA StutterKeeps ==
  ASSUME IInv, UNCHANGED vars
  PROVE  IInv'
<1>1. UNCHANGED <<cache, bytes, gpu, pending, load, main, faults, dropped>>
  BY DEF vars
<1>2. TypeOK' /\ GpuOK' /\ ReadsOK' /\ EntriesOK' /\ NothingLost'
  BY <1>1 DEF IInv, TypeOK, GpuOK, ReadsOK, EntriesOK, NothingLost
<1>3. TakingOK'
  BY <1>1 DEF IInv, TakingOK, Taking
<1>4. FlowOK'
  BY <1>1 DEF IInv, FlowOK, PendingOK, LoadOK, SplitOK, OneByOne, OfLayer
<1>5. Roomy' => BudgetOK'
  <2> SUFFICES ASSUME Roomy' PROVE BudgetOK'
    OBVIOUS
  <2>1. SlotsOK /\ LimitsOK
    BY <1>1 DEF IInv, Roomy, BudgetOK
  <2>2. Taking' = Taking /\ Count' = Count
    BY <1>1 DEF Taking, Count
  <2>3. SlotsOK'
    BY <1>1, <2>1, <2>2, SlotsStay
  <2>4. LimitsOK'
    BY <1>1, <2>1, <2>2 DEF LimitsOK, OneByOne
  <2> QED BY <2>3, <2>4 DEF BudgetOK
<1> QED BY <1>2, <1>3, <1>4, <1>5 DEF IInv

(* The invariant is inductive.                                              *)
THEOREM Invariance == Spec => []IInv
<1>1. IInv /\ [Next]_vars => IInv'
  <2> SUFFICES ASSUME IInv, [Next]_vars PROVE IInv'
    OBVIOUS
  <2>1. CASE GpuRuns
    BY <2>1, GpuRunsKeeps
  <2>2. CASE LoadStep \/ LoadFaults \/ PoolReads
    BY <2>2, LoadKeeps
  <2>3. CASE Goes \/ Calls \/ EarlyCommit \/ \E S \in Picks : SyncFails(S)
    BY <2>3, MainKeeps
  <2>4. CASE UNCHANGED vars
    BY <2>4, StutterKeeps
  <2> QED BY <2>1, <2>2, <2>3, <2>4 DEF Next
<1> QED BY InitIsIInv, <1>1, PTL DEF Spec

(* Every variable always has its type.                                      *)
THEOREM TypeCorrect == Spec => []TypeOK
<1>1. IInv => TypeOK
  BY DEF IInv
<1> QED BY Invariance, <1>1, PTL

(* The buffers two loads hold together.                                     *)
LEMMA TakenBufs ==
  ASSUME IInv
  PROVE  LET taken == {h.buf : h \in load.held} \cup {h.buf : h \in pending.held}
         IN /\ \A b \in taken : \E h \in Taking : b = h.buf
            /\ Cardinality(taken) = Cardinality(load.held) + Cardinality(pending.held)
<1> DEFINE taken == {h.buf : h \in load.held} \cup {h.buf : h \in pending.held}
<1>1. /\ load.held \in SUBSET Held /\ pending.held \in SUBSET Held
      /\ Apart(Taking)
  BY DEF IInv, TypeOK, LoadType, PendingType, TakingOK
<1>2. Apart(load.held) /\ Apart(pending.held)
  BY <1>1 DEF IInv, TakingOK, Apart, Taking
<1>3. /\ Cardinality(BufsOf(load.held)) = Cardinality(load.held)
      /\ Cardinality(BufsOf(pending.held)) = Cardinality(pending.held)
      /\ Cardinality(load.held) \in Nat /\ Cardinality(pending.held) \in Nat
  BY <1>1, <1>2, HeldCounts
<1>4. Cardinality({}) = 0 /\ BufsOf({}) = {}
  BY FS_EmptySet DEF BufsOf
<1>5. taken = BufsOf(load.held) \cup BufsOf(pending.held)
  BY DEF BufsOf
<1>6. Cardinality(taken) = Cardinality(load.held) + Cardinality(pending.held)
  <2>1. CASE load.held = {}
    <3>1. taken = BufsOf(pending.held)
      BY <1>4, <1>5, <2>1
    <3>2. Cardinality(load.held) = 0
      BY <1>4, <2>1
    <3> HIDE DEF taken
    <3> QED BY <1>3, <3>1, <3>2
  <2>2. CASE pending.held = {}
    <3>1. taken = BufsOf(load.held)
      BY <1>4, <1>5, <2>2
    <3>2. Cardinality(pending.held) = 0
      BY <1>4, <2>2
    <3> HIDE DEF taken
    <3> QED BY <1>3, <3>1, <3>2
  <2>3. load.held = {} \/ pending.held = {}
    BY DEF IInv, TakingOK
  <2> QED BY <2>1, <2>2, <2>3
<1>7. \A b \in taken : \E h \in Taking : b = h.buf
  BY DEF Taking
<1> QED BY <1>6, <1>7

(* Every buffer has one owner, and every entry its expert's weights, as long *)
(* as the invariant holds.                                                  *)
LEMMA OwnersFollow == IInv => OwnersAreSound
<1> SUFFICES ASSUME IInv PROVE OwnersAreSound
  OBVIOUS
<1> DEFINE owned == {cache.entry[x].buf : x \in Valid(cache)}
           taken == {h.buf : h \in load.held} \cup {h.buf : h \in pending.held}
<1>1. EntriesIn(cache, bytes) /\ TakenFrom(cache, Taking)
  BY DEF IInv, EntriesOK, TakingOK
<1>2. /\ \A b \in taken : \E h \in Taking : b = h.buf
      /\ Cardinality(taken) = Cardinality(load.held) + Cardinality(pending.held)
  BY TakenBufs
<1> HIDE DEF taken
<1>3. /\ \A x \in Valid(cache) : bytes[cache.entry[x].buf] = x
      /\ \A x, y \in Valid(cache) : x # y => cache.entry[x].buf # cache.entry[y].buf
  BY <1>1 DEF EntriesIn
<1>4. owned \cap cache.free = {}
  BY <1>1 DEF EntriesIn
<1>5. owned \cap taken = {}
  BY <1>1, <1>2 DEF TakenFrom
<1>6. cache.free \cap taken = {}
  BY <1>1, <1>2 DEF TakenFrom
<1> HIDE DEF owned
<1>7. owned \cap (cache.free \cup taken) = {}
  BY <1>4, <1>5
<1> QED BY <1>2, <1>3, <1>6, <1>7 DEF OwnersAreSound, owned, taken

(* Nothing reads, and nothing owns, a buffer that is another's by now, and   *)
(* nothing is encoded into a command buffer that has been committed         *)
(* (prune_global, mark_entries_inflight, the two stages of a split layer).  *)
THEOREM SoundBuffers == Spec => []BuffersAreSound
<1>1. IInv => ReadsAreSound
  BY DEF IInv, ReadsOK, ReadsAreSound
<1>2. IInv => SplitBufferIsOpen
  BY DEF IInv, FlowOK, SplitOK, SplitBufferIsOpen
<1>3. IInv => BuffersAreSound
  BY <1>1, <1>2, OwnersFollow DEF BuffersAreSound
<1> QED BY Invariance, <1>3, PTL

(* As long as nothing fails, no load needs a buffer beyond the slots of the  *)
(* budget (prepare_load_buffers and the loads that reserve several at once). *)
THEOREM WithinBudget == Spec => []StaysWithinBudget
<1>1. IInv => StaysWithinBudget
  BY DEF IInv, Roomy, BudgetOK, SlotsOK, Taking, StaysWithinBudget
<1> QED BY Invariance, <1>1, PTL

(* As long as no load fails with buffers in hand, every locked slot is in    *)
(* the free list, an entry or a load (the slot lists, lock and unlock).     *)
THEOREM LockedSlotsAreFound == Spec => []NothingLost
<1>1. IInv => NothingLost
  BY DEF IInv
<1> QED BY Invariance, <1>1, PTL

=============================================================================
