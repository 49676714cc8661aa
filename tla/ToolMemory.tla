----------------------------- MODULE ToolMemory -----------------------------
(***************************************************************************)
(* The server's memory of tool calls (ds4_server.c): the exact text the    *)
(* model wrote, under the id of each call in it.  The worker remembers the *)
(* calls of a turn and writes them behind the snapshots whose text holds   *)
(* them; a client thread that parses a request brings the ids it names     *)
(* back from the snapshots, one lock for each, and then attaches texts to  *)
(* its messages, under another.  Both limits drop the ids used longest ago.*)
(*                                                                         *)
(* Ids are numbered in the order random_tool_id draws them: 128 random     *)
(* bits are taken never to repeat, so 0 stands for an id the server never  *)
(* drew.  A trailer is read as it stands at one moment.  Where an entry    *)
(* came from only counts in the log and is left out.                       *)
(***************************************************************************)
EXTENDS Naturals, Sequences, SequencesExt, FiniteSetsExt

CONSTANTS
  Texts,       \* texts the model may write for the calls of a turn
  None,        \* no text
  Size,        \* bytes of the block of a text
  EntryBytes,  \* bytes of an entry
  MaxEntries,  \* --tool-memory-max-ids
  MaxBytes,    \* DS4_TOOL_MEMORY_MAX_BYTES
  Keys,        \* snapshots the store may write
  Blocks,      \* texts of calls each of them holds
  Absent,      \* no snapshot
  NoKey,       \* no store under way
  Clients,     \* client threads
  Requests,    \* histories: messages, each with the ids of its calls
  MaxIds,      \* bound: ids drawn
  MaxCalls     \* bound: calls of a turn

Ids == 0..MaxIds

Pairs == Ids \X Texts
Snapshots == [flag : BOOLEAN, trailer : SUBSET Pairs]

ASSUME TextsAreApart == None \notin Texts /\ Absent \notin Snapshots /\ NoKey \notin Keys
ASSUME SizesAreNat == Size \in [Texts -> Nat] /\ EntryBytes \in Nat
ASSUME LimitsAreNat == {MaxEntries, MaxBytes, MaxIds, MaxCalls} \subseteq Nat
ASSUME BlocksAreTexts == Blocks \in [Keys -> SUBSET Texts]
ASSUME RequestsAreIds == Requests \subseteq Seq(Seq(Ids))

VARIABLES
  mem,      \* tool_memory: ids from head to tail, the text of each, entries of
            \* each block, bytes counted
  disk,     \* of each snapshot: KV_EXT_TOOL_MAP, and the trailer
  client,   \* the request each client thread parses
  worker,   \* the trailer it reads, or the store under way
  drawn,    \* ids drawn so far
  sampled,  \* observer: what the model wrote under each id
  known     \* observer: ids a request found known, none once one was lost

vars == <<mem, disk, client, worker, drawn, sampled, known>>

Forgotten ==
  [lru |-> <<>>, text |-> [i \in Ids |-> None],
   refs |-> [d \in Texts |-> 0], bytes |-> 0]

NoRequest == [busy |-> FALSE, asked |-> <<>>, unread |-> {}, rest |-> {},
              said |-> <<>>]
NoStore == [key |-> NoKey, over |-> FALSE, est |-> FALSE, rest |-> {}]

Init ==
  /\ mem = Forgotten /\ disk = [k \in Keys |-> Absent]
  /\ client = [c \in Clients |-> NoRequest] /\ worker = NoStore
  /\ drawn = 0 /\ sampled = [i \in Ids |-> None]
  /\ known = [c \in Clients |-> {}]

-----------------------------------------------------------------------------
(* The memory itself; every operation runs under tool_mu.                  *)

Held(m) == {i \in Ids : m.text[i] # None}

Less(a, b) == IF a >= b THEN a - b ELSE 0

Touch(m, i) == [m EXCEPT !.lru = <<i>> \o RemoveFirst(@, i)]

(* Mutated form: the last entry of a block leaves its bytes counted. *)
ReleaseEntryOnly(m, d) == [m EXCEPT !.refs[d] = @ - 1]

ReleaseBlock(m, d) ==
  [m EXCEPT !.refs[d] = @ - 1,
            !.bytes = IF m.refs[d] > 1 THEN @ ELSE Less(@, Size[d])]

RemoveEntry(m, i) ==
  ReleaseBlock([m EXCEPT !.lru = RemoveFirst(@, i), !.text[i] = None,
                         !.bytes = Less(@, EntryBytes)],
               m.text[i])

OverLimit(m) == Len(m.lru) > MaxEntries \/ m.bytes > MaxBytes

DropTail(m) == IF OverLimit(m) THEN RemoveEntry(m, Last(m.lru)) ELSE m

(* From the tail, while a limit is exceeded: once for each entry at most. *)
Prune(m) == FoldLeft(LAMBDA n, i : DropTail(n), m, m.lru)

LinkHead(lru, i) == <<i>> \o lru

(* A block is counted when its first entry comes. *)
Insert(m, i, d) ==
  [m EXCEPT !.lru = LinkHead(@, i), !.text[i] = d, !.refs[d] = @ + 1,
            !.bytes = @ + EntryBytes + IF m.refs[d] = 0 THEN Size[d] ELSE 0]

(* The same text again is only touched; another one replaces it. *)
Put(m, i, d) ==
  Prune(IF m.text[i] = d THEN Touch(m, i)
        ELSE Insert(IF m.text[i] = None THEN m ELSE RemoveEntry(m, i), i, d))

-----------------------------------------------------------------------------
(* The worker.                                                             *)

Ready == worker = NoStore

NewIds(n) == drawn + 1 .. drawn + n

(* tool_memory_remember: all the calls of a turn under one lock, each with *)
(* the turn's whole text.                                                  *)
Remember(m, d, ids) == FoldLeft(LAMBDA o, i : Put(o, i, d), m, ids)

(* assign_tool_call_ids, and what follows when the turn is over. *)
Sample(d, n) ==
  /\ Ready /\ drawn + n <= MaxIds
  /\ drawn' = drawn + n
  /\ mem' = Remember(mem, d, [j \in 1..n |-> drawn + j])
  /\ sampled' = [i \in Ids |-> IF i \in NewIds(n) THEN d ELSE sampled[i]]
  /\ UNCHANGED <<disk, client, worker>>

(* Mutated form: every id in memory is written. *)
AnyBlock(d, k) == TRUE

InSnapshot(d, k) == d \in Blocks[k]

(* kv_tool_map_measure_locked: every id of each block the text holds. *)
Listed(k) == {<<i, mem.text[i]>> : i \in {j \in Held(mem) : InSnapshot(mem.text[j], k)}}

(* Unflagged it is not looked at; of more than four times the ids kept it  *)
(* is refused whole.                                                       *)
Trailer(k) ==
  IF disk[k] # Absent /\ disk[k].flag /\ Cardinality(disk[k].trailer) <= 4 * MaxEntries
    THEN disk[k].trailer ELSE {}

(* The session is restored from a snapshot, and all the ids behind it. *)
LoadSnapshot(k) ==
  /\ Ready /\ disk[k] # Absent
  /\ worker' = [worker EXCEPT !.rest = Trailer(k)]
  /\ UNCHANGED <<mem, disk, client, drawn, sampled>>

WorkerPuts ==
  /\ \E p \in worker.rest :
       /\ mem' = Put(mem, p[1], p[2])
       /\ worker' = [worker EXCEPT !.rest = @ \ {p}]
  /\ UNCHANGED <<disk, client, drawn, sampled>>

(* The size is measured first: it decides the flag of a new file, and      *)
(* whether the trailer of one that is there is written again.              *)
BeginStore(k) ==
  /\ Ready
  /\ disk[k] # Absent => Listed(k) # {}
  /\ worker' = [key |-> k, over |-> disk[k] # Absent, est |-> Listed(k) # {}, rest |-> {}]
  /\ UNCHANGED <<mem, disk, client, drawn, sampled>>

StoreNew ==
  /\ worker.key # NoKey /\ ~worker.over
  /\ disk' = [disk EXCEPT ![worker.key] =
                [flag |-> worker.est, trailer |-> Listed(worker.key)]]
  /\ worker' = NoStore
  /\ UNCHANGED <<mem, client, drawn, sampled>>

(* kv_cache_rewrite_trailer: cut off, written in place, and then flagged. *)
StoreOver ==
  /\ worker.key # NoKey /\ worker.over
  /\ disk' = [disk EXCEPT ![worker.key] =
                [flag |-> @.flag \/ Listed(worker.key) # {},
                 trailer |-> Listed(worker.key)]]
  /\ worker' = NoStore
  /\ UNCHANGED <<mem, client, drawn, sampled>>

(* Nothing is published, or the trailer written in place stays cut short. *)
StoreFails ==
  /\ worker.key # NoKey
  /\ \/ disk' = disk
     \/ /\ worker.over
        /\ \E T \in SUBSET Listed(worker.key) :
             disk' = [disk EXCEPT ![worker.key].trailer = T]
  /\ worker' = NoStore
  /\ UNCHANGED <<mem, client, drawn, sampled>>

(* Evicted, consumed, or found to be of no use. *)
RemoveSnapshot(k) ==
  /\ disk[k] # Absent /\ k # worker.key /\ ~worker.over
  /\ disk' = [disk EXCEPT ![k] = Absent]
  /\ UNCHANGED <<mem, client, worker, drawn, sampled>>

-----------------------------------------------------------------------------
(* A client thread.                                                        *)

Named(asked) == UNION {ToSet(asked[m]) : m \in DOMAIN asked}

(* Mutated form: the calls of the first message only. *)
FirstIds(asked) == ToSet(asked[1])

(* collect_tool_call_ids *)
Wanted(asked) == Named(asked)

Ask(c, r) ==
  /\ ~client[c].busy /\ Named(r) \subseteq 0..drawn
  /\ client' = [client EXCEPT ![c] =
       [busy |-> TRUE, asked |-> r, unread |-> Keys, rest |-> {}, said |-> <<>>]]
  /\ UNCHANGED <<mem, disk, worker, drawn, sampled>>

(* kv_cache_restore_tool_memory_for_messages: file after file, in no order *)
(* the code chooses; one that comes late is passed over.                   *)
ReadTrailer(c, k) ==
  /\ k \in client[c].unread /\ client[c].rest = {}
  /\ client' = [client EXCEPT ![c].unread = @ \ {k},
                  ![c].rest = {p \in Trailer(k) : p[1] \in Wanted(client[c].asked)}]
  /\ UNCHANGED <<mem, disk, worker, drawn, sampled>>

ClientPuts(c) ==
  /\ \E p \in client[c].rest :
       /\ mem' = Put(mem, p[1], p[2])
       /\ client' = [client EXCEPT ![c].rest = @ \ {p}]
  /\ UNCHANGED <<disk, worker, drawn, sampled>>

(* Mutated form: the text of any call found. *)
AnyText(found) == IF found = {} THEN None ELSE CHOOSE d \in found : TRUE

(* Every id is there and all of them have one block. *)
OneText(found) == IF Cardinality(found) = 1 THEN CHOOSE d \in found : TRUE ELSE None

Replayed(calls) == OneText({mem.text[i] : i \in ToSet(calls)})

(* tool_memory_lookup_locked: an id that is found is touched. *)
LookUp(m, i) == IF m.text[i] = None THEN m ELSE Touch(m, i)

LookUpCalls(m, calls) == FoldLeft(LAMBDA n, i : LookUp(n, i), m, calls)

LookUpAll(m, asked) == FoldLeft(LAMBDA n, calls : LookUpCalls(n, calls), m, asked)

(* tool_memory_attach_to_messages: call after call, message after message. *)
Attach(c) ==
  /\ client[c].busy /\ client[c].unread = {} /\ client[c].rest = {}
  /\ client' = [client EXCEPT ![c].busy = FALSE,
       ![c].said = [m \in DOMAIN client[c].asked |-> Replayed(client[c].asked[m])]]
  /\ mem' = LookUpAll(mem, client[c].asked)
  /\ UNCHANGED <<disk, worker, drawn, sampled>>

-----------------------------------------------------------------------------
(* The process ends, or crashes, and another one starts. *)
Restart ==
  /\ mem' = Forgotten
  /\ client' = [c \in Clients |-> NoRequest] /\ worker' = NoStore
  /\ UNCHANGED <<disk, drawn, sampled>>

(* A limit, a store or a removal takes an id away; a limit may take the    *)
(* very id that is put.                                                    *)
NothingLost ==
  /\ Held(mem) \subseteq Held(mem')
  /\ \A k \in Keys : Trailer(k) \subseteq Trailer(k)'
  /\ \A c \in Clients : \A p \in client[c].rest :
       p \in client'[c].rest \/ p[1] \in Held(mem')

OnDisk == UNION {{p[1] : p \in Trailer(k)} : k \in Keys}

(* Not part of the program: what each request could count on. *)
Observe ==
  known' = [c \in Clients |->
    IF client'[c].busy /\ ~client[c].busy
      THEN Named(client'[c].asked) \cap (Held(mem) \cup OnDisk)
    ELSE IF NothingLost THEN known[c] ELSE {}]

Act ==
  \/ \E d \in Texts, n \in 1..MaxCalls : Sample(d, n)
  \/ \E k \in Keys : LoadSnapshot(k) \/ BeginStore(k) \/ RemoveSnapshot(k)
  \/ WorkerPuts \/ StoreNew \/ StoreOver \/ StoreFails
  \/ \E c \in Clients : \/ \E r \in Requests : Ask(c, r)
                        \/ \E k \in Keys : ReadTrailer(c, k)
                        \/ ClientPuts(c) \/ Attach(c)
  \/ Restart

Next == Act /\ Observe

Spec == Init /\ [][Next]_vars

-----------------------------------------------------------------------------
Requested == [busy : BOOLEAN, asked : Requests \cup {<<>>}, unread : SUBSET Keys,
              rest : SUBSET Pairs, said : Seq(Texts \cup {None})]

(* Every variable has its type. *)
TypeOK ==
  /\ mem.lru \in Seq(Ids) /\ mem.text \in [Ids -> Texts \cup {None}]
  /\ mem.refs \in [Texts -> Nat] /\ mem.bytes \in Nat
  /\ disk \in [Keys -> Snapshots \cup {Absent}]
  /\ client \in [Clients -> Requested]
  /\ worker \in [key : Keys \cup {NoKey}, over : BOOLEAN, est : BOOLEAN, rest : SUBSET Pairs]
  /\ drawn \in 0..MaxIds /\ sampled \in [Ids -> Texts \cup {None}]
  /\ known \in [Clients -> SUBSET Ids]

EntriesOf(d) == {i \in Ids : mem.text[i] = d}

(* Whenever tool_mu is free the three structures agree and the counters    *)
(* are exact: the list holds each id with a text once, a block's refs are  *)
(* its entries, and the bytes are those of the entries and of the blocks   *)
(* some entry uses.  The subtractions that saturate at 0 would hide a      *)
(* drift, and the limit would then prune too early or never.  Neither      *)
(* limit is exceeded, even by an entry that exceeds one alone.             *)
Accounted ==
  /\ ToSet(mem.lru) = Held(mem) /\ Len(mem.lru) = Cardinality(Held(mem))
  /\ \A d \in Texts : mem.refs[d] = Cardinality(EntriesOf(d))
  /\ mem.bytes = EntryBytes * Len(mem.lru)
       + MapThenSumSet(LAMBDA d : Size[d], {d \in Texts : EntriesOf(d) # {}})
  /\ ~OverLimit(mem)

(* What is attached to a message is what the model wrote under every one   *)
(* of its ids: never the text of another turn, and none for a message with *)
(* a call the server did not sample, whatever other threads put, pruned or *)
(* stored between the restore and the attaching, and across restarts.      *)
Verbatim ==
  \A c \in Clients : \A m \in DOMAIN client[c].said :
    client[c].said[m] # None =>
      \A i \in ToSet(client[c].asked[m]) : sampled[i] = client[c].said[m]

(* A message of one turn whose ids were known when its request came, in    *)
(* memory or behind a snapshot, is replayed, as long as no limit, store or *)
(* removal took an id away since.                                          *)
KnownIsReplayed ==
  \A c \in Clients : \A m \in DOMAIN client[c].said :
    LET calls == ToSet(client[c].asked[m]) IN
      (calls \subseteq known[c] /\ Cardinality({sampled[i] : i \in calls}) = 1)
        => client[c].said[m] # None

(* Behind a snapshot are ids of calls its own text holds, with the text    *)
(* the model wrote, though the memory changes between the measure that     *)
(* sizes the trailer and the pass that writes it.                          *)
TrailersAreTheirs ==
  \A k \in Keys : disk[k] # Absent =>
    \A p \in disk[k].trailer : p[2] \in Blocks[k] /\ sampled[p[1]] = p[2]
=============================================================================
