------------------------------- MODULE KvStore -------------------------------
(***************************************************************************)
(* The directory of session snapshots on disk (ds4_kvstore.c): storing the *)
(* live session under the text it stands at, making room for it, finding   *)
(* the snapshot of the longest prefix of a prompt, and what a crash or a   *)
(* loss of power leaves of all that.                                       *)
(*                                                                         *)
(* A text is a sequence of pieces; its SHA-1 names one file, and a payload *)
(* is the text whose state it holds.  Time, hits and scores are left out:  *)
(* eviction may pick any file.                                             *)
(***************************************************************************)
EXTENDS Naturals, Sequences, SequencesExt, FiniteSetsExt

CONSTANTS
  Texts,      \* texts a session may stand at
  NoText,     \* no session, no text
  Absent,     \* no file
  Bytes,      \* size of the snapshot of a text, its trailer apart
  Trailers,   \* sizes a trailer may have
  Budget,     \* budget_bytes
  Ctxs,       \* context sizes the program may be started with
  ColdMax     \* cold_max_tokens, a token for each piece

ASSUME TextsAreSeqs == Texts \subseteq Seq(Nat) /\ NoText \notin Texts
ASSUME SizesAreNat == Bytes \in [Texts -> Nat \ {0}] /\ Trailers \subseteq Nat
ASSUME TrailerMayBeEmpty == 0 \in Trailers
ASSUME LimitsAreNat == Budget \in Nat /\ ColdMax \in Nat /\ Ctxs \subseteq Nat \ {0}

(* state: what the payload restores; whole: every byte is written;         *)
(* durable: and would outlive a loss of power.                             *)
Snapshots == [state : Texts, ctx : Ctxs, whole : BOOLEAN, durable : BOOLEAN]
ASSUME AbsentIsNoFile == Absent \notin Snapshots

VARIABLES
  ctx,        \* the running program's context size, 0 when none runs
  session,    \* the text the live session stands at
  source,     \* the snapshot the prefill under way continues from
  store,      \* the procedure under way: where it is, for which text, how
              \* much room it needs, and the temporary file
  files,      \* the directory, as programs see it
  trailers,   \* the sizes of their trailers, 0 where there is no file
  stable,     \* the directory, as a loss of power leaves it
  acked,      \* observer: texts written, acknowledged and not removed since
  stuck       \* observer: the last eviction could not remove a file

vars == <<ctx, session, source, store, files, trailers, stable, acked, stuck>>

Procedures == [at : {"idle", "evict", "write", "flush", "publish", "sync"},
               text : Texts \cup {NoText}, need : Nat,
               tmp : Snapshots \cup {Absent}, tail : Trailers]

Idle == [at |-> "idle", text |-> NoText, need |-> 0, tmp |-> Absent, tail |-> 0]

Init ==
  /\ ctx = 0 /\ session = NoText /\ source = NoText /\ store = Idle
  /\ files = [t \in Texts |-> Absent] /\ stable = files
  /\ trailers = [t \in Texts |-> 0]
  /\ acked = {} /\ stuck = FALSE

Ready == ctx # 0 /\ store = Idle

(* kv_cache_refresh: a file shorter than its header says is not an entry. *)
Entries == {t \in Texts : files[t] # Absent /\ files[t].whole}

Unlink(t) ==
  /\ files' = [files EXCEPT ![t] = Absent]
  /\ trailers' = [trailers EXCEPT ![t] = 0]
  /\ acked' = acked \ {t}

UnlinkFails == UNCHANGED <<files, trailers, acked>>

-----------------------------------------------------------------------------
(* Room: every program start, and every store before it writes.            *)

Size(t) == Bytes[t] + trailers[t]
Total == MapThenSumSet(Size, Entries)

(* Mutated form: the file about to be written is not counted. *)
RoomForOthers == Budget

Room == Budget - store.need

(* One percent of headroom, rounded up. *)
Fits(n) == n + (n + 99) \div 100 <= Budget

Open(c) ==
  /\ ctx = 0 /\ ctx' = c
  /\ store' = [Idle EXCEPT !.at = "evict"]
  /\ UNCHANGED <<session, source, files, trailers, stable, acked, stuck>>

AfterEviction == IF store.text = NoText THEN Idle ELSE [store EXCEPT !.at = "write"]

EvictOne(v) ==
  /\ store.at = "evict" /\ Total > Room /\ v \in Entries
  /\ Unlink(v)
  /\ UNCHANGED <<ctx, session, source, store, stable, stuck>>

(* The first file that cannot be removed ends the pass. *)
EvictionFails ==
  /\ store.at = "evict" /\ Total > Room /\ Entries # {}
  /\ store' = AfterEviction /\ stuck' = TRUE
  /\ UNCHANGED <<ctx, session, source, files, trailers, stable, acked>>

EvictionEnds ==
  /\ store.at = "evict" /\ (Total <= Room \/ Entries = {})
  /\ store' = AfterEviction /\ stuck' = FALSE
  /\ UNCHANGED <<ctx, session, source, files, trailers, stable, acked>>

-----------------------------------------------------------------------------
(* ds4_kvstore_store_live_prefix_text.                                     *)

(* Mutated form: the session may have gone on past the text. *)
SessionBeganWith(t) == session # NoText /\ IsPrefix(t, session)

(* Only the text the live session stands at can be stored. *)
Storable(t) == session = t

(* A smaller context can be restored into a larger one, not the reverse. *)
Compatible(t) == t \in Entries /\ files[t].ctx <= ctx

(* A file already there answers the call; its trailer is written anew in   *)
(* place, after the payload, and may be cut short by a failure.            *)
StoreExisting(t) ==
  /\ Ready /\ Storable(t) /\ Compatible(t)
  /\ \E n \in Trailers : trailers' = [trailers EXCEPT ![t] = n]
  /\ UNCHANGED <<ctx, session, source, store, files, stable, acked, stuck>>

(* An incompatible one is removed before it is known that the new one can  *)
(* be staged and fits.                                                     *)
StoreNew(t) ==
  /\ Ready /\ Storable(t) /\ ~Compatible(t)
  /\ IF t \in Entries THEN Unlink(t) \/ UnlinkFails ELSE UnlinkFails
  /\ \/ store' = store
     \/ \E n \in Trailers :
          /\ Fits(Bytes[t] + n)
          /\ store' = [at |-> "evict", text |-> t, need |-> Bytes[t] + n,
                       tmp |-> Absent, tail |-> 0]
  /\ UNCHANGED <<ctx, session, source, stable, stuck>>

(* The trailer is built again: a client thread may have changed the tool   *)
(* memory since its size was estimated.                                    *)
Write ==
  /\ store.at = "write"
  /\ \E n \in Trailers :
       store' = [store EXCEPT !.at = "flush", !.tail = n,
                   !.tmp = [state |-> session, ctx |-> ctx,
                            whole |-> TRUE, durable |-> FALSE]]
  /\ UNCHANGED <<ctx, session, source, files, trailers, stable, acked, stuck>>

(* Mutated form: fflush only, no fsync. *)
FlushOnly ==
  /\ store.at = "flush"
  /\ store' = [store EXCEPT !.at = "publish"]
  /\ UNCHANGED <<ctx, session, source, files, trailers, stable, acked, stuck>>

Flush ==
  /\ store.at = "flush"
  /\ store' = [store EXCEPT !.at = "publish", !.tmp.durable = TRUE]
  /\ UNCHANGED <<ctx, session, source, files, trailers, stable, acked, stuck>>

(* Mutated form: acknowledged once it has its name. *)
PublishIsEnough ==
  /\ store.at = "publish" /\ Fits(Bytes[store.text] + store.tail)
  /\ files' = [files EXCEPT ![store.text] = store.tmp]
  /\ trailers' = [trailers EXCEPT ![store.text] = store.tail]
  /\ acked' = acked \cup {store.text}
  /\ store' = [store EXCEPT !.at = "sync"]
  /\ UNCHANGED <<ctx, session, source, stable, stuck>>

(* rename: the snapshot gets its name in one step. *)
Publish ==
  /\ store.at = "publish" /\ Fits(Bytes[store.text] + store.tail)
  /\ files' = [files EXCEPT ![store.text] = store.tmp]
  /\ trailers' = [trailers EXCEPT ![store.text] = store.tail]
  /\ store' = [store EXCEPT !.at = "sync"]
  /\ UNCHANGED <<ctx, session, source, stable, acked, stuck>>

(* fsync of the directory, then true is returned. *)
SyncDirectory ==
  /\ store.at = "sync"
  /\ stable' = files /\ acked' = acked \cup {store.text}
  /\ store' = Idle
  /\ UNCHANGED <<ctx, session, source, files, trailers, stuck>>

(* The disk is full, a call fails, the trailer has grown past the budget:  *)
(* the temporary file is removed and false is returned, though after the   *)
(* rename the snapshot is there.                                           *)
StoreFails ==
  /\ store.at \in {"write", "flush", "publish", "sync"}
  /\ store' = Idle
  /\ UNCHANGED <<ctx, session, source, files, trailers, stable, acked, stuck>>

-----------------------------------------------------------------------------
(* ds4_kvstore_try_load_text, and the prefill that follows.                *)

(* ds4_kvstore_find_text_prefix *)
Candidates(p) == {t \in Entries : IsPrefix(t, p) /\ files[t].ctx <= ctx}

Longest(t, p) ==
  t \in Candidates(p) /\ \A u \in Candidates(p) : Len(u) <= Len(t)

(* The payload's own tokens become the session's.  A snapshot that is cold *)
(* no more is consumed.                                                    *)
Load(p) ==
  /\ Ready /\ source = NoText
  /\ \E t \in Texts :
       /\ Longest(t, p)
       /\ session' = files[t].state /\ source' = t
       /\ IF ColdMax > 0 /\ Len(t) > ColdMax
            THEN Unlink(t) \/ UnlinkFails ELSE UnlinkFails
  /\ UNCHANGED <<ctx, store, stable, stuck>>

(* The payload cannot be read: the session is invalid, the file stays. *)
LoadFails(p) ==
  /\ Ready /\ source = NoText /\ Candidates(p) # {}
  /\ session' = NoText
  /\ UNCHANGED <<ctx, source, store, files, trailers, stable, acked, stuck>>

(* ds4_session_sync brings the session to a text that extends the snapshot *)
(* it was restored from; its last progress call may store it.              *)
Prefill(q) ==
  /\ Ready /\ (source # NoText => IsPrefix(source, q))
  /\ session' = q
  /\ UNCHANGED <<ctx, source, store, files, trailers, stable, acked, stuck>>

PrefillEnds ==
  /\ Ready /\ source # NoText
  /\ source' = NoText
  /\ UNCHANGED <<ctx, session, store, files, trailers, stable, acked, stuck>>

(* kv_cache_discard_failed_disk_entry: sync failed, or took too long. *)
PrefillFails ==
  /\ Ready /\ source # NoText
  /\ Unlink(source) \/ UnlinkFails
  /\ session' = NoText /\ source' = NoText
  /\ UNCHANGED <<ctx, store, stable, stuck>>

-----------------------------------------------------------------------------
(* The process ends at any step; a temporary file it leaves is never read. *)

Ends == ctx # 0 /\ ctx' = 0 /\ session' = NoText /\ source' = NoText /\ store' = Idle

Crash == Ends /\ UNCHANGED <<files, trailers, stable, acked, stuck>>

(* What the disk may hold of a file after a loss of power. *)
Surviving(f) ==
  IF f # Absent /\ ~f.durable THEN {f, [f EXCEPT !.whole = FALSE]} ELSE {f}

(* Each name is as it was, or as the directory was last made durable.  A   *)
(* trailer written in place is not synced: any may be left.                *)
PowerLoss ==
  /\ Ends
  /\ files' \in [Texts -> UNION {Surviving(files[t]) \cup Surviving(stable[t]) : t \in Texts}]
  /\ \A t \in Texts : files'[t] \in Surviving(files[t]) \cup Surviving(stable[t])
  /\ stable' = files'
  /\ trailers' \in [Texts -> Trailers]
  /\ \A t \in Texts : files'[t] = Absent => trailers'[t] = 0
  /\ UNCHANGED <<acked, stuck>>

Next ==
  \/ \E c \in Ctxs : Open(c)
  \/ \E t \in Texts : \/ EvictOne(t) \/ StoreExisting(t) \/ StoreNew(t)
                      \/ Load(t) \/ LoadFails(t) \/ Prefill(t)
  \/ EvictionFails \/ EvictionEnds
  \/ Write \/ Flush \/ Publish \/ SyncDirectory \/ StoreFails
  \/ PrefillEnds \/ PrefillFails \/ Crash \/ PowerLoss

Spec == Init /\ [][Next]_vars

-----------------------------------------------------------------------------
(* Every variable has its type. *)
TypeOK ==
  /\ ctx \in Ctxs \cup {0} /\ session \in Texts \cup {NoText}
  /\ source \in Texts \cup {NoText}
  /\ store \in Procedures
  /\ files \in [Texts -> Snapshots \cup {Absent}]
  /\ stable \in [Texts -> Snapshots \cup {Absent}]
  /\ trailers \in [Texts -> Trailers]
  /\ acked \in SUBSET Texts /\ stuck \in BOOLEAN

(* Whatever the machine went through, a file with a snapshot's name is     *)
(* whole and restores the state its text stands for: nothing is published  *)
(* before it is written and durable, and nothing but the state it names.   *)
WholeUnderItsName ==
  \A t \in Texts : files[t] # Absent => files[t].whole /\ files[t].state = t

(* A snapshot written and acknowledged outlives a crash and a loss of      *)
(* power at any step of any later procedure, until the store removes it:   *)
(* the directory is made durable before true is returned.                  *)
AcknowledgedSurvives ==
  \A t \in acked : files[t] # Absent /\ stable[t] # Absent

(* Between procedures the snapshots fit the budget, their trailers apart,  *)
(* unless the last eviction met a file it could not remove: room is made   *)
(* before a snapshot is written, and at every start, when a loss of power  *)
(* may have brought removed files back.                                    *)
WithinBudget ==
  Ready /\ ~stuck => MapThenSumSet(LAMBDA t : Bytes[t], Entries) <= Budget

(* Files a loss of power may bring back. *)
Dropped == {t \in Texts : files[t] = Absent /\ stable[t] # Absent}

Present == {t \in Texts : files[t] # Absent}

Abstract == INSTANCE SnapshotStore
              WITH present <- Present, kept <- acked, dropped <- Dropped

(* The store implements SnapshotStore: a restore finds the very state a    *)
(* text stands for, and only the store's own removals, never a crash or a  *)
(* failed procedure, take an acknowledged snapshot away.                   *)
KeepsSnapshots == Abstract!Spec
=============================================================================
