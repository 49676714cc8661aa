--------------------------- MODULE KvAndReply_proof ---------------------------
(***************************************************************************)
(* Theorems about KvStore, for any texts, sizes, budget and context sizes: *)
(* files are whole, acknowledged ones last, they fit the budget, and the   *)
(* store implements SnapshotStore.  And, from ReplyTexts on, about         *)
(* OutputStream, for any scripts, cut into tokens of any sizes: what the   *)
(* client of a stream has seen as content is text behind the thinking and  *)
(* before the first block, and every position is one of the text.          *)
(***************************************************************************)
EXTENDS KvStore, OutputStream, FiniteSetTheorems, SequenceTheorems,
        WellFoundedInduction, TLAPS

(* What is true of any file, wherever the directory is read. *)
Good(f, t) == f # Absent => f.whole /\ f.durable /\ f.state = t

GoodFiles == \A t \in Texts : Good(files[t], t) /\ Good(stable[t], t)

(* A store works for the text the session stands at, and what it is about  *)
(* to name is written; to publish, durable; and then named.                *)
StoreInProgress ==
  /\ store # Idle => ctx # 0
  /\ store.at = "idle" => store = Idle
  /\ store.text # NoText => store.text = session
  /\ store.at \in {"write", "flush", "publish", "sync"} => store.text # NoText
  /\ store.at \in {"flush", "publish"} =>
       store.tmp # Absent /\ store.tmp.whole /\ store.tmp.state = store.text
  /\ store.at = "publish" => store.tmp.durable
  /\ store.at = "sync" => files[store.text] # Absent

Inv == TypeOK /\ GoodFiles /\ StoreInProgress /\ AcknowledgedSurvives

-----------------------------------------------------------------------------
LEMMA IdleTyped == Idle \in Procedures
BY TrailerMayBeEmpty DEF Idle, Procedures

LEMMA SurvivingGood ==
  ASSUME NEW f, NEW t, Good(f, t), NEW g \in Surviving(f)
  PROVE  g = f
BY DEF Good, Surviving

(* Removing a file disturbs nothing else. *)
LEMMA UnlinkKeeps ==
  ASSUME Inv, NEW t \in Texts, Unlink(t)
  PROVE  /\ files' \in [Texts -> Snapshots \cup {Absent}]
         /\ trailers' \in [Texts -> Trailers]
         /\ acked' \in SUBSET Texts /\ acked' = acked \ {t}
         /\ files'[t] = Absent
         /\ \A u \in Texts : u # t => files'[u] = files[u]
BY TrailerMayBeEmpty DEF Inv, TypeOK, Unlink

(* A step that leaves every file it does not remove alone, and every       *)
(* durable name. *)
LEMMA FewerFiles ==
  ASSUME Inv, stable' = stable, acked' \subseteq acked,
         \A t \in Texts : files'[t] \in {files[t], Absent},
         \A t \in acked' : files'[t] = files[t]
  PROVE  GoodFiles' /\ AcknowledgedSurvives'
BY DEF Inv, TypeOK, GoodFiles, Good, AcknowledgedSurvives

LEMMA StoreSame ==
  ASSUME StoreInProgress, UNCHANGED <<ctx, session, store, files>>
  PROVE  StoreInProgress'
BY DEF StoreInProgress, Idle

LEMMA StoreIdle ==
  ASSUME store' = Idle
  PROVE  StoreInProgress'
BY DEF StoreInProgress, Idle

-----------------------------------------------------------------------------
THEOREM Invariance == Spec => []Inv
<1>1. Init => Inv
  <2> SUFFICES ASSUME Init PROVE Inv
    OBVIOUS
  <2>1. TypeOK
    BY TrailerMayBeEmpty, IdleTyped DEF Init, TypeOK
  <2>2. GoodFiles /\ AcknowledgedSurvives /\ StoreInProgress
    BY DEF Init, GoodFiles, Good, StoreInProgress, AcknowledgedSurvives, Idle
  <2> QED  BY <2>1, <2>2 DEF Inv
<1>2. Inv /\ [Next]_vars => Inv'
  <2> SUFFICES ASSUME Inv, [Next]_vars PROVE Inv'
    OBVIOUS
  <2> USE DEF Inv
  <2>1. ASSUME NEW c \in Ctxs, Open(c) PROVE Inv'
    <3>1. TypeOK'
      BY <2>1, IdleTyped DEF TypeOK, Open, Idle, Procedures
    <3>2. GoodFiles' /\ AcknowledgedSurvives'
      BY <2>1 DEF Open, GoodFiles, Good, AcknowledgedSurvives
    <3>3. StoreInProgress'
      BY <2>1, LimitsAreNat DEF Open, StoreInProgress, Idle
    <3> QED  BY <3>1, <3>2, <3>3
  <2>2. ASSUME NEW t \in Texts, EvictOne(t) PROVE Inv'
    <3>1. Unlink(t)
      BY <2>2 DEF EvictOne
    <3>2. TypeOK'
      BY <2>2, <3>1, UnlinkKeeps DEF TypeOK, EvictOne
    <3>3. GoodFiles' /\ AcknowledgedSurvives'
      BY <2>2, <3>1, UnlinkKeeps, FewerFiles DEF EvictOne
    <3>4. StoreInProgress'
      BY <2>2 DEF EvictOne, StoreInProgress, Idle
    <3> QED  BY <3>2, <3>3, <3>4
  <2>3. CASE EvictionFails \/ EvictionEnds
    <3>1. \/ store' = Idle
          \/ store' = [store EXCEPT !.at = "write"] /\ store.text # NoText
      <4>1. store' = AfterEviction
        BY <2>3 DEF EvictionFails, EvictionEnds
      <4> QED  BY <4>1 DEF AfterEviction
    <3>2. TypeOK'
      <4>1. store' \in Procedures
        BY <3>1, IdleTyped DEF TypeOK, Procedures
      <4> QED  BY <2>3, <4>1 DEF TypeOK, EvictionFails, EvictionEnds
    <3>3. GoodFiles' /\ AcknowledgedSurvives'
      BY <2>3 DEF EvictionFails, EvictionEnds, GoodFiles, Good, AcknowledgedSurvives
    <3>4. StoreInProgress'
      BY <2>3, <3>1 DEF EvictionFails, EvictionEnds, StoreInProgress, Idle, TypeOK, Procedures
    <3> QED  BY <3>2, <3>3, <3>4
  <2>4. ASSUME NEW t \in Texts, StoreExisting(t) PROVE Inv'
    <3>1. TypeOK'
      BY <2>4 DEF TypeOK, StoreExisting
    <3>2. GoodFiles' /\ AcknowledgedSurvives' /\ StoreInProgress'
      BY <2>4 DEF StoreExisting, GoodFiles, Good, AcknowledgedSurvives,
         StoreInProgress, Idle
    <3> QED  BY <3>1, <3>2
  <2>5. ASSUME NEW t \in Texts, StoreNew(t) PROVE Inv'
    <3>1. Unlink(t) \/ UnlinkFails
      BY <2>5 DEF StoreNew
    <3>2. \/ store' = store
          \/ \E n \in Trailers : store' = [at |-> "evict", text |-> t, need |-> Bytes[t] + n,
                                           tmp |-> Absent, tail |-> 0]
      BY <2>5 DEF StoreNew
    <3>3. TypeOK'
      <4>1. store' \in Procedures
        BY <3>2, TrailerMayBeEmpty, SizesAreNat DEF TypeOK, Procedures
      <4> QED  BY <2>5, <3>1, <4>1, UnlinkKeeps DEF TypeOK, StoreNew, UnlinkFails
    <3>4. GoodFiles' /\ AcknowledgedSurvives'
      BY <2>5, <3>1, UnlinkKeeps, FewerFiles DEF StoreNew, UnlinkFails
    <3>5. StoreInProgress'
      <4>1. store = Idle /\ ctx # 0 /\ session = t
        BY <2>5 DEF StoreNew, Ready, Storable
      <4> QED  BY <2>5, <3>2, <4>1 DEF StoreNew, StoreInProgress, Idle
    <3> QED  BY <3>3, <3>4, <3>5
  <2>6. CASE Write
    <3>1. PICK n \in Trailers :
            store' = [store EXCEPT !.at = "flush", !.tail = n,
                        !.tmp = [state |-> session, ctx |-> ctx,
                                 whole |-> TRUE, durable |-> FALSE]]
      BY <2>6 DEF Write
    <3>2. session \in Texts /\ session = store.text /\ ctx \in Ctxs
      BY <2>6 DEF Write, StoreInProgress, TypeOK, Idle
    <3>3. TypeOK'
      <4>1. store' \in Procedures
        BY <3>1, <3>2 DEF TypeOK, Procedures, Snapshots
      <4> QED  BY <2>6, <4>1 DEF Write, TypeOK
    <3>4. GoodFiles' /\ AcknowledgedSurvives'
      BY <2>6 DEF Write, GoodFiles, Good, AcknowledgedSurvives
    <3>5. /\ store'.at = "flush" /\ store'.text = store.text
          /\ store'.tmp = [state |-> session, ctx |-> ctx, whole |-> TRUE, durable |-> FALSE]
          /\ store'.tmp \in Snapshots
      BY <3>1, <3>2 DEF TypeOK, Procedures, Snapshots
    <3>6. StoreInProgress'
      <4>1. store'.tmp # Absent
        BY <3>5, AbsentIsNoFile
      <4>2. ctx' # 0 /\ session' = session /\ store.text # NoText
        BY <2>6 DEF Write, StoreInProgress, Idle
      <4> QED  BY <3>2, <3>5, <4>1, <4>2 DEF StoreInProgress
    <3> QED  BY <3>3, <3>4, <3>6
  <2>7. CASE Flush
    <3>1. store.tmp \in Snapshots
      BY <2>7 DEF Flush, StoreInProgress, TypeOK, Procedures
    <3>2. /\ store'.at = "publish" /\ store'.text = store.text
          /\ store'.need = store.need /\ store'.tail = store.tail
          /\ store'.tmp = [store.tmp EXCEPT !.durable = TRUE]
      BY <2>7 DEF Flush, TypeOK, Procedures
    <3>3. store'.tmp \in Snapshots /\ store'.tmp.durable
          /\ store'.tmp.whole = store.tmp.whole /\ store'.tmp.state = store.tmp.state
      BY <3>1, <3>2 DEF Snapshots
    <3>4. TypeOK'
      <4>1. store' \in Procedures
        BY <2>7, <3>2, <3>3 DEF Flush, TypeOK, Procedures
      <4> QED  BY <2>7, <4>1 DEF Flush, TypeOK
    <3>5. GoodFiles' /\ AcknowledgedSurvives'
      BY <2>7 DEF Flush, GoodFiles, Good, AcknowledgedSurvives
    <3>6. StoreInProgress'
      <4>1. store'.tmp # Absent
        BY <3>3, AbsentIsNoFile
      <4>2. /\ ctx' # 0 /\ session' = session
            /\ store.text # NoText /\ store.text = session
            /\ store.tmp.whole /\ store.tmp.state = store.text
        BY <2>7 DEF Flush, StoreInProgress, Idle
      <4> QED  BY <3>2, <3>3, <4>1, <4>2 DEF StoreInProgress
    <3> QED  BY <3>4, <3>5, <3>6
  <2>8. CASE Publish
    <3>1. /\ store.text \in Texts /\ store.tmp \in Snapshots /\ store.tail \in Trailers
          /\ Good(store.tmp, store.text) /\ store.tmp # Absent
      BY <2>8 DEF Publish, StoreInProgress, TypeOK, Procedures, Good
    <3>2. TypeOK'
      <4>1. store' \in Procedures
        BY <2>8 DEF Publish, TypeOK, Procedures
      <4> QED  BY <2>8, <3>1, <4>1 DEF Publish, TypeOK
    <3>3. /\ files'[store.text] = store.tmp
          /\ \A t \in Texts : t # store.text => files'[t] = files[t]
      BY <2>8, <3>1 DEF Publish, TypeOK
    <3>4. GoodFiles'
      BY <2>8, <3>1, <3>3 DEF Publish, GoodFiles, Good
    <3>5. AcknowledgedSurvives'
      BY <2>8, <3>1, <3>3 DEF Publish, AcknowledgedSurvives, TypeOK
    <3>6. StoreInProgress'
      <4>1. store'.at = "sync" /\ store'.text = store.text
        BY <2>8 DEF Publish, TypeOK, Procedures
      <4>2. ctx' # 0 /\ session' = session /\ store.text # NoText /\ store.text = session
        BY <2>8 DEF Publish, StoreInProgress, Idle
      <4> QED  BY <3>1, <3>3, <4>1, <4>2 DEF StoreInProgress
    <3> QED  BY <3>2, <3>4, <3>5, <3>6
  <2>9. CASE SyncDirectory
    <3>1. store.text \in Texts /\ files[store.text] # Absent
      BY <2>9 DEF SyncDirectory, StoreInProgress, TypeOK, Procedures
    <3>2. TypeOK' /\ StoreInProgress'
      BY <2>9, <3>1, IdleTyped, StoreIdle DEF SyncDirectory, TypeOK
    <3>3. GoodFiles' /\ AcknowledgedSurvives'
      BY <2>9, <3>1 DEF SyncDirectory, GoodFiles, Good, AcknowledgedSurvives
    <3> QED  BY <3>2, <3>3
  <2>10. CASE StoreFails
    BY <2>10, StoreIdle, IdleTyped DEF StoreFails, TypeOK, GoodFiles, Good, AcknowledgedSurvives
  <2>11. ASSUME NEW p \in Texts, Load(p) PROVE Inv'
    <3>1. PICK t \in Texts : /\ Longest(t, p)
                             /\ session' = files[t].state /\ source' = t
                             /\ Unlink(t) \/ UnlinkFails
      BY <2>11 DEF Load
    <3>2. session' = t
      BY <3>1 DEF Longest, Candidates, Entries, GoodFiles, Good
    <3>3. TypeOK'
      BY <2>11, <3>1, <3>2, UnlinkKeeps DEF Load, TypeOK, UnlinkFails
    <3>4. GoodFiles' /\ AcknowledgedSurvives'
      BY <2>11, <3>1, UnlinkKeeps, FewerFiles DEF Load, UnlinkFails
    <3>5. StoreInProgress'
      BY <2>11, StoreIdle DEF Load, Ready
    <3> QED  BY <3>3, <3>4, <3>5
  <2>12. ASSUME NEW p \in Texts, LoadFails(p) \/ Prefill(p) PROVE Inv'
    BY <2>12, StoreIdle DEF LoadFails, Prefill, Ready, TypeOK, GoodFiles, Good,
       AcknowledgedSurvives, Idle
  <2>13. CASE PrefillEnds
    BY <2>13, StoreIdle DEF PrefillEnds, Ready, TypeOK, GoodFiles, Good,
       AcknowledgedSurvives, Idle
  <2>14. CASE PrefillFails
    <3>1. source \in Texts /\ (Unlink(source) \/ UnlinkFails)
      BY <2>14 DEF PrefillFails, TypeOK
    <3>2. TypeOK'
      BY <2>14, <3>1, UnlinkKeeps DEF PrefillFails, TypeOK, UnlinkFails
    <3>3. GoodFiles' /\ AcknowledgedSurvives'
      BY <2>14, <3>1, UnlinkKeeps, FewerFiles DEF PrefillFails, UnlinkFails
    <3>4. StoreInProgress'
      BY <2>14, StoreIdle DEF PrefillFails, Ready
    <3> QED  BY <3>2, <3>3, <3>4
  <2>15. CASE Crash
    BY <2>15, StoreIdle, IdleTyped DEF Crash, Ends, TypeOK, GoodFiles, Good, AcknowledgedSurvives
  <2>16. CASE PowerLoss
    <3>1. \A t \in Texts : files'[t] \in {files[t], stable[t]}
      BY <2>16, SurvivingGood DEF PowerLoss, GoodFiles
    <3>2. TypeOK'
      <4>1. files' \in [Texts -> Snapshots \cup {Absent}]
        BY <2>16, <3>1 DEF PowerLoss, TypeOK
      <4> QED  BY <2>16, <4>1, IdleTyped DEF PowerLoss, Ends, TypeOK
    <3>3. GoodFiles' /\ AcknowledgedSurvives'
      BY <2>16, <3>1 DEF PowerLoss, GoodFiles, Good, AcknowledgedSurvives, TypeOK
    <3>4. StoreInProgress'
      BY <2>16, StoreIdle DEF PowerLoss, Ends
    <3> QED  BY <3>2, <3>3, <3>4
  <2>17. CASE UNCHANGED vars
    BY <2>17, StoreSame DEF vars, TypeOK, GoodFiles, Good, AcknowledgedSurvives
  <2> QED
    BY <2>1, <2>2, <2>3, <2>4, <2>5, <2>6, <2>7, <2>8, <2>9, <2>10, <2>11, <2>12,
       <2>13, <2>14, <2>15, <2>16, <2>17 DEF Next
<1> QED  BY <1>1, <1>2, PTL DEF Spec

(* Every variable keeps its type. *)
THEOREM TypeCorrect == Spec => []TypeOK
<1>1. Inv => TypeOK  BY DEF Inv
<1> QED  BY <1>1, Invariance, PTL

(* Under its name every file is whole and restores the state it stands     *)
(* for, after any crash and any loss of power.                             *)
THEOREM FilesAreWhole == Spec => []WholeUnderItsName
<1>1. Inv => WholeUnderItsName  BY DEF Inv, GoodFiles, Good, WholeUnderItsName
<1> QED  BY <1>1, Invariance, PTL

(* A snapshot acknowledged after it was written is on disk until removed. *)
THEOREM AcknowledgedLasts == Spec => []AcknowledgedSurvives
<1>1. Inv => AcknowledgedSurvives  BY DEF Inv
<1> QED  BY <1>1, Invariance, PTL

-----------------------------------------------------------------------------
(* Every step of the store is one of SnapshotStore, or invisible to it. *)

LEMMA SameView ==
  ASSUME UNCHANGED <<session, files, stable, acked>>
  PROVE  UNCHANGED Abstract!vars
BY DEF Abstract!vars, Present, Dropped

(* A removal takes one file from sight; until the directory is made        *)
(* durable, a loss of power may bring it back. *)
LEMMA UnlinkDrops ==
  ASSUME Inv, NEW t \in Texts, Unlink(t), stable' = stable
  PROVE  /\ Present' = Present \ {t} /\ acked' = acked \ {t}
         /\ Dropped' \in SUBSET (Dropped \cup {t})
         /\ t \notin Present => acked' = acked /\ Dropped' = Dropped /\ Present' = Present
BY UnlinkKeeps DEF Present, Dropped, Inv, AcknowledgedSurvives, Unlink

LEMMA StepImplements ==
  ASSUME Inv, Inv', [Next]_vars
  PROVE  [Abstract!Next]_(Abstract!vars)
<1> USE DEF Abstract!Next
<1>1. CASE \/ \E c \in Ctxs : Open(c)
           \/ \E t \in Texts : StoreExisting(t)
           \/ EvictionFails \/ EvictionEnds \/ Write \/ Flush \/ StoreFails
           \/ PrefillEnds \/ UNCHANGED vars
  BY <1>1, SameView DEF Open, StoreExisting, EvictionFails, EvictionEnds, Write, Flush,
     StoreFails, PrefillEnds, vars
<1>2. ASSUME NEW t \in Texts, EvictOne(t) PROVE Abstract!Drop
  <2>1. Unlink(t) /\ t \in Present /\ session' = session /\ stable' = stable
    BY <1>2 DEF EvictOne, Entries, Present
  <2> QED  BY <2>1, UnlinkDrops DEF Abstract!Drop
<1>3. ASSUME NEW t \in Texts, StoreNew(t) PROVE Abstract!Drop \/ UNCHANGED Abstract!vars
  <2>1. /\ session' = session /\ stable' = stable
        /\ (t \in Present /\ Unlink(t)) \/ UnlinkFails
    BY <1>3 DEF StoreNew, Entries, Present
  <2>2. CASE t \in Present /\ Unlink(t)
    BY <2>1, <2>2, UnlinkDrops DEF Abstract!Drop
  <2>3. CASE UnlinkFails
    BY <2>1, <2>3, SameView DEF UnlinkFails
  <2> QED  BY <2>1, <2>2, <2>3
<1>4. ASSUME NEW p \in Texts, Load(p) PROVE Abstract!Restore
  <2>1. PICK t \in Texts : /\ Longest(t, p)
                           /\ session' = files[t].state
                           /\ Unlink(t) \/ UnlinkFails
    BY <1>4 DEF Load
  <2>2. t \in Present /\ session' = t
    BY <2>1 DEF Longest, Candidates, Entries, Present, Inv, GoodFiles, Good
  <2>3. CASE Unlink(t)
    BY <1>4, <2>2, <2>3, UnlinkDrops DEF Load, Abstract!Restore
  <2>4. CASE UnlinkFails
    <3>1. UNCHANGED <<Present, acked, Dropped>>
      BY <1>4, <2>4 DEF Load, UnlinkFails, Present, Dropped
    <3> QED  BY <2>2, <3>1 DEF Abstract!Restore
  <2> QED  BY <2>1, <2>3, <2>4
<1>5. ASSUME NEW p \in Texts, LoadFails(p) \/ Prefill(p) PROVE Abstract!Evaluate
  <2>1. session' \in Texts \cup {NoText} /\ UNCHANGED <<files, stable, acked>>
    BY <1>5 DEF LoadFails, Prefill
  <2>2. UNCHANGED <<Present, acked, Dropped>>
    BY <2>1 DEF Present, Dropped
  <2> QED  BY <2>1, <2>2 DEF Abstract!Evaluate
<1>6. CASE Publish
  <2>1. store.text \in Texts /\ store.text = session /\ store.tmp # Absent
    BY <1>6 DEF Publish, Inv, StoreInProgress, TypeOK, Procedures
  <2>2. Present' = Present \cup {store.text}
    BY <1>6, <2>1 DEF Publish, Present, Inv, TypeOK
  <2>3. Dropped' \in SUBSET Dropped
    BY <1>6, <2>1 DEF Publish, Dropped, Inv, TypeOK
  <2> QED  BY <1>6, <2>1, <2>2, <2>3 DEF Publish, Abstract!Put
<1>7. CASE SyncDirectory
  <2>1. store.text \in Present
    BY <1>7 DEF SyncDirectory, Inv, StoreInProgress, TypeOK, Procedures, Present
  <2>2. Dropped' = {} /\ Present' = Present
    BY <1>7 DEF SyncDirectory, Dropped, Present
  <2> QED  BY <1>7, <2>1, <2>2 DEF SyncDirectory, Abstract!Keep
<1>8. CASE PrefillFails
  <2>1. /\ source \in Texts /\ session' = NoText /\ stable' = stable
        /\ Unlink(source) \/ UnlinkFails
    BY <1>8 DEF PrefillFails, Inv, TypeOK
  <2>2. CASE Unlink(source) /\ source \in Present
    BY <2>1, <2>2, UnlinkDrops DEF Abstract!Drop
  <2>3. CASE Unlink(source) /\ source \notin Present
    <3>1. UNCHANGED <<Present, acked, Dropped>>
      BY <2>1, <2>3, UnlinkDrops
    <3> QED  BY <2>1, <3>1 DEF Abstract!Evaluate
  <2>4. CASE UnlinkFails
    <3>1. UNCHANGED <<Present, acked, Dropped>>
      BY <2>1, <2>4 DEF UnlinkFails, Present, Dropped
    <3> QED  BY <2>1, <3>1 DEF Abstract!Evaluate
  <2> QED  BY <2>1, <2>2, <2>3, <2>4
<1>9. CASE Crash
  <2>1. session' = NoText /\ acked' = acked /\ UNCHANGED <<Present, Dropped>>
    BY <1>9 DEF Crash, Ends, Present, Dropped
  <2>2. acked \subseteq Present
    BY DEF Inv, TypeOK, AcknowledgedSurvives, Present
  <2> QED  BY <2>1, <2>2 DEF Abstract!Stop
<1>10. CASE PowerLoss
  <2>1. \A t \in Texts : files'[t] \in {files[t], stable[t]}
    BY <1>10, SurvivingGood DEF PowerLoss, Inv, GoodFiles
  <2>2. session' = NoText /\ acked' = acked /\ Dropped' = {}
    BY <1>10 DEF PowerLoss, Ends, Dropped
  <2>3. acked \subseteq Present'
    BY <2>1 DEF Inv, TypeOK, AcknowledgedSurvives, Present
  <2>4. Present' \subseteq Present \cup Dropped
    BY <2>1 DEF Present, Dropped
  <2> QED  BY <2>2, <2>3, <2>4 DEF Abstract!Stop
<1> QED
  BY <1>1, <1>2, <1>3, <1>4, <1>5, <1>6, <1>7, <1>8, <1>9, <1>10 DEF Next

(* The directory keeps the promise of SnapshotStore: what is restored is   *)
(* the state of the text asked for, and neither a crash nor a loss of      *)
(* power takes an acknowledged snapshot or invents one.                    *)
THEOREM StoreKeepsPromise == Spec => KeepsSnapshots
<1>1. Init => Abstract!Init
  BY DEF Init, Abstract!Init, Present, Dropped
<1>2. Inv /\ Inv' /\ [Next]_vars => [Abstract!Next]_(Abstract!vars)
  BY StepImplements
<1> QED  BY <1>1, <1>2, Invariance, PTL DEF Spec, KeepsSnapshots, Abstract!Spec

-----------------------------------------------------------------------------
(* A set of numbers has a least one, and induction follows from that.      *)
LEMMA Least ==
  ASSUME NEW T \in SUBSET Nat, T # {}
  PROVE  \E x \in T : \A y \in T : x <= y
<1> DEFINE R == {ss \in Nat \X Nat : ss[1] < ss[2]}
<1>1. IsWellFoundedOn(R, Nat)
  BY NatLessThanWellFounded, Zenon DEF OpToRel
<1>2. \E x \in T : \A y \in T : ~ (<<y, x>> \in R)
  <2> HIDE DEF R
  <2> QED BY <1>1, WFMin
<1>3. ASSUME NEW x \in T, NEW y \in T, ~ (<<y, x>> \in R)
      PROVE x <= y
  BY <1>3
<1> QED BY <1>2, <1>3

LEMMA NatInd ==
  ASSUME NEW S \in SUBSET Nat, 0 \in S, \A n \in S : n + 1 \in S
  PROVE S = Nat
<1> SUFFICES ASSUME S # Nat PROVE FALSE
  OBVIOUS
<1>1. PICK x \in Nat \ S : \A y \in Nat \ S : x <= y
  BY Least
<1>2. x # 0 /\ x - 1 \in Nat
  BY <1>1
<1>3. x - 1 \in S
  BY <1>1, <1>2
<1> QED BY <1>1, <1>2, <1>3

-----------------------------------------------------------------------------
(* Sums over a finite set, element by element.                             *)
Pick(s) == CHOOSE x \in s : TRUE

\* Sum is taken element by element, as MapThenSumSet does.
Adds(g, f, E) ==
  \A s \in SUBSET E : g[s] = IF s = {} THEN 0 ELSE f[Pick(s)] + g[s \ {Pick(s)}]

Sums(g, f, E) == g \in [SUBSET E -> Nat] /\ Adds(g, f, E)

\* A set of one element more than n, without the one that is picked.
LEMMA PickOne ==
  ASSUME NEW E, IsFiniteSet(E), NEW s \in SUBSET E, s # {}
  PROVE  /\ Pick(s) \in s /\ s \ {Pick(s)} \in SUBSET E
         /\ Cardinality(s) \in Nat /\ Cardinality(s) # 0
         /\ Cardinality(s \ {Pick(s)}) = Cardinality(s) - 1
<1>1. Pick(s) \in s
  BY DEF Pick
<1>2. IsFiniteSet(s)
  BY FS_Subset
<1>3. Cardinality(s) \in Nat /\ Cardinality(s) # 0
  BY <1>2, FS_CardinalityType, FS_EmptySet
<1>4. Cardinality(s \ {Pick(s)}) = Cardinality(s) - 1
  BY <1>1, <1>2, FS_RemoveElement
<1> QED BY <1>1, <1>3, <1>4

LEMMA FinitePart ==
  ASSUME NEW E, IsFiniteSet(E), NEW s \in SUBSET E
  PROVE  IsFiniteSet(s) /\ Cardinality(s) \in Nat /\ (Cardinality(s) = 0 <=> s = {})
BY FS_Subset, FS_CardinalityType, FS_EmptySet

\* What is true of the empty set, and of a set if it is without the picked
\* element, is true of every part of a finite set.
LEMMA PartsInd ==
  ASSUME NEW E, IsFiniteSet(E), NEW Q \in SUBSET SUBSET E, {} \in Q,
         \A s \in SUBSET E : s # {} /\ s \ {Pick(s)} \in Q => s \in Q
  PROVE  Q = SUBSET E
<1> DEFINE T == {n \in Nat : \A s \in SUBSET E : Cardinality(s) = n => s \in Q}
<1>1. 0 \in T
  BY FinitePart
<1>2. ASSUME NEW n \in T PROVE n + 1 \in T
  <2> SUFFICES ASSUME NEW s \in SUBSET E, Cardinality(s) = n + 1 PROVE s \in Q
    OBVIOUS
  <2>1. s # {}
    BY FinitePart
  <2>2. s \ {Pick(s)} \in SUBSET E /\ Cardinality(s \ {Pick(s)}) = n
    BY <2>1, PickOne
  <2>3. s \ {Pick(s)} \in Q
    BY <2>2
  <2> QED BY <2>1, <2>3
<1>3. T = Nat
  <2>1. T \in SUBSET Nat
    OBVIOUS
  <2> HIDE DEF T
  <2> QED BY <1>1, <1>2, <2>1, NatInd
<1>4. ASSUME NEW s \in SUBSET E PROVE s \in Q
  <2>1. Cardinality(s) \in T
    BY <1>3, FinitePart
  <2> QED BY <2>1
<1> QED BY <1>4

\* The sums of the parts of at most n elements form a function.
LEMMA SumsExist ==
  ASSUME NEW E, IsFiniteSet(E), NEW f, \A x \in E : f[x] \in Nat
  PROVE  \E g : Sums(g, f, E)
<1> DEFINE Small(n) == {s \in SUBSET E : Cardinality(s) <= n}
<1> DEFINE Ok(g, n) ==
      /\ g \in [Small(n) -> Nat]
      /\ \A s \in Small(n) : g[s] = IF s = {} THEN 0 ELSE f[Pick(s)] + g[s \ {Pick(s)}]
<1> DEFINE T == {n \in Nat : \E g : Ok(g, n)}
<1>1. 0 \in T
  <2>1. \A s \in Small(0) : s = {}
    BY FinitePart
  <2>2. Ok([s \in Small(0) |-> 0], 0)
    BY <2>1
  <2> QED BY <2>2
<1>2. ASSUME NEW n \in T PROVE n + 1 \in T
  <2>1. PICK g : Ok(g, n)
    OBVIOUS
  <2> DEFINE h == [s \in Small(n + 1) |->
                     IF Cardinality(s) <= n THEN g[s] ELSE f[Pick(s)] + g[s \ {Pick(s)}]]
  <2>2. ASSUME NEW s \in Small(n + 1), s # {}
        PROVE  /\ f[Pick(s)] \in Nat /\ s \ {Pick(s)} \in Small(n)
               /\ s \ {Pick(s)} \in Small(n + 1) /\ h[s \ {Pick(s)}] = g[s \ {Pick(s)}]
    <3>1. /\ Pick(s) \in s /\ s \ {Pick(s)} \in SUBSET E
          /\ Cardinality(s) \in Nat /\ Cardinality(s \ {Pick(s)}) = Cardinality(s) - 1
      BY <2>2, PickOne
    <3>2. Cardinality(s \ {Pick(s)}) <= n /\ Cardinality(s \ {Pick(s)}) <= n + 1
      BY <3>1
    <3> QED BY <3>1, <3>2
  <2>3. \A s \in Small(n) : g[s] \in Nat
    BY <2>1
  <2>4. \A s \in Small(n + 1) : Cardinality(s) <= n => s \in Small(n)
    OBVIOUS
  <2>5. \A s \in Small(n + 1) : ~(Cardinality(s) <= n) => s # {}
    BY FinitePart
  <2> HIDE DEF Small
  <2>6. \A s \in Small(n + 1) : h[s] \in Nat
    <3> SUFFICES ASSUME NEW s \in Small(n + 1) PROVE h[s] \in Nat
      OBVIOUS
    <3>1. CASE Cardinality(s) <= n
      BY <2>3, <2>4, <3>1
    <3>2. CASE ~(Cardinality(s) <= n)
      <4>1. s # {}
        BY <2>5, <3>2
      <4>2. f[Pick(s)] \in Nat /\ s \ {Pick(s)} \in Small(n)
        BY <2>2, <4>1
      <4>3. g[s \ {Pick(s)}] \in Nat
        BY <2>3, <4>2
      <4>4. h[s] = f[Pick(s)] + g[s \ {Pick(s)}]
        BY <3>2
      <4> HIDE DEF h
      <4> QED BY <4>2, <4>3, <4>4
    <3> QED BY <3>1, <3>2
  <2>7. h \in [Small(n + 1) -> Nat]
    BY <2>6
  <2>8. ASSUME NEW s \in Small(n + 1)
        PROVE  h[s] = IF s = {} THEN 0 ELSE f[Pick(s)] + h[s \ {Pick(s)}]
    <3>1. CASE Cardinality(s) <= n
      <4>1. h[s] = g[s] /\ s \in Small(n)
        BY <2>4, <3>1
      <4>2. g[s] = IF s = {} THEN 0 ELSE f[Pick(s)] + g[s \ {Pick(s)}]
        BY <2>1, <4>1
      <4> QED
        <5> HIDE DEF h
        <5> QED BY <2>2, <4>1, <4>2
    <3>2. CASE ~(Cardinality(s) <= n)
      <4>1. h[s] = f[Pick(s)] + g[s \ {Pick(s)}] /\ s # {}
        BY <2>5, <3>2
      <4> HIDE DEF h
      <4> QED BY <2>2, <4>1
    <3> QED BY <3>1, <3>2
  <2>9. Ok(h, n + 1)
    <3> HIDE DEF h
    <3> QED BY <2>7, <2>8
  <2> HIDE DEF h, Ok
  <2> QED BY <2>9
<1>3. T = Nat
  <2>1. T \in SUBSET Nat
    OBVIOUS
  <2> HIDE DEF T
  <2> QED BY <1>1, <1>2, <2>1, NatInd
<1>4. Cardinality(E) \in Nat
  BY FS_CardinalityType
<1>5. PICK g : Ok(g, Cardinality(E))
  BY <1>3, <1>4
<1>6. Small(Cardinality(E)) = SUBSET E
  BY FS_Subset
<1>7. Sums(g, f, E)
  BY <1>5, <1>6 DEF Sums, Adds
<1> QED BY <1>7

\* Two functions that add in the same way agree.
LEMMA SumsUnique ==
  ASSUME NEW E, IsFiniteSet(E), NEW f, NEW g, NEW h, Adds(g, f, E), Adds(h, f, E),
         NEW s \in SUBSET E
  PROVE  g[s] = h[s]
<1> DEFINE Q == {r \in SUBSET E : g[r] = h[r]}
<1>1. {} \in Q
  BY DEF Adds
<1>2. ASSUME NEW r \in SUBSET E, r # {}, r \ {Pick(r)} \in Q PROVE r \in Q
  BY <1>2 DEF Adds
<1>3. Q \in SUBSET SUBSET E
  OBVIOUS
<1>4. Q = SUBSET E
  <2> HIDE DEF Q
  <2> QED BY <1>1, <1>2, <1>3, PartsInd
<1> QED BY <1>4

Rule(g, f, E) ==
  g = [s \in SUBSET E |->
         IF s = {} THEN 0
         ELSE f[CHOOSE x \in s : TRUE] + g[s \ {CHOOSE x \in s : TRUE}]]

SumOf(f, E) == MapThenSumSet(LAMBDA t : f[t], E)

\* MapThenSumSet is what such a function gives of the whole set.
LEMMA SumIs ==
  ASSUME NEW E, IsFiniteSet(E), NEW f, \A x \in E : f[x] \in Nat,
         NEW F, E \subseteq F, IsFiniteSet(F), NEW g, Sums(g, f, F)
  PROVE  SumOf(f, E) = g[E] /\ SumOf(f, E) \in Nat
<1>1. PICK k : Sums(k, f, E)
  BY SumsExist
<1>2. Rule(k, f, E)
  <2> DEFINE r == [s \in SUBSET E |->
                     IF s = {} THEN 0
                     ELSE f[CHOOSE x \in s : TRUE] + k[s \ {CHOOSE x \in s : TRUE}]]
  <2>1. k \in [SUBSET E -> Nat] /\ \A s \in SUBSET E : k[s] = r[s]
    BY <1>1 DEF Sums, Adds, Pick
  <2>2. k = r
    BY <2>1
  <2> QED BY <2>2 DEF Rule
<1> DEFINE h == CHOOSE i : Rule(i, f, E)
<1>3. Rule(h, f, E)
  <2> HIDE DEF Rule
  <2> QED BY <1>2
<1>4. SumOf(f, E) = h[E]
  BY DEF SumOf, MapThenSumSet, MapThenFoldSet, Rule
<1> HIDE DEF h
<1>5. Adds(h, f, E)
  BY <1>3 DEF Rule, Adds, Pick
<1>6. Adds(k, f, E) /\ Adds(g, f, E) /\ k[E] \in Nat
  BY <1>1 DEF Sums, Adds
<1>7. h[E] = k[E] /\ g[E] = k[E]
  BY <1>5, <1>6, SumsUnique
<1> QED BY <1>4, <1>6, <1>7

\* The order in which elements are picked does not matter.
LEMMA AddsOne ==
  ASSUME NEW E, IsFiniteSet(E), NEW f, \A x \in E : f[x] \in Nat, NEW g, Sums(g, f, E),
         NEW s \in SUBSET E, NEW x \in E, x \notin s
  PROVE  g[s \cup {x}] = g[s] + f[x]
<1> DEFINE P(r) == \A y \in r : g[r] = g[r \ {y}] + f[y]
<1> DEFINE T == {n \in Nat : \A r \in SUBSET E : Cardinality(r) = n => P(r)}
<1>1. 0 \in T
  BY FinitePart
<1>2. ASSUME NEW n \in T PROVE n + 1 \in T
  <2> SUFFICES ASSUME NEW r \in SUBSET E, Cardinality(r) = n + 1, NEW y \in r
               PROVE  g[r] = g[r \ {y}] + f[y]
    OBVIOUS
  <2> DEFINE p == Pick(r)
  <2>1. g[r] = f[p] + g[r \ {p}] /\ p \in r
    BY PickOne DEF Sums, Adds
  <2>2. /\ g[r \ {p}] \in Nat /\ g[r \ {y}] \in Nat /\ f[p] \in Nat /\ f[y] \in Nat
        /\ g[(r \ {p}) \ {y}] \in Nat /\ (r \ {p}) \ {y} = (r \ {y}) \ {p}
    BY <2>1 DEF Sums
  <2>3. Cardinality(r \ {p}) = n /\ Cardinality(r \ {y}) = n
    <3>1. IsFiniteSet(r) /\ n \in Nat
      BY FinitePart
    <3>2. \A z \in r : Cardinality(r \ {z}) = Cardinality(r) - 1
      BY <3>1, FS_RemoveElement
    <3> QED BY <2>1, <3>1, <3>2
  <2>4. P(r \ {p}) /\ P(r \ {y})
    BY <2>3
  <2> HIDE DEF p
  <2>5. CASE y = p
    BY <2>1, <2>2, <2>5
  <2>6. CASE y # p
    <3>1. g[r \ {p}] = g[(r \ {p}) \ {y}] + f[y]
      BY <2>4, <2>6
    <3>2. g[r \ {y}] = g[(r \ {y}) \ {p}] + f[p]
      BY <2>1, <2>4, <2>6
    <3> DEFINE a == g[r \ {p}]
    <3> DEFINE b == g[r \ {y}]
    <3> DEFINE c == g[(r \ {p}) \ {y}]
    <3>3. /\ a \in Nat /\ b \in Nat /\ c \in Nat /\ f[p] \in Nat /\ f[y] \in Nat
          /\ g[r] = f[p] + a /\ a = c + f[y] /\ b = c + f[p]
      BY <2>1, <2>2, <3>1, <3>2
    <3> HIDE DEF a, b, c
    <3>4. g[r] = b + f[y]
      BY <3>3
    <3> QED BY <3>4 DEF b
  <2> QED BY <2>5, <2>6
<1>3. T = Nat
  <2>1. T \in SUBSET Nat
    OBVIOUS
  <2> HIDE DEF T
  <2> QED BY <1>1, <1>2, <2>1, NatInd
<1>4. s \cup {x} \in SUBSET E /\ Cardinality(s \cup {x}) \in T
  BY <1>3, FinitePart
<1>5. P(s \cup {x})
  BY <1>4
<1>6. (s \cup {x}) \ {x} = s
  OBVIOUS
<1> QED BY <1>5, <1>6

(* One element more adds its own part and no less than nothing.            *)
LEMMA SumOfOneMore ==
  ASSUME NEW E, IsFiniteSet(E), NEW f, \A y \in E : f[y] \in Nat, NEW x, f[x] \in Nat
  PROVE  /\ SumOf(f, E \cup {x}) <= SumOf(f, E) + f[x] /\ SumOf(f, E \cup {x}) \in Nat
         /\ SumOf(f, E \ {x}) <= SumOf(f, E) /\ SumOf(f, E \ {x}) \in Nat
         /\ SumOf(f, E) \in Nat
<1> DEFINE F == E \cup {x}
<1>1. IsFiniteSet(F) /\ IsFiniteSet(E \ {x}) /\ \A y \in F : f[y] \in Nat
  BY FS_AddElement, FS_RemoveElement
<1>2. PICK g : Sums(g, f, F)
  BY <1>1, SumsExist
<1>3. /\ SumOf(f, F) = g[F] /\ SumOf(f, F) \in Nat
      /\ SumOf(f, E) = g[E] /\ SumOf(f, E) \in Nat
      /\ SumOf(f, E \ {x}) = g[E \ {x}] /\ SumOf(f, E \ {x}) \in Nat
  BY <1>1, <1>2, SumIs
<1>4. g[(E \ {x}) \cup {x}] = g[E \ {x}] + f[x]
  BY <1>1, <1>2, AddsOne
<1>5. CASE x \in E
  <2>1. E \cup {x} = E /\ (E \ {x}) \cup {x} = E
    BY <1>5
  <2>2. SumOf(f, E) = SumOf(f, E \ {x}) + f[x]
    BY <1>3, <1>4, <2>1
  <2>3. SumOf(f, E \cup {x}) = SumOf(f, E)
    BY <2>1
  <2> DEFINE a == SumOf(f, E)
  <2> DEFINE b == SumOf(f, E \ {x})
  <2>4. a \in Nat /\ b \in Nat /\ a = b + f[x]
    BY <1>3, <2>2
  <2> HIDE DEF a, b
  <2>5. b <= a /\ a <= a + f[x]
    BY <2>4
  <2> QED BY <2>3, <2>4, <2>5 DEF a, b
<1>6. CASE x \notin E
  <2>1. E \ {x} = E /\ (E \ {x}) \cup {x} = E \cup {x}
    BY <1>6
  <2>2. SumOf(f, E \cup {x}) = SumOf(f, E) + f[x]
    BY <1>3, <1>4, <2>1
  <2>3. SumOf(f, E \ {x}) = SumOf(f, E)
    BY <2>1
  <2> DEFINE a == SumOf(f, E)
  <2> DEFINE b == SumOf(f, E \cup {x})
  <2>4. a \in Nat /\ b \in Nat /\ b = a + f[x]
    BY <1>3, <2>2
  <2> HIDE DEF a, b
  <2>5. b <= a + f[x] /\ a <= a
    BY <2>4
  <2> QED BY <2>3, <2>4, <2>5 DEF a, b
<1> QED BY <1>5, <1>6

(* A sum of larger parts is larger.                                        *)
LEMMA SumOfLarger ==
  ASSUME NEW E, IsFiniteSet(E), NEW e, NEW f,
         \A y \in E : e[y] \in Nat /\ f[y] \in Nat /\ e[y] <= f[y]
  PROVE  SumOf(e, E) <= SumOf(f, E) /\ SumOf(e, E) \in Nat /\ SumOf(f, E) \in Nat
<1>1. PICK g : Sums(g, e, E)
  BY SumsExist
<1>2. PICK h : Sums(h, f, E)
  BY SumsExist
<1> DEFINE Q == {s \in SUBSET E : g[s] <= h[s]}
<1>3. {} \in Q
  <2>1. g[{}] = 0 /\ h[{}] = 0
    BY <1>1, <1>2 DEF Sums, Adds
  <2> QED BY <2>1
<1>4. ASSUME NEW s \in SUBSET E, s # {}, s \ {Pick(s)} \in Q PROVE s \in Q
  <2> DEFINE p == Pick(s)
  <2>1. p \in s
    BY <1>4 DEF Pick
  <2>2. g[s] = e[p] + g[s \ {p}] /\ h[s] = f[p] + h[s \ {p}]
    BY <1>1, <1>2, <1>4 DEF Sums, Adds
  <2>3. g[s \ {p}] \in Nat /\ h[s \ {p}] \in Nat /\ g[s \ {p}] <= h[s \ {p}]
    BY <1>1, <1>2, <1>4 DEF Sums
  <2>4. e[p] \in Nat /\ f[p] \in Nat /\ e[p] <= f[p]
    BY <2>1
  <2> HIDE DEF p
  <2>5. g[s] <= h[s]
    BY <2>2, <2>3, <2>4
  <2> QED BY <2>5
<1>5. Q = SUBSET E
  <2>1. Q \in SUBSET SUBSET E
    OBVIOUS
  <2> HIDE DEF Q
  <2> QED BY <1>3, <1>4, <2>1, PartsInd
<1>6. g[E] <= h[E]
  BY <1>5
<1>7. SumOf(e, E) = g[E] /\ SumOf(e, E) \in Nat /\ SumOf(f, E) = h[E] /\ SumOf(f, E) \in Nat
  BY <1>1, <1>2, SumIs
<1> QED BY <1>6, <1>7

LEMMA SumOfNone ==
  ASSUME NEW f PROVE SumOf(f, {}) = 0
<1>1. IsFiniteSet({})
  BY FS_EmptySet
<1>2. PICK g : Sums(g, f, {})
  BY <1>1, SumsExist
<1>3. SumOf(f, {}) = g[{}]
  BY <1>1, <1>2, SumIs
<1> QED BY <1>2, <1>3 DEF Sums, Adds

-----------------------------------------------------------------------------
(* The budget: the files there are, and what their snapshots take.         *)
Known == {t \in Texts : files[t] # Absent \/ stable[t] # Absent}
Used == SumOf(Bytes, Entries)

(* A store that got room keeps it until its file is published; what it     *)
(* needs is at least the snapshot's own size, and within the budget.       *)
Roomy ==
  /\ IsFiniteSet(Known)
  /\ store.text # NoText => Bytes[store.text] <= store.need /\ store.need <= Budget
  /\ store.text = NoText => store.need = 0
  /\ (ctx # 0 /\ ~stuck /\ store.at # "evict") =>
       IF store.at \in {"idle", "sync"} THEN Used <= Budget
       ELSE Used + store.need <= Budget

BInv == Inv /\ Roomy

LEMMA EntriesKnown ==
  ASSUME Inv
  PROVE  Entries = Present /\ Entries \subseteq Known /\ Known \subseteq Texts
         /\ Entries \subseteq Texts
         /\ \A t \in Texts : Bytes[t] \in Nat
BY SizesAreNat DEF Inv, GoodFiles, Good, Entries, Present, Known

LEMMA UsedType ==
  ASSUME BInv
  PROVE  /\ IsFiniteSet(Entries) /\ Used \in Nat
         /\ \A t \in Entries : Bytes[t] \in Nat
<1>1. IsFiniteSet(Entries) /\ \A t \in Entries : Bytes[t] \in Nat
  BY EntriesKnown, FS_Subset DEF BInv, Roomy
<1> QED BY <1>1, SumOfLarger DEF Used

(* The size of the files with their trailers is no less.                   *)
LEMMA TotalIsMore ==
  ASSUME BInv
  PROVE  Used <= Total /\ Total \in Nat
<1> DEFINE E == Entries
<1> DEFINE f == [t \in Texts |-> Bytes[t] + trailers[t]]
<1> DEFINE RuleT(g) ==
      g = [s \in SUBSET E |->
             IF s = {} THEN 0
             ELSE Bytes[CHOOSE x \in s : TRUE] + trailers[CHOOSE x \in s : TRUE]
                  + g[s \ {CHOOSE x \in s : TRUE}]]
<1>0. E \subseteq Texts /\ IsFiniteSet(E)
  BY EntriesKnown, UsedType DEF BInv
<1>1. \A t \in Texts : trailers[t] \in Nat /\ Bytes[t] \in Nat /\ f[t] = Bytes[t] + trailers[t]
  BY SizesAreNat DEF BInv, Inv, TypeOK
<1>2. \A t \in Texts : f[t] \in Nat /\ Bytes[t] <= f[t]
  <2> HIDE DEF f
  <2> QED BY <1>1
<1> HIDE DEF E, f
<1>3. PICK k : Sums(k, f, E)
  BY <1>0, <1>2, SumsExist
<1>4. \A s \in SUBSET E : s # {} => Pick(s) \in Texts
  BY <1>0 DEF Pick
<1>5. RuleT(k)
  <2> DEFINE r == [s \in SUBSET E |->
             IF s = {} THEN 0
             ELSE Bytes[CHOOSE x \in s : TRUE] + trailers[CHOOSE x \in s : TRUE]
                  + k[s \ {CHOOSE x \in s : TRUE}]]
  <2>1. ASSUME NEW s \in SUBSET E PROVE k[s] = r[s]
    <3>1. CASE s = {}
      BY <1>3, <3>1 DEF Sums, Adds
    <3>2. CASE s # {}
      <4>1. k[s] = f[Pick(s)] + k[s \ {Pick(s)}]
        BY <1>3, <3>2 DEF Sums, Adds
      <4>2. f[Pick(s)] = Bytes[Pick(s)] + trailers[Pick(s)]
        BY <1>1, <1>4, <3>2
      <4>3. r[s] = Bytes[Pick(s)] + trailers[Pick(s)] + k[s \ {Pick(s)}]
        BY <3>2 DEF Pick
      <4> HIDE DEF r
      <4> QED BY <4>1, <4>2, <4>3
    <3> QED BY <3>1, <3>2
  <2>2. k \in [SUBSET E -> Nat]
    BY <1>3 DEF Sums
  <2>3. k = r
    BY <2>1, <2>2
  <2> QED BY <2>3
<1> DEFINE h == CHOOSE g : RuleT(g)
<1>6. RuleT(h)
  <2> HIDE DEF RuleT
  <2> QED BY <1>5
<1>7. Total = h[E]
  BY DEF Total, Size, MapThenSumSet, MapThenFoldSet, E
<1> HIDE DEF h
<1>8. Adds(h, f, E)
  <2> SUFFICES ASSUME NEW s \in SUBSET E
               PROVE  h[s] = IF s = {} THEN 0 ELSE f[Pick(s)] + h[s \ {Pick(s)}]
    BY DEF Adds
  <2>1. CASE s = {}
    BY <1>6, <2>1
  <2>2. CASE s # {}
    <3>1. h[s] = Bytes[Pick(s)] + trailers[Pick(s)] + h[s \ {Pick(s)}]
      BY <1>6, <2>2 DEF Pick
    <3>2. f[Pick(s)] = Bytes[Pick(s)] + trailers[Pick(s)]
      BY <1>1, <1>4, <2>2
    <3> QED BY <2>2, <3>1, <3>2
  <2> QED BY <2>1, <2>2
<1>9. h[E] = SumOf(f, E)
  <2>1. h[E] = k[E]
    BY <1>0, <1>3, <1>8, SumsUnique DEF Sums
  <2>2. SumOf(f, E) = k[E]
    BY <1>0, <1>2, <1>3, SumIs
  <2> QED BY <2>1, <2>2
<1>10. SumOf(Bytes, E) <= SumOf(f, E) /\ SumOf(f, E) \in Nat
  BY <1>0, <1>1, <1>2, SumOfLarger
<1> QED BY <1>7, <1>9, <1>10 DEF Used, E

(* Without some file, no more is used. *)
LEMMA FewerUsed ==
  ASSUME BInv, Inv', NEW t \in Texts, Unlink(t) \/ UnlinkFails, stable' = stable
  PROVE  /\ Used' <= Used /\ Used' \in Nat /\ Used \in Nat
         /\ IsFiniteSet(Known)'
<1>1. Entries' \in {Entries, Entries \ {t}} /\ Known' \subseteq Known
  <2>1. CASE Unlink(t)
    <3>1. Present' = Present \ {t} /\ Known' \subseteq Known
      BY <2>1, UnlinkKeeps DEF BInv, Present, Known
    <3>2. Entries = Present /\ Entries' = Present'
      BY EntriesKnown DEF BInv, Inv, GoodFiles, Good, Entries, Present
    <3> QED BY <3>1, <3>2
  <2>2. CASE UnlinkFails
    BY <2>2 DEF UnlinkFails, Entries, Known
  <2> QED BY <2>1, <2>2
<1>2. /\ IsFiniteSet(Entries) /\ Used \in Nat /\ \A u \in Entries : Bytes[u] \in Nat
      /\ Bytes[t] \in Nat
  BY UsedType, SizesAreNat
<1>3. SumOf(Bytes, Entries \ {t}) <= Used /\ SumOf(Bytes, Entries \ {t}) \in Nat
  BY <1>2, SumOfOneMore DEF Used
<1>4. Used' = SumOf(Bytes, Entries') /\ Used = SumOf(Bytes, Entries)
  BY DEF Used
<1>5. Used' <= Used /\ Used' \in Nat
  <2>1. CASE Entries' = Entries
    BY <1>2, <1>4, <2>1
  <2>2. CASE Entries' = Entries \ {t}
    BY <1>2, <1>3, <1>4, <2>2
  <2> QED BY <1>1, <2>1, <2>2
<1>6. IsFiniteSet(Known')
  BY <1>1, FS_Subset DEF BInv, Roomy
<1> QED BY <1>2, <1>5, <1>6

LEMMA SameUsed ==
  ASSUME BInv, files' = files
  PROVE  Used' = Used /\ Used \in Nat
<1>1. Entries' = Entries
  BY DEF Entries
<1> QED BY <1>1, UsedType DEF Used

(* Fits leaves room for n. *)
LEMMA FitsIsLess ==
  ASSUME NEW n \in Nat, Fits(n)
  PROVE  n <= Budget
BY LimitsAreNat DEF Fits

LEMMA NeedType ==
  ASSUME BInv
  PROVE  store.need \in Nat /\ Budget \in Nat /\ Trailers \subseteq Nat
         /\ \A t \in Texts : Bytes[t] \in Nat
BY SizesAreNat, LimitsAreNat DEF BInv, Inv, TypeOK, Procedures

LEMMA RoomyInit == Init => Roomy
<1> SUFFICES ASSUME Init PROVE Roomy
  OBVIOUS
<1>1. Known = {}
  BY DEF Init, Known
<1> QED BY <1>1, FS_EmptySet DEF Init, Roomy, Idle

LEMMA StepIsRoomy ==
  ASSUME BInv, Inv', [Next]_vars
  PROVE  Roomy'
<1>0. /\ IsFiniteSet(Known) /\ store.need \in Nat /\ Budget \in Nat /\ Trailers \subseteq Nat
      /\ Used \in Nat /\ \A t \in Texts : Bytes[t] \in Nat
      /\ store.at = "idle" => store = Idle
  BY NeedType, UsedType DEF BInv, Roomy, Inv, StoreInProgress
<1>1. ASSUME NEW c \in Ctxs, Open(c) PROVE Roomy'
  <2>1. Known' = Known
    BY <1>1 DEF Open, Known
  <2>2. store'.at = "evict" /\ store'.text = NoText /\ store'.need = 0
    BY <1>1 DEF Open, Idle
  <2> QED BY <1>0, <2>1, <2>2 DEF Roomy
<1>2. ASSUME NEW t \in Texts, EvictOne(t) PROVE Roomy'
  <2>1. Unlink(t) /\ stable' = stable /\ store' = store /\ store.at = "evict"
    BY <1>2 DEF EvictOne
  <2>2. IsFiniteSet(Known)'
    BY <2>1, FewerUsed
  <2> QED BY <2>1, <2>2 DEF BInv, Roomy
<1>3. CASE EvictionFails \/ EvictionEnds
  <2>1. store' = AfterEviction /\ UNCHANGED <<ctx, files, stable>>
    BY <1>3 DEF EvictionFails, EvictionEnds
  <2>2. Known' = Known /\ Used' = Used
    BY <2>1, SameUsed DEF Known
  <2>3. \/ store' = Idle /\ store.text = NoText
        \/ /\ store.text # NoText /\ store'.at = "write"
           /\ store'.text = store.text /\ store'.need = store.need
    BY <2>1 DEF AfterEviction, BInv, Inv, TypeOK, Procedures
  <2>4. stuck' = TRUE \/ Used + store.need <= Budget
    <3>1. CASE EvictionFails
      BY <3>1 DEF EvictionFails
    <3>2. CASE Total <= Room
      BY <1>0, <3>2, TotalIsMore DEF Room
    <3>3. CASE Entries = {}
      <4>1. Used = 0
        BY <3>3, SumOfNone DEF Used
      <4> QED BY <1>0, <4>1 DEF BInv, Roomy
    <3> QED BY <1>3, <3>1, <3>2, <3>3 DEF EvictionEnds
  <2> HIDE DEF Used, Known
  <2>5. CASE store' = Idle /\ store.text = NoText
    <3>1. store.need = 0
      BY <2>5 DEF BInv, Roomy
    <3> QED BY <1>0, <2>2, <2>4, <2>5, <3>1 DEF Roomy, Idle
  <2>6. CASE /\ store.text # NoText /\ store'.at = "write"
             /\ store'.text = store.text /\ store'.need = store.need
    BY <1>0, <2>2, <2>4, <2>6 DEF BInv, Roomy
  <2> QED BY <2>3, <2>5, <2>6
<1>4. CASE \E t \in Texts : StoreExisting(t) \/ LoadFails(t) \/ Prefill(t)
  <2>1. UNCHANGED <<ctx, store, files, stable, stuck>>
    BY <1>4 DEF StoreExisting, LoadFails, Prefill
  <2>2. Known' = Known /\ Used' = Used
    BY <2>1, SameUsed DEF Known
  <2> HIDE DEF Used, Known
  <2> QED BY <2>1, <2>2 DEF BInv, Roomy
<1>5. ASSUME NEW t \in Texts, StoreNew(t) PROVE Roomy'
  <2>1. /\ Unlink(t) \/ UnlinkFails
        /\ UNCHANGED <<ctx, stable, stuck>> /\ store = Idle /\ ctx # 0
    BY <1>5 DEF StoreNew, Ready
  <2>2. Used' <= Used /\ Used' \in Nat /\ IsFiniteSet(Known)'
    BY <2>1, FewerUsed
  <2>3. CASE store' = store
    <3>1. store.at = "idle"
      BY <2>1 DEF Idle
    <3>2. ~stuck => Used <= Budget
      BY <2>1, <3>1 DEF BInv, Roomy
    <3>3. ~stuck' => Used' <= Budget
      BY <1>0, <2>1, <2>2, <3>2
    <3> QED BY <2>1, <2>2, <2>3, <3>1, <3>3 DEF BInv, Roomy
  <2>4. CASE \E n \in Trailers :
               /\ Fits(Bytes[t] + n)
               /\ store' = [at |-> "evict", text |-> t, need |-> Bytes[t] + n,
                            tmp |-> Absent, tail |-> 0]
    <3>1. PICK n \in Trailers :
               /\ Fits(Bytes[t] + n)
               /\ store' = [at |-> "evict", text |-> t, need |-> Bytes[t] + n,
                            tmp |-> Absent, tail |-> 0]
      BY <2>4
    <3>2. Bytes[t] + n <= Budget /\ Bytes[t] <= Bytes[t] + n
      BY <1>0, <3>1, FitsIsLess
    <3>3. t # NoText
      BY TextsAreSeqs
    <3> QED BY <2>2, <3>1, <3>2, <3>3 DEF Roomy
  <2> QED BY <1>5, <2>3, <2>4 DEF StoreNew
<1>6. CASE Write \/ Flush
  <2>1. UNCHANGED <<ctx, files, stable, stuck>>
    BY <1>6 DEF Write, Flush
  <2>2. Known' = Known /\ Used' = Used
    BY <2>1, SameUsed DEF Known
  <2>3. /\ store.at \in {"write", "flush"} /\ store'.at \in {"flush", "publish"}
        /\ store'.text = store.text /\ store'.need = store.need
    BY <1>6 DEF Write, Flush, BInv, Inv, TypeOK, Procedures
  <2> HIDE DEF Used, Known
  <2> QED BY <2>1, <2>2, <2>3 DEF BInv, Roomy
<1>7. CASE Publish
  <2> DEFINE t == store.text
  <2>1. t \in Texts /\ t # NoText /\ ctx # 0
    BY <1>7 DEF Publish, BInv, Inv, StoreInProgress, TypeOK, Procedures, Idle
  <2>2. /\ store'.at = "sync" /\ store'.text = store.text /\ store'.need = store.need
        /\ UNCHANGED <<ctx, stable, stuck>>
    BY <1>7 DEF Publish, BInv, Inv, TypeOK, Procedures
  <2>3. Entries' = Entries \cup {t} /\ Known' = Known \cup {t}
    <3>1. /\ files'[t] # Absent
          /\ \A u \in Texts : u # t => files'[u] = files[u]
      BY <1>7, <2>1 DEF Publish, BInv, Inv, TypeOK, StoreInProgress
    <3>2. Entries = Present /\ Entries' = Present'
      BY EntriesKnown DEF BInv, Inv, GoodFiles, Good, Entries, Present
    <3> QED BY <2>1, <2>2, <3>1, <3>2 DEF Present, Known
  <2>4. Used' <= Used + Bytes[t] /\ Used' \in Nat
    <3>1. /\ IsFiniteSet(Entries) /\ \A u \in Entries : Bytes[u] \in Nat
          /\ Bytes[t] \in Nat
      BY <1>0, <2>1, UsedType
    <3> QED BY <2>3, <3>1, SumOfOneMore DEF Used
  <2>5. IsFiniteSet(Known)'
    BY <1>0, <2>3, FS_AddElement
  <2>6. Bytes[t] <= store.need /\ store.need <= Budget /\ Bytes[t] \in Nat
    BY <1>0, <2>1 DEF BInv, Roomy
  <2>7. ~stuck => Used + store.need <= Budget
    BY <1>7, <2>1 DEF BInv, Roomy, Publish
  <2>8. ~stuck => Used' <= Budget
    <3> HIDE DEF t
    <3> QED BY <1>0, <2>4, <2>6, <2>7
  <2> QED BY <2>1, <2>2, <2>5, <2>6, <2>8 DEF Roomy
<1>8. CASE SyncDirectory \/ StoreFails
  <2>1. /\ UNCHANGED <<ctx, files, stuck>> /\ store' = Idle
        /\ store.at \in {"write", "flush", "publish", "sync"}
        /\ stable' = files \/ stable' = stable
    BY <1>8 DEF SyncDirectory, StoreFails
  <2>2. Known' \subseteq Known /\ Used' = Used
    BY <2>1, SameUsed DEF Known
  <2>3. IsFiniteSet(Known)'
    BY <1>0, <2>2, FS_Subset
  <2>4. ctx # 0 /\ ~stuck => Used <= Budget
    BY <1>0, <2>1 DEF BInv, Roomy
  <2> HIDE DEF Used, Known
  <2> QED BY <2>1, <2>2, <2>3, <2>4 DEF Roomy, Idle
<1>9. ASSUME (\E p \in Texts : Load(p)) \/ PrefillFails PROVE Roomy'
  <2>1. /\ \E t \in Texts : Unlink(t) \/ UnlinkFails
        /\ UNCHANGED <<ctx, store, stable, stuck>> /\ store = Idle /\ ctx # 0
    BY <1>9 DEF Load, PrefillFails, Ready, BInv, Inv, TypeOK
  <2>2. Used' <= Used /\ Used' \in Nat /\ IsFiniteSet(Known)'
    BY <2>1, FewerUsed
  <2>3. store.at = "idle"
    BY <2>1 DEF Idle
  <2>4. ~stuck => Used <= Budget
    BY <2>1, <2>3 DEF BInv, Roomy
  <2>5. ~stuck' => Used' <= Budget
    BY <1>0, <2>1, <2>2, <2>4
  <2> QED BY <2>1, <2>2, <2>3, <2>5 DEF BInv, Roomy
<1>10. CASE PrefillEnds \/ UNCHANGED vars
  <2>1. UNCHANGED <<ctx, store, files, stable, stuck>>
    BY <1>10 DEF PrefillEnds, vars
  <2>2. Known' = Known /\ Used' = Used
    BY <2>1, SameUsed DEF Known
  <2> HIDE DEF Used, Known
  <2> QED BY <2>1, <2>2 DEF BInv, Roomy
<1>11. CASE Crash \/ PowerLoss
  <2>1. ctx' = 0 /\ store' = Idle
    BY <1>11 DEF Crash, PowerLoss, Ends
  <2>2. Known' \subseteq Known
    <3>1. CASE Crash
      BY <3>1 DEF Crash, Known
    <3>2. CASE PowerLoss
      <4>1. \A t \in Texts : files'[t] \in {files[t], stable[t]}
        BY <3>2, SurvivingGood DEF PowerLoss, BInv, Inv, GoodFiles
      <4> QED BY <3>2, <4>1 DEF PowerLoss, Known
    <3> QED BY <1>11, <3>1, <3>2
  <2>3. IsFiniteSet(Known)'
    BY <1>0, <2>2, FS_Subset
  <2> QED BY <2>1, <2>3 DEF Roomy, Idle
<1> QED
  BY <1>1, <1>2, <1>3, <1>4, <1>5, <1>6, <1>7, <1>8, <1>9, <1>10, <1>11 DEF Next

(* The snapshots on disk fit the budget whenever no procedure is under     *)
(* way, unless the last eviction met a file it could not remove.           *)
THEOREM StaysWithinBudget == Spec => []WithinBudget
<1>1. Init => Roomy
  BY RoomyInit
<1>2. Inv /\ Inv' /\ Roomy /\ [Next]_vars => Roomy'
  BY StepIsRoomy DEF BInv
<1>3. Inv /\ Roomy => WithinBudget
  <2> SUFFICES ASSUME Inv, Roomy, Ready, ~stuck
               PROVE  MapThenSumSet(LAMBDA t : Bytes[t], Entries) <= Budget
    BY DEF WithinBudget
  <2>1. store.at = "idle" /\ ctx # 0
    BY DEF Ready, Idle
  <2>2. Used <= Budget
    BY <2>1 DEF Roomy
  <2> QED BY <2>2 DEF Used, SumOf
<1> QED BY <1>1, <1>2, <1>3, Invariance, PTL DEF Spec

-----------------------------------------------------------------------------
(* The texts of a reply.                                                   *)
ReplyTexts == Seq(Symbols)

(***************************************************************************)
(* Naturals: a least element, a greatest one below a bound, induction.     *)
(***************************************************************************)
LEMMA LeastNat ==
  ASSUME NEW S \in SUBSET Nat, S # {}
  PROVE  \E x \in S : \A y \in S : x <= y
<1> DEFINE R == {ss \in Nat \X Nat : ss[1] < ss[2]}
<1>1. IsWellFoundedOn(R, Nat)
  BY NatLessThanWellFounded, Zenon DEF OpToRel
<1>2. \E x \in S : \A y \in S : ~ (<<y, x>> \in R)
  <2> HIDE DEF R
  <2> QED BY <1>1, WFMin
<1>3. ASSUME NEW x \in S, NEW y \in S, ~ (<<y, x>> \in R)
      PROVE x <= y
  BY <1>3
<1> QED BY <1>2, <1>3

(* Induction: a set of naturals that goes on from 0 has all of them.       *)
LEMMA Upwards ==
  ASSUME NEW S \in SUBSET Nat, 0 \in S, \A n \in S : n + 1 \in S
  PROVE S = Nat
<1> SUFFICES ASSUME S # Nat PROVE FALSE
  OBVIOUS
<1>1. PICK x \in Nat \ S : \A y \in Nat \ S : x <= y
  BY LeastNat
<1>2. x # 0 /\ x - 1 \in Nat
  BY <1>1
<1>3. x - 1 \in S
  BY <1>1, <1>2
<1> QED BY <1>1, <1>2, <1>3

(* Min and Max of a set of positions. *)
LEMMA MinIs ==
  ASSUME NEW S \in SUBSET Nat, S # {}
  PROVE  Min(S) \in S /\ \A y \in S : Min(S) <= y
<1>1. PICK x \in S : \A y \in S : x <= y
  BY LeastNat
<1> QED BY <1>1 DEF Min

(* The greatest of some places of a text of length n.                      *)
LEMMA MaxIs ==
  ASSUME NEW n \in Nat, NEW S \in SUBSET (0..n), S # {}
  PROVE  Max(S) \in S /\ \A y \in S : y <= Max(S)
<1> DEFINE U == {m \in Nat : m <= n /\ n - m \in S}
<1>0. \A y \in S : y \in Nat /\ y <= n /\ n - y \in Nat /\ n - y <= n /\ n - (n - y) = y
  OBVIOUS
<1>1. U \in SUBSET Nat /\ \A y \in S : n - y \in U
  BY <1>0
<1>2. PICK u \in U : \A v \in U : u <= v
  <2> HIDE DEF U
  <2> QED BY <1>1, LeastNat
<1>3. n - u \in S
  BY <1>2
<1>4. ASSUME NEW y \in S PROVE n - u >= y
  BY <1>0, <1>1, <1>2, <1>3
<1>6. Max(S) \in S /\ \A y \in S : Max(S) >= y
  BY <1>3, <1>4 DEF Max
<1> QED BY <1>0, <1>6

(***************************************************************************)
(* What the operators of DsmlText find.                                    *)
(***************************************************************************)
(* A tag at a place, symbol by symbol. *)
LEMMA FullIs ==
  ASSUME NEW T \in ReplyTexts, NEW p \in Nat, NEW lit \in ReplyTexts
  PROVE  Full(T, p, lit) <=> /\ p + Len(lit) <= Len(T)
                             /\ \A k \in 1..Len(lit) : T[p + k] = lit[k]
<1>1. Len(T) \in Nat /\ Len(lit) \in Nat
  BY DEF ReplyTexts
<1> SUFFICES ASSUME p + Len(lit) <= Len(T)
             PROVE  SubSeq(T, p + 1, p + Len(lit)) = lit
                      <=> \A k \in 1..Len(lit) : T[p + k] = lit[k]
  BY <1>1 DEF Full
<1> DEFINE s == SubSeq(T, p + 1, p + Len(lit))
<1>2. \A i \in (p + 1)..(p + Len(lit)) : T[i] \in Symbols
  BY <1>1, ElementOfSeq DEF ReplyTexts
<1>3. /\ s \in Seq(Symbols) /\ Len(s) = Len(lit)
      /\ \A i \in 1..Len(lit) : s[i] = T[p + i]
  <2>1. /\ s \in Seq(Symbols)
        /\ Len(s) = IF p + 1 <= p + Len(lit) THEN (p + Len(lit)) - (p + 1) + 1 ELSE 0
        /\ \A i \in 1..((p + Len(lit)) - (p + 1) + 1) : s[i] = T[(p + 1) + i - 1]
    BY <1>1, <1>2, SubSeqProperties
  <2>2. (p + Len(lit)) - (p + 1) + 1 = Len(lit)
    BY <1>1
  <2>3. \A i \in 1..Len(lit) : (p + 1) + i - 1 = p + i
    BY <1>1
  <2> HIDE DEF s
  <2> QED BY <1>1, <2>1, <2>2, <2>3
<1> HIDE DEF s
<1>4. ASSUME \A k \in 1..Len(lit) : T[p + k] = lit[k] PROVE s = lit
  BY <1>3, <1>4, SeqEqual DEF ReplyTexts
<1>5. ASSUME s = lit PROVE \A k \in 1..Len(lit) : T[p + k] = lit[k]
  BY <1>3, <1>5
<1> QED BY <1>4, <1>5 DEF s

(* The tags are texts, those that close of three symbols, the others of two.*)
LEMMA TagsAreTexts ==
  /\ ThinkStart \in ReplyTexts /\ Len(ThinkStart) = 2
  /\ ThinkEnd \in ReplyTexts /\ Len(ThinkEnd) = 3
  /\ ToolsStart \in ReplyTexts /\ Len(ToolsStart) = 2
  /\ ToolsEnd \in ReplyTexts /\ Len(ToolsEnd) = 3
  /\ CallStart \in ReplyTexts /\ Len(CallStart) = 2
  /\ CallEnd \in ReplyTexts /\ Len(CallEnd) = 3
  /\ ParamEnd \in ReplyTexts /\ Len(ParamEnd) = 3
  /\ ParamStarts \subseteq ReplyTexts /\ \A lit \in ParamStarts : Len(lit) = 2
<1>1. \A a, b \in Symbols : <<a, b>> \in ReplyTexts /\ Len(<<a, b>>) = 2
  BY DEF ReplyTexts
<1>2. \A a, b, c \in Symbols : <<a, b, c>> \in ReplyTexts /\ Len(<<a, b, c>>) = 3
  BY DEF ReplyTexts
<1>3. {"<", "/", "think>", "tools>", "call>", "spar>", "jpar>", "par>"} \subseteq Symbols
  BY DEF Symbols
<1> HIDE DEF Symbols
<1> QED BY <1>1, <1>2, <1>3 DEF ThinkStart, ThinkEnd, ToolsStart, ToolsEnd, CallStart, CallEnd,
             ParamEnd, ParamStarts

(* An opening tag, and a closing one. *)
LEMMA OpenIs ==
  ASSUME NEW T \in ReplyTexts, NEW p \in Nat, NEW a \in Symbols
  PROVE  Full(T, p, <<"<", a>>) <=> p + 2 <= Len(T) /\ T[p + 1] = "<" /\ T[p + 2] = a
<1>1. <<"<", a>> \in ReplyTexts /\ Len(<<"<", a>>) = 2
  BY DEF ReplyTexts, Symbols
<1> DEFINE lit == <<"<", a>>
<1>2. lit \in ReplyTexts /\ Len(lit) = 2 /\ lit[1] = "<" /\ lit[2] = a
  BY <1>1
<1> HIDE DEF lit
<1>3. Full(T, p, lit) <=> p + 2 <= Len(T) /\ \A k \in 1..2 : T[p + k] = lit[k]
  <2>1. Full(T, p, lit) <=> /\ p + Len(lit) <= Len(T)
                            /\ \A k \in 1..Len(lit) : T[p + k] = lit[k]
    BY <1>2, FullIs
  <2> QED BY <1>2, <2>1
<1>4. (\A k \in 1..2 : T[p + k] = lit[k]) <=> T[p + 1] = lit[1] /\ T[p + 2] = lit[2]
  <2>1. 1..2 = {1, 2}
    OBVIOUS
  <2> QED BY <2>1, Zenon
<1> QED BY <1>2, <1>3, <1>4 DEF lit

(* Where a closing tag stands, symbol by symbol.                           *)
LEMMA CloseIs ==
  ASSUME NEW T \in ReplyTexts, NEW p \in Nat, NEW a \in Symbols
  PROVE  Full(T, p, <<"<", "/", a>>)
           <=> p + 3 <= Len(T) /\ T[p + 1] = "<" /\ T[p + 2] = "/" /\ T[p + 3] = a
<1>1. <<"<", "/", a>> \in ReplyTexts /\ Len(<<"<", "/", a>>) = 3
  BY DEF ReplyTexts, Symbols
<1> DEFINE lit == <<"<", "/", a>>
<1>2. lit \in ReplyTexts /\ Len(lit) = 3 /\ lit[1] = "<" /\ lit[2] = "/" /\ lit[3] = a
  BY <1>1
<1> HIDE DEF lit
<1>3. Full(T, p, lit) <=> p + 3 <= Len(T) /\ \A k \in 1..3 : T[p + k] = lit[k]
  <2>1. Full(T, p, lit) <=> /\ p + Len(lit) <= Len(T)
                            /\ \A k \in 1..Len(lit) : T[p + k] = lit[k]
    BY <1>2, FullIs
  <2> QED BY <1>2, <2>1
<1>4. (\A k \in 1..3 : T[p + k] = lit[k])
        <=> T[p + 1] = lit[1] /\ T[p + 2] = lit[2] /\ T[p + 3] = lit[3]
  <2>1. 1..3 = {1, 2, 3}
    OBVIOUS
  <2> QED BY <2>1, Zenon
<1> QED BY <1>2, <1>3, <1>4 DEF lit

(* The first place of a tag, and the last. *)
LEMMA FirstIs ==
  ASSUME NEW T \in ReplyTexts, NEW from \in Nat, NEW lit, Has(T, from, lit)
  PROVE  /\ FirstAt(T, from, lit) \in from..Len(T)
         /\ Full(T, FirstAt(T, from, lit), lit)
         /\ \A p \in from..Len(T) : Full(T, p, lit) => FirstAt(T, from, lit) <= p
<1>1. Len(T) \in Nat
  BY DEF ReplyTexts
<1>2. Places(T, from, lit) \in SUBSET Nat /\ Places(T, from, lit) # {}
  BY <1>1 DEF Places, Has
<1> QED BY <1>2, MinIs DEF FirstAt, Places

(* What LastAt finds.                                                      *)
LEMMA LastIs ==
  ASSUME NEW T \in ReplyTexts, NEW from \in Nat, NEW lit, Has(T, from, lit)
  PROVE  /\ LastAt(T, from, lit) \in from..Len(T)
         /\ Full(T, LastAt(T, from, lit), lit)
         /\ \A p \in from..Len(T) : Full(T, p, lit) => p <= LastAt(T, from, lit)
<1>1. Len(T) \in Nat
  BY DEF ReplyTexts
<1>2. Places(T, from, lit) \in SUBSET (0..Len(T)) /\ Places(T, from, lit) # {}
  BY <1>1 DEF Places, Has
<1> QED BY <1>1, <1>2, MaxIs DEF LastAt, Places

(* Behind the blanks, and before them. *)
LEMMA SkipIs ==
  ASSUME NEW T \in ReplyTexts, NEW p \in Nat, p <= Len(T)
  PROVE  /\ SkipWs(T, p) \in p..Len(T)
         /\ SkipWs(T, p) < Len(T) => T[SkipWs(T, p) + 1] # "w"
         /\ \A i \in p..(SkipWs(T, p) - 1) : T[i + 1] = "w"
<1>1. Len(T) \in Nat
  BY DEF ReplyTexts
<1> DEFINE S == {Len(T)} \cup {i \in p..Len(T) : i < Len(T) /\ T[i + 1] # "w"}
<1>2. S \in SUBSET Nat /\ S # {}
  BY <1>1
<1>3. SkipWs(T, p) = Min(S)
  BY DEF SkipWs
<1>4. Min(S) \in S /\ \A y \in S : Min(S) <= y
  BY <1>2, MinIs
<1>5. Len(T) \in S
  OBVIOUS
<1>6. Min(S) \in p..Len(T) /\ (Min(S) < Len(T) => T[Min(S) + 1] # "w")
  BY <1>1, <1>4
<1>7. ASSUME NEW i \in p..(Min(S) - 1) PROVE T[i + 1] = "w"
  <2>1. Min(S) \in Nat /\ i \in Nat /\ i < Min(S) /\ i \in p..Len(T) /\ i < Len(T)
    BY <1>1, <1>6
  <2>2. i \notin S
    <3> HIDE DEF S
    <3> QED BY <1>4, <2>1
  <2> QED BY <2>1, <2>2
<1> QED BY <1>3, <1>6, <1>7

(* Where the blanks before a limit begin (TrimWs).                         *)
LEMMA TrimIs ==
  ASSUME NEW T \in ReplyTexts, NEW start \in Nat, NEW limit \in Nat, limit <= Len(T)
  PROVE  /\ TrimWs(T, start, limit) \in Nat /\ TrimWs(T, start, limit) >= start
         /\ \/ TrimWs(T, start, limit) = start
            \/ TrimWs(T, start, limit) <= limit /\ T[TrimWs(T, start, limit)] # "w"
         /\ \A l \in (start + 1)..limit : T[l] # "w" => l <= TrimWs(T, start, limit)
<1>1. Len(T) \in Nat
  BY DEF ReplyTexts
<1> DEFINE S == {start} \cup {l \in (start + 1)..limit : T[l] # "w"}
           n == start + limit
<1>2. n \in Nat /\ S \in SUBSET (0..n) /\ S # {}
  OBVIOUS
<1>3. Max(S) \in S /\ \A y \in S : y <= Max(S)
  <2> HIDE DEF S, n
  <2> QED BY <1>2, MaxIs
<1>4. TrimWs(T, start, limit) = Max(S)
  BY DEF TrimWs
<1> DEFINE m == Max(S)
<1>5. m \in Nat /\ m >= start /\ (m = start \/ (m <= limit /\ T[m] # "w"))
  <2>1. m \in S /\ start \in S /\ \A y \in S : y <= m
    BY <1>3
  <2> HIDE DEF m
  <2> QED BY <2>1
<1>6. ASSUME NEW l \in (start + 1)..limit, T[l] # "w" PROVE l <= m
  <2>1. l \in S
    BY <1>6
  <2> HIDE DEF S
  <2> QED BY <1>3, <2>1
<1> QED BY <1>4, <1>5, <1>6

(***************************************************************************)
(* The stream, as the pair of what the server and the client know.         *)
(***************************************************************************)
ToolType(n) ==
  [state : {"none", "invokes", "params", "value", "done", "error"}, pos : 0..n,
   index : Nat, active : BOOLEAN, emitted : BOOLEAN, string : BOOLEAN, ids : Nat]

Running(t) == t.active => t.state \in {"invokes", "params", "value"}

LiveType(n) == [mode : {"thinking", "text", "tool", "suppress"}, emit : 0..n,
                checked : BOOLEAN, tool : ToolType(n)]

WireShape(w) ==
  /\ w = [said |-> w.said, calls |-> w.calls, stale |-> w.stale]
  /\ w.said = [reasoning |-> w.said.reasoning, content |-> w.said.content]

OutShape(o, n) ==
  /\ o = [live |-> o.live, wire |-> o.wire]
  /\ o.live \in LiveType(n) /\ WireShape(o.wire)

(* Nothing was said, and the stream stands where it stood. *)
Silent(o, e) ==
  /\ e.wire.said = o.wire.said
  /\ e.live.mode = o.live.mode /\ e.live.emit = o.live.emit /\ e.live.checked = o.live.checked

(* A piece was said, and nothing else changed of what matters here. *)
Said(o, d, field, part) ==
  /\ d.live = o.live
  /\ d.wire.said[field] = o.wire.said[field] \o part
  /\ \A g \in {"reasoning", "content"} \ {field} : d.wire.said[g] = o.wire.said[g]

(* Saying a piece adds it to one field and changes nothing else.           *)
LEMMA SayIs ==
  ASSUME NEW n \in Nat, NEW o, OutShape(o, n), NEW field \in {"reasoning", "content"}, NEW part
  PROVE  OutShape(Say(o, field, part), n) /\ Said(o, Say(o, field, part), field, part)
<1> DEFINE a == o.live
           w == o.wire
           said == w.said
           x == said[field] \o part
           said2 == [said EXCEPT ![field] = x]
           w2 == [said |-> said2, calls |-> w.calls, stale |-> w.stale]
<1>1. o = [live |-> a, wire |-> w]
  BY DEF OutShape
<1>2. w = [said |-> said, calls |-> w.calls, stale |-> w.stale]
  BY DEF OutShape, WireShape
<1>3. said = [reasoning |-> said.reasoning, content |-> said.content]
  BY DEF OutShape, WireShape
<1>4. said2 = [reasoning |-> said2.reasoning, content |-> said2.content]
      /\ said2[field] = x /\ \A g \in {"reasoning", "content"} \ {field} : said2[g] = said[g]
  <2>1. CASE field = "reasoning"
    <3>1. \A r, c : [[reasoning |-> r, content |-> c] EXCEPT !["reasoning"] = x]
                      = [reasoning |-> x, content |-> c]
      <4> HIDE DEF x, said
      <4> QED OBVIOUS
    <3>2. said2 = [reasoning |-> x, content |-> said.content]
      <4> HIDE DEF x, said
      <4> QED BY <1>3, <2>1, <3>1
    <3> HIDE DEF said2, x, said
    <3> QED BY <2>1, <3>2
  <2>2. CASE field = "content"
    <3>1. \A r, c : [[reasoning |-> r, content |-> c] EXCEPT !["content"] = x]
                      = [reasoning |-> r, content |-> x]
      <4> HIDE DEF x, said
      <4> QED OBVIOUS
    <3>2. said2 = [reasoning |-> said.reasoning, content |-> x]
      <4> HIDE DEF x, said
      <4> QED BY <1>3, <2>2, <3>1
    <3> HIDE DEF said2, x, said
    <3> QED BY <2>2, <3>2
  <2> QED BY <2>1, <2>2
<1>5. [w EXCEPT !.said[field] = x] = w2
  <2> HIDE DEF x, said, w
  <2> QED BY <1>2
<1>6. Say(o, field, part) = [live |-> a, wire |-> w2]
  <2>1. Say(o, field, part) = [o EXCEPT !.wire = [w EXCEPT !.said[field] = x]]
    BY DEF Say
  <2> HIDE DEF a, w, w2, x
  <2> QED BY <1>1, <1>5, <2>1
<1> HIDE DEF said2, x
<1> QED BY <1>4, <1>6 DEF OutShape, WireShape, Said, x

(* Arguments of a call go to the calls the client has, nothing else.       *)
LEMMA ArgsAre ==
  ASSUME NEW n \in Nat, NEW o, OutShape(o, n), NEW args
  PROVE  /\ OutShape(EmitArgs(o, args), n) /\ EmitArgs(o, args).live = o.live
         /\ Silent(o, EmitArgs(o, args))
<1> DEFINE a == o.live
           w == o.wire
           calls == Merged(w.calls, a.tool.index, StreamId(a.tool.index), args)
           w2 == [said |-> w.said, calls |-> calls, stale |-> w.stale]
<1>1. o = [live |-> a, wire |-> w]
  BY DEF OutShape
<1>2. w = [said |-> w.said, calls |-> w.calls, stale |-> w.stale]
  BY DEF OutShape, WireShape
<1>3. [w EXCEPT !.calls = calls] = w2
  <2>1. \A x, y, z, c : [[said |-> x, calls |-> y, stale |-> z] EXCEPT !.calls = c]
                          = [said |-> x, calls |-> c, stale |-> z]
    OBVIOUS
  <2> HIDE DEF w, calls
  <2> QED BY <1>2, <2>1
<1>4. EmitArgs(o, args) = [o EXCEPT !.wire = [w EXCEPT !.calls = calls]]
  BY DEF EmitArgs
<1>5. EmitArgs(o, args) = [live |-> a, wire |-> w2]
  <2>1. \A x, y, z : [[live |-> x, wire |-> y] EXCEPT !.wire = z] = [live |-> x, wire |-> z]
    OBVIOUS
  <2> HIDE DEF a, w, w2, calls
  <2> QED BY <1>1, <1>3, <1>4, <2>1
<1> HIDE DEF calls
<1> QED BY <1>5 DEF OutShape, WireShape, Silent

(* The tool stream of o becomes t. *)
WithTool(o, t) == [live |-> [mode |-> o.live.mode, emit |-> o.live.emit,
                             checked |-> o.live.checked, tool |-> t],
                   wire |-> o.wire]

(* Another state of the tool stream says nothing.                          *)
LEMMA WithToolIs ==
  ASSUME NEW n \in Nat, NEW o, OutShape(o, n), NEW t \in ToolType(n)
  PROVE  OutShape(WithTool(o, t), n) /\ Silent(o, WithTool(o, t)) /\ WithTool(o, t).live.tool = t
<1> HIDE DEF ToolType
<1> QED BY DEF WithTool, OutShape, Silent, LiveType

(* The way the model writes that change.                                   *)
LEMMA ToolChanges ==
  ASSUME NEW n \in Nat, NEW o, OutShape(o, n), NEW t
  PROVE  [o EXCEPT !.live.tool = t] = WithTool(o, t)
<1> DEFINE l == o.live
           w == o.wire
<1>1. o = [live |-> l, wire |-> w] /\ l \in LiveType(n)
  BY DEF OutShape
<1>2. l = [mode |-> l.mode, emit |-> l.emit, checked |-> l.checked, tool |-> l.tool]
  <2> HIDE DEF l
  <2> QED BY <1>1 DEF LiveType
<1>3. \A a, b, c, d : [[mode |-> a, emit |-> b, checked |-> c, tool |-> d] EXCEPT !.tool = t]
                        = [mode |-> a, emit |-> b, checked |-> c, tool |-> t]
  OBVIOUS
<1>4. [l EXCEPT !.tool = t]
        = [mode |-> l.mode, emit |-> l.emit, checked |-> l.checked, tool |-> t]
  <2> HIDE DEF l
  <2> QED BY <1>2, <1>3
<1>5. [o EXCEPT !.live.tool = t] = [o EXCEPT !.live = [l EXCEPT !.tool = t]]
  OBVIOUS
<1>6. \A x, y, z : [[live |-> x, wire |-> y] EXCEPT !.live = z] = [live |-> z, wire |-> y]
  OBVIOUS
<1> HIDE DEF l, w
<1>7. [o EXCEPT !.live.tool = t] = [live |-> [l EXCEPT !.tool = t], wire |-> w]
  BY <1>1, <1>5, <1>6
<1> QED BY <1>4, <1>7 DEF WithTool, l, w

ToolMoved(t, st, p) == [t EXCEPT !.state = st, !.pos = p]

(* Moving on in a block says nothing.                                      *)
LEMMA ToolAtIs ==
  ASSUME NEW n \in Nat, NEW o, OutShape(o, n), NEW p \in 0..n,
         NEW st \in {"invokes", "params", "value", "done"}
  PROVE  /\ OutShape(ToolAt(o, st, p), n) /\ Silent(o, ToolAt(o, st, p))
         /\ ToolAt(o, st, p).live.tool = ToolMoved(o.live.tool, st, p)
<1> DEFINE t == o.live.tool
           t1 == [t EXCEPT !.state = st]
           t2 == [t1 EXCEPT !.pos = p]
           e1 == [o EXCEPT !.live.tool = t1]
           e2 == [e1 EXCEPT !.live.tool = t2]
<1>1. t \in ToolType(n)
  BY DEF OutShape, LiveType
<1>2. t1 \in ToolType(n) /\ t2 \in ToolType(n)
  <2> HIDE DEF t
  <2> QED BY <1>1 DEF ToolType
<1>3. OutShape(e1, n) /\ Silent(o, e1) /\ e1.live.tool = t1
  <2> HIDE DEF t1
  <2>1. e1 = WithTool(o, t1)
    BY ToolChanges, Zenon
  <2> HIDE DEF e1
  <2> QED BY <1>2, <2>1, WithToolIs
<1>4. OutShape(e2, n) /\ Silent(e1, e2) /\ e2.live.tool = t2
  <2> HIDE DEF t2, e1
  <2>1. e2 = WithTool(e1, t2)
    BY <1>3, ToolChanges, Zenon
  <2> HIDE DEF e2
  <2> QED BY <1>2, <1>3, <2>1, WithToolIs
<1>5. ToolAt(o, st, p) = [[o EXCEPT !.live.tool.state = st] EXCEPT !.live.tool.pos = p]
  BY DEF ToolAt
<1>6. [o EXCEPT !.live.tool.state = st] = e1
  OBVIOUS
<1>7. [e1 EXCEPT !.live.tool.pos = p] = [e1 EXCEPT !.live.tool = [e1.live.tool EXCEPT !.pos = p]]
  <2> HIDE DEF e1
  <2> QED OBVIOUS
<1>8. ToolAt(o, st, p) = e2
  <2> HIDE DEF e1, t1
  <2> QED BY <1>3, <1>5, <1>6, <1>7
<1> HIDE DEF e1, e2
<1> QED BY <1>3, <1>4, <1>8 DEF Silent, ToolMoved

(* A block the stream gives up on says nothing.                            *)
LEMMA ToolFailIs ==
  ASSUME NEW n \in Nat, NEW o, OutShape(o, n)
  PROVE  /\ OutShape(ToolFail(o), n) /\ Silent(o, ToolFail(o)) /\ Running(ToolFail(o).live.tool)
<1> DEFINE t == o.live.tool
           t1 == [t EXCEPT !.active = FALSE]
           t2 == [t1 EXCEPT !.state = "error"]
           e1 == [o EXCEPT !.live.tool = t1]
           e2 == [e1 EXCEPT !.live.tool = t2]
<1>1. t \in ToolType(n)
  BY DEF OutShape, LiveType
<1>2. t1 \in ToolType(n) /\ t2 \in ToolType(n) /\ Running(t2)
  <2> HIDE DEF t
  <2> QED BY <1>1 DEF ToolType, Running
<1>3. OutShape(e1, n) /\ Silent(o, e1) /\ e1.live.tool = t1
  <2> HIDE DEF t1
  <2>1. e1 = WithTool(o, t1)
    BY ToolChanges, Zenon
  <2> HIDE DEF e1
  <2> QED BY <1>2, <2>1, WithToolIs
<1>4. OutShape(e2, n) /\ Silent(e1, e2) /\ e2.live.tool = t2
  <2> HIDE DEF t2, e1
  <2>1. e2 = WithTool(e1, t2)
    BY <1>3, ToolChanges, Zenon
  <2> HIDE DEF e2
  <2> QED BY <1>2, <1>3, <2>1, WithToolIs
<1>5. ToolFail(o) = [[o EXCEPT !.live.tool.active = FALSE] EXCEPT !.live.tool.state = "error"]
  BY DEF ToolFail
<1>6. [o EXCEPT !.live.tool.active = FALSE] = e1
  OBVIOUS
<1>7. [e1 EXCEPT !.live.tool.state = "error"]
        = [e1 EXCEPT !.live.tool = [e1.live.tool EXCEPT !.state = "error"]]
  <2> HIDE DEF e1
  <2> QED OBVIOUS
<1>8. ToolFail(o) = e2
  <2> HIDE DEF e1, t1
  <2> QED BY <1>3, <1>5, <1>6, <1>7
<1> HIDE DEF e1, e2, t2
<1> QED BY <1>2, <1>3, <1>4, <1>8 DEF Silent

(* The greater of two.                                                     *)
LEMMA MaxOfTwo ==
  ASSUME NEW a \in Nat, NEW b \in Nat
  PROVE  Max({a, b}) = IF a >= b THEN a ELSE b
<1>1. \E z \in {a, b} : \A y \in {a, b} : z >= y
  OBVIOUS
<1>2. Max({a, b}) \in {a, b} /\ \A y \in {a, b} : Max({a, b}) >= y
  BY <1>1 DEF Max
<1> QED BY <1>2

(* The tool stream has its type.                                           *)
LEMMA ToolOf ==
  ASSUME NEW n \in Nat, NEW o, OutShape(o, n)
  PROVE  o.live.tool \in ToolType(n)
BY DEF OutShape, LiveType

(* openai_tool_stream_update at the invokes of a block. *)
LEMMA ToolInvokesKeeps ==
  ASSUME NEW T \in ReplyTexts, NEW n \in Nat, n = Len(T), NEW o, OutShape(o, n),
         Running(o.live.tool), o.live.tool.pos < n
  PROVE  /\ OutShape(ToolInvokes(o, T), n) /\ Silent(o, ToolInvokes(o, T))
         /\ Running(ToolInvokes(o, T).live.tool)
<1> DEFINE t == o.live.tool
           q == SkipWs(T, t.pos)
           i == t.index
           e == ToolInvokes(o, T)
<1>1. t \in ToolType(n) /\ t.pos \in 0..n /\ i \in Nat
  <2>1. t \in ToolType(n)
    BY ToolOf
  <2> HIDE DEF t
  <2> QED BY <2>1 DEF ToolType
<1>2. q \in 0..n /\ (Full(T, q, ToolsStart) => q + 2 \in 0..n)
      /\ (Full(T, q, ToolsEnd) => q + 3 \in 0..n) /\ (Full(T, q, CallStart) => q + 2 \in 0..n)
  <2>1. q \in 0..n
    BY <1>1, SkipIs
  <2> HIDE DEF q
  <2> QED BY <1>1, <2>1, TagsAreTexts DEF Full
<1> DEFINE open == q >= Len(T) \/ Full(T, q, ToolsStart)
           end == Full(T, q, ToolsEnd)
           cut == Partial(T, q, ToolsEnd) \/ Partial(T, q, CallStart)
           start == Full(T, q, CallStart)
           o1 == ToolAt(o, "invokes", IF Full(T, q, ToolsStart) THEN q + 2 ELSE q)
           o2 == [ToolAt(o, "done", q + 3) EXCEPT !.live.tool.active = FALSE]
           o3 == ToolAt(o, "invokes", q)
           o4 == [ToolAt(EmitArgs(o, <<"{">>), "params", q + 2)
                    EXCEPT !.live.tool.emitted = TRUE, !.live.tool.ids = Max({@, i + 1})]
<1>e. e = IF open THEN o1 ELSE IF end THEN o2 ELSE IF cut THEN o3 ELSE IF start THEN o4
          ELSE ToolFail(o)
  BY DEF ToolInvokes
<1> HIDE DEF e, open, cut, t, i, q
<1>p. \A p \in 0..n, st \in {"invokes", "params", "value"} :
        LET d == ToolAt(o, st, p) IN OutShape(d, n) /\ Silent(o, d) /\ Running(d.live.tool)
  <2> SUFFICES ASSUME NEW p \in 0..n, NEW st \in {"invokes", "params", "value"}
               PROVE  LET d == ToolAt(o, st, p)
                      IN OutShape(d, n) /\ Silent(o, d) /\ Running(d.live.tool)
    OBVIOUS
  <2>1. /\ OutShape(ToolAt(o, st, p), n) /\ Silent(o, ToolAt(o, st, p))
        /\ ToolAt(o, st, p).live.tool = ToolMoved(t, st, p)
    <3>1. st \in {"invokes", "params", "value", "done"}
      OBVIOUS
    <3>2. /\ OutShape(ToolAt(o, st, p), n) /\ Silent(o, ToolAt(o, st, p))
          /\ ToolAt(o, st, p).live.tool = ToolMoved(o.live.tool, st, p)
      BY <3>1, ToolAtIs
    <3> QED BY <3>2 DEF t
  <2>2. Running(ToolMoved(t, st, p))
    BY <1>1 DEF ToolType, Running, ToolMoved
  <2> QED BY <2>1, <2>2
<1>3. CASE open
  <2>1. e = o1
    BY <1>3, <1>e
  <2>2. (IF Full(T, q, ToolsStart) THEN q + 2 ELSE q) \in 0..n
    BY <1>2
  <2> QED BY <2>1, <2>2, <1>p DEF e
<1>4. CASE ~open /\ end
  <2> DEFINE d == ToolAt(o, "done", q + 3)
             u == [d.live.tool EXCEPT !.active = FALSE]
  <2>1. OutShape(d, n) /\ Silent(o, d)
    BY <1>2, <1>4, ToolAtIs
  <2>2. e = [d EXCEPT !.live.tool.active = FALSE]
    BY <1>4, <1>e
  <2> HIDE DEF d
  <2>3. u \in ToolType(n) /\ Running(u)
    BY <2>1, ToolOf DEF ToolType, Running
  <2>4. e = [d EXCEPT !.live.tool = u]
    BY <2>2
  <2> HIDE DEF u
  <2>5. e = WithTool(d, u)
    BY <2>1, <2>4, ToolChanges
  <2>6. OutShape(e, n) /\ Silent(d, e) /\ e.live.tool = u
    BY <2>1, <2>3, <2>5, WithToolIs
  <2> QED BY <2>1, <2>3, <2>6 DEF Silent, e
<1>5. CASE ~open /\ ~end /\ cut
  <2>1. e = o3
    BY <1>5, <1>e
  <2> QED BY <2>1, <1>2, <1>p DEF e
<1>6. CASE ~open /\ ~end /\ ~cut /\ start
  <2> DEFINE a == EmitArgs(o, <<"{">>)
             d == ToolAt(a, "params", q + 2)
             u1 == [d.live.tool EXCEPT !.emitted = TRUE]
             e1 == [d EXCEPT !.live.tool = u1]
             u == [e1.live.tool EXCEPT !.ids = Max({e1.live.tool.ids, i + 1})]
  <2>1. OutShape(a, n) /\ Silent(o, a)
    BY <1>1, ArgsAre
  <2>3. e = [[d EXCEPT !.live.tool.emitted = TRUE] EXCEPT
                !.live.tool.ids = Max({@, i + 1})]
    BY <1>6, <1>e
  <2> HIDE DEF a
  <2>2. /\ OutShape(d, n) /\ Silent(a, d)
        /\ d.live.tool = ToolMoved(a.live.tool, "params", q + 2)
    BY <1>2, <1>6, <2>1, ToolAtIs
  <2> HIDE DEF d
  <2>4. u1 \in ToolType(n) /\ u1.state = "params"
    <3>1. a.live.tool \in ToolType(n) /\ d.live.tool \in ToolType(n)
      BY <2>1, <2>2, ToolOf
    <3>2. d.live.tool.state = "params"
      BY <2>2, <3>1 DEF ToolMoved, ToolType
    <3> QED BY <3>1, <3>2 DEF ToolType
  <2>5. e1 = WithTool(d, u1)
    <3> HIDE DEF u1
    <3> QED BY <2>2, ToolChanges
  <2>6. OutShape(e1, n) /\ Silent(d, e1) /\ e1.live.tool = u1
    <3> HIDE DEF u1, e1
    <3> QED BY <2>2, <2>4, <2>5, WithToolIs
  <2>7. e = [e1 EXCEPT !.live.tool = u]
    <3>1. e = [e1 EXCEPT !.live.tool.ids = Max({@, i + 1})]
      BY <2>3
    <3> HIDE DEF e1
    <3> QED BY <3>1
  <2> HIDE DEF e1, u1
  <2>8. u \in ToolType(n) /\ Running(u)
    <3>1. u1.ids \in Nat /\ i + 1 \in Nat
      BY <1>1, <2>4 DEF ToolType
    <3>2. Max({u1.ids, i + 1}) \in Nat
      BY <3>1, MaxOfTwo
    <3> QED BY <2>4, <2>6, <3>2 DEF ToolType, Running
  <2> HIDE DEF u
  <2>9. e = WithTool(e1, u)
    BY <2>6, <2>7, ToolChanges
  <2>10. OutShape(e, n) /\ Silent(e1, e) /\ e.live.tool = u
    BY <2>6, <2>8, <2>9, WithToolIs
  <2> QED BY <2>1, <2>2, <2>6, <2>8, <2>10 DEF Silent, e
<1>7. CASE ~open /\ ~end /\ ~cut /\ ~start
  <2>1. e = ToolFail(o)
    BY <1>7, <1>e
  <2> QED BY <2>1, ToolFailIs DEF e
<1> QED BY <1>3, <1>4, <1>5, <1>6, <1>7

(* A piece of arguments, and on to another place. *)
LEMMA ArgsAtKeeps ==
  ASSUME NEW n \in Nat, NEW o, OutShape(o, n), NEW args, NEW p \in 0..n,
         NEW st \in {"invokes", "params", "value"}
  PROVE  LET d == ToolAt(EmitArgs(o, args), st, p)
         IN OutShape(d, n) /\ Silent(o, d) /\ Running(d.live.tool)
<1> DEFINE a == EmitArgs(o, args)
           d == ToolAt(a, st, p)
<1>1. OutShape(a, n) /\ Silent(o, a)
  BY ArgsAre
<1> HIDE DEF a
<1>2. OutShape(d, n) /\ Silent(a, d) /\ d.live.tool = ToolMoved(a.live.tool, st, p)
  BY <1>1, ToolAtIs
<1> HIDE DEF d
<1>3. a.live.tool \in ToolType(n)
  BY <1>1, ToolOf
<1>4. Running(d.live.tool)
  BY <1>2, <1>3 DEF ToolMoved, ToolType, Running
<1>5. Silent(o, d)
  BY <1>1, <1>2 DEF Silent
<1> QED BY <1>2, <1>4, <1>5 DEF d, a

(* Moving on in a block keeps what is true of the stream.                  *)
LEMMA AtKeeps ==
  ASSUME NEW n \in Nat, NEW o, OutShape(o, n), NEW p \in 0..n,
         NEW st \in {"invokes", "params", "value"}
  PROVE  LET d == ToolAt(o, st, p)
         IN OutShape(d, n) /\ Silent(o, d) /\ Running(d.live.tool)
<1> DEFINE d == ToolAt(o, st, p)
<1>1. OutShape(d, n) /\ Silent(o, d) /\ d.live.tool = ToolMoved(o.live.tool, st, p)
  BY ToolAtIs
<1> HIDE DEF d
<1>2. o.live.tool \in ToolType(n)
  BY ToolOf
<1>3. Running(d.live.tool)
  BY <1>1, <1>2 DEF ToolMoved, ToolType, Running
<1> QED BY <1>1, <1>3 DEF d

(* openai_tool_stream_update between the parameters of a call.             *)
LEMMA ToolParamsKeeps ==
  ASSUME NEW T \in ReplyTexts, NEW n \in Nat, n = Len(T), NEW o, OutShape(o, n),
         Running(o.live.tool), o.live.tool.pos < n
  PROVE  /\ OutShape(ToolParams(o, T), n) /\ Silent(o, ToolParams(o, T))
         /\ Running(ToolParams(o, T).live.tool)
<1> DEFINE q == SkipWs(T, o.live.tool.pos)
           e == ToolParams(o, T)
           end == Full(T, q, CallEnd)
           cut == Partial(T, q, CallEnd) \/ \E lit \in ParamStarts : Partial(T, q, lit)
           bad == ~ParamStartAt(T, q) \/ Full(T, q, <<"<", "par>">>)
           string == T[q + 2] = "spar>"
           a1 == <<"}">>
           a2 == <<IF string THEN "s" ELSE "j">>
           o1 == ToolAt(o, "params", q)
           o2 == [ToolAt(EmitArgs(o, a1), "invokes", q + 3) EXCEPT !.live.tool.index = @ + 1]
           o3 == [ToolAt(EmitArgs(o, a2), "value", q + 2) EXCEPT !.live.tool.string = string]
<1>1. o.live.tool \in ToolType(n) /\ o.live.tool.pos \in 0..n
  <2>1. o.live.tool \in ToolType(n)
    BY ToolOf
  <2> QED BY <2>1 DEF ToolType
<1>2. /\ q \in 0..n /\ (Full(T, q, CallEnd) => q + 3 \in 0..n)
      /\ (ParamStartAt(T, q) => q + 2 \in 0..n)
  <2>1. q \in 0..n
    BY <1>1, SkipIs
  <2> HIDE DEF q
  <2>2. Full(T, q, CallEnd) => q + 3 \in 0..n
    BY <2>1, TagsAreTexts DEF Full
  <2>3. ASSUME ParamStartAt(T, q) PROVE q + 2 \in 0..n
    <3>1. PICK lit \in ParamStarts : Full(T, q, lit)
      BY <2>3 DEF ParamStartAt
    <3>2. Len(lit) = 2
      BY TagsAreTexts
    <3> QED BY <2>1, <3>1, <3>2 DEF Full
  <2> QED BY <2>1, <2>2, <2>3
<1>e. e = IF q >= Len(T) THEN o1 ELSE IF end THEN o2 ELSE IF cut THEN o1
          ELSE IF bad THEN ToolFail(o) ELSE o3
  BY DEF ToolParams
<1>s. string \in BOOLEAN
  OBVIOUS
<1> HIDE DEF e, cut, q, string, a1, a2
<1>3. CASE q >= Len(T) \/ (~end /\ cut)
  <2>1. e = o1
    BY <1>3, <1>e
  <2> QED BY <2>1, <1>2, AtKeeps DEF e
<1>4. CASE ~(q >= Len(T)) /\ end
  <2> DEFINE d == ToolAt(EmitArgs(o, a1), "invokes", q + 3)
             u == [d.live.tool EXCEPT !.index = @ + 1]
  <2>1. OutShape(d, n) /\ Silent(o, d) /\ Running(d.live.tool)
    BY <1>2, <1>4, ArgsAtKeeps
  <2>2. e = [d EXCEPT !.live.tool.index = @ + 1]
    BY <1>4, <1>e
  <2> HIDE DEF d
  <2>3. u \in ToolType(n) /\ Running(u)
    <3>1. d.live.tool \in ToolType(n)
      BY <2>1, ToolOf
    <3> QED BY <2>1, <3>1 DEF ToolType, Running
  <2>4. e = [d EXCEPT !.live.tool = u]
    BY <2>2
  <2> HIDE DEF u
  <2>5. e = WithTool(d, u)
    BY <2>1, <2>4, ToolChanges
  <2>6. OutShape(e, n) /\ Silent(d, e) /\ e.live.tool = u
    BY <2>1, <2>3, <2>5, WithToolIs
  <2> QED BY <2>1, <2>3, <2>6 DEF Silent, e
<1>5. CASE ~(q >= Len(T)) /\ ~end /\ ~cut /\ bad
  <2>1. e = ToolFail(o)
    BY <1>5, <1>e
  <2> QED BY <2>1, ToolFailIs DEF e
<1>6. CASE ~(q >= Len(T)) /\ ~end /\ ~cut /\ ~bad
  <2> DEFINE d == ToolAt(EmitArgs(o, a2), "value", q + 2)
             u == [d.live.tool EXCEPT !.string = string]
  <2>1. OutShape(d, n) /\ Silent(o, d) /\ Running(d.live.tool)
    BY <1>2, <1>6, ArgsAtKeeps
  <2>2. e = [d EXCEPT !.live.tool.string = string]
    BY <1>6, <1>e
  <2> HIDE DEF d
  <2>3. u \in ToolType(n) /\ Running(u)
    <3>1. d.live.tool \in ToolType(n)
      BY <2>1, ToolOf
    <3> QED BY <2>1, <3>1, <1>s DEF ToolType, Running
  <2>4. e = [d EXCEPT !.live.tool = u]
    BY <2>2
  <2> HIDE DEF u
  <2>5. e = WithTool(d, u)
    BY <2>1, <2>4, ToolChanges
  <2>6. OutShape(e, n) /\ Silent(d, e) /\ e.live.tool = u
    BY <2>1, <2>3, <2>5, WithToolIs
  <2> QED BY <2>1, <2>3, <2>6 DEF Silent, e
<1> QED BY <1>3, <1>4, <1>5, <1>6

(* tool_param_value_stream_safe_len stays in the text.                     *)
LEMMA ValueLimitIs ==
  ASSUME NEW T \in ReplyTexts, NEW start \in 0..Len(T)
  PROVE  ValueLimit(T, start) \in 0..Len(T)
<1>0. Len(T) \in Nat
  BY DEF ReplyTexts
<1> DEFINE W == {i \in start..(Len(T) - 1) : i + Len(ParamEnd) >= Len(T) /\ T[i + 1] = "<"}
<1>1. W \in SUBSET (0..Len(T))
  BY <1>0
<1>2. ValueLimit(T, start) = IF W # {} /\ Partial(T, Max(W), ParamEnd) THEN Max(W) ELSE Len(T)
  BY DEF ValueLimit
<1> HIDE DEF W
<1>3. W # {} => Max(W) \in W
  BY <1>0, <1>1, MaxIs
<1>4. W # {} => Max(W) \in 0..Len(T)
  BY <1>1, <1>3
<1> QED BY <1>0, <1>2, <1>4

(* openai_tool_stream_update in a value.                                   *)
LEMMA ToolValueKeeps ==
  ASSUME NEW T \in ReplyTexts, NEW n \in Nat, n = Len(T), NEW o, OutShape(o, n),
         Running(o.live.tool), o.live.tool.pos < n
  PROVE  /\ OutShape(ToolValue(o, T), n) /\ Silent(o, ToolValue(o, T))
         /\ Running(ToolValue(o, T).live.tool)
<1> DEFINE tool == o.live.tool
           found == Has(T, tool.pos, ParamEnd)
           end == IF found THEN FirstAt(T, tool.pos, ParamEnd) ELSE ValueLimit(T, tool.pos)
           a1 == Value(tool, Between(T, tool.pos, end))
           a2 == IF tool.string THEN <<"'">> ELSE <<>>
           sent == EmitArgs(o, a1)
           e == ToolValue(o, T)
<1>1. tool.pos \in 0..n
  <2>1. tool \in ToolType(n)
    BY ToolOf
  <2> QED BY <2>1 DEF ToolType
<1>2. end \in 0..n /\ (found => end + 3 \in 0..n)
  <2>1. CASE found
    <3>1. end \in tool.pos..n /\ Full(T, end, ParamEnd)
      BY <1>1, <2>1, FirstIs
    <3>2. Len(ParamEnd) = 3
      BY TagsAreTexts
    <3> HIDE DEF end, found
    <3> QED BY <1>1, <3>1, <3>2 DEF Full
  <2>2. CASE ~found
    BY <1>1, <2>2, ValueLimitIs
  <2> QED BY <2>1, <2>2
<1>e. e = IF ~found THEN ToolAt(sent, "value", end)
          ELSE ToolAt(EmitArgs(sent, a2), "params", end + 3)
  BY DEF ToolValue
<1> HIDE DEF e, found, end, a1, a2, tool
<1>3. OutShape(sent, n) /\ Silent(o, sent)
  BY ArgsAre
<1>4. CASE ~found
  BY <1>2, <1>4, <1>e, ArgsAtKeeps DEF e
<1>5. CASE found
  <2> HIDE DEF sent
  <2>1. OutShape(e, n) /\ Silent(sent, e) /\ Running(e.live.tool)
    BY <1>2, <1>3, <1>5, <1>e, ArgsAtKeeps
  <2> QED BY <1>3, <2>1 DEF Silent, e
<1> QED BY <1>4, <1>5

(* openai_tool_stream_update, one step. *)
LEMMA ToolStepKeeps ==
  ASSUME NEW T \in ReplyTexts, NEW n \in Nat, n = Len(T), NEW o, OutShape(o, n),
         Running(o.live.tool)
  PROVE  /\ OutShape(ToolStep(o, T), n) /\ Silent(o, ToolStep(o, T))
         /\ Running(ToolStep(o, T).live.tool)
<1> DEFINE t == o.live.tool
<1>1. t.active \in BOOLEAN /\ t.pos \in 0..n
  <2>1. t \in ToolType(n)
    BY ToolOf
  <2> HIDE DEF t
  <2> QED BY <2>1 DEF ToolType
<1>2. CASE ~t.active \/ t.pos >= n
  <2>1. ToolStep(o, T) = o
    BY <1>1, <1>2 DEF ToolStep
  <2> QED BY <2>1 DEF Silent
<1>3. CASE t.active /\ t.pos < n
  <2>1. t.state \in {"invokes", "params", "value"}
    BY <1>3 DEF Running
  <2>2. ~(~t.active \/ t.pos >= Len(T)) /\ t.active /\ t.pos < Len(T)
    BY <1>1, <1>3
  <2> HIDE DEF t
  <2>3. CASE t.state = "invokes"
    <3>1. ToolStep(o, T) = ToolInvokes(o, T)
      BY <2>2, <2>3 DEF ToolStep, t
    <3> QED BY <1>3, <3>1, ToolInvokesKeeps DEF t
  <2>4. CASE t.state = "params"
    <3>1. ToolStep(o, T) = ToolParams(o, T)
      BY <2>2, <2>4 DEF ToolStep, t
    <3> QED BY <1>3, <3>1, ToolParamsKeeps DEF t
  <2>5. CASE t.state = "value"
    <3>1. ToolStep(o, T) = ToolValue(o, T)
      BY <2>2, <2>5 DEF ToolStep, t
    <3> QED BY <1>3, <3>1, ToolValueKeeps DEF t
  <2> QED BY <2>1, <2>3, <2>4, <2>5
<1> QED BY <1>1, <1>2, <1>3

(* The steps of a call form a function, which is the one the call chooses. *)
ToolSteps(g, o, T, m) == [n \in 0..m |-> IF n = 0 THEN o ELSE ToolStep(g[n - 1], T)]

(* Such a function exists for any number of steps.                         *)
LEMMA ToolStepsExist ==
  ASSUME NEW T, NEW o, NEW N \in Nat
  PROVE  \E g : g = ToolSteps(g, o, T, N)
<1> DEFINE Made(g, m) == [n \in 0..m |-> IF n = 0 THEN o ELSE ToolStep(g[n - 1], T)]
           S == {m \in Nat : \E g : g = Made(g, m)}
<1>1. 0 \in S
  <2> DEFINE g == [n \in 0..0 |-> o]
  <2>1. g = Made(g, 0)
    OBVIOUS
  <2> QED BY <2>1
<1>2. ASSUME NEW m \in S PROVE m + 1 \in S
  <2>1. PICK g : g = Made(g, m)
    OBVIOUS
  <2> DEFINE h == [n \in 0..(m + 1) |-> IF n <= m THEN g[n] ELSE ToolStep(g[m], T)]
  <2>2. m \in Nat /\ m + 1 \in Nat
    OBVIOUS
  <2>3. \A n \in 0..m : g[n] = IF n = 0 THEN o ELSE ToolStep(g[n - 1], T)
    BY <2>1, Zenon
  <2>4. ASSUME NEW n \in 0..(m + 1) PROVE h[n] = IF n = 0 THEN o ELSE ToolStep(h[n - 1], T)
    <3>1. CASE n = 0
      <4>1. 0 \in 0..(m + 1) /\ 0 <= m /\ 0 \in 0..m
        BY <2>2
      <4>2. h[0] = g[0]
        BY <4>1
      <4> QED BY <2>3, <3>1, <4>1, <4>2
    <3>2. CASE n # 0 /\ n <= m
      <4>1. n \in 0..m /\ n - 1 \in 0..(m + 1) /\ n - 1 <= m
        BY <2>2, <3>2
      <4>2. h[n] = g[n] /\ h[n - 1] = g[n - 1]
        BY <3>2, <4>1
      <4>3. g[n] = ToolStep(g[n - 1], T)
        BY <2>3, <3>2, <4>1
      <4> HIDE DEF h
      <4> QED BY <3>2, <4>2, <4>3
    <3>3. CASE n # 0 /\ ~(n <= m)
      <4>1. n = m + 1 /\ n - 1 = m /\ m \in 0..(m + 1) /\ m <= m
        BY <2>2, <3>3
      <4>2. h[n] = ToolStep(g[m], T)
        BY <3>3, <4>1
      <4>3. h[m] = g[m]
        BY <4>1
      <4> HIDE DEF h
      <4> QED BY <3>3, <4>1, <4>2, <4>3
    <3> QED BY <3>1, <3>2, <3>3
  <2>5. h = Made(h, m + 1)
    <3>1. h = [n \in 0..(m + 1) |-> h[n]]
      OBVIOUS
    <3>2. [n \in 0..(m + 1) |-> h[n]] = Made(h, m + 1)
      <4> HIDE DEF h
      <4> QED BY <2>4
    <3> QED BY <3>1, <3>2
  <2> QED BY <2>2, <2>5
<1>3. S = Nat
  <2>1. S \in SUBSET Nat
    OBVIOUS
  <2> HIDE DEF S
  <2> QED BY <1>1, <1>2, <2>1, Upwards
<1>4. N \in S
  BY <1>3
<1>5. PICK g : g = Made(g, N)
  BY <1>4
<1> QED BY <1>5 DEF ToolSteps

(* openai_tool_stream_update. *)
LEMMA ToolUpdateKeeps ==
  ASSUME NEW T \in ReplyTexts, NEW n \in Nat, n = Len(T), NEW o, OutShape(o, n),
         Running(o.live.tool)
  PROVE  LET e == ToolUpdate(o, T)
         IN /\ OutShape(e, n) /\ Running(e.live.tool)
            /\ e.wire.said = o.wire.said /\ e.live.emit = o.live.emit
            /\ e.live.checked = o.live.checked
            /\ o.live.mode # "tool" => e = o
            /\ o.live.mode = "tool" => e.live.mode \in {"tool", "suppress"}
<1> DEFINE step == CHOOSE g : g = ToolSteps(g, o, T, Len(T))
           last == step[Len(T)]
           e == ToolUpdate(o, T)
<1>0. Len(T) \in Nat
  OBVIOUS
<1>1. step = ToolSteps(step, o, T, Len(T))
  <2>1. \E g : g = ToolSteps(g, o, T, Len(T))
    BY <1>0, ToolStepsExist, Zenon
  <2> QED BY <2>1, Zenon
<1>2. e = IF o.live.mode # "tool" THEN o
          ELSE IF last.live.tool.active THEN last ELSE [last EXCEPT !.live.mode = "suppress"]
  BY DEF ToolUpdate, ToolSteps
<1> HIDE DEF step, e
<1>3. \A k \in 0..n : step[k] = IF k = 0 THEN o ELSE ToolStep(step[k - 1], T)
  BY <1>1, Zenon DEF ToolSteps
<1> DEFINE Keeps(x) == OutShape(x, n) /\ Silent(o, x) /\ Running(x.live.tool)
           S == {k \in Nat : k <= n => Keeps(step[k])}
<1>4. 0 \in S
  <2>1. step[0] = o
    BY <1>3
  <2>2. Keeps(o)
    BY DEF Silent
  <2> QED BY <2>1, <2>2
<1>5. ASSUME NEW k \in S PROVE k + 1 \in S
  <2> SUFFICES ASSUME k + 1 <= n PROVE Keeps(step[k + 1])
    OBVIOUS
  <2>1. k + 1 \in 0..n /\ k + 1 # 0 /\ (k + 1) - 1 = k /\ Keeps(step[k])
    OBVIOUS
  <2>2. step[k + 1] = ToolStep(step[k], T)
    BY <1>3, <2>1
  <2> DEFINE x == step[k]
  <2> HIDE DEF x
  <2>3. OutShape(x, n) /\ Silent(o, x) /\ Running(x.live.tool)
    BY <2>1 DEF x
  <2>4. /\ OutShape(ToolStep(x, T), n) /\ Silent(x, ToolStep(x, T))
        /\ Running(ToolStep(x, T).live.tool)
    BY <2>3, ToolStepKeeps
  <2>5. Silent(o, ToolStep(x, T))
    BY <2>3, <2>4 DEF Silent
  <2> QED BY <2>2, <2>4, <2>5 DEF x
<1>6. S = Nat
  <2>1. S \in SUBSET Nat
    OBVIOUS
  <2> HIDE DEF S
  <2> QED BY <1>4, <1>5, <2>1, Upwards
<1>7. Keeps(last)
  BY <1>6
<1> HIDE DEF last, Keeps
<1>8. CASE o.live.mode # "tool"
  <2>1. e = o
    BY <1>2, <1>8
  <2> QED BY <1>8, <2>1 DEF e
<1>9. CASE o.live.mode = "tool" /\ last.live.tool.active
  <2>1. e = last
    BY <1>2, <1>9
  <2> QED BY <1>7, <1>9, <2>1 DEF e, Keeps, Silent
<1>10. CASE o.live.mode = "tool" /\ ~last.live.tool.active
  <2>1. e = [last EXCEPT !.live.mode = "suppress"]
    BY <1>2, <1>10
  <2>2. OutShape(last, n) /\ Silent(o, last) /\ Running(last.live.tool)
    BY <1>7 DEF Keeps
  <2>3. /\ OutShape(e, n) /\ e.wire = last.wire
        /\ e.live.mode = "suppress" /\ e.live.emit = last.live.emit
        /\ e.live.checked = last.live.checked /\ e.live.tool = last.live.tool
    <3> HIDE DEF ToolType
    <3>1. last.live \in LiveType(n)
      BY <2>2 DEF OutShape
    <3> DEFINE l == last.live
               w == last.wire
               l2 == [l EXCEPT !.mode = "suppress"]
    <3>2. /\ l2 \in LiveType(n) /\ l2.mode = "suppress" /\ l2.emit = l.emit
          /\ l2.checked = l.checked /\ l2.tool = l.tool
      <4> HIDE DEF l
      <4> QED BY <3>1 DEF LiveType, l
    <3>3. last = [live |-> l, wire |-> w] /\ WireShape(w)
      BY <2>2 DEF OutShape
    <3>4. e = [last EXCEPT !.live = l2]
      BY <2>1
    <3>5. \A x, y, z : [[live |-> x, wire |-> y] EXCEPT !.live = z] = [live |-> z, wire |-> y]
      OBVIOUS
    <3> HIDE DEF l, w, l2
    <3>6. e = [live |-> l2, wire |-> w]
      BY <3>3, <3>4, <3>5
    <3> QED BY <3>2, <3>3, <3>6 DEF OutShape, l, w
  <2> QED BY <1>10, <2>2, <2>3 DEF e, Silent
<1> QED BY <1>8, <1>9, <1>10

(***************************************************************************)
(* ReplyTexts that grow, and tags that cannot begin where the text is already.  *)
(***************************************************************************)
Grows(T, U) == Len(T) <= Len(U) /\ \A i \in 1..Len(T) : U[i] = T[i]

Differs(T, p, lit) == \E k \in 1..Len(lit) : p + k <= Len(T) /\ T[p + k] # lit[k]
Clear(T, a, b, lit) == \A p \in a..(b - 1) : Differs(T, p, lit)

(* A text with something appended has grown. *)
LEMMA JoinGrows ==
  ASSUME NEW T \in ReplyTexts, NEW U \in ReplyTexts
  PROVE  T \o U \in ReplyTexts /\ Grows(T, T \o U) /\ Grows(T, T)
<1>1. Len(T) \in Nat /\ Len(U) \in Nat
  BY DEF ReplyTexts
<1>2. /\ T \o U \in Seq(Symbols) /\ Len(T \o U) = Len(T) + Len(U)
      /\ \A i \in 1..Len(T) : (T \o U)[i] = T[i]
  BY DEF ReplyTexts
<1> QED BY <1>1, <1>2 DEF Grows, ReplyTexts

(* Where a tag differs, it is not; where there is room for it and it is not, it differs. *)
LEMMA DiffersIsNot ==
  ASSUME NEW T \in ReplyTexts, NEW p \in Nat, NEW lit \in ReplyTexts
  PROVE  /\ Differs(T, p, lit) => ~Full(T, p, lit)
         /\ p + Len(lit) <= Len(T) /\ ~Full(T, p, lit) => Differs(T, p, lit)
<1>1. Len(T) \in Nat /\ Len(lit) \in Nat
  BY DEF ReplyTexts
<1>2. Full(T, p, lit) <=> /\ p + Len(lit) <= Len(T)
                          /\ \A k \in 1..Len(lit) : T[p + k] = lit[k]
  BY FullIs
<1> QED BY <1>1, <1>2 DEF Differs

(* What is clear stays clear. *)
LEMMA ClearGrows ==
  ASSUME NEW T \in ReplyTexts, NEW U \in ReplyTexts, Grows(T, U), NEW a \in Nat, NEW b \in Nat,
         NEW lit \in ReplyTexts, Clear(T, a, b, lit)
  PROVE  Clear(U, a, b, lit)
<1>1. Len(T) \in Nat /\ Len(U) \in Nat /\ Len(lit) \in Nat
  BY DEF ReplyTexts
<1> SUFFICES ASSUME NEW p \in a..(b - 1) PROVE Differs(U, p, lit)
  BY DEF Clear
<1>2. PICK k \in 1..Len(lit) : p + k <= Len(T) /\ T[p + k] # lit[k]
  BY DEF Clear, Differs
<1>3. p + k \in 1..Len(T) /\ p + k <= Len(U)
  BY <1>1, <1>2 DEF Grows
<1>4. U[p + k] = T[p + k]
  BY <1>3 DEF Grows
<1> QED BY <1>2, <1>3, <1>4 DEF Differs

(* What stands in a text stands in it when it has grown.                   *)
LEMMA FullGrows ==
  ASSUME NEW T \in ReplyTexts, NEW U \in ReplyTexts, Grows(T, U), NEW p \in Nat,
         NEW lit \in ReplyTexts, Full(T, p, lit)
  PROVE  Full(U, p, lit)
<1>1. Len(T) \in Nat /\ Len(U) \in Nat /\ Len(lit) \in Nat
  BY DEF ReplyTexts
<1>2. p + Len(lit) <= Len(T) /\ \A k \in 1..Len(lit) : T[p + k] = lit[k]
  BY FullIs
<1>3. ASSUME NEW k \in 1..Len(lit) PROVE U[p + k] = lit[k]
  <2>1. p + k \in 1..Len(T)
    BY <1>1, <1>2
  <2> QED BY <1>2, <2>1 DEF Grows
<1>4. p + Len(lit) <= Len(U)
  BY <1>1, <1>2 DEF Grows
<1> QED BY <1>3, <1>4, FullIs

(* What lies before the first place of a tag is clear of it. *)
LEMMA ClearBefore ==
  ASSUME NEW T \in ReplyTexts, NEW a \in Nat, NEW lit \in ReplyTexts, Has(T, a, lit)
  PROVE  Clear(T, a, FirstAt(T, a, lit), lit)
<1> DEFINE F == FirstAt(T, a, lit)
<1>1. Len(T) \in Nat /\ Len(lit) \in Nat
  BY DEF ReplyTexts
<1>2. /\ F \in a..Len(T) /\ Full(T, F, lit)
      /\ \A p \in a..Len(T) : Full(T, p, lit) => F <= p
  BY FirstIs
<1>3. F + Len(lit) <= Len(T)
  BY <1>2 DEF Full
<1> HIDE DEF F
<1>4. ASSUME NEW p \in a..(F - 1) PROVE Differs(T, p, lit)
  <2>1. p \in a..Len(T) /\ ~(F <= p) /\ p + Len(lit) <= Len(T) /\ p \in Nat
    BY <1>1, <1>2, <1>3
  <2> QED BY <1>2, <2>1, DiffersIsNot
<1> QED BY <1>4 DEF Clear, F

(* Two stretches without a tag that adjoin are one.                        *)
LEMMA ClearJoins ==
  ASSUME NEW T, NEW lit, NEW a \in Nat, NEW b \in Nat, NEW c \in Nat,
         Clear(T, a, b, lit), Clear(T, b, c, lit)
  PROVE  Clear(T, a, c, lit)
<1> SUFFICES ASSUME NEW p \in a..(c - 1) PROVE Differs(T, p, lit)
  BY DEF Clear
<1>1. p \in a..(b - 1) \/ p \in b..(c - 1)
  OBVIOUS
<1> QED BY <1>1 DEF Clear

(* The pieces of a text. *)
IsPiece(s, T, a, b) ==
  s \in ReplyTexts /\ Len(s) = b - a /\ \A i \in 1..(b - a) : s[i] = T[a + i]

(* What Between takes.                                                     *)
LEMMA BetweenIs ==
  ASSUME NEW T \in ReplyTexts, NEW a \in Nat, NEW b \in Nat, a <= b, b <= Len(T)
  PROVE  IsPiece(Between(T, a, b), T, a, b)
<1> DEFINE s == SubSeq(T, a + 1, b)
<1>1. Len(T) \in Nat
  BY DEF ReplyTexts
<1>2. \A i \in (a + 1)..b : T[i] \in Symbols
  BY <1>1, ElementOfSeq DEF ReplyTexts
<1>3. /\ s \in Seq(Symbols)
      /\ Len(s) = IF a + 1 <= b THEN b - (a + 1) + 1 ELSE 0
      /\ \A i \in 1..(b - (a + 1) + 1) : s[i] = T[(a + 1) + i - 1]
  BY <1>1, <1>2, SubSeqProperties
<1>4. b - (a + 1) + 1 = b - a /\ \A i \in 1..(b - a) : (a + 1) + i - 1 = a + i
  BY <1>1
<1> HIDE DEF s
<1>5. /\ s \in Seq(Symbols) /\ Len(s) = b - a /\ \A i \in 1..(b - a) : s[i] = T[a + i]
  BY <1>1, <1>3, <1>4
<1> QED BY <1>5 DEF s, Between, ReplyTexts, IsPiece

(* And takes it still when the text has grown.                             *)
LEMMA BetweenGrows ==
  ASSUME NEW T \in ReplyTexts, NEW U \in ReplyTexts, Grows(T, U),
         NEW a \in Nat, NEW b \in Nat, a <= b, b <= Len(T)
  PROVE  Between(U, a, b) = Between(T, a, b)
<1>1. Len(T) \in Nat /\ Len(U) \in Nat /\ Len(T) <= Len(U)
  BY DEF ReplyTexts, Grows
<1> DEFINE s == Between(T, a, b)
           u == Between(U, a, b)
<1>2. IsPiece(s, T, a, b)
  BY BetweenIs
<1>3. IsPiece(u, U, a, b)
  BY <1>1, BetweenIs
<1>4. \A i \in 1..(b - a) : U[a + i] = T[a + i]
  BY <1>1 DEF Grows
<1> HIDE DEF s, u
<1>5. s = u
  BY <1>2, <1>3, <1>4, SeqEqual DEF ReplyTexts, IsPiece
<1> QED BY <1>5 DEF s, u

(* Pieces that adjoin are one piece.                                       *)
LEMMA BetweenJoins ==
  ASSUME NEW T \in ReplyTexts, NEW a \in Nat, NEW b \in Nat, NEW c \in Nat,
         a <= b, b <= c, c <= Len(T)
  PROVE  Between(T, a, b) \o Between(T, b, c) = Between(T, a, c)
<1>1. Len(T) \in Nat
  BY DEF ReplyTexts
<1> DEFINE s == Between(T, a, b)
           u == Between(T, b, c)
           v == Between(T, a, c)
           w == s \o u
<1>2. IsPiece(s, T, a, b)
  BY <1>1, BetweenIs
<1>3. IsPiece(u, T, b, c)
  BY <1>1, BetweenIs
<1>4. IsPiece(v, T, a, c)
  BY <1>1, BetweenIs
<1> HIDE DEF s, u, v
<1>5. /\ w \in Seq(Symbols) /\ Len(w) = Len(s) + Len(u)
      /\ \A i \in 1..Len(w) : w[i] = IF i <= Len(s) THEN s[i] ELSE u[i - Len(s)]
  <2>1. s \in Seq(Symbols) /\ u \in Seq(Symbols)
    BY <1>2, <1>3 DEF ReplyTexts, IsPiece
  <2> QED BY <2>1
<1> HIDE DEF w
<1>6. Len(w) = c - a
  BY <1>2, <1>3, <1>5 DEF IsPiece
<1>7. ASSUME NEW i \in 1..(c - a) PROVE w[i] = v[i]
  <2>1. CASE i <= b - a
    <3>1. i \in 1..(b - a)
      BY <2>1
    <3>2. w[i] = s[i]
      BY <1>2, <1>5, <1>6, <3>1 DEF IsPiece
    <3> QED BY <1>2, <1>4, <3>1, <3>2 DEF IsPiece
  <2>2. CASE ~(i <= b - a)
    <3>1. i - (b - a) \in 1..(c - b) /\ b + (i - (b - a)) = a + i
      BY <2>2
    <3>2. w[i] = u[i - (b - a)]
      BY <1>2, <1>5, <1>6, <2>2 DEF IsPiece
    <3>3. u[i - (b - a)] = T[b + (i - (b - a))]
      BY <1>3, <3>1 DEF IsPiece
    <3> QED BY <1>4, <3>1, <3>2, <3>3 DEF IsPiece
  <2> QED BY <2>1, <2>2
<1>8. w = v
  BY <1>4, <1>5, <1>6, <1>7, SeqEqual DEF ReplyTexts, IsPiece
<1> QED BY <1>8 DEF w, s, u, v

(* A piece is a beginning of any longer one from the same place.           *)
LEMMA BetweenIsPrefix ==
  ASSUME NEW T \in ReplyTexts, NEW a \in Nat, NEW b \in Nat, NEW c \in Nat,
         a <= b, b <= c, c <= Len(T)
  PROVE  IsPrefix(Between(T, a, b), Between(T, a, c))
<1>1. Len(T) \in Nat
  BY DEF ReplyTexts
<1> DEFINE s == Between(T, a, b)
           v == Between(T, a, c)
           s1 == SubSeq(s, 1, Len(s))
           v1 == SubSeq(v, 1, Len(s))
<1>2. IsPiece(s, T, a, b)
  BY <1>1, BetweenIs
<1>4. IsPiece(v, T, a, c)
  BY <1>1, BetweenIs
<1> HIDE DEF s, v
<1>5. s1 = Between(s, 0, b - a) /\ v1 = Between(v, 0, b - a)
  BY <1>2 DEF Between, IsPiece
<1>6. b - a \in Nat /\ b - a <= Len(s) /\ b - a <= Len(v)
  BY <1>2, <1>4 DEF IsPiece
<1> DEFINE n == b - a
<1>7. n \in Nat /\ n <= Len(s) /\ n <= Len(v) /\ 0 <= n /\ s \in ReplyTexts /\ v \in ReplyTexts
  BY <1>2, <1>4, <1>6 DEF IsPiece
<1>8. \A i \in 1..n : s[i] = v[i]
  BY <1>2, <1>4, <1>6 DEF IsPiece
<1>9. s1 = Between(s, 0, n) /\ v1 = Between(v, 0, n)
  BY <1>5
<1> HIDE DEF n, s1, v1
<1>10. IsPiece(s1, s, 0, n)
  BY <1>7, <1>9, BetweenIs
<1>11. IsPiece(v1, v, 0, n)
  BY <1>7, <1>9, BetweenIs
<1>12. s1 = v1
  <2>1. \A i \in 1..n : 0 + i = i
    BY <1>7
  <2>2. Len(s1) = n /\ Len(v1) = n /\ \A i \in 1..n : s1[i] = v1[i]
    BY <1>7, <1>8, <1>10, <1>11, <2>1 DEF IsPiece
  <2>3. s1 \in Seq(Symbols) /\ v1 \in Seq(Symbols)
    BY <1>10, <1>11 DEF IsPiece, ReplyTexts
  <2> QED BY <2>2, <2>3, SeqEqual
<1>13. Len(s) <= Len(v)
  BY <1>2, <1>4 DEF IsPiece
<1> QED BY <1>12, <1>13 DEF IsPrefix, s1, v1, s, v

(* Nothing is between a place and itself.                                  *)
LEMMA NothingBetween ==
  ASSUME NEW T \in ReplyTexts, NEW a \in Nat, a <= Len(T)
  PROVE  Between(T, a, a) = <<>>
<1>1. IsPiece(Between(T, a, a), T, a, a)
  BY BetweenIs
<1> QED BY <1>1, EmptySeq DEF ReplyTexts, IsPiece

(***************************************************************************)
(* text_stream_safe_limit: what it lets out is behind what was let out,    *)
(* ends in no blank, and no marker can begin in it.                        *)
(***************************************************************************)
LEMMA MarkersDiffer ==
  ASSUME NEW T \in ReplyTexts, NEW p \in Nat, NEW lit \in {ThinkEnd, ToolsStart}
  PROVE  /\ p + 1 <= Len(T) /\ T[p + 1] # "<" => Differs(T, p, lit)
         /\ p + 2 <= Len(T) /\ T[p + 2] = "<" => Differs(T, p, lit)
<1>1. /\ ThinkEnd[1] = "<" /\ ThinkEnd[2] = "/" /\ Len(ThinkEnd) = 3
      /\ ToolsStart[1] = "<" /\ ToolsStart[2] = "tools>" /\ Len(ToolsStart) = 2
  BY DEF ThinkEnd, ToolsStart
<1> HIDE DEF ThinkEnd, ToolsStart
<1>2. 1 \in 1..Len(lit) /\ 2 \in 1..Len(lit) /\ lit[1] = "<" /\ lit[2] # "<"
  <2>1. CASE lit = ThinkEnd
    BY <1>1, <2>1
  <2>2. CASE lit = ToolsStart
    BY <1>1, <2>2
  <2> QED BY <2>1, <2>2
<1>3. CASE p + 1 <= Len(T) /\ T[p + 1] # "<"
  <2>1. T[p + 1] # lit[1]
    BY <1>2, <1>3
  <2> QED BY <1>2, <1>3, <2>1 DEF Differs
<1>4. CASE p + 2 <= Len(T) /\ T[p + 2] = "<"
  <2>1. T[p + 2] # lit[2]
    BY <1>2, <1>4
  <2> QED BY <1>2, <1>4, <2>1 DEF Differs
<1> QED BY <1>3, <1>4

(* The last place a marker may begin at, within the window. *)
Window(T, start, hold) == {i \in start..(Len(T) - 1) : i + hold >= Len(T) /\ T[i + 1] = "<"}
HeldFrom(T, start, hold) ==
  Min({TrimWs(T, start, Len(T))}
        \cup (IF Window(T, start, hold) = {} THEN {} ELSE {Max(Window(T, start, hold))}))

(* Behind the place text is held back from, no "<" is the last one.        *)
LEMMA HeldFromIs ==
  ASSUME NEW T \in ReplyTexts, NEW start \in Nat, start <= Len(T), NEW hold \in Nat
  PROVE  LET m == HeldFrom(T, start, hold)
         IN /\ m \in Nat /\ start <= m /\ m <= Len(T)
            /\ \A i \in Window(T, start, hold) :
                 i < m => \E j \in Window(T, start, hold) : i < j /\ m <= j
<1> DEFINE V == TrimWs(T, start, Len(T))
           W == Window(T, start, hold)
           S == {V} \cup (IF W = {} THEN {} ELSE {Max(W)})
           m == Min(S)
<1>1. Len(T) \in Nat
  BY DEF ReplyTexts
<1>2. V \in Nat /\ start <= V /\ V <= Len(T)
  BY <1>1, TrimIs
<1>3. W \in SUBSET (0..Len(T)) /\ \A i \in W : i \in Nat /\ start <= i /\ i <= Len(T)
  BY <1>1 DEF Window
<1> HIDE DEF V, W
<1>4. W # {} => Max(W) \in W /\ Max(W) \in Nat /\ \A i \in W : i <= Max(W)
  BY <1>1, <1>3, MaxIs
<1>5. S \in SUBSET Nat /\ S # {}
  BY <1>2, <1>3, <1>4
<1>6. m \in S /\ \A y \in S : m <= y
  BY <1>5, MinIs
<1>7. V \in S /\ (W # {} => Max(W) \in S)
  OBVIOUS
<1>8. m = V \/ (W # {} /\ m = Max(W))
  <2> HIDE DEF m
  <2> QED BY <1>6
<1>9. m \in Nat /\ start <= m /\ m <= Len(T)
  <2> HIDE DEF m
  <2> QED BY <1>1, <1>2, <1>3, <1>4, <1>8
<1>10. ASSUME NEW i \in W, i < m PROVE \E j \in W : i < j /\ m <= j
  <2>1. Max(W) \in W /\ m <= Max(W) /\ Max(W) \in Nat /\ i \in Nat
    <3> HIDE DEF m, S
    <3> QED BY <1>3, <1>4, <1>6, <1>7
  <2> HIDE DEF m
  <2> QED BY <1>9, <1>10, <2>1
<1>11. m = HeldFrom(T, start, hold)
  BY DEF HeldFrom, V, W
<1> HIDE DEF m
<1> QED BY <1>9, <1>10, <1>11 DEF W

(* text_stream_safe_limit stays in the text and does not go back.          *)
LEMMA SafeIs ==
  ASSUME NEW T \in ReplyTexts, NEW start \in Nat, start <= Len(T),
         NEW hasTools, NEW final, NEW hold \in Nat
  PROVE  LET L == SafeLimit(T, start, hasTools, final, hold)
         IN L \in Nat /\ start <= L /\ L <= Len(T)
<1> DEFINE L == SafeLimit(T, start, hasTools, final, hold)
           F == FirstAt(T, start, ToolsStart)
           m == HeldFrom(T, start, hold)
<1>1. Len(T) \in Nat
  BY DEF ReplyTexts
<1>2. L = IF Len(T) <= start THEN Len(T)
          ELSE IF hasTools /\ Has(T, start, ToolsStart) THEN TrimWs(T, start, F)
          ELSE IF hasTools /\ ~final THEN TrimWs(T, start, m) ELSE Len(T)
  BY DEF SafeLimit, HeldFrom, Window
<1>3. m \in Nat /\ m <= Len(T)
  BY HeldFromIs
<1>4. Has(T, start, ToolsStart) => F \in Nat /\ F <= Len(T)
  BY <1>1, FirstIs
<1> HIDE DEF L, F, m
<1>5. ASSUME NEW k \in Nat, k <= Len(T)
      PROVE  LET t == TrimWs(T, start, k) IN t \in Nat /\ start <= t /\ t <= Len(T)
  <2> DEFINE t == TrimWs(T, start, k)
  <2>1. t \in Nat /\ t >= start /\ (t = start \/ (t <= k /\ T[t] # "w"))
    BY <1>5, TrimIs
  <2> HIDE DEF t
  <2>2. t \in Nat /\ start <= t /\ t <= Len(T)
    BY <1>1, <1>5, <2>1
  <2> QED BY <2>2 DEF t
<1>6. L \in Nat /\ start <= L /\ L <= Len(T)
  BY <1>1, <1>2, <1>3, <1>4, <1>5
<1> QED BY <1>6 DEF L

(* Before text_stream_safe_limit no marker begins, and no blank ends there.*)
LEMMA HoldsBack ==
  ASSUME NEW T \in ReplyTexts, NEW start \in Nat, start <= Len(T), NEW lit \in {ThinkEnd,
         ToolsStart},
         ~Has(T, start, lit), ~Has(T, start, ToolsStart)
  PROVE  LET L == SafeLimit(T, start, TRUE, FALSE, MarkerHold)
         IN Clear(T, start, L, lit) /\ (L = start \/ T[L] # "w")
<1> DEFINE L == SafeLimit(T, start, TRUE, FALSE, MarkerHold)
           m == HeldFrom(T, start, MarkerHold)
           W == Window(T, start, MarkerHold)
<1>1. /\ Len(T) \in Nat /\ lit \in ReplyTexts /\ Len(lit) \in Nat /\ Len(lit) <= 3
      /\ MarkerHold \in Nat /\ MarkerHold >= 3
  <2>1. Len(T) \in Nat
    BY DEF ReplyTexts
  <2>2. /\ Len(ThinkEnd) = 3 /\ ThinkEnd \in ReplyTexts
        /\ Len(ToolsStart) = 2 /\ ToolsStart \in ReplyTexts
    BY TagsAreTexts
  <2>3. MarkerHold \in Nat /\ MarkerHold >= 3
    BY <2>2, MarkersAreHeld
  <2>4. lit \in ReplyTexts /\ (Len(lit) = 3 \/ Len(lit) = 2)
    <3>1. CASE lit = ThinkEnd
      BY <2>2, <3>1
    <3>2. CASE lit = ToolsStart
      BY <2>2, <3>2
    <3> QED BY <3>1, <3>2
  <2>5. \A k : k = 3 \/ k = 2 => k \in Nat /\ k <= 3
    OBVIOUS
  <2> QED BY <2>1, <2>3, <2>4, <2>5, Zenon
<1>2. L = IF Len(T) <= start THEN Len(T) ELSE TrimWs(T, start, m)
  BY DEF SafeLimit, HeldFrom, Window
<1>3. /\ m \in Nat /\ start <= m /\ m <= Len(T)
      /\ \A i \in W : i < m => \E j \in W : i < j /\ m <= j
  BY <1>1, HeldFromIs
<1> HIDE DEF L, m
<1>4. L \in Nat /\ start <= L /\ L <= m /\ (L = start \/ T[L] # "w")
  <2>1. CASE Len(T) <= start
    BY <1>1, <1>2, <1>3, <2>1
  <2>2. CASE ~(Len(T) <= start)
    <3>1. L = TrimWs(T, start, m)
      BY <1>2, <2>2
    <3>2. L \in Nat /\ L >= start /\ (L = start \/ (L <= m /\ T[L] # "w"))
      BY <1>3, <3>1, TrimIs
    <3> QED BY <1>3, <3>2
  <2> QED BY <2>1, <2>2
<1>5. ASSUME NEW p \in start..(L - 1) PROVE Differs(T, p, lit)
  <2>1. p \in Nat /\ p \in start..Len(T) /\ p < m /\ p + 1 <= Len(T) /\ start <= p
    BY <1>1, <1>3, <1>4
  <2>2. ~Full(T, p, lit)
    BY <2>1 DEF Has
  <2>3. CASE T[p + 1] # "<"
    BY <2>1, <2>3, MarkersDiffer
  <2>4. CASE T[p + 1] = "<" /\ p \notin W
    <3>1. ~(p + MarkerHold >= Len(T))
      BY <1>1, <2>1, <2>4 DEF Window
    <3>2. p + Len(lit) <= Len(T)
      BY <1>1, <2>1, <3>1
    <3> QED BY <1>1, <2>1, <2>2, <3>2, DiffersIsNot
  <2>5. CASE T[p + 1] = "<" /\ p \in W
    <3>1. PICK j \in W : p < j /\ m <= j
      BY <1>3, <2>1, <2>5
    <3>2. j \in Nat /\ j + 1 <= Len(T) /\ T[j + 1] = "<"
      BY <1>1, <2>1, <3>1 DEF Window
    <3>3. CASE j = p + 1
      <4>1. p + 2 <= Len(T) /\ T[p + 2] = "<"
        BY <2>1, <3>2, <3>3
      <4> QED BY <2>1, <4>1, MarkersDiffer
    <3>4. CASE j # p + 1
      <4>1. p + Len(lit) <= Len(T)
        BY <1>1, <2>1, <3>1, <3>2, <3>4
      <4> QED BY <1>1, <2>1, <2>2, <4>1, DiffersIsNot
    <3> QED BY <3>3, <3>4
  <2> QED BY <2>3, <2>4, <2>5
<1> QED BY <1>4, <1>5 DEF Clear, L

(***************************************************************************)
(* Where the stream stands after each of its assignments.                  *)
(***************************************************************************)
Standing(o, m, e, c, t) ==
  [live |-> [mode |-> m, emit |-> e, checked |-> c, tool |-> t], wire |-> o.wire]

Emitted(o, e) == [o EXCEPT !.live.emit = e]
Started(o, e, c) == [o EXCEPT !.live.emit = e, !.live.checked = c]
Turned(o, m) == [o EXCEPT !.live.mode = m]
Passed(o, e, m) == [o EXCEPT !.live.emit = e, !.live.mode = m]
Entered(o, e, m, t) == [o EXCEPT !.live.emit = e, !.live.mode = m, !.live.tool = t]

StandsAt(d, o, n, m, e, c, t) ==
  /\ OutShape(d, n) /\ d.wire = o.wire
  /\ d.live.mode = m /\ d.live.emit = e /\ d.live.checked = c /\ d.live.tool = t

(* A stream with other fields of its own has said what it had.             *)
LEMMA StandingIs ==
  ASSUME NEW n \in Nat, NEW o, OutShape(o, n),
         NEW m \in {"thinking", "text", "tool", "suppress"}, NEW e \in 0..n, NEW c \in BOOLEAN,
         NEW t \in ToolType(n)
  PROVE  StandsAt(Standing(o, m, e, c, t), o, n, m, e, c, t)
<1> HIDE DEF ToolType
<1> QED BY DEF Standing, StandsAt, OutShape, LiveType

(* The ways the model writes that its own fields change.                   *)
LEMMA LiveChanges ==
  ASSUME NEW n \in Nat, NEW o, OutShape(o, n), NEW e, NEW m, NEW t, NEW x
  PROVE  LET l == o.live
         IN /\ Emitted(o, e) = Standing(o, l.mode, e, l.checked, l.tool)
            /\ Started(o, e, x) = Standing(o, l.mode, e, x, l.tool)
            /\ Turned(o, m) = Standing(o, m, l.emit, l.checked, l.tool)
            /\ Passed(o, e, m) = Standing(o, m, e, l.checked, l.tool)
            /\ Entered(o, e, m, t) = Standing(o, m, e, l.checked, t)
<1> DEFINE l == o.live
           w == o.wire
           Pair(p, y) == [live |-> p, wire |-> y]
           Live(a, b, c, d) == [mode |-> a, emit |-> b, checked |-> c, tool |-> d]
<1>1. o = Pair(Live(l.mode, l.emit, l.checked, l.tool), w)
  <2>1. o = Pair(l, w) /\ l \in LiveType(n)
    BY DEF OutShape
  <2>2. l = Live(l.mode, l.emit, l.checked, l.tool)
    <3> HIDE DEF l
    <3> QED BY <2>1 DEF LiveType
  <2> HIDE DEF l, w, Pair, Live
  <2> QED BY <2>1, <2>2
<1>2. \A p, y, z : [Pair(p, y) EXCEPT !.live = z] = Pair(z, y)
  OBVIOUS
<1>3. \A a, b, c, d, z : /\ [Live(a, b, c, d) EXCEPT !.emit = z] = Live(a, z, c, d)
                         /\ [Live(a, b, c, d) EXCEPT !.mode = z] = Live(z, b, c, d)
                         /\ [Live(a, b, c, d) EXCEPT !.tool = z] = Live(a, b, c, z)
                         /\ [Live(a, b, c, d) EXCEPT !.checked = z] = Live(a, b, z, d)
  OBVIOUS
<1>4. \A p, y : Pair(p, y).live = p
  OBVIOUS
<1> HIDE DEF l, w
<1> DEFINE a == l.mode
           b == l.emit
           c == l.checked
           d == l.tool
<1>5. Emitted(o, e) = Pair(Live(a, e, c, d), w)
  <2>1. Emitted(o, e) = [o EXCEPT !.live = [o.live EXCEPT !.emit = e]]
    BY DEF Emitted
  <2> HIDE DEF Pair, Live, a, b, c, d
  <2>2. [o.live EXCEPT !.emit = e] = Live(a, e, c, d)
    BY <1>1, <1>3, <1>4 DEF a, b, c, d
  <2> QED BY <1>1, <1>2, <2>1, <2>2
<1>6. Started(o, e, x) = Pair(Live(a, e, x, d), w)
  <2>1. Started(o, e, x) = [Emitted(o, e) EXCEPT !.live = [Emitted(o, e).live EXCEPT !.checked = x]]
    BY DEF Started, Emitted
  <2> HIDE DEF Pair, Live, a, b, c, d
  <2>2. [Emitted(o, e).live EXCEPT !.checked = x] = Live(a, e, x, d)
    BY <1>3, <1>4, <1>5
  <2> QED BY <1>2, <1>5, <2>1, <2>2
<1>7. Turned(o, m) = Pair(Live(m, b, c, d), w)
  <2>1. Turned(o, m) = [o EXCEPT !.live = [o.live EXCEPT !.mode = m]]
    BY DEF Turned
  <2> HIDE DEF Pair, Live, a, b, c, d
  <2>2. [o.live EXCEPT !.mode = m] = Live(m, b, c, d)
    BY <1>1, <1>3, <1>4 DEF a, b, c, d
  <2> QED BY <1>1, <1>2, <2>1, <2>2
<1>8. Passed(o, e, m) = Pair(Live(m, e, c, d), w)
  <2>1. Passed(o, e, m) = [Emitted(o, e) EXCEPT !.live = [Emitted(o, e).live EXCEPT !.mode = m]]
    BY DEF Passed, Emitted
  <2> HIDE DEF Pair, Live, a, b, c, d
  <2>2. [Emitted(o, e).live EXCEPT !.mode = m] = Live(m, e, c, d)
    BY <1>3, <1>4, <1>5
  <2> QED BY <1>2, <1>5, <2>1, <2>2
<1>9. Entered(o, e, m, t) = Pair(Live(m, e, c, t), w)
  <2>1. Entered(o, e, m, t)
          = [Passed(o, e, m) EXCEPT !.live = [Passed(o, e, m).live EXCEPT !.tool = t]]
    BY DEF Passed, Entered
  <2> HIDE DEF Pair, Live, a, b, c, d
  <2>2. [Passed(o, e, m).live EXCEPT !.tool = t] = Live(m, e, c, t)
    BY <1>3, <1>4, <1>8
  <2> QED BY <1>2, <1>8, <2>1, <2>2
<1> QED BY <1>5, <1>6, <1>7, <1>8, <1>9 DEF Standing, l, w

(* Skipping the tag that opens the thinking.                               *)
LEMMA StartedIs ==
  ASSUME NEW n \in Nat, NEW o, OutShape(o, n), NEW e \in 0..n
  PROVE  LET d == Started(o, e, TRUE)
         IN /\ OutShape(d, n) /\ d.wire = o.wire
            /\ d.live.mode = o.live.mode /\ d.live.emit = e /\ d.live.tool = o.live.tool
            /\ d.live.checked \in BOOLEAN /\ d.live.checked
<1> DEFINE d == Started(o, e, TRUE)
           l == o.live
<1>1. l \in LiveType(n)
  BY DEF OutShape
<1> HIDE DEF l, ToolType
<1>2. l.mode \in {"thinking", "text", "tool", "suppress"} /\ l.tool \in ToolType(n)
  BY <1>1 DEF LiveType
<1>3. \A x \in BOOLEAN : x =>
        LET u == Started(o, e, x)
        IN /\ OutShape(u, n) /\ u.wire = o.wire
           /\ u.live.mode = l.mode /\ u.live.emit = e /\ u.live.tool = l.tool
           /\ u.live.checked \in BOOLEAN /\ u.live.checked
  <2> SUFFICES ASSUME NEW x \in BOOLEAN, x
               PROVE  LET u == Started(o, e, x)
                      IN /\ OutShape(u, n) /\ u.wire = o.wire
                         /\ u.live.mode = l.mode /\ u.live.emit = e /\ u.live.tool = l.tool
                         /\ u.live.checked \in BOOLEAN /\ u.live.checked
    OBVIOUS
  <2> DEFINE u == Started(o, e, x)
  <2>1. u = Standing(o, l.mode, e, x, l.tool)
    BY LiveChanges DEF l
  <2> HIDE DEF u
  <2>2. StandsAt(u, o, n, l.mode, e, x, l.tool)
    BY <1>2, <2>1, StandingIs
  <2> QED BY <2>2 DEF u, StandsAt
<1>4. TRUE \in BOOLEAN
  OBVIOUS
<1> QED BY <1>3, <1>4, Zenon DEF l

(* Going on to another place and mode.                                     *)
LEMMA PassedIs ==
  ASSUME NEW n \in Nat, NEW o, OutShape(o, n), NEW e \in 0..n,
         NEW m \in {"thinking", "text", "tool", "suppress"}
  PROVE  /\ StandsAt(Passed(o, e, m), o, n, m, e, o.live.checked, o.live.tool)
         /\ StandsAt(Turned(o, m), o, n, m, o.live.emit, o.live.checked, o.live.tool)
<1> DEFINE l == o.live
<1>1. l \in LiveType(n)
  BY DEF OutShape
<1> HIDE DEF ToolType
<1>2. /\ l.emit \in 0..n /\ l.checked \in BOOLEAN /\ l.tool \in ToolType(n)
  <2> HIDE DEF l
  <2> QED BY <1>1 DEF LiveType
<1>3. /\ Passed(o, e, m) = Standing(o, m, e, l.checked, l.tool)
      /\ Turned(o, m) = Standing(o, m, l.emit, l.checked, l.tool)
  BY LiveChanges
<1>4. /\ StandsAt(Standing(o, m, e, l.checked, l.tool), o, n, m, e, l.checked, l.tool)
      /\ StandsAt(Standing(o, m, l.emit, l.checked, l.tool), o, n, m, l.emit, l.checked, l.tool)
  BY <1>2, StandingIs
<1> QED BY <1>3, <1>4

(* What is emitted, and the entry into a block. *)
EmitsTo(d, o, n, T, field, limit) ==
  LET more == limit > o.live.emit
  IN /\ OutShape(d, n) /\ d.live.mode = o.live.mode
     /\ d.live.checked = o.live.checked /\ d.live.tool = o.live.tool
     /\ d.live.emit = IF more THEN limit ELSE o.live.emit
     /\ d.wire.said.content =
          IF more /\ field = "content"
          THEN o.wire.said.content \o Between(T, o.live.emit, limit)
          ELSE o.wire.said.content

(* Emitting up to a limit says the piece before it, if there is one.       *)
LEMMA EmitIs ==
  ASSUME NEW n \in Nat, NEW o, OutShape(o, n), NEW T, NEW field \in {"reasoning", "content"},
         NEW limit \in 0..n
  PROVE  EmitsTo(EmitUpTo(o, T, field, limit), o, n, T, field, limit)
<1> DEFINE d == EmitUpTo(o, T, field, limit)
           more == limit > o.live.emit
           part == Between(T, o.live.emit, limit)
           s == Say(o, field, part)
<1>1. d = IF more THEN Emitted(s, limit) ELSE o
  BY DEF EmitUpTo, Emitted
<1> HIDE DEF d, part
<1>2. CASE ~more
  BY <1>1, <1>2 DEF d, EmitsTo
<1>3. CASE more
  <2>1. OutShape(s, n) /\ Said(o, s, field, part)
    BY SayIs
  <2> HIDE DEF s
  <2>2. s.wire.said.content = IF field = "content" THEN o.wire.said.content \o part
                              ELSE o.wire.said.content
    <3>1. CASE field = "content"
      BY <2>1, <3>1 DEF Said
    <3>2. CASE field = "reasoning"
      BY <2>1, <3>2 DEF Said
    <3> QED BY <3>1, <3>2
  <2> HIDE DEF s
  <2>3. d = Standing(s, s.live.mode, limit, s.live.checked, s.live.tool)
    BY <1>1, <1>3, <2>1, LiveChanges DEF Said
  <2>4. s.live \in LiveType(n)
    BY <2>1 DEF OutShape
  <2>5. /\ OutShape(d, n) /\ d.wire = s.wire /\ d.live.mode = s.live.mode /\ d.live.emit = limit
        /\ d.live.checked = s.live.checked /\ d.live.tool = s.live.tool
    <3> HIDE DEF ToolType
    <3>1. /\ s.live.mode \in {"thinking", "text", "tool", "suppress"}
          /\ s.live.checked \in BOOLEAN /\ s.live.tool \in ToolType(n)
      BY <2>4 DEF LiveType
    <3>2. StandsAt(d, s, n, s.live.mode, limit, s.live.checked, s.live.tool)
      BY <2>1, <2>3, <3>1, StandingIs
    <3> QED BY <3>2 DEF StandsAt
  <2> QED BY <1>3, <2>1, <2>2, <2>5 DEF Said, EmitsTo, d, part
<1> QED BY <1>2, <1>3

(* Entering a block says nothing.                                          *)
LEMMA EnterIs ==
  ASSUME NEW n \in Nat, NEW o, OutShape(o, n), Running(o.live.tool), NEW at \in 0..n, at + 2 <= n
  PROVE  LET d == EnterTool(o, at)
         IN /\ OutShape(d, n) /\ Running(d.live.tool) /\ d.wire = o.wire
            /\ d.live.mode \in {"tool", "suppress"}
<1> DEFINE d == EnterTool(o, at)
           t == [NoTool EXCEPT !.state = "invokes", !.pos = at + 2, !.active = TRUE]
<1>1. d = IF req.buffered THEN Passed(o, at, "suppress") ELSE Entered(o, at, "tool", t)
  BY DEF EnterTool, Passed, Entered
<1>2. t \in ToolType(n) /\ Running(t)
  <2>1. NoTool \in ToolType(n)
    BY DEF NoTool, ToolType
  <2>2. at + 2 \in 0..n
    OBVIOUS
  <2> QED BY <2>1, <2>2 DEF ToolType, Running
<1> HIDE DEF d, t, ToolType
<1>3. o.live \in LiveType(n)
  BY DEF OutShape
<1>4. o.live.checked \in BOOLEAN /\ o.live.tool \in ToolType(n)
  BY <1>3 DEF LiveType
<1>5. CASE req.buffered
  <2>1. d = Standing(o, "suppress", at, o.live.checked, o.live.tool)
    BY <1>1, <1>5, LiveChanges
  <2>2. /\ OutShape(d, n) /\ d.wire = o.wire /\ d.live.mode = "suppress"
        /\ d.live.tool = o.live.tool
    <3>1. StandsAt(d, o, n, "suppress", at, o.live.checked, o.live.tool)
      BY <1>4, <2>1, StandingIs
    <3> QED BY <3>1 DEF StandsAt
  <2> QED BY <2>2 DEF d
<1>6. CASE ~req.buffered
  <2>1. d = Standing(o, "tool", at, o.live.checked, t)
    BY <1>1, <1>6, LiveChanges
  <2>2. /\ OutShape(d, n) /\ d.wire = o.wire /\ d.live.mode = "tool" /\ d.live.tool = t
    <3>1. StandsAt(d, o, n, "tool", at, o.live.checked, t)
      BY <1>2, <1>4, <2>1, StandingIs
    <3> QED BY <3>1 DEF StandsAt
  <2> QED BY <1>2, <2>2 DEF d
<1> QED BY <1>5, <1>6

(***************************************************************************)
(* What the client has seen as content: text from the end of the thinking, *)
(* or from the beginning, up to a place no block begins before.            *)
(***************************************************************************)
Base(T, b) ==
  IF req.think THEN b >= 3 /\ Full(T, b - 3, ThinkEnd) /\ Clear(T, 0, b - 3, ThinkEnd) ELSE b = 0

(* A place to stop: no block may begin before it and no blank ends in it,  *)
(* or the text is complete and without a block.                            *)
Stop(T, k, l, final) ==
  \/ Clear(T, k, l, ToolsStart) /\ (l = k \/ T[l] # "w")
  \/ final /\ l = Len(T) /\ ~Has(T, k, ToolsStart)

Projected(T, b, l, content, final) ==
  /\ b <= l /\ l <= Len(T) /\ Base(T, b) /\ Stop(T, b, l, final)
  /\ content = Between(T, b, l)

Shows(T, o, final) ==
  LET content == o.wire.said.content
      l == o.live
  IN /\ l.mode = "thinking" => /\ req.think /\ content = <<>> /\ Clear(T, 0, l.emit, ThinkEnd)
                               /\ ~l.checked => l.emit = 0
     /\ l.mode = "text" => \E b \in Nat : Projected(T, b, l.emit, content, FALSE)
     /\ l.mode \in {"tool", "suppress"} =>
          content = <<>> \/ \E b, k \in Nat : Projected(T, b, k, content, final)

Followed(T, o, final) ==
  OutShape(o, Len(T)) /\ Running(o.live.tool) /\ (req.tools => Shows(T, o, final))

(* The property of the runs, of any text and any content. *)
StopsAtMarkup(T, content) ==
  LET from == IF Has(T, 0, ThinkEnd) THEN FirstAt(T, 0, ThinkEnd) + 3 ELSE Len(T)
      start == IF req.think THEN from ELSE 0
      limit == IF Has(T, start, ToolsStart)
               THEN TrimWs(T, start, FirstAt(T, start, ToolsStart))
               ELSE Len(T)
  IN IsPrefix(content, Between(T, start, limit))

(* What is projected up to a place to stop stops at the markup.            *)
LEMMA ProjectedStops ==
  ASSUME NEW T \in ReplyTexts, NEW b \in Nat, NEW l \in Nat, NEW c, NEW final \in BOOLEAN,
         Projected(T, b, l, c, final)
  PROVE  StopsAtMarkup(T, c)
<1> DEFINE from == IF Has(T, 0, ThinkEnd) THEN FirstAt(T, 0, ThinkEnd) + 3 ELSE Len(T)
           start == IF req.think THEN from ELSE 0
           limit == IF Has(T, start, ToolsStart)
                    THEN TrimWs(T, start, FirstAt(T, start, ToolsStart))
                    ELSE Len(T)
<1>1. /\ Len(T) \in Nat /\ ThinkEnd \in ReplyTexts /\ Len(ThinkEnd) = 3
      /\ ToolsStart \in ReplyTexts /\ Len(ToolsStart) = 2
  BY TagsAreTexts DEF ReplyTexts
<1>2. /\ b <= l /\ l <= Len(T) /\ Base(T, b) /\ Stop(T, b, l, final)
      /\ c = Between(T, b, l)
  BY DEF Projected
<1>3. start = b
  <2>1. CASE ~req.think
    BY <1>2, <2>1 DEF Base
  <2>2. CASE req.think
    <3>1. b >= 3 /\ Full(T, b - 3, ThinkEnd) /\ Clear(T, 0, b - 3, ThinkEnd)
      BY <1>2, <2>2 DEF Base
    <3>2. b - 3 \in 0..Len(T) /\ b - 3 \in Nat
      BY <1>1, <1>2, <3>1
    <3>3. Has(T, 0, ThinkEnd)
      BY <3>1, <3>2 DEF Has
    <3> DEFINE F == FirstAt(T, 0, ThinkEnd)
    <3>4. /\ F \in 0..Len(T) /\ Full(T, F, ThinkEnd)
          /\ \A p \in 0..Len(T) : Full(T, p, ThinkEnd) => F <= p
      BY <3>3, FirstIs
    <3>5. start = F + 3
      BY <2>2, <3>3
    <3> HIDE DEF F, start
    <3>6. F <= b - 3
      BY <3>1, <3>2, <3>4
    <3>7. ~(F < b - 3)
      <4> SUFFICES ASSUME F < b - 3 PROVE FALSE
        OBVIOUS
      <4>1. F \in 0..((b - 3) - 1) /\ F \in Nat
        BY <3>2, <3>4
      <4>2. Differs(T, F, ThinkEnd)
        BY <3>1, <4>1 DEF Clear
      <4> QED BY <1>1, <3>4, <4>1, <4>2, DiffersIsNot
    <3> QED BY <3>2, <3>4, <3>5, <3>6, <3>7
  <2> QED BY <2>1, <2>2
<1> HIDE DEF start
<1>4. limit \in Nat /\ l <= limit /\ limit <= Len(T)
  <2>1. CASE ~Has(T, b, ToolsStart)
    BY <1>1, <1>2, <1>3, <2>1
  <2>2. CASE Has(T, b, ToolsStart)
    <3> DEFINE F == FirstAt(T, b, ToolsStart)
               m == TrimWs(T, b, F)
    <3>1. F \in b..Len(T) /\ Full(T, F, ToolsStart)
      BY <2>2, FirstIs
    <3>2. limit = m
      BY <1>3, <2>2
    <3> HIDE DEF F
    <3>3. F \in Nat /\ F + 2 <= Len(T) /\ F <= Len(T)
      BY <1>1, <3>1 DEF Full
    <3>0. Clear(T, b, l, ToolsStart) /\ (l = b \/ T[l] # "w")
      BY <1>2, <2>2 DEF Stop
    <3>4. l <= F
      <4> SUFFICES ASSUME F < l PROVE FALSE
        BY <3>3
      <4>1. F \in b..(l - 1)
        BY <3>1
      <4>2. Differs(T, F, ToolsStart)
        BY <3>0, <4>1 DEF Clear
      <4> QED BY <1>1, <3>1, <3>3, <4>2, DiffersIsNot
    <3>5. /\ m \in Nat /\ m >= b /\ (m = b \/ (m <= F /\ T[m] # "w"))
          /\ \A k \in (b + 1)..F : T[k] # "w" => k <= m
      BY <3>3, TrimIs
    <3> HIDE DEF m, limit
    <3>6. m <= Len(T)
      BY <1>1, <1>2, <3>3, <3>5
    <3>7. l <= m
      <4>1. CASE l = b
        BY <3>5, <4>1
      <4>2. CASE l # b /\ T[l] # "w"
        <5>1. l \in (b + 1)..F
          BY <1>2, <3>3, <3>4, <4>2
        <5> QED BY <3>5, <4>2, <5>1
      <4> QED BY <3>0, <4>1, <4>2
    <3> QED BY <3>2, <3>5, <3>6, <3>7
  <2> QED BY <2>1, <2>2
<1> HIDE DEF limit
<1>5. IsPrefix(c, Between(T, start, limit))
  BY <1>2, <1>3, <1>4, BetweenIsPrefix
<1> QED BY <1>5 DEF StopsAtMarkup, limit, start

(* So does nothing.                                                        *)
LEMMA NothingStops ==
  ASSUME NEW T \in ReplyTexts
  PROVE  StopsAtMarkup(T, <<>>)
<1> DEFINE from == IF Has(T, 0, ThinkEnd) THEN FirstAt(T, 0, ThinkEnd) + 3 ELSE Len(T)
           start == IF req.think THEN from ELSE 0
           limit == IF Has(T, start, ToolsStart)
                    THEN TrimWs(T, start, FirstAt(T, start, ToolsStart))
                    ELSE Len(T)
<1>1. Len(T) \in Nat /\ Len(ThinkEnd) = 3 /\ Len(ToolsStart) = 2
  BY TagsAreTexts DEF ReplyTexts
<1>2. from \in Nat /\ from <= Len(T)
  <2>1. CASE Has(T, 0, ThinkEnd)
    <3> DEFINE F == FirstAt(T, 0, ThinkEnd)
    <3>1. F \in 0..Len(T) /\ Full(T, F, ThinkEnd)
      BY <2>1, FirstIs
    <3>2. from = F + 3
      BY <2>1
    <3> HIDE DEF F, from
    <3> QED BY <1>1, <3>1, <3>2 DEF Full
  <2> QED BY <1>1, <2>1
<1>3. start \in Nat /\ start <= Len(T)
  BY <1>1, <1>2
<1> HIDE DEF start
<1>4. limit \in Nat /\ start <= limit /\ limit <= Len(T)
  <2>1. CASE Has(T, start, ToolsStart)
    <3> DEFINE F == FirstAt(T, start, ToolsStart)
               m == TrimWs(T, start, F)
    <3>1. F \in start..Len(T)
      BY <1>3, <2>1, FirstIs
    <3>2. limit = m
      BY <2>1
    <3> HIDE DEF F
    <3>3. F \in Nat /\ F <= Len(T)
      BY <1>1, <1>3, <3>1
    <3>4. m \in Nat /\ m >= start /\ (m = start \/ (m <= F /\ T[m] # "w"))
      BY <1>3, <3>3, TrimIs
    <3> HIDE DEF m, limit
    <3> QED BY <1>1, <1>3, <3>2, <3>3, <3>4
  <2>2. CASE ~Has(T, start, ToolsStart)
    BY <1>1, <1>3, <2>2
  <2> QED BY <2>1, <2>2
<1> HIDE DEF limit
<1>5. IsPrefix(Between(T, start, start), Between(T, start, limit))
  BY <1>3, <1>4, BetweenIsPrefix
<1>6. IsPrefix(<<>>, Between(T, start, limit))
  BY <1>3, <1>5, NothingBetween
<1> QED BY <1>6 DEF StopsAtMarkup, limit, start

(* What was shown stays right when the text grows. *)
LEMMA ProjectedGrows ==
  ASSUME NEW T \in ReplyTexts, NEW U \in ReplyTexts, Grows(T, U), NEW b \in Nat,
         NEW l \in Nat, NEW c,
         Projected(T, b, l, c, FALSE)
  PROVE  Projected(U, b, l, c, FALSE)
<1>1. /\ Len(T) \in Nat /\ Len(U) \in Nat /\ Len(T) <= Len(U)
      /\ ThinkEnd \in ReplyTexts /\ ToolsStart \in ReplyTexts
  BY TagsAreTexts DEF ReplyTexts, Grows
<1>2. /\ b <= l /\ l <= Len(T) /\ Base(T, b) /\ Clear(T, b, l, ToolsStart)
      /\ l = b \/ T[l] # "w"
      /\ c = Between(T, b, l)
  BY DEF Projected, Stop
<1>3. b <= l /\ l <= Len(U)
  BY <1>1, <1>2
<1>4. Base(U, b)
  <2>1. CASE ~req.think
    BY <1>2, <2>1 DEF Base
  <2>2. CASE req.think
    <3>1. b >= 3 /\ b - 3 \in Nat /\ Full(T, b - 3, ThinkEnd) /\ Clear(T, 0, b - 3, ThinkEnd)
      BY <1>2, <2>2 DEF Base
    <3>2. Full(U, b - 3, ThinkEnd)
      BY <1>1, <3>1, FullGrows
    <3>3. Clear(U, 0, b - 3, ThinkEnd)
      BY <1>1, <3>1, ClearGrows
    <3> QED BY <2>2, <3>1, <3>2, <3>3 DEF Base
  <2> QED BY <2>1, <2>2
<1>5. Clear(U, b, l, ToolsStart)
  BY <1>1, <1>2, ClearGrows
<1>6. l = b \/ U[l] # "w"
  <2>1. CASE l # b
    <3>1. l \in 1..Len(T)
      BY <1>1, <1>2, <2>1
    <3>2. U[l] = T[l]
      BY <3>1 DEF Grows
    <3> QED BY <1>2, <2>1, <3>2
  <2> QED BY <2>1
<1>7. c = Between(U, b, l)
  BY <1>2, BetweenGrows
<1> QED BY <1>3, <1>4, <1>5, <1>6, <1>7 DEF Projected, Stop

(* The stream keeps its shape when the text grows.                         *)
LEMMA ShapeGrows ==
  ASSUME NEW n \in Nat, NEW m \in Nat, n <= m, NEW o, OutShape(o, n)
  PROVE  OutShape(o, m)
<1>1. \A x \in 0..n : x \in 0..m
  OBVIOUS
<1>2. \A t \in ToolType(n) : t \in ToolType(m)
  <2> SUFFICES ASSUME NEW t \in ToolType(n) PROVE t \in ToolType(m)
    OBVIOUS
  <2>1. t.pos \in 0..m
    BY <1>1 DEF ToolType
  <2> QED BY <2>1 DEF ToolType
<1>3. \A l \in LiveType(n) : l \in LiveType(m)
  <2> HIDE DEF ToolType
  <2> QED BY <1>1, <1>2 DEF LiveType
<1> QED BY <1>3 DEF OutShape

(* And goes on following it: what comes behind cannot undo what was shown. *)
LEMMA FollowedGrows ==
  ASSUME NEW T \in ReplyTexts, NEW U \in ReplyTexts, Grows(T, U), NEW o, Followed(T, o, FALSE)
  PROVE  Followed(U, o, FALSE)
<1>1. /\ Len(T) \in Nat /\ Len(U) \in Nat /\ Len(T) <= Len(U) /\ ThinkEnd \in ReplyTexts
  BY TagsAreTexts DEF ReplyTexts, Grows
<1>2. OutShape(o, Len(U)) /\ Running(o.live.tool)
  BY <1>1, ShapeGrows DEF Followed
<1> SUFFICES ASSUME req.tools PROVE Shows(U, o, FALSE)
  BY <1>2 DEF Followed
<1>3. Shows(T, o, FALSE) /\ o.live.emit \in Nat
  <2>1. o.live \in LiveType(Len(T))
    BY DEF Followed, OutShape
  <2>2. o.live.emit \in 0..Len(T)
    BY <2>1 DEF LiveType
  <2>3. o.live.emit \in Nat
    BY <1>1, <2>2
  <2> QED BY <2>3, Zenon DEF Followed
<1>4. Clear(T, 0, o.live.emit, ThinkEnd) => Clear(U, 0, o.live.emit, ThinkEnd)
  BY <1>1, <1>3, ClearGrows
<1>5. \A b, l \in Nat : Projected(T, b, l, o.wire.said.content, FALSE)
                          => Projected(U, b, l, o.wire.said.content, FALSE)
  BY ProjectedGrows
<1>6. o.live.mode = "text" =>
        \E b \in Nat : Projected(U, b, o.live.emit, o.wire.said.content, FALSE)
  BY <1>3, <1>5 DEF Shows
<1>7. o.live.mode \in {"tool", "suppress"} =>
        o.wire.said.content = <<>> \/ \E b, k \in Nat : Projected(U, b, k, o.wire.said.content, FALSE)
  BY <1>3, <1>5 DEF Shows
<1> QED BY <1>3, <1>4, <1>6, <1>7 DEF Shows

(* What may be shown of a text that grows may be shown of one that is complete. *)
LEMMA ProjectedAtEnd ==
  ASSUME NEW T, NEW b, NEW l, NEW c, NEW final \in BOOLEAN, Projected(T, b, l, c, FALSE)
  PROVE  Projected(T, b, l, c, final)
BY DEF Projected, Stop

(***************************************************************************)
(* The projection of thinking: nothing of it is content, and it is left    *)
(* behind the first closing tag.                                           *)
(***************************************************************************)
LEMMA ThinkingKeeps ==
  ASSUME NEW T \in ReplyTexts, NEW o, Followed(T, o, FALSE), NEW final \in BOOLEAN
  PROVE  LET d == StreamThinking(o, T, final)
         IN Followed(T, d, FALSE) /\ (final => d.live.mode # "thinking")
<1> DEFINE n == Len(T)
           open == IF ~o.live.checked /\ Full(T, 0, ThinkStart) THEN 2 ELSE o.live.emit
           started == Started(o, open, TRUE)
           close == Has(T, open, ThinkEnd)
           tool == req.tools /\ Has(T, open, ToolsStart)
           F == FirstAt(T, open, ThinkEnd)
           G == FirstAt(T, open, ToolsStart)
           limit == IF close THEN F
                    ELSE IF tool THEN G
                    ELSE IF final THEN Len(T)
                    ELSE IF req.tools THEN SafeLimit(T, open, TRUE, FALSE, MarkerHold)
                    ELSE IF Len(T) > Len(ThinkEnd) - 1 THEN Len(T) - (Len(ThinkEnd) - 1) ELSE open
           said == EmitUpTo(started, T, "reasoning", limit)
           waits == ~o.live.checked /\ Partial(T, 0, ThinkStart) /\ ~final
           d == StreamThinking(o, T, final)
<1>0. d = IF o.live.mode # "thinking" THEN o
          ELSE IF waits THEN o
          ELSE IF close THEN Passed(said, F + 3, "text")
          ELSE IF tool THEN EnterTool(said, G)
          ELSE IF final THEN Turned(said, "suppress")
          ELSE said
  BY DEF StreamThinking, Started, Passed, Turned
<1>1. /\ n \in Nat /\ Len(ThinkEnd) = 3 /\ Len(ThinkStart) = 2 /\ Len(ToolsStart) = 2
      /\ ThinkEnd \in ReplyTexts /\ ToolsStart \in ReplyTexts
  BY TagsAreTexts DEF ReplyTexts
<1> HIDE DEF d, waits
<1>2. CASE o.live.mode # "thinking" \/ waits
  <2>1. d = o
    BY <1>0, <1>2
  <2>2. final => o.live.mode # "thinking"
    BY <1>2 DEF waits
  <2> QED BY <2>1, <2>2 DEF d
<1>3. CASE o.live.mode = "thinking" /\ ~waits
  <2>1. OutShape(o, n) /\ Running(o.live.tool) /\ (req.tools => Shows(T, o, FALSE))
    BY DEF Followed
  <2>2. /\ o.live.emit \in 0..n /\ o.live.checked \in BOOLEAN
        /\ o.live.mode \in {"thinking", "text", "tool", "suppress"}
        /\ o.live.tool \in ToolType(n)
    <3> HIDE DEF ToolType
    <3>1. o.live \in LiveType(n)
      BY <2>1 DEF OutShape
    <3> QED BY <3>1 DEF LiveType
  <2>3. open \in Nat /\ open <= n
    <3>1. Full(T, 0, ThinkStart) => 2 <= n
      BY <1>1 DEF Full
    <3> QED BY <1>1, <2>2, <3>1
  <2>4. req.tools => /\ req.think /\ o.wire.said.content = <<>> /\ Clear(T, 0, open, ThinkEnd)
    <3> SUFFICES ASSUME req.tools
                 PROVE  /\ req.think /\ o.wire.said.content = <<>> /\ Clear(T, 0, open, ThinkEnd)
      OBVIOUS
    <3>1. req.think /\ o.wire.said.content = <<>> /\ Clear(T, 0, o.live.emit, ThinkEnd)
      BY <1>3, <2>1 DEF Shows
    <3>2. ASSUME Full(T, 0, ThinkStart) PROVE Clear(T, 0, 2, ThinkEnd)
      <4>1. 0 + 2 <= Len(T) /\ T[0 + 1] = "<" /\ T[0 + 2] = "think>"
        <5>1. "think>" \in Symbols
          BY DEF Symbols
        <5> QED BY <3>2, <5>1, OpenIs DEF ThinkStart
      <4>2. T[1] = "<" /\ T[2] = "think>" /\ 0 + 2 = 2 /\ 1 + 1 = 2
        BY <4>1
      <4>3. Differs(T, 0, ThinkEnd)
        <5>1. 2 \in 1..Len(ThinkEnd) /\ ThinkEnd[2] = "/"
          BY DEF ThinkEnd
        <5> QED BY <4>1, <5>1 DEF Differs
      <4>4. Differs(T, 1, ThinkEnd)
        <5>1. 1 + 1 <= Len(T) /\ T[1 + 1] # "<"
          BY <4>1
        <5> QED BY <5>1, MarkersDiffer
      <4> QED BY <4>3, <4>4 DEF Clear
    <3> QED BY <3>1, <3>2
  <2> HIDE DEF open
  <2>5. /\ OutShape(started, n) /\ started.wire = o.wire
        /\ started.live.mode = "thinking" /\ started.live.emit = open
        /\ started.live.checked \in BOOLEAN /\ started.live.checked
        /\ started.live.tool = o.live.tool
    <3>1. open \in 0..n
      BY <1>1, <2>3
    <3>2. /\ OutShape(started, n) /\ started.wire = o.wire
          /\ started.live.mode = o.live.mode /\ started.live.emit = open
          /\ started.live.tool = o.live.tool
          /\ started.live.checked \in BOOLEAN /\ started.live.checked
      BY <1>1, <2>1, <3>1, StartedIs, Zenon
    <3> QED BY <1>3, <3>2
  <2> HIDE DEF started
  <2>6. close => /\ F \in open..n /\ F \in Nat /\ F + 3 <= n /\ Full(T, F, ThinkEnd)
                 /\ Clear(T, open, F, ThinkEnd)
    <3> SUFFICES ASSUME close
                 PROVE  /\ F \in open..n /\ F \in Nat /\ F + 3 <= n /\ Full(T, F, ThinkEnd)
                        /\ Clear(T, open, F, ThinkEnd)
      OBVIOUS
    <3>1. F \in open..n /\ Full(T, F, ThinkEnd)
      BY <2>3, FirstIs
    <3>2. Clear(T, open, F, ThinkEnd)
      BY <1>1, <2>3, ClearBefore
    <3> HIDE DEF F
    <3> QED BY <1>1, <2>3, <3>1, <3>2 DEF Full
  <2>7. tool => G \in open..n /\ G \in Nat /\ G + 2 <= n
    <3> SUFFICES ASSUME tool PROVE G \in open..n /\ G \in Nat /\ G + 2 <= n
      OBVIOUS
    <3>1. G \in open..n /\ Full(T, G, ToolsStart)
      BY <2>3, FirstIs
    <3> HIDE DEF G
    <3> QED BY <1>1, <2>3, <3>1 DEF Full
  <2>8. ~close /\ ~tool /\ ~final /\ req.tools =>
          LET L == SafeLimit(T, open, TRUE, FALSE, MarkerHold)
          IN Clear(T, open, L, ThinkEnd)
    BY <2>3, HoldsBack
  <2> HIDE DEF F, G, close, tool
  <2>9. limit \in 0..n
    <3> DEFINE L == SafeLimit(T, open, TRUE, FALSE, MarkerHold)
    <3>1. L \in Nat /\ open <= L /\ L <= n
      BY <2>3, SafeIs, MarkersAreHeld
    <3> HIDE DEF L
    <3>2. limit = IF close THEN F ELSE IF tool THEN G ELSE IF final THEN n
                  ELSE IF req.tools THEN L ELSE IF n > 2 THEN n - 2 ELSE open
      BY <1>1 DEF L
    <3> HIDE DEF limit
    <3> QED BY <1>1, <2>3, <2>6, <2>7, <3>1, <3>2
  <2> HIDE DEF limit
  <2>10. /\ OutShape(said, n) /\ said.live.mode = "thinking"
         /\ said.live.checked \in BOOLEAN /\ said.live.checked /\ said.live.tool = o.live.tool
         /\ said.live.emit = IF limit > open THEN limit ELSE open
         /\ said.wire.said.content = o.wire.said.content
    <3>1. EmitsTo(said, started, n, T, "reasoning", limit)
      BY <1>1, <2>5, <2>9, EmitIs
    <3> HIDE DEF said
    <3> QED BY <2>5, <3>1 DEF EmitsTo
  <2> HIDE DEF said
  <2>11. /\ said.live.emit \in 0..n /\ said.live.tool \in ToolType(n) /\ Running(said.live.tool)
    BY <1>1, <2>1, <2>2, <2>3, <2>9, <2>10
  <2>12. CASE close
    <3>1. d = Passed(said, F + 3, "text")
      BY <1>0, <1>3, <2>12
    <3>2. F + 3 \in 0..n
      BY <1>1, <2>6, <2>12
    <3>3. /\ OutShape(d, n) /\ d.wire = said.wire /\ d.live.mode = "text" /\ d.live.emit = F + 3
          /\ d.live.tool = said.live.tool
      <4>1. StandsAt(d, said, n, "text", F + 3, said.live.checked, said.live.tool)
        BY <1>1, <2>10, <3>1, <3>2, PassedIs
      <4> QED BY <4>1 DEF StandsAt
    <3>4. ASSUME req.tools PROVE Projected(T, F + 3, F + 3, d.wire.said.content, FALSE)
      <4>1. req.think /\ d.wire.said.content = <<>> /\ Clear(T, 0, open, ThinkEnd)
        BY <2>4, <2>10, <3>3, <3>4
      <4>2. Clear(T, 0, F, ThinkEnd)
        BY <2>3, <2>6, <2>12, <4>1, ClearJoins
      <4>3. F + 3 \in Nat /\ (F + 3) - 3 = F /\ F + 3 <= n /\ F + 3 >= 3
        BY <1>1, <2>6, <2>12
      <4>4. Base(T, F + 3)
        BY <2>6, <2>12, <4>1, <4>2, <4>3 DEF Base
      <4>5. Between(T, F + 3, F + 3) = <<>>
        BY <4>3, NothingBetween
      <4>6. Clear(T, F + 3, F + 3, ToolsStart)
        BY <4>3 DEF Clear
      <4> QED BY <4>1, <4>3, <4>4, <4>5, <4>6 DEF Projected, Stop
    <3>5. F + 3 \in Nat
      BY <3>2
    <3>6. Followed(T, d, FALSE)
      BY <2>11, <3>3, <3>4, <3>5 DEF Followed, Shows
    <3> QED BY <3>3, <3>6 DEF d
  <2>13. CASE ~close /\ tool
    <3>1. d = EnterTool(said, G)
      BY <1>0, <1>3, <2>13
    <3>2. G \in 0..n /\ G + 2 <= n
      BY <1>1, <2>7, <2>13
    <3>3. /\ OutShape(d, n) /\ Running(d.live.tool) /\ d.wire = said.wire
          /\ d.live.mode \in {"tool", "suppress"}
      BY <1>1, <2>10, <2>11, <3>1, <3>2, EnterIs
    <3>4. req.tools => d.wire.said.content = <<>>
      BY <2>4, <2>10, <3>3
    <3>5. Followed(T, d, FALSE)
      BY <3>3, <3>4 DEF Followed, Shows
    <3> QED BY <3>3, <3>5 DEF d
  <2>14. CASE ~close /\ ~tool /\ final
    <3>1. d = Turned(said, "suppress")
      BY <1>0, <1>3, <2>14
    <3>3. /\ OutShape(d, n) /\ d.wire = said.wire /\ d.live.mode = "suppress"
          /\ d.live.tool = said.live.tool
      <4>1. StandsAt(d, said, n, "suppress", said.live.emit, said.live.checked, said.live.tool)
        BY <1>1, <2>10, <2>11, <3>1, PassedIs
      <4> QED BY <4>1 DEF StandsAt
    <3>4. req.tools => d.wire.said.content = <<>>
      BY <2>4, <2>10, <3>3
    <3>5. Followed(T, d, FALSE)
      BY <2>11, <3>3, <3>4 DEF Followed, Shows
    <3> QED BY <3>3, <3>5 DEF d
  <2>15. CASE ~close /\ ~tool /\ ~final
    <3>1. d = said
      BY <1>0, <1>3, <2>15
    <3>2. ASSUME req.tools PROVE Shows(T, d, FALSE)
      <4>1. req.think /\ d.wire.said.content = <<>> /\ Clear(T, 0, open, ThinkEnd)
        BY <2>4, <2>10, <3>1, <3>2
      <4>2. Clear(T, open, limit, ThinkEnd)
        BY <2>8, <2>15, <3>2 DEF limit
      <4>3. limit \in Nat
        BY <2>9
      <4>4. Clear(T, 0, limit, ThinkEnd)
        BY <2>3, <4>1, <4>2, <4>3, ClearJoins
      <4>5. Clear(T, 0, d.live.emit, ThinkEnd)
        BY <2>10, <3>1, <4>1, <4>4
      <4> QED BY <2>10, <3>1, <4>1, <4>5 DEF Shows
    <3>3. Followed(T, d, FALSE)
      BY <2>10, <2>11, <3>1, <3>2 DEF Followed
    <3> QED BY <2>15, <3>3 DEF d
  <2> QED BY <2>12, <2>13, <2>14, <2>15
<1> QED BY <1>2, <1>3

(***************************************************************************)
(* The projection of text: it goes on where it stopped, and short of the   *)
(* first block.                                                            *)
(***************************************************************************)
LEMMA MoreProjected ==
  ASSUME NEW T \in ReplyTexts, NEW b \in Nat, NEW k \in Nat, NEW l \in Nat, NEW c,
         NEW final \in BOOLEAN,
         Projected(T, b, k, c, FALSE), k <= l, l <= Len(T), Stop(T, k, l, final)
  PROVE  Projected(T, b, l, c \o Between(T, k, l), final)
<1>1. /\ b <= k /\ k <= Len(T) /\ Base(T, b) /\ Clear(T, b, k, ToolsStart)
      /\ k = b \/ T[k] # "w"
      /\ c = Between(T, b, k)
  BY DEF Projected, Stop
<1>2. Len(T) \in Nat /\ ToolsStart \in ReplyTexts
  BY TagsAreTexts DEF ReplyTexts
<1>3. ASSUME Clear(T, k, l, ToolsStart), l = k \/ T[l] # "w"
      PROVE  Stop(T, b, l, final)
  <2>1. Clear(T, b, l, ToolsStart)
    BY <1>1, <1>3, ClearJoins
  <2>2. l = b \/ T[l] # "w"
    BY <1>1, <1>3
  <2> QED BY <2>1, <2>2 DEF Stop
<1>4. ASSUME final, l = Len(T), ~Has(T, k, ToolsStart)
      PROVE  Stop(T, b, l, final)
  <2> SUFFICES ASSUME NEW p \in b..Len(T) PROVE ~Full(T, p, ToolsStart)
    BY <1>4 DEF Stop, Has
  <2>1. p \in Nat
    OBVIOUS
  <2>2. CASE p < k
    <3>1. p \in b..(k - 1)
      BY <2>1, <2>2
    <3>2. Differs(T, p, ToolsStart)
      BY <1>1, <3>1 DEF Clear
    <3> QED BY <1>2, <2>1, <3>2, DiffersIsNot
  <2>3. CASE ~(p < k)
    <3>1. p \in k..Len(T)
      BY <1>2, <2>1, <2>3
    <3> QED BY <1>4, <3>1 DEF Has
  <2> QED BY <2>2, <2>3
<1>5. Stop(T, b, l, final)
  BY <1>3, <1>4 DEF Stop
<1>6. c \o Between(T, k, l) = Between(T, b, l)
  BY <1>1, BetweenJoins
<1>7. b <= l
  BY <1>1, <1>2
<1> QED BY <1>1, <1>5, <1>6, <1>7 DEF Projected

(* One step of the projection, with the limit it takes. *)
LEMMA EmitProjects ==
  ASSUME NEW T \in ReplyTexts, NEW o, Followed(T, o, FALSE), o.live.mode = "text", req.tools,
         NEW l \in Nat, o.live.emit <= l, l <= Len(T),
         NEW final \in BOOLEAN, Stop(T, o.live.emit, l, final)
  PROVE  LET d == EmitUpTo(o, T, "content", l)
         IN d.live.emit = l /\ \E b \in Nat : Projected(T, b, l, d.wire.said.content, final)
<1> DEFINE n == Len(T)
           d == EmitUpTo(o, T, "content", l)
           k == o.live.emit
           c == o.wire.said.content
<1>1. n \in Nat /\ OutShape(o, n)
  BY DEF ReplyTexts, Followed
<1>2. k \in Nat
  <2>1. o.live \in LiveType(n)
    BY <1>1 DEF OutShape
  <2>2. k \in 0..n
    BY <2>1 DEF LiveType
  <2> QED BY <1>1, <2>2
<1>3. PICK b \in Nat : Projected(T, b, k, c, FALSE)
  BY DEF Followed, Shows
<1>4. EmitsTo(d, o, n, T, "content", l)
  <2>1. l \in 0..n
    BY <1>1
  <2> HIDE DEF d
  <2> QED BY <1>1, <2>1, EmitIs DEF d
<1> HIDE DEF d
<1>5. d.live.emit = l
  BY <1>2, <1>4 DEF EmitsTo
<1>6. Projected(T, b, l, c \o Between(T, k, l), final)
  BY <1>1, <1>2, <1>3, MoreProjected
<1>7. d.wire.said.content = IF l > k THEN c \o Between(T, k, l) ELSE c
  BY <1>4 DEF EmitsTo
<1>8. CASE l > k
  BY <1>5, <1>6, <1>7, <1>8 DEF d
<1>9. CASE l = k
  <2>1. d.wire.said.content = c
    BY <1>2, <1>7, <1>9
  <2>2. Projected(T, b, l, c, final)
    BY <1>3, <1>9, ProjectedAtEnd
  <2> QED BY <1>5, <2>1, <2>2 DEF d
<1> QED BY <1>2, <1>8, <1>9

(* The projection of text: content up to the safe limit, then the block.   *)
LEMMA TextKeeps ==
  ASSUME NEW T \in ReplyTexts, NEW o, Followed(T, o, FALSE), NEW final \in BOOLEAN
  PROVE  LET d == StreamText(o, T, final)
         IN /\ Followed(T, d, final)
            /\ final /\ o.live.mode # "thinking" => d.live.mode \in {"tool", "suppress"}
            /\ ~final => Followed(T, d, FALSE)
<1> DEFINE n == Len(T)
           emit == o.live.emit
           limit == SafeLimit(T, emit, req.tools, final, MarkerHold)
           said == EmitUpTo(o, T, "content", limit)
           G == FirstAt(T, emit, ToolsStart)
           block == req.tools /\ Has(T, emit, ToolsStart)
           d == StreamText(o, T, final)
<1>0. d = IF o.live.mode # "text" THEN o
          ELSE IF block THEN EnterTool(said, G)
          ELSE IF final THEN Turned(said, "suppress")
          ELSE said
  BY DEF StreamText, Turned
<1>1. /\ n \in Nat /\ Len(ToolsStart) = 2 /\ ToolsStart \in ReplyTexts
      /\ OutShape(o, n) /\ Running(o.live.tool)
  BY TagsAreTexts DEF ReplyTexts, Followed
<1>2. /\ emit \in Nat /\ emit <= n /\ o.live.tool \in ToolType(n)
      /\ o.live.mode \in {"thinking", "text", "tool", "suppress"}
  <2>1. o.live \in LiveType(n)
    BY <1>1 DEF OutShape
  <2>2. emit \in 0..n /\ o.live.tool \in ToolType(n)
        /\ o.live.mode \in {"thinking", "text", "tool", "suppress"}
    <3> HIDE DEF ToolType
    <3> QED BY <2>1 DEF LiveType
  <2> QED BY <1>1, <2>2
<1>3. limit \in Nat /\ emit <= limit /\ limit <= n
  BY <1>2, SafeIs, MarkersAreHeld
<1>4. EmitsTo(said, o, n, T, "content", limit)
  <2>1. limit \in 0..n
    BY <1>1, <1>3
  <2> HIDE DEF limit
  <2> QED BY <1>1, <2>1, EmitIs
<1> HIDE DEF d
<1>5. CASE o.live.mode # "text"
  <2>1. d = o
    BY <1>0, <1>5
  <2>2. Followed(T, o, final)
    <3>1. req.tools => Shows(T, o, FALSE)
      BY DEF Followed
    <3>2. \A b, k : Projected(T, b, k, o.wire.said.content, FALSE)
                      => Projected(T, b, k, o.wire.said.content, final)
      BY ProjectedAtEnd
    <3>3. Shows(T, o, FALSE) => Shows(T, o, final)
      BY <3>2 DEF Shows
    <3> QED BY <1>1, <3>1, <3>3 DEF Followed
  <2>3. o.live.mode # "thinking" => o.live.mode \in {"tool", "suppress"}
    BY <1>2, <1>5
  <2> QED BY <2>1, <2>2, <2>3 DEF d
<1>6. CASE o.live.mode = "text"
  <2>1. OutShape(said, n) /\ said.live.tool = o.live.tool /\ said.live.mode = "text"
    BY <1>4, <1>6 DEF EmitsTo
  <2>2. ASSUME block
        PROVE  /\ G \in 0..n /\ G + 2 <= n
               /\ \E b, k \in Nat : Projected(T, b, k, said.wire.said.content, FALSE)
    <3>1. G \in emit..n /\ Full(T, G, ToolsStart)
      BY <1>2, <2>2, FirstIs
    <3>2. Clear(T, emit, G, ToolsStart)
      BY <1>1, <1>2, <2>2, ClearBefore
    <3>3. limit = TrimWs(T, emit, G)
      <4>1. ~(n <= emit)
        <5> HIDE DEF G
        <5> QED BY <1>1, <1>2, <3>1 DEF Full
      <4> QED BY <2>2, <4>1 DEF SafeLimit
    <3> HIDE DEF G, said
    <3>4. G \in Nat /\ G + 2 <= n /\ G <= n /\ emit <= G
      BY <1>1, <1>2, <3>1 DEF Full
    <3> HIDE DEF limit
    <3>5. limit = emit \/ (limit <= G /\ T[limit] # "w")
      BY <1>2, <3>3, <3>4, TrimIs
    <3>6. limit <= G
      BY <1>3, <3>4, <3>5
    <3>7. Clear(T, emit, limit, ToolsStart)
      BY <1>2, <1>3, <3>2, <3>4, <3>6 DEF Clear
    <3>8. Stop(T, emit, limit, FALSE)
      BY <3>5, <3>7 DEF Stop
    <3>9. \E b \in Nat : Projected(T, b, limit, said.wire.said.content, FALSE)
      BY <1>1, <1>2, <1>3, <1>6, <2>2, <3>8, EmitProjects DEF said
    <3>10. G \in 0..n /\ G + 2 <= n
      BY <1>1, <3>4
    <3>11. \E b, k \in Nat : Projected(T, b, k, said.wire.said.content, FALSE)
      BY <1>3, <3>9, Zenon
    <3> QED BY <3>10, <3>11, Zenon
  <2>3. ASSUME ~block, req.tools, final
        PROVE  \E b \in Nat : Projected(T, b, n, said.wire.said.content, final)
    <3>1. limit = n
      BY <1>1, <2>3 DEF SafeLimit
    <3>2. Stop(T, emit, limit, final)
      BY <2>3, <3>1 DEF Stop
    <3>3. \E b \in Nat : Projected(T, b, limit, said.wire.said.content, final)
      BY <1>3, <1>6, <2>3, <3>2, EmitProjects
    <3> QED BY <3>1, <3>3
  <2>4. ASSUME ~block, req.tools, ~final
        PROVE  /\ said.live.emit = limit
               /\ \E b \in Nat : Projected(T, b, limit, said.wire.said.content, FALSE)
    <3>1. limit = SafeLimit(T, emit, TRUE, FALSE, MarkerHold)
      BY <2>4 DEF SafeLimit
    <3>2. Clear(T, emit, limit, ToolsStart) /\ (limit = emit \/ T[limit] # "w")
      BY <1>2, <2>4, <3>1, HoldsBack
    <3>3. Stop(T, emit, limit, FALSE)
      BY <3>2 DEF Stop
    <3> HIDE DEF limit
    <3> QED BY <1>3, <1>6, <2>4, <3>3, EmitProjects
  <2> HIDE DEF said, limit, G, block
  <2>5. CASE block
    <3>1. d = EnterTool(said, G)
      BY <1>0, <1>6, <2>5
    <3>2. /\ OutShape(d, n) /\ Running(d.live.tool) /\ d.wire = said.wire
          /\ d.live.mode \in {"tool", "suppress"}
      BY <1>1, <2>1, <2>2, <2>5, <3>1, EnterIs
    <3>3. req.tools => \E b, k \in Nat : Projected(T, b, k, d.wire.said.content, FALSE)
      BY <2>2, <2>5, <3>2
    <3>4. req.tools => \E b, k \in Nat : Projected(T, b, k, d.wire.said.content, final)
      BY <3>3, ProjectedAtEnd
    <3>5. Followed(T, d, final) /\ Followed(T, d, FALSE)
      BY <3>2, <3>3, <3>4 DEF Followed, Shows
    <3> QED BY <3>2, <3>5 DEF d
  <2>6. CASE ~block /\ final
    <3>1. d = Turned(said, "suppress")
      BY <1>0, <1>6, <2>6
    <3>2. /\ OutShape(d, n) /\ d.wire = said.wire /\ d.live.mode = "suppress"
          /\ d.live.tool = o.live.tool
      <4>1. StandsAt(d, said, n, "suppress", said.live.emit, said.live.checked, said.live.tool)
        BY <1>1, <2>1, <3>1, PassedIs
      <4> QED BY <2>1, <4>1 DEF StandsAt
    <3>3. req.tools => \E b, k \in Nat : Projected(T, b, k, d.wire.said.content, final)
      BY <1>1, <2>3, <2>6, <3>2
    <3>4. Followed(T, d, final)
      BY <1>1, <3>2, <3>3 DEF Followed, Shows
    <3> QED BY <2>6, <3>2, <3>4 DEF d
  <2>7. CASE ~block /\ ~final
    <3>1. d = said
      BY <1>0, <1>6, <2>7
    <3>2. req.tools => Shows(T, d, FALSE) /\ Shows(T, d, final)
      BY <2>1, <2>4, <2>7, <3>1 DEF Shows
    <3>3. Followed(T, d, final) /\ Followed(T, d, FALSE)
      BY <1>1, <2>1, <3>1, <3>2 DEF Followed
    <3> QED BY <2>7, <3>3 DEF d
  <2> QED BY <2>5, <2>6, <2>7
<1> QED BY <1>5, <1>6

(* openai_sse_stream_update. *)
LEMMA ToolKeeps ==
  ASSUME NEW T \in ReplyTexts, NEW o, NEW final \in BOOLEAN, Followed(T, o, final)
  PROVE  LET d == ToolUpdate(o, T)
         IN /\ Followed(T, d, final)
            /\ o.live.mode \in {"tool", "suppress"} => d.live.mode \in {"tool", "suppress"}
<1> DEFINE n == Len(T)
           d == ToolUpdate(o, T)
<1>1. n \in Nat /\ n = Len(T) /\ OutShape(o, n) /\ Running(o.live.tool)
  BY DEF ReplyTexts, Followed
<1>2. /\ OutShape(d, n) /\ Running(d.live.tool) /\ d.wire.said = o.wire.said
      /\ o.live.mode # "tool" => d = o
      /\ o.live.mode = "tool" => d.live.mode \in {"tool", "suppress"}
  BY <1>1, ToolUpdateKeeps
<1> HIDE DEF d
<1>3. CASE o.live.mode # "tool"
  BY <1>2, <1>3 DEF d
<1>4. CASE o.live.mode = "tool"
  <2>1. req.tools => Shows(T, o, final)
    BY DEF Followed
  <2>2. req.tools => Shows(T, d, final)
    BY <1>2, <1>4, <2>1 DEF Shows
  <2>3. Followed(T, d, final)
    BY <1>2, <2>2 DEF Followed
  <2> QED BY <1>2, <1>4, <2>3 DEF d
<1> QED BY <1>3, <1>4

(* openai_sse_stream_update as a whole, for a token and for the last time. *)
LEMMA StreamedKeeps ==
  ASSUME NEW T \in ReplyTexts, NEW o, Followed(T, o, FALSE), NEW final \in BOOLEAN
  PROVE  LET d == Streamed(o, T, final)
         IN /\ Followed(T, d, final)
            /\ final /\ req.stream => d.live.mode \in {"tool", "suppress"}
            /\ ~final => Followed(T, d, FALSE)
<1> DEFINE a == StreamThinking(o, T, final)
           b == StreamText(a, T, final)
           c == ToolUpdate(b, T)
           d == Streamed(o, T, final)
<1>0. d = IF ~req.stream THEN o ELSE c
  BY DEF Streamed
<1>1. Followed(T, a, FALSE) /\ (final => a.live.mode # "thinking")
  BY ThinkingKeeps
<1> HIDE DEF a
<1>2. /\ Followed(T, b, final) /\ (~final => Followed(T, b, FALSE))
      /\ final /\ a.live.mode # "thinking" => b.live.mode \in {"tool", "suppress"}
  BY <1>1, TextKeeps
<1> HIDE DEF b
<1>3. /\ Followed(T, c, final)
      /\ b.live.mode \in {"tool", "suppress"} => c.live.mode \in {"tool", "suppress"}
  BY <1>2, ToolKeeps
<1>4. ~final => Followed(T, c, FALSE)
  BY <1>2, ToolKeeps
<1> HIDE DEF c, d
<1>5. CASE req.stream
  BY <1>0, <1>1, <1>2, <1>3, <1>4, <1>5 DEF d
<1>6. CASE ~req.stream
  <2>1. d = o
    BY <1>0, <1>6
  <2>2. Followed(T, o, final)
    <3>1. \A x, y : Projected(T, x, y, o.wire.said.content, FALSE)
                      => Projected(T, x, y, o.wire.said.content, final)
      BY ProjectedAtEnd
    <3>2. Shows(T, o, FALSE) => Shows(T, o, final)
      BY <3>1 DEF Shows
    <3> QED BY <3>2 DEF Followed
  <2> QED BY <1>6, <2>1, <2>2 DEF d
<1> QED BY <1>5, <1>6

(* What a stream has shown stops at the markup. *)
LEMMA FollowedStops ==
  ASSUME NEW T \in ReplyTexts, NEW o, NEW final \in BOOLEAN, Followed(T, o, final), req.tools
  PROVE  StopsAtMarkup(T, o.wire.said.content)
<1> DEFINE c == o.wire.said.content
           l == o.live
<1>1. Shows(T, o, final) /\ OutShape(o, Len(T)) /\ Len(T) \in Nat
  BY DEF Followed, ReplyTexts
<1>2. l.mode \in {"thinking", "text", "tool", "suppress"} /\ l.emit \in Nat
  <2>1. l \in LiveType(Len(T))
    BY <1>1 DEF OutShape
  <2>2. l.mode \in {"thinking", "text", "tool", "suppress"} /\ l.emit \in 0..Len(T)
    <3> HIDE DEF ToolType, l
    <3> QED BY <2>1 DEF LiveType
  <2> QED BY <1>1, <2>2
<1>3. CASE c = <<>>
  BY <1>3, NothingStops
<1>4. CASE c # <<>>
  <2>1. \/ \E b \in Nat : Projected(T, b, l.emit, c, FALSE)
        \/ \E b, k \in Nat : Projected(T, b, k, c, final)
    BY <1>1, <1>2, <1>4 DEF Shows
  <2>2. \A b, k \in Nat : Projected(T, b, k, c, FALSE) => StopsAtMarkup(T, c)
    BY ProjectedStops
  <2>3. \A b, k \in Nat : Projected(T, b, k, c, final) => StopsAtMarkup(T, c)
    BY ProjectedStops
  <2> QED BY <1>2, <2>1, <2>2, <2>3
<1> QED BY <1>3, <1>4

(***************************************************************************)
(* The repair only appends: the closing tags that are missing are texts.   *)
(***************************************************************************)
Flattens(g, seqs, m) == [i \in 1..m |-> IF i = 1 THEN seqs[i] ELSE g[i - 1] \o seqs[i]]

(* The function that joins pieces exists.                                  *)
LEMMA FlattensExist ==
  ASSUME NEW seqs, NEW N \in Nat
  PROVE  \E g : g = Flattens(g, seqs, N)
<1> DEFINE Made(g, m) == [i \in 1..m |-> IF i = 1 THEN seqs[i] ELSE g[i - 1] \o seqs[i]]
           S == {m \in Nat : \E g : g = Made(g, m)}
<1>1. 0 \in S
  <2> DEFINE g == [i \in 1..0 |-> 0]
  <2>1. g = Made(g, 0)
    OBVIOUS
  <2> QED BY <2>1
<1>2. ASSUME NEW m \in S PROVE m + 1 \in S
  <2>1. PICK g : g = Made(g, m)
    OBVIOUS
  <2> DEFINE last == IF m = 0 THEN seqs[1] ELSE g[m] \o seqs[m + 1]
             h == [i \in 1..(m + 1) |-> IF i <= m THEN g[i] ELSE last]
  <2>2. m \in Nat /\ m + 1 \in Nat
    OBVIOUS
  <2>3. \A i \in 1..m : g[i] = IF i = 1 THEN seqs[i] ELSE g[i - 1] \o seqs[i]
    BY <2>1, Zenon
  <2>4. ASSUME NEW i \in 1..(m + 1)
        PROVE  h[i] = IF i = 1 THEN seqs[i] ELSE h[i - 1] \o seqs[i]
    <3>1. CASE i <= m
      <4>1. i \in 1..m /\ h[i] = g[i] /\ (i # 1 => i - 1 \in 1..(m + 1) /\ i - 1 <= m)
        BY <2>2, <3>1
      <4>2. i # 1 => h[i - 1] = g[i - 1]
        BY <4>1
      <4> HIDE DEF h
      <4> QED BY <2>3, <4>1, <4>2
    <3>2. CASE ~(i <= m)
      <4>1. i = m + 1 /\ h[i] = last /\ (i = 1 <=> m = 0)
        BY <2>2, <3>2
      <4>2. CASE m = 0
        <5> HIDE DEF h
        <5> QED BY <4>1, <4>2
      <4>3. CASE m # 0
        <5>1. m \in 1..(m + 1) /\ m <= m /\ i - 1 = m
          BY <2>2, <4>1, <4>3
        <5>2. h[m] = g[m]
          BY <5>1
        <5> HIDE DEF h
        <5> QED BY <4>1, <4>3, <5>1, <5>2
      <4> QED BY <4>2, <4>3
    <3> QED BY <3>1, <3>2
  <2>5. h = Made(h, m + 1)
    <3>1. h = [i \in 1..(m + 1) |-> h[i]]
      OBVIOUS
    <3>2. [i \in 1..(m + 1) |-> h[i]] = Made(h, m + 1)
      <4> HIDE DEF h
      <4> QED BY <2>4
    <3> QED BY <3>1, <3>2
  <2> QED BY <2>2, <2>5
<1>3. S = Nat
  <2>1. S \in SUBSET Nat
    OBVIOUS
  <2> HIDE DEF S
  <2> QED BY <1>1, <1>2, <2>1, Upwards
<1>4. N \in S
  BY <1>3
<1>5. PICK g : g = Made(g, N)
  BY <1>4
<1> QED BY <1>5 DEF Flattens

(* ReplyTexts joined are a text.                                                *)
LEMMA FlattenIs ==
  ASSUME NEW seqs \in Seq(ReplyTexts)
  PROVE  FlattenSeq(seqs) \in ReplyTexts
<1> DEFINE N == Len(seqs)
           f == CHOOSE g : g = Flattens(g, seqs, N)
<1>1. N \in Nat /\ \A i \in 1..N : seqs[i] \in ReplyTexts
  OBVIOUS
<1>2. FlattenSeq(seqs) = IF N = 0 THEN seqs ELSE f[N]
  BY DEF FlattenSeq, Flattens
<1>3. f = Flattens(f, seqs, N)
  <2>1. \E g : g = Flattens(g, seqs, N)
    BY <1>1, FlattensExist, Zenon
  <2> QED BY <2>1, Zenon
<1> HIDE DEF f
<1>4. \A i \in 1..N : f[i] = IF i = 1 THEN seqs[i] ELSE f[i - 1] \o seqs[i]
  BY <1>3, Zenon DEF Flattens
<1> DEFINE S == {k \in Nat : k + 1 <= N => f[k + 1] \in ReplyTexts}
<1>5. 0 \in S
  BY <1>1, <1>4
<1>6. ASSUME NEW k \in S PROVE k + 1 \in S
  <2> SUFFICES ASSUME (k + 1) + 1 <= N PROVE f[(k + 1) + 1] \in ReplyTexts
    OBVIOUS
  <2>1. /\ (k + 1) + 1 \in 1..N /\ (k + 1) + 1 # 1 /\ ((k + 1) + 1) - 1 = k + 1
        /\ f[k + 1] \in ReplyTexts
    BY <1>1
  <2>2. f[(k + 1) + 1] = f[k + 1] \o seqs[(k + 1) + 1]
    BY <1>4, <2>1
  <2>3. \A x, y \in ReplyTexts : x \o y \in ReplyTexts
    BY DEF ReplyTexts
  <2> QED BY <1>1, <2>1, <2>2, <2>3
<1>7. S = Nat
  <2>1. S \in SUBSET Nat
    OBVIOUS
  <2> HIDE DEF S
  <2> QED BY <1>5, <1>6, <2>1, Upwards
<1>8. CASE N = 0
  <2>1. seqs = <<>>
    BY <1>8, EmptySeq
  <2> QED BY <1>2, <1>8, <2>1, EmptySeq DEF ReplyTexts
<1>9. CASE N # 0
  <2>1. N - 1 \in Nat /\ (N - 1) + 1 = N /\ (N - 1) + 1 <= N
    BY <1>1, <1>9
  <2>2. N - 1 \in S
    <3> HIDE DEF S
    <3> QED BY <1>7, <2>1
  <2>3. f[(N - 1) + 1] \in ReplyTexts
    BY <2>1, <2>2
  <2> QED BY <1>2, <1>9, <2>1, <2>3
<1> QED BY <1>8, <1>9

(* So is a text several times.                                             *)
LEMMA TimesIs ==
  ASSUME NEW n \in Nat, NEW lit \in ReplyTexts
  PROVE  Times(n, lit) \in ReplyTexts
<1>1. [i \in 1..n |-> lit] \in Seq(ReplyTexts)
  OBVIOUS
<1> QED BY <1>1, FlattenIs DEF Times

(* try_repair_dsml returns a text that begins with the one it was given.   *)
LEMMA RepairedIs ==
  ASSUME NEW T \in ReplyTexts, Repairable(T)
  PROVE  Repaired(T) \in ReplyTexts /\ Grows(T, Repaired(T))
<1> DEFINE m == Missing(T)
           count(i) == m.pairs[i][1] - m.pairs[i][2]
           piece(i) == Times(count(i), m.pairs[i][3])
           added == [i \in 1..3 |-> piece(i)]
<1>1. \A i \in 1..3 : m.pairs[i][2] <= m.pairs[i][1]
  BY DEF Repairable
<1>2. \A from \in Nat : \A S \in SUBSET (from..Len(T)) : Cardinality(S) \in Nat
  <2>1. ASSUME NEW from \in Nat, NEW S \in SUBSET (from..Len(T))
        PROVE  Cardinality(S) \in Nat
    <3>1. IsFiniteSet(from..Len(T))
      BY FS_Interval
    <3>2. IsFiniteSet(S)
      BY <3>1, FS_Subset
    <3> QED BY <3>2, FS_CardinalityType
  <2> QED BY <2>1
<1>3. \A i \in 1..3 : m.pairs[i][1] \in Nat /\ m.pairs[i][2] \in Nat /\ m.pairs[i][3] \in ReplyTexts
  <2> DEFINE from == IF Has(T, 0, ThinkEnd) THEN LastAt(T, 0, ThinkEnd) + 3 ELSE 0
  <2>1. from \in Nat
    BY LastIs, TagsAreTexts DEF Has
  <2> HIDE DEF from
  <2>2. \A lit : Cardinality(Places(T, from, lit)) \in Nat
    BY <1>2, <2>1 DEF Places
  <2>3. Cardinality({p \in from..Len(T) : ParamStartAt(T, p)}) \in Nat
    BY <1>2, <2>1
  <2> QED BY <2>2, <2>3, TagsAreTexts DEF Missing, from
<1> HIDE DEF m
<1>4. \A i \in 1..3 : piece(i) \in ReplyTexts
  <2>1. ASSUME NEW i \in 1..3 PROVE count(i) \in Nat /\ m.pairs[i][3] \in ReplyTexts
    BY <1>1, <1>3
  <2> QED BY <2>1, TimesIs
<1>5. added \in Seq(ReplyTexts)
  <2> HIDE DEF piece
  <2> QED BY <1>4
<1>6. FlattenSeq(added) \in ReplyTexts
  <2> HIDE DEF added
  <2> QED BY <1>5, FlattenIs
<1>7. Repaired(T) = T \o FlattenSeq(added)
  BY DEF Repaired, m
<1> HIDE DEF added
<1> QED BY <1>6, <1>7, JoinGrows

(***************************************************************************)
(* The inductive invariant: while the turn runs the stream follows the     *)
(* text, and when it is over the content stops at the markup.              *)
(***************************************************************************)
Scripted == Seq(Symbols \cup {"hidden"})
Out == [live |-> live, wire |-> wire]

ReplyInv ==
  /\ req \in Requests /\ text \in ReplyTexts /\ script \in Scripted
  /\ stage \in {"decode", "ended", "settled", "done"}
  /\ stage # "done" => Followed(text, Out, FALSE)
  /\ stage = "done" => ContentStopsAtMarkup

(* What the stream shows depends on the request, and no step changes it.   *)
LEMMA RequestStays ==
  ASSUME req' = req, Followed(text', [live |-> live', wire |-> wire'], FALSE)
  PROVE  Followed(text, Out, FALSE)'
BY DEF Followed, Shows, Projected, Base, Out

(* A token without a special one in it is text, and the rest a script.     *)
LEMMA TokenIs ==
  ASSUME NEW s \in Scripted, NEW n \in Nat, n <= Len(s),
         \A i \in 1..n : SubSeq(s, 1, n)[i] # "hidden"
  PROVE  SubSeq(s, 1, n) \in ReplyTexts /\ SubSeq(s, n + 1, Len(s)) \in Scripted
<1> DEFINE t == SubSeq(s, 1, n)
<1>1. t \in Seq(Symbols \cup {"hidden"}) /\ Len(t) = n
  BY DEF Scripted
<1>2. SubSeq(s, n + 1, Len(s)) \in Scripted
  BY DEF Scripted
<1> HIDE DEF t
<1>3. t = [i \in 1..n |-> t[i]] /\ \A i \in 1..n : t[i] \in Symbols
  BY <1>1 DEF t
<1>4. t \in ReplyTexts
  BY <1>3 DEF ReplyTexts
<1> QED BY <1>2, <1>4 DEF t

(* What is forced into the text is text.                                   *)
LEMMA InjectedIs == Injected \in ReplyTexts
<1>1. "w" \in Symbols
  BY DEF Symbols
<1>2. <<"w">> \in ReplyTexts
  BY <1>1 DEF ReplyTexts
<1> QED BY <1>2, TagsAreTexts DEF Injected, ReplyTexts

(* A stream that starts afresh follows the empty text.                     *)
LEMMA StartFollows ==
  ASSUME NEW stale, req \in Requests
  PROVE  LET o == [live |-> StreamStart(req),
                   wire |-> [said |-> NothingSaid, calls |-> <<>>, stale |-> stale]]
         IN <<>> \in ReplyTexts /\ Followed(<<>>, o, FALSE)
<1> DEFINE e == <<>>
           w == [said |-> NothingSaid, calls |-> <<>>, stale |-> stale]
           l == StreamStart(req)
           o == [live |-> l, wire |-> w]
<1>1. e \in ReplyTexts /\ Len(e) = 0 /\ Between(e, 0, 0) = <<>>
  <2>1. e \in ReplyTexts /\ Len(e) = 0
    BY EmptySeq DEF ReplyTexts
  <2> HIDE DEF e
  <2> QED BY <2>1, NothingBetween
<1>2. req.think \in BOOLEAN
  BY RequestsAreFlags
<1>3. l \in LiveType(0) /\ Running(l.tool)
  BY <1>2 DEF StreamStart, NoTool, LiveType, ToolType, Running
<1>4. WireShape(w)
  BY DEF WireShape, NothingSaid
<1>5. OutShape(o, Len(e))
  BY <1>1, <1>3, <1>4 DEF OutShape
<1>6. /\ l.emit = 0 /\ w.said.content = <<>>
      /\ req.think => l.mode = "thinking"
      /\ ~req.think => l.mode = "text"
  BY <1>2 DEF StreamStart, NothingSaid
<1>7. Clear(e, 0, 0, ThinkEnd) /\ Clear(e, 0, 0, ToolsStart)
  BY DEF Clear
<1>8. ~req.think => Projected(e, 0, 0, <<>>, FALSE)
  BY <1>1, <1>7 DEF Projected, Base, Stop
<1> HIDE DEF e, l, w
<1>9. Shows(e, o, FALSE)
  <2>1. CASE req.think
    <3>1. l.mode # "text" /\ l.mode \notin {"tool", "suppress"}
      BY <1>6, <2>1
    <3> QED BY <1>6, <1>7, <2>1, <3>1 DEF Shows
  <2>2. CASE ~req.think
    <3>1. l.mode = "text" /\ Projected(e, 0, l.emit, o.wire.said.content, FALSE) /\ 0 \in Nat
      BY <1>6, <1>8, <2>2
    <3> QED BY <2>2, <3>1 DEF Shows
  <2> QED BY <2>1, <2>2
<1> QED BY <1>1, <1>3, <1>5, <1>9 DEF Followed, e, l, w

(* Steps of the loop that leave the stream alone and let the text grow.    *)
LEMMA GrowingKeeps ==
  ASSUME ReplyInv, stage # "done", NEW T \in ReplyTexts, Grows(text, T),
         req' = req, text' = T, live' = live, wire' = wire, script' \in Scripted,
         stage' \in {"decode", "ended", "settled"}
  PROVE  ReplyInv'
<1>1. Followed(text, Out, FALSE) /\ text \in ReplyTexts /\ req \in Requests
  BY DEF ReplyInv
<1>2. Followed(T, Out, FALSE)
  BY <1>1, FollowedGrows
<1>3. Followed(text, Out, FALSE)'
  <2>1. Followed(text', [live |-> live', wire |-> wire'], FALSE)
    BY <1>2 DEF Out
  <2> QED BY <2>1, RequestStays
<1> QED BY <1>1, <1>3 DEF ReplyInv

(* A token goes through the stream, in or out of the thinking.             *)
LEMMA SampleKeeps ==
  ASSUME ReplyInv, NEW size \in TokenSizes, Sample(size)
  PROVE  ReplyInv'
<1> DEFINE token == SubSeq(script, 1, size)
           T == text \o token
           rest == SubSeq(script, size + 1, Len(script))
           d == Streamed(Out, T, FALSE)
<1>1. /\ stage = "decode" /\ size <= Len(script)
      /\ \A i \in 1..size : token[i] # "hidden"
      /\ TokenOutside(T, rest, size) \/ TokenInside(T, rest, size)
      /\ live' = d.live /\ wire' = d.wire /\ req' = req
  BY DEF Sample, Out
<1>2. /\ text \in ReplyTexts /\ script \in Scripted /\ req \in Requests
      /\ Followed(text, Out, FALSE) /\ size \in Nat
  BY <1>1, TokensHaveSymbols DEF ReplyInv
<1>3. token \in ReplyTexts /\ rest \in Scripted
  BY <1>1, <1>2, TokenIs
<1> HIDE DEF token, rest
<1>4. T \in ReplyTexts /\ Grows(text, T)
  BY <1>2, <1>3, JoinGrows
<1>5. Followed(T, Out, FALSE)
  BY <1>2, <1>4, FollowedGrows
<1> HIDE DEF T
<1>6. Followed(T, d, FALSE)
  BY <1>4, <1>5, StreamedKeeps
<1>7. /\ text' \in {T, T \o Injected} /\ script' \in Resumed \cup {rest}
      /\ stage' \in {"decode", "ended"}
  BY <1>1 DEF TokenOutside, TokenInside, Stays, Leave
<1>8. text' \in ReplyTexts /\ Grows(T, text')
  BY <1>4, <1>7, InjectedIs, JoinGrows
<1>9. Followed(text', d, FALSE)
  BY <1>4, <1>6, <1>8, FollowedGrows
<1>10. d = [live |-> live', wire |-> wire']
  BY <1>1, <1>6 DEF Followed, OutShape
<1>11. Followed(text, Out, FALSE)'
  BY <1>1, <1>9, <1>10, RequestStays
<1>12. script' \in Scripted
  BY <1>3, <1>7, ScriptsSpeak DEF Scripted
<1> QED BY <1>1, <1>2, <1>7, <1>8, <1>11, <1>12 DEF ReplyInv

(* Asking again starts afresh.                                             *)
LEMMA AgainKeeps ==
  ASSUME ReplyInv, DecodeAgain
  PROVE  ReplyInv'
<1> DEFINE w == [said |-> NothingSaid, calls |-> <<>>, stale |-> wire.calls # <<>>]
<1>1. /\ stage' = "decode" /\ script' \in Resumed /\ text' = <<>> /\ req' = req
      /\ live' = StreamStart(req) /\ wire' = w /\ req \in Requests
  BY DEF DecodeAgain, ReplyInv
<1>2. /\ <<>> \in ReplyTexts
      /\ Followed(<<>>, [live |-> StreamStart(req), wire |-> w], FALSE)
  BY <1>1, StartFollows
<1> HIDE DEF w
<1>3. Followed(text, Out, FALSE)'
  BY <1>1, <1>2, RequestStays
<1>4. script' \in Scripted
  BY <1>1, ScriptsSpeak DEF Scripted
<1> QED BY <1>1, <1>2, <1>3, <1>4 DEF ReplyInv

(* The last pieces of the stream, and calls after them, add no markup.     *)
LEMMA SerializeKeeps ==
  ASSUME ReplyInv, Serialize
  PROVE  ReplyInv'
<1>1. /\ stage = "settled" /\ stage' = "done"
      /\ req' = req /\ text' = text /\ script' = script
  BY DEF Serialize
<1>2. /\ text \in ReplyTexts /\ script \in Scripted /\ req \in Requests
      /\ Followed(text, Out, FALSE)
  BY <1>1 DEF ReplyInv
<1>3. PICK outcome \in Outcomes(Parsed) : Show(outcome, Shown(outcome.what))
  BY Zenon DEF Serialize
<1> DEFINE d == Streamed(Out, text, TRUE)
           s == Shown(outcome.what)
<1>4. wire' = s.wire
  BY <1>3 DEF Show
<1>5. ASSUME req.stream, req.tools
      PROVE  StopsAtMarkup(text, wire'.said.content)
  <2>1. Followed(text, d, TRUE)
    BY <1>2, StreamedKeeps
  <2>2. StopsAtMarkup(text, d.wire.said.content)
    BY <1>2, <1>5, <2>1, FollowedStops
  <2>3. s = WithCalls(d, outcome.what.calls)
    BY <1>5 DEF Shown, Out
  <2>4. OutShape(d, Len(text))
    BY <2>1 DEF Followed
  <2> HIDE DEF d, s
  <2>5. s.wire.said = d.wire.said
    <3>1. CASE d.live.tool.emitted
      BY <2>3, <3>1 DEF WithCalls
    <3>2. CASE ~d.live.tool.emitted
      <4>1. s = AddCalls(d, outcome.what.calls)
        BY <2>3, <3>2 DEF WithCalls
      <4>2. \E c : s = [d EXCEPT !.wire.calls = c]
        BY <4>1 DEF AddCalls
      <4> QED BY <2>4, <4>2 DEF OutShape, WireShape
    <3> QED BY <3>1, <3>2
  <2> QED BY <1>4, <2>2, <2>5
<1>6. ContentStopsAtMarkup'
  BY <1>1, <1>5 DEF ContentStopsAtMarkup, StopsAtMarkup
<1> QED BY <1>1, <1>2, <1>6 DEF ReplyInv

(* The stream starts at the beginning of an empty text.                    *)
LEMMA ReplyStarts == ReplyInit => ReplyInv
<1> SUFFICES ASSUME ReplyInit PROVE ReplyInv
  OBVIOUS
<1>1. /\ req \in Requests /\ stage = "decode" /\ text = <<>> /\ script \in Scripted
      /\ Out = [live |-> StreamStart(req),
                wire |-> [said |-> NothingSaid, calls |-> <<>>, stale |-> FALSE]]
  BY ScriptsSpeak DEF ReplyInit, Out, Scripted
<1>2. <<>> \in ReplyTexts /\ Followed(text, Out, FALSE)
  BY <1>1, StartFollows
<1> QED BY <1>1, <1>2 DEF ReplyInv

(* Every step of the loop and of what comes behind it keeps the invariant. *)
LEMMA ReplyGoesOn == ReplyInv /\ [ReplyNext]_replyVars => ReplyInv'
<1> SUFFICES ASSUME ReplyInv, [ReplyNext]_replyVars PROVE ReplyInv'
  OBVIOUS
<1>1. text \in ReplyTexts /\ script \in Scripted /\ text \o Injected \in ReplyTexts
      /\ Grows(text, text \o Injected) /\ Grows(text, text)
  BY InjectedIs, JoinGrows DEF ReplyInv
<1>2. \A s \in Resumed : s \in Scripted
  BY ScriptsSpeak DEF Scripted
<1>3. ASSUME NEW size \in TokenSizes, Sample(size) PROVE ReplyInv'
  BY <1>3, SampleKeeps
<1>4. CASE Hidden
  <2>1. script' \in Scripted
    BY <1>1, <1>4 DEF Hidden, Scripted
  <2> QED BY <1>1, <1>4, <2>1, GrowingKeeps DEF Hidden
<1>5. ASSUME NEW guards, CloseThinking(guards)
      PROVE  /\ text' \in {text, text \o Injected} /\ script' \in Scripted
             /\ stage' \in {"decode", "ended"}
  BY <1>1, <1>2, <1>5 DEF CloseThinking, Stays, Leave
<1>6. CASE Eos
  <2>1. /\ text' \in {text, text \o Injected} /\ script' \in Scripted
        /\ stage' \in {"decode", "ended"}
        /\ stage = "decode" /\ req' = req /\ live' = live /\ wire' = wire
    BY <1>1, <1>5, <1>6 DEF Eos, Leave
  <2> QED BY <1>1, <2>1, GrowingKeeps
<1>7. CASE EosInBatch
  BY <1>1, <1>7, GrowingKeeps DEF EosInBatch, Leave
<1>8. CASE LoopClose
  <2>1. /\ text' \in {text, text \o Injected} /\ script' \in Scripted
        /\ stage' \in {"decode", "ended"}
        /\ stage = "decode" /\ req' = req /\ live' = live /\ wire' = wire
    BY <1>5, <1>8 DEF LoopClose
  <2> QED BY <1>1, <2>1, GrowingKeeps
<1>9. CASE CutOff
  BY <1>1, <1>9, GrowingKeeps DEF CutOff, Leave
<1>10. CASE Settle
  <2>1. /\ stage = "ended" /\ stage' = "settled" /\ req' = req /\ script' = script
        /\ live' = live /\ wire' = wire
        /\ text' = text \/ (Repairable(text) /\ text' = Repaired(text))
    BY <1>10 DEF Settle, Settled, RepairHelps
  <2>2. text' \in ReplyTexts /\ Grows(text, text')
    BY <1>1, <2>1, RepairedIs
  <2> QED BY <1>1, <2>1, <2>2, GrowingKeeps
<1>11. CASE AskAgain
  BY <1>11, AgainKeeps DEF AskAgain
<1>12. CASE Refuse
  BY <1>12, AgainKeeps DEF Refuse
<1>13. CASE Serialize
  BY <1>13, SerializeKeeps
<1>14. CASE UNCHANGED replyVars
  <2>1. /\ req' = req /\ text' = text /\ script' = script /\ stage' = stage
        /\ live' = live /\ wire' = wire
    BY <1>14 DEF replyVars
  <2>2. CASE stage # "done"
    BY <1>1, <2>1, <2>2, GrowingKeeps DEF ReplyInv
  <2>3. CASE stage = "done"
    BY <2>1, <2>3 DEF ReplyInv, ContentStopsAtMarkup
  <2> QED BY <2>2, <2>3
<1> QED BY <1>3, <1>4, <1>6, <1>7, <1>8, <1>9, <1>10, <1>11, <1>12, <1>13, <1>14
        DEF ReplyNext, Decode

(* While the turn runs and when it is over.                                *)
LEMMA ReplyStops == ReplyInv => ContentStopsAtMarkup
<1> SUFFICES ASSUME ReplyInv, req.stream, req.tools, stage # "done"
             PROVE  StopsAtMarkup(text, wire.said.content)
  BY DEF ReplyInv, ContentStopsAtMarkup, StopsAtMarkup
<1>1. Followed(text, Out, FALSE) /\ text \in ReplyTexts
  BY DEF ReplyInv
<1>2. StopsAtMarkup(text, Out.wire.said.content)
  BY <1>1, FollowedStops
<1> QED BY <1>2 DEF Out

(***************************************************************************)
(* However what the model says is cut into tokens, whatever the scripts    *)
(* and wherever thinking is closed by force, the turn repaired or asked    *)
(* again: the client of a stream has been shown as content a beginning of  *)
(* what stands behind the thinking and before the first block              *)
(* (text_stream_safe_limit, openai_sse_stream_update).                     *)
(***************************************************************************)
THEOREM ShownContentStops == ReplySpec => []ContentStopsAtMarkup
<1>1. ReplyInit => ReplyInv
  BY ReplyStarts
<1>2. ReplyInv /\ [ReplyNext]_replyVars => ReplyInv'
  BY ReplyGoesOn
<1>3. ReplyInv => ContentStopsAtMarkup
  BY ReplyStops
<1> QED BY <1>1, <1>2, <1>3, PTL DEF ReplySpec

(***************************************************************************)
(* Positions: those of the tracker, of the scan and of the stream are      *)
(* places of the text they were taken in.                                  *)
(***************************************************************************)
DtType(n) ==
  [mode : {"search", "structural", "string", "json", "done"},
   decode : {"outside", "structural", "string_body", "json_string", "json_structural"},
   pos : 0..n, quoted : BOOLEAN, escaped : BOOLEAN]

ScanType(n) ==
  [sawStart : BOOLEAN, sawEnd : BOOLEAN, from : 0..n, waiting : BOOLEAN,
   recovery : 0..n, forced : Seq(Nat), eosTried : BOOLEAN, loop : {"none", "pending", "tried"}]

(* Where a position may be, it may still be when the text has grown.       *)
LEMMA WiderTypes ==
  ASSUME NEW n \in Nat, NEW m \in Nat, n <= m
  PROVE  DtType(n) \subseteq DtType(m) /\ ScanType(n) \subseteq ScanType(m)
<1>1. \A x \in 0..n : x \in 0..m
  OBVIOUS
<1>2. ASSUME NEW x \in DtType(n) PROVE x \in DtType(m)
  BY <1>1, Zenon DEF DtType
<1>3. ASSUME NEW x \in ScanType(n) PROVE x \in ScanType(m)
  BY <1>1, Zenon DEF ScanType
<1> QED BY <1>2, <1>3

Repeating(g, A, a, F, m) ==
  g \in [0..m -> A] /\ \A n \in 0..m : g[n] = IF n = 0 THEN a ELSE F[g[n - 1]]

(* The function of repeated steps of F exists.                             *)
LEMMA Repeats ==
  ASSUME NEW A, NEW a \in A, NEW F \in [A -> A], NEW N \in Nat
  PROVE  \E g : Repeating(g, A, a, F, N)
<1> DEFINE Made(g, m) == Repeating(g, A, a, F, m)
           S == {m \in Nat : \E g : Made(g, m)}
<1>1. 0 \in S
  <2> DEFINE g == [n \in 0..0 |-> a]
  <2>1. Made(g, 0)
    BY DEF Repeating
  <2> QED BY <2>1
<1>2. ASSUME NEW m \in S PROVE m + 1 \in S
  <2>1. m \in Nat /\ \E g : Made(g, m)
    OBVIOUS
  <2>2. PICK g : Made(g, m)
    BY <2>1, Zenon
  <2> USE DEF Repeating
  <2> DEFINE h == [n \in 0..(m + 1) |-> IF n <= m THEN g[n] ELSE F[g[m]]]
  <2>3. h \in [0..(m + 1) -> A]
    BY <2>1, <2>2
  <2>4. ASSUME NEW n \in 0..(m + 1) PROVE h[n] = IF n = 0 THEN a ELSE F[h[n - 1]]
    <3>1. CASE n <= m
      <4>1. n \in 0..m /\ h[n] = g[n] /\ (n # 0 => n - 1 \in 0..(m + 1) /\ n - 1 <= m)
        BY <2>1, <3>1
      <4>2. n # 0 => h[n - 1] = g[n - 1]
        BY <4>1
      <4>3. g[n] = IF n = 0 THEN a ELSE F[g[n - 1]]
        BY <2>2, <4>1
      <4> HIDE DEF h
      <4> QED BY <4>1, <4>2, <4>3
    <3>2. CASE ~(n <= m)
      <4>1. n = m + 1 /\ n # 0 /\ n - 1 = m /\ h[n] = F[g[m]] /\ m \in 0..(m + 1) /\ m <= m
        BY <2>1, <3>2
      <4>2. h[m] = g[m]
        BY <4>1
      <4> HIDE DEF h
      <4> QED BY <4>1, <4>2
    <3> QED BY <3>1, <3>2
  <2> HIDE DEF h
  <2>5. Made(h, m + 1)
    BY <2>3, <2>4
  <2> QED BY <2>1, <2>5
<1>3. S = Nat
  <2>1. S \in SUBSET Nat
    OBVIOUS
  <2> HIDE DEF S
  <2> QED BY <1>1, <1>2, <2>1, Upwards
<1>4. \E g : Made(g, N)
  BY <1>3
<1> QED BY <1>4, Zenon

(* A step of the tracker stays in the text (dsml_decode_tracker_update).   *)
LEMMA TrackStepStays ==
  ASSUME NEW T \in ReplyTexts, NEW n \in Nat, n = Len(T), NEW dt \in DtType(n)
  PROVE  TrackStep(dt, T) \in DtType(n)
<1>1. /\ dt.pos \in 0..n
      /\ dt.mode \in {"search", "structural", "string", "json", "done"}
  BY DEF DtType
<1>2. \A p \in 0..n : \A lit \in ReplyTexts : Full(T, p, lit) => p + Len(lit) \in 0..n
  BY DEF Full, ReplyTexts
<1>3. \A lit : Has(T, dt.pos, lit) =>
        FirstAt(T, dt.pos, lit) \in 0..n /\ Full(T, FirstAt(T, dt.pos, lit), lit)
  BY <1>1, FirstIs
<1> DEFINE q == SkipWs(T, dt.pos)
<1>4. q \in 0..n
  BY <1>1, SkipIs
<1>5. \A p \in 0..n : ParamStartAt(T, p) => p + 2 \in 0..n
  BY <1>2, TagsAreTexts DEF ParamStartAt
<1>6. /\ Has(T, dt.pos, ToolsStart) => FirstAt(T, dt.pos, ToolsStart) + 2 \in 0..n
      /\ Has(T, dt.pos, ParamEnd) => FirstAt(T, dt.pos, ParamEnd) + 3 \in 0..n
  BY <1>2, <1>3, TagsAreTexts
<1>7. \A p \in 0..n : /\ Full(T, p, ToolsEnd) \/ Full(T, p, CallEnd) \/ Full(T, p, ParamEnd)
                           => p + 3 \in 0..n
                      /\ Full(T, p, CallStart) => p + 2 \in 0..n
  BY <1>2, TagsAreTexts
<1> HIDE DEF q
<1>8. CASE dt.mode = "search"
  <2>1. TrackStep(dt, T) = TrackSearch(dt, T)
    BY <1>8 DEF TrackStep
  <2>2. CASE Has(T, dt.pos, ToolsStart)
    BY <1>6, <2>1, <2>2 DEF TrackSearch, DtType
  <2>3. CASE ~Has(T, dt.pos, ToolsStart)
    <3> DEFINE x == IF Len(T) > 2 THEN Len(T) - 2 ELSE 0
    <3>1. x \in 0..n
      OBVIOUS
    <3>2. TrackSearch(dt, T) = [dt EXCEPT !.decode = "outside", !.pos = x]
      BY <2>3 DEF TrackSearch
    <3> HIDE DEF x
    <3>3. [dt EXCEPT !.decode = "outside", !.pos = x] \in DtType(n)
      BY <3>1 DEF DtType
    <3> QED BY <2>1, <3>2, <3>3, Zenon
  <2> QED BY <2>2, <2>3
<1>9. CASE dt.mode = "structural"
  <2>1. TrackStep(dt, T) = TrackStructural(dt, T)
    BY <1>9 DEF TrackStep
  <2>2. Full(T, q, <<"<", "spar>">>) => ParamStartAt(T, q)
    BY DEF ParamStartAt, ParamStarts
  <2> DEFINE e == TrackStructural(dt, T)
  <2>3. e = IF Full(T, q, ToolsEnd)
            THEN [dt EXCEPT !.mode = "done", !.decode = "outside", !.pos = q + 3]
            ELSE IF Full(T, q, CallEnd) THEN [dt EXCEPT !.pos = q + 3]
            ELSE IF Full(T, q, CallStart) THEN [dt EXCEPT !.pos = q + 2]
            ELSE IF Full(T, q, <<"<", "spar>">>)
            THEN [dt EXCEPT !.mode = "string", !.decode = "string_body", !.pos = q + 2]
            ELSE IF ParamStartAt(T, q)
            THEN [dt EXCEPT !.mode = "json", !.decode = "json_structural", !.pos = q + 2,
                            !.quoted = FALSE, !.escaped = FALSE]
            ELSE [dt EXCEPT !.decode = "structural", !.pos = q]
    BY DEF TrackStructural, q
  <2> DEFINE p == q + 2
             r == q + 3
  <2>4. /\ Full(T, q, ToolsEnd) \/ Full(T, q, CallEnd) => r \in 0..n
        /\ Full(T, q, CallStart) \/ ParamStartAt(T, q) => p \in 0..n
    BY <1>4, <1>5, <1>7
  <2> HIDE DEF e, p, r
  <2>5. \A x \in 0..n :
          /\ [dt EXCEPT !.mode = "done", !.decode = "outside", !.pos = x] \in DtType(n)
          /\ [dt EXCEPT !.pos = x] \in DtType(n)
          /\ [dt EXCEPT !.mode = "string", !.decode = "string_body", !.pos = x] \in DtType(n)
          /\ [dt EXCEPT !.mode = "json", !.decode = "json_structural", !.pos = x,
                        !.quoted = FALSE, !.escaped = FALSE] \in DtType(n)
          /\ [dt EXCEPT !.decode = "structural", !.pos = x] \in DtType(n)
    BY DEF DtType
  <2> HIDE DEF DtType
  <2>6. e \in DtType(n)
    BY <1>4, <2>2, <2>3, <2>4, <2>5 DEF p, r
  <2> QED BY <2>1, <2>6 DEF e
<1>10. CASE dt.mode = "string"
  <2> DEFINE cut == {p \in dt.pos..Len(T) : BeginsParamEnd(T, p)}
  <2>1. TrackStep(dt, T) = TrackString(dt, T)
    BY <1>10 DEF TrackStep
  <2>2. cut # {} => Min(cut) \in 0..n
    BY <1>1, MinIs
  <2>3. /\ Has(T, dt.pos, ParamEnd) =>
             TrackString(dt, T) = [dt EXCEPT !.mode = "structural", !.decode = "structural",
                                             !.pos = FirstAt(T, dt.pos, ParamEnd) + 3]
        /\ ~Has(T, dt.pos, ParamEnd) /\ cut # {} =>
             TrackString(dt, T) = [dt EXCEPT !.decode = "structural", !.pos = Min(cut)]
        /\ ~Has(T, dt.pos, ParamEnd) /\ cut = {} =>
             TrackString(dt, T) = [dt EXCEPT !.decode = "string_body", !.pos = n]
    BY DEF TrackString
  <2> HIDE DEF cut
  <2>4. n \in 0..n
    OBVIOUS
  <2>5. \A x \in 0..n :
          [dt EXCEPT !.mode = "structural", !.decode = "structural", !.pos = x] \in DtType(n)
    BY DEF DtType
  <2>9. \A x \in 0..n : /\ [dt EXCEPT !.decode = "structural", !.pos = x] \in DtType(n)
                        /\ [dt EXCEPT !.decode = "string_body", !.pos = x] \in DtType(n)
    BY DEF DtType
  <2> HIDE DEF DtType
  <2>6. CASE Has(T, dt.pos, ParamEnd)
    <3>1. FirstAt(T, dt.pos, ParamEnd) + 3 \in 0..n
      BY <1>6, <2>6
    <3>2. TrackString(dt, T) = [dt EXCEPT !.mode = "structural", !.decode = "structural",
                                          !.pos = FirstAt(T, dt.pos, ParamEnd) + 3]
      BY <2>3, <2>6
    <3> DEFINE at(x) == [dt EXCEPT !.mode = "structural", !.decode = "structural", !.pos = x]
    <3>3. TrackString(dt, T) = at(FirstAt(T, dt.pos, ParamEnd) + 3)
      BY <3>2
    <3>4. \A x \in 0..n : at(x) \in DtType(n)
      BY <2>5
    <3> HIDE DEF at
    <3> QED BY <2>1, <3>1, <3>3, <3>4
  <2>7. CASE ~Has(T, dt.pos, ParamEnd) /\ cut # {}
    BY <2>1, <2>2, <2>3, <2>7, <2>9, Zenon
  <2>8. CASE ~Has(T, dt.pos, ParamEnd) /\ cut = {}
    BY <2>1, <2>3, <2>4, <2>8, <2>9, Zenon
  <2> QED BY <2>6, <2>7, <2>8
<1>11. CASE dt.mode = "json"
  <2> DEFINE c == T[dt.pos + 1]
             escaped == dt.quoted /\ ~dt.escaped /\ c = "e"
             quoted == IF dt.escaped THEN dt.quoted ELSE (dt.quoted # (c = "q"))
  <2>1. TrackStep(dt, T) = TrackJson(dt, T)
    BY <1>11 DEF TrackStep
  <2>2. escaped \in BOOLEAN /\ quoted \in BOOLEAN
    <3>1. dt.quoted \in BOOLEAN
      BY DEF DtType
    <3> QED BY <3>1
  <2>3. AfterJson(dt, c) = [dt EXCEPT !.pos = dt.pos + 1, !.escaped = escaped, !.quoted = quoted]
    BY DEF AfterJson, DtType
  <2> HIDE DEF escaped, quoted, c
  <2>4. \A x \in 0..n : [dt EXCEPT !.pos = x, !.escaped = escaped, !.quoted = quoted] \in DtType(n)
    BY <2>2 DEF DtType
  <2>5. \A x \in 0..n :
          [dt EXCEPT !.mode = "structural", !.decode = "structural", !.pos = x] \in DtType(n)
    BY DEF DtType
  <2>6. \A s \in {"structural", "json_string", "json_structural"} :
          [dt EXCEPT !.decode = s] \in DtType(n)
    BY DEF DtType
  <2>7. CASE ~dt.quoted /\ Full(T, dt.pos, ParamEnd)
    <3>1. TrackJson(dt, T) = [dt EXCEPT !.mode = "structural", !.decode = "structural",
                                        !.pos = dt.pos + 3]
      BY <2>7 DEF TrackJson, DtType
    <3>2. dt.pos + 3 \in 0..n
      BY <1>1, <1>7, <2>7
    <3> QED BY <2>1, <2>5, <3>1, <3>2, Zenon
  <2>8. CASE ~(~dt.quoted /\ Full(T, dt.pos, ParamEnd)) /\ ~dt.quoted /\ BeginsParamEnd(T, dt.pos)
    BY <2>1, <2>6, <2>8 DEF TrackJson
  <2>9. CASE /\ ~(~dt.quoted /\ Full(T, dt.pos, ParamEnd))
             /\ ~(~dt.quoted /\ BeginsParamEnd(T, dt.pos))
    <3>1. CASE dt.pos < Len(T)
      <4>1. TrackJson(dt, T) = AfterJson(dt, c) /\ dt.pos + 1 \in 0..n
        BY <1>1, <2>9, <3>1 DEF TrackJson, c
      <4> QED BY <2>1, <2>3, <2>4, <4>1
    <3>2. CASE ~(dt.pos < Len(T))
      <4>1. TrackJson(dt, T) =
              [dt EXCEPT !.decode = IF dt.quoted THEN "json_string" ELSE "json_structural"]
        BY <2>9, <3>2 DEF TrackJson
      <4> QED BY <2>1, <2>6, <4>1
    <3> QED BY <3>1, <3>2
  <2> QED BY <2>7, <2>8, <2>9
<1>12. CASE dt.mode = "done"
  <2>1. TrackStep(dt, T) = [dt EXCEPT !.decode = "outside"]
    BY <1>12 DEF TrackStep
  <2> QED BY <2>1 DEF DtType
<1> QED BY <1>1, <1>8, <1>9, <1>10, <1>11, <1>12

(* The steps of one call form a function, which is the one the call chooses. *)
TrackSteps(g, dt, T, m) ==
  [n \in 0..m |->
     IF n = 0 THEN TrackStep(dt, T)
     ELSE LET before == g[n - 1] IN
          IF before.mode = "done" THEN before ELSE TrackStep(before, T)]

(* A call of the tracker stays in the text, however often it steps.        *)
LEMMA TrackedStays ==
  ASSUME NEW T \in ReplyTexts, NEW n \in Nat, n = Len(T), NEW dt \in DtType(n)
  PROVE  Tracked(dt, T) \in DtType(n)
<1> DEFINE A == DtType(n)
           N == n + 2
           again(x) == IF x.mode = "done" THEN x ELSE TrackStep(x, T)
           F == [x \in A |-> again(x)]
           first == TrackStep(dt, T)
           step == CHOOSE g : g = TrackSteps(g, dt, T, N)
<1>1. first \in A /\ \A x \in A : again(x) \in A
  BY TrackStepStays
<1>2. Tracked(dt, T) = step[N]
  BY DEF Tracked, TrackSteps
<1> HIDE DEF A, first, step
<1>3. F \in [A -> A] /\ N \in Nat /\ \A x \in A : F[x] = again(x)
  BY <1>1
<1> HIDE DEF again, F, N
<1>4. PICK g : Repeating(g, A, first, F, N)
  BY <1>1, <1>3, Repeats
<1>5. \A k \in 0..N : g[k] = IF k = 0 THEN first ELSE again(g[k - 1])
  <2>1. \A k \in 0..N : k # 0 => k - 1 \in 0..N
    BY <1>3
  <2>2. \A k \in 0..N : k # 0 => F[g[k - 1]] = again(g[k - 1])
    BY <1>3, <1>4, <2>1 DEF Repeating
  <2> QED BY <1>4, <2>2 DEF Repeating
<1>6. g = TrackSteps(g, dt, T, N)
  <2>1. g = [k \in 0..N |-> g[k]]
    BY <1>4 DEF Repeating
  <2>2. [k \in 0..N |-> g[k]] = [k \in 0..N |-> IF k = 0 THEN first ELSE again(g[k - 1])]
    BY <1>5
  <2>3. [k \in 0..N |-> IF k = 0 THEN first ELSE again(g[k - 1])] = TrackSteps(g, dt, T, N)
    BY Zenon DEF TrackSteps, first, again
  <2> QED BY <2>1, <2>2, <2>3
<1>7. step = TrackSteps(step, dt, T, N)
  BY <1>6, Zenon DEF step
<1>8. \A k \in 0..N : step[k] = IF k = 0 THEN first ELSE again(step[k - 1])
  BY <1>7, Zenon DEF TrackSteps, first, again
<1> DEFINE S == {k \in Nat : k <= N => step[k] \in A}
<1>9. 0 \in S
  BY <1>1, <1>3, <1>8
<1>10. ASSUME NEW k \in S PROVE k + 1 \in S
  <2> SUFFICES ASSUME k + 1 <= N PROVE step[k + 1] \in A
    OBVIOUS
  <2>1. k + 1 \in 0..N /\ k + 1 # 0 /\ (k + 1) - 1 = k /\ step[k] \in A
    BY <1>3
  <2> QED BY <1>1, <1>8, <2>1
<1>11. S = Nat
  <2>1. S \in SUBSET Nat
    OBVIOUS
  <2> HIDE DEF S
  <2> QED BY <1>9, <1>10, <2>1, Upwards
<1>12. step[N] \in A
  BY <1>3, <1>11
<1> QED BY <1>2, <1>12 DEF A

PositionsInv ==
  /\ tracker.seen \in 0..Len(text) /\ tracker.dt \in DtType(Len(text))
  /\ scan \in ScanType(Len(text)) /\ live \in LiveType(Len(text))
  /\ attempt \in 0..1 /\ finish \in {"length", "stop", "tool_calls", "error"}
  /\ stage = "decode" => Len(text) <= MaxText

(* While the turn runs, the stream is where its following of the text says.*)
LEMMA LiveFollows ==
  ASSUME ReplyInv, stage # "done"
  PROVE  live \in LiveType(Len(text))
BY DEF ReplyInv, Followed, OutShape, Out

(* And so after a step.                                                    *)
LEMMA LiveFollowsThen ==
  ASSUME ReplyInv', stage' # "done"
  PROVE  live' \in LiveType(Len(text'))
BY DEF ReplyInv, Followed, OutShape, Out

(* One of the guards of the loop changes.                                  *)
LEMMA ScanPuts ==
  ASSUME NEW n \in Nat, NEW s \in ScanType(n)
  PROVE  /\ \A b \in BOOLEAN : /\ [s EXCEPT !.waiting = b] \in ScanType(n)
                             /\ [s EXCEPT !.sawStart = b] \in ScanType(n)
                             /\ [s EXCEPT !.sawEnd = b] \in ScanType(n)
                             /\ [s EXCEPT !.eosTried = b] \in ScanType(n)
         /\ \A x \in 0..n : /\ [s EXCEPT !.from = x] \in ScanType(n)
                           /\ [s EXCEPT !.recovery = x] \in ScanType(n)
         /\ \A f \in Seq(Nat) : [s EXCEPT !.forced = f] \in ScanType(n)
         /\ \A l \in {"none", "pending", "tried"} : [s EXCEPT !.loop = l] \in ScanType(n)
<1>1. ASSUME NEW b \in BOOLEAN
      PROVE  [s EXCEPT !.waiting = b] \in ScanType(n) /\ [s EXCEPT !.sawStart = b] \in ScanType(n)
  BY DEF ScanType
<1>2. ASSUME NEW b \in BOOLEAN
      PROVE  [s EXCEPT !.sawEnd = b] \in ScanType(n) /\ [s EXCEPT !.eosTried = b] \in ScanType(n)
  BY DEF ScanType
<1>3. ASSUME NEW x \in 0..n
      PROVE  [s EXCEPT !.from = x] \in ScanType(n) /\ [s EXCEPT !.recovery = x] \in ScanType(n)
  BY DEF ScanType
<1>4. ASSUME NEW f \in Seq(Nat) PROVE [s EXCEPT !.forced = f] \in ScanType(n)
  <2> DEFINE Forced == Seq(Nat)
  <2>1. f \in Forced /\ s \in [sawStart : BOOLEAN, sawEnd : BOOLEAN, from : 0..n,
          waiting : BOOLEAN, recovery : 0..n, forced : Forced, eosTried : BOOLEAN,
          loop : {"none", "pending", "tried"}]
    BY DEF ScanType
  <2> HIDE DEF Forced
  <2>2. [s EXCEPT !.forced = f] \in [sawStart : BOOLEAN, sawEnd : BOOLEAN, from : 0..n,
          waiting : BOOLEAN, recovery : 0..n, forced : Forced, eosTried : BOOLEAN,
          loop : {"none", "pending", "tried"}]
    BY <2>1
  <2> QED BY <2>2 DEF ScanType, Forced
<1>5. ASSUME NEW l \in {"none", "pending", "tried"} PROVE [s EXCEPT !.loop = l] \in ScanType(n)
  BY DEF ScanType
<1> QED BY <1>1, <1>2, <1>3, <1>4, <1>5

(* The later of two places, one of which may be before the text.           *)
LEMMA LaterIs ==
  ASSUME NEW n \in Nat, NEW a \in 0..n, NEW k \in Int, k <= n
  PROVE  Max({a, k}) \in 0..n
<1>1. CASE k <= a
  <2>1. \A y \in {a, k} : a >= y
    BY <1>1
  <2>2. \A x \in {a, k} : (\A y \in {a, k} : x >= y) => x = a
    BY <1>1
  <2>3. Max({a, k}) = a
    BY <2>1, <2>2 DEF Max
  <2> QED BY <2>3
<1>2. CASE ~(k <= a)
  <2>1. \A y \in {a, k} : k >= y
    BY <1>2
  <2>2. \A x \in {a, k} : (\A y \in {a, k} : x >= y) => x = k
    BY <1>2
  <2>3. Max({a, k}) = k
    BY <2>1, <2>2 DEF Max
  <2> QED BY <1>2, <2>3
<1> QED BY <1>1, <1>2

(* observe_tool_markers keeps its place in the text.                       *)
LEMMA ObservedStays ==
  ASSUME NEW T \in ReplyTexts, NEW n \in Nat, n = Len(T), scan \in ScanType(n)
  PROVE  Observed(T) \in ScanType(n)
<1> DEFINE from == IF ~scan.waiting THEN scan.from
                   ELSE IF Has(T, 0, ThinkEnd) THEN LastAt(T, 0, ThinkEnd) + 3 ELSE Len(T)
           start == Has(T, from, ToolsStart)
           endFrom == IF scan.sawStart \/ ~start THEN from ELSE FirstAt(T, from, ToolsStart)
           sawStart == scan.sawStart \/ start
           sawEnd == scan.sawEnd \/ ((scan.sawStart \/ start) /\ Has(T, endFrom, ToolsEnd))
           place == Max({from, Len(T) - MarkerHold})
<1>1. scan.from \in 0..n /\ scan.sawStart \in BOOLEAN /\ scan.sawEnd \in BOOLEAN
  BY DEF ScanType
<1>2. Has(T, 0, ThinkEnd) => LastAt(T, 0, ThinkEnd) + 3 \in 0..n
  <2> SUFFICES ASSUME Has(T, 0, ThinkEnd) PROVE LastAt(T, 0, ThinkEnd) + 3 \in 0..n
    OBVIOUS
  <2>1. LastAt(T, 0, ThinkEnd) \in 0..Len(T) /\ Full(T, LastAt(T, 0, ThinkEnd), ThinkEnd)
    BY LastIs
  <2> QED BY <2>1, TagsAreTexts DEF Full
<1>3. from \in 0..n
  BY <1>1, <1>2
<1> HIDE DEF from
<1>4. place \in 0..n
  <2>1. Len(T) - MarkerHold \in Int /\ Len(T) - MarkerHold <= n
    BY MarkersAreHeld
  <2> QED BY <1>3, <2>1, LaterIs
<1>5. sawStart \in BOOLEAN /\ sawEnd \in BOOLEAN
  BY <1>1 DEF Has
<1>6. Observed(T) = [scan EXCEPT !.waiting = FALSE, !.sawStart = sawStart, !.sawEnd = sawEnd,
                                 !.from = place]
  BY DEF Observed, from, ScanType
<1> HIDE DEF sawStart, sawEnd, place
<1> QED BY <1>4, <1>5, <1>6 DEF ScanType

(* The tracker goes on to the end of the text it is called with.           *)
LEMMA TrackerStays ==
  ASSUME NEW T \in ReplyTexts, NEW n \in Nat, n = Len(T), NEW tr, NEW size,
         tr.seen \in 0..n, tr.dt \in DtType(n)
  PROVE  LET r == TrackedTo(tr, T, size) IN r.seen \in 0..n /\ r.dt \in DtType(n)
<1>1. Tracked(tr.dt, T) \in DtType(n)
  BY TrackedStays
<1> HIDE DEF DtType
<1> QED BY <1>1 DEF TrackedTo

(* What a token inside thinking leaves in the guards of the loop.          *)
LEMMA HeldStays ==
  ASSUME NEW T \in ReplyTexts, NEW n \in Nat, n = Len(T), scan \in ScanType(n),
         NEW rest, NEW size, TokenInside(T, rest, size),
         tracker.seen \in 0..n, tracker.dt \in DtType(n),
         finish \in {"length", "stop", "tool_calls", "error"}
  PROVE  /\ tracker'.seen \in 0..Len(text') /\ tracker'.dt \in DtType(Len(text'))
         /\ scan' \in ScanType(Len(text'))
         /\ finish' \in {"length", "stop", "tool_calls", "error"}
<1> DEFINE from == Min({scan.recovery, Len(T)})
           opened == req.tools /\ Has(T, from, ToolsStart)
           tracked == TrackedTo(tracker, T, size)
           closed == T \o Injected
           N == Len(closed)
           good(s, m) == s \in ScanType(m)
<1>1. closed \in ReplyTexts /\ N \in Nat /\ n <= N
  BY InjectedIs, JoinGrows DEF ReplyTexts, Grows
<1>2. tracked.seen \in 0..n /\ tracked.dt \in DtType(n)
  BY TrackerStays
<1>3. /\ TrackedTo(tracked, closed, Len(Injected)).seen \in 0..N
      /\ TrackedTo(tracked, closed, Len(Injected)).dt \in DtType(N)
  <2>1. tracked.seen \in 0..N /\ tracked.dt \in DtType(N)
    BY <1>1, <1>2, WiderTypes
  <2> HIDE DEF tracked, closed
  <2> QED BY <1>1, <2>1, TrackerStays
<1>4. scan \in ScanType(N)
  BY <1>1, WiderTypes
<1>5. LoopSeen \subseteq {"none", "pending", "tried"}
  BY DEF LoopSeen, ScanType
<1>6. from \in Nat
  <2>1. {scan.recovery, Len(T)} \subseteq Nat
    BY DEF ScanType
  <2> QED BY <2>1, MinIs
<1>7. opened => <<FirstAt(T, from, ToolsStart), Len(T)>> \in Seq(Nat)
  <2> HIDE DEF from
  <2>1. opened => FirstAt(T, from, ToolsStart) \in Nat
    BY <1>6, FirstIs
  <2> QED BY <2>1
<1>8. Max({0, Len(T) - MarkerHold}) \in 0..n
  BY MarkersAreHeld, LaterIs
<1>9. ASSUME NEW at \in 0..n, NEW loop \in {"none", "pending", "tried"}
      PROVE  /\ [Held(T, at) EXCEPT !.loop = loop] \in ScanType(n)
             /\ [scan EXCEPT !.loop = loop] \in ScanType(n)
  <2> DEFINE s1 == [scan EXCEPT !.waiting = TRUE]
             s2 == [s1 EXCEPT !.from = Len(T)]
             s3 == [s2 EXCEPT !.recovery = at]
             s4 == [s3 EXCEPT !.loop = loop]
  <2>1. [Held(T, at) EXCEPT !.loop = loop] = s4
    BY DEF Held
  <2> HIDE DEF ScanType
  <2>2. s1 \in ScanType(n)
    BY ScanPuts
  <2> HIDE DEF s1
  <2>3. s2 \in ScanType(n)
    <3>1. Len(T) \in 0..n /\ n \in Nat
      OBVIOUS
    <3> QED BY <2>2, <3>1, ScanPuts, Zenon
  <2> HIDE DEF s2
  <2>4. s3 \in ScanType(n)
    BY <2>3, ScanPuts
  <2> HIDE DEF s3
  <2>5. s4 \in ScanType(n)
    BY <2>4, ScanPuts
  <2> QED BY <2>1, <2>5, ScanPuts
<1>10. ASSUME NEW f \in Seq(Nat), NEW loop \in {"none", "pending", "tried"}
       PROVE  [scan EXCEPT !.waiting = TRUE, !.loop = loop, !.recovery = N, !.forced = f]
                \in ScanType(N)
  <2> HIDE DEF N, ScanType
  <2> DEFINE s1 == [scan EXCEPT !.waiting = TRUE]
             s2 == [s1 EXCEPT !.loop = loop]
             s3 == [s2 EXCEPT !.recovery = N]
             s4 == [s3 EXCEPT !.forced = f]
  <2>1. [scan EXCEPT !.waiting = TRUE, !.loop = loop, !.recovery = N, !.forced = f] = s4
    OBVIOUS
  <2>2. s1 \in ScanType(N)
    BY <1>1, <1>4, ScanPuts
  <2> HIDE DEF s1
  <2>3. s2 \in ScanType(N)
    BY <1>1, <2>2, ScanPuts
  <2> HIDE DEF s2
  <2>4. s3 \in ScanType(N)
    <3>1. N \in 0..N /\ N \in Nat
      BY <1>1
    <3> QED BY <2>3, <3>1, ScanPuts, Zenon
  <2> HIDE DEF s3
  <2>5. s4 \in ScanType(N)
    BY <1>1, <2>4, ScanPuts
  <2> QED BY <2>1, <2>5
<1> DEFINE forced == <<FirstAt(T, from, ToolsStart), Len(T)>>
<1>11. PICK loop \in LoopSeen :
        \/ /\ ~opened
           /\ scan' = [(IF req.tools THEN Held(T, Max({0, Len(T) - MarkerHold})) ELSE scan)
                         EXCEPT !.loop = loop]
           /\ text' = T /\ tracker' = tracked /\ finish' = finish
        \/ /\ opened
           /\ scan' = [Held(T, Len(T)) EXCEPT !.loop = loop]
           /\ text' = T /\ tracker' = tracked /\ finish' = finish
        \/ /\ opened
           /\ scan' = [scan EXCEPT !.waiting = TRUE, !.loop = loop, !.recovery = N,
                                   !.forced = forced]
           /\ text' = closed /\ tracker' = TrackedTo(tracked, closed, Len(Injected))
           /\ finish' = finish
        \/ /\ opened
           /\ scan' = [scan EXCEPT !.loop = loop]
           /\ text' = T /\ tracker' = tracked /\ finish' = "error"
  BY DEF TokenInside, Stays, Leave
<1>12. loop \in {"none", "pending", "tried"} /\ Len(T) \in 0..n
  BY <1>5
<1> HIDE DEF closed, N, tracked, opened, from, forced, ScanType, DtType
<1>13. CASE /\ ~opened
            /\ scan' = [(IF req.tools THEN Held(T, Max({0, Len(T) - MarkerHold})) ELSE scan)
                          EXCEPT !.loop = loop]
            /\ text' = T /\ tracker' = tracked /\ finish' = finish
  <2>1. scan' \in ScanType(n)
    <3>1. CASE req.tools
      BY <1>8, <1>9, <1>12, <1>13, <3>1, Zenon
    <3>2. CASE ~req.tools
      BY <1>8, <1>9, <1>12, <1>13, <3>2, Zenon
    <3> QED BY <3>1, <3>2
  <2> QED BY <1>2, <1>13, <2>1
<1>14. CASE /\ opened
            /\ scan' = [Held(T, Len(T)) EXCEPT !.loop = loop]
            /\ text' = T /\ tracker' = tracked /\ finish' = finish
  <2>1. scan' \in ScanType(n)
    BY <1>9, <1>12, <1>14, Zenon
  <2> QED BY <1>2, <1>14, <2>1
<1>15. CASE /\ opened
            /\ scan' = [scan EXCEPT !.waiting = TRUE, !.loop = loop, !.recovery = N,
                                    !.forced = forced]
            /\ text' = closed /\ tracker' = TrackedTo(tracked, closed, Len(Injected))
            /\ finish' = finish
  <2>1. scan' \in ScanType(N)
    <3>1. forced \in Seq(Nat)
      BY <1>7, <1>15 DEF forced
    <3> QED BY <1>10, <1>12, <1>15, <3>1, Zenon
  <2>2. N = Len(text')
    BY <1>15 DEF N
  <2> QED BY <1>3, <1>15, <2>1, <2>2
<1>16. CASE /\ opened
            /\ scan' = [scan EXCEPT !.loop = loop]
            /\ text' = T /\ tracker' = tracked /\ finish' = "error"
  <2>1. scan' \in ScanType(n)
    BY <1>9, <1>12, <1>16, Zenon
  <2> QED BY <1>2, <1>16, <2>1
<1> QED BY <1>11, <1>13, <1>14, <1>15, <1>16

(* What the client is shown last leaves the stream in its type.            *)
LEMMA ShownStays ==
  ASSUME ReplyInv, PositionsInv, stage # "done", NEW what
  PROVE  Shown(what).live \in LiveType(Len(text))
<1> DEFINE d == Streamed(Out, text, TRUE)
<1>1. text \in ReplyTexts /\ Followed(text, Out, FALSE)
  BY DEF ReplyInv
<1>2. d.live \in LiveType(Len(text))
  <2>1. Followed(text, d, TRUE)
    BY <1>1, StreamedKeeps
  <2> QED BY <2>1 DEF Followed, OutShape
<1> HIDE DEF d
<1>3. \A o, calls : AddCalls(o, calls).live = o.live
  BY DEF AddCalls
<1>4. \A o, f, part : Say(o, f, part).live = o.live
  BY DEF Say
<1>5. CASE req.stream
  <2>1. Shown(what) = WithCalls(d, what.calls)
    BY <1>5 DEF Shown, Out, d
  <2> QED BY <1>2, <1>3, <2>1 DEF WithCalls
<1>6. CASE ~req.stream
  <2>1. Shown(what).live = Out.live
    BY <1>3, <1>4, <1>6 DEF Shown, Out
  <2> QED BY <2>1 DEF Out, PositionsInv
<1> QED BY <1>5, <1>6

(* The guards of a loop and the tracker of a new turn.                     *)
LEMMA StartsAtZero ==
  ASSUME req \in Requests
  PROVE  ScanStart(req) \in ScanType(0) /\ TrackerStart.dt \in DtType(0) /\ TrackerStart.seen = 0
<1>1. req.think \in BOOLEAN
  BY RequestsAreFlags
<1>2. <<>> \in Seq(Nat)
  OBVIOUS
<1>3. ScanStart(req) \in ScanType(0)
  <2> DEFINE Forced == Seq(Nat)
  <2>1. <<>> \in Forced
    BY <1>2
  <2> HIDE DEF Forced
  <2>2. ScanStart(req) \in [sawStart : BOOLEAN, sawEnd : BOOLEAN, from : 0..0,
          waiting : BOOLEAN, recovery : 0..0, forced : Forced, eosTried : BOOLEAN,
          loop : {"none", "pending", "tried"}]
    BY <1>1, <2>1 DEF ScanStart
  <2> QED BY <2>2 DEF ScanType, Forced
<1>4. TrackerStart.dt \in DtType(0) /\ TrackerStart.seen = 0
  BY DEF TrackerStart, TrackerInit, DtType
<1> QED BY <1>3, <1>4

(* Every position is 0 at the beginning.                                   *)
LEMMA PositionsStart == ReplyInit => PositionsInv
<1> SUFFICES ASSUME ReplyInit PROVE PositionsInv
  OBVIOUS
<1>1. ReplyInv /\ stage = "decode"
  BY ReplyStarts DEF ReplyInit
<1>2. live \in LiveType(Len(text))
  BY <1>1, LiveFollows
<1>3. /\ req \in Requests /\ text = <<>> /\ tracker = TrackerStart /\ scan = ScanStart(req)
      /\ attempt = 0 /\ finish = "length"
  BY DEF ReplyInit
<1>4. Len(text) = 0
  BY <1>3, EmptySeq
<1> QED BY <1>2, <1>3, <1>4, StartsAtZero, TokensHaveSymbols DEF PositionsInv

(* A token keeps every position in the text it is appended to.             *)
LEMMA SampleStays ==
  ASSUME ReplyInv, PositionsInv, NEW size \in TokenSizes, Sample(size)
  PROVE  PositionsInv'
<1> DEFINE token == SubSeq(script, 1, size)
           T == text \o token
           rest == SubSeq(script, size + 1, Len(script))
           n == Len(T)
<1>1. /\ stage = "decode" /\ size <= Len(script)
      /\ Len(T) + Len(Injected) <= MaxText
      /\ \A i \in 1..size : token[i] # "hidden"
      /\ TokenOutside(T, rest, size) \/ TokenInside(T, rest, size)
      /\ attempt' = attempt
  BY DEF Sample
<1>2. text \in ReplyTexts /\ script \in Scripted /\ size \in Nat
  BY TokensHaveSymbols DEF ReplyInv
<1>3. token \in ReplyTexts
  BY <1>1, <1>2, TokenIs
<1>4. ReplyInv' /\ stage' # "done"
  <2>1. ReplyInv'
    BY SampleKeeps
  <2>2. stage' \in {"decode", "ended"}
    BY <1>1 DEF TokenOutside, TokenInside, Stays, Leave
  <2> QED BY <2>1, <2>2
<1> HIDE DEF token, rest
<1>5. T \in ReplyTexts /\ n \in Nat /\ Len(text) \in Nat /\ Len(text) <= n
  BY <1>2, <1>3, JoinGrows DEF Grows, ReplyTexts
<1>6. live' \in LiveType(Len(text'))
  BY <1>4, LiveFollowsThen
<1> HIDE DEF T
<1>7. /\ tracker.seen \in 0..n /\ tracker.dt \in DtType(n) /\ scan \in ScanType(n)
      /\ finish \in {"length", "stop", "tool_calls", "error"} /\ attempt \in 0..1
  <2>1. 0..Len(text) \subseteq 0..n
    BY <1>5
  <2> QED BY <1>5, <2>1, WiderTypes DEF PositionsInv
<1>8. text' \in {T, T \o Injected}
  BY <1>1 DEF TokenOutside, TokenInside
<1>9. Len(text') <= MaxText
  <2>1. Injected \in ReplyTexts /\ Len(Injected) \in Nat
    BY InjectedIs DEF ReplyTexts
  <2>2. Len(T \o Injected) = Len(T) + Len(Injected)
    BY <1>5, <2>1 DEF ReplyTexts
  <2> QED BY <1>1, <1>5, <1>8, <2>1, <2>2, TokensHaveSymbols
<1>10. /\ tracker'.seen \in 0..Len(text') /\ tracker'.dt \in DtType(Len(text'))
       /\ scan' \in ScanType(Len(text'))
       /\ finish' \in {"length", "stop", "tool_calls", "error"}
  <2>1. CASE TokenInside(T, rest, size)
    BY <1>5, <1>7, <2>1, HeldStays
  <2>2. CASE TokenOutside(T, rest, size)
    <3>1. /\ text' = T /\ tracker' = TrackedTo(tracker, T, size)
          /\ scan' = IF req.tools THEN Observed(T) ELSE scan
          /\ finish' \in {finish, "tool_calls", "stop"}
      BY <2>2 DEF TokenOutside, Stays, Leave
    <3>2. tracker'.seen \in 0..n /\ tracker'.dt \in DtType(n)
      BY <1>5, <1>7, <3>1, TrackerStays
    <3>3. scan' \in ScanType(n)
      BY <1>5, <1>7, <3>1, ObservedStays
    <3> QED BY <1>7, <3>1, <3>2, <3>3
  <2> QED BY <1>1, <2>1, <2>2
<1> QED BY <1>1, <1>6, <1>7, <1>9, <1>10 DEF PositionsInv

(* Steps that leave the tracker alone and let the text grow.               *)
LEMMA GrowingStays ==
  ASSUME ReplyInv, PositionsInv, ReplyInv', stage' # "done",
         NEW T \in ReplyTexts, Grows(text, T), text' = T,
         tracker' = tracker, attempt' = attempt,
         scan' \in ScanType(Len(T)), finish' \in {"length", "stop", "tool_calls", "error"},
         stage' = "decode" => Len(T) <= MaxText
  PROVE  PositionsInv'
<1>1. live' \in LiveType(Len(text'))
  BY LiveFollowsThen
<1>2. Len(text) \in Nat /\ Len(T) \in Nat /\ Len(text) <= Len(T)
  BY DEF ReplyInv, ReplyTexts, Grows
<1>3. tracker.seen \in 0..Len(T) /\ tracker.dt \in DtType(Len(T)) /\ attempt \in 0..1
  <2>1. 0..Len(text) \subseteq 0..Len(T)
    BY <1>2
  <2> QED BY <1>2, <2>1, WiderTypes DEF PositionsInv
<1> QED BY <1>1, <1>3 DEF PositionsInv

(* Asking again puts every position back to 0.                             *)
LEMMA AgainStays ==
  ASSUME ReplyInv, PositionsInv, ReplyInv', DecodeAgain
  PROVE  PositionsInv'
<1>1. /\ stage' = "decode" /\ text' = <<>> /\ tracker' = TrackerStart
      /\ scan' = ScanStart(req) /\ attempt' = 1 /\ finish' = "length" /\ req \in Requests
  BY DEF DecodeAgain, ReplyInv
<1>2. live' \in LiveType(Len(text'))
  BY <1>1, LiveFollowsThen
<1>3. Len(text') = 0
  BY <1>1, EmptySeq
<1> QED BY <1>1, <1>2, <1>3, StartsAtZero, TokensHaveSymbols DEF PositionsInv

(* Every step keeps every position in the text.                            *)
LEMMA PositionsGoOn == ReplyInv /\ PositionsInv /\ [ReplyNext]_replyVars => PositionsInv'
<1> SUFFICES ASSUME ReplyInv, PositionsInv, [ReplyNext]_replyVars PROVE PositionsInv'
  OBVIOUS
<1> DEFINE n == Len(text)
           m == Len(text \o Injected)
<1>1. ReplyInv'
  BY ReplyGoesOn
<1>2. /\ text \in ReplyTexts /\ text \o Injected \in ReplyTexts
      /\ Grows(text, text \o Injected) /\ Grows(text, text)
      /\ n \in Nat /\ m \in Nat /\ n <= m /\ m = n + Len(Injected)
  BY InjectedIs, JoinGrows DEF ReplyInv, Grows, ReplyTexts
<1>3. /\ scan \in ScanType(n) /\ scan \in ScanType(m)
      /\ finish \in {"length", "stop", "tool_calls", "error"}
      /\ stage = "decode" => n <= MaxText
  BY <1>2, WiderTypes DEF PositionsInv
<1> HIDE DEF n, m
<1>4. ASSUME NEW size \in TokenSizes, Sample(size) PROVE PositionsInv'
  BY <1>4, SampleStays
<1>5. CASE Hidden
  BY <1>1, <1>2, <1>3, <1>5, GrowingStays DEF Hidden, n
<1>6. ASSUME NEW guards, CloseThinking(guards), \A k \in {n, m} : guards \in ScanType(k),
             stage = "decode", tracker' = tracker, attempt' = attempt
      PROVE  PositionsInv'
  <2>1. CASE /\ text' = text \o Injected /\ n + Len(Injected) <= MaxText
             /\ scan' = [guards EXCEPT !.waiting = TRUE] /\ Stays
    <3>1. scan' \in ScanType(m)
      BY <1>2, <1>6, <2>1, ScanPuts
    <3>2. stage' = "decode" /\ finish' = finish
      BY <2>1 DEF Stays
    <3> QED BY <1>1, <1>2, <1>3, <1>6, <2>1, <3>1, <3>2, GrowingStays DEF m
  <2>2. CASE scan' = guards /\ Leave("error") /\ UNCHANGED <<text, script>>
    <3>1. stage' = "ended" /\ finish' = "error" /\ text' = text /\ scan' \in ScanType(n)
      BY <1>6, <2>2 DEF Leave
    <3> QED BY <1>1, <1>2, <1>6, <3>1, GrowingStays DEF n
  <2> QED BY <1>6, <2>1, <2>2 DEF CloseThinking, n
<1>7. CASE Eos
  <2>1. stage = "decode" /\ tracker' = tracker /\ attempt' = attempt
    BY <1>7 DEF Eos
  <2>2. CASE CloseThinking([scan EXCEPT !.eosTried = TRUE])
    <3>1. \A k \in {n, m} : [scan EXCEPT !.eosTried = TRUE] \in ScanType(k)
      BY <1>2, <1>3, ScanPuts
    <3> QED BY <1>6, <2>1, <2>2, <3>1
  <2>3. CASE Leave("stop") /\ UNCHANGED <<text, script, scan>>
    <3>1. stage' = "ended" /\ finish' = "stop" /\ text' = text /\ scan' = scan
      BY <2>3 DEF Leave
    <3> QED BY <1>1, <1>2, <1>3, <2>1, <3>1, GrowingStays DEF n
  <2> QED BY <1>7, <2>2, <2>3 DEF Eos
<1>8. CASE EosInBatch
  <2>1. /\ stage' = "ended" /\ finish' = "stop" /\ text' = text /\ scan' = scan
        /\ tracker' = tracker /\ attempt' = attempt
    BY <1>8 DEF EosInBatch, Leave
  <2> QED BY <1>1, <1>2, <1>3, <2>1, GrowingStays DEF n
<1>9. CASE LoopClose
  <2>1. /\ stage = "decode" /\ tracker' = tracker /\ attempt' = attempt
        /\ CloseThinking([scan EXCEPT !.loop = "tried"])
    BY <1>9 DEF LoopClose
  <2>2. \A k \in {n, m} : [scan EXCEPT !.loop = "tried"] \in ScanType(k)
    BY <1>2, <1>3, ScanPuts
  <2> QED BY <1>6, <2>1, <2>2
<1>10. CASE CutOff
  <2>1. /\ stage' = "ended" /\ finish' \in {"length", "error"} /\ text' = text /\ scan' = scan
        /\ tracker' = tracker /\ attempt' = attempt
    BY <1>10 DEF CutOff, Leave
  <2> QED BY <1>1, <1>2, <1>3, <2>1, GrowingStays DEF n
<1>11. CASE Settle
  <2>1. stage' = "settled" /\ tracker' = tracker /\ attempt' = attempt
    BY <1>11 DEF Settle, Settled
  <2>2. CASE Repairable(text) /\ text' = Repaired(text)
             /\ scan' = [scan EXCEPT !.sawEnd = TRUE] /\ finish' = finish
    <3>1. Repaired(text) \in ReplyTexts /\ Grows(text, Repaired(text))
      BY <1>2, <2>2, RepairedIs
    <3>2. Len(text') \in Nat /\ n <= Len(text')
      BY <1>2, <2>2, <3>1 DEF ReplyTexts, Grows, n
    <3>3. scan \in ScanType(Len(text'))
      BY <1>2, <1>3, <3>2, WiderTypes
    <3>4. scan' \in ScanType(Len(text'))
      BY <2>2, <3>2, <3>3, ScanPuts
    <3> QED BY <1>1, <1>3, <2>1, <2>2, <3>1, <3>4, GrowingStays
  <2>3. CASE text' = text /\ scan' = scan /\ finish' \in {finish, "error"}
    BY <1>1, <1>2, <1>3, <2>1, <2>3, GrowingStays DEF n
  <2> QED BY <1>11, <2>2, <2>3 DEF Settle, RepairHelps
<1>12. CASE AskAgain
  BY <1>1, <1>12, AgainStays DEF AskAgain
<1>13. CASE Refuse
  BY <1>1, <1>13, AgainStays DEF Refuse
<1>14. CASE Serialize
  <2>1. /\ stage = "settled" /\ stage' = "done" /\ text' = text /\ tracker' = tracker
        /\ scan' = scan /\ attempt' = attempt
    BY <1>14 DEF Serialize
  <2>2. PICK outcome \in Outcomes(Parsed) : Show(outcome, Shown(outcome.what))
    BY <1>14, Zenon DEF Serialize
  <2>3. live' \in LiveType(Len(text))
    BY <2>1, <2>2, ShownStays DEF Show
  <2>4. finish' \in {"length", "stop", "tool_calls", "error"}
    <3>1. \A how, what : Outcome(how, what).how = how
      BY DEF Outcome
    <3>2. outcome.how \in {"length", "stop", "tool_calls", "error"}
      BY <1>3, <2>2, <3>1 DEF Outcomes
    <3> QED BY <2>2, <3>2 DEF Show
  <2> QED BY <2>1, <2>3, <2>4 DEF PositionsInv
<1>15. CASE UNCHANGED replyVars
  BY <1>15 DEF replyVars, PositionsInv
<1> QED BY <1>4, <1>5, <1>7, <1>8, <1>9, <1>10, <1>11, <1>12, <1>13, <1>14, <1>15
        DEF ReplyNext, Decode

(***************************************************************************)
(* Every place the decode loop, the tracker and the stream keep is a place *)
(* of the text they were taken in, whatever the model says: after a repair,*)
(* a close that was forced and a new attempt too (observe_tool_markers,    *)
(* dsml_decode_tracker_update, openai_sse_stream_update).                  *)
(***************************************************************************)
THEOREM PositionsInText == ReplySpec => []ReplyTypeOK
<1>1. ReplyInit => ReplyInv /\ PositionsInv
  BY ReplyStarts, PositionsStart
<1>2. ReplyInv /\ PositionsInv /\ [ReplyNext]_replyVars => (ReplyInv /\ PositionsInv)'
  BY ReplyGoesOn, PositionsGoOn
<1>3. ReplyInv /\ PositionsInv => ReplyTypeOK
  <2> SUFFICES ASSUME ReplyInv, PositionsInv PROVE ReplyTypeOK
    OBVIOUS
  <2>1. /\ req \in Requests /\ stage \in {"decode", "ended", "settled", "done"}
        /\ text \in Seq(Symbols)
    BY DEF ReplyInv, ReplyTexts
  <2>2. tracker.dt.pos \in 0..Len(text)
    BY DEF PositionsInv, DtType
  <2>3. scan.from \in 0..Len(text) /\ scan.recovery \in 0..Len(text)
    BY DEF PositionsInv, ScanType
  <2>4. /\ live.mode \in {"thinking", "text", "tool", "suppress"}
        /\ live.emit \in 0..Len(text) /\ live.tool \in ToolType(Len(text))
    BY DEF PositionsInv, LiveType
  <2>5. /\ live.tool.pos \in 0..Len(text)
        /\ live.tool.state \in {"none", "invokes", "params", "value", "done", "error"}
    BY <2>4 DEF ToolType
  <2> QED BY <2>1, <2>2, <2>3, <2>4, <2>5 DEF ReplyTypeOK, PositionsInv
<1> QED BY <1>1, <1>2, <1>3, PTL DEF ReplySpec
=============================================================================
