-------------------------- MODULE DistSession_proof --------------------------
(***************************************************************************)
(* Theorems about DistSession, for any workers, layers, transcripts, chunk *)
(* and window sizes, and any number of faults: what a caller is given, and *)
(* what is saved, was computed from rows of exactly the tokens before it.  *)
(***************************************************************************)
EXTENDS DistSession, SequenceTheorems, TLAPS

(* A state may be continued only if its rows are right, and its cached     *)
(* hash is that of its timeline.                                           *)
GoodStates == {s \in States : /\ s.hash \in {NoHash, s.tl}
                              /\ (s.valid => s.sound)}

(* A frame that says where it starts, and starts anew only with a reset.   *)
GoodFrames == {f \in Frames :
  /\ f.sound
  /\ f.reset <=> f.pre = <<>>
  /\ f.pre \o SubSeq(f.post, Len(f.pre) + 1, Len(f.post)) = f.post}

GoodLate == {l \in LateFrames : l.frame \in GoodFrames}
GoodResults == {r \in Results : r.sound}
GoodOwn == {o \in [tl : Transcripts, valid : BOOLEAN] : o.valid => o.tl # <<>>}
GoodLogits == {l \in [of : Transcripts, sound : BOOLEAN] : l.sound}
GoodSaved == {s \in [of : Transcripts, logits : Transcripts, sound : BOOLEAN] : s.sound}

(* The coordinator's layers stand where the next chunk begins. *)
CallOK ==
  /\ Evaluating => /\ call.next <= Len(call.target)
                   /\ (call.next = 0 => call.reset)
                   /\ \/ call.reset /\ call.next = 0
                      \/ own.valid /\ own.tl = SubSeq(call.target, 1, call.next)
  /\ call.op = "save" => call.sound

(* The plan the registry still has the generation of is one to use. *)
PlanSupported ==
  plan.current => /\ plan.ready /\ Covers(plan.path)
                  /\ \A w \in ToSet(plan.path) : entry[w] # "none"
                  /\ (plan.live => entry[plan.path[1]] = "live")

WorkersOK ==
  /\ at \in [Workers -> {"away", "connected", "hup"}]
  /\ entry \in [Workers -> {"none", "live", "dead"}]
  /\ kv \in [Workers -> GoodStates]
  /\ fwd \subseteq Workers \X Workers

TrafficOK ==
  /\ wire \in [Hops -> Seq(GoodFrames)]
  /\ back \in Seq(GoodResults)
  /\ late \subseteq GoodLate

CoordinatorOK ==
  /\ plan \in Plans
  /\ own \in GoodOwn
  /\ logits \in GoodLogits
  /\ call \in CallStates
  /\ answer \in Answers
  /\ saved \in GoodSaved
  /\ faults \in 0..MaxFaults

Inv == WorkersOK /\ TrafficOK /\ CoordinatorOK /\ CallOK /\ PlanSupported

-----------------------------------------------------------------------------
LEMMA TranscriptIsSeq ==
  ASSUME NEW t \in Transcripts
  PROVE  /\ t \in Seq(Tokens) /\ Len(t) \in Nat
         /\ \A n \in 0..Len(t) : SubSeq(t, 1, n) \in Transcripts
BY TranscriptsArePrefixClosed, LenProperties

LEMMA EmptyIsTranscript == <<>> \in Transcripts
BY TranscriptsArePrefixClosed

LEMMA RouteOK ==
  ASSUME NEW R \in SUBSET Workers, NEW p \in Routes(R)
  PROVE  /\ p \in Seq(Workers) /\ p # <<>> /\ Len(p) >= 1
         /\ ToSet(p) \subseteq R /\ p[1] \in R
         /\ Covers(p)
<1>1. PICK k \in 1..Cardinality(R) : p \in [1..k -> R]
  BY DEF Routes, Chains, Paths
<1>2. k \in Nat /\ k >= 1
  OBVIOUS
<1>3. p \in Seq(R) /\ Len(p) = k /\ DOMAIN p = 1..k
  BY <1>1, <1>2
<1>4. p \in Seq(Workers)
  BY <1>1, <1>2
<1>5. p # <<>>
  BY <1>2, <1>3
<1>6. ToSet(p) \subseteq R /\ p[1] \in R
  BY <1>1, <1>2, <1>3 DEF ToSet
<1>7. Covers(p)
  BY <1>5 DEF Routes, Chains, Covers
<1> QED BY <1>2, <1>3, <1>4, <1>5, <1>6, <1>7

LEMMA BuiltOK ==
  ASSUME NEW e \in [Workers -> {"none", "live", "dead"}], NEW q \in Built(e)
  PROVE  /\ q \in Plans /\ q.path # <<>> /\ q.ready /\ Covers(q.path)
         /\ \A w \in ToSet(q.path) : e[w] # "none"
         /\ (q.live => e[q.path[1]] = "live")
<1> DEFINE R == {w \in Workers : e[w] # "none"}
<1>1. PICK p \in Routes(R) :
        q = [path |-> p, ready |-> TRUE, current |-> TRUE, live |-> e[p[1]] = "live"]
  BY DEF Built
<1>2. /\ p \in Seq(Workers) /\ p # <<>> /\ ToSet(p) \subseteq R /\ Covers(p)
  BY RouteOK
<1> QED BY <1>1, <1>2 DEF Plans

LEMMA PlanSame ==
  ASSUME PlanSupported, UNCHANGED <<plan, entry>>
  PROVE  PlanSupported'
BY DEF PlanSupported, Covers

LEMMA PlanStale ==
  ASSUME ~plan'.current
  PROVE  PlanSupported'
BY DEF PlanSupported

LEMMA PlanBuilt ==
  ASSUME entry' \in [Workers -> {"none", "live", "dead"}], plan' \in Built(entry')
  PROVE  plan' \in Plans /\ PlanSupported'
BY BuiltOK DEF PlanSupported, Covers

LEMMA CallSame ==
  ASSUME CallOK, UNCHANGED <<call, own>>
  PROVE  CallOK'
BY DEF CallOK, Evaluating

LEMMA CallOver ==
  ASSUME call' = Idle
  PROVE  call' \in CallStates /\ CallOK'
BY EmptyIsTranscript DEF Idle, CallOK, Evaluating, CallStates, Ops

LEMMA EndsOK ==
  ASSUME NEW op \in Ops, NEW target \in Transcripts, NEW ok \in BOOLEAN,
         Ends(op, target, ok)
  PROVE  call' \in CallStates /\ CallOK' /\ answer' \in Answers
BY CallOver DEF Ends, Answers

-----------------------------------------------------------------------------
(* Connections.                                                            *)

LEMMA HungUpTyped ==
  ASSUME WorkersOK, NEW S
  PROVE  HungUp(S) \in [Workers -> {"away", "connected", "hup"}]
BY DEF WorkersOK, HungUp

LEMMA DeadTyped ==
  ASSUME WorkersOK, NEW S
  PROVE  /\ Dead(S) \in [Workers -> {"none", "live", "dead"}]
         /\ \A w \in Workers : /\ (Dead(S)[w] = "none") = (entry[w] = "none")
                               /\ (w \notin S => Dead(S)[w] = entry[w])
BY DEF WorkersOK, Dead

LEMMA InFlightGood ==
  ASSUME TrafficOK, plan \in Plans
  PROVE  InFlight \subseteq GoodLate
<1> SUFFICES ASSUME NEW k \in Hops, k <= LastHop, NEW i \in DOMAIN wire[k]
             PROVE [path |-> plan.path, hop |-> k, frame |-> wire[k][i]] \in GoodLate
  BY DEF InFlight
<1>1. wire[k][i] \in GoodFrames
  BY DEF TrafficOK
<1>2. plan.path \in Seq(Workers) /\ k \in 1..Len(plan.path) /\ k \in Nat
  BY DEF Plans, LastHop, Hops
<1> QED BY <1>1, <1>2 DEF GoodLate, LateFrames, GoodFrames

LEMMA AbandonGood ==
  ASSUME TrafficOK, plan \in Plans, NEW old \in SUBSET GoodLate, Abandon(old)
  PROVE  wire' \in [Hops -> Seq(GoodFrames)] /\ late' \subseteq GoodLate
BY InFlightGood DEF Abandon

(* Whatever ends with the connections of S, the plan is still as current   *)
(* as it says.                                                             *)
LEMMA PlanAfterLoss ==
  ASSUME WorkersOK, plan \in Plans, PlanSupported, NEW S, entry' = Dead(S),
         \/ plan' = [plan EXCEPT !.live = FALSE]
         \/ plan' = plan /\ ~UsesLive(S)
  PROVE  plan' \in Plans /\ PlanSupported'
<1>1. /\ plan' \in Plans /\ plan'.path = plan.path /\ plan'.ready = plan.ready
      /\ plan'.current = plan.current /\ plan'.live \in BOOLEAN
      /\ (plan'.live => plan' = plan /\ plan.path[1] \notin S)
  BY DEF Plans, UsesLive
<1> SUFFICES ASSUME plan.current
             PROVE  PlanSupported'
  BY <1>1 DEF PlanSupported
<1>2. /\ plan.ready /\ Covers(plan.path) /\ plan.path \in Seq(Workers)
      /\ plan.path # <<>>
      /\ \A w \in ToSet(plan.path) : entry[w] # "none"
      /\ (plan.live => entry[plan.path[1]] = "live")
  BY DEF PlanSupported, Covers, Plans
<1>3. plan.path[1] \in Workers /\ ToSet(plan.path) \subseteq Workers
  BY <1>2 DEF ToSet
<1>4. \A w \in ToSet(plan.path) : entry'[w] # "none"
  BY <1>2, <1>3, DeadTyped
<1>5. plan'.live => entry'[plan.path[1]] = "live"
  BY <1>1, <1>2, <1>3, DeadTyped
<1> QED BY <1>1, <1>2, <1>4, <1>5 DEF PlanSupported, Covers

LEMMA ErrorGood ==
  ASSUME NEW f \in GoodFrames, NEW s \in Seq(GoodResults)
  PROVE  Append(s, [post |-> f.post, ok |-> FALSE, sound |-> TRUE]) \in Seq(GoodResults)
<1>1. [post |-> f.post, ok |-> FALSE, sound |-> TRUE] \in GoodResults
  BY DEF GoodFrames, Frames, GoodResults, Results
<1> QED BY <1>1

LEMMA RelayTraffic ==
  ASSUME Inv, NEW S, NEW old \in SUBSET GoodLate, RelaysEnd(S, old)
  PROVE  TrafficOK'
<1>1. CASE UsesLive(S)
  <2>1. Abandon(old) /\ plan \in Plans /\ TrafficOK
    BY <1>1 DEF RelaysEnd, Inv, CoordinatorOK
  <2>2. back' \in Seq(GoodResults)
    <3>1. CASE back' = back
      BY <2>1, <3>1 DEF TrafficOK
    <3> DEFINE unanswered == UNION {{wire[k][i] : i \in DOMAIN wire[k]} : k \in Hops \ {1}}
    <3>2. ASSUME NEW f \in unanswered,
                 back' = Append(back, [post |-> f.post, ok |-> FALSE, sound |-> TRUE])
          PROVE  back' \in Seq(GoodResults)
      <4>1. PICK k \in Hops : f \in {wire[k][i] : i \in DOMAIN wire[k]}
        OBVIOUS
      <4>2. wire[k] \in Seq(GoodFrames)
        BY <2>1 DEF TrafficOK
      <4>3. f \in GoodFrames
        BY <4>1, <4>2
      <4> QED BY <2>1, <3>2, <4>3, ErrorGood DEF TrafficOK
    <3> QED BY <1>1, <3>1, <3>2 DEF RelaysEnd
  <2> QED BY <2>1, <2>2, AbandonGood DEF TrafficOK
<1>2. CASE ~UsesLive(S)
  BY <1>2 DEF RelaysEnd, Inv, TrafficOK
<1> QED BY <1>1, <1>2

LEMMA NothingBack == <<>> \in Seq(GoodResults)
OBVIOUS

LEMMA EmptyGood == Empty \in GoodStates
BY EmptyIsTranscript DEF Empty, GoodStates, States

LEMMA RegisterStep ==
  ASSUME Inv, NEW w \in Workers, Register(w)
  PROVE  Inv'
<1>1. WorkersOK'
  BY DEF Register, Inv, WorkersOK
<1>2. plan' \in Plans /\ ~plan'.current
  BY DEF Register, Inv, CoordinatorOK, Plans, NewGeneration
<1> QED BY <1>1, <1>2, CallSame, PlanStale DEF Register, Inv, TrafficOK, CoordinatorOK

LEMMA RemoveWorkerStep ==
  ASSUME Inv, NEW w \in Workers, RemoveWorker(w)
  PROVE  Inv'
<1>1. WorkersOK'
  BY DEF RemoveWorker, Inv, WorkersOK
<1>2. plan' \in Plans /\ ~plan'.current
  BY DEF RemoveWorker, Inv, CoordinatorOK, Plans, NewGeneration
<1> QED BY <1>1, <1>2, CallSame, PlanStale DEF RemoveWorker, Inv, TrafficOK, CoordinatorOK

LEMMA NoticeStep ==
  ASSUME Inv, NEW w \in Workers, Notice(w)
  PROVE  Inv'
<1>1. WorkersOK'
  BY EmptyGood DEF Notice, Inv, WorkersOK
<1>2. TrafficOK'
  BY DEF Notice, Inv, TrafficOK
<1> QED BY <1>1, <1>2, CallSame, PlanSame DEF Notice, Inv, CoordinatorOK

LEMMA FaultTyped ==
  ASSUME faults \in 0..MaxFaults, Fault
  PROVE  faults' \in 0..MaxFaults
BY BoundsAreNat DEF Fault

LEMMA CrashStep ==
  ASSUME Inv, NEW w \in Workers, Crash(w)
  PROVE  Inv'
<1> DEFINE upstream == {u \in Workers : <<u, w>> \in fwd}
           lost == upstream \cup {w}
           rest == {l \in late : l.path[l.hop] # w}
<1>1. entry' = Dead(lost) /\ at' = [HungUp(upstream) EXCEPT ![w] = "away"]
  BY DEF Crash
<1>2. WorkersOK'
  BY <1>1, DeadTyped, HungUpTyped, EmptyGood DEF Crash, Inv, WorkersOK
<1>3. rest \in SUBSET GoodLate /\ plan \in Plans /\ back \in Seq(GoodResults)
  BY DEF Inv, TrafficOK, CoordinatorOK
<1>4. TrafficOK' /\ plan' \in Plans /\ PlanSupported'
  <2>1. CASE UsesLive({w})
    <3>1. /\ Abandon(rest) /\ plan' = [plan EXCEPT !.live = FALSE]
          /\ back' \in {back, <<>>}
      BY <2>1 DEF Crash
    <3>2. back' \in Seq(GoodResults)
      BY <1>3, <3>1, NothingBack
    <3>3. plan' \in Plans /\ PlanSupported'
      BY <1>1, <1>3, <3>1, PlanAfterLoss DEF Inv
    <3>4. wire' \in [Hops -> Seq(GoodFrames)] /\ late' \subseteq GoodLate
      BY <1>3, <3>1, AbandonGood DEF Inv
    <3> QED BY <3>2, <3>3, <3>4 DEF TrafficOK
  <2>2. CASE ~UsesLive({w})
    <3>1. RelaysEnd(upstream, rest)
      BY <2>2 DEF Crash
    <3>2. CASE UsesLive(upstream)
      <4>1. plan' = [plan EXCEPT !.live = FALSE] /\ TrafficOK'
        BY <1>3, <3>1, <3>2, RelayTraffic DEF RelaysEnd
      <4> QED BY <1>1, <1>3, <4>1, PlanAfterLoss DEF Inv
    <3>3. CASE ~UsesLive(upstream)
      <4>1. plan' = plan /\ TrafficOK'
        BY <1>3, <3>1, <3>3, RelayTraffic DEF RelaysEnd
      <4>2. ~UsesLive(lost)
        BY <2>2, <3>3 DEF UsesLive
      <4> QED BY <1>1, <1>3, <4>1, <4>2, PlanAfterLoss DEF Inv
    <3> QED BY <3>2, <3>3
  <2> QED BY <2>1, <2>2
<1>5. faults' \in 0..MaxFaults
  BY FaultTyped DEF Crash, Inv, CoordinatorOK
<1> QED BY <1>2, <1>4, <1>5, CallSame DEF Crash, Inv, CoordinatorOK

LEMMA DisconnectStep ==
  ASSUME Inv, NEW w \in Workers, Disconnect(w)
  PROVE  Inv'
<1>1. entry' = Dead({w}) /\ at' = HungUp({w})
  BY DEF Disconnect
<1>2. WorkersOK'
  BY <1>1, DeadTyped, HungUpTyped DEF Disconnect, Inv, WorkersOK
<1>3. late \in SUBSET GoodLate /\ plan \in Plans /\ back \in Seq(GoodResults)
  BY DEF Inv, TrafficOK, CoordinatorOK
<1>4. TrafficOK' /\ plan' \in Plans /\ PlanSupported'
  <2>1. CASE UsesLive({w})
    <3>1. /\ Abandon(late) /\ plan' = [plan EXCEPT !.live = FALSE]
          /\ back' \in {back, <<>>}
      BY <2>1 DEF Disconnect
    <3>2. back' \in Seq(GoodResults)
      BY <1>3, <3>1, NothingBack
    <3>3. plan' \in Plans /\ PlanSupported'
      BY <1>1, <1>3, <3>1, PlanAfterLoss DEF Inv
    <3>4. wire' \in [Hops -> Seq(GoodFrames)] /\ late' \subseteq GoodLate
      BY <1>3, <3>1, AbandonGood DEF Inv
    <3> QED BY <3>2, <3>3, <3>4 DEF TrafficOK
  <2>2. CASE ~UsesLive({w})
    <3>1. UNCHANGED <<plan, wire, back, late>>
      BY <2>2 DEF Disconnect
    <3> QED BY <1>1, <1>3, <2>2, <3>1, PlanAfterLoss DEF Inv, TrafficOK
  <2> QED BY <2>1, <2>2
<1>5. faults' \in 0..MaxFaults
  BY FaultTyped DEF Disconnect, Inv, CoordinatorOK
<1> QED BY <1>2, <1>4, <1>5, CallSame DEF Disconnect, Inv, CoordinatorOK

LEMMA LinkBreaksStep ==
  ASSUME Inv, NEW u \in Workers, NEW w \in Workers, LinkBreaks(u, w)
  PROVE  Inv'
<1>1. entry' = Dead({u}) /\ at' = HungUp({u}) /\ RelaysEnd({u}, late)
  BY DEF LinkBreaks
<1>2. WorkersOK'
  BY <1>1, DeadTyped, HungUpTyped DEF LinkBreaks, Inv, WorkersOK
<1>3. late \in SUBSET GoodLate /\ plan \in Plans
  BY DEF Inv, TrafficOK, CoordinatorOK
<1>4. TrafficOK'
  BY <1>1, <1>3, RelayTraffic
<1>5. plan' \in Plans /\ PlanSupported'
  BY <1>1, <1>3, PlanAfterLoss DEF Inv, RelaysEnd
<1>6. faults' \in 0..MaxFaults
  BY FaultTyped DEF LinkBreaks, Inv, CoordinatorOK
<1> QED BY <1>2, <1>4, <1>5, <1>6, CallSame DEF LinkBreaks, Inv, CoordinatorOK

-----------------------------------------------------------------------------
(* Workers.                                                                *)

LEMMA BaseGood ==
  ASSUME NEW s \in GoodStates, NEW f \in GoodFrames
  PROVE  /\ Base(s, f) \in GoodStates /\ Base(s, f).hash = Base(s, f).tl
         /\ (f.reset => Base(s, f).sound)
<1>1. CASE f.reset
  BY <1>1, EmptyIsTranscript DEF Base, Empty, GoodStates, States
<1>2. CASE ~f.reset
  <2>1. s.tl \in Transcripts /\ s.hash \in {NoHash, s.tl}
    BY DEF GoodStates, States
  <2> QED BY <1>2, <2>1 DEF Base, GoodStates, States
<1> QED BY <1>1, <1>2

(* What the prefix check lets through is evaluated on rows of exactly the  *)
(* tokens before the frame.                                                *)
LEMMA ExtendedGood ==
  ASSUME NEW s \in GoodStates, NEW f \in GoodFrames, Does(Base(s, f), f)
  PROVE  Extended(Base(s, f), f) \in GoodStates /\ Extended(Base(s, f), f).sound
<1> DEFINE b == Base(s, f)
<1>1. b \in GoodStates /\ b.hash = b.tl /\ (f.reset => b.sound)
  BY BaseGood
<1>2. b.tl = f.pre
  BY <1>1 DEF Does, SamePrefix
<1>3. f.sound = TRUE /\ f.post \in Transcripts /\ (f.pre = <<>> => f.reset)
      /\ f.pre \o SubSeq(f.post, Len(f.pre) + 1, Len(f.post)) = f.post
  BY DEF GoodFrames, Frames
<1>4. b.sound = TRUE
  BY <1>1, <1>3 DEF Does, Continues, GoodStates, States
<1>5. Extended(b, f) = [tl |-> f.post, valid |-> TRUE, hash |-> f.post, sound |-> TRUE]
  BY <1>2, <1>3, <1>4 DEF Extended
<1> HIDE DEF b
<1> QED BY <1>3, <1>5 DEF GoodStates, States, b

LEMMA RefusedGood ==
  ASSUME NEW s \in GoodStates, NEW f \in GoodFrames
  PROVE  /\ Refused(Base(s, f), f) \in GoodStates
         /\ Spoiled(Base(s, f)) \in GoodStates
<1> DEFINE b == Base(s, f)
<1>1. b \in GoodStates
  BY BaseGood
<1>2. [b EXCEPT !.hash = NoHash] \in GoodStates
  BY <1>1 DEF GoodStates, States
<1>3. Spoiled(b) \in GoodStates
  BY <1>1 DEF GoodStates, States, Spoiled
<1> QED BY <1>1, <1>2, <1>3 DEF Refused

LEMMA FrameSound ==
  ASSUME NEW f \in GoodFrames, NEW x, x = TRUE
  PROVE  [f EXCEPT !.sound = x] = f
BY DEF GoodFrames, Frames

LEMMA TakenGood ==
  ASSUME Inv, NEW k \in Hops, Takes(k)
  PROVE  /\ plan.path[k] \in Workers /\ kv[plan.path[k]] \in GoodStates
         /\ Head(wire[k]) \in GoodFrames /\ Tail(wire[k]) \in Seq(GoodFrames)
         /\ (k < LastHop => plan.path[k + 1] \in Workers)
<1>1. plan.path \in Seq(Workers) /\ wire[k] \in Seq(GoodFrames) /\ wire[k] # <<>>
      /\ k \in 1..LastHop /\ LastHop \in Nat
  BY DEF Inv, CoordinatorOK, Plans, TrafficOK, Takes, LastHop, Hops
<1>2. plan.path[k] \in Workers /\ (k < LastHop => plan.path[k + 1] \in Workers)
  BY <1>1 DEF LastHop
<1>3. Head(wire[k]) \in GoodFrames /\ Tail(wire[k]) \in Seq(GoodFrames)
  BY <1>1, HeadTailProperties
<1> QED BY <1>1, <1>2, <1>3 DEF Inv, WorkersOK

LEMMA Sent ==
  ASSUME NEW q \in [Hops -> Seq(GoodFrames)], NEW k, NEW f \in GoodFrames
  PROVE  [q EXCEPT ![k] = Append(@, f)] \in [Hops -> Seq(GoodFrames)]
<1>1. \A j \in Hops : [q EXCEPT ![k] = Append(@, f)][j] \in Seq(GoodFrames)
  OBVIOUS
<1> QED BY <1>1

LEMMA ResultGood ==
  ASSUME NEW f \in GoodFrames, NEW ok \in BOOLEAN
  PROVE  [post |-> f.post, ok |-> ok, sound |-> TRUE] \in GoodResults
BY DEF GoodFrames, Frames, GoodResults, Results

LEMMA WorkStep ==
  ASSUME Inv, NEW k \in Hops, Takes(k), Work(k)
  PROVE  Inv'
<1> DEFINE w == plan.path[k]
           f == Head(wire[k])
           s == Extended(Base(kv[w], f), f)
<1>1. /\ w \in Workers /\ kv[w] \in GoodStates /\ f \in GoodFrames
      /\ Tail(wire[k]) \in Seq(GoodFrames)
      /\ (k < LastHop => plan.path[k + 1] \in Workers)
  BY TakenGood
<1>2. Does(Base(kv[w], f), f)
  BY DEF Work
<1>3. s \in GoodStates /\ s.sound = TRUE
  BY <1>1, <1>2, ExtendedGood DEF GoodStates, States
<1>4. kv' = [kv EXCEPT ![w] = s]
  BY DEF Work
<1> HIDE DEF s, f, w
<1>5. WorkersOK'
  <2>1. fwd' \subseteq Workers \X Workers
    BY <1>1 DEF Work, Inv, WorkersOK, w
  <2> QED BY <1>1, <1>3, <1>4, <2>1 DEF Work, Inv, WorkersOK
<1>6. TrafficOK'
  <2> DEFINE rest == [wire EXCEPT ![k] = Tail(@)]
  <2>1. rest \in [Hops -> Seq(GoodFrames)]
    BY <1>1 DEF Inv, TrafficOK
  <2>2. CASE k < LastHop
    <3>1. /\ wire' = [rest EXCEPT ![k + 1] = Append(@, [f EXCEPT !.sound = s.sound])]
          /\ back' = back /\ late' = late
      <4>1. k \in Nat /\ k + 1 # k
        BY DEF Hops
      <4> QED BY <2>2, <4>1 DEF Work, s, f, w
    <3>2. [f EXCEPT !.sound = s.sound] = f
      BY <1>1, <1>3, FrameSound
    <3> HIDE DEF rest
    <3>3. wire' \in [Hops -> Seq(GoodFrames)]
      BY <1>1, <2>1, <3>1, <3>2, Sent
    <3> QED BY <3>1, <3>3 DEF Inv, TrafficOK
  <2>3. CASE ~(k < LastHop)
    <3>1. /\ wire' = rest /\ late' = late
          /\ back' = Append(back, [post |-> f.post, ok |-> TRUE, sound |-> s.sound])
      BY <2>3 DEF Work, s, f, w
    <3>2. [post |-> f.post, ok |-> TRUE, sound |-> s.sound] \in GoodResults
      BY <1>1, <1>3, ResultGood
    <3> QED BY <2>1, <3>1, <3>2 DEF Inv, TrafficOK
  <2> QED BY <2>2, <2>3
<1>7. UNCHANGED <<entry, plan, own, logits, call, answer, saved, faults>>
  BY DEF Work
<1> QED BY <1>5, <1>6, <1>7, CallSame, PlanSame DEF Inv, CoordinatorOK

LEMMA WorkRefusedStep ==
  ASSUME Inv, NEW k \in Hops, Takes(k), WorkRefused(k)
  PROVE  Inv'
<1> DEFINE w == plan.path[k]
           f == Head(wire[k])
           b == Base(kv[w], f)
<1>1. /\ w \in Workers /\ kv[w] \in GoodStates /\ f \in GoodFrames
      /\ Tail(wire[k]) \in Seq(GoodFrames)
  BY TakenGood
<1>2. /\ \/ ~Does(b, f) /\ kv' = [kv EXCEPT ![w] = Refused(b, f)] /\ faults' = faults
         \/ Does(b, f) /\ Fault /\ \/ kv' = [kv EXCEPT ![w] = Spoiled(b)]
                                   \/ kv' = [kv EXCEPT ![w] = Extended(b, f)]
      /\ wire' = [wire EXCEPT ![k] = Tail(@)]
      /\ back' = Append(back, [post |-> f.post, ok |-> FALSE, sound |-> TRUE])
      /\ UNCHANGED <<at, entry, fwd, plan, own, logits, call, answer, late, saved>>
  BY DEF WorkRefused, ErrorReply
<1>3. /\ Refused(b, f) \in GoodStates /\ Spoiled(b) \in GoodStates
      /\ (Does(b, f) => Extended(b, f) \in GoodStates)
  BY <1>1, RefusedGood, ExtendedGood
<1> HIDE DEF b, f, w
<1>4. WorkersOK'
  BY <1>1, <1>2, <1>3 DEF Inv, WorkersOK
<1>5. TrafficOK'
  BY <1>1, <1>2, ErrorGood DEF Inv, TrafficOK
<1>6. faults' \in 0..MaxFaults
  BY <1>2, FaultTyped DEF Inv, CoordinatorOK
<1> QED BY <1>2, <1>4, <1>5, <1>6, CallSame, PlanSame DEF Inv, CoordinatorOK

LEMMA LateWorkStep ==
  ASSUME Inv, NEW l \in late, LateWork(l)
  PROVE  Inv'
<1> DEFINE w == l.path[l.hop]
           f == l.frame
           b == Base(kv[w], f)
           s == Extended(b, f)
           on == [path |-> l.path, hop |-> l.hop + 1, frame |-> [f EXCEPT !.sound = s.sound]]
<1>1. l \in LateFrames /\ f \in GoodFrames
  BY DEF Inv, TrafficOK, GoodLate
<1>2. /\ l.path \in Seq(Workers) /\ l.hop \in 1..Len(l.path)
      /\ w \in Workers
  BY <1>1 DEF LateFrames
<1>3. kv[w] \in GoodStates
  BY <1>2 DEF Inv, WorkersOK
<1>4. Refused(b, f) \in GoodStates /\ (Does(b, f) => s \in GoodStates /\ s.sound)
  BY <1>1, <1>3, RefusedGood, ExtendedGood
<1>5. kv' = [kv EXCEPT ![w] = IF Does(b, f) THEN s ELSE Refused(b, f)]
  BY DEF LateWork
<1>6. \/ late' = late \ {l}
      \/ Does(b, f) /\ l.hop < Len(l.path) /\ late' = (late \ {l}) \cup {on}
  BY DEF LateWork
<1>7. ASSUME Does(b, f), l.hop < Len(l.path)
      PROVE  on \in GoodLate
  <2>1. s.sound = TRUE
    BY <1>4, <1>7 DEF GoodStates, States
  <2>2. [f EXCEPT !.sound = s.sound] = f
    BY <1>1, <2>1, FrameSound
  <2>3. on = [path |-> l.path, hop |-> l.hop + 1, frame |-> f]
    BY <2>2
  <2>4. l.hop + 1 \in 1..Len(l.path) /\ l.hop + 1 \in Nat
    BY <1>2, <1>7
  <2>5. f \in Frames
    BY <1>1 DEF GoodFrames
  <2> HIDE DEF on, f
  <2> QED BY <1>1, <1>2, <2>3, <2>4, <2>5 DEF GoodLate, LateFrames
<1>8. UNCHANGED <<at, entry, fwd, plan, own, logits, call, answer, wire, back, saved, faults>>
  BY DEF LateWork
<1> HIDE DEF on, s, b, f, w
<1>9. WorkersOK'
  BY <1>2, <1>4, <1>5, <1>8 DEF Inv, WorkersOK
<1>10. TrafficOK'
  BY <1>6, <1>7, <1>8 DEF Inv, TrafficOK
<1> QED BY <1>8, <1>9, <1>10, CallSame, PlanSame DEF Inv, CoordinatorOK

-----------------------------------------------------------------------------
(* The calls.                                                              *)

LEMMA MinOfTwo ==
  ASSUME NEW i \in Nat, NEW j \in Nat
  PROVE  /\ Min({i, j}) \in Nat /\ Min({i, j}) <= i /\ Min({i, j}) <= j
         /\ Min({i, j}) \in {i, j}
<1>1. \E x \in {i, j} : \A y \in {i, j} : x =< y
  OBVIOUS
<1> QED BY <1>1 DEF Min

LEMMA EnsuredOK ==
  ASSUME Inv, plan' \in Ensured, entry' = entry
  PROVE  plan' \in Plans /\ PlanSupported'
<1>1. CASE plan.ready /\ plan.current
  BY <1>1, PlanSame DEF Ensured, Inv, CoordinatorOK
<1>2. CASE ~(plan.ready /\ plan.current)
  BY <1>2, PlanBuilt DEF Ensured, Inv, WorkersOK
<1> QED BY <1>1, <1>2

LEMMA NoPlanOK ==
  ASSUME plan' = NoPlan
  PROVE  plan' \in Plans /\ PlanSupported'
BY DEF NoPlan, Plans, PlanSupported

LEMMA NoRouteStep ==
  ASSUME Inv, NEW op \in Ops, NEW target \in Transcripts, NoRoute(op, target),
         own' \in GoodOwn
  PROVE  Inv'
<1>1. plan' \in Plans /\ PlanSupported'
  BY NoPlanOK DEF NoRoute
<1>2. call' \in CallStates /\ CallOK' /\ answer' \in Answers
  BY EndsOK DEF NoRoute
<1> QED BY <1>1, <1>2 DEF NoRoute, Inv, WorkersOK, TrafficOK, CoordinatorOK, workerVars

LEMMA AtOnceStep ==
  ASSUME Inv, NEW op \in Ops, NEW target \in Transcripts, NEW ok \in BOOLEAN,
         plan' \in Ensured, Ends(op, target, ok),
         UNCHANGED <<workerVars, own, logits, wire, back, late, saved, faults>>
  PROVE  Inv'
<1>1. plan' \in Plans /\ PlanSupported'
  BY EnsuredOK DEF workerVars
<1>2. call' \in CallStates /\ CallOK' /\ answer' \in Answers
  BY EndsOK
<1> QED BY <1>1, <1>2 DEF Inv, WorkersOK, TrafficOK, CoordinatorOK, workerVars

(* A call starts where the coordinator's layers stand, or anew. *)
LEMMA CallsStep ==
  ASSUME Inv, NEW op \in Ops, NEW target \in Transcripts, NEW from \in Nat,
         NEW reset \in BOOLEAN, Calls(op, target, from, reset),
         from <= Len(target),
         op \in {"sync", "eval"} => \/ reset /\ from = 0
                                    \/ /\ from # 0 /\ own.valid
                                       /\ own.tl = SubSeq(target, 1, from)
  PROVE  Inv'
<1>1. plan' \in Plans /\ PlanSupported'
  BY EnsuredOK DEF workerVars, Calls
<1>2. call' = [op |-> op, target |-> target, from |-> from, next |-> from, got |-> from,
               reset |-> reset, piped |-> Len(target) - from > Cap, replay |-> FALSE,
               sound |-> TRUE]
  BY DEF Calls, Idle
<1>3. call' \in CallStates
  BY <1>2 DEF CallStates
<1>4. CallOK'
  <2>1. /\ call'.op = op /\ call'.target = target /\ call'.next = from
        /\ call'.reset = reset /\ call'.sound = TRUE
    BY <1>2
  <2>2. own' = own
    BY DEF Calls
  <2> QED BY <2>1, <2>2 DEF CallOK, Evaluating
<1>5. answer' \in Answers
  BY EmptyIsTranscript DEF Calls, NoAnswer, Answers, Ops
<1> QED BY <1>1, <1>3, <1>4, <1>5 DEF Calls, Inv, WorkersOK, TrafficOK, CoordinatorOK, workerVars

LEMMA BeginSyncStep ==
  ASSUME Inv, NEW p \in Prompts, BeginSync(p)
  PROVE  Inv'
<1>1. p \in Transcripts /\ own \in GoodOwn /\ "sync" \in Ops /\ Len(p) \in Nat
  BY PromptsAreTranscripts, TranscriptIsSeq DEF Inv, CoordinatorOK, Ops
<1>2. CASE NoRoute("sync", p) /\ own' = own
  BY <1>1, <1>2, NoRouteStep
<1>3. CASE /\ plan' \in Ensured
           /\ Ends("sync", p, TRUE)
           /\ UNCHANGED <<workerVars, own, logits, wire, back, late, saved, faults>>
  BY <1>1, <1>3, AtOnceStep
<1>4. CASE PrefixOf(p) /\ Calls("sync", p, Len(own.tl), FALSE)
  <2>1. own.tl \in Seq(Tokens) /\ own.tl # <<>> /\ own.valid /\ Len(own.tl) <= Len(p)
    BY <1>1, <1>4, TranscriptIsSeq DEF PrefixOf, IsStrictPrefix, IsPrefix, GoodOwn
  <2>2. Len(own.tl) \in Nat /\ Len(own.tl) # 0
    BY <2>1, LenProperties
  <2>3. own.tl = SubSeq(p, 1, Len(own.tl))
    BY <1>4, <2>1, SubSeqFull DEF PrefixOf, IsStrictPrefix, IsPrefix
  <2> QED BY <1>1, <1>4, <2>1, <2>2, <2>3, CallsStep
<1>5. CASE Calls("sync", p, 0, TRUE)
  <2>1. 0 \in Nat /\ 0 <= Len(p) /\ TRUE \in BOOLEAN
    BY <1>1
  <2> QED BY <1>1, <1>5, <2>1, CallsStep
<1> QED BY <1>2, <1>3, <1>4, <1>5 DEF BeginSync

LEMMA BeginEvalStep ==
  ASSUME Inv, NEW t \in Tokens, BeginEval(t)
  PROVE  Inv'
<1> DEFINE target == Append(own.tl, t)
<1>1. /\ target \in Transcripts /\ own.valid
      /\ \/ NoRoute("eval", target) /\ own' = own
         \/ Calls("eval", target, Len(own.tl), FALSE)
  BY DEF BeginEval
<1>2. own \in GoodOwn /\ "eval" \in Ops /\ own.tl \in Seq(Tokens) /\ own.tl # <<>>
  BY <1>1, TranscriptIsSeq DEF Inv, CoordinatorOK, Ops, GoodOwn
<1>3. /\ Len(own.tl) \in Nat /\ Len(own.tl) # 0 /\ Len(own.tl) <= Len(target)
      /\ own.tl = SubSeq(target, 1, Len(own.tl))
  BY <1>2, LenProperties, AppendProperties, SubSeqFull
<1> HIDE DEF target
<1>4. CASE NoRoute("eval", target) /\ own' = own
  BY <1>1, <1>2, <1>4, NoRouteStep
<1>5. CASE Calls("eval", target, Len(own.tl), FALSE)
  BY <1>1, <1>2, <1>3, <1>5, CallsStep
<1> QED BY <1>1, <1>4, <1>5

LEMMA InvalidateStep ==
  ASSUME Inv, Invalidate
  PROVE  Inv'
<1>1. own' \in GoodOwn
  BY EmptyIsTranscript DEF Invalidate, GoodOwn
<1>2. CallOK'
  BY DEF Invalidate, CallOK, Evaluating
<1> QED BY <1>1, <1>2, PlanSame DEF Invalidate, Inv, WorkersOK, TrafficOK, CoordinatorOK, workerVars

-----------------------------------------------------------------------------
(* Chunks, results and replays.                                            *)

LEMMA ChunkEndOK ==
  ASSUME Inv, call.next < Len(call.target)
  PROVE  /\ call.target \in Seq(Tokens) /\ call.next \in Nat /\ Len(call.target) \in Nat
         /\ ChunkEnd \in Nat /\ call.next < ChunkEnd /\ ChunkEnd <= Len(call.target)
<1>1. call.target \in Transcripts /\ call.next \in Nat
  BY DEF Inv, CoordinatorOK, CallStates
<1>2. call.target \in Seq(Tokens) /\ Len(call.target) \in Nat
  BY <1>1, TranscriptIsSeq
<1>3. Cap \in Nat /\ Cap > 0 /\ call.next + Cap \in Nat
  BY <1>1, CapIsPositive
<1> QED BY <1>1, <1>2, <1>3, MinOfTwo DEF ChunkEnd

(* A piece of the target that starts where another ended. *)
LEMMA ChunkOK ==
  ASSUME NEW t \in Transcripts, NEW i \in Nat, NEW j \in Nat, i < j, j <= Len(t)
  PROVE  LET pre == SubSeq(t, 1, i)
             post == SubSeq(t, 1, j)
         IN /\ pre \in Transcripts /\ post \in Transcripts /\ post # <<>>
            /\ (pre = <<>>) = (i = 0)
            /\ pre \o SubSeq(t, i + 1, j) = post
            /\ pre \o SubSeq(post, Len(pre) + 1, Len(post)) = post
<1> DEFINE pre == SubSeq(t, 1, i)
           post == SubSeq(t, 1, j)
<1>1. t \in Seq(Tokens) /\ Len(t) \in Nat /\ i \in 0..Len(t) /\ j \in 0..Len(t)
  BY TranscriptIsSeq
<1>2. pre \in Transcripts /\ post \in Transcripts
  BY <1>1, TranscriptIsSeq
<1>3. Len(pre) = i /\ Len(post) = j
  BY <1>1
<1>4. post # <<>> /\ ((pre = <<>>) = (i = 0))
  BY <1>1, <1>3
<1>5. pre \o SubSeq(t, i + 1, j) = post
  BY <1>1, ConcatAdjacentSubSeq
<1>6. post \in Seq(Tokens) /\ SubSeq(post, 1, j) = post
  BY <1>2, <1>3, TranscriptIsSeq, SubSeqFull
<1>7. SubSeq(post, 1, i) \o SubSeq(post, i + 1, j) = SubSeq(post, 1, j)
  <2>1. 1 \in 1..(Len(post) + 1) /\ i \in (1 - 1)..Len(post) /\ j \in i..Len(post)
    BY <1>1, <1>3
  <2> HIDE DEF post
  <2> QED BY <1>6, <2>1, ConcatAdjacentSubSeq
<1>8. SubSeq(post, 1, i) = pre
  <2>1. CASE i = 0
    BY <2>1, <1>1
  <2>2. CASE i # 0
    <3>1. 1 \in 1..Len(t) /\ j \in 1..Len(t) /\ 1 \in 1..(j - 1 + 1) /\ i \in 1..(j - 1 + 1)
      BY <1>1, <2>2
    <3>2. SubSeq(SubSeq(t, 1, j), 1, i) = SubSeq(t, 1 + 1 - 1, 1 + i - 1)
      BY <1>1, <3>1, SubSeqOfSubSeq
    <3> QED BY <3>2
  <2> QED BY <2>1, <2>2
<1> HIDE DEF pre, post
<1>9. pre \o SubSeq(post, Len(pre) + 1, Len(post)) = post
  BY <1>3, <1>6, <1>7, <1>8
<1> QED BY <1>2, <1>4, <1>5, <1>9 DEF pre, post

(* The layers of the coordinator as the next chunk finds them hold the     *)
(* tokens before it.                                                       *)
LEMMA LocalOK ==
  ASSUME Inv, NextChunk
  PROVE  /\ Local \in [tl : Transcripts, valid : BOOLEAN]
         /\ Local.tl = SubSeq(call.target, 1, call.next)
         /\ (call.next = 0 => call.reset)
<1>1. /\ call.next <= Len(call.target)
      /\ (call.next = 0 => call.reset)
      /\ \/ call.reset /\ call.next = 0
         \/ own.valid /\ own.tl = SubSeq(call.target, 1, call.next)
  BY DEF Inv, CallOK, NextChunk
<1>2. own \in [tl : Transcripts, valid : BOOLEAN]
  BY DEF Inv, CoordinatorOK, GoodOwn
<1>3. CASE call.reset /\ call.next = 0
  <2>1. SubSeq(call.target, 1, 0) = <<>>
    BY SubSeqEmpty
  <2> QED BY <1>1, <1>3, <2>1, EmptyIsTranscript DEF Local
<1>4. CASE ~(call.reset /\ call.next = 0)
  BY <1>1, <1>2, <1>4 DEF Local
<1> QED BY <1>3, <1>4

LEMMA LocalChunkStep ==
  ASSUME Inv, LocalChunk
  PROVE  Inv'
<1> DEFINE t == call.target
           pre == SubSeq(t, 1, call.next)
           post == SubSeq(t, 1, ChunkEnd)
           f == [pre |-> pre, post |-> post, reset |-> call.reset /\ call.next = 0,
                 sound |-> TRUE]
<1>1. /\ t \in Transcripts /\ call.next \in Nat /\ ChunkEnd \in Nat
      /\ call.next < ChunkEnd /\ ChunkEnd <= Len(t)
  BY ChunkEndOK DEF LocalChunk, NextChunk, Inv, CoordinatorOK, CallStates
<1>2. /\ pre \in Transcripts /\ post \in Transcripts /\ post # <<>>
      /\ (pre = <<>>) = (call.next = 0)
      /\ pre \o SubSeq(t, call.next + 1, ChunkEnd) = post
      /\ pre \o SubSeq(post, Len(pre) + 1, Len(post)) = post
  BY <1>1, ChunkOK
<1>3. Local.tl = pre /\ (call.next = 0 => call.reset)
  BY LocalOK DEF LocalChunk
<1>4. own' = [tl |-> post, valid |-> TRUE]
  BY <1>2, <1>3 DEF LocalChunk
<1>5. \/ wire' = [wire EXCEPT ![1] = Append(@, f)]
      \/ wire' = wire
  BY <1>2, <1>3 DEF LocalChunk
<1>6. f \in GoodFrames
  <2>1. call.reset \in BOOLEAN
    BY DEF Inv, CoordinatorOK, CallStates
  <2> HIDE DEF pre, post
  <2> QED BY <1>2, <1>3, <2>1 DEF GoodFrames, Frames
<1>7. UNCHANGED <<workerVars, plan, logits, answer, back, late, saved, faults>>
      /\ call' = [call EXCEPT !.next = ChunkEnd]
  BY DEF LocalChunk
<1> HIDE DEF f, pre
<1>8. TrafficOK'
  <2>1. wire \in [Hops -> Seq(GoodFrames)] /\ late' = late /\ back' = back
    BY <1>7 DEF Inv, TrafficOK
  <2>2. [wire EXCEPT ![1] = Append(@, f)] \in [Hops -> Seq(GoodFrames)]
    BY <1>6, <2>1, Sent
  <2>3. wire' \in [Hops -> Seq(GoodFrames)]
    BY <1>5, <2>1, <2>2
  <2> QED BY <2>1, <2>3 DEF Inv, TrafficOK
<1>9. own' \in GoodOwn
  BY <1>2, <1>4 DEF GoodOwn
<1>10. /\ call' \in CallStates /\ call'.target = t /\ call'.next = ChunkEnd
       /\ call'.op = call.op
  BY <1>1, <1>7 DEF Inv, CoordinatorOK, CallStates
<1>11. CallOK'
  <2>1. own'.valid /\ own'.tl = SubSeq(call'.target, 1, call'.next)
    BY <1>4, <1>10 DEF post
  <2>2. call'.op # "save"
    BY <1>10 DEF LocalChunk, NextChunk, Evaluating
  <2>3. call'.next # 0 /\ call'.next <= Len(call'.target)
    BY <1>1, <1>10
  <2> QED BY <2>1, <2>2, <2>3 DEF CallOK
<1>12. WorkersOK' /\ PlanSupported'
  BY <1>7, PlanSame DEF workerVars, Inv, WorkersOK
<1> QED BY <1>7, <1>8, <1>9, <1>10, <1>11, <1>12 DEF Inv, CoordinatorOK

LEMMA AgainOK ==
  ASSUME call \in CallStates
  PROVE  LET again == [call EXCEPT !.from = 0, !.next = 0, !.got = 0, !.reset = TRUE,
                                   !.piped = Len(call.target) > Cap, !.replay = TRUE]
         IN /\ again \in CallStates /\ again.reset = TRUE /\ again.next = 0
            /\ again.op = call.op /\ again.target = call.target
<1> DEFINE more == Len(call.target) > Cap
<1>1. more \in BOOLEAN
  OBVIOUS
<1> HIDE DEF more
<1>2. LET again == [call EXCEPT !.from = 0, !.next = 0, !.got = 0, !.reset = TRUE,
                                !.piped = more, !.replay = TRUE]
      IN /\ again \in CallStates /\ again.reset = TRUE /\ again.next = 0
         /\ again.op = call.op /\ again.target = call.target
  BY <1>1 DEF CallStates
<1> QED BY <1>2 DEF more

(* A replay starts anew, over a route the registry supports. *)
LEMMA AfterFailureStep ==
  ASSUME Inv, NEW rc, AfterFailure(rc), Evaluating, own' \in GoodOwn,
         faults' \in 0..MaxFaults
  PROVE  Inv'
<1> DEFINE shut == IF call.piped THEN {plan.path[1]} ELSE {}
           forgets == rc # RemoteError /\ ~call.replay
           dropped == IF forgets THEN ToSet(plan.path) ELSE {}
           again == [call EXCEPT !.from = 0, !.next = 0, !.got = 0, !.reset = TRUE,
                                 !.piped = Len(call.target) > Cap, !.replay = TRUE]
           left == [w \in Workers |-> IF w \in dropped THEN "none" ELSE Dead(shut)[w]]
<1>1. /\ at' = HungUp(shut \cup dropped) /\ entry' = left
      /\ Abandon(late) /\ back' = <<>>
      /\ UNCHANGED <<kv, fwd, logits, saved>>
  BY DEF AfterFailure
<1>2. \/ /\ plan' = [plan EXCEPT !.ready = FALSE, !.current = FALSE,
                                 !.live = @ /\ ~call.piped]
         /\ Ends(call.op, call.target, FALSE)
      \/ /\ ~forgets
         /\ plan' = [plan EXCEPT !.live = @ /\ ~call.piped]
         /\ call' = again /\ answer' = answer
      \/ plan' = NoPlan /\ Ends(call.op, call.target, FALSE)
      \/ plan' \in Built(left) /\ call' = again /\ answer' = answer
  BY DEF AfterFailure
<1>3. /\ call \in CallStates /\ call.op \in Ops /\ call.target \in Transcripts
      /\ call.piped \in BOOLEAN
      /\ plan \in Plans /\ late \in SUBSET GoodLate /\ answer \in Answers
  BY DEF Inv, CoordinatorOK, TrafficOK, CallStates
<1>4. /\ Dead(shut) \in [Workers -> {"none", "live", "dead"}]
      /\ left \in [Workers -> {"none", "live", "dead"}]
  <2>1. Dead(shut) \in [Workers -> {"none", "live", "dead"}]
    BY DeadTyped DEF Inv
  <2> QED BY <2>1
<1>5. WorkersOK'
  <2>1. HungUp(shut \cup dropped) \in [Workers -> {"away", "connected", "hup"}]
    BY HungUpTyped DEF Inv
  <2> HIDE DEF left, shut, dropped
  <2> QED BY <1>1, <1>4, <2>1 DEF Inv, WorkersOK
<1>6. TrafficOK'
  <2>1. wire' \in [Hops -> Seq(GoodFrames)] /\ late' \subseteq GoodLate
    BY <1>1, <1>3, AbandonGood DEF Inv
  <2> QED BY <1>1, <2>1, NothingBack DEF TrafficOK
<1>7. ASSUME call' = again
      PROVE  call' \in CallStates /\ CallOK'
  <2>1. /\ again \in CallStates /\ again.reset = TRUE /\ again.next = 0
        /\ again.op = call.op /\ again.target = call.target
    BY <1>3, AgainOK
  <2>2. Len(call.target) \in Nat
    BY <1>3, TranscriptIsSeq
  <2>3. /\ call' \in CallStates /\ call'.reset = TRUE /\ call'.next = 0
        /\ call'.next <= Len(call'.target)
    BY <1>7, <2>1, <2>2
  <2>4. call'.op # "save"
    BY <1>7, <2>1 DEF Evaluating
  <2> QED BY <2>3, <2>4 DEF CallOK
<1>8. call' \in CallStates /\ CallOK' /\ answer' \in Answers
  <2>1. CASE call' = again /\ answer' = answer
    BY <1>3, <1>7, <2>1
  <2>2. CASE Ends(call.op, call.target, FALSE)
    BY <1>3, <2>2, EndsOK
  <2> QED BY <1>2, <2>1, <2>2
<1>9. plan' \in Plans /\ PlanSupported'
  <2>1. CASE plan' = [plan EXCEPT !.ready = FALSE, !.current = FALSE,
                                  !.live = @ /\ ~call.piped]
    <3>1. plan' \in Plans /\ ~plan'.current
      BY <1>3, <2>1 DEF Plans
    <3> QED BY <3>1, PlanStale
  <2>2. CASE ~forgets /\ plan' = [plan EXCEPT !.live = @ /\ ~call.piped]
    <3>1. entry' = Dead(shut)
      BY <1>1, <1>4, <2>2
    <3>2. CASE call.piped
      <4>1. plan' = [plan EXCEPT !.live = FALSE]
        BY <1>3, <2>2, <3>2
      <4> HIDE DEF shut
      <4> QED BY <1>3, <3>1, <4>1, PlanAfterLoss DEF Inv
    <3>3. CASE ~call.piped
      <4>1. plan' = plan /\ ~UsesLive(shut)
        BY <1>3, <2>2, <3>3 DEF Plans, UsesLive
      <4> HIDE DEF shut
      <4> QED BY <1>3, <3>1, <4>1, PlanAfterLoss DEF Inv
    <3> QED BY <3>2, <3>3
  <2>3. CASE plan' = NoPlan
    BY <2>3, NoPlanOK
  <2>4. CASE plan' \in Built(left)
    <3> HIDE DEF left
    <3> QED BY <1>1, <1>4, <2>4, PlanBuilt
  <2> QED BY <1>2, <2>1, <2>2, <2>3, <2>4
<1> QED BY <1>1, <1>5, <1>6, <1>8, <1>9 DEF Inv, CoordinatorOK

LEMMA LocalFailsStep ==
  ASSUME Inv, LocalFails
  PROVE  Inv'
<1>1. own' \in GoodOwn
  <2>1. Local \in [tl : Transcripts, valid : BOOLEAN]
    BY LocalOK DEF LocalFails
  <2>2. own' = [Local EXCEPT !.valid = FALSE]
    BY DEF LocalFails
  <2> QED BY <2>1, <2>2 DEF GoodOwn
<1>2. faults' \in 0..MaxFaults
  BY FaultTyped DEF LocalFails, Inv, CoordinatorOK
<1>3. Evaluating
  BY DEF LocalFails, NextChunk
<1>4. PICK rc : AfterFailure(rc)
  BY DEF LocalFails
<1> QED BY <1>1, <1>2, <1>3, <1>4, AfterFailureStep

LEMMA RouteBrokenStep ==
  ASSUME Inv, RouteBroken
  PROVE  Inv'
<1>1. own' \in GoodOwn /\ faults' \in 0..MaxFaults /\ Evaluating /\ AfterFailure(1)
  BY DEF RouteBroken, Inv, CoordinatorOK
<1> QED BY <1>1, AfterFailureStep

LEMMA ReadResultStep ==
  ASSUME Inv, ReadResult
  PROVE  Inv'
<1> DEFINE r == Head(back)
           done == NextGot = Len(call.target)
<1>1. r \in GoodResults /\ Tail(back) \in Seq(GoodResults)
  BY HeadTailProperties DEF ReadResult, Inv, TrafficOK
<1>2. call \in CallStates /\ plan \in Plans /\ call.op \in Ops /\ call.target \in Transcripts
  BY DEF Inv, CoordinatorOK, CallStates
<1>3. CASE r.post = Expected /\ r.ok
  <2>1. /\ back' = Tail(back)
        /\ \/ logits' = [of |-> r.post, sound |-> r.sound]
           \/ logits' = logits
        /\ \/ /\ Ends(call.op, call.target, TRUE)
              /\ plan' = [plan EXCEPT !.ready = @ \/ call.replay]
           \/ /\ call' = [call EXCEPT !.got = NextGot]
              /\ UNCHANGED <<answer, plan>>
        /\ UNCHANGED <<workerVars, own, wire, late, saved, faults>>
    BY <1>3 DEF ReadResult
  <2>2. logits' \in GoodLogits
    <3>1. [of |-> r.post, sound |-> r.sound] \in GoodLogits
      BY <1>1 DEF GoodResults, Results, GoodLogits
    <3> QED BY <2>1, <3>1 DEF Inv, CoordinatorOK
  <2>3. TrafficOK'
    BY <1>1, <2>1 DEF Inv, TrafficOK
  <2>4. WorkersOK'
    BY <2>1 DEF Inv, WorkersOK, workerVars
  <2>5. CASE /\ Ends(call.op, call.target, TRUE)
             /\ plan' = [plan EXCEPT !.ready = @ \/ call.replay]
    <3>1. call' \in CallStates /\ CallOK' /\ answer' \in Answers
      BY <1>2, <2>5, EndsOK
    <3>2. /\ plan' \in Plans /\ plan'.path = plan.path /\ plan'.live = plan.live
          /\ plan'.current = plan.current /\ (plan.ready => plan'.ready)
      <4>1. call.replay \in BOOLEAN
        BY <1>2 DEF CallStates
      <4> QED BY <1>2, <2>5, <4>1 DEF Plans
    <3>3. PlanSupported'
      <4>1. entry' = entry
        BY <2>1 DEF workerVars
      <4> QED BY <3>2, <4>1 DEF PlanSupported, Inv, Covers
    <3> QED BY <2>1, <2>2, <2>3, <2>4, <3>1, <3>2, <3>3 DEF Inv, CoordinatorOK
  <2>6. CASE /\ call' = [call EXCEPT !.got = NextGot]
             /\ UNCHANGED <<answer, plan>>
    <3>1. NextGot \in Nat
      <4>1. call.got + Cap \in Nat /\ Len(call.target) \in Nat /\ call.next \in Nat
        BY <1>2, CapIsPositive, TranscriptIsSeq DEF CallStates
      <4> QED BY <4>1, MinOfTwo DEF NextGot
    <3>2. /\ call' \in CallStates /\ call'.op = call.op /\ call'.target = call.target
          /\ call'.next = call.next /\ call'.reset = call.reset
          /\ call'.sound = call.sound
      BY <1>2, <2>6, <3>1 DEF CallStates
    <3>3. own' = own
      BY <2>1
    <3>4. CallOK'
      BY <3>2, <3>3 DEF CallOK, Evaluating, Inv
    <3>5. PlanSupported'
      BY <2>1, <2>6, PlanSame DEF Inv, workerVars
    <3> QED BY <2>1, <2>2, <2>3, <2>4, <2>6, <3>2, <3>4, <3>5 DEF Inv, CoordinatorOK
  <2> QED BY <2>1, <2>5, <2>6
<1>4. CASE ~(r.post = Expected /\ r.ok)
  <2>1. PICK rc : AfterFailure(rc)
    BY <1>4 DEF ReadResult
  <2>2. own' \in GoodOwn /\ faults' \in 0..MaxFaults /\ Evaluating
    BY <1>4 DEF ReadResult, Inv, CoordinatorOK
  <2> QED BY <2>1, <2>2, AfterFailureStep
<1> QED BY <1>3, <1>4

-----------------------------------------------------------------------------
(* Snapshots.                                                              *)

LEMMA ShardOK ==
  ASSUME Inv, call.got < LastHop
  PROVE  Shard \in Workers /\ kv[Shard] \in GoodStates
<1>1. plan.path \in Seq(Workers) /\ call.got \in Nat
  BY DEF Inv, CoordinatorOK, Plans, CallStates
<1>2. call.got + 1 \in 1..Len(plan.path)
  BY <1>1 DEF LastHop
<1> QED BY <1>1, <1>2 DEF Shard, Inv, WorkersOK

LEMMA ShardCounted ==
  ASSUME call \in CallStates, NEW x \in BOOLEAN
  PROVE  LET c == [call EXCEPT !.got = @ + 1, !.sound = x]
         IN c \in CallStates /\ c.op = call.op /\ c.sound = x
<1>1. call.got + 1 \in Nat
  BY DEF CallStates
<1> QED BY <1>1 DEF CallStates

LEMMA BeginSaveStep ==
  ASSUME Inv, BeginSave
  PROVE  Inv'
<1>1. own \in GoodOwn /\ own.tl \in Transcripts /\ "save" \in Ops /\ Len(own.tl) \in Nat
  BY TranscriptIsSeq DEF Inv, CoordinatorOK, Ops, GoodOwn
<1>2. CASE NoRoute("save", own.tl) /\ own' = own
  BY <1>1, <1>2, NoRouteStep
<1>3. CASE /\ plan' \in Ensured
           /\ Ends("save", own.tl, FALSE)
           /\ UNCHANGED <<workerVars, own, logits, wire, back, late, saved, faults>>
  BY <1>1, <1>3, AtOnceStep
<1>4. CASE Calls("save", own.tl, 0, FALSE)
  <2>1. 0 \in Nat /\ 0 <= Len(own.tl) /\ FALSE \in BOOLEAN
    BY <1>1
  <2> QED BY <1>1, <1>4, <2>1, CallsStep
<1> QED BY <1>2, <1>3, <1>4 DEF BeginSave

LEMMA SaveShardStep ==
  ASSUME Inv, SaveShard
  PROVE  Inv'
<1>1. /\ call.op = "save" /\ call.got < LastHop /\ kv' = kv
      /\ UNCHANGED <<at, entry, fwd, plan, own, logits, wire, back, late, saved>>
  BY DEF SaveShard
<1>2. /\ call \in CallStates /\ call.sound = TRUE /\ call.target \in Transcripts
      /\ "save" \in Ops
  BY <1>1 DEF Inv, CoordinatorOK, CallOK, CallStates, Ops
<1>3. WorkersOK' /\ TrafficOK' /\ PlanSupported'
  BY <1>1, PlanSame DEF Inv, WorkersOK, TrafficOK
<1>4. CASE Savable(kv[Shard]) /\ call' = NextShard /\ UNCHANGED <<answer, faults>>
  <2>1. kv[Shard].sound = TRUE /\ kv[Shard].tl = call.target
    BY <1>1, <1>4, ShardOK DEF Savable, GoodStates, States
  <2>2. call' = [call EXCEPT !.got = @ + 1, !.sound = TRUE]
    BY <1>1, <1>2, <1>4, <2>1 DEF NextShard
  <2>3. call' \in CallStates /\ call'.op = "save" /\ call'.sound
    BY <1>1, <1>2, <2>2, ShardCounted
  <2>4. CallOK'
    BY <2>3 DEF CallOK, Evaluating
  <2> QED BY <1>1, <1>3, <1>4, <2>3, <2>4 DEF Inv, CoordinatorOK
<1>5. CASE (faults' = faults \/ Fault) /\ Ends("save", call.target, FALSE)
  <2>1. call' \in CallStates /\ CallOK' /\ answer' \in Answers
    BY <1>2, <1>5, EndsOK
  <2>2. faults' \in 0..MaxFaults
    BY <1>5, FaultTyped DEF Inv, CoordinatorOK
  <2> QED BY <1>1, <1>3, <2>1, <2>2 DEF Inv, CoordinatorOK
<1> QED BY <1>4, <1>5 DEF SaveShard

LEMMA EndSaveStep ==
  ASSUME Inv, EndSave
  PROVE  Inv'
<1>1. /\ call.op = "save" /\ Ends("save", call.target, TRUE)
      /\ saved' = [of |-> call.target, logits |-> logits.of,
                   sound |-> call.sound /\ logits.sound]
      /\ UNCHANGED <<workerVars, plan, own, logits, wire, back, late, faults>>
  BY DEF EndSave
<1>2. call.target \in Transcripts /\ call.sound = TRUE /\ "save" \in Ops
  BY <1>1 DEF Inv, CoordinatorOK, CallOK, CallStates, Ops
<1>3. saved' \in GoodSaved
  BY <1>1, <1>2 DEF Inv, CoordinatorOK, GoodLogits, GoodSaved
<1>4. call' \in CallStates /\ CallOK' /\ answer' \in Answers
  BY <1>1, <1>2, EndsOK
<1>5. WorkersOK' /\ TrafficOK' /\ PlanSupported'
  BY <1>1, PlanSame DEF Inv, WorkersOK, TrafficOK, workerVars
<1> QED BY <1>1, <1>3, <1>4, <1>5 DEF Inv, CoordinatorOK

LEMMA NothingIsGood == [tl |-> <<>>, valid |-> FALSE] \in GoodOwn
BY EmptyIsTranscript DEF GoodOwn

LEMMA BeginLoadStep ==
  ASSUME Inv, BeginLoad
  PROVE  Inv'
<1>1. saved.of \in Transcripts /\ "load" \in Ops /\ saved.of # <<>>
  BY DEF Inv, CoordinatorOK, GoodSaved, Ops, BeginLoad
<1>2. CASE NoRoute("load", saved.of) /\ own' = [tl |-> <<>>, valid |-> FALSE]
  BY <1>1, <1>2, NoRouteStep, NothingIsGood
<1>3. CASE /\ plan' \in Ensured
           /\ call' = [Idle EXCEPT !.op = "load", !.target = saved.of]
           /\ own' = [tl |-> saved.of, valid |-> TRUE]
           /\ answer' = NoAnswer
           /\ UNCHANGED <<workerVars, logits, wire, back, late, saved, faults>>
  <2>1. plan' \in Plans /\ PlanSupported'
    BY <1>3, EnsuredOK DEF workerVars
  <2>2. own' \in GoodOwn
    BY <1>1, <1>3 DEF GoodOwn
  <2>3. call' \in CallStates /\ call'.op = "load"
    BY <1>1, <1>3 DEF Idle, CallStates
  <2>4. CallOK'
    BY <2>3 DEF CallOK, Evaluating
  <2>5. answer' \in Answers
    BY <1>3, EmptyIsTranscript DEF NoAnswer, Answers, Ops
  <2>6. WorkersOK' /\ TrafficOK'
    BY <1>3 DEF Inv, WorkersOK, TrafficOK, workerVars
  <2> QED BY <1>3, <2>1, <2>2, <2>3, <2>4, <2>5, <2>6 DEF Inv, CoordinatorOK
<1> QED BY <1>2, <1>3 DEF BeginLoad

LEMMA LoadShardStep ==
  ASSUME Inv, LoadShard
  PROVE  Inv'
<1> DEFINE s == [tl |-> saved.of, valid |-> TRUE, hash |-> saved.of, sound |-> saved.sound]
<1>1. /\ call.op = "load" /\ call.got < LastHop
      /\ UNCHANGED <<at, entry, fwd, plan, logits, wire, back, late, saved>>
  BY DEF LoadShard
<1>2. /\ Shard \in Workers /\ kv[Shard] \in GoodStates /\ call \in CallStates
      /\ call.target \in Transcripts /\ "load" \in Ops
  BY <1>1, ShardOK DEF Inv, CoordinatorOK, CallStates, Ops
<1>3. TrafficOK' /\ PlanSupported'
  BY <1>1, PlanSame DEF Inv, TrafficOK
<1>4. CASE /\ kv' = [kv EXCEPT ![Shard] = s]
           /\ call' = NextShard
           /\ UNCHANGED <<own, answer, faults>>
  <2>1. s \in GoodStates
    BY DEF Inv, CoordinatorOK, GoodSaved, GoodStates, States
  <2> HIDE DEF s
  <2>2. WorkersOK'
    BY <1>1, <1>2, <1>4, <2>1 DEF Inv, WorkersOK
  <2>3. PICK x \in BOOLEAN : call' = [call EXCEPT !.got = @ + 1, !.sound = x]
    <3> DEFINE x == call.sound /\ kv'[Shard].sound /\ kv'[Shard].tl = call.target
    <3>1. x \in BOOLEAN /\ call' = [call EXCEPT !.got = @ + 1, !.sound = x]
      BY <1>4 DEF NextShard
    <3> QED BY <3>1
  <2>4. call' \in CallStates /\ call'.op = "load"
    BY <1>1, <1>2, <2>3, ShardCounted
  <2>5. CallOK'
    BY <2>4 DEF CallOK, Evaluating
  <2> QED BY <1>1, <1>3, <1>4, <2>2, <2>4, <2>5 DEF Inv, CoordinatorOK
<1>5. CASE /\ Fault
           /\ kv' = [kv EXCEPT ![Shard] = Spoiled(@)]
           /\ own' = [tl |-> <<>>, valid |-> FALSE]
           /\ Ends("load", call.target, FALSE)
  <2>1. Spoiled(kv[Shard]) \in GoodStates
    BY <1>2 DEF Spoiled, GoodStates, States
  <2>2. WorkersOK'
    BY <1>1, <1>2, <1>5, <2>1 DEF Inv, WorkersOK
  <2>3. call' \in CallStates /\ CallOK' /\ answer' \in Answers
    BY <1>2, <1>5, EndsOK
  <2>4. faults' \in 0..MaxFaults
    BY <1>5, FaultTyped DEF Inv, CoordinatorOK
  <2> QED BY <1>1, <1>3, <1>5, <2>2, <2>3, <2>4, NothingIsGood DEF Inv, CoordinatorOK
<1> QED BY <1>4, <1>5 DEF LoadShard

LEMMA EndLoadStep ==
  ASSUME Inv, EndLoad
  PROVE  Inv'
<1>1. /\ Ends("load", call.target, TRUE)
      /\ logits' = [of |-> saved.logits, sound |-> saved.sound]
      /\ UNCHANGED <<workerVars, plan, own, wire, back, late, saved, faults>>
  BY DEF EndLoad
<1>2. call.target \in Transcripts /\ "load" \in Ops
  BY DEF Inv, CoordinatorOK, CallStates, Ops
<1>3. logits' \in GoodLogits
  BY <1>1 DEF Inv, CoordinatorOK, GoodLogits, GoodSaved
<1>4. call' \in CallStates /\ CallOK' /\ answer' \in Answers
  BY <1>1, <1>2, EndsOK
<1>5. WorkersOK' /\ TrafficOK' /\ PlanSupported'
  BY <1>1, PlanSame DEF Inv, WorkersOK, TrafficOK, workerVars
<1> QED BY <1>1, <1>3, <1>4, <1>5 DEF Inv, CoordinatorOK

-----------------------------------------------------------------------------
(* The theorems.                                                           *)

LEMMA InitOK ==
  ASSUME Init
  PROVE  Inv
<1>1. WorkersOK
  BY EmptyGood DEF Init, WorkersOK
<1>2. TrafficOK
  BY NothingBack DEF Init, TrafficOK
<1>3. plan \in Plans /\ PlanSupported
  BY DEF Init, NoPlan, Plans, PlanSupported
<1>4. call \in CallStates /\ CallOK
  BY EmptyIsTranscript DEF Init, Idle, CallStates, Ops, CallOK, Evaluating
<1>5. own \in GoodOwn /\ logits \in GoodLogits /\ answer \in Answers /\ saved \in GoodSaved
  BY EmptyIsTranscript DEF Init, GoodOwn, GoodLogits, NoAnswer, Answers, Ops, GoodSaved
<1>6. faults \in 0..MaxFaults
  BY BoundsAreNat DEF Init
<1> QED BY <1>1, <1>2, <1>3, <1>4, <1>5, <1>6 DEF Inv, CoordinatorOK

LEMMA StutterStep ==
  ASSUME Inv, UNCHANGED vars
  PROVE  Inv'
<1>1. WorkersOK' /\ TrafficOK' /\ CoordinatorOK'
  BY DEF vars, Inv, WorkersOK, TrafficOK, CoordinatorOK
<1> QED BY <1>1, CallSame, PlanSame DEF vars, Inv

LEMMA NextStep ==
  ASSUME Inv, Next
  PROVE  Inv'
<1>1. ASSUME Callers
      PROVE  Inv'
  BY <1>1, BeginSyncStep, BeginEvalStep, BeginSaveStep, BeginLoadStep, InvalidateStep
     DEF Callers
<1>2. ASSUME Coordinator
      PROVE  Inv'
  BY <1>2, LocalChunkStep, ReadResultStep, RouteBrokenStep, SaveShardStep, EndSaveStep,
     LoadShardStep, EndLoadStep DEF Coordinator
<1>3. ASSUME Failures
      PROVE  Inv'
  BY <1>3, LocalFailsStep, CrashStep, DisconnectStep, LinkBreaksStep DEF Failures
<1>4. ASSUME Membership
      PROVE  Inv'
  BY <1>4, RegisterStep, RemoveWorkerStep, NoticeStep DEF Membership
<1>5. ASSUME NEW k \in Hops, Hop(k)
      PROVE  Inv'
  BY <1>5, WorkStep, WorkRefusedStep DEF Hop
<1> QED BY <1>1, <1>2, <1>3, <1>4, <1>5, LateWorkStep DEF Next

(* Inv is an inductive invariant: frames say truly where they start, and   *)
(* what a worker's checks let through finds rows of just the tokens before *)
(* (dist_worker_process_work_payload).                                     *)
THEOREM Invariance == Spec => []Inv
<1>1. Init => Inv
  BY InitOK
<1>2. Inv /\ [Next]_vars => Inv'
  BY NextStep, StutterStep
<1> QED BY <1>1, <1>2, PTL DEF Spec

(* Every variable keeps its type, whatever fails. *)
THEOREM TypeCorrectness == Spec => []TypeOK
<1>1. Inv => TypeOK
  <2> SUFFICES ASSUME Inv PROVE TypeOK
    OBVIOUS
  <2>1. /\ GoodStates \subseteq States /\ GoodFrames \subseteq Frames
        /\ GoodLate \subseteq LateFrames /\ GoodResults \subseteq Results
    BY DEF GoodStates, GoodFrames, GoodLate, GoodResults
  <2>2. wire \in [Hops -> Seq(Frames)] /\ back \in Seq(Results) /\ late \subseteq LateFrames
    BY <2>1 DEF Inv, TrafficOK
  <2>3. kv \in [Workers -> States]
    BY <2>1 DEF Inv, WorkersOK
  <2> QED BY <2>2, <2>3 DEF TypeOK, Inv, WorkersOK, CoordinatorOK, GoodOwn, GoodLogits, GoodSaved
<1> QED BY <1>1, Invariance, PTL

(* The logits handed out were computed from rows of exactly the tokens     *)
(* before them, for any route, chunking, number of failures and of frames  *)
(* that arrive late (dist_worker_process_work_payload's prefix check).     *)
THEOREM LogitsAreSound == Spec => []LogitsSound
<1>1. Inv => LogitsSound
  BY DEF Inv, CoordinatorOK, GoodLogits, LogitsSound
<1> QED BY <1>1, Invariance, PTL

(* A snapshot is of one transcript, whichever workers restarted between    *)
(* its shards (dist_worker_handle_snapshot_save).                          *)
THEOREM SnapshotsAreWhole == Spec => []SavedIsWhole
<1>1. Inv => SavedIsWhole
  BY DEF Inv, CoordinatorOK, GoodSaved, SavedIsWhole
<1> QED BY <1>1, Invariance, PTL

(* The route a call takes from the cache covers every layer with workers   *)
(* that are registered (dist_session_ensure_route).                        *)
THEOREM PlansAreCurrent == Spec => []PlanIsCurrent
<1>1. Inv => PlanIsCurrent
  BY DEF Inv, PlanSupported, PlanIsCurrent
<1> QED BY <1>1, Invariance, PTL

(***************************************************************************)
(* Where a call that worked ends.  Every frame and every result under way  *)
(* ends at a token of its own, at least a chunk from the others, between   *)
(* what has been counted (got) and what has been sent (next); so when the  *)
(* result that completes the count is read nothing else is under way, and  *)
(* the coordinator's own layers, sent ahead of it, are at the target.      *)
(***************************************************************************)

(* What is on its way to each hop, and (lane 0) back to the coordinator. *)
Lanes == {0} \cup Hops
Lane(k) == IF k = 0 THEN back ELSE wire[k]
Items == {x \in Lanes \X Nat : x[2] \in DOMAIN Lane(x[1])}
Size(x) == Len(Lane(x[1])[x[2]].post)

(* Two chunks of one prompt end at different tokens, a chunk apart unless  *)
(* the later one is the last.                                              *)
Spaced(i, j) == i # j /\ (i < j => j >= i + Cap \/ j = Len(call.target))

Traffic ==
  /\ Evaluating =>
       /\ call.target # <<>> /\ call.got <= call.next
       /\ (call.piped \/ Len(call.target) <= call.got + Cap)
       /\ \A x \in Items : /\ Size(x) <= call.next
                           /\ Size(x) >= call.got + Cap \/ Size(x) = Len(call.target)
       /\ \A x, y \in Items : x # y => Spaced(Size(x), Size(y))
  /\ ~Evaluating => Items = {}

(* What a lane holds is a sequence, and what an item is of has a length.    *)
LEMMA SizesAreNat ==
  ASSUME Inv
  PROVE  /\ \A k \in Hops : k \in Nat /\ k # 0
         /\ \A k \in Lanes : /\ Lane(k) \in Seq(GoodFrames \cup GoodResults)
                             /\ Len(Lane(k)) \in Nat /\ DOMAIN Lane(k) = 1..Len(Lane(k))
         /\ \A x \in Items : Size(x) \in Nat
         /\ call.next \in Nat /\ call.got \in Nat /\ Len(call.target) \in Nat
         /\ Cap \in Nat /\ Cap > 0
<1>1. \A k \in Hops : k \in Nat /\ k # 0
  BY DEF Hops
<1>2. ASSUME NEW k \in Lanes
      PROVE  /\ Lane(k) \in Seq(GoodFrames \cup GoodResults)
             /\ Len(Lane(k)) \in Nat /\ DOMAIN Lane(k) = 1..Len(Lane(k))
  <2>1. Lane(k) \in Seq(GoodFrames \cup GoodResults)
    <3>1. CASE k = 0
      <4>1. Lane(k) \in Seq(GoodResults)
        BY <3>1 DEF Lane, Inv, TrafficOK
      <4> QED  BY <4>1
    <3>2. CASE k \in Hops
      <4>1. Lane(k) \in Seq(GoodFrames)
        BY <1>1, <3>2 DEF Lane, Inv, TrafficOK
      <4> QED  BY <4>1
    <3> QED  BY <3>1, <3>2 DEF Lanes
  <2> QED  BY <2>1
<1>3. ASSUME NEW x \in Items PROVE Size(x) \in Nat
  <2>1. x[1] \in Lanes /\ x[2] \in DOMAIN Lane(x[1])
    BY DEF Items
  <2>2. Lane(x[1])[x[2]] \in GoodFrames \cup GoodResults
    BY <1>2, <2>1
  <2>3. Lane(x[1])[x[2]].post \in Transcripts
    BY <2>2 DEF GoodFrames, GoodResults, Frames, Results
  <2> QED  BY <2>3, TranscriptIsSeq DEF Size
<1>4. call.next \in Nat /\ call.got \in Nat /\ Len(call.target) \in Nat
  BY TranscriptIsSeq DEF Inv, CoordinatorOK, CallStates
<1> QED  BY <1>1, <1>2, <1>3, <1>4, CapIsPositive

(* Items that are only passed on, or lost, keep their places in the prompt. *)
LEMMA Carried ==
  ASSUME Traffic, call' = call, NEW f \in [Items' -> Items],
         \A x, y \in Items' : f[x] = f[y] => x = y,
         \A x \in Items' : Size(x)' = Size(f[x])
  PROVE  Traffic'
<1>1. Evaluating' = Evaluating
  BY DEF Evaluating
<1>2. CASE Evaluating
  <2>1. ASSUME NEW x \in Items'
        PROVE  /\ Size(x)' <= call'.next
               /\ Size(x)' >= call'.got + Cap \/ Size(x)' = Len(call'.target)
    BY <1>2 DEF Traffic
  <2>2. ASSUME NEW x \in Items', NEW y \in Items', x # y
        PROVE  Spaced(Size(x), Size(y))'
    <3>1. f[x] # f[y] /\ f[x] \in Items /\ f[y] \in Items
      BY <2>2
    <3>2. Spaced(Size(f[x]), Size(f[y]))
      BY <1>2, <3>1 DEF Traffic
    <3>3. Size(x)' = Size(f[x]) /\ Size(y)' = Size(f[y])
      OBVIOUS
    <3> QED  BY <3>2, <3>3 DEF Spaced
  <2>3. \A x, y \in Items' : x # y => Spaced(Size(x), Size(y))'
    BY <2>2
  <2> HIDE DEF Spaced, Size, Items
  <2> QED  BY <1>1, <1>2, <2>1, <2>3 DEF Traffic
<1>3. CASE ~Evaluating
  <2>1. Items' = {}
    BY <1>3 DEF Traffic
  <2> QED  BY <1>1, <1>3, <2>1 DEF Traffic
<1> QED  BY <1>2, <1>3

(* A step that moves no frame, no result and not the call keeps Traffic.    *)
LEMMA NothingMoved ==
  ASSUME Traffic, UNCHANGED <<wire, back, call>>
  PROVE  Traffic'
<1>1. Items' = Items /\ \A x : Size(x)' = Size(x)
  BY DEF Items, Size, Lane
<1> DEFINE f == [x \in Items |-> x]
<1>2. f \in [Items' -> Items] /\ \A x \in Items' : f[x] = x
  BY <1>1
<1> HIDE DEF f
<1> QED  BY <1>1, <1>2, Carried

(* All the wires are empty; of the results some prefix is left. *)
LEMMA WiresEmptied ==
  ASSUME Inv, Traffic, call' = call, wire' = [k \in Hops |-> <<>>], back' \in {back, <<>>}
  PROVE  Traffic'
<1>1. \A x \in Items' : x \in Items /\ Size(x)' = Size(x)
  <2> SUFFICES ASSUME NEW x \in Items' PROVE x \in Items /\ Size(x)' = Size(x)
    OBVIOUS
  <2>1. x \in Lanes \X Nat /\ x[2] \in DOMAIN Lane(x[1])' /\ x[1] \in Lanes
    BY DEF Items
  <2>2. x[1] = 0
    <3>1. ASSUME x[1] \in Hops PROVE FALSE
      <4>1. Lane(x[1])' = <<>>
        BY <3>1, SizesAreNat DEF Lane
      <4> QED  BY <2>1, <4>1
    <3> QED  BY <2>1, <3>1 DEF Lanes
  <2>3. Lane(x[1])' = back' /\ Lane(x[1]) = back /\ back' # <<>>
    BY <2>1, <2>2 DEF Lane
  <2> QED  BY <2>1, <2>3 DEF Items, Size
<1> DEFINE f == [x \in Items' |-> x]
<1>2. f \in [Items' -> Items] /\ \A x \in Items' : f[x] = x
  BY <1>1
<1> HIDE DEF f
<1> QED  BY <1>1, <1>2, Carried

(* With every lane empty and the call over, nothing is under way.           *)
LEMMA AllEmptied ==
  ASSUME Inv, wire' = [k \in Hops |-> <<>>], back' = <<>>
  PROVE  Items' = {}
<1> SUFFICES ASSUME NEW x \in Items' PROVE FALSE
  OBVIOUS
<1>1. x[1] \in Lanes /\ x[2] \in DOMAIN Lane(x[1])'
  BY DEF Items
<1>2. Lane(x[1])' = <<>>
  BY <1>1, SizesAreNat DEF Lane, Lanes
<1> QED  BY <1>1, <1>2

(* The oldest item of lane k goes on to lane l. *)
LEMMA MovedOn ==
  ASSUME Inv, Traffic, call' = call, NEW k \in Lanes, NEW l, l # k, NEW g,
         Lane(k) # <<>>, g.post = Head(Lane(k)).post,
         Lane(k)' = Tail(Lane(k)),
         l \in Lanes => Lane(l)' = Append(Lane(l), g),
         \A m \in Lanes \ {k, l} : Lane(m)' = Lane(m)
  PROVE  Traffic'
<1> DEFINE f == [x \in Items' |-> IF x[1] = k THEN <<k, x[2] + 1>>
                                  ELSE IF x[1] = l /\ x[2] = Len(Lane(l)) + 1
                                       THEN <<k, 1>> ELSE x]
<1>1. \A m \in Lanes : /\ Lane(m) \in Seq(GoodFrames \cup GoodResults)
                       /\ Len(Lane(m)) \in Nat /\ DOMAIN Lane(m) = 1..Len(Lane(m))
  BY SizesAreNat
<1>2. /\ Len(Lane(k)) > 0 /\ Len(Lane(k)') = Len(Lane(k)) - 1
      /\ DOMAIN Lane(k)' = 1..Len(Lane(k)) - 1
      /\ \A i \in DOMAIN Lane(k)' : Lane(k)'[i] = Lane(k)[i + 1]
      /\ Head(Lane(k)) = Lane(k)[1]
  BY <1>1
<1>3. l \in Lanes => /\ DOMAIN Lane(l)' = 1..Len(Lane(l)) + 1
                     /\ \A i \in 1..Len(Lane(l)) : Lane(l)'[i] = Lane(l)[i]
                     /\ Lane(l)'[Len(Lane(l)) + 1] = g
  <2> DEFINE S == GoodFrames \cup GoodResults \cup {g}
             s == Lane(l)
  <2> SUFFICES ASSUME l \in Lanes
               PROVE  /\ DOMAIN Append(s, g) = 1..Len(s) + 1
                      /\ \A i \in 1..Len(s) : Append(s, g)[i] = s[i]
                      /\ Append(s, g)[Len(s) + 1] = g
    OBVIOUS
  <2>1. s \in Seq(S) /\ g \in S
    BY <1>1
  <2> HIDE DEF S, s
  <2> QED  BY <2>1, AppendProperties, LenProperties
<1>4. ASSUME NEW x \in Items'
      PROVE  /\ f[x] \in Items /\ Size(x)' = Size(f[x])
             /\ x = <<x[1], x[2]>> /\ x[2] \in Nat
             /\ x[1] = k => f[x] = <<k, x[2] + 1>> /\ x[2] > 0
             /\ (x[1] # k /\ ~(x[1] = l /\ x[2] = Len(Lane(l)) + 1)) => f[x] = x
             /\ (x[1] = l /\ x[2] = Len(Lane(l)) + 1) => f[x] = <<k, 1>>
  <2>1. /\ x[1] \in Lanes /\ x[2] \in Nat /\ x = <<x[1], x[2]>>
        /\ x[2] \in DOMAIN Lane(x[1])'
    BY DEF Items
  <2>2. CASE x[1] = k
    <3>1. f[x] = <<k, x[2] + 1>> /\ x[2] \in 1..Len(Lane(k)) - 1 /\ x[2] \in DOMAIN Lane(k)'
      BY <1>2, <2>1, <2>2
    <3>2. x[2] + 1 \in DOMAIN Lane(k) /\ Lane(k)'[x[2]] = Lane(k)[x[2] + 1]
      BY <1>1, <1>2, <3>1
    <3>3. f[x] \in Items
      BY <2>1, <3>1, <3>2 DEF Items
    <3>4. Size(x)' = Size(f[x])
      BY <2>2, <3>1, <3>2 DEF Size, Lane
    <3> QED  BY <2>1, <2>2, <3>1, <3>3, <3>4
  <2>3. CASE x[1] = l /\ x[2] = Len(Lane(l)) + 1
    <3>1. f[x] = <<k, 1>>
      BY <2>3
    <3>2. 1 \in DOMAIN Lane(k) /\ Lane(k)[1].post = g.post
      BY <1>1, <1>2
    <3>3. f[x] \in Items
      BY <3>1, <3>2 DEF Items
    <3>4. Lane(x[1])'[x[2]] = g
      BY <1>3, <2>1, <2>3
    <3>5. Size(x)' = Size(f[x])
      BY <3>1, <3>2, <3>4 DEF Size, Lane
    <3> QED  BY <2>1, <2>3, <3>1, <3>3, <3>5
  <2>4. CASE x[1] # k /\ ~(x[1] = l /\ x[2] = Len(Lane(l)) + 1)
    <3>1. f[x] = x
      BY <2>4
    <3>2. x[2] \in DOMAIN Lane(x[1]) /\ Lane(x[1])'[x[2]] = Lane(x[1])[x[2]]
      <4>1. CASE x[1] = l
        BY <1>1, <1>3, <2>1, <2>4, <4>1, SMTT(30)
      <4>2. CASE x[1] # l
        BY <2>1, <2>4, <4>2
      <4> QED  BY <4>1, <4>2
    <3>3. f[x] \in Items /\ Size(x)' = Size(f[x])
      BY <2>1, <3>1, <3>2 DEF Items, Size, Lane
    <3> QED  BY <2>1, <2>4, <3>1, <3>3
  <2> QED  BY <2>2, <2>3, <2>4
<1>5. f \in [Items' -> Items]
  <2>1. \A x \in Items' : f[x] \in Items
    BY <1>4
  <2> QED  BY <2>1
<1> HIDE DEF f
<1>6. ASSUME NEW z \in Items', NEW i \in Nat, i > 0, f[z] = <<k, i + 1>>
      PROVE  z = <<k, i>>
  <2>1. (<<k, i + 1>>)[1] = k /\ (<<k, i + 1>>)[2] = i + 1 /\ i + 1 # 1
    <3>1. i + 1 # 1
      BY <1>6
    <3>2. (<<k, i + 1>>)[1] = k /\ (<<k, i + 1>>)[2] = i + 1
      OBVIOUS
    <3> QED  BY <3>1, <3>2
  <2>2. CASE z[1] = k
    <3>1. f[z] = <<k, z[2] + 1>> /\ z = <<z[1], z[2]>> /\ z[2] \in Nat
      BY <1>4, <2>2
    <3>2. z[2] + 1 = i + 1
      <4>1. (<<k, z[2] + 1>>)[2] = z[2] + 1
        OBVIOUS
      <4> QED  BY <1>6, <2>1, <3>1, <4>1
    <3>3. z[2] = i
      BY <3>1, <3>2
    <3> QED  BY <2>2, <3>1, <3>3
  <2>3. CASE z[1] = l /\ z[2] = Len(Lane(l)) + 1
    <3>1. f[z] = <<k, 1>> /\ (<<k, 1>>)[2] = 1
      BY <1>4, <2>3
    <3> QED  BY <1>6, <2>1, <3>1
  <2>4. CASE z[1] # k /\ ~(z[1] = l /\ z[2] = Len(Lane(l)) + 1)
    <3>1. f[z] = z
      BY <1>4, <2>4
    <3> QED  BY <1>6, <2>1, <2>4, <3>1
  <2> QED  BY <2>2, <2>3, <2>4
<1>9. ASSUME NEW x \in Items', NEW y \in Items', f[x] = f[y] PROVE x = y
  <2>1. ASSUME NEW z \in Items', z[1] = k
        PROVE  z = <<k, z[2]>> /\ z[2] \in Nat /\ z[2] > 0 /\ f[z] = <<k, z[2] + 1>>
    BY <1>4, <2>1
  <2>2. CASE x[1] = k
    <3>1. y = <<k, x[2]>>
      BY <1>6, <1>9, <2>1, <2>2
    <3> QED  BY <2>1, <2>2, <3>1
  <2>3. CASE y[1] = k
    <3>1. x = <<k, y[2]>>
      BY <1>6, <1>9, <2>1, <2>3
    <3> QED  BY <2>1, <2>3, <3>1
  <2>4. CASE x[1] # k /\ y[1] # k
    <3>1. ASSUME NEW z \in Items', NEW v \in Items', f[z] = f[v], z[1] # k, v[1] # k,
                 z[1] = l /\ z[2] = Len(Lane(l)) + 1
          PROVE  v = z
      <4>1. f[z] = <<k, 1>>
        BY <1>4, <3>1
      <4>2. (<<k, 1>>)[1] = k
        OBVIOUS
      <4>3. v[1] = l /\ v[2] = Len(Lane(l)) + 1
        <5>1. ASSUME ~(v[1] = l /\ v[2] = Len(Lane(l)) + 1) PROVE FALSE
          <6>1. f[v] = v
            BY <1>4, <3>1, <5>1
          <6> QED  BY <3>1, <4>1, <4>2, <6>1
        <5> QED  BY <5>1
      <4>4. z = <<z[1], z[2]>> /\ v = <<v[1], v[2]>>
        BY <1>4
      <4> QED  BY <3>1, <4>3, <4>4
    <3>2. CASE x[1] = l /\ x[2] = Len(Lane(l)) + 1
      BY <1>9, <2>4, <3>1, <3>2
    <3>3. CASE y[1] = l /\ y[2] = Len(Lane(l)) + 1
      <4>1. f[y] = f[x]
        BY <1>9
      <4> QED  BY <2>4, <3>1, <3>3, <4>1
    <3>4. CASE /\ ~(x[1] = l /\ x[2] = Len(Lane(l)) + 1)
               /\ ~(y[1] = l /\ y[2] = Len(Lane(l)) + 1)
      <4>1. f[x] = x /\ f[y] = y
        BY <1>4, <2>4, <3>4
      <4> QED  BY <1>9, <4>1
    <3> QED  BY <3>2, <3>3, <3>4
  <2> QED  BY <2>2, <2>3, <2>4
<1>7. \A x, y \in Items' : f[x] = f[y] => x = y
  BY <1>9
<1>8. \A x \in Items' : Size(x)' = Size(f[x])
  BY <1>4
<1> QED  BY <1>5, <1>7, <1>8, Carried

(* A worker that works a frame off, or refuses it, moves it one lane on.    *)
LEMMA WorkMoves ==
  ASSUME Inv, Traffic, NEW k \in Hops, Takes(k), Work(k) \/ WorkRefused(k)
  PROVE  Traffic'
<1> DEFINE f == Head(wire[k])
<1>1. wire[k] # <<>> /\ call' = call /\ k \in Nat /\ k # 0
  BY SizesAreNat DEF Takes, Work, WorkRefused
<1>2. wire \in [Hops -> Seq(GoodFrames)]
  BY DEF Inv, TrafficOK
<1>3. Lane(k) = wire[k] /\ k \in Lanes /\ Lane(k)' = wire'[k] /\ Lane(0) = back /\ Lane(0)' = back'
  BY <1>1 DEF Lane, Lanes
<1>4. ASSUME wire' = [wire EXCEPT ![k] = Tail(@)], NEW g, back' = Append(back, g), g.post = f.post
      PROVE  Traffic'
  <2>1. Lane(k)' = Tail(Lane(k))
    BY <1>2, <1>3, <1>4
  <2>2. \A m \in Lanes \ {k, 0} : Lane(m)' = Lane(m)
    BY <1>2, <1>4 DEF Lane, Lanes
  <2> HIDE DEF Traffic
  <2> QED  BY <1>1, <1>3, <1>4, <2>1, <2>2, MovedOn
<1>5. CASE WorkRefused(k)
  <2>1. wire' = [wire EXCEPT ![k] = Tail(@)]
        /\ back' = Append(back, [post |-> f.post, ok |-> FALSE, sound |-> TRUE])
    BY <1>5 DEF WorkRefused, ErrorReply
  <2> QED  BY <1>4, <2>1
<1>6. CASE Work(k)
  <2> DEFINE s == Extended(Base(kv[plan.path[k]], f), f)
  <2>1. CASE ~(k < LastHop)
    <3>1. wire' = [wire EXCEPT ![k] = Tail(@)]
          /\ back' = Append(back, [post |-> f.post, ok |-> TRUE, sound |-> s.sound])
      BY <1>6, <2>1 DEF Work
    <3> HIDE DEF s
    <3> QED  BY <1>4, <3>1
  <2>2. CASE k < LastHop
    <3> DEFINE g == [f EXCEPT !.sound = s.sound]
    <3>1. /\ wire' = [wire EXCEPT ![k] = Tail(@), ![k + 1] = Append(@, g)]
          /\ back' = back
      BY <1>6, <2>2 DEF Work
    <3>2. f \in GoodFrames
      BY <1>1, <1>2
    <3> HIDE DEF s
    <3>3. g.post = f.post
      BY <3>2 DEF GoodFrames, Frames
    <3> HIDE DEF f, g
    <3>4. k + 1 # k /\ k + 1 # 0
      BY <1>1
    <3>5. Lane(k)' = Tail(Lane(k))
      BY <1>2, <1>3, <3>1, <3>4
    <3>6. k + 1 \in Lanes => Lane(k + 1)' = Append(Lane(k + 1), g)
      BY <1>2, <3>1, <3>4 DEF Lane, Lanes
    <3>7. \A m \in Lanes \ {k, k + 1} : Lane(m)' = Lane(m)
      BY <1>2, <3>1 DEF Lane, Lanes
    <3>8. \A l : l = k + 1 => Traffic'
      BY <1>1, <1>3, <3>3, <3>4, <3>5, <3>6, <3>7, MovedOn DEF f
    <3> QED  BY <3>8
  <2> QED  BY <2>1, <2>2
<1> QED  BY <1>5, <1>6

(* The relays' end: of all the work under way at most one error is left. *)
LEMMA RelaysMove ==
  ASSUME Inv, Traffic, NEW S, NEW old, RelaysEnd(S, old), call' = call
  PROVE  Traffic'
<1> DEFINE unanswered == UNION {{wire[k][i] : i \in DOMAIN wire[k]} : k \in Hops \ {1}}
<1>1. CASE ~UsesLive(S)
  BY <1>1, NothingMoved DEF RelaysEnd
<1>2. CASE UsesLive(S) /\ back' = back
  BY <1>2, WiresEmptied DEF RelaysEnd, Abandon
<1>3. ASSUME UsesLive(S), NEW g \in unanswered,
             back' = Append(back, [post |-> g.post, ok |-> FALSE, sound |-> TRUE])
      PROVE  Traffic'
  <2>1. PICK k \in Hops : g \in {wire[k][i] : i \in DOMAIN wire[k]}
    BY <1>3
  <2>2. PICK i \in DOMAIN wire[k] : g = wire[k][i]
    BY <2>1
  <2> DEFINE e == [post |-> g.post, ok |-> FALSE, sound |-> TRUE]
             n == Len(back) + 1
             f == [x \in Items' |-> IF x[2] = n THEN <<k, i>> ELSE x]
  <2>3. wire' = [h \in Hops |-> <<>>] /\ back' = Append(back, e) /\ e.post = g.post
    BY <1>3 DEF RelaysEnd, Abandon
  <2>4. /\ back \in Seq(GoodFrames \cup GoodResults) /\ Len(back) \in Nat
        /\ 0 \in Lanes /\ Lane(0) = back /\ Lane(k) = wire[k] /\ k \in Lanes /\ k # 0
        /\ i \in Nat
    <3>1. 0 \in Lanes /\ k \in Lanes /\ k # 0 /\ Lane(0) = back /\ Lane(k) = wire[k]
      BY SizesAreNat DEF Lane, Lanes
    <3> QED  BY <2>2, <3>1, SizesAreNat
  <2>5. DOMAIN back' = 1..n /\ \A j \in 1..Len(back) : back'[j] = back[j]
        /\ back'[n] = e /\ DOMAIN back = 1..Len(back)
    BY <2>3, <2>4
  <2> HIDE DEF e
  <2>6. ASSUME NEW x \in Items'
        PROVE  /\ x = <<0, x[2]>> /\ x[2] \in 1..n
               /\ f[x] \in Items /\ Size(x)' = Size(f[x])
    <3>1. /\ x[1] \in Lanes /\ x[2] \in Nat /\ x = <<x[1], x[2]>>
          /\ x[2] \in DOMAIN Lane(x[1])'
      BY DEF Items
    <3>2. x[1] = 0
      <4>1. ASSUME x[1] \in Hops PROVE FALSE
        <5>1. Lane(x[1])' = <<>>
          BY <2>3, <4>1, SizesAreNat DEF Lane
        <5> QED  BY <3>1, <5>1
      <4> QED  BY <3>1, <4>1 DEF Lanes
    <3>3. Lane(x[1])' = back' /\ x[2] \in 1..n
      BY <2>5, <3>1, <3>2 DEF Lane
    <3>4. CASE x[2] = n
      <4>1. f[x] = <<k, i>>
        BY <3>4
      <4>2. <<k, i>> \in Items
        BY <2>2, <2>4 DEF Items
      <4>3. Size(x)' = Len(g.post)
        BY <2>3, <2>5, <3>3, <3>4 DEF Size, Lane
      <4>4. Size(<<k, i>>) = Len(g.post)
        BY <2>2, <2>4 DEF Size
      <4> QED  BY <3>1, <3>2, <3>3, <4>1, <4>2, <4>3, <4>4
    <3>5. CASE x[2] # n
      <4>1. f[x] = x /\ x[2] \in 1..Len(back)
        BY <2>4, <3>3, <3>5
      <4>2. x \in Items
        BY <2>4, <2>5, <3>1, <3>2, <4>1 DEF Items
      <4>3. Size(x)' = Size(x)
        BY <2>4, <2>5, <3>2, <3>3, <4>1 DEF Size, Lane
      <4> QED  BY <3>1, <3>2, <3>3, <4>1, <4>2, <4>3
    <3> QED  BY <3>4, <3>5
  <2>7. f \in [Items' -> Items]
    <3>1. \A x \in Items' : f[x] \in Items
      BY <2>6
    <3> QED  BY <3>1
  <2>8. \A x \in Items' : f[x] = IF x[2] = n THEN <<k, i>> ELSE x
    OBVIOUS
  <2> HIDE DEF f
  <2>9. ASSUME NEW x \in Items', NEW y \in Items', f[x] = f[y] PROVE x = y
    <3>1. x = <<0, x[2]>> /\ y = <<0, y[2]>>
      BY <2>6
    <3>2. (<<k, i>>)[1] = k /\ x[1] = 0 /\ y[1] = 0
      BY <3>1
    <3>3. CASE x[2] = n /\ y[2] = n
      BY <3>1, <3>3
    <3>4. CASE x[2] = n /\ y[2] # n
      <4>1. f[x] = <<k, i>> /\ f[y] = y
        BY <2>8, <3>4
      <4> QED  BY <2>4, <2>9, <3>2, <4>1
    <3>5. CASE x[2] # n /\ y[2] = n
      <4>1. f[y] = <<k, i>> /\ f[x] = x
        BY <2>8, <3>5
      <4> QED  BY <2>4, <2>9, <3>2, <4>1
    <3>6. CASE x[2] # n /\ y[2] # n
      <4>1. f[x] = x /\ f[y] = y
        BY <2>8, <3>6
      <4> QED  BY <2>9, <4>1
    <3> QED  BY <3>3, <3>4, <3>5, <3>6
  <2>10. \A x, y \in Items' : f[x] = f[y] => x = y
    BY <2>9
  <2>11. \A x \in Items' : Size(x)' = Size(f[x])
    BY <2>6
  <2> QED  BY <2>7, <2>10, <2>11, Carried
<1> QED  BY <1>1, <1>2, <1>3 DEF RelaysEnd

(* Frames lost with a worker or a connection leave fewer items.             *)
LEMMA FaultsMove ==
  ASSUME Inv, Traffic, NEW w \in Workers, NEW u \in Workers,
         Crash(w) \/ Disconnect(w) \/ LinkBreaks(u, w)
  PROVE  Traffic'
<1>1. CASE Crash(w)
  <2>1. call' = call
    BY <1>1 DEF Crash
  <2>2. CASE UsesLive({w})
    <3>1. wire' = [k \in Hops |-> <<>>] /\ back' \in {back, <<>>}
      BY <1>1, <2>2 DEF Crash, Abandon
    <3> QED  BY <2>1, <3>1, WiresEmptied
  <2>3. CASE ~UsesLive({w})
    <3>1. PICK S : \E rest : RelaysEnd(S, rest)
      BY <1>1, <2>3 DEF Crash
    <3> QED  BY <2>1, <3>1, RelaysMove
  <2> QED  BY <2>2, <2>3
<1>2. CASE Disconnect(w)
  <2>1. call' = call
    BY <1>2 DEF Disconnect
  <2>2. CASE UsesLive({w})
    <3>1. wire' = [k \in Hops |-> <<>>] /\ back' \in {back, <<>>}
      BY <1>2, <2>2 DEF Disconnect, Abandon
    <3> QED  BY <2>1, <3>1, WiresEmptied
  <2>3. CASE ~UsesLive({w})
    BY <1>2, <2>1, <2>3, NothingMoved DEF Disconnect
  <2> QED  BY <2>2, <2>3
<1>3. CASE LinkBreaks(u, w)
  <2>1. call' = call /\ RelaysEnd({u}, late)
    BY <1>3 DEF LinkBreaks
  <2> QED  BY <2>1, RelaysMove
<1> QED  BY <1>1, <1>2, <1>3

(* No evaluation and no item: Traffic holds.                                *)
LEMMA IdleTraffic ==
  ASSUME Items' = {}, call'.op = "none"
  PROVE  Traffic'
BY DEF Traffic, Evaluating

(* A call that fails drops everything under way, or replays at rest.        *)
LEMMA FailureMoves ==
  ASSUME Inv, Traffic, NEW rc, AfterFailure(rc), Evaluating
  PROVE  Traffic'
<1>1. Items' = {}
  BY AllEmptied DEF AfterFailure, Abandon
<1>2. CASE Ends(call.op, call.target, FALSE)
  BY <1>1, <1>2, IdleTraffic DEF Ends, Idle
<1>3. CASE call' = [call EXCEPT !.from = 0, !.next = 0, !.got = 0, !.reset = TRUE,
                                !.piped = Len(call.target) > Cap, !.replay = TRUE]
  <2>1. call \in CallStates
    BY DEF Inv, CoordinatorOK
  <2> DEFINE more == Len(call.target) > Cap
  <2>2. call' = [call EXCEPT !.from = 0, !.next = 0, !.got = 0, !.reset = TRUE,
                             !.piped = more, !.replay = TRUE]
    BY <1>3
  <2> HIDE DEF more
  <2>3. /\ call'.got = 0 /\ call'.next = 0 /\ call'.piped = more
        /\ call'.target = call.target /\ call'.op = call.op
    BY <2>1, <2>2 DEF CallStates
  <2>4. call'.piped \/ Len(call'.target) <= call'.got + Cap
    <3>1. Len(call.target) \in Nat /\ Cap \in Nat
      BY SizesAreNat
    <3>2. more <=> Len(call.target) > Cap
      BY DEF more
    <3>3. CASE more
      BY <2>3, <3>3
    <3>4. CASE ~more
      <4>1. Len(call.target) <= 0 + Cap
        BY <3>1, <3>2, <3>4
      <4> QED  BY <2>3, <4>1
    <3> QED  BY <3>3, <3>4
  <2>5. Evaluating'
    BY <2>3 DEF Evaluating
  <2>6. call'.got <= call'.next /\ call'.target # <<>>
    BY <2>3 DEF Traffic
  <2> QED  BY <1>1, <2>4, <2>5, <2>6 DEF Traffic
<1> QED  BY <1>2, <1>3 DEF AfterFailure

(* Outside an evaluation, what leaves the lanes alone leaves them empty.    *)
LEMMA NoItems ==
  ASSUME Traffic, ~Evaluating, UNCHANGED <<wire, back>>
  PROVE  Items' = {}
<1>1. Items' = Items
  BY DEF Items, Lane
<1> QED  BY <1>1 DEF Traffic

(* A call begins with nothing under way.                                    *)
LEMMA CallsMove ==
  ASSUME Inv, Traffic, ~Evaluating, NEW op \in Ops, NEW target \in Transcripts,
         NEW from \in Nat, NEW reset \in BOOLEAN, Calls(op, target, from, reset),
         op \in {"sync", "eval"} => target # <<>>
  PROVE  Traffic'
<1> DEFINE more == Len(target) - from > Cap
<1>1. call' = [op |-> op, target |-> target, from |-> from, next |-> from, got |-> from,
               reset |-> reset, piped |-> more, replay |-> FALSE, sound |-> TRUE]
  BY DEF Calls, Idle
<1>2. Items' = {}
  BY NoItems DEF Calls
<1>3. Len(target) \in Nat /\ Cap \in Nat
  BY TranscriptIsSeq, SizesAreNat
<1>4. more <=> Len(target) - from > Cap
  OBVIOUS
<1> HIDE DEF more
<1>5. /\ call'.got = from /\ call'.next = from /\ call'.piped = more /\ call'.target = target
  BY <1>1
<1>6. call'.got <= call'.next /\ (Evaluating' => call'.target # <<>>)
  BY <1>1, <1>5 DEF Evaluating
<1>7. call'.piped \/ Len(call'.target) <= call'.got + Cap
  <2>1. CASE more
    BY <1>5, <2>1
  <2>2. CASE ~more
    <3>1. Len(target) <= from + Cap
      BY <1>3, <1>4, <2>2
    <3> QED  BY <1>5, <3>1
  <2> QED  BY <2>1, <2>2
<1> QED  BY <1>2, <1>6, <1>7 DEF Traffic

(* A step that keeps the lanes while no evaluation runs keeps Traffic.      *)
LEMMA AtRestMoves ==
  ASSUME Traffic, ~Evaluating, UNCHANGED <<wire, back>>, call'.op \notin {"sync", "eval"}
  PROVE  Traffic'
BY NoItems DEF Traffic, Evaluating

(* The caller begins evaluations only where none is under way.              *)
LEMMA CallersMove ==
  ASSUME Inv, Traffic, Callers
  PROVE  Traffic'
<1>1. ~Evaluating
  BY DEF Callers, BeginSync, BeginEval, BeginSave, BeginLoad, Invalidate, Evaluating
<1>2. own.tl \in Transcripts /\ Len(own.tl) \in Nat
  BY TranscriptIsSeq DEF Inv, CoordinatorOK, GoodOwn
<1>3. ASSUME NEW op, NEW target, NoRoute(op, target)
      PROVE  Traffic'
  BY <1>1, <1>3, AtRestMoves DEF NoRoute, Ends, Idle
<1>4. ASSUME NEW op, NEW target, NEW ok, Ends(op, target, ok), UNCHANGED <<wire, back>>
      PROVE  Traffic'
  BY <1>1, <1>4, AtRestMoves DEF Ends, Idle
<1>5. ASSUME NEW p \in Prompts, BeginSync(p)
      PROVE  Traffic'
  <2>1. p \in Transcripts /\ "sync" \in Ops /\ p # <<>>
    BY PromptsAreTranscripts DEF Ops
  <2> QED  BY <1>1, <1>2, <1>3, <1>4, <1>5, <2>1, CallsMove DEF BeginSync
<1>6. ASSUME NEW t \in Tokens, BeginEval(t)
      PROVE  Traffic'
  <2>1. "eval" \in Ops
    BY DEF Ops
  <2>2. Append(own.tl, t) # <<>>
    BY <1>2, TranscriptIsSeq
  <2> QED  BY <1>1, <1>2, <1>3, <1>6, <2>1, <2>2, CallsMove DEF BeginEval
<1>7. CASE BeginSave
  <2>1. "save" \in Ops
    BY DEF Ops
  <2> QED  BY <1>1, <1>2, <1>3, <1>4, <1>7, <2>1, CallsMove DEF BeginSave
<1>8. CASE BeginLoad
  <2>1. CASE NoRoute("load", saved.of)
    BY <1>3, <2>1
  <2>2. CASE call' = [Idle EXCEPT !.op = "load", !.target = saved.of]
             /\ UNCHANGED <<wire, back>>
    BY <1>1, <2>2, AtRestMoves DEF Idle
  <2> QED  BY <1>8, <2>1, <2>2 DEF BeginLoad
<1>9. CASE Invalidate
  BY <1>9, NothingMoved DEF Invalidate
<1> QED  BY <1>5, <1>6, <1>7, <1>8, <1>9 DEF Callers

(* Saving and loading shards puts no frame on a lane.                       *)
LEMMA ShardsMove ==
  ASSUME Inv, Traffic, SaveShard \/ EndSave \/ LoadShard \/ EndLoad
  PROVE  Traffic'
<1>1. ~Evaluating /\ UNCHANGED <<wire, back>>
  BY DEF SaveShard, EndSave, LoadShard, EndLoad, Evaluating
<1>2. call \in CallStates
  BY DEF Inv, CoordinatorOK
<1>3. call'.op \notin {"sync", "eval"}
  <2>1. CASE call' = Idle
    BY <2>1 DEF Idle
  <2>2. CASE call' = NextShard
    <3>1. call'.op = call.op
      BY <1>2, <2>2 DEF NextShard, CallStates
    <3> QED  BY <1>1, <3>1 DEF Evaluating
  <2> QED  BY <2>1, <2>2 DEF SaveShard, EndSave, LoadShard, EndLoad, Ends
<1> QED  BY <1>1, <1>3, AtRestMoves

(* A chunk sent is a chunk beyond every item under way.                     *)
LEMMA ChunkMoves ==
  ASSUME Inv, Traffic, LocalChunk
  PROVE  Traffic'
<1> DEFINE t == call.target
           pre == SubSeq(t, 1, call.next)
           post == SubSeq(t, 1, ChunkEnd)
           f == [pre |-> pre, post |-> post, reset |-> call.reset /\ call.next = 0,
                 sound |-> TRUE]
           n == Len(Lane(1)) + 1
<1>1. /\ t \in Transcripts /\ call.next \in Nat /\ ChunkEnd \in Nat /\ Len(t) \in Nat
      /\ call.next < ChunkEnd /\ ChunkEnd <= Len(t) /\ t \in Seq(Tokens)
  BY ChunkEndOK DEF LocalChunk, NextChunk, Inv, CoordinatorOK, CallStates
<1>2. pre \o SubSeq(t, call.next + 1, ChunkEnd) = post
  BY <1>1, ChunkOK
<1>3. Local.tl = pre
  BY LocalOK DEF LocalChunk
<1>4. \/ wire' = [wire EXCEPT ![1] = Append(@, f)]
      \/ wire' = wire
  BY <1>2, <1>3 DEF LocalChunk
<1>5. Len(post) = ChunkEnd
  BY <1>1
<1>6. f.post = post
  OBVIOUS
<1>7. /\ Evaluating /\ back' = back /\ call' = [call EXCEPT !.next = ChunkEnd]
      /\ call \in CallStates
  BY DEF LocalChunk, NextChunk, Inv, CoordinatorOK
<1>8. /\ call'.target = t /\ call'.next = ChunkEnd /\ call'.op = call.op
      /\ call'.got = call.got /\ call'.piped = call.piped
  BY <1>7 DEF CallStates
<1>9. call.got \in Nat /\ Cap \in Nat /\ Cap > 0 /\ call.got <= call.next
      /\ (call.piped \/ Len(t) <= call.got + Cap)
  BY <1>7, SizesAreNat DEF Traffic
<1>10. ChunkEnd = Len(t) \/ ChunkEnd = call.next + Cap
  BY <1>1, <1>9, MinOfTwo DEF ChunkEnd
<1>11. \A m \in Lanes : /\ Lane(m) \in Seq(GoodFrames \cup GoodResults)
                        /\ Len(Lane(m)) \in Nat /\ DOMAIN Lane(m) = 1..Len(Lane(m))
  BY SizesAreNat
<1>12. wire \in [Hops -> Seq(GoodFrames)]
  BY DEF Inv, TrafficOK
<1> HIDE DEF f, pre, post, t
<1>13. \A m \in Lanes : Lane(m)' = Lane(m) \/ (m = 1 /\ Lane(m)' = Append(Lane(m), f))
  <2> SUFFICES ASSUME NEW m \in Lanes
               PROVE  Lane(m)' = Lane(m) \/ (m = 1 /\ Lane(m)' = Append(Lane(m), f))
    OBVIOUS
  <2>1. CASE m = 0
    BY <1>7, <2>1 DEF Lane
  <2>2. CASE m \in Hops
    BY <1>4, <1>12, <2>2, SizesAreNat DEF Lane
  <2> QED  BY <2>1, <2>2 DEF Lanes
<1>14. ASSUME NEW x \in Items'
       PROVE  \/ x \in Items /\ Size(x)' = Size(x)
              \/ x = <<1, n>> /\ Size(x)' = ChunkEnd
  <2>1. /\ x[1] \in Lanes /\ x[2] \in Nat /\ x = <<x[1], x[2]>> /\ x \in Lanes \X Nat
        /\ x[2] \in DOMAIN Lane(x[1])'
    BY DEF Items
  <2>2. CASE Lane(x[1])' = Lane(x[1])
    BY <2>1, <2>2 DEF Items, Size, Lane
  <2>3. CASE x[1] = 1 /\ Lane(x[1])' = Append(Lane(x[1]), f)
    <3>1. /\ 1 \in Lanes /\ Lane(1) \in Seq(GoodFrames \cup GoodResults) /\ Len(Lane(1)) \in Nat
          /\ DOMAIN Lane(1) = 1..Len(Lane(1))
      BY <1>11, <2>1, <2>3
    <3>2. x[2] \in 1..n
      BY <2>1, <2>3, <3>1
    <3>3. CASE x[2] = n
      <4>1. Lane(x[1])'[x[2]] = f
        BY <2>3, <3>1, <3>3
      <4>2. Size(x)' = Len(f.post)
        BY <4>1 DEF Size, Lane
      <4> QED  BY <1>5, <1>6, <2>1, <2>3, <3>3, <4>2
    <3>4. CASE x[2] # n
      <4>1. x[2] \in 1..Len(Lane(1)) /\ Lane(x[1])'[x[2]] = Lane(x[1])[x[2]]
        BY <2>3, <3>1, <3>2, <3>4
      <4> QED  BY <2>1, <2>3, <3>1, <4>1 DEF Items, Size, Lane
    <3> QED  BY <3>3, <3>4
  <2> QED  BY <1>13, <2>1, <2>2, <2>3
<1> HIDE DEF n
<1>15. ASSUME NEW x \in Items
       PROVE  /\ Size(x) \in Nat /\ Size(x) <= call.next
              /\ Size(x) >= call.got + Cap \/ Size(x) = Len(t)
  BY <1>7, SizesAreNat DEF Traffic, t
<1>16. ASSUME NEW x \in Items'
       PROVE  /\ Size(x)' <= call'.next
              /\ Size(x)' >= call'.got + Cap \/ Size(x)' = Len(call'.target)
  <2>1. CASE x \in Items /\ Size(x)' = Size(x)
    BY <1>1, <1>8, <1>15, <2>1
  <2>2. CASE Size(x)' = ChunkEnd
    BY <1>1, <1>8, <1>9, <1>10, <2>2
  <2> QED  BY <1>14, <2>1, <2>2
<1>17. ASSUME NEW x \in Items', NEW y \in Items', x # y
       PROVE  Spaced(Size(x), Size(y))'
  <2>1. CASE x \in Items /\ Size(x)' = Size(x) /\ y \in Items /\ Size(y)' = Size(y)
    <3>1. Spaced(Size(x), Size(y))
      BY <1>7, <1>17, <2>1 DEF Traffic
    <3> QED  BY <1>8, <2>1, <3>1 DEF Spaced, t
  <2>2. CASE x \in Items /\ Size(x)' = Size(x) /\ Size(y)' = ChunkEnd
    <3>1. /\ Size(x)' # Size(y)'
          /\ Size(x)' < Size(y)' => \/ Size(y)' >= Size(x)' + Cap
                                    \/ Size(y)' = Len(call'.target)
      BY <1>1, <1>8, <1>9, <1>10, <1>15, <2>2
    <3> QED  BY <3>1 DEF Spaced
  <2>3. CASE Size(x)' = ChunkEnd /\ y \in Items /\ Size(y)' = Size(y)
    <3>1. Size(x)' # Size(y)' /\ ~(Size(x)' < Size(y)')
      BY <1>1, <1>15, <2>3
    <3> QED  BY <3>1 DEF Spaced
  <2> QED  BY <1>14, <1>17, <2>1, <2>2, <2>3
<1>18. Evaluating' /\ call'.got <= call'.next /\ call'.target # <<>>
       /\ (call'.piped \/ Len(call'.target) <= call'.got + Cap)
  <2>1. call.target # <<>>
    BY <1>7 DEF Traffic
  <2> QED  BY <1>1, <1>7, <1>8, <1>9, <2>1 DEF Evaluating, t
<1> HIDE DEF Items, Size, Spaced
<1> QED  BY <1>16, <1>17, <1>18 DEF Traffic

(* Where the coordinator reads next.                                       *)
Oldest == <<0, 1>>

(* Reading the oldest result leaves the other items as they were.           *)
LEMMA ReadShifts ==
  ASSUME Inv, back # <<>>, back' = Tail(back), wire' = wire
  PROVE  /\ Oldest \in Items /\ Size(Oldest) = Len(Head(back).post)
         /\ \E f \in [Items' -> Items] :
              /\ \A x, y \in Items' : f[x] = f[y] => x = y
              /\ \A x \in Items' : f[x] # Oldest /\ Size(x)' = Size(f[x])
<1>1. /\ back \in Seq(GoodFrames \cup GoodResults) /\ Len(back) \in Nat /\ DOMAIN back = 1..Len(back)
      /\ 0 \in Lanes /\ Lane(0) = back /\ Lane(0)' = back'
      /\ \A k \in Lanes \ {0} : Lane(k)' = Lane(k)
  <2>1. 0 \in Lanes /\ Lane(0) = back /\ Lane(0)' = back'
    BY DEF Lane, Lanes
  <2>2. \A k \in Lanes \ {0} : Lane(k)' = Lane(k)
    BY DEF Lane
  <2> QED  BY <2>1, <2>2, SizesAreNat
<1>2. /\ Len(back) > 0 /\ DOMAIN back' = 1..Len(back) - 1 /\ Head(back) = back[1]
      /\ \A i \in DOMAIN back' : back'[i] = back[i + 1]
  BY <1>1
<1>3. Oldest \in Items /\ Size(Oldest) = Len(Head(back).post)
  BY <1>1, <1>2 DEF Oldest, Items, Size
<1> DEFINE f == [x \in Items' |-> IF x[1] = 0 THEN <<0, x[2] + 1>> ELSE x]
<1>4. ASSUME NEW x \in Items'
      PROVE  /\ x = <<x[1], x[2]>> /\ x[2] \in Nat /\ x[2] > 0
             /\ f[x] \in Items /\ f[x] # Oldest /\ Size(x)' = Size(f[x])
             /\ x[1] = 0 => f[x] = <<0, x[2] + 1>>
             /\ x[1] # 0 => f[x] = x
  <2>1. /\ x[1] \in Lanes /\ x[2] \in Nat /\ x = <<x[1], x[2]>> /\ x \in Lanes \X Nat
        /\ x[2] \in DOMAIN Lane(x[1])'
    BY DEF Items
  <2>2. CASE x[1] = 0
    <3>1. /\ f[x] = <<0, x[2] + 1>> /\ x[2] \in DOMAIN back' /\ x[2] > 0
          /\ x[2] + 1 \in DOMAIN back /\ back'[x[2]] = back[x[2] + 1] /\ x[2] + 1 # 1
      BY <1>1, <1>2, <2>1, <2>2
    <3>2. f[x] \in Items
      BY <1>1, <2>1, <3>1 DEF Items
    <3>3. f[x] # Oldest
      <4>1. (<<0, x[2] + 1>>)[2] = x[2] + 1 /\ Oldest[2] = 1
        BY DEF Oldest
      <4> QED  BY <3>1, <4>1
    <3>4. Size(x)' = Size(f[x])
      BY <1>1, <2>2, <3>1 DEF Size, Lane
    <3> QED  BY <2>1, <2>2, <3>1, <3>2, <3>3, <3>4
  <2>3. CASE x[1] # 0
    <3>1. f[x] = x /\ Lane(x[1])' = Lane(x[1]) /\ Oldest[1] = 0
      BY <1>1, <2>1, <2>3 DEF Oldest
    <3>2. f[x] \in Items /\ Size(x)' = Size(f[x])
      BY <2>1, <3>1 DEF Items, Size, Lane
    <3>3. x[2] > 0
      BY <2>1, <3>1, SizesAreNat
    <3> QED  BY <2>1, <2>3, <3>1, <3>2, <3>3
  <2> QED  BY <2>2, <2>3
<1>5. f \in [Items' -> Items]
  <2>1. \A x \in Items' : f[x] \in Items
    BY <1>4
  <2> QED  BY <2>1
<1> HIDE DEF f
<1>6. ASSUME NEW x \in Items', NEW y \in Items', f[x] = f[y] PROVE x = y
  <2>1. CASE x[1] = 0 /\ y[1] = 0
    <3>1. x[2] + 1 = y[2] + 1
      <4>1. (<<0, x[2] + 1>>)[2] = x[2] + 1 /\ (<<0, y[2] + 1>>)[2] = y[2] + 1
        OBVIOUS
      <4>2. f[x] = <<0, x[2] + 1>> /\ f[y] = <<0, y[2] + 1>>
        BY <1>4, <2>1
      <4> QED  BY <1>6, <4>1, <4>2
    <3>2. x[2] \in Nat /\ y[2] \in Nat /\ x = <<x[1], x[2]>> /\ y = <<y[1], y[2]>>
      BY <1>4
    <3>3. x[2] = y[2]
      BY <3>1, <3>2
    <3> QED  BY <2>1, <3>2, <3>3
  <2>2. CASE x[1] = 0 /\ y[1] # 0
    <3>1. f[x] = <<0, x[2] + 1>> /\ f[y] = y /\ (<<0, x[2] + 1>>)[1] = 0
      BY <1>4, <2>2
    <3> QED  BY <1>6, <2>2, <3>1
  <2>3. CASE x[1] # 0 /\ y[1] = 0
    <3>1. f[y] = <<0, y[2] + 1>> /\ f[x] = x /\ (<<0, y[2] + 1>>)[1] = 0
      BY <1>4, <2>3
    <3> QED  BY <1>6, <2>3, <3>1
  <2>4. CASE x[1] # 0 /\ y[1] # 0
    <3>1. f[x] = x /\ f[y] = y
      BY <1>4, <2>4
    <3> QED  BY <1>6, <3>1
  <2> QED  BY <2>1, <2>2, <2>3, <2>4
<1>7. \A x, y \in Items' : f[x] = f[y] => x = y
  BY <1>6
<1>8. \A x \in Items' : f[x] # Oldest /\ Size(x)' = Size(f[x])
  BY <1>4
<1> QED  BY <1>3, <1>5, <1>7, <1>8

(* The result the coordinator expects ends where its layers or chunk do.    *)
LEMMA ExpectedResult ==
  ASSUME Inv, Traffic, Evaluating, back # <<>>, Head(back).post = Expected
  PROVE  /\ Len(Expected) = NextGot /\ NextGot \in Nat
         /\ NextGot <= call.next /\ call.next <= Len(call.target)
         /\ own.valid /\ own.tl = SubSeq(call.target, 1, call.next)
         /\ (NextGot = Len(call.target) => Len(call.target) <= call.got + Cap)
         /\ (NextGot # Len(call.target) => call.piped /\ NextGot = call.got + Cap)
<1>1. /\ call.next \in Nat /\ call.got \in Nat /\ Len(call.target) \in Nat
      /\ Cap \in Nat /\ Cap > 0 /\ call.target \in Seq(Tokens) /\ call.target # <<>>
      /\ call.next <= Len(call.target) /\ call.got <= call.next
      /\ (call.piped \/ Len(call.target) <= call.got + Cap)
  BY SizesAreNat, TranscriptIsSeq DEF Traffic, Inv, CallOK, CoordinatorOK, CallStates
<1>2. Len(call.target) > 0
  BY <1>1
<1>3. /\ Oldest \in Items /\ Size(Oldest) = Len(Expected)
  <2>1. /\ back \in Seq(GoodFrames \cup GoodResults) /\ DOMAIN back = 1..Len(back)
        /\ Len(back) \in Nat /\ 0 \in Lanes /\ Lane(0) = back
    <3>1. 0 \in Lanes /\ Lane(0) = back
      BY DEF Lane, Lanes
    <3> QED  BY <3>1, SizesAreNat
  <2>2. 1 \in DOMAIN back /\ back[1] = Head(back)
    BY <2>1
  <2> QED  BY <2>1, <2>2 DEF Oldest, Items, Size
<1>4. /\ Len(Expected) \in Nat /\ Len(Expected) <= call.next
      /\ Len(Expected) >= call.got + Cap \/ Len(Expected) = Len(call.target)
  BY <1>3, SizesAreNat DEF Traffic
<1>5. Len(Expected) > 0 /\ call.next > 0
  BY <1>1, <1>2, <1>4
<1>6. own.valid /\ own.tl = SubSeq(call.target, 1, call.next)
  BY <1>5 DEF Inv, CallOK
<1>7. CASE call.piped
  <2>1. NextGot = Min({call.got + Cap, Len(call.target)})
    BY <1>7 DEF NextGot
  <2>2. call.got + Cap \in Nat
    BY <1>1
  <2>3. /\ NextGot \in Nat /\ NextGot <= Len(call.target) /\ NextGot <= call.got + Cap
        /\ NextGot \in {call.got + Cap, Len(call.target)}
    BY <1>1, <2>1, <2>2, MinOfTwo
  <2>4. Expected = SubSeq(call.target, 1, NextGot)
    BY <1>7 DEF Expected
  <2>5. Len(Expected) = NextGot
    BY <1>1, <2>3, <2>4
  <2> QED  BY <1>1, <1>4, <1>6, <1>7, <2>3, <2>5
<1>8. CASE ~call.piped
  <2>1. NextGot = call.next /\ Expected = own.tl
    BY <1>8 DEF NextGot, Expected
  <2>2. Len(Expected) = call.next
    BY <1>1, <1>6, <2>1
  <2>3. Len(call.target) <= call.got + Cap
    BY <1>1, <1>8
  <2> QED  BY <1>1, <1>4, <1>6, <2>1, <2>2, <2>3
<1> QED  BY <1>7, <1>8

(* Reading a result counts it and keeps the others ahead of the count.      *)
LEMMA ResultMoves ==
  ASSUME Inv, Traffic, ReadResult
  PROVE  Traffic'
<1> DEFINE r == Head(back)
<1>1. Evaluating /\ back # <<>>
  BY DEF ReadResult
<1>2. CASE ~(r.post = Expected /\ r.ok)
  <2>1. PICK rc : AfterFailure(rc)
    BY <1>2 DEF ReadResult
  <2> QED  BY <1>1, <2>1, FailureMoves
<1>3. CASE r.post = Expected /\ r.ok
  <2>1. /\ back' = Tail(back) /\ wire' = wire
        /\ IF NextGot = Len(call.target) THEN call' = Idle
           ELSE call' = [call EXCEPT !.got = NextGot]
    BY <1>3 DEF ReadResult, Ends
  <2>2. /\ Len(Expected) = NextGot /\ NextGot \in Nat /\ NextGot <= call.next
        /\ (NextGot = Len(call.target) => Len(call.target) <= call.got + Cap)
        /\ (NextGot # Len(call.target) => call.piped /\ NextGot = call.got + Cap)
        /\ call.next <= Len(call.target)
    BY <1>1, <1>3, ExpectedResult
  <2>3. PICK f \in [Items' -> Items] :
              /\ \A x, y \in Items' : f[x] = f[y] => x = y
              /\ \A x \in Items' : f[x] # Oldest /\ Size(x)' = Size(f[x])
    BY <1>1, <2>1, ReadShifts
  <2>4. Oldest \in Items /\ Size(Oldest) = NextGot
    BY <1>1, <1>3, <2>1, <2>2, ReadShifts
  <2>5. /\ call.got \in Nat /\ call.next \in Nat /\ Len(call.target) \in Nat
        /\ Cap \in Nat /\ Cap > 0 /\ call \in CallStates /\ call.target # <<>>
    BY <1>1, SizesAreNat DEF Inv, CoordinatorOK, Traffic
  <2>6. ASSUME NEW x \in Items, x # Oldest
        PROVE  /\ Size(x) \in Nat /\ Size(x) <= call.next
               /\ Size(x) >= call.got + Cap \/ Size(x) = Len(call.target)
               /\ Size(x) # NextGot
               /\ NextGot < Size(x) => Size(x) >= NextGot + Cap \/ Size(x) = Len(call.target)
    <3>1. Spaced(Size(Oldest), Size(x))
      BY <1>1, <2>4, <2>6 DEF Traffic
    <3> QED  BY <1>1, <2>4, <3>1, SizesAreNat DEF Traffic, Spaced
  <2>7. CASE NextGot = Len(call.target)
    <3>1. ASSUME NEW x \in Items' PROVE FALSE
      <4>1. f[x] \in Items /\ f[x] # Oldest
        BY <2>3
      <4> QED  BY <2>2, <2>5, <2>6, <2>7, <4>1
    <3>2. Items' = {}
      BY <3>1
    <3> QED  BY <2>1, <2>7, <3>2, IdleTraffic DEF Idle
  <2>8. CASE NextGot # Len(call.target)
    <3>1. call' = [call EXCEPT !.got = NextGot] /\ call.piped /\ NextGot = call.got + Cap
      BY <2>1, <2>2, <2>8
    <3>2. /\ call'.got = NextGot /\ call'.next = call.next /\ call'.target = call.target
          /\ call'.piped = call.piped /\ call'.op = call.op
      BY <2>5, <3>1 DEF CallStates
    <3>3. ASSUME NEW x \in Items'
          PROVE  /\ Size(x)' <= call'.next
                 /\ Size(x)' >= call'.got + Cap \/ Size(x)' = Len(call'.target)
      <4>1. f[x] \in Items /\ f[x] # Oldest /\ Size(x)' = Size(f[x])
        BY <2>3
      <4> QED  BY <2>2, <2>5, <2>6, <2>8, <3>1, <3>2, <4>1
    <3>4. ASSUME NEW x \in Items', NEW y \in Items', x # y
          PROVE  Spaced(Size(x), Size(y))'
      <4>1. /\ f[x] \in Items /\ f[y] \in Items /\ f[x] # f[y]
            /\ Size(x)' = Size(f[x]) /\ Size(y)' = Size(f[y])
        BY <2>3, <3>4
      <4>2. Spaced(Size(f[x]), Size(f[y]))
        BY <1>1, <4>1 DEF Traffic
      <4> QED  BY <3>2, <4>1, <4>2 DEF Spaced
    <3>5. Evaluating' /\ call'.target # <<>> /\ call'.got <= call'.next /\ call'.piped
      BY <1>1, <2>2, <2>5, <3>1, <3>2 DEF Evaluating
    <3> HIDE DEF Items, Size, Spaced
    <3> QED  BY <3>3, <3>4, <3>5 DEF Traffic
  <2> QED  BY <2>7, <2>8
<1> QED  BY <1>2, <1>3

(* Every step keeps Traffic.                                                *)
LEMMA StepKeepsTraffic == Inv /\ Traffic /\ [Next]_vars => Traffic'
<1> SUFFICES ASSUME Inv, Traffic, [Next]_vars PROVE Traffic'
  OBVIOUS
<1>1. CASE Callers
  BY <1>1, CallersMove
<1>2. CASE Coordinator
  <2>1. CASE RouteBroken
    BY <2>1, FailureMoves DEF RouteBroken
  <2> QED  BY <1>2, <2>1, ChunkMoves, ResultMoves, ShardsMove DEF Coordinator
<1>3. CASE Failures
  <2>1. CASE LocalFails
    <3>1. PICK rc : AfterFailure(rc)
      BY <2>1 DEF LocalFails
    <3> QED  BY <2>1, <3>1, FailureMoves DEF LocalFails, NextChunk
  <2> QED  BY <1>3, <2>1, FaultsMove DEF Failures
<1>4. CASE Membership
  BY <1>4, NothingMoved DEF Membership, Register, RemoveWorker, Notice
<1>5. ASSUME NEW k \in Hops, Hop(k) PROVE Traffic'
  BY <1>5, WorkMoves DEF Hop
<1>6. ASSUME NEW l \in late, LateWork(l) PROVE Traffic'
  BY <1>6, NothingMoved DEF LateWork
<1>7. CASE UNCHANGED vars
  BY <1>7, NothingMoved DEF vars
<1> QED  BY <1>1, <1>2, <1>3, <1>4, <1>5, <1>6, <1>7 DEF Next

(* A failure answers no, or keeps the call to replay it.                    *)
LEMMA FailureIsNoAnswer ==
  ASSUME Inv, NEW rc, AfterFailure(rc)
  PROVE  ~answer'.ok \/ call'.op = call.op
<1>1. CASE Ends(call.op, call.target, FALSE)
  BY <1>1 DEF Ends
<1>2. CASE call' = [call EXCEPT !.from = 0, !.next = 0, !.got = 0, !.reset = TRUE,
                                !.piped = Len(call.target) > Cap, !.replay = TRUE]
  <2>1. call \in CallStates
    BY DEF Inv, CoordinatorOK
  <2> QED  BY <1>2, <2>1 DEF CallStates
<1> QED  BY <1>1, <1>2 DEF AfterFailure

(* An evaluation that ends with success ends by reading a result.           *)
LEMMA OnlyResultsAnswer ==
  ASSUME Inv, Next, Evaluating, call'.op = "none", answer'.ok
  PROVE  ReadResult
<1>1. call.op # "none" /\ call.op # "save" /\ call.op # "load" /\ call.op # call'.op
      /\ call \in CallStates
  BY DEF Evaluating, Inv, CoordinatorOK
<1>2. CASE Callers
  BY <1>1, <1>2 DEF Callers, BeginSync, BeginEval, BeginSave, BeginLoad, Invalidate
<1>3. CASE Coordinator
  <2>1. CASE LocalChunk
    <3>1. call'.op = call.op
      BY <1>1, <2>1 DEF LocalChunk, CallStates
    <3> QED  BY <1>1, <3>1
  <2>2. CASE RouteBroken
    BY <1>1, <2>2, FailureIsNoAnswer DEF RouteBroken
  <2> QED  BY <1>1, <1>3, <2>1, <2>2 DEF Coordinator, SaveShard, EndSave, LoadShard, EndLoad
<1>4. CASE Failures
  <2>1. CASE LocalFails
    <3>1. PICK rc : AfterFailure(rc)
      BY <2>1 DEF LocalFails
    <3> QED  BY <1>1, <3>1, FailureIsNoAnswer
  <2> QED  BY <1>1, <1>4, <2>1 DEF Failures, Crash, Disconnect, LinkBreaks
<1>5. CASE Membership
  BY <1>1, <1>5 DEF Membership, Register, RemoveWorker, Notice
<1>6. ASSUME NEW k \in Hops, Hop(k) PROVE FALSE
  BY <1>1, <1>6 DEF Hop, Work, WorkRefused
<1>7. ASSUME NEW l \in late, LateWork(l) PROVE FALSE
  BY <1>1, <1>7 DEF LateWork
<1> QED  BY <1>2, <1>3, <1>4, <1>5, <1>6, <1>7 DEF Next

(* A sync or a decode that worked leaves the coordinator's own layers and  *)
(* the logits at the transcript asked for, whatever was lost, refused or   *)
(* replayed before (dist_prefill_result_reader_main,                       *)
(* dist_coordinator_rebuild_from_transcript).                              *)
THEOREM WorkedIsAtTarget == Spec => WorkedReachesTarget
<1>1. Init => Traffic
  <2> SUFFICES ASSUME Init PROVE Traffic
    OBVIOUS
  <2>1. ~Evaluating
    BY DEF Init, Idle, Evaluating
  <2>2. ASSUME NEW x \in Items PROVE FALSE
    <3>1. x[1] \in Lanes /\ x[2] \in DOMAIN Lane(x[1])
      BY DEF Items
    <3>2. Lane(x[1]) = <<>>
      BY <3>1, InitOK, SizesAreNat DEF Init, Lane, Lanes
    <3> QED  BY <3>1, <3>2
  <2> QED  BY <2>1, <2>2 DEF Traffic
<1>2. Inv /\ Traffic /\ [Next]_vars => Traffic'
  BY StepKeepsTraffic
<1>3. ASSUME Inv, Traffic, Next, Evaluating, call'.op = "none", answer'.ok
      PROVE  /\ own'.valid /\ own'.tl = call.target
             /\ logits'.of = call.target /\ logits'.sound
  <2> DEFINE r == Head(back)
  <2>1. ReadResult
    BY <1>3, OnlyResultsAnswer
  <2>2. Evaluating /\ back # <<>> /\ call \in CallStates
    BY <1>3, <2>1 DEF ReadResult, Inv, CoordinatorOK
  <2>3. r.post = Expected /\ r.ok
    <3>1. ASSUME ~(r.post = Expected /\ r.ok) PROVE FALSE
      <4>1. PICK rc : AfterFailure(rc)
        BY <2>1, <3>1 DEF ReadResult
      <4>2. call'.op = call.op
        BY <1>3, <4>1, FailureIsNoAnswer
      <4> QED  BY <1>3, <4>2 DEF Evaluating
    <3> QED  BY <3>1
  <2>4. NextGot = Len(call.target)
    <3>1. ASSUME NextGot # Len(call.target) PROVE FALSE
      <4>1. call' = [call EXCEPT !.got = NextGot]
        BY <2>1, <2>3, <3>1 DEF ReadResult
      <4>2. call'.op = call.op
        BY <2>2, <4>1 DEF CallStates
      <4> QED  BY <1>3, <4>2 DEF Evaluating
    <3> QED  BY <3>1
  <2>5. /\ own' = own /\ logits' = [of |-> r.post, sound |-> r.sound]
    BY <2>1, <2>3, <2>4 DEF ReadResult
  <2>6. /\ NextGot \in Nat /\ NextGot <= call.next /\ call.next <= Len(call.target)
        /\ own.valid /\ own.tl = SubSeq(call.target, 1, call.next)
    BY <1>3, <2>2, <2>3, ExpectedResult
  <2>7. call.target \in Seq(Tokens) /\ Len(call.target) \in Nat /\ call.next \in Nat
    BY <2>2, TranscriptIsSeq DEF CallStates
  <2>8. call.next = Len(call.target)
    BY <2>4, <2>6, <2>7
  <2>9. own.tl = call.target
    BY <2>6, <2>7, <2>8, SubSeqFull
  <2>10. Expected = call.target
    <3>1. SubSeq(call.target, 1, Len(call.target)) = call.target
      BY <2>7, SubSeqFull
    <3>2. Expected = SubSeq(call.target, 1, NextGot) \/ Expected = own.tl
      BY DEF Expected
    <3> QED  BY <2>4, <2>9, <3>1, <3>2
  <2>11. r.sound
    <3>1. r \in GoodResults
      BY <1>3, <2>2, HeadTailProperties DEF Inv, TrafficOK
    <3> QED  BY <3>1 DEF GoodResults
  <2> QED  BY <2>3, <2>5, <2>6, <2>9, <2>10, <2>11
<1>4. Inv /\ Traffic /\ [Next]_vars =>
        [(/\ answer' # answer \/ call' # call
          /\ Evaluating /\ call'.op = "none" /\ answer'.ok)
           => /\ own'.valid /\ own'.tl = call.target
              /\ logits'.of = call.target /\ logits'.sound]_vars
  BY <1>3
<1> QED  BY <1>1, <1>2, <1>4, Invariance, PTL DEF Spec, WorkedReachesTarget

==============================================================================
