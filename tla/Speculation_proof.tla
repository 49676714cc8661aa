-------------------------- MODULE Speculation_proof --------------------------
(***************************************************************************)
(* Proofs about Speculation for any drafts, any target model and any       *)
(* number of failing device calls.                                         *)
(*                                                                         *)
(* Inv: off the verifier's window the graph stands at the checkpoint; in   *)
(* it, everything is a function of the snapshot the call started from.     *)
(* Targeted: what a greedy caller was given, with what the call under way  *)
(* will add, is the target's own choice token by token up to the history   *)
(* the call started from, all of it while the turn goes on.                *)
(***************************************************************************)
EXTENDS Speculation, SequenceTheorems, WellFoundedInduction, TLAPS

(* A verifier captures the frontier after its first two rows, so a sampled *)
(* call may draft two tokens at most: one that drafts more and rejects     *)
(* late has nothing to roll back to (ds4.c:31323).                         *)
RowsAreCaptured == \A c \in Configs : c.copies \/ c.depth <= 2
-----------------------------------------------------------------------------
(* Off the verifier's window the graph stands at the checkpoint.           *)
Standing == front # Torn => front = ckpt /\ logits = ckpt

(* What a call's window may be before the verifier runs.                   *)
WindowOK ==
  /\ Len(call.window) \in 1..5
  /\ call.path \in {"combined", "sample"} => Len(call.window) <= 3
  /\ call.path \in {"dspark", "exact"} => Len(call.window) <= 2
  /\ call.path # "none"

(* After the verifier everything is a function of the snapshot.            *)
Verified ==
  /\ ckpt = call.base \o call.window
  /\ call.snap = Torn \/ (call.snap = call.base /\ logits = call.base)
  /\ front = After(call.snap, call.base, call.window)
  /\ Len(call.window) <= 3 =>
       \A i \in 1..2 : i < Len(call.window) =>
         call.kept[i] = After(call.snap, call.base, FirstRows(i))

CallOK ==
  /\ (call.pc # "idle" \/ turn.open) => valid
  /\ (valid /\ call.pc # "settle") => Standing
  /\ call.pc \in {"verify", "replay", "seq", "settle"} => WindowOK
  /\ call.pc = "settle" => Verified /\ Len(ckpt) <= Ctx
  /\ call.pc = "verify" => call.base = ckpt
  /\ call.pc \in {"verify", "replay", "seq"} => Len(ckpt) + Len(call.window) <= Ctx
  /\ seed => ~conf.copies

Inv == TypeOK /\ CallOK /\ WithinContext
-----------------------------------------------------------------------------
(* The two contents that are no history are told from every history.       *)
LEMMA NoHistory == Unknown \notin Seq(Tokens) /\ Torn \notin Seq(Tokens) /\ Unknown # Torn
<1>1. Unknown[1] = Lost /\ Len(Unknown) = 1 /\ Torn[1] = Lost /\ Len(Torn) = 2
  BY DEF Unknown, Torn
<1>2. \A h \in Seq(Tokens) : Len(h) > 0 => h[1] \in Tokens
  OBVIOUS
<1> QED BY <1>1, <1>2, LostIsNoToken

(* A frontier that stands at a history serves it.                          *)
LEMMA ServesItself ==
  ASSUME NEW g \in Seq(Tokens) PROVE Serves(g, g)
<1>1. g \notin {Unknown, Torn}
  BY NoHistory
<1> QED BY <1>1 DEF Serves, IsPrefix

(* A forward from there extends the history, and a torn one stays torn.    *)
LEMMA AfterStanding ==
  ASSUME NEW g \in Seq(Tokens), NEW ts \in Seq(Tokens)
  PROVE  After(g, g, ts) = g \o ts /\ After(Torn, g, ts) = Torn
<1>1. ~Serves(Torn, g)
  BY DEF Serves
<1> QED BY <1>1, ServesItself DEF After

(* So a forward from a snapshot that is torn or stands at g is known.      *)
LEMMA AfterSnapshot ==
  ASSUME NEW f, NEW g \in Seq(Tokens), NEW ts \in Seq(Tokens), f = Torn \/ f = g
  PROVE  After(f, g, ts) = IF f = Torn THEN Torn ELSE g \o ts
<1>1. CASE f = Torn
  <2>1. After(Torn, g, ts) = Torn
    BY AfterStanding
  <2> QED BY <1>1, <2>1
<1>2. CASE f = g
  <2>1. g # Torn
    BY NoHistory
  <2>2. After(g, g, ts) = g \o ts
    BY AfterStanding
  <2> QED BY <1>2, <2>1, <2>2
<1> QED BY <1>1, <1>2

(* Whatever a forward leaves is a content.                                 *)
LEMMA AfterType ==
  ASSUME NEW f \in Contents, NEW g \in Seq(Tokens), NEW ts \in Seq(Tokens)
  PROVE  After(f, g, ts) \in Contents
BY DEF After, Contents

(* The front part of a history is a history.                               *)
LEMMA PartType ==
  ASSUME NEW w \in Seq(Tokens), NEW n \in 0..Len(w)
  PROVE  SubSeq(w, 1, n) \in Seq(Tokens) /\ Len(SubSeq(w, 1, n)) = n
OBVIOUS

(* A history continued up to n is the prompt's first n tokens.             *)
LEMMA Continued ==
  ASSUME NEW c \in Seq(Tokens), NEW p \in Seq(Tokens), IsPrefix(c, p),
         NEW n \in Len(c)..Len(p)
  PROVE  /\ SubSeq(p, Len(c) + 1, n) \in Seq(Tokens)
         /\ c \o SubSeq(p, Len(c) + 1, n) = SubSeq(p, 1, n)
         /\ SubSeq(p, 1, Len(c)) = c
<1> DEFINE q == SubSeq(p, Len(c) + 1, n)
<1>1. Len(c) <= Len(p) /\ SubSeq(p, 1, Len(c)) = c
  <2>1. SubSeq(c, 1, Len(c)) = c
    OBVIOUS
  <2> QED BY <2>1 DEF IsPrefix
<1>2. q \in Seq(Tokens) /\ Len(q) = n - Len(c)
  OBVIOUS
<1>3. \A i \in 1..Len(c) : c[i] = p[i]
  <2>1. \A i \in 1..Len(c) : SubSeq(p, 1, Len(c))[i] = p[i]
    BY <1>1
  <2> QED BY <1>1, <2>1
<1>4. \A i \in 1..Len(q) : q[i] = p[Len(c) + i]
  BY <1>2
<1>5. /\ c \o q \in Seq(Tokens) /\ Len(c \o q) = n
      /\ SubSeq(p, 1, n) \in Seq(Tokens) /\ Len(SubSeq(p, 1, n)) = n
  BY <1>2
<1>6. \A i \in 1..n : (c \o q)[i] = SubSeq(p, 1, n)[i]
  <2> SUFFICES ASSUME NEW i \in 1..n PROVE (c \o q)[i] = SubSeq(p, 1, n)[i]
    OBVIOUS
  <2>1. SubSeq(p, 1, n)[i] = p[i]
    OBVIOUS
  <2>2. CASE i <= Len(c)
    BY <2>1, <2>2, <1>2, <1>3
  <2>3. CASE i > Len(c)
    <3>1. i - Len(c) \in 1..Len(q)
      BY <2>3, <1>2
    <3>2. (c \o q)[i] = q[i - Len(c)]
      BY <2>3, <1>2, <3>1
    <3> QED BY <3>1, <3>2, <1>4, <2>1
  <2> QED BY <2>2, <2>3
<1>7. c \o q = SubSeq(p, 1, n)
  BY <1>5, <1>6
<1> QED BY <1>1, <1>2, <1>7
-----------------------------------------------------------------------------
(* How many drafts the target agrees with is found in the window, and it   *)
(* agrees with all that are committed.                                     *)
LEMMA AgreedInWindow ==
  ASSUME Len(call.window) \in 1..5, call.window \in Seq(Tokens)
  PROVE  /\ Agreed \in 1..Len(call.window) /\ Committed \in 1..Len(call.window)
         /\ Agrees(Committed)
<1> DEFINE L == Len(call.window)
<1> DEFINE P(k) == Agrees(k) /\ (k = L \/ ~Agrees(k + 1))
<1>0. L \in 1..5
  OBVIOUS
<1>1. Agrees(1)
  BY DEF Agrees
<1>2. DOMAIN call.window = 1..L
  OBVIOUS
<1>3. \E k \in 1..L : P(k)
  <2> HIDE DEF P
  <2> SUFFICES ASSUME \A k \in 1..L : ~P(k) PROVE FALSE
    OBVIOUS
  <2>1. \A k \in 1..L : Agrees(k) => (k # L /\ Agrees(k + 1))
    BY DEF P
  <2>2. CASE L = 1
    BY <1>1, <2>1, <2>2
  <2>3. CASE L > 1
    <3>1. Agrees(2)
      BY <1>1, <2>1, <2>3
    <3>2. L > 2 /\ Agrees(3)
      BY <3>1, <2>1, <2>3
    <3>3. L > 3 /\ Agrees(4)
      BY <3>2, <2>1
    <3>4. L > 4 /\ Agrees(5)
      BY <3>3, <2>1
    <3>5. L > 4 /\ ~(L # 5)
      <4> HIDE DEF L
      <4>1. L > 4
        BY <3>4
      <4> QED BY <1>0, <4>1
    <3>6. 5 \in 1..L
      BY <1>0, <3>5
    <3> QED BY <3>4, <3>5, <3>6, <2>1
  <2>4. L = 1 \/ L > 1
    <3> HIDE DEF L
    <3> QED BY <1>0
  <2> QED BY <2>2, <2>3, <2>4
<1>4. Agreed \in 1..L /\ P(Agreed)
  <2>1. \E k \in DOMAIN call.window : P(k)
    BY <1>2, <1>3
  <2>2. Agreed = CHOOSE k \in DOMAIN call.window : P(k)
    BY DEF Agreed
  <2> HIDE DEF P
  <2> QED BY <1>2, <2>1, <2>2
<1>5. Agreed > 2 => Agrees(2)
  <2>1. Agrees(Agreed) /\ Agreed \in 1..5
    <3> HIDE DEF L
    <3> QED BY <1>0, <1>4
  <2> DEFINE a == Agreed
  <2>2. a \in 1..5 /\ \A j \in 2..a : call.window[j] = Top(Row(j - 1))
    BY <2>1 DEF Agrees
  <2> HIDE DEF a
  <2>3. a > 2 => \A j \in 2..2 : call.window[j] = Top(Row(j - 1))
    BY <2>2
  <2> QED BY <2>3 DEF a, Agrees
<1> HIDE DEF L
<1>6. Agreed \in 1..L /\ (Agreed > 2 => 2 \in 1..L)
  BY <1>0, <1>4
<1> QED BY <1>4, <1>5, <1>6 DEF Committed, L

(* So is how many of them the fallback keeps, and it follows all of them.  *)
LEMMA FollowedInWindow ==
  ASSUME Len(call.window) \in 0..5, call.window \in Seq(Tokens)
  PROVE  Followed \in 0..Len(call.window) /\ Follows(Followed)
<1> DEFINE L == Len(call.window)
<1> DEFINE P(k) == Follows(k) /\ (k = L \/ ~Follows(k + 1))
<1>0. L \in 0..5
  OBVIOUS
<1>1. Follows(0)
  BY DEF Follows
<1>3. \E k \in 0..L : P(k)
  <2> HIDE DEF P
  <2> SUFFICES ASSUME \A k \in 0..L : ~P(k) PROVE FALSE
    OBVIOUS
  <2>1. \A k \in 0..L : Follows(k) => (k # L /\ Follows(k + 1))
    BY DEF P
  <2>2. L > 0 /\ Follows(1)
    BY <1>1, <2>1
  <2>3. L > 1 /\ Follows(2)
    BY <2>2, <2>1
  <2>4. L > 2 /\ Follows(3)
    BY <2>3, <2>1
  <2>5. L > 3 /\ Follows(4)
    BY <2>4, <2>1
  <2>6. L > 4 /\ Follows(5)
    BY <2>5, <2>1
  <2>7. L > 4 /\ ~(L # 5)
    <3> HIDE DEF L
    <3>1. L > 4
      BY <2>6
    <3> QED BY <1>0, <3>1
  <2>8. 5 \in 0..L
    BY <1>0, <2>7
  <2> QED BY <2>6, <2>7, <2>8, <2>1
<1>4. Followed = CHOOSE k \in 0..L : P(k)
  BY DEF Followed
<1>5. Followed \in 0..L /\ P(Followed)
  <2> HIDE DEF P
  <2> QED BY <1>3, <1>4
<1> QED BY <1>5

(* The naturals are well founded: a set of them has a least one.           *)
LEMMA Least ==
  ASSUME NEW T \in SUBSET Nat, T # {}
  PROVE  \E x \in T : \A y \in T : x <= y
<1> DEFINE R == {ss \in Nat \X Nat : ss[1] < ss[2]}
<1>1. IsWellFoundedOn(R, Nat)
  BY NatLessThanWellFounded, Zenon DEF OpToRel
<1>2. \E x \in T : \A y \in T : ~ (<<y, x>> \in R)
  <2> HIDE DEF R
  <2> QED BY <1>1, WFMin
<1>3. ASSUME NEW x \in T, NEW y \in T, ~ (<<y, x>> \in R)
      PROVE x <= y
  BY <1>3
<1> QED BY <1>2, <1>3

(* What a caller is given of a window is its front part, all of it or up   *)
(* to an Eos.                                                              *)
LEMMA UpToEosFacts ==
  ASSUME NEW ts \in Seq(Tokens)
  PROVE  LET u == UpToEos(ts) IN
         /\ u \in Seq(Tokens) /\ Len(u) <= Len(ts)
         /\ \A i \in 1..Len(u) : u[i] = ts[i]
         /\ u = ts \/ Contains(u, Eos)
<1>1. CASE ~\E i \in DOMAIN ts : ts[i] = Eos
  BY <1>1 DEF UpToEos
<1>2. CASE \E i \in DOMAIN ts : ts[i] = Eos
  <2> DEFINE T == {i \in 1..Len(ts) : ts[i] = Eos}
  <2> DEFINE P(i) == ts[i] = Eos /\ \A j \in 1..i - 1 : ts[j] # Eos
  <2>0. DOMAIN ts = 1..Len(ts) /\ Len(ts) \in Nat
    OBVIOUS
  <2>1. T \in SUBSET Nat /\ T # {}
    BY <1>2, <2>0
  <2>2. PICK x \in T : \A y \in T : x <= y
    <3> HIDE DEF T
    <3> QED BY <2>1, Least
  <2>3. x \in DOMAIN ts /\ P(x)
    <3>1. ASSUME NEW j \in 1..x - 1 PROVE ts[j] # Eos
      <4>1. j \in 1..Len(ts) /\ ~(x <= j)
        BY <2>0
      <4> QED BY <2>2, <4>1
    <3> QED BY <2>0, <3>1
  <2> DEFINE c == CHOOSE i \in DOMAIN ts : P(i)
  <2>4. c \in DOMAIN ts /\ P(c)
    <3> HIDE DEF P
    <3> QED BY <2>3
  <2>5. UpToEos(ts) = SubSeq(ts, 1, c)
    BY <1>2 DEF UpToEos
  <2>6. c \in 1..Len(ts) /\ ts[c] = Eos
    BY <2>0, <2>4
  <2> HIDE DEF c, P, T
  <2>7. SubSeq(ts, 1, c) \in Seq(Tokens) /\ Len(SubSeq(ts, 1, c)) = c /\ c <= Len(ts)
        /\ \A i \in 1..c : SubSeq(ts, 1, c)[i] = ts[i]
    BY <2>6
  <2>8. c \in 1..c
    BY <2>6
  <2> DEFINE u == SubSeq(ts, 1, c)
  <2>9. Contains(u, Eos)
    <3>1. Len(u) = c /\ u[c] = Eos
      BY <2>6, <2>7, <2>8
    <3> HIDE DEF u
    <3> QED BY <2>8, <3>1 DEF Contains
  <2> QED BY <2>5, <2>7, <2>9
<1> QED BY <1>1, <1>2
-----------------------------------------------------------------------------
(* A configuration is a record of options.                                 *)
LEMMA ConfType ==
  ASSUME TypeOK
  PROVE  conf.kind \in {"mtp", "dspark"} /\ conf.depth \in 1..4 /\ conf.copies \in BOOLEAN
BY ConfigsAreOptions DEF TypeOK

(* A copy leaves the seed's flag a flag, and never up on a device that     *)
(* copies.                                                                 *)
LEMMA SeedType ==
  ASSUME TypeOK, SeedFromLast
  PROVE  seed' \in BOOLEAN /\ (seed' => ~conf.copies)
BY ConfType DEF SeedFromLast

(* Outside a call its record says nothing.                                 *)
LEMMA NoCallType ==
  /\ NoCall \in [pc : {"idle", "draft", "verify", "settle", "replay", "seq"},
                 path : Paths, out : Seq(Tokens), window : Seq(Tokens),
                 base : Seq(Tokens), snap : Contents, kept : [1..2 -> Contents]]
  /\ NoCall.pc = "idle"
<1>1. <<Unknown, Unknown>> \in [1..2 -> Contents]
  BY DEF Contents
<1>2. <<>> \in Seq(Tokens)
  OBVIOUS
<1> QED BY <1>1, <1>2 DEF NoCall, Paths, Contents

(* A call that returns with the graph at its checkpoint leaves it so.      *)
LEMMA ReturnKeeps ==
  ASSUME Inv, NEW ts \in Seq(Tokens), NEW b \in BOOLEAN, Return(ts, b),
         valid' = TRUE, ckpt' \in Seq(Tokens), Len(ckpt') <= Ctx,
         front' \in Contents, logits' \in Contents, Standing',
         conf' = conf, drafted' \in BOOLEAN,
         seed' \in BOOLEAN, seed' => ~conf.copies, faults' \in 0..MaxFaults
  PROVE  Inv'
<1>1. call' = NoCall /\ call'.pc = "idle"
  BY NoCallType DEF Return
<1>2. turn' \in [from : Nat, out : Seq(Tokens), greedy : BOOLEAN, open : BOOLEAN]
  <2>1. turn \in [from : Nat, out : Seq(Tokens), greedy : BOOLEAN, open : BOOLEAN]
    BY DEF Inv, TypeOK
  <2>2. turn.out \o ts \in Seq(Tokens) /\ <<>> \in Seq(Tokens)
    BY <2>1
  <2>3. Contains(ts, Eos) \in BOOLEAN
    BY DEF Contains
  <2> QED BY <2>1, <2>2, <2>3 DEF Return
<1>3. TypeOK'
  BY <1>1, <1>2, NoCallType DEF Inv, TypeOK
<1>4. CallOK'
  BY <1>1 DEF CallOK
<1> QED BY <1>3, <1>4 DEF Inv, WithinContext

(* A call that breaks off leaves an invalid session.                       *)
LEMMA BrokenKeeps ==
  ASSUME Inv, Broken, ckpt' \in Seq(Tokens), Len(ckpt') <= Ctx,
         front' \in Contents, logits' \in Contents,
         conf' = conf, drafted' \in BOOLEAN
  PROVE  Inv'
<1>1. call' = NoCall /\ call'.pc = "idle" /\ valid' = FALSE /\ seed' = seed
  BY NoCallType DEF Broken
<1>2. /\ turn' \in [from : Nat, out : Seq(Tokens), greedy : BOOLEAN, open : BOOLEAN]
      /\ turn'.open = FALSE
  BY DEF Inv, TypeOK, Broken
<1>3. faults' \in 0..MaxFaults
  BY SizesAreNat DEF Inv, TypeOK, Broken
<1>4. TypeOK'
  BY <1>1, <1>2, <1>3, NoCallType DEF Inv, TypeOK
<1>5. CallOK'
  BY <1>1, <1>2 DEF Inv, CallOK
<1> QED BY <1>4, <1>5 DEF Inv, WithinContext

(* Nor does a forward of one token that fails, or one that does not.       *)
LEMMA DecodeKeeps ==
  ASSUME Inv, NEW ts \in Seq(Tokens), Decode(ts), Standing
  PROVE  /\ ckpt' \in Seq(Tokens) /\ Len(ckpt') = Len(ckpt) + Len(ts)
         /\ front' \in Contents /\ logits' \in Contents /\ Standing'
<1>1. ckpt \in Seq(Tokens) /\ front \in Contents
  BY DEF Inv, TypeOK
<1>2. front' \in Contents /\ logits' = front'
  BY <1>1, AfterType DEF Decode
<1>3. CASE front = Torn
  BY <1>1, <1>2, <1>3, AfterStanding DEF Decode, Standing
<1>4. CASE front # Torn
  BY <1>1, <1>2, <1>4, AfterStanding DEF Decode, Standing
<1> QED BY <1>1, <1>2, <1>3, <1>4 DEF Decode

LEMMA DecodeFailsKeeps ==
  ASSUME Inv, DecodeFails, conf' = conf, drafted' \in BOOLEAN
  PROVE  Inv'
<1>1. /\ ckpt' = ckpt /\ logits' = logits /\ front' = Unknown /\ Broken
      /\ ckpt \in Seq(Tokens) /\ logits \in Contents /\ Len(ckpt) <= Ctx
  BY DEF DecodeFails, Inv, TypeOK, WithinContext
<1>2. front' \in Contents
  BY <1>1 DEF Contents
<1> QED BY <1>1, <1>2, BrokenKeeps

(* Nor does falling back to a snapshot that stands at its checkpoint.      *)
LEMMA FallbackKeeps ==
  ASSUME Inv, call.pc # "idle", WindowOK, NEW f \in Contents, Fallback(f),
         ckpt' \in Seq(Tokens), f # Torn => f = ckpt' /\ logits = ckpt',
         Len(ckpt') + Len(call.window) <= Ctx,
         conf' = conf, drafted' \in BOOLEAN
  PROVE  Inv'
<1>1. /\ call' = [call EXCEPT !.pc = "seq"] /\ valid' = valid /\ logits' = logits
      /\ seed' = seed /\ turn' = turn /\ front' \in {f, Torn}
  BY DEF Fallback
<1>2. faults' \in 0..MaxFaults
  <2>1. faults \in 0..MaxFaults
    BY DEF Inv, TypeOK
  <2>2. \/ faults < MaxFaults /\ faults' = faults + 1
        \/ faults + 1 < MaxFaults /\ faults' = faults + 2
    BY DEF Fallback
  <2> QED BY <2>1, <2>2, SizesAreNat
<1>3. /\ call'.pc = "seq" /\ call'.window = call.window /\ call'.path = call.path
  BY <1>1 DEF Inv, TypeOK
<1>4. TypeOK'
  BY <1>1, <1>2 DEF Inv, TypeOK, Contents
<1>5. Standing'
  BY <1>1 DEF Standing
<1>6. WindowOK'
  BY <1>3 DEF WindowOK
<1>7. CallOK'
  BY <1>1, <1>3, <1>5, <1>6 DEF Inv, CallOK
<1>8. WithinContext'
  <2>1. Len(call.window) \in Nat /\ Len(ckpt') \in Nat /\ Ctx \in Nat
    BY SizesAreNat DEF Inv, TypeOK
  <2> QED BY <2>1 DEF WithinContext
<1> QED BY <1>4, <1>7, <1>8 DEF Inv
-----------------------------------------------------------------------------
LEMMA InitInv == Init => Inv
<1> SUFFICES ASSUME Init PROVE Inv
  OBVIOUS
<1>1. <<>> \in Seq(Tokens) /\ Len(<<>>) = 0
  OBVIOUS
<1>2. TypeOK
  <2>1. front \in Contents /\ logits \in Contents /\ ckpt \in Seq(Tokens)
    BY <1>1 DEF Init, Contents
  <2>2. faults \in 0..MaxFaults
    BY SizesAreNat DEF Init
  <2> QED BY <1>1, <2>1, <2>2, NoCallType DEF Init, TypeOK
<1>3. CallOK
  BY NoCallType DEF Init, CallOK
<1> QED BY <1>1, <1>2, <1>3, SizesAreNat DEF Init, Inv, WithinContext

(* A synchronized session stands at the part of the prompt it got to.      *)
LEMMA SyncedKeeps ==
  ASSUME Inv, call.pc = "idle", NEW p \in Seq(Tokens), Len(p) < Ctx, p # <<>>,
         NEW n \in (IF Continues(p) THEN Len(ckpt) ELSE 0)..Len(p),
         NEW ok \in BOOLEAN, ok => n = Len(p), Synced(p, n, ok),
         drafted' = FALSE, UNCHANGED <<conf, seed, call, faults>>
  PROVE  Inv'
<1>1. /\ ckpt \in Seq(Tokens) /\ front \in Contents /\ logits \in Contents
      /\ n \in 0..Len(p) /\ Len(ckpt) \in Nat /\ Len(p) \in Nat
  BY DEF Inv, TypeOK
<1>2. ckpt' \in Seq(Tokens) /\ Len(ckpt') = n /\ ckpt' = SubSeq(p, 1, n)
  BY <1>1, PartType DEF Synced
<1>3. valid' = (n > 0) /\ valid' \in BOOLEAN /\ (ok => valid')
  <2>1. Len(p) > 0
    OBVIOUS
  <2> QED BY <1>1, <2>1 DEF Synced
<1>4. front' \in Contents /\ logits' \in Contents /\ (valid' => Standing')
  <2>1. CASE Continues(p)
    <3>1. IsPrefix(ckpt, p) /\ valid /\ n \in Len(ckpt)..Len(p)
      BY <2>1 DEF Continues
    <3> DEFINE q == SubSeq(p, Len(ckpt) + 1, n)
    <3>2. q \in Seq(Tokens) /\ ckpt \o q = ckpt' /\ (n = Len(ckpt) => ckpt' = ckpt)
      BY <1>1, <1>2, <3>1, Continued
    <3>3. Standing
      BY <3>1 DEF Inv, CallOK
    <3> HIDE DEF q
    <3>4. front' = After(front, ckpt, q)
      BY <2>1 DEF Synced, q
    <3>5. front' \in Contents
      BY <1>1, <3>2, <3>4, AfterType
    <3>6. front' = Torn \/ front' = ckpt'
      BY <1>1, <3>2, <3>3, <3>4, AfterStanding DEF Standing
    <3>7. logits' = IF n = 0 \/ n = Len(ckpt) THEN logits ELSE front'
      BY <2>1 DEF Synced
    <3>8. front = Torn => front' = Torn
      BY <1>1, <3>2, <3>4, AfterStanding
    <3>9. CASE n = Len(ckpt)
      BY <1>1, <3>2, <3>3, <3>5, <3>6, <3>7, <3>8, <3>9 DEF Standing
    <3>10. CASE n # Len(ckpt) /\ n # 0
      BY <1>1, <3>5, <3>6, <3>7, <3>10 DEF Standing
    <3>11. CASE n = 0
      BY <1>1, <1>3, <3>5, <3>7, <3>11
    <3> QED BY <3>9, <3>10, <3>11
  <2>2. CASE ~Continues(p)
    <3>1. front' = ckpt' /\ front' \in Contents
      BY <1>2, <2>2 DEF Synced, Contents
    <3>2. logits' = IF n = 0 THEN logits ELSE front'
      BY <2>2 DEF Synced
    <3> QED BY <1>1, <1>3, <3>1, <3>2 DEF Standing
  <2> QED BY <2>1, <2>2
<1>5. turn' = [from |-> n, out |-> <<>>, greedy |-> TRUE, open |-> ok]
  BY DEF Synced
<1>6. turn' \in [from : Nat, out : Seq(Tokens), greedy : BOOLEAN, open : BOOLEAN]
  <2>1. <<>> \in Seq(Tokens)
    OBVIOUS
  <2> QED BY <1>1, <1>5, <2>1
<1>7. TypeOK'
  BY <1>1, <1>2, <1>3, <1>4, <1>6 DEF Inv, TypeOK
<1>8. CallOK'
  BY <1>3, <1>4, <1>5 DEF Inv, CallOK
<1> QED BY <1>1, <1>2, <1>7, <1>8, SizesAreNat DEF Inv, WithinContext

LEMMA SyncKeeps ==
  ASSUME Inv, NEW p \in NextPrompts, Sync(p)
  PROVE  Inv'
<1>1. ckpt \in Seq(Tokens) /\ logits \in Contents
  BY DEF Inv, TypeOK
<1>2. p \in Seq(Tokens) /\ p # <<>>
  BY <1>1, PromptsAreHistories DEF NextPrompts
<1>3. /\ call.pc = "idle" /\ Len(p) < Ctx /\ drafted' = FALSE
      /\ UNCHANGED <<conf, seed, call>>
  BY DEF Sync
<1>4. CASE Synced(p, Len(p), TRUE) /\ UNCHANGED faults
  <2>1. Len(p) \in (IF Continues(p) THEN Len(ckpt) ELSE 0)..Len(p)
    BY <1>1, <1>2 DEF Continues, IsPrefix
  <2> QED BY <1>2, <1>3, <1>4, <2>1, SyncedKeeps
<1>5. ASSUME NEW n \in (IF Continues(p) THEN Len(ckpt) ELSE 0)..Len(p) - 1,
             Synced(p, n, FALSE), UNCHANGED faults
      PROVE  Inv'
  <2>1. n \in (IF Continues(p) THEN Len(ckpt) ELSE 0)..Len(p)
    BY <1>1, <1>2
  <2> QED BY <1>2, <1>3, <1>5, <2>1, SyncedKeeps
<1>6. CASE /\ faults < MaxFaults /\ faults' = faults + 1
           /\ valid' = FALSE /\ front' = Unknown
           /\ ckpt' \in {IF Continues(p) THEN ckpt ELSE <<>>}
           /\ turn' = [turn EXCEPT !.open = FALSE]
           /\ UNCHANGED logits
  <2>0. <<>> \in Seq(Tokens) /\ Len(<<>>) = 0
    OBVIOUS
  <2>1. ckpt' \in Seq(Tokens) /\ Len(ckpt') <= Ctx
    <3>1. ckpt' = ckpt \/ ckpt' = <<>>
      BY <1>6
    <3>2. Len(ckpt) <= Ctx /\ 0 <= Ctx
      BY SizesAreNat DEF Inv, WithinContext
    <3>3. CASE ckpt' = ckpt
      BY <1>1, <3>2, <3>3
    <3>4. CASE ckpt' = <<>>
      BY <2>0, <3>2, <3>4
    <3> QED BY <3>1, <3>3, <3>4
  <2>2. /\ turn' \in [from : Nat, out : Seq(Tokens), greedy : BOOLEAN, open : BOOLEAN]
        /\ turn'.open = FALSE
    BY <1>6 DEF Inv, TypeOK
  <2>3. TypeOK'
    <3>1. front' \in Contents /\ faults' \in 0..MaxFaults
      BY <1>6, SizesAreNat DEF Inv, TypeOK, Contents
    <3> QED BY <1>1, <1>3, <1>6, <2>1, <2>2, <3>1 DEF Inv, TypeOK
  <2>4. CallOK'
    BY <1>3, <1>6, <2>2 DEF Inv, CallOK
  <2> QED BY <2>1, <2>3, <2>4 DEF Inv, WithinContext
<1> QED BY <1>4, <1>5, <1>6 DEF Sync

LEMMA InvalidateKeeps ==
  ASSUME Inv, Invalidate
  PROVE  Inv'
<1>1. /\ call.pc = "idle" /\ ckpt' = <<>> /\ valid' = FALSE /\ drafted' = FALSE
      /\ turn' = [turn EXCEPT !.open = FALSE]
      /\ UNCHANGED <<conf, front, logits, seed, call, faults>>
  BY DEF Invalidate
<1>2. <<>> \in Seq(Tokens) /\ Len(<<>>) = 0
  OBVIOUS
<1>3. /\ turn' \in [from : Nat, out : Seq(Tokens), greedy : BOOLEAN, open : BOOLEAN]
      /\ turn'.open = FALSE
  BY <1>1 DEF Inv, TypeOK
<1>4. TypeOK'
  BY <1>1, <1>2, <1>3 DEF Inv, TypeOK
<1>5. CallOK'
  BY <1>1, <1>3 DEF Inv, CallOK
<1> QED BY <1>1, <1>2, <1>4, <1>5, SizesAreNat DEF Inv, WithinContext
-----------------------------------------------------------------------------
(* A caller asks only where there is room for a token.                     *)
LEMMA AsksFacts ==
  ASSUME Inv, NEW t \in Tokens, NEW g \in BOOLEAN, Asks(t, g)
  PROVE  /\ call.pc = "idle" /\ turn.open /\ valid /\ Standing
         /\ Len(ckpt) + 1 <= Ctx /\ <<t>> \in Seq(Tokens) /\ Len(<<t>>) = 1
<1>1. call.pc = "idle" /\ turn.open /\ Ctx - Len(ckpt) > 0
  BY DEF Asks, Room
<1>2. Len(ckpt) \in Nat /\ Ctx \in Nat
  BY SizesAreNat DEF Inv, TypeOK
<1>3. valid /\ Standing
  BY <1>1 DEF Inv, CallOK
<1> QED BY <1>1, <1>2, <1>3

LEMMA PlainKeeps ==
  ASSUME Inv, NEW t \in Tokens, NEW g \in BOOLEAN, Plain(t, g)
  PROVE  Inv'
<1>1. /\ valid /\ Standing /\ Len(ckpt) + 1 <= Ctx
      /\ <<t>> \in Seq(Tokens) /\ Len(<<t>>) = 1 /\ conf' = conf
  BY AsksFacts DEF Plain
<1>2. CASE /\ Decode(<<t>>) /\ DraftsNext /\ Return(<<t>>, g)
           /\ SeedFromLast \/ UNCHANGED seed
           /\ UNCHANGED <<valid, faults>>
  <2>1. /\ ckpt' \in Seq(Tokens) /\ Len(ckpt') = Len(ckpt) + 1
        /\ front' \in Contents /\ logits' \in Contents /\ Standing'
    BY <1>1, <1>2, DecodeKeeps
  <2>2. drafted' \in BOOLEAN
    BY <1>2 DEF DraftsNext
  <2>3. seed' \in BOOLEAN /\ (seed' => ~conf.copies)
    BY <1>2, SeedType DEF Inv, CallOK, TypeOK
  <2>4. valid' = TRUE /\ faults' \in 0..MaxFaults
    BY <1>1, <1>2 DEF Inv, TypeOK
  <2> QED BY <1>1, <1>2, <2>1, <2>2, <2>3, <2>4, ReturnKeeps
<1>3. CASE DecodeFails /\ drafted' = FALSE
  BY <1>1, <1>3, DecodeFailsKeeps
<1> QED BY <1>2, <1>3 DEF Plain

LEMMA CanonicalKeeps ==
  ASSUME Inv, NEW t \in Tokens, Canonical(t)
  PROVE  Inv'
<1>1. /\ valid /\ Standing /\ Len(ckpt) + 1 <= Ctx
      /\ <<t>> \in Seq(Tokens) /\ Len(<<t>>) = 1 /\ conf' = conf
  BY AsksFacts DEF Canonical
<1>2. CASE /\ Decode(<<t>>) /\ DraftsNext
           /\ IF conf.kind = "mtp" THEN SeedFromLast ELSE UNCHANGED seed
           /\ call' = [NoCall EXCEPT !.pc = "draft", !.out = <<t>>]
           /\ UNCHANGED <<valid, turn, faults>>
  <2>1. /\ ckpt' \in Seq(Tokens) /\ Len(ckpt') = Len(ckpt) + 1
        /\ front' \in Contents /\ logits' \in Contents /\ Standing'
    BY <1>1, <1>2, DecodeKeeps
  <2>2. drafted' \in BOOLEAN
    BY <1>2 DEF DraftsNext
  <2>3. seed' \in BOOLEAN /\ (seed' => ~conf.copies)
    BY <1>2, SeedType DEF Inv, CallOK, TypeOK
  <2>4. call'.pc = "draft"
    BY <1>2, NoCallType
  <2>5. TypeOK'
    BY <1>1, <1>2, <2>1, <2>2, <2>3, NoCallType DEF Inv, TypeOK
  <2>6. CallOK'
    BY <1>1, <1>2, <2>1, <2>3, <2>4 DEF CallOK
  <2> QED BY <1>1, <2>1, <2>5, <2>6 DEF Inv, WithinContext
<1>3. CASE DecodeFails /\ drafted' = FALSE
  BY <1>1, <1>3, DecodeFailsKeeps
<1> QED BY <1>2, <1>3 DEF Canonical

(* A batch's window is the first token and at most depth drafts.           *)
LEMMA GuessesType ==
  ASSUME NEW n \in Nat, NEW d \in Guesses(n)
  PROVE  d \in Seq(Tokens) /\ Len(d) \in 1..n
BY DEF Guesses, SeqOf

LEMMA BatchKeeps ==
  ASSUME RowsAreCaptured, Inv, NEW t \in Tokens, NEW d,
         NEW path \in {"combined", "sample"},
         conf.depth >= 2, path = "combined" => conf.depth = 2, Batch(t, d, path)
  PROVE  Inv'
<1>1. /\ valid /\ turn.open /\ Standing /\ call.pc = "idle"
      /\ <<t>> \in Seq(Tokens) /\ Len(<<t>>) = 1
  BY AsksFacts DEF Batch
<1>2. /\ d \in Guesses(conf.depth) /\ seed /\ RoomForBatch
      /\ call' = [NoCall EXCEPT !.pc = "verify", !.path = path,
                                !.base = ckpt, !.window = <<t>> \o d]
      /\ seed' = FALSE /\ drafted' = FALSE
      /\ UNCHANGED <<conf, ckpt, front, logits, valid, turn, faults>>
  BY DEF Batch, graph
<1>3. conf.depth <= 2
  <2>1. ~conf.copies /\ conf \in Configs
    BY <1>2 DEF Inv, CallOK, TypeOK
  <2> QED BY <2>1 DEF RowsAreCaptured
<1>4. conf.depth = 2
  BY <1>3, ConfType DEF Inv
<1> DEFINE w == <<t>> \o d
<1> DEFINE L == Len(w)
<1>5. w \in Seq(Tokens) /\ L \in 1..3
  <2>1. d \in Seq(Tokens) /\ Len(d) \in 1..2
    BY <1>2, <1>4, GuessesType
  <2> DEFINE n == Len(d)
  <2>2. L = 1 + n /\ n \in 1..2 /\ w \in Seq(Tokens)
    BY <1>1, <2>1
  <2> HIDE DEF n, w, L
  <2> QED BY <2>2
<1> HIDE DEF w
<1>6. /\ call'.pc = "verify" /\ call'.path = path /\ call'.base = ckpt
      /\ call'.window = w
      /\ call' \in [pc : {"idle", "draft", "verify", "settle", "replay", "seq"},
                    path : Paths, out : Seq(Tokens), window : Seq(Tokens),
                    base : Seq(Tokens), snap : Contents, kept : [1..2 -> Contents]]
  <2>1. call' = [NoCall EXCEPT !.pc = "verify", !.path = path, !.base = ckpt, !.window = w]
    BY <1>2 DEF w
  <2>3. path \in Paths
    BY DEF Paths
  <2>2. ckpt \in Seq(Tokens)
    BY DEF Inv, TypeOK
  <2> QED BY <1>5, <2>1, <2>2, <2>3, NoCallType
<1>7. Len(ckpt) \in Nat /\ Len(ckpt) + L <= Ctx
  <2>1. Len(ckpt) \in Nat
    BY DEF Inv, TypeOK
  <2>2. Ctx - Len(ckpt) > 2
    BY <1>2, <1>4 DEF RoomForBatch, Room
  <2> DEFINE n == Len(ckpt)
  <2>3. n \in Nat /\ Ctx - n > 2
    BY <2>1, <2>2
  <2> HIDE DEF n, L
  <2>4. n + L <= Ctx
    BY <1>5, <2>3, SizesAreNat
  <2> QED BY <2>1, <2>4 DEF n
<1>8. TypeOK'
  BY <1>2, <1>6 DEF Inv, TypeOK
<1>9. CallOK'
  <2>1. WindowOK'
    <3>1. L \in 1..5 /\ L <= 3
      <4> HIDE DEF L
      <4> QED BY <1>5
    <3> QED BY <1>6, <3>1 DEF WindowOK
  <2>2. Standing'
    BY <1>1, <1>2 DEF Standing
  <2> QED BY <1>1, <1>2, <1>6, <1>7, <2>1, <2>2 DEF CallOK
<1> QED BY <1>2, <1>8, <1>9 DEF Inv, WithinContext
-----------------------------------------------------------------------------
(* What may be drafted fits the window and the context.                    *)
LEMMA DraftFacts ==
  ASSUME Inv, call.pc = "draft", NEW d, MayDraft(d)
  PROVE  /\ d \in Seq(Tokens) /\ Len(d) \in 1..4 /\ Len(ckpt) + Len(d) <= Ctx
         /\ conf.kind = "dspark" => Len(d) <= 2
         /\ valid /\ Standing
<1> DEFINE n == Len(d)
<1> DEFINE c == Len(ckpt)
<1>1. d \in Seq(Tokens) /\ n \in 1..conf.depth
  <2>1. d \in Guesses(conf.depth) /\ conf.depth \in Nat
    BY ConfType DEF MayDraft, Inv
  <2> QED BY <2>1, GuessesType
<1>2. c \in Nat /\ conf.depth \in 1..4
  BY ConfType DEF Inv, TypeOK
<1>3. n <= Ctx - c \/ n <= Ctx - c - 1
  BY DEF MayDraft, Room
<1>4. conf.kind = "dspark" => n <= 2
  BY DEF MayDraft, Scheduled
<1>5. valid /\ Standing
  BY DEF Inv, CallOK
<1> HIDE DEF n, c
<1>6. n \in 1..4 /\ c + n <= Ctx
  BY <1>1, <1>2, <1>3, SizesAreNat
<1> QED BY <1>1, <1>4, <1>5, <1>6 DEF n, c

LEMMA DraftKeeps ==
  ASSUME Inv, NEW d, Draft(d)
  PROVE  Inv'
<1> DEFINE path == IF conf.kind = "dspark" THEN "dspark"
                   ELSE IF conf.strict /\ Len(d) = 2 THEN "exact" ELSE "suffix"
<1>1. /\ call.pc = "draft" /\ MayDraft(d) /\ drafted' = FALSE
      /\ UNCHANGED <<conf, ckpt, front, logits, valid, seed, turn>>
  BY DEF Draft, graph
<1> DEFINE verify == [call EXCEPT !.pc = "verify", !.path = path, !.base = ckpt, !.window = d]
<1>2. call' = verify \/ call' = [verify EXCEPT !.pc = "seq"]
  BY DEF Draft
<1>3. faults' \in 0..MaxFaults
  BY SizesAreNat DEF Draft, Inv, TypeOK
<1>4. /\ d \in Seq(Tokens) /\ Len(d) \in 1..4 /\ Len(ckpt) + Len(d) <= Ctx
      /\ conf.kind = "dspark" => Len(d) <= 2
      /\ valid /\ Standing
  BY <1>1, DraftFacts
<1>5. path \in Paths /\ path \in {"dspark", "exact", "suffix"}
      /\ (path \in {"dspark", "exact"} => Len(d) <= 2)
  <2>1. CASE conf.kind = "dspark"
    BY <1>4, <2>1 DEF Paths
  <2>2. CASE conf.kind # "dspark" /\ Len(d) = 2
    <3>1. path \in {"exact", "suffix"}
      BY <2>2
    <3> QED BY <2>2, <3>1 DEF Paths
  <2>3. CASE conf.kind # "dspark" /\ Len(d) # 2
    BY <2>3 DEF Paths
  <2> QED BY <2>1, <2>2, <2>3
<1> HIDE DEF path
<1>6. ckpt \in Seq(Tokens)
  BY DEF Inv, TypeOK
<1>7. /\ call'.pc \in {"verify", "seq"} /\ call'.path = path
      /\ call'.base = ckpt /\ call'.window = d
      /\ call' \in [pc : {"idle", "draft", "verify", "settle", "replay", "seq"},
                    path : Paths, out : Seq(Tokens), window : Seq(Tokens),
                    base : Seq(Tokens), snap : Contents, kept : [1..2 -> Contents]]
  <2>1. call \in [pc : {"idle", "draft", "verify", "settle", "replay", "seq"},
                  path : Paths, out : Seq(Tokens), window : Seq(Tokens),
                  base : Seq(Tokens), snap : Contents, kept : [1..2 -> Contents]]
    BY DEF Inv, TypeOK
  <2> QED BY <2>1, <1>2, <1>4, <1>5, <1>6
<1>8. TypeOK'
  BY <1>1, <1>3, <1>7 DEF Inv, TypeOK
<1>9. CallOK'
  <2>1. WindowOK'
    <3>1. Len(d) \in 1..5
      <4> DEFINE n == Len(d)
      <4>1. n \in 1..4
        BY <1>4
      <4> HIDE DEF n
      <4>2. n \in 1..5
        BY <4>1
      <4> QED BY <4>2 DEF n
    <3> QED BY <1>5, <1>7, <3>1 DEF WindowOK
  <2>2. Standing'
    BY <1>1, <1>4 DEF Standing
  <2>3. seed' => ~conf'.copies
    BY <1>1 DEF Inv, CallOK
  <2> QED BY <1>1, <1>4, <1>7, <2>1, <2>2, <2>3 DEF CallOK
<1> QED BY <1>1, <1>8, <1>9 DEF Inv, WithinContext

LEMMA NoDraftKeeps ==
  ASSUME Inv, NoDraft
  PROVE  Inv'
<1>1. /\ call.pc = "draft" /\ Return(call.out, TRUE) /\ drafted' \in {drafted, FALSE}
      /\ UNCHANGED <<conf, ckpt, front, logits, valid, seed, faults>>
  BY DEF NoDraft, graph
<1>2. /\ call.out \in Seq(Tokens) /\ ckpt \in Seq(Tokens) /\ Len(ckpt) <= Ctx
      /\ front \in Contents /\ logits \in Contents /\ drafted' \in BOOLEAN
      /\ seed \in BOOLEAN /\ faults \in 0..MaxFaults
  BY <1>1 DEF Inv, TypeOK, WithinContext
<1>3. valid = TRUE /\ Standing /\ (seed => ~conf.copies)
  BY <1>1 DEF Inv, CallOK, TypeOK
<1>4. Standing'
  BY <1>1, <1>3 DEF Standing
<1> QED BY <1>1, <1>2, <1>3, <1>4, ReturnKeeps

LEMMA SkipSecondKeeps ==
  ASSUME Inv, NEW d, SkipSecond(d)
  PROVE  Inv'
<1>1. /\ call.pc = "draft" /\ MayDraft(d) /\ Len(d) = 2 /\ drafted' = FALSE /\ conf' = conf
  BY DEF SkipSecond
<1>2. /\ d \in Seq(Tokens) /\ Len(ckpt) + 2 <= Ctx /\ valid /\ Standing
  BY <1>1, DraftFacts
<1>3. d[1] \in Tokens /\ <<d[1]>> \in Seq(Tokens) /\ Len(<<d[1]>>) = 1
  BY <1>1, <1>2
<1>4. CASE /\ Decode(<<d[1]>>) /\ Return(Append(call.out, d[1]), TRUE)
           /\ UNCHANGED <<valid, seed, faults>>
  <2>1. /\ ckpt' \in Seq(Tokens) /\ Len(ckpt') = Len(ckpt) + 1
        /\ front' \in Contents /\ logits' \in Contents /\ Standing'
    BY <1>2, <1>3, <1>4, DecodeKeeps
  <2>2. Len(ckpt') <= Ctx
    <3> DEFINE c == Len(ckpt)
    <3>1. c \in Nat /\ c + 2 <= Ctx
      BY <1>2 DEF Inv, TypeOK
    <3> HIDE DEF c
    <3>2. c + 1 <= Ctx
      BY <3>1, SizesAreNat
    <3> QED BY <2>1, <3>2 DEF c
  <2>3. Append(call.out, d[1]) \in Seq(Tokens)
    BY <1>3 DEF Inv, TypeOK
  <2>4. valid' = TRUE /\ seed' \in BOOLEAN /\ (seed' => ~conf.copies) /\ faults' \in 0..MaxFaults
    BY <1>2, <1>4 DEF Inv, TypeOK, CallOK
  <2> QED BY <1>1, <1>4, <2>1, <2>2, <2>3, <2>4, ReturnKeeps
<1>5. CASE DecodeFails
  BY <1>1, <1>5, DecodeFailsKeeps
<1> QED BY <1>4, <1>5 DEF SkipSecond
-----------------------------------------------------------------------------
(* A window of at most three rows never fills whole groups, so its rows    *)
(* are captured on the way.                                                *)
LEMMA ShortIsNotAligned ==
  ASSUME NEW n \in 1..3 PROVE n % Ratio # 0
<1>1. Ratio \in Nat /\ Ratio >= 4
  BY SizesAreNat, RatioIsFourOrMore
<1>2. n = 1 \/ n = 2 \/ n = 3
  OBVIOUS
<1> QED BY <1>1, <1>2

LEMMA CapturesFacts ==
  ASSUME Inv, NEW w, w = call.window
  PROVE  /\ Captures \in [1..2 -> Contents]
         /\ (w # <<>> /\ Len(w) <= 3) =>
              \A i \in 1..2 : i < Len(w) => Captures[i] = After(front, ckpt, SubSeq(w, 1, i))
<1>1. w \in Seq(Tokens) /\ ckpt \in Seq(Tokens) /\ front \in Contents
  BY DEF Inv, TypeOK
<1>2. ASSUME NEW i \in 1..2, i < Len(w)
      PROVE  SubSeq(w, 1, i) \in Seq(Tokens) /\ After(front, ckpt, SubSeq(w, 1, i)) \in Contents
  <2>1. i \in 0..Len(w)
    <3> DEFINE n == Len(w)
    <3>1. n \in Nat /\ i < n
      BY <1>1, <1>2
    <3> HIDE DEF n
    <3>2. i \in 0..n
      BY <3>1
    <3> QED BY <3>2 DEF n
  <2>2. SubSeq(w, 1, i) \in Seq(Tokens)
    BY <1>1, <2>1, PartType
  <2> QED BY <1>1, <2>2, AfterType
<1>3. \A i \in 1..2 : (Len(w) > i /\ ~Aligned) <=> (i < Len(w) /\ ~Aligned)
  <2> DEFINE n == Len(w)
  <2>1. n \in Nat
    BY <1>1
  <2> HIDE DEF n
  <2>2. \A i \in 1..2 : n > i <=> i < n
    BY <2>1
  <2> QED BY <2>2 DEF n
<1>4. Unknown \in Contents
  BY DEF Contents
<1>5. \A i \in 1..2 : (IF Len(w) > i /\ ~Aligned THEN After(front, ckpt, SubSeq(w, 1, i))
                                                  ELSE Unknown) \in Contents
  BY <1>2, <1>3, <1>4
<1>6. Captures \in [1..2 -> Contents]
  BY <1>5 DEF Captures, FirstRows
<1>7. ASSUME w # <<>>, Len(w) <= 3, NEW i \in 1..2, i < Len(w)
      PROVE  Captures[i] = After(front, ckpt, SubSeq(w, 1, i))
  <2> DEFINE n == Len(w)
  <2>1. n \in Nat /\ n <= 3 /\ i < n
    BY <1>1, <1>7
  <2>2. n \in 1..3
    <3> HIDE DEF n
    <3> QED BY <2>1
  <2>3. n % Ratio # 0
    <3> HIDE DEF n
    <3> QED BY <2>2, ShortIsNotAligned
  <2>4. ~Aligned
    BY <2>3 DEF Aligned
  <2>5. Len(w) > i
    BY <1>3, <1>7, <2>4
  <2> QED BY <2>4, <2>5 DEF Captures, FirstRows
<1> QED BY <1>6, <1>7

LEMMA VerifyKeeps ==
  ASSUME Inv, Verify
  PROVE  Inv'
<1>1. /\ call.pc = "verify" /\ conf' = conf /\ drafted' = drafted
  BY DEF Verify
<1>2. /\ valid /\ Standing /\ WindowOK /\ call.base = ckpt
      /\ Len(ckpt) + Len(call.window) <= Ctx /\ (seed => ~conf.copies)
  BY <1>1 DEF Inv, CallOK
<1>3. /\ ckpt \in Seq(Tokens) /\ front \in Contents /\ logits \in Contents
      /\ call.window \in Seq(Tokens) /\ drafted \in BOOLEAN
  BY DEF Inv, TypeOK
<1>4. CASE /\ front' = After(front, ckpt, call.window)
           /\ ckpt' = ckpt \o call.window
           /\ call' = [call EXCEPT !.pc = "settle", !.snap = front, !.kept = Captures]
           /\ UNCHANGED <<valid, logits, seed, turn, faults>>
  <2>1. Captures \in [1..2 -> Contents]
    BY CapturesFacts
  <2>2. /\ call'.pc = "settle" /\ call'.snap = front /\ call'.kept = Captures
        /\ call'.window = call.window /\ call'.base = call.base /\ call'.path = call.path
        /\ call' \in [pc : {"idle", "draft", "verify", "settle", "replay", "seq"},
                      path : Paths, out : Seq(Tokens), window : Seq(Tokens),
                      base : Seq(Tokens), snap : Contents, kept : [1..2 -> Contents]]
    BY <1>3, <1>4, <2>1 DEF Inv, TypeOK
  <2>3. /\ ckpt' \in Seq(Tokens) /\ Len(ckpt') = Len(ckpt) + Len(call.window)
        /\ front' \in Contents
    BY <1>3, <1>4, AfterType
  <2>4. TypeOK'
    BY <1>1, <1>3, <1>4, <2>2, <2>3 DEF Inv, TypeOK
  <2>5. WindowOK'
    BY <1>2, <2>2 DEF WindowOK
  <2>6. Verified'
    <3>1. ckpt' = call'.base \o call'.window
      BY <1>2, <1>4, <2>2
    <3>2. call'.snap = Torn \/ (call'.snap = call'.base /\ logits' = call'.base)
      BY <1>2, <1>4, <2>2 DEF Standing
    <3>3. front' = After(call'.snap, call'.base, call'.window)
      BY <1>2, <1>4, <2>2
    <3>4. call.window # <<>>
      <4>1. Len(call.window) \in 1..5 /\ Len(<<>>) = 0
        BY <1>2 DEF WindowOK
      <4> QED BY <4>1
    <3>5. Len(call.window) <= 3 =>
            \A i \in 1..2 : i < Len(call.window) =>
              Captures[i] = After(front, ckpt, SubSeq(call.window, 1, i))
      BY <3>4, CapturesFacts
    <3>6. \A i \in 1..2 : FirstRows(i)' = SubSeq(call.window, 1, i)
      BY <2>2 DEF FirstRows
    <3>7. (Len(call.window) <= 3 =>
            \A i \in 1..2 : i < Len(call.window) =>
              call.kept[i] = After(call.snap, call.base, FirstRows(i)))'
      BY <1>2, <2>2, <3>5, <3>6
    <3> QED BY <3>1, <3>2, <3>3, <3>7 DEF Verified
  <2>7. CallOK'
    BY <1>1, <1>2, <1>4, <2>2, <2>3, <2>5, <2>6 DEF CallOK
  <2> QED BY <1>2, <2>3, <2>4, <2>7 DEF Inv, WithinContext
<1>5. CASE Snapshot /\ Fallback(front) /\ UNCHANGED ckpt
  <2>1. front # Torn => front = ckpt' /\ logits = ckpt'
    BY <1>2, <1>5 DEF Standing
  <2> QED BY <1>1, <1>2, <1>3, <1>5, <2>1, FallbackKeeps
<1>6. CASE ~Snapshot /\ DecodeFails
  BY <1>1, <1>3, <1>6, DecodeFailsKeeps
<1> QED BY <1>4, <1>5, <1>6 DEF Verify
-----------------------------------------------------------------------------
(* Two histories after each other are one, as long as both together.       *)
LEMMA Joined ==
  ASSUME NEW g \in Seq(Tokens), NEW h \in Seq(Tokens)
  PROVE  /\ g \o h \in Seq(Tokens) /\ Len(g \o h) = Len(g) + Len(h)
         /\ Len(g) \in Nat /\ Len(h) \in Nat
OBVIOUS

(* The verifier's window fits the context.                                 *)
LEMMA WindowFits ==
  ASSUME Inv, call.pc = "settle"
  PROVE  /\ Len(call.base) \in Nat /\ Len(call.window) \in Nat
         /\ Len(call.base) + Len(call.window) <= Ctx
<1>1. call.base \in Seq(Tokens) /\ call.window \in Seq(Tokens)
  BY DEF Inv, TypeOK
<1>2. ckpt = call.base \o call.window /\ Len(ckpt) <= Ctx
  BY DEF Inv, CallOK, Verified
<1>3. Len(ckpt) = Len(call.base) + Len(call.window)
  BY <1>1, <1>2, Joined
<1>4. Len(call.base) + Len(call.window) <= Ctx
  <2> DEFINE n == Len(ckpt)
  <2> DEFINE m == Len(call.base) + Len(call.window)
  <2>1. n = m /\ n <= Ctx
    BY <1>2, <1>3
  <2> HIDE DEF n, m
  <2>2. m <= Ctx
    BY <2>1
  <2> QED BY <2>2 DEF m
<1> QED BY <1>1, <1>4, Joined

(* After the verifier: the window's first k rows fit the context, the row  *)
(* of logits is theirs, and so is the frontier the call goes back to,      *)
(* unless it stops early in a long window.                                 *)
LEMMA SettleFacts ==
  ASSUME Inv, call.pc = "settle", NEW k \in 1..Len(call.window)
  PROVE  /\ FirstRows(k) \in Seq(Tokens) /\ Len(FirstRows(k)) = k /\ k <= 5
         /\ call.base \o FirstRows(k) \in Seq(Tokens)
         /\ Len(call.base \o FirstRows(k)) = Len(call.base) + k
         /\ Len(call.base) + k <= Ctx
         /\ Row(k) \in Contents
         /\ Row(k) = IF call.snap = Torn THEN Torn ELSE call.base \o FirstRows(k)
         /\ (k = Len(call.window) \/ Len(call.window) <= 3) => Rollback(k) = Row(k)
<1> DEFINE w == call.window
<1> DEFINE b == call.base
<1> DEFINE s == call.snap
<1> DEFINE r == FirstRows(k)
<1>1. WindowOK /\ Verified /\ Len(ckpt) <= Ctx
  BY DEF Inv, CallOK
<1>2. w \in Seq(Tokens) /\ b \in Seq(Tokens) /\ s \in Contents
  BY DEF Inv, TypeOK
<1>3. Len(w) \in 1..5
  BY <1>1 DEF WindowOK
<1>4. k <= 5 /\ k \in 0..Len(w)
  <2> DEFINE n == Len(w)
  <2>1. n \in 1..5 /\ k \in 1..n
    BY <1>3
  <2> HIDE DEF n
  <2>2. k <= 5 /\ k \in 0..n
    BY <2>1
  <2> QED BY <2>2 DEF n
<1>5. r \in Seq(Tokens) /\ Len(r) = k
  BY <1>2, <1>4, PartType DEF FirstRows
<1>6. b \o r \in Seq(Tokens) /\ Len(b \o r) = Len(b) + k
  BY <1>2, <1>5
<1>7. Len(b) + k <= Ctx
  <2> DEFINE n == Len(w)
  <2> DEFINE m == Len(b)
  <2>2. n \in Nat /\ m \in Nat /\ m + n <= Ctx /\ k \in 0..n
    BY <1>4, WindowFits
  <2> HIDE DEF n, m
  <2>3. m + k <= Ctx
    BY <2>2, SizesAreNat
  <2> QED BY <2>3 DEF m
<1>8. s = Torn \/ s = b
  BY <1>1 DEF Verified
<1>9. front = After(s, b, w)
  BY <1>1 DEF Verified
<1>10. b # Torn /\ b \o w \notin {Unknown, Torn}
  <2>1. b \o w \in Seq(Tokens)
    BY <1>2, Joined
  <2> QED BY <1>2, <2>1, NoHistory
<1>11. front = IF s = Torn THEN Torn ELSE b \o w
  <2> HIDE DEF w, b, s
  <2>1. After(s, b, w) = IF s = Torn THEN Torn ELSE b \o w
    BY <1>2, <1>8, AfterSnapshot
  <2> QED BY <1>9, <2>1
<1>12. Row(k) = IF s = Torn THEN Torn ELSE b \o r
  BY <1>10, <1>11 DEF Row
<1>13. Row(k) \in Contents
  BY <1>6, <1>12 DEF Contents
<1>14. After(s, b, r) = Row(k)
  <2> HIDE DEF w, b, s, r
  <2>1. After(s, b, r) = IF s = Torn THEN Torn ELSE b \o r
    BY <1>2, <1>5, <1>8, AfterSnapshot
  <2> QED BY <1>12, <2>1
<1>15. (k = Len(w) \/ Len(w) <= 3) => Rollback(k) = Row(k)
  <2>1. CASE k = Len(w)
    <3>1. r = w
      BY <1>2, <2>1 DEF FirstRows
    <3>2. ~(k < Len(w))
      <4> HIDE DEF w
      <4> QED BY <2>1, <1>4
    <3>3. Rollback(k) = front
      BY <3>2 DEF Rollback
    <3> QED BY <1>9, <1>14, <3>1, <3>3
  <2>2. CASE k # Len(w) /\ Len(w) <= 3
    <3>1. k < Len(w) /\ k \in 1..2
      <4> DEFINE n == Len(w)
      <4>1. n \in 1..5 /\ k \in 1..n /\ k # n /\ n <= 3
        BY <1>3, <2>2
      <4> HIDE DEF n
      <4>2. k < n /\ k \in 1..2
        BY <4>1
      <4> QED BY <4>2 DEF n
    <3>2. call.kept[k] = After(s, b, r)
      BY <1>1, <2>2, <3>1 DEF Verified
    <3>3. Rollback(k) = call.kept[k]
      BY <3>1 DEF Rollback
    <3> QED BY <1>14, <3>2, <3>3
  <2> QED BY <2>1, <2>2
<1> QED BY <1>4, <1>5, <1>6, <1>7, <1>12, <1>13, <1>15

(* A call that cannot read the verifier's answer breaks off inside the     *)
(* context.                                                                *)
LEMMA UnsettledKeeps ==
  ASSUME Inv, call.pc = "settle", NEW k \in 0..Len(call.window), Unsettled(k),
         conf' = conf, drafted' \in BOOLEAN
  PROVE  Inv'
<1>1. /\ ckpt' = call.base \o FirstRows(k) /\ front' = Unknown /\ Broken
      /\ logits' = logits /\ logits \in Contents /\ front' \in Contents
  BY DEF Unsettled, Inv, TypeOK, Contents
<1>2. ckpt' \in Seq(Tokens) /\ Len(ckpt') <= Ctx
  <2>1. CASE k = 0
    <3>1. FirstRows(0) = <<>> /\ call.base \in Seq(Tokens)
      BY DEF Inv, TypeOK, FirstRows
    <3>2. ckpt' = call.base
      BY <1>1, <2>1, <3>1
    <3> DEFINE n == Len(call.window)
    <3> DEFINE m == Len(call.base)
    <3>5. n \in Nat /\ m \in Nat /\ m + n <= Ctx
      BY WindowFits
    <3> HIDE DEF n, m
    <3>6. m <= Ctx
      BY <3>5, SizesAreNat
    <3> QED BY <3>1, <3>2, <3>6 DEF m
  <2>2. CASE k # 0
    <3>1. k \in 1..Len(call.window)
      <4> DEFINE n == Len(call.window)
      <4>1. k \in 0..n
        OBVIOUS
      <4> HIDE DEF n
      <4>2. k \in 1..n
        BY <4>1, <2>2
      <4> QED BY <4>2 DEF n
    <3> QED BY <1>1, <3>1, SettleFacts
  <2> QED BY <2>1, <2>2
<1> QED BY <1>1, <1>2, BrokenKeeps

(* A call that keeps what the verifier computed stops at the window's end  *)
(* or in a short one, so the frontier it goes back to is that of the rows  *)
(* it keeps.                                                               *)
LEMMA KeptIsCaptured ==
  ASSUME Inv, call.pc = "settle", call.path # "sample", NEW k \in 1..Len(call.window),
         call.path # "suffix" \/ ~Snapshot \/ k = Len(call.window)
  PROVE  Rollback(k) = Row(k)
<1>1. WindowOK /\ call.path \in Paths
  BY DEF Inv, CallOK, TypeOK
<1>2. k = Len(call.window) \/ Len(call.window) <= 3
  <2> DEFINE n == Len(call.window)
  <2>1. n \in 1..5 /\ (call.path \in {"combined", "sample"} => n <= 3)
        /\ (call.path \in {"dspark", "exact"} => n <= 2) /\ call.path # "none"
    BY <1>1 DEF WindowOK
  <2>2. call.path \in {"combined", "dspark", "exact"} \/ call.path = "suffix"
    BY <1>1, <2>1 DEF Paths
  <2>3. call.path = "suffix" => (~(n > 2) \/ k = n)
    BY DEF Snapshot
  <2> HIDE DEF n
  <2>4. k = n \/ n <= 3
    BY <2>1, <2>2, <2>3
  <2> QED BY <2>4 DEF n
<1> QED BY <1>2, SettleFacts

LEMMA SettleKeeps ==
  ASSUME Inv, Settle
  PROVE  Inv'
<1> DEFINE k == Committed
<1>1. /\ call.pc = "settle" /\ call.path # "sample" /\ drafted' = FALSE /\ conf' = conf
  BY DEF Settle
<1>2. /\ WindowOK /\ Verified /\ valid /\ Len(ckpt) <= Ctx /\ (seed => ~conf.copies)
  BY <1>1 DEF Inv, CallOK
<1>3. /\ call.window \in Seq(Tokens) /\ call.base \in Seq(Tokens) /\ call.snap \in Contents
      /\ call.out \in Seq(Tokens) /\ logits \in Contents /\ call.path \in Paths
      /\ faults \in 0..MaxFaults /\ seed \in BOOLEAN
  BY DEF Inv, TypeOK
<1>4. k \in 1..Len(call.window)
  BY <1>2, <1>3, AgreedInWindow DEF WindowOK
<1> HIDE DEF k
<1>5. CASE /\ call.path # "suffix" \/ ~Snapshot \/ k = Len(call.window)
           /\ ckpt' = call.base \o FirstRows(k)
           /\ front' = Rollback(k) /\ logits' = Row(k)
           /\ IF call.path = "exact" THEN UNCHANGED seed ELSE SeedFromLast
           /\ valid' = TRUE /\ UNCHANGED faults
           /\ Return(call.out \o UpToEos(FirstRows(k)), TRUE)
  <2>2. Rollback(k) = Row(k)
    BY <1>1, <1>4, <1>5, KeptIsCaptured
  <2>3. /\ ckpt' \in Seq(Tokens) /\ Len(ckpt') <= Ctx
        /\ front' \in Contents /\ logits' \in Contents /\ Standing'
    <3>1. /\ ckpt' \in Seq(Tokens) /\ Len(ckpt') <= Ctx /\ Row(k) \in Contents
          /\ Row(k) = IF call.snap = Torn THEN Torn ELSE ckpt'
      BY <1>1, <1>4, <1>5, SettleFacts
    <3> QED BY <1>5, <2>2, <3>1 DEF Standing
  <2>4. call.out \o UpToEos(FirstRows(k)) \in Seq(Tokens)
    <3>1. FirstRows(k) \in Seq(Tokens) /\ Len(FirstRows(k)) <= 5
      BY <1>1, <1>4, SettleFacts
    <3> QED BY <1>3, <3>1, UpToEosFacts
  <2>5. seed' \in BOOLEAN /\ (seed' => ~conf.copies)
    BY <1>2, <1>3, <1>5, SeedType DEF Inv
  <2> QED BY <1>1, <1>3, <1>5, <2>3, <2>4, <2>5, ReturnKeeps
<1>6. CASE Replays(k)
  <2>1. /\ ckpt' = call.base /\ front' = call.snap /\ call.path = "suffix"
        /\ call' = [call EXCEPT !.pc = "replay", !.window = FirstRows(k)]
        /\ UNCHANGED <<valid, logits, seed, turn>>
    BY <1>6 DEF Replays
  <2>2. /\ FirstRows(k) \in Seq(Tokens) /\ Len(FirstRows(k)) = k /\ k <= 5
        /\ Len(call.base) + k <= Ctx
    BY <1>1, <1>4, SettleFacts
  <2>3. /\ call'.pc = "replay" /\ call'.window = FirstRows(k) /\ call'.path = "suffix"
        /\ call' \in [pc : {"idle", "draft", "verify", "settle", "replay", "seq"},
                      path : Paths, out : Seq(Tokens), window : Seq(Tokens),
                      base : Seq(Tokens), snap : Contents, kept : [1..2 -> Contents]]
    BY <2>1, <2>2 DEF Inv, TypeOK
  <2>4. faults' \in 0..MaxFaults
    BY <1>3, <1>6, SizesAreNat DEF Replays
  <2>5. TypeOK'
    BY <1>1, <1>3, <2>1, <2>3, <2>4 DEF Inv, TypeOK
  <2>6. k \in 1..5
    <3> DEFINE n == Len(call.window)
    <3>1. k \in 1..n /\ k <= 5
      BY <1>4, <2>2
    <3> HIDE DEF n
    <3> QED BY <3>1
  <2>7. WindowOK'
    BY <2>2, <2>3, <2>6 DEF WindowOK
  <2>8. Standing'
    BY <1>2, <2>1 DEF Standing, Verified
  <2>9. Len(ckpt') + Len(call'.window) <= Ctx
    BY <2>1, <2>2, <2>3
  <2>10. CallOK'
    BY <1>1, <1>2, <2>1, <2>3, <2>7, <2>8, <2>9 DEF CallOK
  <2>11. Len(ckpt') <= Ctx
    <3> DEFINE m == Len(call.base)
    <3>1. m \in Nat /\ m + k <= Ctx
      BY <1>3, <2>2
    <3> HIDE DEF m
    <3>2. m <= Ctx
      BY <2>6, <3>1, SizesAreNat
    <3> QED BY <2>1, <3>2 DEF m
  <2> QED BY <2>5, <2>10, <2>11 DEF Inv, WithinContext
<1>7. CASE SettleFails(k)
  <2>1. CASE Unsettled(k) \/ Unsettled(0)
    <3>1. k \in 0..Len(call.window) /\ 0 \in 0..Len(call.window)
      <4> DEFINE n == Len(call.window)
      <4>1. k \in 1..n /\ n \in Nat
        BY <1>3, <1>4
      <4> HIDE DEF n
      <4>2. k \in 0..n /\ 0 \in 0..n
        BY <4>1
      <4> QED BY <4>2 DEF n
    <3> QED BY <1>1, <2>1, <3>1, UnsettledKeeps
  <2>2. CASE ckpt' = call.base /\ Fallback(call.snap)
    <3>1. call.snap # Torn => call.snap = ckpt' /\ logits = ckpt'
      BY <1>2, <2>2 DEF Verified
    <3>2. Len(ckpt') + Len(call.window) <= Ctx
      BY <1>1, <2>2, WindowFits
    <3> QED BY <1>1, <1>2, <1>3, <2>2, <3>1, <3>2, FallbackKeeps
  <2> QED BY <1>7, <2>1, <2>2 DEF SettleFails
<1> QED BY <1>5, <1>6, <1>7 DEF Settle, k

LEMMA SettleSampleKeeps ==
  ASSUME Inv, NEW k \in 1..Len(call.window), NEW r \in Tokens, SettleSample(k, r)
  PROVE  Inv'
<1> DEFINE whole == call.base \o FirstRows(k)
<1>1. /\ call.pc = "settle" /\ call.path = "sample" /\ conf' = conf
  BY DEF SettleSample
<1>2. /\ FirstRows(k) \in Seq(Tokens) /\ Len(FirstRows(k)) = k
      /\ whole \in Seq(Tokens) /\ Len(whole) = Len(call.base) + k
      /\ Len(call.base) + k <= Ctx /\ Row(k) \in Contents
      /\ Row(k) = IF call.snap = Torn THEN Torn ELSE whole
  BY <1>1, SettleFacts
<1>3. Rollback(k) = Row(k)
  <2>1. Len(call.window) <= 3
    BY <1>1 DEF Inv, CallOK, WindowOK
  <2> QED BY <1>1, <2>1, SettleFacts
<1>4. Tail(FirstRows(k)) \in Seq(Tokens)
  <2>1. FirstRows(k) # <<>>
    <3>1. k \in 1..Len(call.window) /\ Len(<<>>) = 0
      OBVIOUS
    <3>2. k # 0
      BY <3>1
    <3> QED BY <1>2, <3>1, <3>2
  <2> QED BY <1>2, <2>1
<1>5. front = IF call.snap = Torn THEN Torn ELSE call.base \o call.window
  <2>1. Verified /\ call.base \in Seq(Tokens) /\ call.window \in Seq(Tokens)
    BY <1>1 DEF Inv, CallOK, TypeOK
  <2>2. /\ call.snap = Torn \/ call.snap = call.base
        /\ front = After(call.snap, call.base, call.window)
    BY <2>1 DEF Verified
  <2> DEFINE w == call.window
  <2> DEFINE b == call.base
  <2> DEFINE s == call.snap
  <2>3. w \in Seq(Tokens) /\ b \in Seq(Tokens) /\ (s = Torn \/ s = b)
    BY <2>1, <2>2
  <2>4. After(s, b, w) = IF s = Torn THEN Torn ELSE b \o w
    <3> HIDE DEF w, b, s
    <3> QED BY <2>3, AfterSnapshot
  <2> QED BY <2>2, <2>4
<1> HIDE DEF whole
<1>6. CASE /\ IF k = Len(call.window)
                THEN /\ ckpt' = whole /\ front' = front /\ logits' = Row(k)
                     /\ Return(Tail(FirstRows(k)), FALSE)
                ELSE /\ ckpt' = Append(whole, r)
                     /\ front' = After(Rollback(k), whole, <<r>>) /\ logits' = front'
                     /\ Return(Append(Tail(FirstRows(k)), r), FALSE)
           /\ SeedFromLast /\ valid' = TRUE
           /\ drafted' \in IF seed' THEN BOOLEAN ELSE {FALSE}
           /\ UNCHANGED faults
  <2>1. seed' \in BOOLEAN /\ (seed' => ~conf.copies) /\ drafted' \in BOOLEAN
    BY <1>6, SeedType DEF Inv
  <2>2. faults' \in 0..MaxFaults /\ valid' = TRUE
    BY <1>6 DEF Inv, TypeOK
  <2>3. CASE k = Len(call.window)
    <3>1. /\ ckpt' = whole /\ front' = front /\ logits' = Row(k)
          /\ Return(Tail(FirstRows(k)), FALSE)
      BY <1>6, <2>3
    <3>2. ckpt' \in Seq(Tokens) /\ Len(ckpt') <= Ctx
      BY <1>2, <3>1
    <3>3. front' \in Contents /\ logits' \in Contents
      BY <1>2, <3>1 DEF Inv, TypeOK
    <3>4. FirstRows(k) = call.window
      BY <2>3 DEF FirstRows, Inv, TypeOK
    <3>5. Standing'
      BY <1>2, <1>5, <3>1, <3>4 DEF Standing, whole
    <3> QED BY <1>1, <1>4, <2>1, <2>2, <3>1, <3>2, <3>3, <3>5, ReturnKeeps
  <2>4. CASE k # Len(call.window)
    <3>1. /\ ckpt' = Append(whole, r)
          /\ front' = After(Rollback(k), whole, <<r>>) /\ logits' = front'
          /\ Return(Append(Tail(FirstRows(k)), r), FALSE)
      BY <1>6, <2>4
    <3>2. <<r>> \in Seq(Tokens) /\ Append(whole, r) = whole \o <<r>>
          /\ Append(whole, r) \in Seq(Tokens) /\ Len(Append(whole, r)) = Len(whole) + 1
          /\ Append(Tail(FirstRows(k)), r) \in Seq(Tokens)
      BY <1>2, <1>4
    <3>3. Len(ckpt') <= Ctx
      <4> DEFINE n == Len(call.window)
      <4> DEFINE m == Len(call.base)
      <4>1. n \in Nat /\ m \in Nat /\ m + n <= Ctx /\ k \in 1..n /\ k # n
        BY <1>1, <2>4, WindowFits
      <4>2. Len(ckpt') = m + k + 1
        BY <1>2, <3>1, <3>2
      <4> HIDE DEF n, m
      <4>3. m + k + 1 <= Ctx
        BY <4>1, SizesAreNat
      <4> QED BY <4>2, <4>3
    <3>4. front' = IF call.snap = Torn THEN Torn ELSE ckpt'
      <4> DEFINE g == Rollback(k)
      <4>1. g = IF call.snap = Torn THEN Torn ELSE whole
        BY <1>2, <1>3
      <4>2. front' = After(g, whole, <<r>>) /\ ckpt' = whole \o <<r>>
        BY <3>1, <3>2
      <4>3. whole \in Seq(Tokens) /\ <<r>> \in Seq(Tokens)
        BY <1>2, <3>2
      <4>4. whole # Torn
        BY <4>3, NoHistory
      <4> HIDE DEF g
      <4>5. After(g, whole, <<r>>) = IF g = Torn THEN Torn ELSE whole \o <<r>>
        BY <4>1, <4>3, AfterSnapshot
      <4> QED BY <4>1, <4>2, <4>4, <4>5
    <3>5. front' \in Contents /\ logits' \in Contents /\ Standing'
      BY <3>1, <3>2, <3>4 DEF Contents, Standing
    <3> QED BY <1>1, <2>1, <2>2, <3>1, <3>2, <3>3, <3>5, ReturnKeeps
  <2> QED BY <2>3, <2>4
<1>7. CASE Unsettled(k) /\ drafted' = FALSE
  <2>1. k \in 0..Len(call.window)
    <3> DEFINE n == Len(call.window)
    <3>1. k \in 1..n
      OBVIOUS
    <3> HIDE DEF n
    <3>2. k \in 0..n
      BY <3>1
    <3> QED BY <3>2 DEF n
  <2> QED BY <1>1, <1>7, <2>1, UnsettledKeeps
<1> QED BY <1>6, <1>7 DEF SettleSample, whole
-----------------------------------------------------------------------------
LEMMA ReplayKeeps ==
  ASSUME Inv, Replay
  PROVE  Inv'
<1>1. /\ call.pc = "replay" /\ drafted' = FALSE /\ conf' = conf
  BY DEF Replay
<1>2. /\ WindowOK /\ Standing /\ Len(ckpt) + Len(call.window) <= Ctx /\ (seed => ~conf.copies)
      /\ valid
  BY <1>1 DEF Inv, CallOK
<1>3. /\ call.window \in Seq(Tokens) /\ call.out \in Seq(Tokens) /\ ckpt \in Seq(Tokens)
      /\ front \in Contents /\ seed \in BOOLEAN /\ faults \in 0..MaxFaults
  BY DEF Inv, TypeOK
<1>4. CASE /\ Decode(call.window) /\ Return(call.out \o UpToEos(call.window), TRUE)
           /\ valid' = TRUE /\ UNCHANGED <<seed, faults>>
  <2>1. /\ ckpt' \in Seq(Tokens) /\ Len(ckpt') = Len(ckpt) + Len(call.window)
        /\ front' \in Contents /\ logits' \in Contents /\ Standing'
    BY <1>2, <1>3, <1>4, DecodeKeeps
  <2>2. Len(call.window) <= 5
    <3> DEFINE n == Len(call.window)
    <3>1. n \in 1..5
      BY <1>2 DEF WindowOK
    <3> HIDE DEF n
    <3>2. n <= 5
      BY <3>1
    <3> QED BY <3>2 DEF n
  <2>3. call.out \o UpToEos(call.window) \in Seq(Tokens)
    BY <1>3, <2>2, UpToEosFacts
  <2> QED BY <1>1, <1>2, <1>3, <1>4, <2>1, <2>3, ReturnKeeps
<1>5. CASE Fallback(front) /\ UNCHANGED ckpt
  BY <1>1, <1>2, <1>3, <1>5, FallbackKeeps DEF Standing
<1> QED BY <1>4, <1>5 DEF Replay

LEMMA SequentialKeeps ==
  ASSUME Inv, Sequential
  PROVE  Inv'
<1>1. /\ call.pc = "seq" /\ drafted' = drafted /\ conf' = conf
  BY DEF Sequential
<1>2. /\ WindowOK /\ Standing /\ Len(ckpt) + Len(call.window) <= Ctx /\ (seed => ~conf.copies)
      /\ valid
  BY <1>1 DEF Inv, CallOK
<1>3. /\ call.window \in Seq(Tokens) /\ call.out \in Seq(Tokens) /\ ckpt \in Seq(Tokens)
      /\ logits \in Contents /\ seed \in BOOLEAN /\ faults \in 0..MaxFaults
      /\ drafted \in BOOLEAN /\ valid = TRUE
  BY <1>2 DEF Inv, TypeOK
<1> DEFINE L == Len(call.window)
<1>4. Followed \in 0..L
  <2>1. L \in 1..5
    BY <1>2 DEF WindowOK
  <2>2. L \in 0..5
    <3> HIDE DEF L
    <3> QED BY <2>1
  <2> QED BY <1>3, <2>2, FollowedInWindow
<1>5. ASSUME NEW k \in 0..Followed
      PROVE  /\ FirstRows(k) \in Seq(Tokens) /\ ckpt \o FirstRows(k) \in Seq(Tokens)
             /\ Len(ckpt \o FirstRows(k)) <= Ctx /\ Len(ckpt) + Len(FirstRows(k)) <= Ctx
  <2>1. k \in 0..L
    <3> DEFINE f == Followed
    <3>1. L \in Nat /\ f \in 0..L /\ k \in 0..f
      BY <1>3, <1>4
    <3> HIDE DEF L, f
    <3> QED BY <3>1
  <2>2. FirstRows(k) \in Seq(Tokens) /\ Len(FirstRows(k)) = k
    BY <1>3, <2>1, PartType DEF FirstRows
  <2>3. ckpt \o FirstRows(k) \in Seq(Tokens) /\ Len(ckpt \o FirstRows(k)) = Len(ckpt) + k
    BY <1>3, <2>2, Joined
  <2>4. Len(ckpt) + k <= Ctx
    <3> DEFINE c == Len(ckpt)
    <3>1. c \in Nat /\ L \in Nat /\ c + L <= Ctx
      BY <1>2, <1>3
    <3> HIDE DEF c, L
    <3>2. c + k <= Ctx
      BY <2>1, <3>1, SizesAreNat
    <3> QED BY <3>2 DEF c
  <2> QED BY <2>2, <2>3, <2>4
<1> HIDE DEF L
<1>6. CASE /\ Decode(FirstRows(Followed)) /\ Return(call.out \o FirstRows(Followed), TRUE)
           /\ UNCHANGED <<valid, seed, faults>>
  <2>1. Followed \in 0..Followed
    BY <1>4
  <2>2. /\ FirstRows(Followed) \in Seq(Tokens)
        /\ Len(ckpt) + Len(FirstRows(Followed)) <= Ctx
    BY <1>5, <2>1
  <2>3. /\ ckpt' \in Seq(Tokens) /\ Len(ckpt') = Len(ckpt) + Len(FirstRows(Followed))
        /\ front' \in Contents /\ logits' \in Contents /\ Standing'
    BY <1>2, <1>6, <2>2, DecodeKeeps
  <2>4. call.out \o FirstRows(Followed) \in Seq(Tokens)
    BY <1>3, <2>2, Joined
  <2> QED BY <1>1, <1>2, <1>3, <1>6, <2>2, <2>3, <2>4, ReturnKeeps
<1>7. CASE /\ \E k \in 0..Followed : ckpt' = ckpt \o FirstRows(k)
           /\ front' = Unknown /\ Broken /\ UNCHANGED logits
  <2>1. ckpt' \in Seq(Tokens) /\ Len(ckpt') <= Ctx
    BY <1>5, <1>7
  <2>2. front' \in Contents /\ logits' \in Contents
    BY <1>3, <1>7 DEF Contents
  <2> QED BY <1>1, <1>3, <1>7, <2>1, <2>2, BrokenKeeps
<1> QED BY <1>6, <1>7 DEF Sequential
-----------------------------------------------------------------------------
LEMMA SampledKeeps ==
  ASSUME RowsAreCaptured, Inv, NEW t \in Tokens, NEW d, Combined(t, d) \/ Sample(t, d)
  PROVE  Inv'
<1>1. CASE Combined(t, d)
  <2>1. conf.depth = 2 /\ Batch(t, d, "combined")
    BY <1>1 DEF Combined
  <2> QED BY <2>1, BatchKeeps
<1>2. CASE Sample(t, d)
  <2>1. conf.depth \in 2..4 /\ Batch(t, d, "sample")
    BY <1>2 DEF Sample
  <2> QED BY <2>1, BatchKeeps
<1> QED BY <1>1, <1>2

LEMMA StutterKeeps ==
  ASSUME Inv, UNCHANGED vars
  PROVE  Inv'
<1>1. /\ conf' = conf /\ ckpt' = ckpt /\ valid' = valid /\ front' = front
      /\ logits' = logits /\ seed' = seed /\ drafted' = drafted /\ call' = call
      /\ turn' = turn /\ faults' = faults
  BY DEF vars
<1>2. TypeOK' /\ WithinContext'
  BY <1>1 DEF Inv, TypeOK, WithinContext
<1>3. Standing' = Standing /\ WindowOK' = WindowOK /\ Verified' = Verified
  BY <1>1 DEF Standing, WindowOK, Verified, FirstRows
<1>4. CallOK'
  BY <1>1, <1>3 DEF Inv, CallOK
<1> QED BY <1>2, <1>4 DEF Inv

LEMMA InvStep ==
  ASSUME RowsAreCaptured, Inv, [Next]_vars
  PROVE  Inv'
<1>1. CASE UNCHANGED vars
  BY <1>1, StutterKeeps
<1>2. ASSUME NEW t \in Tokens, Canonical(t) \/ \E g \in BOOLEAN : Plain(t, g)
      PROVE  Inv'
  BY <1>2, CanonicalKeeps, PlainKeeps
<1>3. ASSUME NEW t \in Tokens, NEW d \in Guesses(conf.depth), Combined(t, d) \/ Sample(t, d)
      PROVE  Inv'
  BY <1>3, SampledKeeps
<1>4. ASSUME NEW d \in Guesses(conf.depth), Draft(d) \/ SkipSecond(d)
      PROVE  Inv'
  BY <1>4, DraftKeeps, SkipSecondKeeps
<1>5. ASSUME NEW k \in 1..Len(call.window), NEW r \in Tokens, SettleSample(k, r)
      PROVE  Inv'
  BY <1>5, SettleSampleKeeps
<1>6. CASE NoDraft \/ Verify \/ Settle \/ Replay \/ Sequential \/ Invalidate
  BY <1>6, NoDraftKeeps, VerifyKeeps, SettleKeeps, ReplayKeeps, SequentialKeeps,
     InvalidateKeeps
<1>7. ASSUME NEW p \in NextPrompts, Sync(p)
      PROVE  Inv'
  BY <1>7, SyncKeeps
<1> QED BY <1>1, <1>2, <1>3, <1>4, <1>5, <1>6, <1>7 DEF Next, Calls

LEMMA Invariance ==
  ASSUME RowsAreCaptured PROVE Spec => []Inv
<1>1. RowsAreCaptured
  OBVIOUS
<1>2. Inv /\ [Next]_vars => Inv'
  BY <1>1, InvStep
<1> QED BY <1>2, InitInv, PTL DEF Spec

-----------------------------------------------------------------------------
(* The tokens o are those of history c after its first n, and each is the  *)
(* target's choice.                                                        *)
OnTarget(o, c, n) ==
  /\ n + Len(o) <= Len(c)
  /\ \A i \in 1..Len(o) : o[i] = c[n + i] /\ o[i] = Top(SubSeq(c, 1, n + i - 1))

(* They are all of them, unless an Eos was among them.                     *)
Served(o, c, n) ==
  OnTarget(o, c, n) /\ (n + Len(o) = Len(c) \/ Contains(o, Eos))

(* What the caller has and will be given of what the call committed, and   *)
(* the history up to there.                                                *)
Given == turn.out \o call.out
Held == IF call.pc = "settle" THEN call.base ELSE ckpt

(* The first row of a window is checked before the verifier, every row of  *)
(* one that is evaluated again was checked by it.                          *)
Checked ==
  /\ call.pc \in {"verify", "settle"} => call.window[1] = Top(Held)
  /\ call.pc = "replay" =>
       \A j \in 1..Len(call.window) : call.window[j] = Top(Held \o FirstRows(j - 1))

Greedily ==
  /\ valid /\ turn.greedy /\ front # Torn
  /\ call.path # "sample"

Targeted ==
  /\ call.pc # "idle" => turn.open
  /\ call.pc = "idle" => call.out = <<>>
  /\ call.path = "sample" => call.pc \in {"verify", "settle"}
  /\ Greedily =>
       /\ Served(Given, Held, turn.from)
       /\ turn.open => ~Contains(Given, Eos)
       /\ Checked
-----------------------------------------------------------------------------
(* Tokens of a history made of two.                                        *)
LEMMA JoinParts ==
  ASSUME NEW g \in Seq(Tokens), NEW h \in Seq(Tokens)
  PROVE  /\ g \o h \in Seq(Tokens) /\ Len(g \o h) = Len(g) + Len(h)
         /\ Len(g) \in Nat /\ Len(h) \in Nat
         /\ \A i \in 1..Len(g) : (g \o h)[i] = g[i]
         /\ \A i \in 1..Len(h) : (g \o h)[Len(g) + i] = h[i]
OBVIOUS

(* An Eos is in one or the other.                                          *)
LEMMA ContainsJoin ==
  ASSUME NEW g \in Seq(Tokens), NEW h \in Seq(Tokens)
  PROVE  Contains(g \o h, Eos) <=> Contains(g, Eos) \/ Contains(h, Eos)
<1> DEFINE a == Len(g)
<1> DEFINE b == Len(h)
<1>1. /\ Len(g \o h) = a + b /\ a \in Nat /\ b \in Nat
      /\ \A i \in 1..a : (g \o h)[i] = g[i]
      /\ \A i \in 1..b : (g \o h)[a + i] = h[i]
  BY JoinParts
<1> DEFINE j == g \o h
<1>2. ASSUME Contains(j, Eos) PROVE Contains(g, Eos) \/ Contains(h, Eos)
  <2>1. PICK i \in 1..a + b : j[i] = Eos
    BY <1>1, <1>2 DEF Contains
  <2>2. i \in 1..a \/ (i - a \in 1..b /\ a + (i - a) = i)
    <3> HIDE DEF a, b
    <3> QED BY <1>1
  <2>3. CASE i \in 1..a
    BY <1>1, <2>1, <2>3 DEF Contains
  <2>4. CASE i - a \in 1..b /\ a + (i - a) = i
    <3>1. j[a + (i - a)] = h[i - a]
      BY <1>1, <2>4
    <3>2. h[i - a] = Eos
      BY <2>1, <2>4, <3>1
    <3> QED BY <2>4, <3>2 DEF Contains
  <2> QED BY <2>2, <2>3, <2>4
<1>3. ASSUME Contains(g, Eos) PROVE Contains(j, Eos)
  <2>1. PICK i \in 1..a : g[i] = Eos
    BY <1>3 DEF Contains
  <2>2. i \in 1..a + b
    <3> HIDE DEF a, b
    <3> QED BY <1>1
  <2> QED BY <1>1, <2>1, <2>2 DEF Contains
<1>4. ASSUME Contains(h, Eos) PROVE Contains(j, Eos)
  <2>1. PICK i \in 1..b : h[i] = Eos
    BY <1>4 DEF Contains
  <2>2. a + i \in 1..a + b
    <3> HIDE DEF a, b
    <3> QED BY <1>1
  <2> QED BY <1>1, <2>1, <2>2 DEF Contains
<1> QED BY <1>2, <1>3, <1>4

(* A front part of a history that goes on is one of the whole.             *)
LEMMA FrontOfJoin ==
  ASSUME NEW c \in Seq(Tokens), NEW w \in Seq(Tokens)
  PROVE  /\ \A n \in 0..Len(c) : SubSeq(c \o w, 1, n) = SubSeq(c, 1, n)
         /\ \A n \in 0..Len(w) : SubSeq(c \o w, 1, Len(c) + n) = c \o SubSeq(w, 1, n)
<1> DEFINE j == c \o w
<1> DEFINE a == Len(c)
<1> DEFINE b == Len(w)
<1>1. /\ j \in Seq(Tokens) /\ Len(j) = a + b /\ a \in Nat /\ b \in Nat
      /\ \A i \in 1..a : j[i] = c[i]
      /\ \A i \in 1..b : j[a + i] = w[i]
  BY JoinParts
<1> HIDE DEF j
<1>2. ASSUME NEW n \in 0..a PROVE SubSeq(j, 1, n) = SubSeq(c, 1, n)
  <2>1. n \in 0..Len(j)
    <3> HIDE DEF a, b
    <3> QED BY <1>1
  <2>2. SubSeq(j, 1, n) \in Seq(Tokens) /\ Len(SubSeq(j, 1, n)) = n
        /\ SubSeq(c, 1, n) \in Seq(Tokens) /\ Len(SubSeq(c, 1, n)) = n
    BY <1>1, <2>1, PartType
  <2>3. \A i \in 1..n : SubSeq(j, 1, n)[i] = SubSeq(c, 1, n)[i]
    <3>1. \A i \in 1..n : i \in 1..a
      <4> HIDE DEF a
      <4> QED BY <1>1
    <3> QED BY <1>1, <2>1, <3>1
  <2> QED BY <2>2, <2>3
<1>3. ASSUME NEW n \in 0..b PROVE SubSeq(j, 1, a + n) = c \o SubSeq(w, 1, n)
  <2> DEFINE p == SubSeq(j, 1, a + n)
  <2> DEFINE q == SubSeq(w, 1, n)
  <2>1. a + n \in 0..Len(j) /\ n \in Nat
    <3> HIDE DEF a, b
    <3> QED BY <1>1
  <2>2. /\ p \in Seq(Tokens) /\ Len(p) = a + n
        /\ q \in Seq(Tokens) /\ Len(q) = n
    BY <1>1, <2>1, PartType
  <2>3. c \o q \in Seq(Tokens) /\ Len(c \o q) = a + n
        /\ (\A i \in 1..a : (c \o q)[i] = c[i])
        /\ (\A i \in 1..n : (c \o q)[a + i] = q[i])
    BY <2>2, JoinParts
  <2>4. ASSUME NEW i \in 1..a + n PROVE p[i] = (c \o q)[i]
    <3>1. p[i] = j[i]
      BY <1>1, <2>1
    <3>2. i \in 1..a \/ (i - a \in 1..n /\ i - a \in 1..b /\ a + (i - a) = i)
      <4> HIDE DEF a, b
      <4> QED BY <1>1
    <3>3. CASE i \in 1..a
      BY <1>1, <2>3, <3>1, <3>3
    <3>4. CASE i - a \in 1..n /\ i - a \in 1..b /\ a + (i - a) = i
      <4> DEFINE k == i - a
      <4>1. k \in 1..n /\ k \in 1..b /\ a + k = i
        BY <3>4
      <4> HIDE DEF k
      <4>2. j[a + k] = w[k] /\ (c \o q)[a + k] = q[k]
        BY <1>1, <2>3, <4>1
      <4>3. q[k] = w[k]
        BY <4>1
      <4> QED BY <3>1, <4>1, <4>2, <4>3
    <3> QED BY <3>2, <3>3, <3>4
  <2> HIDE DEF p, q
  <2>5. p = c \o q
    BY <2>2, <2>3, <2>4, SMTT(30)
  <2> QED BY <2>5 DEF p, q
<1> QED BY <1>2, <1>3 DEF j

(* The target's own choices after what was served go on serving.           *)
LEMMA GoesOn ==
  ASSUME NEW o \in Seq(Tokens), NEW c \in Seq(Tokens), NEW w \in Seq(Tokens),
         NEW u \in Seq(Tokens), NEW n \in Nat, OnTarget(o, c, n), n + Len(o) = Len(c),
         Len(u) <= Len(w), \A i \in 1..Len(u) : u[i] = w[i],
         \A j \in 1..Len(w) : w[j] = Top(c \o SubSeq(w, 1, j - 1)),
         u = w \/ Contains(u, Eos)
  PROVE  Served(o \o u, c \o w, n)
<1> DEFINE a == Len(o)
<1> DEFINE b == Len(u)
<1> DEFINE d == Len(c)
<1> DEFINE e == Len(w)
<1> DEFINE p == o \o u
<1> DEFINE q == c \o w
<1>1. /\ p \in Seq(Tokens) /\ Len(p) = a + b /\ a \in Nat /\ b \in Nat
      /\ \A i \in 1..a : p[i] = o[i]
      /\ \A i \in 1..b : p[a + i] = u[i]
  BY JoinParts
<1>2. /\ q \in Seq(Tokens) /\ Len(q) = d + e /\ d \in Nat /\ e \in Nat
      /\ \A i \in 1..d : q[i] = c[i]
      /\ \A i \in 1..e : q[d + i] = w[i]
  BY JoinParts
<1>3. n + a = d /\ b <= e
  OBVIOUS
<1>4. \A i \in 1..a : o[i] = c[n + i] /\ o[i] = Top(SubSeq(c, 1, n + i - 1))
  BY DEF OnTarget
<1>5. /\ \A m \in 0..d : SubSeq(q, 1, m) = SubSeq(c, 1, m)
      /\ \A m \in 0..e : SubSeq(q, 1, d + m) = c \o SubSeq(w, 1, m)
  BY FrontOfJoin
<1>6. \A i \in 1..b : u[i] = w[i] /\ u[i] = Top(c \o SubSeq(w, 1, i - 1))
  <2>1. \A i \in 1..b : i \in 1..e
    <3>1. b \in Nat /\ e \in Nat /\ b <= e
      BY <1>1, <1>2, <1>3
    <3> HIDE DEF b, e
    <3> QED BY <3>1
  <2> QED BY <2>1
<1>7. u = w => a + b = a + e
  OBVIOUS
<1>8. Contains(u, Eos) => Contains(p, Eos)
  BY ContainsJoin
<1>9. u = w \/ Contains(u, Eos)
  OBVIOUS
<1> HIDE DEF a, b, d, e, p, q
<1>10. ASSUME NEW i \in 1..a + b
       PROVE  p[i] = q[n + i] /\ p[i] = Top(SubSeq(q, 1, n + i - 1))
  <2>1. i \in 1..a \/ (i - a \in 1..b /\ a + (i - a) = i)
    BY <1>1
  <2>2. CASE i \in 1..a
    <3>1. n + i \in 1..d /\ n + i - 1 \in 0..d
      BY <1>1, <1>2, <1>3, <2>2
    <3> QED BY <1>1, <1>2, <1>4, <1>5, <2>2, <3>1
  <2>3. CASE i - a \in 1..b /\ a + (i - a) = i
    <3> DEFINE k == i - a
    <3>1. /\ k \in 1..b /\ a + k = i
      BY <2>3
    <3> HIDE DEF k
    <3>2. n + i = d + k /\ n + i - 1 = d + (k - 1) /\ k \in 1..e /\ k - 1 \in 0..e
      BY <1>1, <1>2, <1>3, <3>1
    <3>3. p[i] = u[k]
      BY <1>1, <3>1
    <3>4. q[n + i] = w[k] /\ SubSeq(q, 1, n + i - 1) = c \o SubSeq(w, 1, k - 1)
      BY <1>2, <1>5, <3>2
    <3> QED BY <1>6, <3>1, <3>3, <3>4
  <2> QED BY <2>1, <2>2, <2>3
<1>11. n + (a + b) <= d + e
  BY <1>1, <1>2, <1>3
<1>12. OnTarget(p, q, n)
  BY <1>1, <1>2, <1>10, <1>11 DEF OnTarget
<1>13. n + Len(p) = Len(q) \/ Contains(p, Eos)
  <2>1. u = w => n + (a + b) = d + e
    BY <1>1, <1>2, <1>3, <1>7
  <2> QED BY <1>1, <1>2, <1>8, <1>9, <2>1
<1> QED BY <1>12, <1>13 DEF Served, p, q

(* One more choice of the target.                                          *)
LEMMA OneMore ==
  ASSUME NEW c \in Seq(Tokens), NEW t \in Tokens, t = Top(c)
  PROVE  /\ <<t>> \in Seq(Tokens) /\ Len(<<t>>) = 1
         /\ \A j \in 1..Len(<<t>>) : <<t>>[j] = Top(c \o SubSeq(<<t>>, 1, j - 1))
<1>1. SubSeq(<<t>>, 1, 0) = <<>> /\ c \o <<>> = c
  OBVIOUS
<1>2. <<t>> \in Seq(Tokens) /\ Len(<<t>>) = 1 /\ <<t>>[1] = t
  OBVIOUS
<1>3. \A j \in 1..1 : j = 1 /\ j - 1 = 0
  OBVIOUS
<1>4. \A j \in 1..1 : <<t>>[j] = Top(c \o SubSeq(<<t>>, 1, j - 1))
  BY <1>1, <1>2, <1>3
<1> QED BY <1>2, <1>4

(* A call that returns what it served has served it.                       *)
LEMMA ReturnServes ==
  ASSUME TypeOK, NEW ts \in Seq(Tokens), NEW b \in BOOLEAN, Return(ts, b),
         (valid' /\ turn.greedy /\ b /\ front' # Torn) =>
            Served(turn.out \o ts, ckpt', turn.from) /\ ~Contains(turn.out, Eos)
  PROVE  Targeted'
<1>1. call' = NoCall /\ call'.pc = "idle" /\ call'.out = <<>> /\ call'.path = "none"
  <2>1. NoCall.pc = "idle" /\ NoCall.out = <<>> /\ NoCall.path = "none"
    BY DEF NoCall
  <2> QED BY <2>1 DEF Return
<1>2. turn \in [from : Nat, out : Seq(Tokens), greedy : BOOLEAN, open : BOOLEAN]
  BY DEF TypeOK
<1>3. /\ turn'.greedy = (turn.greedy /\ b) /\ turn'.from = turn.from
      /\ turn'.open = ~Contains(ts, Eos)
      /\ (turn.greedy /\ b) => turn'.out = turn.out \o ts
  BY <1>2 DEF Return
<1>4. ASSUME Greedily' PROVE /\ Served(Given, Held, turn.from)'
                             /\ (turn.open => ~Contains(Given, Eos))'
                             /\ Checked'
  <2>1. valid' /\ turn.greedy /\ b /\ front' # Torn
    BY <1>3, <1>4 DEF Greedily
  <2>2. turn'.out = turn.out \o ts /\ turn.out \o ts \in Seq(Tokens)
    BY <1>2, <1>3, <2>1
  <2>3. Given' = turn.out \o ts
    BY <1>1, <2>2 DEF Given
  <2>4. Held' = ckpt'
    BY <1>1 DEF Held
  <2>5. Served(turn.out \o ts, ckpt', turn.from) /\ ~Contains(turn.out, Eos)
    BY <2>1
  <2>6. Served(Given, Held, turn.from)'
    BY <1>3, <2>3, <2>4, <2>5
  <2>7. (turn.open => ~Contains(Given, Eos))'
    BY <1>2, <1>3, <2>3, <2>5, ContainsJoin
  <2>8. Checked'
    BY <1>1 DEF Checked
  <2> QED BY <2>6, <2>7, <2>8
<1> QED BY <1>1, <1>4 DEF Targeted

(* Nothing is claimed of a session that was dropped.                       *)
LEMMA BrokenServes ==
  ASSUME Broken PROVE Targeted'
<1>1. /\ call' = NoCall /\ call'.pc = "idle" /\ call'.out = <<>> /\ call'.path = "none"
      /\ valid' = FALSE
  <2>1. NoCall.pc = "idle" /\ NoCall.out = <<>> /\ NoCall.path = "none"
    BY DEF NoCall
  <2> QED BY <2>1 DEF Broken
<1> QED BY <1>1 DEF Targeted, Greedily

(* What the target chose after the history the call holds, the call gives. *)
LEMMA GivesMore ==
  ASSUME TypeOK, Targeted, Greedily, turn.open,
         NEW w \in Seq(Tokens), NEW u \in Seq(Tokens),
         Len(u) <= Len(w), \A i \in 1..Len(u) : u[i] = w[i],
         \A j \in 1..Len(w) : w[j] = Top(Held \o SubSeq(w, 1, j - 1)),
         u = w \/ Contains(u, Eos)
  PROVE  /\ Served(turn.out \o (call.out \o u), Held \o w, turn.from)
         /\ ~Contains(turn.out, Eos)
         /\ Contains(call.out \o u, Eos) <=> Contains(u, Eos)
<1>1. /\ turn.out \in Seq(Tokens) /\ turn.from \in Nat /\ call.out \in Seq(Tokens)
      /\ Held \in Seq(Tokens) /\ Given \in Seq(Tokens)
  BY DEF TypeOK, Held, Given
<1>2. Served(Given, Held, turn.from) /\ ~Contains(Given, Eos)
  BY DEF Targeted
<1>3. OnTarget(Given, Held, turn.from) /\ turn.from + Len(Given) = Len(Held)
  BY <1>2 DEF Served
<1> DEFINE h == Held
<1> DEFINE g == Given
<1>4. Served(g \o u, h \o w, turn.from)
  <2>1. h \in Seq(Tokens) /\ g \in Seq(Tokens) /\ OnTarget(g, h, turn.from)
        /\ turn.from + Len(g) = Len(h)
        /\ \A j \in 1..Len(w) : w[j] = Top(h \o SubSeq(w, 1, j - 1))
    BY <1>1, <1>3
  <2> HIDE DEF h, g
  <2> QED BY <1>1, <2>1, GoesOn
<1>5. g \o u = turn.out \o (call.out \o u)
  <2> DEFINE x == turn.out
  <2> DEFINE y == call.out
  <2>1. x \in Seq(Tokens) /\ y \in Seq(Tokens)
    BY <1>1
  <2> HIDE DEF x, y
  <2>2. (x \o y) \o u = x \o (y \o u)
    BY <2>1, ConcatAssociative, SMTT(30)
  <2> QED BY <2>2 DEF Given, x, y
<1>6. ~Contains(turn.out, Eos) /\ ~Contains(call.out, Eos)
  BY <1>1, <1>2, ContainsJoin DEF Given
<1>7. Contains(call.out \o u, Eos) <=> Contains(u, Eos)
  BY <1>1, <1>6, ContainsJoin
<1> QED BY <1>4, <1>5, <1>6, <1>7

TInv == Inv /\ Targeted
-----------------------------------------------------------------------------
LEMMA InitTargeted == Init => Targeted
<1>1. NoCall.pc = "idle" /\ NoCall.out = <<>> /\ NoCall.path = "none"
  BY DEF NoCall
<1> QED BY <1>1 DEF Init, Targeted, Greedily

(* A synchronized session has served nothing yet.                          *)
LEMMA SyncTargeted ==
  ASSUME TInv, NEW p \in NextPrompts, Sync(p)
  PROVE  Targeted'
<1>1. /\ call.pc = "idle" /\ call' = call /\ call.out = <<>> /\ call.path # "sample"
      /\ ckpt \in Seq(Tokens)
  BY DEF Sync, TInv, Inv, TypeOK, Targeted
<1>2. p \in Seq(Tokens)
  BY <1>1, PromptsAreHistories DEF NextPrompts
<1>3. ASSUME NEW n \in 0..Len(p), NEW ok \in BOOLEAN, Synced(p, n, ok)
      PROVE  Targeted'
  <2>1. /\ turn' = [from |-> n, out |-> <<>>, greedy |-> TRUE, open |-> ok]
        /\ ckpt' = SubSeq(p, 1, n)
    BY <1>3 DEF Synced
  <2>2. Len(ckpt') = n /\ n \in Nat
    BY <1>2, <2>1, PartType
  <2>3. Given' = <<>> /\ Len(<<>>) = 0
    <3>1. turn'.out = <<>> /\ call'.out = <<>> /\ <<>> \o <<>> = <<>>
      BY <1>1, <2>1
    <3> QED BY <3>1 DEF Given
  <2>4. Held' = ckpt'
    BY <1>1 DEF Held
  <2>5. Served(<<>>, ckpt', n)
    BY <2>2, <2>3 DEF Served, OnTarget
  <2>6. Served(Given, Held, turn.from)'
    <3>1. turn'.from = n
      BY <2>1
    <3> QED BY <2>3, <2>4, <2>5, <3>1
  <2>7. ~Contains(Given, Eos)'
    BY <2>3 DEF Contains
  <2> QED BY <1>1, <2>6, <2>7 DEF Targeted, Checked
<1>4. \A n \in (IF Continues(p) THEN Len(ckpt) ELSE 0)..Len(p) : n \in 0..Len(p)
  <2> DEFINE a == Len(ckpt)
  <2> DEFINE b == Len(p)
  <2>1. a \in Nat /\ b \in Nat
    BY <1>1, <1>2
  <2> HIDE DEF a, b
  <2>2. \A n \in (IF Continues(p) THEN a ELSE 0)..b : n \in 0..b
    BY <2>1
  <2> QED BY <2>2 DEF a, b
<1>5. CASE Synced(p, Len(p), TRUE)
  <2>1. Len(p) \in 0..Len(p)
    BY <1>2
  <2> QED BY <1>3, <1>5, <2>1
<1>6. ASSUME NEW n \in (IF Continues(p) THEN Len(ckpt) ELSE 0)..Len(p) - 1,
             Synced(p, n, FALSE)
      PROVE  Targeted'
  <2>1. n \in 0..Len(p)
    BY <1>1, <1>2
  <2> QED BY <1>3, <1>6, <2>1
<1>7. CASE valid' = FALSE
  BY <1>1, <1>7 DEF Targeted, Greedily
<1> QED BY <1>5, <1>6, <1>7 DEF Sync

LEMMA InvalidateTargeted ==
  ASSUME TInv, Invalidate
  PROVE  Targeted'
BY DEF Invalidate, TInv, Targeted, Greedily

(* The graph off the verifier's window, for a caller that counts on it.    *)
LEMMA Stands ==
  ASSUME TInv, valid, front # Torn, call.pc # "settle"
  PROVE  logits = ckpt /\ front = ckpt /\ Held = ckpt /\ ckpt \in Seq(Tokens)
BY DEF TInv, Inv, CallOK, Standing, Held, TypeOK

(* A forward never mends a torn frontier.                                  *)
LEMMA StaysTorn ==
  ASSUME TypeOK, NEW ts \in Seq(Tokens), Decode(ts), front' # Torn
  PROVE  front # Torn
<1>1. ckpt \in Seq(Tokens)
  BY DEF TypeOK
<1> QED BY <1>1, AfterStanding DEF Decode

(* A call that evaluates tokens the target chose and returns them, up to   *)
(* an Eos, has served them.                                                *)
LEMMA DecodeServes ==
  ASSUME TInv, valid, turn.open, call.pc # "settle",
         NEW w \in Seq(Tokens), NEW u \in Seq(Tokens), NEW b \in BOOLEAN,
         Decode(w), Return(call.out \o u, b),
         call.path # "sample",
         Len(u) <= Len(w), \A i \in 1..Len(u) : u[i] = w[i],
         u = w \/ Contains(u, Eos),
         (Greedily /\ b) => \A j \in 1..Len(w) : w[j] = Top(ckpt \o SubSeq(w, 1, j - 1))
  PROVE  Targeted'
<1>1. call.out \o u \in Seq(Tokens)
  BY DEF TInv, Inv, TypeOK
<1>2. ASSUME turn.greedy, b, front' # Torn
      PROVE  Served(turn.out \o (call.out \o u), ckpt', turn.from) /\ ~Contains(turn.out, Eos)
  <2>1. front # Torn
    BY <1>2, StaysTorn DEF TInv, Inv
  <2>2. Greedily
    BY <1>2, <2>1 DEF Greedily
  <2>3. Held = ckpt /\ ckpt' = Held \o w
    BY DEF Held, Decode
  <2>4. \A j \in 1..Len(w) : w[j] = Top(Held \o SubSeq(w, 1, j - 1))
    BY <1>2, <2>2, <2>3
  <2> QED BY <2>2, <2>3, <2>4, GivesMore DEF TInv, Inv
<1>3. TypeOK
  BY DEF TInv, Inv
<1> DEFINE ts == call.out \o u
<1>4. /\ ts \in Seq(Tokens) /\ Return(ts, b)
      /\ (valid' /\ turn.greedy /\ b /\ front' # Torn) =>
           Served(turn.out \o ts, ckpt', turn.from) /\ ~Contains(turn.out, Eos)
  BY <1>1, <1>2
<1> HIDE DEF ts
<1> QED BY <1>3, <1>4, ReturnServes

LEMMA DecodeFailsTargeted ==
  ASSUME DecodeFails PROVE Targeted'
BY BrokenServes DEF DecodeFails

LEMMA PlainTargeted ==
  ASSUME TInv, NEW t \in Tokens, NEW g \in BOOLEAN, Plain(t, g)
  PROVE  Targeted'
<1>1. /\ call.pc = "idle" /\ turn.open /\ valid /\ <<t>> \in Seq(Tokens)
      /\ (g => t = Top(logits)) /\ call.out = <<>> /\ call.path # "sample"
  BY AsksFacts DEF Plain, TInv, Targeted, Asks
<1>2. CASE Decode(<<t>>) /\ Return(<<t>>, g)
  <2>1. call.out \o <<t>> = <<t>>
    BY <1>1
  <2>2. ASSUME Greedily, g
        PROVE  \A j \in 1..Len(<<t>>) : <<t>>[j] = Top(ckpt \o SubSeq(<<t>>, 1, j - 1))
    <3>1. t = Top(ckpt) /\ ckpt \in Seq(Tokens)
      BY <1>1, <2>2, Stands DEF Greedily
    <3> QED BY <3>1, OneMore
  <2> DEFINE w == <<t>>
  <2>3. /\ w \in Seq(Tokens) /\ Decode(w) /\ Return(call.out \o w, g)
        /\ Len(w) <= Len(w) /\ \A i \in 1..Len(w) : w[i] = w[i]
        /\ (Greedily /\ g) => \A j \in 1..Len(w) : w[j] = Top(ckpt \o SubSeq(w, 1, j - 1))
    BY <1>1, <1>2, <2>1, <2>2
  <2> HIDE DEF w
  <2> QED BY <1>1, <2>3, DecodeServes
<1>3. CASE DecodeFails
  BY <1>3, DecodeFailsTargeted
<1> QED BY <1>2, <1>3 DEF Plain

LEMMA CanonicalTargeted ==
  ASSUME TInv, NEW t \in Tokens, Canonical(t)
  PROVE  Targeted'
<1>1. /\ call.pc = "idle" /\ turn.open /\ valid /\ <<t>> \in Seq(Tokens)
      /\ t = Top(logits) /\ t # Eos /\ call.out = <<>> /\ call.path # "sample"
  BY AsksFacts DEF Canonical, TInv, Targeted, Asks
<1>2. CASE /\ Decode(<<t>>)
           /\ call' = [NoCall EXCEPT !.pc = "draft", !.out = <<t>>]
           /\ UNCHANGED <<valid, turn, faults>>
  <2>1. /\ call'.pc = "draft" /\ call'.out = <<t>> /\ turn' = turn /\ valid' = valid
        /\ call'.path = "none"
    BY <1>2 DEF NoCall
  <2>2. ASSUME Greedily'
        PROVE  /\ Served(Given, Held, turn.from)'
               /\ ~Contains(Given, Eos)'
               /\ Checked'
    <3>1. turn.greedy /\ front # Torn
      BY <1>2, <2>1, <2>2, <1>1, StaysTorn DEF Greedily, TInv, Inv
    <3>2. Greedily
      BY <1>1, <3>1 DEF Greedily
    <3>3. t = Top(ckpt) /\ Held = ckpt /\ ckpt \in Seq(Tokens)
      BY <1>1, <3>1, Stands
    <3> DEFINE w == <<t>>
    <3>4. /\ w \in Seq(Tokens) /\ Len(w) <= Len(w) /\ \A i \in 1..Len(w) : w[i] = w[i]
          /\ \A j \in 1..Len(w) : w[j] = Top(Held \o SubSeq(w, 1, j - 1))
      BY <1>1, <3>3, OneMore
    <3>5. ~Contains(w, Eos)
      BY <1>1 DEF Contains
    <3>6. call.out \o w = w /\ ckpt' = Held \o w /\ call'.out = w
      BY <1>1, <1>2, <2>1, <3>3 DEF Decode
    <3> HIDE DEF w
    <3>7. /\ Served(turn.out \o (call.out \o w), Held \o w, turn.from)
          /\ ~Contains(turn.out, Eos)
      BY <1>1, <3>2, <3>4, GivesMore DEF TInv, Inv
    <3>8. Given' = turn.out \o w /\ Held' = Held \o w
      BY <2>1, <3>6 DEF Given, Held
    <3>9. Served(Given, Held, turn.from)'
      BY <2>1, <3>6, <3>7, <3>8
    <3>10. ~Contains(Given, Eos)'
      <4>1. turn.out \in Seq(Tokens)
        BY DEF TInv, Inv, TypeOK
      <4> QED BY <4>1, <3>4, <3>5, <3>7, <3>8, ContainsJoin
    <3>11. Checked'
      BY <2>1 DEF Checked
    <3> QED BY <3>9, <3>10, <3>11
  <2> QED BY <1>1, <2>1, <2>2 DEF Targeted
<1>3. CASE DecodeFails
  BY <1>3, DecodeFailsTargeted
<1> QED BY <1>2, <1>3 DEF Canonical

(* A step that only moves the call on, holding and giving what it did.     *)
LEMMA MovesOn ==
  ASSUME TInv, call.pc # "idle" \/ turn.open, call'.pc # "idle",
         valid' = valid, turn' = turn, call'.out = call.out,
         call'.path = "sample" => call'.pc \in {"verify", "settle"},
         Greedily' => Greedily /\ Held' = Held /\ Checked'
  PROVE  Targeted'
<1>1. turn'.open
  BY DEF TInv, Targeted
<1>2. Given' = Given
  BY DEF Given
<1>3. ASSUME Greedily'
      PROVE  /\ Served(Given, Held, turn.from)'
             /\ (turn.open => ~Contains(Given, Eos))'
             /\ Checked'
  BY <1>2, <1>3 DEF TInv, Targeted
<1> QED BY <1>1, <1>3 DEF Targeted

LEMMA BatchTargeted ==
  ASSUME TInv, NEW t \in Tokens, NEW d, NEW path \in {"combined", "sample"},
         Batch(t, d, path)
  PROVE  Targeted'
<1>1. /\ call.pc = "idle" /\ turn.open /\ valid /\ <<t>> \in Seq(Tokens)
      /\ (path # "sample" => t = Top(logits)) /\ call.out = <<>> /\ call.path # "sample"
  BY AsksFacts DEF Batch, TInv, Targeted, Asks
<1>2. /\ call' = [NoCall EXCEPT !.pc = "verify", !.path = path,
                                !.base = ckpt, !.window = <<t>> \o d]
      /\ d \in Guesses(conf.depth)
      /\ UNCHANGED <<ckpt, front, logits, valid, turn>>
  BY DEF Batch, graph
<1>3. call'.pc = "verify" /\ call'.path = path /\ call'.window = <<t>> \o d /\ call'.out = <<>>
  BY <1>2 DEF NoCall
<1>4. ASSUME Greedily' PROVE Greedily /\ Held' = Held /\ Checked'
  <2>1. path # "sample" /\ front # Torn /\ valid /\ turn.greedy
    BY <1>2, <1>3, <1>4 DEF Greedily
  <2>2. t = Top(ckpt) /\ Held = ckpt
    BY <1>1, <2>1, Stands
  <2>3. Held' = ckpt
    BY <1>2, <1>3 DEF Held
  <2>4. (<<t>> \o d)[1] = t
    <3>1. d \in Seq(Tokens)
      <4>1. conf.depth \in Nat
        BY ConfType DEF TInv, Inv
      <4> QED BY <1>2, <4>1, GuessesType
    <3>2. \A i \in 1..Len(<<t>>) : (<<t>> \o d)[i] = <<t>>[i]
      BY <1>1, <3>1, JoinParts
    <3>3. Len(<<t>>) = 1 /\ <<t>>[1] = t /\ 1 \in 1..1
      OBVIOUS
    <3> QED BY <3>2, <3>3
  <2>5. Checked'
    BY <1>3, <2>2, <2>3, <2>4 DEF Checked
  <2> QED BY <1>1, <2>1, <2>2, <2>3, <2>5 DEF Greedily
<1> QED BY <1>1, <1>2, <1>3, <1>4, MovesOn

LEMMA SampledTargeted ==
  ASSUME TInv, NEW t \in Tokens, NEW d, Combined(t, d) \/ Sample(t, d)
  PROVE  Targeted'
BY BatchTargeted DEF Combined, Sample

LEMMA DraftTargeted ==
  ASSUME TInv, NEW d, Draft(d)
  PROVE  Targeted'
<1>1. /\ call.pc = "draft" /\ MayDraft(d)
      /\ UNCHANGED <<conf, ckpt, front, logits, valid, seed, turn>>
  BY DEF Draft, graph
<1>2. /\ call'.pc \in {"verify", "seq"} /\ call'.out = call.out /\ call'.window = d
      /\ call'.path \in {"dspark", "exact", "suffix"}
  <2>1. call \in [pc : {"idle", "draft", "verify", "settle", "replay", "seq"},
                  path : Paths, out : Seq(Tokens), window : Seq(Tokens),
                  base : Seq(Tokens), snap : Contents, kept : [1..2 -> Contents]]
    BY DEF TInv, Inv, TypeOK
  <2> DEFINE path == IF conf.kind = "dspark" THEN "dspark"
                     ELSE IF conf.strict /\ Len(d) = 2 THEN "exact" ELSE "suffix"
  <2>2. path \in {"dspark", "exact", "suffix"}
    OBVIOUS
  <2> DEFINE verify == [call EXCEPT !.pc = "verify", !.path = path, !.base = ckpt, !.window = d]
  <2>3. call' = verify \/ call' = [verify EXCEPT !.pc = "seq"]
    BY DEF Draft
  <2> HIDE DEF path
  <2> QED BY <2>1, <2>2, <2>3
<1>3. call.path # "sample"
  BY <1>1 DEF TInv, Targeted
<1>4. ASSUME Greedily' PROVE Greedily /\ Held' = Held /\ Checked'
  <2>1. Greedily /\ valid /\ front # Torn
    BY <1>1, <1>3, <1>4 DEF Greedily
  <2>2. logits = ckpt /\ Held = ckpt
    BY <1>1, <2>1, Stands
  <2>3. Held' = ckpt
    BY <1>1, <1>2 DEF Held
  <2>4. d[1] = Top(ckpt)
    BY <1>1, <2>2 DEF MayDraft
  <2>5. Checked'
    BY <1>2, <2>3, <2>4 DEF Checked
  <2> QED BY <2>1, <2>2, <2>3, <2>5
<1> QED BY <1>1, <1>2, <1>4, MovesOn

LEMMA NoDraftTargeted ==
  ASSUME TInv, NoDraft
  PROVE  Targeted'
<1>1. /\ call.pc = "draft" /\ Return(call.out, TRUE)
      /\ UNCHANGED <<conf, ckpt, front, logits, valid, seed, faults>>
  BY DEF NoDraft, graph
<1>2. TypeOK /\ call.out \in Seq(Tokens) /\ turn.out \in Seq(Tokens) /\ turn.open
      /\ call.path # "sample"
  BY <1>1 DEF TInv, Inv, TypeOK, Targeted
<1>3. ASSUME valid', turn.greedy, front' # Torn
      PROVE  Served(turn.out \o call.out, ckpt', turn.from) /\ ~Contains(turn.out, Eos)
  <2>1. Greedily
    BY <1>1, <1>2, <1>3 DEF Greedily
  <2>2. Served(Given, Held, turn.from) /\ ~Contains(Given, Eos)
    BY <1>2, <2>1 DEF TInv, Targeted
  <2>3. Held = ckpt' /\ Given = turn.out \o call.out
    BY <1>1 DEF Held, Given
  <2> QED BY <1>2, <2>2, <2>3, ContainsJoin
<1> QED BY <1>1, <1>2, <1>3, ReturnServes

LEMMA SkipSecondTargeted ==
  ASSUME TInv, NEW d, SkipSecond(d)
  PROVE  Targeted'
<1>1. /\ call.pc = "draft" /\ MayDraft(d) /\ Len(d) = 2
  BY DEF SkipSecond
<1>2. d \in Seq(Tokens) /\ valid /\ turn.open /\ call.path # "sample"
      /\ call.out \in Seq(Tokens)
  BY <1>1, DraftFacts DEF TInv, Inv, TypeOK, Targeted
<1>3. d[1] \in Tokens /\ <<d[1]>> \in Seq(Tokens)
  BY <1>1, <1>2
<1>4. CASE Decode(<<d[1]>>) /\ Return(Append(call.out, d[1]), TRUE)
  <2> DEFINE w == <<d[1]>>
  <2>1. ASSUME Greedily
        PROVE  \A j \in 1..Len(w) : w[j] = Top(ckpt \o SubSeq(w, 1, j - 1))
    <3>1. logits = ckpt /\ ckpt \in Seq(Tokens)
      BY <1>1, <2>1, Stands DEF Greedily
    <3>2. d[1] = Top(ckpt)
      BY <1>1, <3>1 DEF MayDraft
    <3> QED BY <1>3, <3>1, <3>2, OneMore
  <2>2. Append(call.out, d[1]) = call.out \o w
    BY <1>2, <1>3, AppendIsConcat
  <2>3. /\ w \in Seq(Tokens) /\ Decode(w) /\ Return(call.out \o w, TRUE)
        /\ Len(w) <= Len(w) /\ \A i \in 1..Len(w) : w[i] = w[i]
    <3>1. w \in Seq(Tokens)
      BY <1>3
    <3> HIDE DEF w
    <3>2. Len(w) <= Len(w) /\ \A i \in 1..Len(w) : w[i] = w[i]
      BY <3>1
    <3> QED BY <1>4, <2>2, <3>1, <3>2 DEF w
  <2> HIDE DEF w
  <2> QED BY <1>1, <1>2, <2>1, <2>3, DecodeServes
<1>5. CASE DecodeFails
  BY <1>5, DecodeFailsTargeted
<1> QED BY <1>4, <1>5 DEF SkipSecond

(* Falling back to a snapshot drops what the verifier did.                 *)
LEMMA FallbackTargeted ==
  ASSUME TInv, call.pc \in {"verify", "settle", "replay"}, call.path # "sample",
         NEW f, Fallback(f), f # Torn => front # Torn, ckpt' = Held
  PROVE  Targeted'
<1>1. /\ call' = [call EXCEPT !.pc = "seq"] /\ valid' = valid /\ turn' = turn
      /\ front' \in {f, Torn}
  BY DEF Fallback
<1>2. call'.pc = "seq" /\ call'.out = call.out /\ call'.path = call.path
  BY <1>1 DEF TInv, Inv, TypeOK
<1>3. Held' = Held
  BY <1>2 DEF Held
<1>4. Greedily' => Greedily /\ Checked'
  BY <1>1, <1>2 DEF Greedily, Checked
<1> QED BY <1>1, <1>2, <1>3, <1>4, MovesOn

LEMMA VerifyTargeted ==
  ASSUME TInv, Verify
  PROVE  Targeted'
<1>1. /\ call.pc = "verify" /\ call.base = ckpt /\ Held = ckpt
  BY DEF Verify, TInv, Inv, CallOK, Held
<1>2. CASE /\ front' = After(front, ckpt, call.window)
           /\ call' = [call EXCEPT !.pc = "settle", !.snap = front, !.kept = Captures]
           /\ UNCHANGED <<valid, logits, seed, turn, faults>>
  <2>1. /\ call'.pc = "settle" /\ call'.out = call.out /\ call'.path = call.path
        /\ call'.base = call.base /\ call'.window = call.window
    BY <1>2 DEF TInv, Inv, TypeOK
  <2>2. Held' = Held
    BY <1>1, <2>1 DEF Held
  <2>3. ASSUME Greedily' PROVE Greedily /\ Checked'
    <3>1. front # Torn
      <4>1. ckpt \in Seq(Tokens) /\ call.window \in Seq(Tokens)
        BY DEF TInv, Inv, TypeOK
      <4>2. front' # Torn
        BY <2>3 DEF Greedily
      <4>3. front = Torn => front' = Torn
        BY <1>2, <4>1, AfterStanding
      <4> QED BY <4>2, <4>3
    <3>2. Greedily
      BY <1>2, <2>1, <2>3, <3>1 DEF Greedily
    <3>3. call.window[1] = Top(Held)
      BY <1>1, <3>2 DEF TInv, Targeted, Checked
    <3>4. Checked'
      BY <2>1, <2>2, <3>3 DEF Checked
    <3> QED BY <3>2, <3>4
  <2> QED BY <1>1, <1>2, <2>1, <2>2, <2>3, MovesOn
<1>3. CASE Snapshot /\ Fallback(front) /\ UNCHANGED ckpt
  BY <1>1, <1>3, FallbackTargeted DEF Snapshot
<1>4. CASE DecodeFails
  BY <1>4, DecodeFailsTargeted
<1> QED BY <1>2, <1>3, <1>4 DEF Verify

(* The front part of a front part.                                         *)
LEMMA PartOfPart ==
  ASSUME NEW w \in Seq(Tokens), NEW k \in 0..Len(w), NEW j \in 1..k
  PROVE  /\ SubSeq(w, 1, k)[j] = w[j]
         /\ SubSeq(SubSeq(w, 1, k), 1, j - 1) = SubSeq(w, 1, j - 1)
         /\ j \in 1..Len(w)
<1> DEFINE p == SubSeq(w, 1, k)
<1> DEFINE n == Len(w)
<1>0. n \in Nat /\ k \in 0..n
  OBVIOUS
<1>1. k \in Nat /\ j \in 1..n /\ j - 1 \in 0..n /\ j - 1 \in 0..k
      /\ (\A i \in 1..j - 1 : i \in 1..k)
  <2> HIDE DEF n
  <2> QED BY <1>0
<1>2. p \in Seq(Tokens) /\ Len(p) = k
  BY PartType
<1>3. \A i \in 1..k : p[i] = w[i]
  OBVIOUS
<1> HIDE DEF p
<1>4. SubSeq(p, 1, j - 1) \in Seq(Tokens) /\ Len(SubSeq(p, 1, j - 1)) = j - 1
  BY <1>1, <1>2, PartType
<1>5. SubSeq(w, 1, j - 1) \in Seq(Tokens) /\ Len(SubSeq(w, 1, j - 1)) = j - 1
  BY <1>1, PartType
<1>6. \A i \in 1..j - 1 : SubSeq(p, 1, j - 1)[i] = p[i] /\ SubSeq(w, 1, j - 1)[i] = w[i]
  BY <1>1, <1>2
<1>7. \A i \in 1..j - 1 : SubSeq(p, 1, j - 1)[i] = SubSeq(w, 1, j - 1)[i]
  BY <1>1, <1>3, <1>6
<1>8. SubSeq(p, 1, j - 1) = SubSeq(w, 1, j - 1)
  BY <1>4, <1>5, <1>7
<1> QED BY <1>1, <1>3, <1>8 DEF p

(* Every row a call commits is the target's choice after the one before.   *)
LEMMA CommittedIsChosen ==
  ASSUME TInv, call.pc = "settle", Greedily, NEW k, k = Committed
  PROVE  /\ k \in 1..Len(call.window) /\ FirstRows(k) \in Seq(Tokens)
         /\ Len(FirstRows(k)) = k
         /\ \A j \in 1..k : /\ FirstRows(k)[j] = Top(call.base \o SubSeq(FirstRows(k), 1, j - 1))
                            /\ SubSeq(FirstRows(k), 1, j - 1) = FirstRows(j - 1)
<1> DEFINE w == call.window
<1> DEFINE b == call.base
<1>1. w \in Seq(Tokens) /\ b \in Seq(Tokens) /\ Len(w) \in 1..5 /\ Verified
  BY DEF TInv, Inv, TypeOK, CallOK, WindowOK
<1>2. k \in 1..Len(w) /\ Agrees(k)
  BY <1>1, AgreedInWindow
<1>3. w[1] = Top(b)
  BY DEF TInv, Targeted, Checked, Held
<1>4. call.snap # Torn
  <2>1. front = After(call.snap, b, w) /\ front # Torn
    BY <1>1 DEF Verified, Greedily
  <2> QED BY <1>1, <2>1, AfterStanding
<1>5. k \in 0..Len(w)
  <2> DEFINE n == Len(w)
  <2>1. k \in 1..n /\ n \in Nat
    BY <1>1, <1>2
  <2> HIDE DEF n
  <2>2. k \in 0..n
    BY <2>1
  <2> QED BY <2>2 DEF n
<1>6. FirstRows(k) \in Seq(Tokens) /\ Len(FirstRows(k)) = k
  BY <1>1, <1>5, PartType DEF FirstRows
<1>7. ASSUME NEW j \in 1..k
      PROVE  /\ FirstRows(k)[j] = Top(b \o SubSeq(FirstRows(k), 1, j - 1))
             /\ SubSeq(FirstRows(k), 1, j - 1) = FirstRows(j - 1)
  <2>1. /\ FirstRows(k)[j] = w[j] /\ SubSeq(FirstRows(k), 1, j - 1) = FirstRows(j - 1)
        /\ j \in 1..Len(w)
    BY <1>1, <1>5, PartOfPart DEF FirstRows
  <2>2. w[j] = Top(b \o FirstRows(j - 1))
    <3>1. CASE j = 1
      <4>1. FirstRows(0) = <<>> /\ b \o <<>> = b /\ j - 1 = 0
        BY <1>1, <3>1 DEF FirstRows
      <4> QED BY <1>3, <3>1, <4>1
    <3>2. CASE j # 1
      <4> DEFINE n == Len(w)
      <4>1. n \in Nat /\ k \in 1..n /\ j \in 1..k
        BY <1>1, <1>2
      <4>2. j \in 2..k /\ j - 1 \in 1..n
        <5> HIDE DEF n
        <5> QED BY <4>1, <3>2
      <4>3. w[j] = Top(Row(j - 1))
        BY <1>2, <4>2 DEF Agrees
      <4>4. Row(j - 1) = b \o FirstRows(j - 1)
        BY <1>4, <4>2, SettleFacts DEF TInv
      <4> QED BY <4>3, <4>4
    <3> QED BY <3>1, <3>2
  <2> QED BY <2>1, <2>2
<1> QED BY <1>2, <1>6, <1>7

LEMMA SettleTargeted ==
  ASSUME TInv, Settle
  PROVE  Targeted'
<1> DEFINE k == Committed
<1>1. /\ call.pc = "settle" /\ call.path # "sample" /\ turn.open /\ valid
      /\ Held = call.base /\ call.base \in Seq(Tokens) /\ call.out \in Seq(Tokens)
      /\ Verified
  BY DEF Settle, TInv, Inv, TypeOK, CallOK, Targeted, Held
<1>2. k \in 1..Len(call.window)
  BY <1>1, AgreedInWindow DEF TInv, Inv, TypeOK, CallOK, WindowOK
<1>3. Greedily =>
        /\ FirstRows(k) \in Seq(Tokens) /\ Len(FirstRows(k)) = k
        /\ \A j \in 1..k : /\ FirstRows(k)[j] = Top(Held \o SubSeq(FirstRows(k), 1, j - 1))
                           /\ SubSeq(FirstRows(k), 1, j - 1) = FirstRows(j - 1)
  BY <1>1, CommittedIsChosen
<1>4. FirstRows(k) \in Seq(Tokens) /\ Len(FirstRows(k)) = k
  BY <1>1, <1>2, SettleFacts DEF TInv
<1> HIDE DEF k
<1>5. CASE /\ call.path # "suffix" \/ ~Snapshot \/ k = Len(call.window)
           /\ ckpt' = call.base \o FirstRows(k)
           /\ front' = Rollback(k)
           /\ valid' = TRUE
           /\ Return(call.out \o UpToEos(FirstRows(k)), TRUE)
  <2> DEFINE w == FirstRows(k)
  <2> DEFINE u == UpToEos(w)
  <2>1. /\ u \in Seq(Tokens) /\ Len(u) <= Len(w) /\ \A i \in 1..Len(u) : u[i] = w[i]
        /\ u = w \/ Contains(u, Eos)
    BY <1>4, UpToEosFacts
  <2>2. front' = Row(k)
    BY <1>1, <1>2, <1>5, KeptIsCaptured DEF TInv
  <2> DEFINE ts == call.out \o u
  <2>3. ASSUME turn.greedy, front' # Torn
        PROVE  Served(turn.out \o ts, ckpt', turn.from) /\ ~Contains(turn.out, Eos)
    <3>1. front # Torn
      BY <2>2, <2>3 DEF Row
    <3>2. Greedily
      BY <1>1, <2>3, <3>1 DEF Greedily
    <3>3. \A j \in 1..Len(w) : w[j] = Top(Held \o SubSeq(w, 1, j - 1))
      BY <1>3, <1>4, <3>2
    <3>4. ckpt' = Held \o w
      BY <1>1, <1>5
    <3> HIDE DEF w, u
    <3> QED BY <1>1, <1>4, <2>1, <3>2, <3>3, <3>4, GivesMore DEF TInv, Inv, w
  <2>4. ts \in Seq(Tokens) /\ TypeOK
    BY <1>1, <2>1 DEF TInv, Inv
  <2>5. Return(ts, TRUE)
    BY <1>5
  <2> HIDE DEF w, u, ts
  <2> QED BY <2>3, <2>4, <2>5, ReturnServes
<1>6. CASE Replays(k)
  <2>1. /\ ckpt' = call.base /\ front' = call.snap
        /\ call' = [call EXCEPT !.pc = "replay", !.window = FirstRows(k)]
        /\ UNCHANGED <<valid, logits, seed, turn>>
    BY <1>6 DEF Replays
  <2>2. /\ call'.pc = "replay" /\ call'.window = FirstRows(k) /\ call'.out = call.out
        /\ call'.path = call.path
    BY <2>1 DEF TInv, Inv, TypeOK
  <2>3. Held' = Held
    BY <1>1, <2>1, <2>2 DEF Held
  <2>4. ASSUME Greedily' PROVE Greedily /\ Checked'
    <3>1. front # Torn
      <4>1. call.snap # Torn /\ front = After(call.snap, call.base, call.window)
        BY <1>1, <2>1, <2>4 DEF Verified, Greedily
      <4>2. call.snap = call.base /\ call.window \in Seq(Tokens)
        BY <1>1, <4>1 DEF Verified, TInv, Inv, TypeOK
      <4>3. front = call.base \o call.window
        BY <1>1, <4>1, <4>2, AfterStanding
      <4> QED BY <1>1, <4>2, <4>3, Joined, NoHistory
    <3>2. Greedily
      BY <1>1, <2>1, <2>4, <3>1 DEF Greedily
    <3>3. \A j \in 1..k : FirstRows(k)[j] = Top(Held \o SubSeq(FirstRows(k), 1, j - 1))
      BY <1>3, <3>2
    <3>4. \A j \in 1..k : FirstRows(j - 1)' = SubSeq(FirstRows(k), 1, j - 1)
      BY <2>2 DEF FirstRows
    <3>5. Checked'
      BY <1>4, <2>2, <2>3, <3>3, <3>4 DEF Checked
    <3> QED BY <3>2, <3>5
  <2> QED BY <1>1, <2>1, <2>2, <2>3, <2>4, MovesOn
<1>7. CASE SettleFails(k)
  <2>1. CASE Unsettled(k) \/ Unsettled(0)
    BY <2>1, BrokenServes DEF Unsettled
  <2>2. CASE ckpt' = call.base /\ Fallback(call.snap)
    <3>1. call.snap # Torn => front # Torn
      <4>1. SUFFICES ASSUME call.snap # Torn PROVE front # Torn
        OBVIOUS
      <4>2. /\ call.snap = call.base /\ call.window \in Seq(Tokens)
            /\ front = After(call.snap, call.base, call.window)
        BY <1>1, <4>1 DEF Verified, TInv, Inv, TypeOK
      <4>3. front = call.base \o call.window
        BY <1>1, <4>2, AfterStanding
      <4> QED BY <1>1, <4>2, <4>3, Joined, NoHistory
    <3> QED BY <1>1, <2>2, <3>1, FallbackTargeted
  <2> QED BY <1>7, <2>1, <2>2 DEF SettleFails
<1> QED BY <1>5, <1>6, <1>7 DEF Settle, k

LEMMA SettleSampleTargeted ==
  ASSUME TInv, NEW k \in 1..Len(call.window), NEW r \in Tokens, SettleSample(k, r)
  PROVE  Targeted'
<1>1. /\ call.pc = "settle" /\ call.path = "sample" /\ TypeOK
  BY DEF SettleSample, TInv, Inv
<1>2. FirstRows(k) \in Seq(Tokens) /\ FirstRows(k) # <<>>
  <2>1. FirstRows(k) \in Seq(Tokens) /\ Len(FirstRows(k)) = k
    BY <1>1, SettleFacts DEF TInv
  <2>2. k # 0
    <3> DEFINE n == Len(call.window)
    <3>1. k \in 1..n
      OBVIOUS
    <3> HIDE DEF n
    <3> QED BY <3>1
  <2> QED BY <2>1, <2>2
<1>3. Tail(FirstRows(k)) \in Seq(Tokens) /\ Append(Tail(FirstRows(k)), r) \in Seq(Tokens)
  BY <1>2
<1>4. CASE Return(Tail(FirstRows(k)), FALSE) \/ Return(Append(Tail(FirstRows(k)), r), FALSE)
  <2>1. ASSUME NEW ts \in Seq(Tokens), Return(ts, FALSE) PROVE Targeted'
    BY <1>1, <2>1, ReturnServes
  <2> QED BY <1>3, <1>4, <2>1
<1>5. CASE Unsettled(k)
  BY <1>5, BrokenServes DEF Unsettled
<1> QED BY <1>4, <1>5 DEF SettleSample

LEMMA ReplayTargeted ==
  ASSUME TInv, Replay
  PROVE  Targeted'
<1>1. /\ call.pc = "replay" /\ turn.open /\ valid /\ call.path # "sample" /\ Held = ckpt
      /\ call.window \in Seq(Tokens)
  BY DEF Replay, TInv, Inv, CallOK, TypeOK, Targeted, Held
<1>2. CASE Decode(call.window) /\ Return(call.out \o UpToEos(call.window), TRUE)
  <2> DEFINE w == call.window
  <2> DEFINE u == UpToEos(w)
  <2>1. /\ u \in Seq(Tokens) /\ Len(u) <= Len(w) /\ \A i \in 1..Len(u) : u[i] = w[i]
        /\ u = w \/ Contains(u, Eos)
    BY <1>1, UpToEosFacts
  <2>2. Greedily => \A j \in 1..Len(w) : w[j] = Top(ckpt \o SubSeq(w, 1, j - 1))
    BY <1>1 DEF TInv, Targeted, Checked, FirstRows
  <2>3. w \in Seq(Tokens) /\ Decode(w) /\ Return(call.out \o u, TRUE)
    BY <1>1, <1>2
  <2> HIDE DEF w, u
  <2> QED BY <1>1, <2>1, <2>2, <2>3, DecodeServes
<1>3. CASE Fallback(front) /\ UNCHANGED ckpt
  BY <1>1, <1>3, FallbackTargeted
<1> QED BY <1>2, <1>3 DEF Replay

LEMMA SequentialTargeted ==
  ASSUME TInv, Sequential
  PROVE  Targeted'
<1>1. /\ call.pc = "seq" /\ turn.open /\ valid /\ call.path # "sample"
      /\ call.window \in Seq(Tokens) /\ Len(call.window) \in 1..5 /\ ckpt \in Seq(Tokens)
  BY DEF Sequential, TInv, Inv, CallOK, WindowOK, TypeOK, Targeted
<1> DEFINE k == Followed
<1>2. k \in 0..Len(call.window) /\ Follows(k)
  <2> DEFINE n == Len(call.window)
  <2>1. n \in 1..5
    BY <1>1
  <2>2. n \in 0..5
    <3> HIDE DEF n
    <3> QED BY <2>1
  <2> QED BY <1>1, <2>2, FollowedInWindow
<1> HIDE DEF k
<1>3. FirstRows(k) \in Seq(Tokens) /\ Len(FirstRows(k)) = k
  BY <1>1, <1>2, PartType DEF FirstRows
<1>4. CASE Decode(FirstRows(k)) /\ Return(call.out \o FirstRows(k), TRUE)
  <2> DEFINE w == FirstRows(k)
  <2>1. ASSUME Greedily
        PROVE  \A j \in 1..Len(w) : w[j] = Top(ckpt \o SubSeq(w, 1, j - 1))
    <3>1. logits = ckpt /\ front = ckpt
      BY <1>1, <2>1, Stands DEF Greedily
    <3> SUFFICES ASSUME NEW j \in 1..k
                 PROVE  w[j] = Top(ckpt \o SubSeq(w, 1, j - 1))
      BY <1>3
    <3>2. /\ w[j] = call.window[j] /\ SubSeq(w, 1, j - 1) = FirstRows(j - 1)
      BY <1>1, <1>2, PartOfPart DEF FirstRows
    <3>3. w[j] = Top(IF j = 1 THEN logits ELSE After(front, ckpt, FirstRows(j - 1)))
      BY <1>2, <3>2 DEF Follows
    <3>4. CASE j = 1
      <4>1. FirstRows(0) = <<>> /\ ckpt \o <<>> = ckpt /\ j - 1 = 0
        BY <1>1, <3>4 DEF FirstRows
      <4> QED BY <3>1, <3>2, <3>3, <3>4, <4>1
    <3>5. CASE j # 1
      <4>1. FirstRows(j - 1) \in Seq(Tokens)
        <5> DEFINE n == Len(call.window)
        <5>1. n \in Nat /\ k \in 0..n /\ j \in 1..k
          BY <1>1, <1>2
        <5>2. j - 1 \in 0..n
          <6> HIDE DEF n
          <6> QED BY <5>1
        <5> QED BY <1>1, <5>2, PartType DEF FirstRows
      <4>2. After(ckpt, ckpt, FirstRows(j - 1)) = ckpt \o FirstRows(j - 1)
        BY <1>1, <4>1, AfterStanding
      <4> QED BY <3>1, <3>2, <3>3, <3>5, <4>2
    <3> QED BY <3>4, <3>5
  <2>2. /\ w \in Seq(Tokens) /\ Decode(w) /\ Return(call.out \o w, TRUE)
    BY <1>3, <1>4
  <2>3. call.pc # "settle" /\ TRUE \in BOOLEAN
    BY <1>1
  <2> HIDE DEF w
  <2>4. Len(w) <= Len(w) /\ \A i \in 1..Len(w) : w[i] = w[i]
    BY <2>2
  <2> QED BY <1>1, <2>1, <2>2, <2>3, <2>4, DecodeServes
<1>5. CASE Broken
  BY <1>5, BrokenServes
<1> QED BY <1>4, <1>5 DEF Sequential, k

LEMMA StutterTargeted ==
  ASSUME TInv, UNCHANGED vars
  PROVE  Targeted'
BY DEF TInv, Targeted, Greedily, Checked, Given, Held, FirstRows, vars

LEMMA TargetedStep ==
  ASSUME TInv, [Next]_vars
  PROVE  Targeted'
<1>2. CASE UNCHANGED vars
  BY <1>2, StutterTargeted
<1>3. ASSUME NEW t \in Tokens, Canonical(t) \/ \E g \in BOOLEAN : Plain(t, g)
      PROVE  Targeted'
  BY <1>3, CanonicalTargeted, PlainTargeted
<1>4. ASSUME NEW t \in Tokens, NEW d \in Guesses(conf.depth), Combined(t, d) \/ Sample(t, d)
      PROVE  Targeted'
  BY <1>4, SampledTargeted
<1>5. ASSUME NEW d \in Guesses(conf.depth), Draft(d) \/ SkipSecond(d)
      PROVE  Targeted'
  BY <1>5, DraftTargeted, SkipSecondTargeted
<1>6. ASSUME NEW k \in 1..Len(call.window), NEW r \in Tokens, SettleSample(k, r)
      PROVE  Targeted'
  BY <1>6, SettleSampleTargeted
<1>7. CASE NoDraft \/ Verify \/ Settle \/ Replay \/ Sequential \/ Invalidate
  BY <1>7, NoDraftTargeted, VerifyTargeted, SettleTargeted, ReplayTargeted,
     SequentialTargeted, InvalidateTargeted
<1>8. ASSUME NEW p \in NextPrompts, Sync(p)
      PROVE  Targeted'
  BY <1>8, SyncTargeted
<1> QED BY <1>2, <1>3, <1>4, <1>5, <1>6, <1>7, <1>8 DEF Next, Calls
-----------------------------------------------------------------------------
(* Every variable of a session and of the calls on it keeps its type.      *)
THEOREM TypeCorrectness ==
  ASSUME RowsAreCaptured PROVE Spec => []TypeOK
<1>1. Inv => TypeOK
  BY DEF Inv
<1> QED BY <1>1, Invariance, PTL

(* Between calls a valid session can go on, for any drafts, any target and *)
(* any number of failed device calls (spec_frontier_commit_from, ds4.c).   *)
THEOREM GraphServes ==
  ASSUME RowsAreCaptured PROVE Spec => []GraphServesCheckpoint
<1>1. ASSUME Inv PROVE GraphServesCheckpoint
  <2> SUFFICES ASSUME call.pc = "idle", valid, front # Torn
               PROVE  Serves(front, ckpt) /\ logits = ckpt
    BY DEF GraphServesCheckpoint
  <2>1. front = ckpt /\ logits = ckpt /\ ckpt \in Seq(Tokens)
    BY <1>1 DEF Inv, CallOK, Standing, TypeOK
  <2> QED BY <2>1, ServesItself
<1> QED BY <1>1, Invariance, PTL

(* No call goes past the context, though the room is checked before the    *)
(* number of drafts is known (ds4_session_eval_speculative_argmax, ds4.c). *)
THEOREM StaysWithinContext ==
  ASSUME RowsAreCaptured PROVE Spec => []WithinContext
<1>1. Inv => WithinContext
  BY DEF Inv
<1> QED BY <1>1, Invariance, PTL

(* Whatever was drafted, kept, rejected, rolled back or evaluated again,   *)
(* and whatever failed on the way, a caller that asked for every token     *)
(* greedily was given the target's own choices one after the other, and    *)
(* all of what the checkpoint holds unless an Eos ended it earlier         *)
(* (ds4_session_eval_speculative_argmax, ds4.c).                           *)
THEOREM GreedyServesTheTarget ==
  ASSUME RowsAreCaptured PROVE Spec => []GreedyIsTheTarget
<1>1. ASSUME TInv PROVE GreedyIsTheTarget
  <2> SUFFICES ASSUME call.pc = "idle", valid, turn.greedy, front # Torn
               PROVE  LET rest == SubSeq(ckpt, turn.from + 1, Len(ckpt)) IN
                      /\ IsPrefix(turn.out, rest)
                      /\ turn.out = rest \/ Contains(turn.out, Eos)
                      /\ \A i \in DOMAIN turn.out :
                           turn.out[i] = Top(SubSeq(ckpt, 1, turn.from + i - 1))
    BY DEF GreedyIsTheTarget
  <2> DEFINE o == turn.out
  <2> DEFINE n == turn.from
  <2> DEFINE c == ckpt
  <2> DEFINE rest == SubSeq(c, n + 1, Len(c))
  <2>1. /\ o \in Seq(Tokens) /\ n \in Nat /\ c \in Seq(Tokens)
    BY <1>1 DEF TInv, Inv, TypeOK
  <2>2. Served(o, c, n)
    <3>1. Greedily /\ Held = ckpt /\ call.out = <<>>
      BY <1>1 DEF TInv, Targeted, Greedily, Held
    <3>2. Given = o
      BY <2>1, <3>1 DEF Given
    <3> QED BY <1>1, <3>1, <3>2 DEF TInv, Targeted
  <2>3. /\ n + Len(o) <= Len(c) /\ (n + Len(o) = Len(c) \/ Contains(o, Eos))
        /\ \A i \in 1..Len(o) : o[i] = c[n + i] /\ o[i] = Top(SubSeq(c, 1, n + i - 1))
    BY <2>2 DEF Served, OnTarget
  <2> HIDE DEF o, n, c
  <2>4. /\ rest \in Seq(Tokens) /\ Len(rest) = Len(c) - n
        /\ \A i \in 1..Len(c) - n : rest[i] = c[n + i]
    BY <2>1, <2>3
  <2> HIDE DEF rest
  <2>5. Len(o) \in Nat /\ Len(c) \in Nat /\ Len(o) <= Len(rest) /\ Len(rest) \in Nat
    BY <2>1, <2>3, <2>4
  <2>6. \A i \in 1..Len(o) : o[i] = rest[i] /\ i \in 1..Len(rest)
    <3>1. \A i \in 1..Len(o) : i \in 1..Len(c) - n
      BY <2>1, <2>3, <2>5
    <3> QED BY <2>3, <2>4, <3>1
  <2>7. IsPrefix(o, rest)
    <3>1. SubSeq(o, 1, Len(o)) = o
      BY <2>1
    <3>2. Len(o) \in 0..Len(rest)
      BY <2>5
    <3>3. SubSeq(rest, 1, Len(o)) \in Seq(Tokens) /\ Len(SubSeq(rest, 1, Len(o))) = Len(o)
      BY <2>4, <3>2, PartType
    <3>4. \A i \in 1..Len(o) : SubSeq(rest, 1, Len(o))[i] = rest[i]
      BY <2>4, <3>2
    <3>5. SubSeq(rest, 1, Len(o)) = o
      BY <2>1, <2>6, <3>3, <3>4
    <3> QED BY <2>5, <3>1, <3>5 DEF IsPrefix
  <2>8. o = rest \/ Contains(o, Eos)
    <3>1. n + Len(o) = Len(c) => Len(o) = Len(rest)
      BY <2>1, <2>4, <2>5
    <3>2. Len(o) = Len(rest) => o = rest
      BY <2>1, <2>4, <2>6
    <3> QED BY <2>3, <3>1, <3>2
  <2>9. DOMAIN o = 1..Len(o)
    BY <2>1
  <2> QED BY <2>3, <2>7, <2>8, <2>9 DEF o, n, c, rest
<1>2. Init => TInv
  BY InitInv, InitTargeted DEF TInv
<1>3. RowsAreCaptured
  OBVIOUS
<1>4. TInv /\ [Next]_vars => TInv'
  BY <1>3, InvStep, TargetedStep DEF TInv
<1> QED BY <1>1, <1>2, <1>4, PTL DEF Spec
=============================================================================
