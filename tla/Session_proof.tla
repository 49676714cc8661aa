--------------------------- MODULE Session_proof ---------------------------
(***************************************************************************)
(* Theorems about what one session's graph keeps: Steering, for any        *)
(* profiles, scales and cache size, and SessionCache, for any histories,   *)
(* sizes and number of faults.                                             *)
(***************************************************************************)
EXTENDS Steering, SessionCache, SequenceTheorems, WellFoundedInduction, TLAPS

(* Steering.                                                               *)

(* Theorems about Steering for any profiles, scales and cache size.        *)

(* A long name is never found in the cache, which makes its reloads pile   *)
(* up: every key is a name that fits or a truncated one.                   *)
KeysFit == \A i \in 1 .. Len(cache) : cache[i] \notin LongNames

(* What a profile and a scale do is one of the effects.                    *)
LEMMA EffectType ==
  ASSUME NEW p \in Profiles \cup {None}, NEW s \in Scales
  PROVE  Effect(p, s) \in Effects
BY ZeroIsAScale DEF Effect, Effects, Off

(* The scale of a request is one of the scales.                            *)
LEMMA ScaleType ==
  ASSUME defaultScale \in Scales, NEW asked \in Asked
  PROVE  ScaleFor(asked) \in Scales
BY DEF ScaleFor, Asked

(* What the observer records is of its type.                               *)
LEMMA ObservedType ==
  ASSUME NEW name \in Profiles \cup {None}, NEW asked \in Asked,
         NEW profile \in Profiles \cup {None}, defaultScale \in Scales,
         dirs' \in Profiles \cup {None}, scale' \in Scales,
         Generated(name, asked, profile)
  PROVE  last' \in [named : Profiles \cup {None}, wanted : Effects, ran : Effects]
<1> DEFINE s == IF asked \in Scales THEN asked ELSE defaultScale
<1>1. s \in Scales
  OBVIOUS
<1>2. Effect(profile, s) \in Effects
  BY <1>1, EffectType
<1>3. Effect(dirs', scale') \in Effects
  BY EffectType
<1>4. last' = [named |-> name, wanted |-> Effect(profile, s),
               ran |-> Effect(dirs', scale')]
  BY DEF Generated
<1> HIDE DEF s
<1> QED BY <1>2, <1>3, <1>4

(* The part of the inductive invariant that speaks of the graph, which the *)
(* selection alone writes.                                                 *)
ProfilesOK ==
  /\ cache \in Seq(Profiles \cup {Truncated})
  /\ dirs \in Profiles \cup {None}
  /\ scale \in Scales
  /\ KeysFit
  /\ ActiveIsLoaded
  /\ LoadedOnce

(* A scale alone changes nothing in the cache.                             *)
LEMMA SetScaleKeeps ==
  ASSUME ProfilesOK, NEW s \in Scales, SetScale(s)
  PROVE  ProfilesOK'
BY DEF ProfilesOK, SetScale, ActiveIsLoaded, LoadedOnce, KeysFit

(* Selecting a loaded profile borrows what the cache holds.                *)
LEMMA SelectCachedKeeps ==
  ASSUME ProfilesOK, NEW name \in Profiles, NEW s \in Scales, SelectCached(name, s)
  PROVE  ProfilesOK'
<1>1. name \notin LongNames
  BY DEF SelectCached, Cached, Contains, ProfilesOK, KeysFit
<1>2. Contains(cache, Key(name))
  BY <1>1 DEF SelectCached, Cached, Key
<1>3. (dirs # None => Contains(cache, Key(dirs)))'
  BY <1>2 DEF SelectCached, Key, Contains
<1> QED
  BY <1>3 DEF ProfilesOK, SelectCached, ActiveIsLoaded, LoadedOnce, KeysFit

(* Loading adds a key that was not there, and borrows it.                  *)
LEMMA SelectLoadedKeeps ==
  ASSUME ProfilesOK, NEW name \in Profiles, NEW s \in Scales, SelectLoaded(name, s)
  PROVE  ProfilesOK'
<1> DEFINE key == Key(name)
<1>1. key \in Profiles \cup {Truncated} /\ key \notin LongNames
  BY NamesDiffer DEF Key
<1>2. key # Truncated => key = name /\ ~Contains(cache, key)
  BY DEF Key, SelectLoaded, Cached
<1>3. /\ cache' = Append(cache, key) /\ dirs' = name /\ scale' = s
      /\ Len(cache) < CacheMax
  BY DEF SelectLoaded, RoomInCache
<1>4. dirs' # None => Contains(cache', Key(dirs'))
  <2>1. cache'[Len(cache')] = key /\ Len(cache') \in 1 .. Len(cache')
    BY <1>1, <1>3 DEF ProfilesOK
  <2> QED BY <1>3, <2>1 DEF Contains
<1> HIDE DEF key
<1>5. cache' \in Seq(Profiles \cup {Truncated}) /\ Len(cache') = Len(cache) + 1
  BY <1>1, <1>3 DEF ProfilesOK
<1>6. \A i \in 1 .. Len(cache') :
        cache'[i] = IF i = Len(cache) + 1 THEN key ELSE cache[i]
  BY <1>1, <1>3 DEF ProfilesOK
<1>7. KeysFit'
  BY <1>1, <1>5, <1>6 DEF ProfilesOK, KeysFit
<1>8. LoadedOnce'
  <2>1. DOMAIN cache' = 1 .. Len(cache')
    BY <1>5
  <2>2. DOMAIN cache = 1 .. Len(cache)
    BY DEF ProfilesOK
  <2> QED
    BY <1>2, <1>5, <1>6, <2>1, <2>2 DEF ProfilesOK, LoadedOnce, Contains
<1>9. ActiveIsLoaded'
  BY <1>3, <1>4, <1>5, CacheHasRoom DEF ProfilesOK, ActiveIsLoaded
<1> QED BY <1>3, <1>5, <1>7, <1>8, <1>9 DEF ProfilesOK

(* The inductive invariant.                                                *)
SteeringInv == SteeringTypeOK /\ ProfilesOK

(* The launch file, if it is loaded, is the first of the cache.            *)
LEMMA SteeringBegins == SteeringInit => SteeringInv
<1> SUFFICES ASSUME SteeringInit PROVE SteeringInv
  OBVIOUS
<1>1. PICK f \in Profiles \cup {None}, s \in Scales :
        /\ f = None => s = 0
        /\ defaultName = f /\ defaultScale = s
        /\ IF s = 0
             THEN cache = <<>> /\ dirs = None /\ scale = 0
             ELSE cache = <<Key(f)>> /\ dirs = f /\ scale = s
  BY DEF SteeringInit
<1>2. last \in [named : Profiles \cup {None}, wanted : Effects, ran : Effects]
  BY ZeroIsAScale DEF SteeringInit, Off, Effects
<1>3. CASE s = 0
  BY <1>1, <1>2, <1>3, ZeroIsAScale, CacheHasRoom
  DEF SteeringInv, SteeringTypeOK, ProfilesOK, KeysFit, ActiveIsLoaded, LoadedOnce
<1>4. CASE s # 0
  <2>1. f \in Profiles /\ cache = <<Key(f)>> /\ dirs = f /\ scale = s
    BY <1>1, <1>4
  <2>2. Key(f) \in Profiles \cup {Truncated} /\ Key(f) \notin LongNames
    BY <2>1, NamesDiffer DEF Key
  <2>3. cache \in Seq(Profiles \cup {Truncated}) /\ Len(cache) = 1
        /\ cache[1] = Key(f)
    BY <2>1, <2>2
  <2>4. KeysFit /\ LoadedOnce
    BY <2>2, <2>3 DEF KeysFit, LoadedOnce
  <2>5. ActiveIsLoaded
    BY <2>1, <2>3, CacheHasRoom DEF ActiveIsLoaded, Contains
  <2> QED
    BY <1>1, <1>2, <2>1, <2>3, <2>4, <2>5 DEF SteeringInv, SteeringTypeOK, ProfilesOK
<1> QED BY <1>3, <1>4

(* Every request keeps the invariant.                                      *)
LEMMA SteeringStep == SteeringInv /\ [SteeringNext]_steeringVars => SteeringInv'
<1> SUFFICES ASSUME SteeringInv, [SteeringNext]_steeringVars PROVE SteeringInv'
  OBVIOUS
<1>t. /\ defaultName \in Profiles \cup {None} /\ defaultScale \in Scales
      /\ last \in [named : Profiles \cup {None}, wanted : Effects, ran : Effects]
      /\ ProfilesOK
  BY DEF SteeringInv, SteeringTypeOK
<1>q. ASSUME /\ ProfilesOK'
             /\ defaultName' \in Profiles \cup {None} /\ defaultScale' \in Scales
             /\ last' \in [named : Profiles \cup {None}, wanted : Effects, ran : Effects]
      PROVE  SteeringInv'
  BY <1>q DEF SteeringInv, SteeringTypeOK, ProfilesOK
<1>s. ASSUME NEW name \in Profiles, NEW s \in Scales,
             SelectCached(name, s) \/ SelectLoaded(name, s)
      PROVE  ProfilesOK'
  BY <1>t, <1>s, SelectCachedKeeps, SelectLoadedKeeps
<1>g. ProfilesOK' => dirs' \in Profiles \cup {None} /\ scale' \in Scales
  BY DEF ProfilesOK
<1>1. ASSUME NEW asked \in Asked, GenerateUnnamed(asked)
      PROVE  SteeringInv'
  <2>1. ScaleFor(asked) \in Scales
    BY <1>t, ScaleType
  <2>2. \/ /\ defaultName \in Profiles
           /\ SelectCached(defaultName, ScaleFor(asked))
        \/ SetScale(ScaleFor(asked))
    BY <1>1, <1>t DEF GenerateUnnamed, RestoreDefault
  <2>4. ProfilesOK'
    BY <1>t, <2>1, <2>2, SetScaleKeeps, SelectCachedKeeps
  <2> QED
    BY <1>1, <1>t, <1>q, <1>g, <2>4, ObservedType DEF GenerateUnnamed
<1>2. ASSUME NEW asked \in Asked, AdminScale(asked)
      PROVE  SteeringInv'
  <2>1. ScaleFor(asked) \in Scales
    BY <1>t, ScaleType
  <2>2. ProfilesOK'
    BY <1>2, <1>t, <2>1, SetScaleKeeps DEF AdminScale
  <2> QED BY <1>2, <1>t, <1>q, <2>1, <2>2 DEF AdminScale
<1>3. ASSUME NEW asked \in Asked, NEW name \in Profiles, GenerateNamed(name, asked)
      PROVE  SteeringInv'
  <2>1. ScaleFor(asked) \in Scales
    BY <1>t, ScaleType
  <2>2. ProfilesOK'
    BY <1>3, <1>s, <2>1 DEF GenerateNamed
  <2> QED BY <1>3, <1>t, <1>q, <1>g, <2>2, ObservedType DEF GenerateNamed
<1>4. ASSUME NEW asked \in Asked, NEW name \in Profiles, AdminNamed(name, asked)
      PROVE  SteeringInv'
  <2>1. ScaleFor(asked) \in Scales
    BY <1>t, ScaleType
  <2>2. ProfilesOK'
    BY <1>4, <1>s, <2>1 DEF AdminNamed
  <2> QED BY <1>4, <1>t, <1>q, <2>1, <2>2 DEF AdminNamed
<1>5. ASSUME NEW name \in Profiles, Refuse(name)
      PROVE  SteeringInv'
  BY <1>5, <1>t, <1>q
  DEF Refuse, SelectFails, ProfilesOK, KeysFit, ActiveIsLoaded, LoadedOnce
<1>6. CASE UNCHANGED steeringVars
  BY <1>6, <1>t, <1>q DEF steeringVars, ProfilesOK, KeysFit, ActiveIsLoaded, LoadedOnce
<1> QED BY <1>1, <1>2, <1>3, <1>4, <1>5, <1>6 DEF SteeringNext

(* Every variable keeps its type; the graph points at a tensor of its      *)
(* cache, which never overflows its array; a name that fits is loaded      *)
(* once.                                                                   *)
THEOREM SteeringInvariant == SteeringSpec => [](SteeringTypeOK /\ CacheIsSound)
<1>1. SteeringInv => SteeringTypeOK /\ CacheIsSound
  BY DEF SteeringInv, ProfilesOK, CacheIsSound
<1> QED BY <1>1, SteeringBegins, SteeringStep, PTL DEF SteeringSpec

(* A generation that names no profile runs with the server's default, once *)
(* the default is in the cache, whatever any request before it selected.   *)
THEOREM DefaultRestored == SteeringSpec => LoadedDefaultIsRestored
<1>1. ASSUME SteeringInv, NEW asked \in Asked, GenerateUnnamed(asked), Cached(defaultName)
      PROVE  last'.ran = last'.wanted
  <2>1. defaultName # None
    BY <1>1, NamesDiffer DEF Cached, Contains, SteeringInv, ProfilesOK
  <2>2. dirs' = defaultName /\ scale' = ScaleFor(asked)
    BY <1>1, <2>1 DEF GenerateUnnamed, RestoreDefault, SelectCached
  <2>3. ScaleFor(asked) = IF asked \in Scales THEN asked ELSE defaultScale
    BY <1>1, ZeroIsAScale DEF ScaleFor, Asked
  <2> QED
    BY <1>1, <2>2, <2>3 DEF GenerateUnnamed, Generated
<1>2. SteeringInv /\ [SteeringNext]_steeringVars => [\A asked \in Asked :
        GenerateUnnamed(asked) /\ Cached(defaultName)
          => last'.ran = last'.wanted]_steeringVars
  BY <1>1
<1> QED BY <1>2, SteeringBegins, SteeringStep, PTL DEF SteeringSpec, LoadedDefaultIsRestored
-----------------------------------------------------------------------------
(* SessionCache.  First: least and largest elements, rows of a ring, parts *)
(* of sequences.                                                           *)

(* A set of naturals has a least element.                                  *)
LEMMA LeastElement ==
  ASSUME NEW T \in SUBSET Nat, T # {}
  PROVE  \E x \in T : \A y \in T : x <= y
<1> DEFINE R == {ss \in Nat \X Nat : ss[1] < ss[2]}
<1>1. IsWellFoundedOn(R, Nat)
  BY NatLessThanWellFounded, Zenon DEF OpToRel
<1>2. \E x \in T : \A y \in T : ~ (<<y, x>> \in R)
  <2> HIDE DEF R
  <2> QED BY <1>1, WFMin
<1>3. ASSUME NEW x \in T, NEW y \in T, ~ (<<y, x>> \in R)
      PROVE x <= y
  BY <1>3
<1> QED BY <1>2, <1>3

(* A bounded set of integers that is not empty has a largest element.      *)
LEMMA Largest ==
  ASSUME NEW S, NEW a \in Int, NEW b \in Int, S \subseteq a..b, S # {}
  PROVE  Max(S) \in S /\ \A y \in S : y <= Max(S)
<1> DEFINE D == {n \in Nat : b - n \in S}
<1>1. D \in SUBSET Nat /\ D # {}
  <2>1. PICK y : y \in S
    OBVIOUS
  <2>2. b - y \in Nat /\ b - (b - y) = y
    BY <2>1
  <2>3. b - y \in D
    BY <2>1, <2>2
  <2> QED  BY <2>3
<1>2. PICK x \in D : \A y \in D : x <= y
  <2> HIDE DEF D
  <2> QED  BY <1>1, LeastElement
<1>3. b - x \in S /\ x \in Nat
  BY <1>2
<1>4. ASSUME NEW y \in S PROVE b - x >= y
  <2>1. b - y \in Nat /\ b - (b - y) = y /\ y \in Int
    OBVIOUS
  <2>2. b - y \in D
    BY <2>1
  <2>3. x <= b - y
    BY <1>2, <2>2
  <2> QED  BY <1>3, <2>1, <2>3
<1>5. \E z \in S : \A y \in S : z >= y
  BY <1>3, <1>4
<1>6. Max(S) \in S /\ \A y \in S : Max(S) >= y
  BY <1>5 DEF Max
<1> QED  BY <1>6

(* Two positions less than a ring apart lie in different rows of it.       *)
LEMMA RowsApart ==
  ASSUME NEW c \in Nat \ {0}, NEW a \in Nat, NEW b \in Nat, a < b, b < a + c
  PROVE  a % c # b % c
<1> DEFINE q == a \div c
           r == b \div c
<1>1. q \in Int /\ r \in Int /\ a = c * q + (a % c) /\ b = c * r + (b % c)
  <2>1. q \in Int /\ r \in Int
    OBVIOUS
  <2>2. a = c * q + (a % c)
    OBVIOUS
  <2>3. b = c * r + (b % c)
    OBVIOUS
  <2> QED  BY <2>1, <2>2, <2>3
<1>2. SUFFICES ASSUME a % c = b % c PROVE FALSE
  OBVIOUS
<1>3. b - a = c * r - c * q /\ a % c \in Int
  BY <1>1, <1>2
<1> DEFINE d == r - q
<1>4. d \in Int /\ b - a = c * d
  BY <1>1, <1>3
<1> HIDE DEF q, r, d
<1>5. CASE d <= 0
  <2>1. c * d <= 0
    BY <1>4, <1>5
  <2> QED  BY <1>4, <2>1
<1>6. CASE d >= 1
  <2>1. c * d >= c
    BY <1>4, <1>6
  <2> QED  BY <1>4, <2>1
<1> QED  BY <1>4, <1>5, <1>6

(* The row of a position is one of the ring.                               *)
LEMMA RowRange ==
  ASSUME NEW c \in Nat \ {0}, NEW p \in Nat
  PROVE  p % c \in 0..c - 1
OBVIOUS

(* Of positions within a ring of p none other lies in its row.             *)
LEMMA OneRow ==
  ASSUME NEW c \in Nat \ {0}, NEW p \in Nat, NEW q \in Nat,
         p % c = q % c, p < q + c, q < p + c
  PROVE  p = q
<1>1. CASE p < q
  BY <1>1, RowsApart
<1>2. CASE q < p
  BY <1>2, RowsApart
<1> QED  BY <1>1, <1>2

(* The beginning of a sequence.                                            *)
LEMMA Part ==
  ASSUME NEW S, NEW h \in Seq(S), NEW n \in 0..Len(h)
  PROVE  /\ SubSeq(h, 1, n) \in Seq(S) /\ Len(SubSeq(h, 1, n)) = n
         /\ \A i \in 1..n : SubSeq(h, 1, n)[i] = h[i]
<1>1. Len(h) \in Nat /\ \A i \in 1..n : h[i] \in S
  BY LenProperties, ElementOfSeq
<1>2. n \in Int /\ n - 1 + 1 = n /\ (1 <= n => n - 1 + 1 = n) /\ \A i \in Int : 1 + i - 1 = i
  BY <1>1
<1>3. CASE n = 0
  BY <1>1, <1>3, SubSeqEmpty, EmptySeq
<1>4. CASE n # 0
  BY <1>1, <1>2, <1>4, SubSeqProperties
<1> QED  BY <1>3, <1>4

(* The beginning of a beginning is one of the whole.                       *)
LEMMA PartOfPart ==
  ASSUME NEW S, NEW h \in Seq(S), NEW n \in 0..Len(h), NEW k \in 0..n
  PROVE  SubSeq(SubSeq(h, 1, n), 1, k) = SubSeq(h, 1, k)
<1>1. Len(h) \in Nat /\ k \in 0..Len(h)
  BY LenProperties
<1> DEFINE g == SubSeq(h, 1, n)
<1>2. g \in Seq(S) /\ Len(g) = n /\ \A i \in 1..n : g[i] = h[i]
  BY Part
<1>3. /\ SubSeq(h, 1, k) \in Seq(S) /\ Len(SubSeq(h, 1, k)) = k
      /\ \A i \in 1..k : SubSeq(h, 1, k)[i] = h[i]
  BY <1>1, Part
<1> HIDE DEF g
<1>4. /\ SubSeq(g, 1, k) \in Seq(S) /\ Len(SubSeq(g, 1, k)) = k
      /\ \A i \in 1..k : SubSeq(g, 1, k)[i] = g[i]
  BY <1>2, Part
<1>5. \A i \in 1..k : SubSeq(g, 1, k)[i] = SubSeq(h, 1, k)[i]
  BY <1>2, <1>3, <1>4
<1>6. SubSeq(g, 1, k) = SubSeq(h, 1, k)
  BY <1>3, <1>4, <1>5, SeqEqual
<1> QED  BY <1>6 DEF g

(* What follows the beginning continues it.                                *)
LEMMA Joined ==
  ASSUME NEW S, NEW h \in Seq(S), NEW n \in 0..Len(h), NEW k \in n..Len(h)
  PROVE  /\ SubSeq(h, 1, n) \o SubSeq(h, n + 1, k) = SubSeq(h, 1, k)
         /\ SubSeq(h, n + 1, k) \in Seq(S) /\ Len(SubSeq(h, n + 1, k)) = k - n
<1>1. Len(h) \in Nat
  BY LenProperties
<1>2. 1 \in 1..Len(h) + 1 /\ n \in 1 - 1..Len(h)
  BY <1>1
<1>3. SubSeq(h, 1, n) \o SubSeq(h, n + 1, k) = SubSeq(h, 1, k)
  BY <1>2, ConcatAdjacentSubSeq
<1>4. n + 1 \in Int /\ k \in Int /\ \A i \in n + 1..k : h[i] \in S
  BY <1>1, ElementOfSeq
<1>5. /\ SubSeq(h, n + 1, k) \in Seq(S)
      /\ Len(SubSeq(h, n + 1, k)) = IF n + 1 <= k THEN k - (n + 1) + 1 ELSE 0
  BY <1>4, SubSeqProperties
<1> QED  BY <1>1, <1>3, <1>5
-----------------------------------------------------------------------------
(* The rows before the end of h from position low on are in the ring.      *)
Stored(h, low) == \A p \in low..Len(h) - 1 : HoldsRow(h, p)

(* Where the last rows of h begin, those a payload holds.                  *)
Back(h) == Most(0, Len(h) - window)

(* A streamed prefill can be interrupted, and then falls back to where it  *)
(* began.                                                                  *)
Low == IF job.how = "stream" /\ Left > 0 THEN Most(0, job.start - window) ELSE Back(Read)

InBatch ==
  /\ job.pos \in {0, Len(job.prompt)} /\ job.start = 0 /\ ~job.reporting /\ ckpt = <<>>
  /\ Len(job.prompt) <= PrefillCap(conf)

InStream ==
  /\ Len(job.prompt) - job.start <= StreamMax
  /\ ~job.reports => job.start = 0
  /\ job.reporting => job.reports /\ (Left = 0 \/ job.pos = job.start)
  /\ ckpt = IF job.reports /\ Left = 0 THEN job.prompt ELSE SubSeq(job.prompt, 1, job.start)

(* How far the checkpoint has followed what the sync has read.             *)
JobOK ==
  IF job.how = "none" THEN job = NoJob
  ELSE /\ job.prompt # <<>> /\ Len(job.prompt) < conf.ctx
       /\ job.start <= job.pos /\ job.pos <= Len(job.prompt)
       /\ job.how = "chunks" => ckpt = Read
       /\ job.how = "tokens" => ckpt = Read /\ ~job.reporting
       /\ job.how = "whole" => InBatch
       /\ job.how = "stream" => InStream

(* The graph is of the checkpoint at rest, of what was read during a sync. *)
GraphOK ==
  IF job.how = "none"
  THEN valid => Serves(front, ckpt) /\ Stored(ckpt, Back(ckpt)) /\ logits = ckpt
  ELSE /\ Serves(front, Read) /\ Stored(Read, Low)
       /\ Left = 0 => logits = Read
       /\ Left > 0 /\ ckpt # <<>> => logits = ckpt

FileOK ==
  file # NoFile =>
    /\ file.tokens # <<>>
    /\ ~file.spoiled =>
        /\ file.logits = file.tokens /\ Serves(file.front, file.tokens)
        /\ Len(file.rows) = Least(file.window, Len(file.tokens))
        /\ \A i \in DOMAIN file.rows :
             file.rows[i] = SubSeq(file.tokens, 1, Len(file.tokens) - Len(file.rows) + i)

CacheInv ==
  /\ TypeOK /\ (valid => ckpt # <<>>)
  /\ JobOK /\ (~spoiled => GraphOK) /\ FileOK
-----------------------------------------------------------------------------
(* The sizes an engine is opened with are positive.                        *)
LEMMA ConfigType ==
  ASSUME NEW c \in Configs
  PROVE  /\ c.ctx \in Nat \ {0} /\ c.chunk \in Nat \ {0}
         /\ Window \in Nat \ {0} /\ MaxRaw \in Nat /\ Align \in Nat \ {0} /\ StreamMax \in Nat
         /\ Ratio \in Nat \ {0} /\ MaxFaults \in Nat
BY ConfigsAreOptions, SizesArePositive

(* Padding never shortens.                                                 *)
LEMMA PaddedCovers ==
  ASSUME NEW n \in Nat
  PROVE  Padded(n) \in Nat /\ Padded(n) >= n
<1> DEFINE x == n + Align - 1
           d == x \div Align
           r == x % Align
<1>1. Align \in Nat \ {0} /\ x \in Nat
  BY SizesArePositive
<1>2. d \in Nat /\ r \in 0..Align - 1
  BY <1>1
<1>3. x = Align * d + r
  BY <1>1
<1>4. Padded(n) = d * Align
  BY DEF Padded
<1>5. d * Align = Align * d
  <2> HIDE DEF d
  <2> QED  BY <1>1, <1>2
<1>6. Align * d \in Nat
  <2> HIDE DEF d
  <2> QED  BY <1>1, <1>2
<1>7. Align * d = n + Align - 1 - r
  <2> HIDE DEF d, r
  <2> QED  BY <1>1, <1>2, <1>3, <1>6
<1> HIDE DEF d, r, x
<1> QED  BY <1>1, <1>2, <1>4, <1>5, <1>6, <1>7

(* A ring holds the window; one that can wrap holds whatever is streamed   *)
(* beside it, and a chunk that is not too large.                           *)
LEMMA RingSize ==
  ASSUME NEW c \in Configs
  PROVE  /\ RawWindow(c) \in Nat \ {0} /\ RawCap(c) \in Nat \ {0} /\ PrefillCap(c) \in Nat \ {0}
         /\ RawWindow(c) <= RawCap(c) /\ RawCap(c) <= c.ctx /\ PrefillCap(c) <= c.ctx
         /\ RawCap(c) < c.ctx =>
              /\ ~TooLarge(c) => RawWindow(c) + PrefillCap(c) <= RawCap(c) + 1
              /\ RawWindow(c) + StreamMax <= RawCap(c) + 1
<1> DEFINE n == Least(RawWindow(c) + PrefillCap(c), c.ctx)
<1>1. /\ RawWindow(c) \in Nat \ {0} /\ PrefillCap(c) \in Nat \ {0}
      /\ RawWindow(c) <= c.ctx /\ PrefillCap(c) <= c.ctx
      /\ ~TooLarge(c) => RawWindow(c) + PrefillCap(c) <= MaxRaw + 1
  BY ConfigType DEF RawWindow, PrefillCap, Least, TooLarge
<1>2. n \in Nat /\ n <= c.ctx /\ (n = c.ctx \/ n = RawWindow(c) + PrefillCap(c))
  BY <1>1, ConfigType DEF Least
<1>3. Padded(n) \in Nat /\ Padded(n) >= n
  BY <1>2, PaddedCovers
<1>4. Wanted(c) = Least(Padded(n), MaxRaw)
  BY DEF Wanted
<1>5. Wanted(c) \in Nat /\ (Wanted(c) >= n \/ Wanted(c) = MaxRaw)
  <2> HIDE DEF n
  <2> QED  BY <1>2, <1>3, <1>4, ConfigType DEF Least
<1>6. RawCap(c) = Least(Most(Wanted(c), RawWindow(c)), c.ctx)
  BY DEF RawCap
<1>7. /\ RawCap(c) \in Nat /\ RawWindow(c) <= RawCap(c) /\ RawCap(c) <= c.ctx
      /\ RawCap(c) >= n \/ RawCap(c) >= MaxRaw \/ RawCap(c) = c.ctx
  <2> HIDE DEF n
  <2> QED  BY <1>1, <1>2, <1>5, <1>6, ConfigType DEF Least, Most
<1>8. RawCap(c) < c.ctx => RawWindow(c) + StreamMax <= RawCap(c) + 1
  <2>1. Wanted(c) < c.ctx => RawWindow(c) + StreamMax <= Wanted(c) + 1
    BY StreamFitsTheRing
  <2> QED  BY <1>1, <1>5, <1>6, <2>1, ConfigType DEF Least, Most
<1>9. RawCap(c) < c.ctx /\ ~TooLarge(c) => RawWindow(c) + PrefillCap(c) <= RawCap(c) + 1
  <2> HIDE DEF n
  <2> QED  BY <1>1, <1>2, <1>7, ConfigType
<1> HIDE DEF n
<1> QED  BY <1>1, <1>7, <1>8, <1>9, ConfigType

(* A history is a sequence of tokens, and so is every beginning of it.     *)
LEMMA HistoryType ==
  ASSUME NEW h \in Histories
  PROVE  /\ h \in Seq(Tokens) /\ Len(h) \in Nat /\ (h # <<>> <=> Len(h) > 0)
         /\ h # Unknown
         /\ \A n \in 0..Len(h) : /\ SubSeq(h, 1, n) \in Histories
                                 /\ Len(SubSeq(h, 1, n)) = n
<1>1. h \in Seq(Tokens) /\ Len(h) \in Nat
  BY HistoriesArePrefixClosed, LenProperties
<1>2. h # <<>> <=> Len(h) > 0
  BY <1>1, EmptySeq
<1>3. h # Unknown
  <2>1. ASSUME h = Unknown PROVE FALSE
    <3>1. h = <<Lost>> /\ Len(h) = 1 /\ h[1] = Lost
      BY <2>1 DEF Unknown
    <3>2. h[1] \in Tokens
      BY <1>1, <3>1, ElementOfSeq
    <3> QED  BY <3>1, <3>2, LostIsNoToken
  <2> QED  BY <2>1
<1> QED  BY <1>1, <1>2, <1>3, HistoriesArePrefixClosed, Part

(* A frontier at the end of a history serves it.                           *)
LEMMA ServesItself ==
  ASSUME NEW h \in Histories
  PROVE  Serves(h, h)
<1>1. Len(h) <= Len(h) /\ h # Unknown
  BY HistoryType
<1> QED  BY <1>1 DEF Serves, IsPrefix
-----------------------------------------------------------------------------
(* A history that was continued is the beginning of the result.            *)
LEMMA Prefixed ==
  ASSUME NEW S, NEW h \in Seq(S), NEW ts \in Seq(S)
  PROVE  SubSeq(h \o ts, 1, Len(h)) = h
<1> DEFINE g == h \o ts
<1>1. /\ g \in Seq(S) /\ Len(g) = Len(h) + Len(ts) /\ Len(h) \in Nat /\ Len(ts) \in Nat
      /\ \A i \in 1..Len(h) : g[i] = h[i]
  BY ConcatProperties, LenProperties
<1> HIDE DEF g
<1>2. Len(h) \in 0..Len(g)
  BY <1>1
<1>3. /\ SubSeq(g, 1, Len(h)) \in Seq(S) /\ Len(SubSeq(g, 1, Len(h))) = Len(h)
      /\ \A i \in 1..Len(h) : SubSeq(g, 1, Len(h))[i] = h[i]
  BY <1>1, <1>2, Part
<1>4. SubSeq(g, 1, Len(h)) = h
  BY <1>3, SeqEqual
<1> QED  BY <1>4 DEF g

(* A forward of tokens ts after history h, rows of which are in the ring   *)
(* from low on: those of the history it makes are from any later position  *)
(* that lies within a ring of its end.                                     *)
LEMMA ForwardStores ==
  ASSUME conf \in Configs, conf' = conf,
         NEW h \in Histories, NEW ts \in Seq(Tokens), h \o ts \in Histories,
         Forward(h, ts), Sees(h, Len(ts)),
         NEW low \in Nat, Stored(h, low),
         NEW more \in Nat, low <= more, Len(h \o ts) <= more + cap
  PROVE  front' = h \o ts /\ Stored(h \o ts, more)'
<1> DEFINE g == h \o ts
<1>1. /\ Len(h) \in Nat /\ Len(ts) \in Nat /\ Len(g) = Len(h) + Len(ts)
      /\ h \in Seq(Tokens) /\ g \in Seq(Tokens)
  BY HistoryType, LenProperties, ConcatProperties
<1>2. front' = g
  BY DEF Forward
<1>3. cap \in Nat \ {0} /\ cap' = cap
  BY RingSize DEF cap
<1>4. ASSUME NEW p \in more..Len(g) - 1
      PROVE  raw'[p % cap] = SubSeq(g, 1, p + 1)
  <2> DEFINE i == p % cap
             ps == {q \in Len(h)..Len(h) + Len(ts) - 1 : q % cap = i}
  <2>1. p \in Nat /\ p <= Len(g) - 1 /\ more <= p
    BY <1>1
  <2>2. i \in 0..cap - 1
    BY <1>3, <2>1
  <2>3. raw'[i] = Row(h, ts, i)
    <3> HIDE DEF i
    <3> QED  BY <2>2 DEF Forward
  <2>4. \A q \in ps : q \in Nat /\ q % cap = p % cap /\ q <= Len(g) - 1 /\ q >= Len(h)
    BY <1>1
  <2>5. CASE p >= Len(h)
    <3>1. p \in ps
      BY <1>1, <2>1, <2>5
    <3>2. ASSUME NEW q \in ps PROVE q <= p
      <4>1. q \in Nat /\ q % cap = p % cap /\ q <= Len(g) - 1
        BY <2>4
      <4>2. q < p + cap
        BY <1>1, <1>3, <2>1, <4>1
      <4>3. CASE p < q
        BY <1>3, <2>1, <4>1, <4>2, <4>3, RowsApart
      <4> QED  BY <2>1, <4>1, <4>3
    <3>3. ps \subseteq Len(h)..Len(h) + Len(ts) - 1 /\ ps # {}
      BY <3>1
    <3>4. Max(ps) \in ps /\ p <= Max(ps)
      <4> DEFINE a == Len(h)
                 b == Len(h) + Len(ts) - 1
      <4>1. a \in Int /\ b \in Int /\ ps \subseteq a..b
        BY <1>1, <3>3
      <4> HIDE DEF ps, a, b
      <4> QED  BY <3>1, <3>3, <4>1, Largest
    <3>5. Max(ps) = p
      <4>1. Max(ps) <= p /\ Max(ps) \in Nat
        <5> HIDE DEF ps
        <5> QED  BY <2>4, <3>2, <3>4
      <4> HIDE DEF ps
      <4> QED  BY <2>1, <3>4, <4>1
    <3>6. Row(h, ts, i) = SubSeq(g, 1, Max(ps) + 1)
      BY <3>3 DEF Row
    <3> HIDE DEF ps
    <3> QED  BY <2>3, <3>5, <3>6
  <2>6. CASE p < Len(h)
    <3>1. ps = {}
      <4> SUFFICES ASSUME NEW q \in ps PROVE FALSE
        OBVIOUS
      <4>1. q \in Nat /\ q % cap = p % cap /\ q <= Len(g) - 1 /\ q >= Len(h)
        BY <2>4
      <4>2. p < q /\ q < p + cap
        BY <1>1, <1>3, <2>1, <2>6, <4>1
      <4> QED  BY <1>3, <2>1, <4>1, <4>2, RowsApart
    <3>2. raw'[i] = raw[i]
      BY <2>3, <3>1 DEF Row
    <3>3. p \in low..Len(h) - 1
      BY <1>1, <2>1, <2>6
    <3>4. raw[i] = SubSeq(h, 1, p + 1)
      BY <3>3 DEF Stored, HoldsRow
    <3>5. SubSeq(g, 1, p + 1) = SubSeq(h, 1, p + 1)
      <4>1. Len(h) \in 0..Len(g) /\ p + 1 \in 0..Len(h)
        BY <1>1, <2>1, <2>6
      <4>2. SubSeq(g, 1, Len(h)) = h
        BY <1>1, Prefixed
      <4> HIDE DEF g
      <4> QED  BY <1>1, <4>1, <4>2, PartOfPart
    <3> QED  BY <3>2, <3>4, <3>5
  <2> QED  BY <1>1, <2>1, <2>5, <2>6
<1>5. Stored(g, more)'
  <2>1. Len(g)' = Len(g)
    OBVIOUS
  <2> HIDE DEF g
  <2> QED  BY <1>3, <1>4, <2>1 DEF Stored, HoldsRow
<1> QED  BY <1>2, <1>5
-----------------------------------------------------------------------------
(* What is read next fits beside the window, unless a chunk too large is   *)
(* seen not to.                                                            *)
LEMMA Fitting ==
  ASSUME conf \in Configs, NEW h \in Histories, NEW n \in Nat,
         NEW low \in Nat, low <= Most(0, Len(h) - window + 1),
         Serves(front, h), Stored(h, low),
         TooLarge(conf) => HasRoom(h, n),
         Len(h) + n <= conf.ctx, n <= 1 \/ n <= PrefillCap(conf)
  PROVE  Sees(h, n)
<1>1. /\ window \in Nat \ {0} /\ cap \in Nat \ {0} /\ PrefillCap(conf) \in Nat
      /\ window <= cap /\ cap <= conf.ctx /\ conf.ctx \in Nat
      /\ cap < conf.ctx /\ ~TooLarge(conf) => window + PrefillCap(conf) <= cap + 1
  BY RingSize, ConfigType DEF cap, window
<1>2. Len(h) \in Nat /\ (h = <<>> <=> Len(h) = 0)
  BY HistoryType
<1>3. ASSUME NEW p \in Reach(h) PROVE p \in Nat /\ p \in low..Len(h) - 1 /\ p >= Len(h) - window + 1
  BY <1>1, <1>2 DEF Reach, Most
<1>4. \A p \in Reach(h) : HoldsRow(h, p)
  BY <1>3 DEF Stored
<1>5. CASE TooLarge(conf)
  BY <1>4, <1>5 DEF Sees, GraphServes
<1>6. CASE ~TooLarge(conf)
  <2>1. n <= cap
    BY <1>1, <1>2, <1>6
  <2>2. ASSUME NEW p \in Reach(h), p \in Overwritten(h, n) PROVE FALSE
    <3>1. p <= Len(h) + n - cap - 1 /\ p >= Len(h) - window + 1 /\ p \in Nat /\ p <= Len(h) - 1
      BY <1>1, <1>2, <1>3, <2>2 DEF Overwritten
    <3> QED  BY <1>1, <1>2, <1>6, <3>1
  <2> QED  BY <1>4, <2>1, <2>2 DEF Sees, GraphServes, HasRoom
<1> QED  BY <1>5, <1>6

(* A forward leaves histories, or what is of no history.                   *)
LEMMA ForwardType ==
  ASSUME conf \in Configs, conf' = conf, raw \in [0..cap - 1 -> Contents],
         NEW h \in Histories, NEW ts \in Seq(Tokens), h \o ts \in Histories, Forward(h, ts)
  PROVE  front' \in Contents /\ raw' \in [0..cap' - 1 -> Contents]
<1> DEFINE g == h \o ts
<1>1. /\ Len(h) \in Nat /\ Len(ts) \in Nat /\ Len(g) = Len(h) + Len(ts)
      /\ g \in Histories
  BY HistoryType, LenProperties, ConcatProperties
<1>2. front' \in Contents
  BY <1>1 DEF Forward, Contents
<1>3. ASSUME NEW i \in 0..cap - 1 PROVE Row(h, ts, i) \in Contents
  <2> DEFINE a == Len(h)
             b == Len(h) + Len(ts) - 1
             ps == {q \in a..b : q % cap = i}
  <2>1. CASE ps = {}
    <3>1. Row(h, ts, i) = raw[i]
      BY <2>1 DEF Row
    <3> QED  BY <3>1
  <2>2. CASE ps # {} /\ Sees(h, Len(ts))
    <3>1. Row(h, ts, i) = SubSeq(g, 1, Max(ps) + 1)
      BY <2>2 DEF Row
    <3>2. a \in Int /\ b \in Int /\ ps \subseteq a..b
      BY <1>1
    <3>3. Max(ps) \in ps
      <4> HIDE DEF ps, a, b
      <4> QED  BY <2>2, <3>2, Largest
    <3>4. Max(ps) \in a..b
      <4> HIDE DEF a, b
      <4> QED  BY <3>2, <3>3
    <3>5. Max(ps) + 1 \in 0..Len(g)
      <4> DEFINE mx == Max(ps)
      <4>1. mx \in a..b
        BY <3>4
      <4> HIDE DEF mx, ps
      <4>2. mx + 1 \in 0..Len(g)
        BY <1>1, <4>1
      <4> QED  BY <4>2 DEF mx
    <3>6. SubSeq(g, 1, Max(ps) + 1) \in Histories
      <4> HIDE DEF g, ps
      <4> QED  BY <1>1, <3>5, HistoryType
    <3> QED  BY <3>1, <3>6 DEF Contents
  <2>3. CASE ps # {} /\ ~Sees(h, Len(ts))
    <3>1. Row(h, ts, i) = Unknown
      BY <2>3 DEF Row
    <3> QED  BY <3>1 DEF Contents
  <2> QED  BY <2>1, <2>2, <2>3
<1>4. cap' = cap
  BY DEF cap
<1> QED  BY <1>2, <1>3, <1>4 DEF Forward

(* The types of a sync.                                                    *)
LEMMA JobType ==
  ASSUME TypeOK
  PROVE  /\ job.prompt \in Histories /\ job.start \in Nat /\ job.pos \in Nat
         /\ job.reports \in BOOLEAN /\ job.reporting \in BOOLEAN
         /\ conf \in Configs /\ ckpt \in Histories
         /\ Len(job.prompt) \in Nat /\ Len(ckpt) \in Nat
BY HistoryType DEF TypeOK

(* The window of what was read before begins no later. *)
LEMMA WindowBegins ==
  ASSUME NEW w \in Nat \ {0}, NEW a \in Nat, NEW b \in Nat, a <= b
  PROVE  /\ Most(0, a - w) \in Nat /\ Most(0, a - w) <= Most(0, b - w)
         /\ Most(0, a - w) <= Most(0, b - w + 1)
BY DEF Most

(* What lies within a ring of where a window begins.                       *)
LEMMA WindowHolds ==
  ASSUME NEW w \in Nat \ {0}, NEW c \in Nat, w <= c, NEW a \in Nat, NEW e \in Nat
  PROVE  /\ e <= a - w + c \/ e <= c => e <= Most(0, a - w) + c
         /\ e <= Most(0, e - w) + c
BY DEF Most

(* The next n tokens of a prompt.                                          *)
LEMMA ReadOn ==
  ASSUME CacheInv, job.how # "none", NEW n \in 1..Left, conf' = conf,
         Forward(Read, Ahead(n)), n <= PrefillCap(conf),
         NEW g, g = SubSeq(job.prompt, 1, job.pos + n)
  PROVE  /\ front' \in Contents /\ raw' \in [0..cap' - 1 -> Contents]
         /\ g \in Histories /\ Len(g) = job.pos + n
         /\ ~spoiled' => /\ front' = g /\ Serves(front', g)
                         /\ \A more \in Nat : Low <= more /\ job.pos + n <= more + cap
                                                 => Stored(g, more)'
<1> DEFINE p == job.prompt
           k == job.pos
<1>1. /\ TypeOK /\ p \in Histories /\ k \in Nat /\ Len(p) \in Nat /\ conf \in Configs
      /\ k <= Len(p) /\ job.start <= k /\ job.start \in Nat /\ Len(p) < conf.ctx
  BY JobType DEF CacheInv, JobOK
<1>2. n \in Nat /\ k \in 0..Len(p) /\ k + n \in k..Len(p) /\ k + n \in 0..Len(p)
  BY <1>1 DEF Left
<1>3. p \in Seq(Tokens)
  BY <1>1, HistoryType
<1>4. PICK h : h = Read
  OBVIOUS
<1>5. PICK ts : ts = Ahead(n)
  OBVIOUS
<1>6. h \in Histories /\ Len(h) = k /\ h = SubSeq(p, 1, k)
  BY <1>1, <1>2, <1>4, HistoryType DEF Read
<1>7. h \o ts = g /\ ts \in Seq(Tokens) /\ Len(ts) = n
  <2>1. ts = SubSeq(p, k + 1, k + n)
    BY <1>5 DEF Ahead
  <2>2. g = SubSeq(p, 1, k + n) /\ k + n - k = n
    BY <1>1, <1>2
  <2> HIDE DEF p, k
  <2>3. /\ SubSeq(p, 1, k) \o SubSeq(p, k + 1, k + n) = SubSeq(p, 1, k + n)
        /\ SubSeq(p, k + 1, k + n) \in Seq(Tokens)
        /\ Len(SubSeq(p, k + 1, k + n)) = k + n - k
    BY <1>2, <1>3, Joined
  <2> QED  BY <1>6, <2>1, <2>2, <2>3
<1>8. g \in Histories /\ Len(g) = k + n
  BY <1>1, <1>2, HistoryType
<1>9. Forward(h, ts)
  BY <1>4, <1>5
<1>10. front' \in Contents /\ raw' \in [0..cap' - 1 -> Contents]
  BY <1>1, <1>6, <1>7, <1>8, <1>9, ForwardType DEF TypeOK
<1>11. ASSUME ~spoiled'
       PROVE  /\ front' = g /\ Serves(front', g)
              /\ \A more \in Nat : Low <= more /\ k + n <= more + cap => Stored(g, more)'
  <2>0. ~spoiled /\ (TooLarge(conf) => HasRoom(h, n))
    BY <1>7, <1>9, <1>11 DEF Forward
  <2>1. Serves(front, h) /\ Stored(h, Low)
    BY <1>4, <2>0 DEF CacheInv, GraphOK
  <2>2. window \in Nat \ {0} /\ cap \in Nat \ {0}
    BY <1>1, RingSize DEF window, cap
  <2>3. PICK low : low = Low
    OBVIOUS
  <2>4. low \in Nat /\ low <= Most(0, k - window + 1)
    <3>1. Back(Read) = Most(0, k - window)
      BY <1>4, <1>6 DEF Back
    <3>2. low = Most(0, job.start - window) \/ low = Most(0, k - window)
      BY <2>3, <3>1 DEF Low
    <3>3. k <= k
      BY <1>1
    <3> QED  BY <1>1, <2>2, <3>2, <3>3, WindowBegins
  <2>5. k + n <= conf.ctx
    BY <1>1, <1>2, ConfigType
  <2>6. Sees(h, n) /\ Stored(h, low)
    BY <1>1, <1>2, <1>6, <2>0, <2>1, <2>3, <2>4, <2>5, Fitting
  <2>7. front' = g
    BY <1>7, <1>9, <2>6 DEF Forward
  <2>8. Serves(front', g)
    BY <1>8, <2>7, ServesItself
  <2>9. ASSUME NEW more \in Nat, low <= more, k + n <= more + cap
        PROVE  Stored(g, more)'
    <3>1. Len(h \o ts) <= more + cap
      BY <1>7, <1>8, <2>9
    <3> QED  BY <1>1, <1>6, <1>7, <1>8, <1>9, <2>4, <2>6, <2>9, <3>1, ForwardStores
  <2> QED  BY <2>3, <2>7, <2>8, <2>9
<1> QED  BY <1>8, <1>10, <1>11
-----------------------------------------------------------------------------
(* What a stream has read of at most m tokens from a on lies within a ring *)
(* of the window before a.                                                 *)
LEMMA StreamReach ==
  ASSUME NEW len \in Nat, NEW a \in Nat, NEW m \in Nat, NEW w \in Nat,
         NEW c \in Nat, NEW x \in Nat, NEW e \in Nat,
         len - a <= m, e < len, len < x, c <= x, c < x => w + m <= c + 1
  PROVE  e <= a - w + c \/ e <= c
OBVIOUS

Jobs == [how : {"none", "chunks", "stream", "tokens", "whole"},
         prompt : Histories, start : Nat, pos : Nat,
         reports : BOOLEAN, reporting : BOOLEAN]

(* Reading on and reporting leave the rest of a sync alone.                *)
LEMMA JobMoves ==
  ASSUME TypeOK, NEW n \in Nat, NEW b \in BOOLEAN,
         job' = [job EXCEPT !.pos = n, !.reporting = b]
  PROVE  /\ job' \in Jobs /\ job'.how = job.how /\ job'.prompt = job.prompt
         /\ job'.start = job.start /\ job'.pos = n /\ job'.reporting = b
         /\ job'.reports = job.reports
<1>1. job \in Jobs
  BY DEF TypeOK, Jobs
<1>2. [job EXCEPT !.pos = n] \in Jobs
  BY <1>1 DEF Jobs
<1> QED  BY <1>1, <1>2 DEF Jobs

(* Reading on leaves the rest of a sync alone.                             *)
LEMMA JobReads ==
  ASSUME TypeOK, NEW n \in Nat, job' = [job EXCEPT !.pos = n]
  PROVE  /\ job' \in Jobs /\ job'.how = job.how /\ job'.prompt = job.prompt
         /\ job'.start = job.start /\ job'.pos = n /\ job'.reporting = job.reporting
         /\ job'.reports = job.reports
<1>1. job \in Jobs
  BY DEF TypeOK, Jobs
<1> QED  BY <1>1 DEF Jobs

(* Reading n tokens more leaves the graph at the end of what is read then. *)
LEMMA GraphAdvances ==
  ASSUME CacheInv, job.how # "none", NEW n \in 1..Left, conf' = conf,
         Forward(Read, Ahead(n)), n <= PrefillCap(conf),
         job'.how = job.how, job'.prompt = job.prompt, job'.start = job.start,
         job'.pos = job.pos + n
  PROVE  /\ front' \in Contents /\ raw' \in [0..cap' - 1 -> Contents]
         /\ Read' \in Histories /\ Read' # <<>>
         /\ spoiled' \in BOOLEAN /\ (spoiled => spoiled')
         /\ ~spoiled' => front' = Read' /\ Serves(front', Read') /\ Stored(Read, Low)'
<1>1. PICK g : g = SubSeq(job.prompt, 1, job.pos + n)
  OBVIOUS
<1>2. Read' = g
  BY <1>1 DEF Read
<1>3. /\ TypeOK /\ job.pos \in Nat /\ Len(job.prompt) \in Nat /\ conf \in Configs
      /\ job.pos <= Len(job.prompt) /\ job.start <= job.pos /\ job.start \in Nat
      /\ Len(job.prompt) < conf.ctx /\ n \in Nat \ {0} /\ job.pos + n <= Len(job.prompt)
  BY JobType DEF CacheInv, JobOK, Left
<1>4. /\ front' \in Contents /\ raw' \in [0..cap' - 1 -> Contents]
      /\ g \in Histories /\ Len(g) = job.pos + n
      /\ ~spoiled' => /\ front' = g /\ Serves(front', g)
                   /\ \A more \in Nat : Low <= more /\ job.pos + n <= more + cap
                                           => Stored(g, more)'
  BY <1>1, ReadOn
<1>5. g # <<>>
  BY <1>3, <1>4, HistoryType
<1>s. spoiled' \in BOOLEAN /\ (spoiled => spoiled')
  <2>1. spoiled \in BOOLEAN
    BY <1>3 DEF TypeOK
  <2> QED  BY <2>1 DEF Forward
<1>6. /\ window \in Nat \ {0} /\ cap \in Nat \ {0} /\ window <= cap /\ cap <= conf.ctx
      /\ cap < conf.ctx => window + StreamMax <= cap + 1
      /\ window' = window /\ cap' = cap /\ conf.ctx \in Nat /\ StreamMax \in Nat
  <2>1. window' = window /\ cap' = cap
    BY DEF window, cap
  <2>2. /\ RawWindow(conf) \in Nat \ {0} /\ RawCap(conf) \in Nat \ {0}
        /\ RawWindow(conf) <= RawCap(conf) /\ RawCap(conf) <= conf.ctx
        /\ RawCap(conf) < conf.ctx => RawWindow(conf) + StreamMax <= RawCap(conf) + 1
    BY <1>3, RingSize
  <2>3. conf.ctx \in Nat /\ StreamMax \in Nat
    BY <1>3, ConfigType
  <2> QED  BY <2>1, <2>2, <2>3 DEF window, cap
<1>7. PICK more : more = Low'
  OBVIOUS
<1>8. Back(Read) = Most(0, job.pos - window)
  <2>1. Len(Read) = job.pos
    <3>1. job.prompt \in Histories /\ job.pos \in 0..Len(job.prompt)
      BY <1>3, JobType
    <3> QED  BY <3>1, HistoryType DEF Read
  <2> QED  BY <2>1 DEF Back
<1>9. Back(Read)' = Most(0, job.pos + n - window)
  <2>1. Back(Read)' = Most(0, Len(Read') - window')
    BY DEF Back
  <2>2. PICK e : e = Len(Read')
    OBVIOUS
  <2>3. e = job.pos + n /\ window' = window
    BY <1>2, <1>4, <1>6, <2>2
  <2>4. Back(Read)' = Most(0, e - window)
    BY <2>1, <2>2, <2>3
  <2>5. e - window = job.pos + n - window
    BY <1>3, <1>6, <2>3
  <2> QED  BY <2>4, <2>5
<1>10. Left' = Len(job.prompt) - (job.pos + n) /\ Left = Len(job.prompt) - job.pos
  BY DEF Left
<1>11. more \in Nat /\ Low <= more /\ job.pos + n <= more + cap
  <2>1. CASE job.how = "stream" /\ Left' > 0
    <3>1. more = Most(0, job.start - window) /\ Low = Most(0, job.start - window)
      BY <1>3, <1>6, <1>7, <1>10, <2>1 DEF Low
    <3>2. Len(job.prompt) - job.start <= StreamMax
      BY <2>1 DEF CacheInv, JobOK, InStream
    <3>3. job.pos + n <= job.start - window + cap \/ job.pos + n <= cap
      <4>1. PICK e : e = job.pos + n
        OBVIOUS
      <4>2. PICK len : len = Len(job.prompt)
        OBVIOUS
      <4>3. PICK ctx : ctx = conf.ctx
        OBVIOUS
      <4>4. /\ e \in Nat /\ len \in Nat /\ ctx \in Nat /\ e < len /\ len < ctx
            /\ len - job.start <= StreamMax
        <5>1. e \in Nat /\ len \in Nat /\ ctx \in Nat /\ len < ctx
          BY <1>3, <1>6, <4>1, <4>2, <4>3
        <5>2. len - e > 0
          BY <1>10, <2>1, <4>1, <4>2
        <5> QED  BY <3>2, <4>2, <5>1, <5>2
      <4>5. cap <= ctx /\ (cap < ctx => window + StreamMax <= cap + 1)
        BY <1>6, <4>3
      <4>6. /\ job.start \in Nat /\ StreamMax \in Nat /\ window \in Nat /\ cap \in Nat
            /\ e < len /\ len < ctx /\ len - job.start <= StreamMax
        BY <1>3, <1>6, <4>4
      <4>7. e <= job.start - window + cap \/ e <= cap
        BY <4>4, <4>5, <4>6, StreamReach, Zenon
      <4> QED  BY <4>1, <4>7
    <3>4. job.start <= job.start /\ job.pos + n \in Nat
      BY <1>3
    <3> QED  BY <1>3, <1>6, <3>1, <3>3, <3>4, WindowBegins, WindowHolds
  <2>2. CASE ~(job.how = "stream" /\ Left' > 0)
    <3>1. more = Most(0, job.pos + n - window)
      BY <1>7, <1>9, <2>2 DEF Low
    <3>2. Low = Most(0, job.start - window) \/ Low = Most(0, job.pos - window)
      BY <1>8 DEF Low
    <3>3. PICK e : e = job.pos + n
      OBVIOUS
    <3>4. PICK a : a \in Nat /\ a <= e /\ Low = Most(0, a - window)
      <4>1. job.start \in Nat /\ job.start <= e
        BY <1>3, <3>3
      <4>2. job.pos \in Nat /\ job.pos <= e
        BY <1>3, <3>3
      <4> QED  BY <3>2, <4>1, <4>2, Zenon
    <3>5. e \in Nat /\ more = Most(0, e - window)
      <4>1. e \in Nat /\ job.pos \in Nat /\ n \in Nat /\ window \in Nat
        BY <1>3, <1>6, <3>3
      <4>2. e - window = job.pos + n - window
        BY <3>3, <4>1
      <4> QED  BY <3>1, <4>1, <4>2
    <3>6. more \in Nat /\ Low <= more
      <4>1. window \in Nat \ {0} /\ e \in Nat /\ a \in Nat /\ a <= e /\ e <= e
        BY <1>6, <3>4, <3>5
      <4>2. Most(0, e - window) \in Nat /\ Most(0, a - window) <= Most(0, e - window)
        BY <4>1, WindowBegins, Zenon
      <4> QED  BY <3>4, <3>5, <4>2, Zenon
    <3>7. e <= more + cap
      <4>1. e <= Most(0, e - window) + cap
        BY <1>6, <3>5, WindowHolds
      <4> QED  BY <3>5, <4>1
    <3> QED  BY <3>3, <3>6, <3>7
  <2> QED  BY <2>1, <2>2
<1>12. ~spoiled' => Stored(g, more)'
  BY <1>4, <1>11
<1>13. ~spoiled' => Stored(Read, Low)'
  BY <1>2, <1>7, <1>12
<1> QED  BY <1>2, <1>4, <1>5, <1>13, <1>s

(* What was saved stays as it is.                                          *)
LEMMA FileSame ==
  ASSUME FileOK, file' = file
  PROVE  FileOK'
BY DEF FileOK, Serves

(* A chunk is of what is left, and not larger than the scratch.            *)
LEMMA ChunkSizes ==
  ASSUME CacheInv, Running("chunks")
  PROVE  ChunkSize \in 1..Left /\ ChunkSize <= PrefillCap(conf)
<1>1. /\ conf \in Configs /\ job.pos \in Nat /\ Left \in Nat /\ Left > 0
  BY JobType DEF CacheInv, Running, Left, JobOK
<1>2. /\ PrefillCap(conf) \in Nat \ {0} /\ cap \in Nat \ {0}
  BY <1>1, RingSize DEF cap
<1> DEFINE m == job.pos % PrefillCap(conf)
<1>3. m \in 0..PrefillCap(conf) - 1
  BY <1>1, <1>2, RowRange
<1>4. ChunkCap \in 1..PrefillCap(conf)
  BY <1>2 DEF ChunkCap, Least
<1> DEFINE local == IF job.start = 0 THEN ChunkCap ELSE Least(ChunkCap, PrefillCap(conf) - m)
<1>5. local \in 1..PrefillCap(conf)
  <2> HIDE DEF m
  <2> QED  BY <1>2, <1>3, <1>4 DEF Least
<1>6. ChunkSize = Least(Left, local)
  BY DEF ChunkSize
<1> HIDE DEF local
<1> QED  BY <1>1, <1>2, <1>5, <1>6 DEF Least

(* Chunk: the graph follows, and the checkpoint with it.                   *)
LEMMA ChunkKeeps ==
  ASSUME CacheInv, Chunk
  PROVE  CacheInv'
<1> DEFINE n == ChunkSize
<1>1. n \in 1..Left /\ n <= PrefillCap(conf)
  BY ChunkSizes DEF Chunk
<1>2. /\ job.how = "chunks" /\ conf' = conf /\ file' = file /\ faults' = faults
      /\ Forward(Read, Ahead(n)) /\ logits' = front'
      /\ ckpt' = SubSeq(job.prompt, 1, job.pos + n) /\ valid' = TRUE
      /\ job' = [job EXCEPT !.pos = job.pos + n, !.reporting = TRUE]
  BY DEF Chunk, Running, Reported
<1>3. TypeOK /\ JobOK /\ FileOK
  BY DEF CacheInv
<1>4. /\ job.pos \in Nat /\ n \in Nat /\ job.pos + n <= Len(job.prompt) /\ job.start <= job.pos
      /\ Len(job.prompt) \in Nat /\ job.start \in Nat /\ job.pos + n \in Nat
  BY <1>1, <1>2, <1>3, JobType DEF JobOK, Left
<1> HIDE DEF n
<1>5. /\ job'.how = job.how /\ job'.prompt = job.prompt /\ job'.start = job.start
      /\ job'.pos = job.pos + n /\ job'.reporting = TRUE /\ job'.reports = job.reports
      /\ job' \in Jobs
  BY <1>2, <1>3, <1>4, JobMoves
<1>6. /\ front' \in Contents /\ raw' \in [0..cap' - 1 -> Contents]
      /\ Read' \in Histories /\ Read' # <<>>
      /\ spoiled' \in BOOLEAN /\ (spoiled => spoiled')
      /\ ~spoiled' => front' = Read' /\ Serves(front', Read') /\ Stored(Read, Low)'
  BY <1>1, <1>2, <1>5, GraphAdvances
<1>7. ckpt' = Read'
  BY <1>2, <1>5 DEF Read
<1>8. TypeOK'
  <2>1. ckpt' \in Histories /\ logits' \in Contents
    BY <1>2, <1>6, <1>7
  <2> QED  BY <1>2, <1>3, <1>5, <1>6, <2>1 DEF TypeOK, Jobs
<1>9. JobOK'
  BY <1>2, <1>3, <1>4, <1>5, <1>7 DEF JobOK
<1>10. ~spoiled' => GraphOK'
  BY <1>2, <1>5, <1>6, <1>7 DEF GraphOK
<1>11. FileOK'
  BY <1>2, <1>3, FileSame
<1> QED  BY <1>2, <1>6, <1>7, <1>8, <1>9, <1>10, <1>11 DEF CacheInv
-----------------------------------------------------------------------------
(* Where nothing is left, the whole prompt was read.                       *)
LEMMA AllRead ==
  ASSUME TypeOK, Left = 0
  PROVE  Read = job.prompt
<1>1. job.prompt \in Seq(Tokens) /\ job.pos = Len(job.prompt)
  BY JobType, HistoryType DEF Left
<1> QED  BY <1>1, SubSeqFull DEF Read

(* One token fits whatever is left.                                        *)
LEMMA OneToken ==
  ASSUME CacheInv, job.how # "none", Left > 0
  PROVE  /\ 1 \in 1..Left /\ 1 <= PrefillCap(conf)
         /\ job.pos \in Nat /\ job.pos + 1 \in Nat /\ Len(job.prompt) \in Nat
         /\ job.pos + 1 <= Len(job.prompt) /\ job.start \in Nat /\ job.start <= job.pos
         /\ Left = Len(job.prompt) - job.pos /\ job.prompt # <<>>
         /\ Left \in Nat /\ Left # 0
<1>1. /\ conf \in Configs /\ job.pos \in Nat /\ Len(job.prompt) \in Nat /\ job.start \in Nat
      /\ job.start <= job.pos /\ job.prompt # <<>>
  BY JobType DEF CacheInv, JobOK
<1>2. PrefillCap(conf) \in Nat \ {0}
  BY <1>1, RingSize
<1>3. Left = Len(job.prompt) - job.pos
  BY DEF Left
<1> QED  BY <1>1, <1>2, <1>3

(* StreamToken: the graph goes on, the checkpoint at the last one.         *)
LEMMA StreamTokenKeeps ==
  ASSUME CacheInv, StreamToken
  PROVE  CacheInv'
<1>1. /\ job.how = "stream" /\ ~job.reporting /\ Left > 0
      /\ conf' = conf /\ file' = file /\ faults' = faults
      /\ Forward(Read, Ahead(1))
  BY DEF StreamToken, Running
<1>2. TypeOK /\ JobOK /\ FileOK /\ InStream
  BY <1>1 DEF CacheInv, JobOK
<1>3. /\ 1 \in 1..Left /\ 1 <= PrefillCap(conf)
      /\ job.pos \in Nat /\ job.pos + 1 \in Nat /\ Len(job.prompt) \in Nat
      /\ job.pos + 1 <= Len(job.prompt) /\ job.start \in Nat /\ job.start <= job.pos
      /\ Left = Len(job.prompt) - job.pos /\ job.prompt # <<>>
      /\ Left \in Nat /\ Left # 0
  BY <1>1, OneToken
<1>4. /\ job'.how = job.how /\ job'.prompt = job.prompt /\ job'.start = job.start
      /\ job'.pos = job.pos + 1 /\ job'.reports = job.reports /\ job' \in Jobs
      /\ job'.reporting = (Left = 1 /\ job.reports)
  <2>1. CASE job' = [job EXCEPT !.pos = job.pos + 1] /\ ~(Left = 1 /\ job.reports)
    BY <1>1, <1>2, <1>3, <2>1, JobReads DEF TypeOK
  <2>2. CASE job' = [job EXCEPT !.pos = job.pos + 1, !.reporting = TRUE] /\ Left = 1 /\ job.reports
    BY <1>1, <1>2, <1>3, <2>2, JobMoves
  <2>3. Left > 1 <=> ~(Left = 1)
    BY <1>1, <1>3
  <2> QED  BY <2>1, <2>2, <2>3 DEF StreamToken, Reported
<1>5. /\ front' \in Contents /\ raw' \in [0..cap' - 1 -> Contents]
      /\ Read' \in Histories /\ Read' # <<>>
      /\ spoiled' \in BOOLEAN /\ (spoiled => spoiled')
      /\ ~spoiled' => front' = Read' /\ Serves(front', Read') /\ Stored(Read, Low)'
  BY <1>1, <1>3, <1>4, GraphAdvances
<1>6. /\ Left' = Left - 1 /\ Left \in Nat
      /\ job'.prompt # <<>> /\ Len(job'.prompt) < conf'.ctx
      /\ job'.start <= job'.pos /\ job'.pos <= Len(job'.prompt)
      /\ Len(job'.prompt) - job'.start <= StreamMax
  <2>1. Left' = Len(job'.prompt) - job'.pos
    BY DEF Left
  <2>2. Len(job.prompt) < conf.ctx
    BY <1>1, <1>2 DEF JobOK
  <2>3. Len(job.prompt) - job.start <= StreamMax
    BY <1>2 DEF InStream
  <2>4. job'.start <= job'.pos /\ job'.pos <= Len(job'.prompt)
    BY <1>3, <1>4
  <2>5. Left' = Left - 1
    BY <1>3, <1>4, <2>1
  <2> QED  BY <1>1, <1>3, <1>4, <2>2, <2>3, <2>4, <2>5
<1>7. ckpt = SubSeq(job.prompt, 1, job.start) /\ (~job.reports => job.start = 0)
  BY <1>2, <1>3 DEF InStream
<1>8. CASE Left > 1
  <2>1. ckpt' = ckpt /\ valid' = valid /\ logits' = logits
    BY <1>8 DEF StreamToken
  <2>2. TypeOK'
    BY <1>1, <1>2, <1>4, <1>5, <2>1 DEF TypeOK, Jobs
  <2>3. Left' > 0 /\ Left' # 0 /\ ~job'.reporting
    <3>1. Left # 1
      BY <1>3, <1>8
    <3>2. Left' > 0 /\ Left' # 0
      BY <1>3, <1>6, <1>8
    <3> QED  BY <1>4, <3>1, <3>2
  <2>4. InStream'
    BY <1>4, <1>6, <1>7, <2>1, <2>3 DEF InStream
  <2>5. JobOK'
    BY <1>1, <1>4, <1>6, <2>4 DEF JobOK
  <2>6. ~spoiled' => GraphOK'
    <3>1. ~spoiled /\ ckpt # <<>> => logits = ckpt
      BY <1>1 DEF CacheInv, GraphOK
    <3> QED  BY <1>1, <1>4, <1>5, <2>1, <2>3, <3>1 DEF GraphOK
  <2> QED  BY <1>1, <1>2, <2>1, <2>2, <2>5, <2>6, FileSame DEF CacheInv
<1>9. CASE Left = 1
  <2>1. /\ logits' = front'
        /\ IF job.reports THEN ckpt' = SubSeq(job.prompt, 1, job.pos + 1) /\ valid' = TRUE
                          ELSE ckpt' = ckpt /\ valid' = valid
    BY <1>9 DEF StreamToken, Reported
  <2>2. IF job.reports THEN ckpt' = Read' /\ valid' = TRUE ELSE ckpt' = ckpt /\ valid' = valid
    BY <1>4, <2>1 DEF Read
  <2>3. ckpt' \in Histories /\ valid' \in BOOLEAN /\ logits' \in Contents
    BY <1>2, <1>5, <2>1, <2>2 DEF TypeOK
  <2>4. TypeOK'
    BY <1>1, <1>2, <1>4, <1>5, <2>3 DEF TypeOK, Jobs
  <2>5. Left' = 0
    BY <1>6, <1>9
  <2>6. Read' = job'.prompt
    <3>1. job'.pos = Len(job.prompt) /\ job.prompt \in Seq(Tokens)
      BY <1>2, <1>3, <1>4, <1>9, JobType, HistoryType
    <3> QED  BY <1>4, <3>1, SubSeqFull DEF Read
  <2>7. InStream'
    BY <1>4, <1>6, <1>7, <1>9, <2>2, <2>5, <2>6 DEF InStream
  <2>8. JobOK'
    BY <1>1, <1>4, <1>6, <2>7 DEF JobOK
  <2>9. ~spoiled' => GraphOK'
    BY <1>1, <1>4, <1>5, <2>1, <2>5 DEF GraphOK
  <2>10. valid' => ckpt' # <<>>
    BY <1>5, <2>2 DEF CacheInv
  <2> QED  BY <1>1, <1>2, <2>4, <2>8, <2>9, <2>10, FileSame DEF CacheInv
<1> QED  BY <1>1, <1>6, <1>8, <1>9

(* SyncToken: graph and checkpoint go on by one token.                     *)
LEMMA SyncTokenKeeps ==
  ASSUME CacheInv, SyncToken
  PROVE  CacheInv'
<1>1. /\ job.how = "tokens" /\ ~job.reporting /\ Left > 0
      /\ conf' = conf /\ file' = file /\ faults' = faults /\ valid' = valid
      /\ Forward(Read, Ahead(1)) /\ logits' = front'
      /\ ckpt' = Append(ckpt, Ahead(1)[1])
      /\ job' = [job EXCEPT !.pos = job.pos + 1]
  BY DEF SyncToken, Running
<1>2. TypeOK /\ JobOK /\ FileOK /\ ckpt = Read
  BY <1>1 DEF CacheInv, JobOK
<1>3. /\ 1 \in 1..Left /\ 1 <= PrefillCap(conf)
      /\ job.pos \in Nat /\ job.pos + 1 \in Nat /\ Len(job.prompt) \in Nat
      /\ job.pos + 1 <= Len(job.prompt) /\ job.start \in Nat /\ job.start <= job.pos
      /\ Left = Len(job.prompt) - job.pos /\ job.prompt # <<>>
      /\ Left \in Nat /\ Left # 0
  BY <1>1, OneToken
<1>4. /\ job'.how = job.how /\ job'.prompt = job.prompt /\ job'.start = job.start
      /\ job'.pos = job.pos + 1 /\ job'.reports = job.reports /\ job' \in Jobs
      /\ job'.reporting = job.reporting
  BY <1>1, <1>2, <1>3, JobReads
<1>5. /\ front' \in Contents /\ raw' \in [0..cap' - 1 -> Contents]
      /\ Read' \in Histories /\ Read' # <<>>
      /\ spoiled' \in BOOLEAN /\ (spoiled => spoiled')
      /\ ~spoiled' => front' = Read' /\ Serves(front', Read') /\ Stored(Read, Low)'
  BY <1>1, <1>3, <1>4, GraphAdvances
<1>6. ckpt' = Read'
  <2> DEFINE p == job.prompt
             k == job.pos
  <2>1. p \in Seq(Tokens) /\ k \in 0..Len(p) /\ k + 1 \in 1..Len(p)
    <3>1. p \in Seq(Tokens)
      BY <1>2, JobType, HistoryType
    <3>2. k \in Nat /\ Len(p) \in Nat /\ k + 1 <= Len(p)
      BY <1>3
    <3> HIDE DEF p, k
    <3> QED  BY <3>1, <3>2
  <2>2. /\ SubSeq(p, 1, k) \o SubSeq(p, k + 1, k + 1) = SubSeq(p, 1, k + 1)
        /\ SubSeq(p, k + 1, k + 1) \in Seq(Tokens)
        /\ Len(SubSeq(p, k + 1, k + 1)) = k + 1 - k
        /\ SubSeq(p, 1, k) \in Seq(Tokens)
    <3> HIDE DEF p
    <3>1. k + 1 \in k..Len(p)
      BY <1>3, <2>1
    <3> HIDE DEF k
    <3>2. SubSeq(p, 1, k) \in Seq(Tokens)
      BY <2>1, Part
    <3> QED  BY <2>1, <3>1, <3>2, Joined
  <2>3. Ahead(1) = SubSeq(p, k + 1, k + 1) /\ Read = SubSeq(p, 1, k) /\ Read' = SubSeq(p, 1, k + 1)
    BY <1>4 DEF Ahead, Read
  <2>4. k + 1 - k = 1
    BY <1>3
  <2> HIDE DEF p, k
  <2>5. PICK s : s = Ahead(1)
    OBVIOUS
  <2>6. s \in Seq(Tokens) /\ Len(s) = 1 /\ s[1] \in Tokens /\ s = <<s[1]>>
    <3>1. s = SubSeq(p, k + 1, k + 1)
      BY <2>3, <2>5
    <3>2. s \in Seq(Tokens) /\ Len(s) = 1
      BY <2>2, <2>4, <3>1
    <3>3. 1 \in 1..Len(s)
      BY <3>2
    <3>4. s[1] \in Tokens
      BY <3>2, <3>3, ElementOfSeq
    <3> QED  BY <3>2, <3>4
  <2>7. Append(ckpt, s[1]) = ckpt \o <<s[1]>>
    BY <1>2, <2>2, <2>3, <2>6, AppendIsConcat
  <2>8. ckpt' = Read \o s
    BY <1>1, <1>2, <2>5, <2>6, <2>7
  <2> QED  BY <2>2, <2>3, <2>5, <2>8
<1>7. /\ Left' = Left - 1 /\ Left \in Nat
      /\ job'.prompt # <<>> /\ Len(job'.prompt) < conf'.ctx
      /\ job'.start <= job'.pos /\ job'.pos <= Len(job'.prompt)
  BY <1>1, <1>2, <1>3, <1>4 DEF Left, JobOK
<1>8. TypeOK'
  <2>1. ckpt' \in Histories /\ logits' \in Contents /\ valid' \in BOOLEAN
    BY <1>1, <1>2, <1>5, <1>6 DEF TypeOK
  <2> QED  BY <1>1, <1>2, <1>4, <1>5, <2>1 DEF TypeOK, Jobs
<1>9. JobOK'
  BY <1>1, <1>4, <1>6, <1>7 DEF JobOK
<1>10. ~spoiled' => GraphOK'
  BY <1>1, <1>4, <1>5, <1>6 DEF GraphOK
<1> QED  BY <1>1, <1>2, <1>5, <1>6, <1>8, <1>9, <1>10, FileSame DEF CacheInv

(* Whole: a cold prompt in one batch, the checkpoint comes later.          *)
LEMMA WholeKeeps ==
  ASSUME CacheInv, Whole
  PROVE  CacheInv'
<1> DEFINE n == Left
<1>1. /\ job.how = "whole" /\ ~job.reporting /\ Left > 0
      /\ conf' = conf /\ file' = file /\ faults' = faults
      /\ valid' = valid /\ ckpt' = ckpt
      /\ Forward(Read, Ahead(n)) /\ logits' = front'
      /\ job' = [job EXCEPT !.pos = Len(job.prompt)]
  BY DEF Whole, Running
<1>2. TypeOK /\ JobOK /\ FileOK /\ InBatch
  BY <1>1 DEF CacheInv, JobOK
<1>3. job.pos \in Nat /\ Len(job.prompt) \in Nat /\ job.prompt # <<>>
  BY <1>1, OneToken
<1>4. job.pos = 0 /\ Left = Len(job.prompt)
  BY <1>1, <1>2, <1>3 DEF InBatch, Left
<1>5. /\ job'.how = job.how /\ job'.prompt = job.prompt /\ job'.start = job.start
      /\ job'.pos = Len(job.prompt) /\ job'.reports = job.reports /\ job' \in Jobs
      /\ job'.reporting = job.reporting
  BY <1>1, <1>2, <1>3, JobReads
<1>6. /\ front' \in Contents /\ raw' \in [0..cap' - 1 -> Contents]
      /\ Read' \in Histories /\ Read' # <<>>
      /\ spoiled' \in BOOLEAN /\ (spoiled => spoiled')
      /\ ~spoiled' => front' = Read' /\ Serves(front', Read') /\ Stored(Read, Low)'
  <2>1. n \in 1..Left /\ job'.pos = job.pos + n /\ n <= PrefillCap(conf)
    BY <1>1, <1>2, <1>3, <1>4, <1>5 DEF InBatch
  <2> QED  BY <1>1, <1>4, <1>5, <2>1, GraphAdvances
<1>7. Left' = 0
  BY <1>3, <1>5 DEF Left
<1>8. TypeOK'
  <2>1. ckpt' \in Histories /\ logits' \in Contents /\ valid' \in BOOLEAN
    BY <1>1, <1>2, <1>6 DEF TypeOK
  <2> QED  BY <1>1, <1>2, <1>5, <1>6, <2>1 DEF TypeOK, Jobs
<1>9. JobOK'
  <2>1. InBatch'
    BY <1>1, <1>2, <1>5 DEF InBatch
  <2>2. Len(job.prompt) < conf.ctx /\ job.start <= Len(job.prompt)
    BY <1>1, <1>2, <1>3, <1>4 DEF JobOK, InBatch
  <2> QED  BY <1>1, <1>3, <1>5, <2>1, <2>2 DEF JobOK
<1>10. ~spoiled' => GraphOK'
  BY <1>1, <1>5, <1>6, <1>7 DEF GraphOK
<1> QED  BY <1>1, <1>2, <1>8, <1>9, <1>10, FileSame DEF CacheInv
-----------------------------------------------------------------------------
(* Between syncs nothing is asked of a job.                                *)
LEMMA Idle ==
  ASSUME job' = NoJob
  PROVE  job' \in Jobs /\ job'.how = "none" /\ JobOK'
BY HistoriesArePrefixClosed DEF NoJob, Jobs, JobOK

(* A cleared ring has the size of the session.                             *)
LEMMA BlankType ==
  ASSUME NEW c \in Configs, raw' = Blank(c), conf' = c
  PROVE  raw' \in [0..cap' - 1 -> Contents]
<1>1. cap' = RawCap(c)
  BY DEF cap
<1> QED  BY <1>1 DEF Blank, Contents

(* A failed device call leaves values of their types, and no session.      *)
LEMMA BrokenType ==
  ASSUME TypeOK, Broken, conf' = conf
  PROVE  /\ raw' \in [0..cap' - 1 -> Contents] /\ front' \in Contents
         /\ faults' \in 0..MaxFaults /\ valid' = FALSE
<1>1. conf \in Configs /\ raw' = Blank(conf)
  BY DEF TypeOK, Broken
<1>2. raw' \in [0..cap' - 1 -> Contents]
  <2>1. PICK c : c = conf
    OBVIOUS
  <2> QED  BY <1>1, <2>1, BlankType
<1>3. faults' \in 0..MaxFaults
  BY SizesArePositive DEF TypeOK, Broken, Faulty
<1> QED  BY <1>2, <1>3 DEF Broken, Contents

(* A session that is not valid and has no job has nothing to be held to.   *)
LEMMA AtRest ==
  ASSUME TypeOK', FileOK', job' = NoJob, valid' = FALSE
  PROVE  CacheInv'
<1>1. JobOK' /\ job'.how = "none"
  BY Idle
<1> QED  BY <1>1 DEF CacheInv, GraphOK

(* Fails: nothing is left to be served.                                    *)
LEMMA FailsKeeps ==
  ASSUME CacheInv, Fails
  PROVE  CacheInv'
<1>1. TypeOK /\ FileOK
  BY DEF CacheInv
<1>2. /\ Broken /\ job' = NoJob /\ conf' = conf /\ ckpt' = ckpt /\ logits' = logits
      /\ file' = file /\ spoiled' = spoiled
  BY DEF Fails
<1>3. TypeOK'
  BY <1>1, <1>2, BrokenType, Idle DEF TypeOK, Jobs
<1> QED  BY <1>1, <1>2, <1>3, BrokenType, AtRest, FileSame

(* Invalidate: nothing is left to be served.                               *)
LEMMA InvalidateKeeps ==
  ASSUME CacheInv, Invalidate
  PROVE  CacheInv'
<1>1. TypeOK /\ FileOK
  BY DEF CacheInv
<1>2. /\ job' = NoJob /\ conf' = conf /\ ckpt' = <<>> /\ valid' = FALSE /\ raw' = raw
      /\ front' = front /\ logits' = logits /\ file' = file /\ spoiled' = spoiled /\ faults' = faults
      /\ cap' = cap
  BY DEF Invalidate, graph, cap
<1>3. TypeOK'
  BY <1>1, <1>2, Idle, HistoriesArePrefixClosed DEF TypeOK, Jobs
<1> QED  BY <1>1, <1>2, <1>3, AtRest, FileSame

(* Restart: a new session has nothing to serve, the file stays.            *)
LEMMA RestartKeeps ==
  ASSUME CacheInv, NEW c \in Configs, Restart(c)
  PROVE  CacheInv'
<1>1. TypeOK /\ FileOK
  BY DEF CacheInv
<1>2. /\ job' = NoJob /\ conf' = c /\ ckpt' = <<>> /\ valid' = FALSE /\ raw' = Blank(c)
      /\ front' = Unknown /\ logits' = Unknown /\ file' = file /\ spoiled' = FALSE /\ faults' = faults
  BY DEF Restart, Opened
<1>3. raw' \in [0..cap' - 1 -> Contents]
  BY <1>2, BlankType
<1>4. TypeOK'
  BY <1>1, <1>2, <1>3, Idle, HistoriesArePrefixClosed DEF TypeOK, Jobs, Contents
<1> QED  BY <1>1, <1>2, <1>4, AtRest, FileSame

(* The checkpoint a sync begins with, or falls back to.                    *)
LEMMA ServedFrom ==
  ASSUME CacheInv, job.how = "stream", Left > 0, ~spoiled, ckpt # <<>>
  PROVE  Len(ckpt) = job.start /\ Stored(ckpt, Back(ckpt)) /\ logits = ckpt
<1>1. TypeOK /\ InStream /\ GraphOK
  BY DEF CacheInv, JobOK
<1>2. /\ job.start \in Nat /\ job.pos \in Nat /\ Len(job.prompt) \in Nat /\ job.start <= job.pos
      /\ job.pos <= Len(job.prompt) /\ job.prompt \in Histories /\ conf \in Configs /\ Left # 0
  BY <1>1, OneToken, JobType
<1>3. ckpt = SubSeq(job.prompt, 1, job.start)
  BY <1>1, <1>2 DEF InStream
<1>4. Len(ckpt) = job.start
  BY <1>2, <1>3, HistoryType
<1>5. Read = SubSeq(job.prompt, 1, job.pos) /\ Len(Read) = job.pos
  BY <1>2, HistoryType DEF Read
<1>6. Back(ckpt) = Low
  BY <1>4 DEF Back, Low
<1>7. Stored(Read, Low)
  BY <1>1 DEF GraphOK
<1>8. window \in Nat /\ Back(ckpt) \in Nat
  <2>1. window \in Nat
    BY <1>2, RingSize DEF window
  <2> QED  BY <1>2, <1>4, <2>1 DEF Back, Most
<1>9. ASSUME NEW p \in Back(ckpt)..Len(ckpt) - 1 PROVE HoldsRow(ckpt, p)
  <2>1. p \in Nat /\ p + 1 \in 0..job.start /\ p + 1 \in 0..job.pos /\ p \in Low..Len(Read) - 1
    BY <1>2, <1>4, <1>5, <1>6, <1>8
  <2>2. raw[p % cap] = SubSeq(Read, 1, p + 1)
    BY <1>7, <2>1 DEF Stored, HoldsRow
  <2>3. /\ job.prompt \in Seq(Tokens) /\ job.start \in 0..Len(job.prompt)
        /\ job.pos \in 0..Len(job.prompt)
    BY <1>2, HistoryType
  <2>4. SubSeq(Read, 1, p + 1) = SubSeq(job.prompt, 1, p + 1)
    BY <1>5, <2>1, <2>3, PartOfPart
  <2>5. SubSeq(ckpt, 1, p + 1) = SubSeq(job.prompt, 1, p + 1)
    BY <1>3, <2>1, <2>3, PartOfPart
  <2> QED  BY <2>2, <2>4, <2>5 DEF HoldsRow
<1>10. logits = ckpt
  BY <1>1, <1>2 DEF GraphOK
<1> QED  BY <1>4, <1>9, <1>10 DEF Stored

(* Where all that was read is the checkpoint.                              *)
LEMMA ServedRead ==
  ASSUME CacheInv, job.how # "none", ~spoiled, ckpt = Read, ckpt # <<>>,
         ~(job.how = "stream" /\ Left > 0)
  PROVE  Serves(front, ckpt) /\ Stored(ckpt, Back(ckpt)) /\ logits = ckpt
<1>1. TypeOK /\ GraphOK
  BY DEF CacheInv
<1>2. Low = Back(ckpt)
  BY DEF Low
<1>3. Left = 0 \/ Left > 0
  <2>1. job.pos <= Len(job.prompt) /\ job.pos \in Nat /\ Len(job.prompt) \in Nat
    BY <1>1, JobType DEF CacheInv, JobOK
  <2> QED  BY <2>1 DEF Left
<1> QED  BY <1>1, <1>2, <1>3 DEF GraphOK

(* What a look at the session finds.                                       *)
LEMMA SeenServes ==
  ASSUME CacheInv, Seen, ~spoiled
  PROVE  Serves(front, ckpt) /\ Stored(ckpt, Back(ckpt)) /\ logits = ckpt
<1>1. TypeOK /\ JobOK /\ GraphOK /\ valid /\ ckpt # <<>>
  BY DEF CacheInv, Seen
<1>2. CASE job = NoJob
  <2>1. job.how = "none"
    BY <1>2 DEF NoJob
  <2> QED  BY <1>1, <2>1 DEF GraphOK
<1>3. CASE job # NoJob
  <2>1. job.how # "none" /\ job.reporting
    BY <1>1, <1>3 DEF JobOK, Seen
  <2>2. job.how = "chunks" \/ job.how = "stream"
    BY <1>1, <2>1 DEF TypeOK, JobOK, InBatch
  <2>3. CASE job.how = "chunks"
    <3>1. ckpt = Read
      BY <1>1, <2>3 DEF JobOK
    <3> QED  BY <1>1, <2>1, <2>3, <3>1, ServedRead
  <2>4. CASE job.how = "stream" /\ Left = 0
    <3>1. ckpt = job.prompt
      BY <1>1, <2>1, <2>4 DEF JobOK, InStream
    <3>2. ckpt = Read
      BY <1>1, <2>4, <3>1, AllRead
    <3> QED  BY <1>1, <2>1, <2>4, <3>2, ServedRead
  <2>5. CASE job.how = "stream" /\ Left # 0
    <3>1. job.pos = job.start /\ ckpt = SubSeq(job.prompt, 1, job.start)
      BY <1>1, <2>1, <2>5 DEF JobOK, InStream
    <3>2. Left > 0
      <4>1. job.pos <= Len(job.prompt) /\ job.pos \in Nat /\ Len(job.prompt) \in Nat
        BY <1>1, <2>1, JobType DEF JobOK
      <4> QED  BY <2>5, <4>1 DEF Left
    <3>3. ckpt = Read
      BY <3>1 DEF Read
    <3>4. Serves(front, ckpt)
      BY <1>1, <2>1, <3>3 DEF GraphOK
    <3> QED  BY <1>1, <2>5, <3>2, <3>4, ServedFrom
  <2> QED  BY <2>2, <2>3, <2>4, <2>5
<1> QED  BY <1>2, <1>3

(* ReportDone: the callback has changed nothing.                           *)
LEMMA ReportDoneKeeps ==
  ASSUME CacheInv, ReportDone
  PROVE  CacheInv'
<1>1. TypeOK /\ JobOK /\ FileOK /\ (valid => ckpt # <<>>)
  BY DEF CacheInv
<1>2. /\ job.reporting /\ job' = [job EXCEPT !.reporting = FALSE]
      /\ conf' = conf /\ ckpt' = ckpt /\ valid' = valid /\ raw' = raw /\ front' = front
      /\ logits' = logits /\ file' = file /\ spoiled' = spoiled /\ faults' = faults /\ cap' = cap
      /\ window' = window
  BY DEF ReportDone, graph, cap, window
<1>3. /\ job'.how = job.how /\ job'.prompt = job.prompt /\ job'.start = job.start
      /\ job'.pos = job.pos /\ job'.reports = job.reports /\ job' \in Jobs
      /\ job'.reporting = FALSE
  BY <1>1, <1>2 DEF TypeOK, Jobs
<1>4. job.how # "none"
  BY <1>1, <1>2 DEF JobOK, NoJob
<1>5. job.how \in {"chunks", "stream"}
  BY <1>1, <1>2, <1>4 DEF TypeOK, JobOK, InBatch
<1>6. Left' = Left /\ Read' = Read /\ Low' = Low
  <2>1. Left' = Left /\ Read' = Read
    BY <1>2, <1>3 DEF Left, Read
  <2>2. Back(Read)' = Back(Read)
    BY <1>2, <2>1 DEF Back
  <2> QED  BY <1>2, <1>3, <2>1, <2>2 DEF Low
<1>7. TypeOK'
  BY <1>1, <1>2, <1>3 DEF TypeOK, Jobs
<1>8. JobOK'
  <2>1. CASE job.how = "chunks"
    BY <1>1, <1>2, <1>3, <1>6, <2>1 DEF JobOK
  <2>2. CASE job.how = "stream"
    <3>1. InStream'
      BY <1>1, <1>2, <1>3, <1>6, <2>2 DEF JobOK, InStream
    <3> QED  BY <1>1, <1>2, <1>3, <2>2, <3>1 DEF JobOK
  <2> QED  BY <1>5, <2>1, <2>2
<1>9. ~spoiled' => GraphOK'
  <2>1. SUFFICES ASSUME ~spoiled PROVE GraphOK'
    BY <1>2
  <2>2. /\ Serves(front, Read) /\ Stored(Read, Low) /\ (Left = 0 => logits = Read)
        /\ (Left > 0 /\ ckpt # <<>> => logits = ckpt)
    BY <1>4, <2>1 DEF CacheInv, GraphOK
  <2>3. Stored(Read, Low)'
    BY <1>2, <1>6, <2>2 DEF Stored, HoldsRow
  <2> QED  BY <1>2, <1>3, <1>4, <1>6, <2>2, <2>3 DEF GraphOK, Serves
<1>10. FileOK'
  BY <1>1, <1>2, FileSame
<1> QED  BY <1>1, <1>2, <1>7, <1>8, <1>9, <1>10 DEF CacheInv

(* A session at rest whose ring, frontier and logits did not change.       *)
LEMMA Settled ==
  ASSUME TypeOK', FileOK', job' = NoJob, conf' = conf, raw' = raw, front' = front,
         logits' = logits, NEW h, ckpt' = h, valid' => h # <<>>,
         valid' /\ ~spoiled' => Serves(front, h) /\ Stored(h, Back(h)) /\ logits = h
  PROVE  CacheInv'
<1>1. JobOK' /\ job'.how = "none"
  BY Idle
<1>2. ASSUME ~spoiled', valid'
      PROVE  Serves(front', ckpt') /\ Stored(ckpt, Back(ckpt))' /\ logits' = ckpt'
  <2>1. cap' = cap /\ window' = window
    BY DEF cap, window
  <2>2. Stored(h, Back(h))
    BY <1>2
  <2>3. Stored(ckpt, Back(ckpt))'
    BY <2>1, <2>2 DEF Stored, HoldsRow, Back
  <2> QED  BY <1>2, <2>3
<1> QED  BY <1>1, <1>2 DEF CacheInv, GraphOK
-----------------------------------------------------------------------------
(* Interrupt: the checkpoint is served, or the observer says it is not.    *)
LEMMA InterruptKeeps ==
  ASSUME CacheInv, Interrupt
  PROVE  CacheInv'
<1>1. TypeOK /\ JobOK /\ FileOK /\ (~spoiled => GraphOK)
  BY DEF CacheInv
<1>2. /\ Interruptible /\ ~job.reporting /\ valid' = (ckpt # <<>>) /\ job' = NoJob
      /\ spoiled' = (spoiled \/ (ckpt # <<>> /\ job.how = "stream" /\ ~GraphServes(ckpt)))
      /\ conf' = conf /\ ckpt' = ckpt /\ raw' = raw /\ front' = front
      /\ logits' = logits /\ file' = file /\ faults' = faults /\ cap' = cap
  BY DEF Interrupt, graph, cap
<1>3. TypeOK'
  <2>1. spoiled' \in BOOLEAN /\ valid' \in BOOLEAN
    BY <1>2
  <2>2. job' \in Jobs
    BY <1>2, Idle
  <2> QED  BY <1>1, <1>2, <2>1, <2>2 DEF TypeOK, Jobs
<1>4. ASSUME ckpt # <<>>, ~spoiled, ~(job.how = "stream" /\ ~GraphServes(ckpt))
      PROVE  Serves(front, ckpt) /\ Stored(ckpt, Back(ckpt)) /\ logits = ckpt
  <2>1. job.how \in {"chunks", "stream", "tokens"} /\ job.how # "none"
    BY <1>2 DEF Interruptible
  <2>2. Left = 0 \/ Left > 0
    <3>1. job.pos <= Len(job.prompt) /\ job.pos \in Nat /\ Len(job.prompt) \in Nat
      BY <1>1, <2>1, JobType DEF JobOK
    <3> QED  BY <3>1 DEF Left
  <2>3. CASE job.how \in {"chunks", "tokens"}
    <3>1. ckpt = Read
      BY <1>1, <2>3 DEF JobOK
    <3> QED  BY <1>4, <2>1, <2>3, <3>1, ServedRead
  <2>4. CASE job.how = "stream" /\ Left > 0
    <3>1. Serves(front, ckpt)
      BY <1>4, <2>4 DEF GraphServes
    <3> QED  BY <1>4, <2>4, <3>1, ServedFrom
  <2>5. CASE job.how = "stream" /\ Left = 0
    <3>1. InStream
      BY <1>1, <2>5 DEF JobOK
    <3>2. ckpt = job.prompt
      <4>1. ASSUME ~job.reports PROVE FALSE
        <5>1. ckpt = SubSeq(job.prompt, 1, 0)
          BY <3>1, <4>1 DEF InStream
        <5>2. Len(ckpt) = 0
          <6>1. job.prompt \in Histories /\ Len(job.prompt) \in Nat
            BY <1>1, JobType
          <6> QED  BY <5>1, <6>1, HistoryType
        <5> QED  BY <1>1, <1>4, <5>2, JobType, HistoryType
      <4> QED  BY <2>5, <3>1, <4>1 DEF InStream
    <3>3. ckpt = Read
      BY <1>1, <2>5, <3>2, AllRead
    <3>4. ~(job.how = "stream" /\ Left > 0)
      BY <2>5
    <3> QED  BY <1>4, <2>1, <3>3, <3>4, ServedRead
  <2> QED  BY <2>1, <2>2, <2>3, <2>4, <2>5
<1>5. FileOK'
  BY <1>1, <1>2, FileSame
<1>6. valid' /\ ~spoiled' => Serves(front, ckpt) /\ Stored(ckpt, Back(ckpt)) /\ logits = ckpt
  BY <1>2, <1>4
<1>7. PICK h : h = ckpt
  OBVIOUS
<1> QED  BY <1>2, <1>3, <1>5, <1>6, <1>7, Settled

(* Finish: the prompt becomes the checkpoint it was read for.              *)
LEMMA FinishKeeps ==
  ASSUME CacheInv, Finish
  PROVE  CacheInv'
<1>1. TypeOK /\ JobOK /\ FileOK
  BY DEF CacheInv
<1>2. /\ job # NoJob /\ ~job.reporting /\ Left = 0 /\ ckpt' = job.prompt /\ valid' = TRUE
      /\ job' = NoJob /\ conf' = conf /\ raw' = raw /\ front' = front
      /\ logits' = logits /\ file' = file /\ spoiled' = spoiled /\ faults' = faults /\ cap' = cap
  BY DEF Finish, graph, cap
<1>3. PICK h : h = job.prompt
  OBVIOUS
<1>4. job.how # "none" /\ h # <<>> /\ h \in Histories /\ Read = h
  BY <1>1, <1>2, <1>3, AllRead, JobType DEF JobOK
<1>5. TypeOK'
  BY <1>1, <1>2, <1>3, <1>4, Idle DEF TypeOK, Jobs
<1>6. ASSUME ~spoiled PROVE Serves(front, h) /\ Stored(h, Back(h)) /\ logits = h
  <2>1. Low = Back(h)
    BY <1>2, <1>4 DEF Low
  <2> QED  BY <1>2, <1>4, <1>6, <2>1 DEF CacheInv, GraphOK
<1> QED  BY <1>1, <1>2, <1>3, <1>4, <1>5, <1>6, FileSame, Settled

(* A prompt that continues a history begins with it.                       *)
LEMMA PrefixRead ==
  ASSUME NEW h \in Histories, NEW p \in Histories, IsPrefix(h, p)
  PROVE  SubSeq(p, 1, Len(h)) = h /\ Len(h) <= Len(p)
<1>1. h \in Seq(Tokens) /\ p \in Seq(Tokens) /\ Len(h) <= Len(p)
      /\ SubSeq(h, 1, Len(h)) = SubSeq(p, 1, Len(h))
  BY HistoryType DEF IsPrefix
<1>2. SubSeq(h, 1, Len(h)) = h
  BY <1>1, SubSeqFull
<1> QED  BY <1>1, <1>2

(* A sync has begun; nothing was read yet.                                 *)
LEMMA Begun ==
  ASSUME CacheInv, NEW p \in Histories, NEW k \in Nat, NEW how, NEW b \in BOOLEAN,
         how \in {"chunks", "stream", "tokens", "whole"}, Started(p, k, how, b)
  PROVE  /\ job' \in Jobs /\ job'.how = how /\ job'.prompt = p /\ job'.start = k /\ job'.pos = k
         /\ job'.reports = b /\ job'.reporting = b /\ job'.how # "none"
         /\ Read' = SubSeq(p, 1, k) /\ Left' = Len(p) - k
<1>1. /\ job' \in Jobs /\ job'.how = how /\ job'.prompt = p /\ job'.start = k /\ job'.pos = k
      /\ job'.reports = b /\ job'.reporting = b /\ job'.how # "none"
  BY DEF Started, Jobs
<1> QED  BY <1>1 DEF Read, Left

(* Resume: the sync starts where the checkpoint ends.                      *)
LEMMA ResumeKeeps ==
  ASSUME CacheInv, NEW p \in Histories, job = NoJob, 0 < Len(p), Len(p) < conf.ctx, Resume(p)
  PROVE  CacheInv'
<1>1. TypeOK /\ FileOK /\ ckpt \in Histories /\ Len(ckpt) \in Nat /\ Len(p) \in Nat /\ p # <<>>
  BY JobType, HistoryType DEF CacheInv
<1>2. /\ valid /\ IsPrefix(ckpt, p) /\ ckpt # <<>>
      /\ conf' = conf /\ ckpt' = ckpt /\ valid' = valid /\ raw' = raw /\ front' = front
      /\ logits' = logits /\ file' = file /\ spoiled' = spoiled /\ faults' = faults /\ cap' = cap
      /\ window' = window
  BY DEF Resume, Continues, graph, cap, window, CacheInv
<1>3. PICK k : k = Len(ckpt)
  OBVIOUS
<1>4. k \in Nat /\ k <= Len(p) /\ SubSeq(p, 1, k) = ckpt
  BY <1>1, <1>2, <1>3, PrefixRead
<1> DEFINE n == Len(p) - k
<1>5. \/ n >= ResumeMin /\ Streams(n) /\ Started(p, k, "stream", TRUE)
      \/ n >= ResumeMin /\ Started(p, k, "chunks", TRUE)
      \/ Started(p, k, "tokens", FALSE)
  BY <1>3 DEF Resume, Prefilled
<1>6. PICK how \in {"chunks", "stream", "tokens", "whole"}, b \in BOOLEAN :
         /\ Started(p, k, how, b)
         /\ \/ how = "stream" /\ b /\ n >= ResumeMin /\ Streams(n)
            \/ how = "chunks" /\ b
            \/ how = "tokens" /\ ~b
  BY <1>5
<1>7. /\ job' \in Jobs /\ job'.how = how /\ job'.prompt = p /\ job'.start = k /\ job'.pos = k
      /\ job'.reports = b /\ job'.reporting = b /\ job'.how # "none"
      /\ Read' = SubSeq(p, 1, k) /\ Left' = Len(p) - k
  BY <1>4, <1>6, Begun
<1>8. TypeOK'
  BY <1>1, <1>2, <1>7 DEF TypeOK, Jobs
<1>9. JobOK'
  <2>1. /\ job'.prompt # <<>> /\ Len(job'.prompt) < conf'.ctx
        /\ job'.start <= job'.pos /\ job'.pos <= Len(job'.prompt) /\ ckpt' = Read'
    BY <1>1, <1>2, <1>4, <1>7
  <2>2. CASE how = "stream"
    <3>1. b /\ n > 0 /\ n # 0 /\ n <= StreamMax
      BY <1>1, <1>4, <1>6, <2>2, SizesArePositive DEF Streams
    <3>2. InStream'
      BY <1>2, <1>4, <1>7, <3>1 DEF InStream
    <3> QED  BY <1>7, <2>1, <2>2, <3>2 DEF JobOK
  <2>3. CASE how # "stream"
    BY <1>6, <1>7, <2>1, <2>3 DEF JobOK
  <2> QED  BY <2>2, <2>3
<1>10. ASSUME ~spoiled PROVE GraphOK'
  <2>1. Serves(front, ckpt) /\ Stored(ckpt, Back(ckpt)) /\ logits = ckpt
    BY <1>2, <1>10 DEF CacheInv, GraphOK, NoJob
  <2>2. PICK h : h = ckpt
    OBVIOUS
  <2>3. Read' = h /\ ckpt' = h /\ Len(h) = k
    BY <1>2, <1>3, <1>4, <1>7, <2>2
  <2>4. Low' = Back(h)
    <3>1. Back(Read)' = Most(0, Len(h) - window)
      BY <1>2, <2>3 DEF Back
    <3> QED  BY <1>2, <1>7, <2>3, <3>1 DEF Low, Back
  <2>5. Stored(Read, Low)'
    <3>1. PICK low : low = Back(h)
      OBVIOUS
    <3>2. \A q \in low..Len(h) - 1 : raw[q % cap] = SubSeq(h, 1, q + 1)
      BY <2>1, <2>2, <3>1 DEF Stored, HoldsRow
    <3>3. \A q \in low..Len(h) - 1 : raw'[q % cap'] = SubSeq(h, 1, q + 1)
      BY <1>2, <3>2
    <3>4. Low' = low
      BY <2>4, <3>1
    <3>5. Stored(Read, Low)'
            <=> \A q \in Low'..Len(Read') - 1 : raw'[q % cap'] = SubSeq(Read', 1, q + 1)
      BY DEF Stored, HoldsRow
    <3> QED  BY <2>3, <3>3, <3>4, <3>5
  <2>6. Serves(front', Read')
    BY <1>2, <2>1, <2>2, <2>3
  <2>7. logits' = Read' /\ logits' = ckpt'
    BY <1>2, <2>1, <2>2, <2>3
  <2> QED  BY <1>7, <2>5, <2>6, <2>7 DEF GraphOK
<1> QED  BY <1>1, <1>2, <1>8, <1>9, <1>10, FileSame DEF CacheInv

(* Reset: the sync starts at an empty frontier; old rows do not count.     *)
LEMMA ResetKeeps ==
  ASSUME CacheInv, NEW p \in Histories, job = NoJob, 0 < Len(p), Len(p) < conf.ctx, Reset(p)
  PROVE  CacheInv'
<1>1. TypeOK /\ FileOK /\ Len(p) \in Nat /\ p # <<>> /\ <<>> \in Histories
  BY HistoryType, HistoriesArePrefixClosed DEF CacheInv
<1>2. /\ ckpt' = <<>> /\ valid' = FALSE /\ conf' = conf /\ raw' = raw /\ logits' = logits
      /\ file' = file /\ cap' = cap /\ window' = window
  BY DEF Reset, cap, window
<1>3. FileOK'
  BY <1>1, <1>2, FileSame
<1>4. CASE Faulty /\ front' = Unknown /\ UNCHANGED <<job, spoiled>>
  <2>1. TypeOK'
    <3>1. faults' \in 0..MaxFaults
      BY <1>1, <1>4, SizesArePositive DEF TypeOK, Faulty
    <3> QED  BY <1>1, <1>2, <1>4, <3>1 DEF TypeOK, Contents
  <2> QED  BY <1>2, <1>3, <1>4, <2>1, AtRest
<1>5. CASE front' = <<>> /\ spoiled' = FALSE /\ faults' = faults /\
           IF PrefillCap(conf) < Len(p)
             THEN Started(p, 0, Prefilled(Len(p)), TRUE)
             ELSE Started(p, 0, IF Streams(Len(p)) THEN "stream" ELSE "whole", FALSE)
  <2>1. PICK how \in {"chunks", "stream", "tokens", "whole"}, b \in BOOLEAN :
         /\ Started(p, 0, how, b)
         /\ \/ how = "stream" /\ Streams(Len(p))
            \/ how = "chunks" /\ b
            \/ how = "whole" /\ ~b /\ Len(p) <= PrefillCap(conf)
    <3>1. PrefillCap(conf) \in Nat
      BY <1>1, RingSize DEF TypeOK
    <3>2. PrefillCap(conf) < Len(p) \/ Len(p) <= PrefillCap(conf)
      BY <1>1, <3>1
    <3> QED  BY <1>5, <3>2 DEF Prefilled
  <2>2. /\ job' \in Jobs /\ job'.how = how /\ job'.prompt = p /\ job'.start = 0 /\ job'.pos = 0
        /\ job'.reports = b /\ job'.reporting = b /\ job'.how # "none"
        /\ Read' = SubSeq(p, 1, 0) /\ Left' = Len(p) - 0
    BY <2>1, Begun
  <2>3. SubSeq(p, 1, 0) = <<>>
    <3>1. SubSeq(p, 1, 0) \in Histories /\ Len(SubSeq(p, 1, 0)) = 0
      BY <1>1, HistoryType
    <3> QED  BY <3>1, HistoryType
  <2>4. Left' > 0 /\ Left' # 0 /\ Len(p) - 0 = Len(p)
    BY <1>1, <2>2
  <2>5. TypeOK'
    BY <1>1, <1>2, <1>5, <2>2 DEF TypeOK, Jobs, Contents
  <2>6. JobOK'
    <3>1. CASE how = "stream"
      <4>1. Len(p) <= StreamMax
        BY <2>1, <3>1 DEF Streams
      <4>2. InStream'
        BY <1>2, <2>2, <2>3, <2>4, <4>1 DEF InStream
      <4> QED  BY <1>1, <1>2, <2>2, <3>1, <4>2 DEF JobOK
    <3>2. CASE how = "chunks"
      BY <1>1, <1>2, <2>2, <2>3, <3>2 DEF JobOK
    <3>3. CASE how = "whole"
      <4>1. ~b /\ Len(p) <= PrefillCap(conf)
        BY <2>1, <3>3
      <4>2. InBatch'
        BY <1>2, <2>2, <4>1 DEF InBatch
      <4> QED  BY <1>1, <1>2, <2>2, <3>3, <4>2 DEF JobOK
    <3> QED  BY <2>1, <3>1, <3>2, <3>3
  <2>7. GraphOK'
    <3>1. Read' = <<>> /\ front' = <<>>
      BY <1>5, <2>2, <2>3
    <3>2. Serves(front', Read')
      BY <1>1, <3>1, ServesItself
    <3>3. Low' \in Nat
      <4>1. window \in Nat
        BY <1>1, RingSize DEF TypeOK, window
      <4>2. Back(Read)' = Most(0, 0 - window)
        <5>1. Len(<<>>) = 0
          BY HistoryType, <1>1
        <5> QED  BY <1>2, <3>1, <5>1 DEF Back
      <4>3. Low' = Most(0, 0 - window)
        BY <1>2, <2>2, <4>2 DEF Low
      <4> QED  BY <4>1, <4>3 DEF Most
    <3>4. Stored(Read, Low)'
      <4>1. Len(Read)' = 0
        BY <3>1, <1>1, HistoryType
      <4> QED  BY <3>3, <4>1 DEF Stored
    <3> QED  BY <1>2, <2>2, <2>4, <3>2, <3>4 DEF GraphOK
  <2> QED  BY <1>2, <1>3, <2>5, <2>6, <2>7 DEF CacheInv
<1> QED  BY <1>4, <1>5 DEF Reset

(* A sync that begins keeps the invariant.                                 *)
LEMMA SyncKeeps ==
  ASSUME CacheInv, NEW p \in Histories, Sync(p)
  PROVE  CacheInv'
BY ResumeKeeps, ResetKeeps DEF Sync
-----------------------------------------------------------------------------
(* Eval: one token is read and becomes the end of the checkpoint.          *)
LEMMA EvalKeeps ==
  ASSUME CacheInv, NEW t \in Tokens, Append(ckpt, t) \in Histories, Eval(t)
  PROVE  CacheInv'
<1>1. TypeOK /\ FileOK /\ ckpt \in Histories /\ Len(ckpt) \in Nat /\ ckpt # <<>> /\ conf \in Configs
  BY JobType DEF CacheInv, Eval
<1>2. /\ job = NoJob /\ job' = NoJob /\ valid /\ Len(ckpt) < conf.ctx /\ conf' = conf
      /\ file' = file /\ cap' = cap /\ window' = window
  BY DEF Eval, cap, window
<1>3. FileOK'
  BY <1>1, <1>2, FileSame
<1>4. CASE Broken /\ UNCHANGED <<ckpt, logits, spoiled>>
  <2>1. TypeOK'
    BY <1>1, <1>2, <1>4, BrokenType, Idle DEF TypeOK, Jobs
  <2> QED  BY <1>1, <1>2, <1>3, <1>4, <2>1, BrokenType, AtRest
<1>5. CASE /\ Forward(ckpt, <<t>>) /\ logits' = front'
           /\ ckpt' = Append(ckpt, t) /\ UNCHANGED <<valid, faults>>
  <2>1. PICK h : h = ckpt
    OBVIOUS
  <2>2. PICK ts : ts = <<t>>
    OBVIOUS
  <2>3. PICK g : g = Append(ckpt, t)
    OBVIOUS
  <2>4. /\ h \in Histories /\ h \in Seq(Tokens) /\ ts \in Seq(Tokens) /\ Len(ts) = 1
        /\ g = h \o ts /\ g \in Histories /\ Len(g) = Len(h) + 1 /\ Len(h) \in Nat /\ g # <<>>
    <3>1. /\ h \in Histories /\ h \in Seq(Tokens) /\ Len(h) \in Nat
          /\ ts \in Seq(Tokens) /\ Len(ts) = 1
      BY <1>1, <2>1, <2>2, HistoryType
    <3>2. g = h \o ts
      BY <2>1, <2>2, <2>3, <3>1, AppendIsConcat
    <3>3. Len(g) = Len(h) + 1
      <4>1. Len(h \o ts) = Len(h) + Len(ts)
        BY <3>1, ConcatProperties
      <4> QED  BY <3>1, <3>2, <4>1
    <3>4. g \in Histories
      BY <2>3
    <3> QED  BY <3>1, <3>2, <3>3, <3>4, HistoryType
  <2>5. Forward(h, ts)
    BY <1>5, <2>1, <2>2
  <2>6. front' \in Contents /\ raw' \in [0..cap' - 1 -> Contents]
    BY <1>1, <1>2, <2>4, <2>5, ForwardType DEF TypeOK
  <2>s. /\ spoiled' \in BOOLEAN /\ (spoiled => spoiled')
        /\ ~spoiled' => (TooLarge(conf) => HasRoom(h, 1))
    <3>1. spoiled \in BOOLEAN
      BY <1>1 DEF TypeOK
    <3> QED  BY <2>4, <2>5, <3>1 DEF Forward
  <2>7. TypeOK'
    BY <1>1, <1>2, <1>5, <2>3, <2>4, <2>6, <2>s DEF TypeOK
  <2>8. ASSUME ~spoiled'
        PROVE  Serves(front', ckpt') /\ Stored(ckpt, Back(ckpt))' /\ logits' = ckpt'
    <3>1. Serves(front, h) /\ Stored(h, Back(h))
      BY <1>2, <2>1, <2>8, <2>s DEF CacheInv, GraphOK, NoJob
    <3>2. window \in Nat \ {0} /\ cap \in Nat \ {0} /\ window <= cap
      BY <1>1, RingSize DEF window, cap
    <3>3. PICK low : low = Back(h)
      OBVIOUS
    <3>4. PICK more : more = Most(0, Len(g) - window)
      OBVIOUS
    <3>5. low \in Nat /\ low <= Most(0, Len(h) - window + 1)
      BY <2>4, <3>2, <3>3 DEF Back, Most
    <3>6. more \in Nat /\ low <= more /\ Len(g) <= more + cap
      BY <2>4, <3>2, <3>3, <3>4 DEF Back, Most
    <3>7. Len(h) + 1 <= conf.ctx
      BY <1>1, <1>2, <2>1, ConfigType
    <3>8. Sees(h, 1)
      BY <1>1, <2>4, <2>8, <2>s, <3>1, <3>3, <3>5, <3>7, Fitting
    <3>9. front' = g /\ Stored(g, more)'
      BY <1>1, <1>2, <2>4, <2>5, <3>1, <3>3, <3>5, <3>6, <3>8, ForwardStores
    <3>10. Serves(front', g)
      BY <2>4, <3>9, ServesItself
    <3>11. ckpt' = g /\ Back(ckpt)' = more
      BY <1>2, <1>5, <2>3, <3>4 DEF Back
    <3> QED  BY <1>5, <3>9, <3>10, <3>11
  <2>9. JobOK' /\ job'.how = "none"
    BY <1>2, Idle
  <2>10. ckpt' # <<>>
    BY <1>5, <2>3, <2>4
  <2> QED  BY <1>2, <1>3, <2>7, <2>8, <2>9, <2>10 DEF CacheInv, GraphOK
<1> QED  BY <1>4, <1>5 DEF Eval

(* Save: the file has the last rows of a session that can be seen.         *)
LEMMA SaveKeeps ==
  ASSUME CacheInv, Save
  PROVE  CacheInv'
<1>1. /\ TypeOK /\ JobOK /\ conf \in Configs
      /\ ckpt \in Histories /\ Len(ckpt) \in Nat /\ ckpt # <<>>
  BY JobType DEF CacheInv, Save
<1>2. /\ Seen
      /\ file' = [ctx |-> conf.ctx, window |-> window, tokens |-> ckpt,
                  rows |-> [i \in 1..Live |-> LiveRow(i)],
                  front |-> front, logits |-> logits, spoiled |-> spoiled]
      /\ conf' = conf /\ ckpt' = ckpt /\ valid' = valid /\ raw' = raw /\ front' = front
      /\ logits' = logits /\ job' = job /\ spoiled' = spoiled /\ faults' = faults /\ cap' = cap
      /\ window' = window
  BY DEF Save, Seen, graph, cap, window
<1>3. window \in Nat \ {0} /\ cap \in Nat \ {0} /\ window <= cap /\ conf.ctx \in Nat
  BY <1>1, RingSize, ConfigType DEF window, cap
<1> DEFINE rows == [i \in 1..Live |-> LiveRow(i)]
<1>4. /\ Live \in Nat /\ Live = Least(window, Len(ckpt))
      /\ Len(ckpt) - Live = Back(ckpt) /\ Back(ckpt) \in Nat
  <2>1. Least(window, cap) = window
    BY <1>3 DEF Least
  <2>2. Live = Least(window, Len(ckpt))
    BY <2>1 DEF Live
  <2>3. PICK w \in Nat, n \in Nat : w = window /\ n = Len(ckpt)
    BY <1>1, <1>3
  <2>4. Least(w, n) \in Nat /\ n - Least(w, n) = Most(0, n - w) /\ Most(0, n - w) \in Nat
    BY DEF Least, Most
  <2>5. Back(ckpt) = Most(0, n - w)
    BY <2>3 DEF Back
  <2> QED  BY <2>2, <2>3, <2>4, <2>5
<1>5. ASSUME NEW i \in 1..Live PROVE LiveRow(i) \in Contents
  <2>1. PICK q : q = Len(ckpt) - Live + i - 1
    OBVIOUS
  <2>2. q \in Nat
    BY <1>4, <2>1
  <2>3. q % cap \in 0..cap - 1
    BY <1>3, <2>2, RowRange
  <2> QED  BY <1>1, <2>1, <2>3 DEF LiveRow, TypeOK
<1>6. rows \in Seq(Contents) /\ Len(rows) = Live
  <2> HIDE DEF Contents
  <2>1. Live \in Nat
    BY <1>4
  <2>2. PICK n : n = Live
    OBVIOUS
  <2>3. [i \in 1..n |-> LiveRow(i)] \in Seq(Contents) /\ Len([i \in 1..n |-> LiveRow(i)]) = n
    BY <1>5, <2>1, <2>2, IsASeq
  <2> QED  BY <2>2, <2>3
<1> HIDE DEF rows
<1>7. /\ file'.ctx = conf.ctx /\ file'.window = window /\ file'.tokens = ckpt /\ file'.rows = rows
      /\ file'.front = front /\ file'.logits = logits /\ file'.spoiled = spoiled
  BY <1>2 DEF rows
<1>8. TypeOK'
  <2>1. file' \in [ctx : Nat, window : Nat, tokens : Histories, rows : Seq(Contents),
                   front : Contents, logits : Contents, spoiled : BOOLEAN]
    BY <1>1, <1>2, <1>3, <1>6 DEF TypeOK, rows
  <2> QED  BY <1>1, <1>2, <2>1 DEF TypeOK
<1>9. FileOK'
  <2>1. SUFFICES ASSUME ~spoiled
        PROVE /\ logits = ckpt /\ Serves(front, ckpt)
              /\ Len(rows) = Least(window, Len(ckpt))
              /\ \A i \in DOMAIN rows : rows[i] = SubSeq(ckpt, 1, Len(ckpt) - Len(rows) + i)
    BY <1>1, <1>7 DEF FileOK, Serves
  <2>2. Serves(front, ckpt) /\ Stored(ckpt, Back(ckpt)) /\ logits = ckpt
    BY <1>2, <2>1, SeenServes
  <2>3. ASSUME NEW i \in DOMAIN rows PROVE rows[i] = SubSeq(ckpt, 1, Len(ckpt) - Len(rows) + i)
    <3>1. i \in 1..Live /\ rows[i] = LiveRow(i)
      BY DEF rows
    <3>2. PICK q : q = Len(ckpt) - Live + i - 1
      OBVIOUS
    <3>3. q \in Back(ckpt)..Len(ckpt) - 1 /\ q + 1 = Len(ckpt) - Len(rows) + i
      BY <1>1, <1>4, <1>6, <3>1, <3>2
    <3>4. raw[q % cap] = SubSeq(ckpt, 1, q + 1)
      BY <2>2, <3>3 DEF Stored, HoldsRow
    <3>5. LiveRow(i) = raw[q % cap]
      BY <3>2 DEF LiveRow
    <3> QED  BY <3>1, <3>3, <3>4, <3>5
  <2> QED  BY <1>4, <1>6, <2>2, <2>3
<1>10. JobOK'
  BY <1>1, <1>2 DEF JobOK, InBatch, InStream, Read, Left
<1>11. ~spoiled' => GraphOK'
  BY <1>2 DEF CacheInv, GraphOK, Serves, Stored, HoldsRow, Back, Low, Read, Left
<1>12. valid' => ckpt' # <<>>
  BY <1>1, <1>2
<1> QED  BY <1>8, <1>9, <1>10, <1>11, <1>12 DEF CacheInv
-----------------------------------------------------------------------------
(* The rows of a payload lie in the ring they are loaded into where their  *)
(* positions do.                                                           *)
LEMMA LoadedRows ==
  ASSUME TypeOK
  PROVE  Loaded \in [0..cap - 1 -> Contents]
<1>1. file.rows \in Seq(Contents) /\ raw \in [0..cap - 1 -> Contents] /\ Len(file.rows) \in Nat
      /\ DOMAIN file.rows = 1..Len(file.rows)
  BY LenProperties DEF TypeOK
<1>2. ASSUME NEW i \in 0..cap - 1, NEW rs \in SUBSET DOMAIN file.rows
      PROVE (IF rs = {} THEN raw[i] ELSE file.rows[Max(rs)]) \in Contents
  <2>1. CASE rs = {}
    BY <1>1, <2>1
  <2>2. CASE rs # {}
    <3>1. rs \subseteq 1..Len(file.rows)
      BY <1>1
    <3>2. Max(rs) \in rs
      <4> DEFINE b == Len(file.rows)
      <4>1. b \in Int /\ rs \subseteq 1..b
        BY <1>1
      <4> HIDE DEF b
      <4> QED  BY <2>2, <4>1, Largest
    <3>3. Max(rs) \in 1..Len(file.rows)
      BY <3>1, <3>2
    <3>4. file.rows[Max(rs)] \in Contents
      <4> HIDE DEF Contents
      <4> QED  BY <1>1, <3>3, ElementOfSeq
    <3> QED  BY <2>2, <3>4
  <2> QED  BY <2>1, <2>2
<1>3. \A i \in 0..cap - 1 :
        {r \in DOMAIN file.rows : (First + r - 1) % cap = i} \in SUBSET DOMAIN file.rows
  OBVIOUS
<1> HIDE DEF Contents
<1> QED  BY <1>2, <1>3 DEF Loaded

(* Load: the saved rows are where this ring looks for them.                *)
LEMMA LoadKeeps ==
  ASSUME CacheInv, Load
  PROVE  CacheInv'
<1>1. TypeOK /\ FileOK /\ conf \in Configs
  BY DEF CacheInv, TypeOK
<1>2. /\ job = NoJob /\ job' = NoJob /\ file # NoFile /\ conf' = conf /\ file' = file /\ cap' = cap
      /\ window' = window
  BY DEF Load, cap, window
<1>3. FileOK'
  BY <1>1, <1>2, FileSame
<1>4. JobOK' /\ job'.how = "none" /\ job' \in Jobs
  BY <1>2, Idle
<1>5. /\ file.tokens \in Histories /\ file.front \in Contents /\ file.logits \in Contents
      /\ file.spoiled \in BOOLEAN /\ file.rows \in Seq(Contents) /\ file.tokens # <<>>
      /\ <<>> \in Histories
  BY <1>1, <1>2, HistoriesArePrefixClosed DEF TypeOK, FileOK
<1>6. CASE ~Fits
  <2>1. /\ ckpt' = <<>> /\ valid' = FALSE /\ raw' = raw /\ front' = front /\ logits' = logits
        /\ spoiled' = spoiled /\ faults' = faults
    BY <1>6 DEF Load, graph
  <2>2. TypeOK'
    BY <1>1, <1>2, <1>5, <2>1 DEF TypeOK
  <2> QED  BY <1>2, <1>3, <2>1, <2>2, AtRest
<1>7. CASE Broken /\ ckpt' = <<>> /\ logits' = Unknown /\ UNCHANGED spoiled
  <2>1. /\ raw' \in [0..cap' - 1 -> Contents] /\ front' \in Contents
        /\ faults' \in 0..MaxFaults /\ valid' = FALSE
    BY <1>1, <1>2, <1>7, BrokenType
  <2>2. TypeOK'
    BY <1>1, <1>2, <1>5, <1>7, <2>1 DEF TypeOK, Contents
  <2> QED  BY <1>2, <1>3, <2>1, <2>2, AtRest
<1>8. CASE /\ Fits
           /\ ckpt' = file.tokens /\ valid' = TRUE /\ raw' = Loaded
           /\ front' = file.front /\ logits' = file.logits
           /\ spoiled' = file.spoiled /\ UNCHANGED faults
  <2>1. TypeOK'
    BY <1>1, <1>2, <1>5, <1>8, LoadedRows DEF TypeOK
  <2>2. ASSUME ~file.spoiled
        PROVE  Serves(front', ckpt') /\ Stored(ckpt, Back(ckpt))' /\ logits' = ckpt'
    <3>1. /\ file.logits = file.tokens /\ Serves(file.front, file.tokens)
          /\ Len(file.rows) = Least(file.window, Len(file.tokens))
          /\ \A i \in DOMAIN file.rows :
             file.rows[i] = SubSeq(file.tokens, 1, Len(file.tokens) - Len(file.rows) + i)
      BY <1>1, <1>2, <2>2 DEF FileOK
    <3>2. PICK h : h = file.tokens
      OBVIOUS
    <3>3. PICK rows : rows = file.rows
      OBVIOUS
    <3>4. PICK c : c = cap
      OBVIOUS
    <3>5. PICK w : w = window
      OBVIOUS
    <3>6. h \in Histories /\ Len(h) \in Nat
      BY <1>5, <3>2, HistoryType
    <3>7. w \in Nat \ {0} /\ c \in Nat \ {0} /\ w <= c
      BY <1>1, <3>4, <3>5, RingSize DEF window, cap
    <3>8. DOMAIN rows = 1..Len(rows) /\ Len(rows) = Least(w, Len(h))
      BY <1>5, <1>8, <3>1, <3>2, <3>3, <3>5, LenProperties DEF Fits
    <3>9. PICK first : first = Most(0, Len(h) - w)
      OBVIOUS
    <3>10. /\ first \in Nat /\ first = Len(h) - Len(rows) /\ Len(rows) \in Nat /\ Len(rows) <= c
      <4>1. PICK n : n = Len(h)
        OBVIOUS
      <4>2. PICK k : k = Len(rows)
        OBVIOUS
      <4>3. n \in Nat /\ k = Least(w, n) /\ first = Most(0, n - w)
        BY <3>6, <3>8, <3>9, <4>1, <4>2
      <4>4. first \in Nat /\ first = n - k /\ k \in Nat /\ k <= c
        BY <3>7, <4>3 DEF Most, Least
      <4> QED  BY <4>1, <4>2, <4>4
    <3>11. First = first
      <4>1. First = Len(h) - Len(rows)
        BY <3>2, <3>3 DEF First
      <4> QED  BY <3>10, <4>1
    <3>12. ASSUME NEW p \in first..Len(h) - 1
           PROVE  Loaded[p % c] = SubSeq(h, 1, p + 1)
      <4> DEFINE i == p % c
                 r == p - first + 1
                 rs == {x \in DOMAIN rows : (first + x - 1) % c = i}
      <4>1. p \in Nat /\ i \in 0..c - 1
        <5>1. p \in Nat
          BY <3>6, <3>10
        <5> QED  BY <3>7, <5>1, RowRange
      <4>2. Loaded[i] = IF rs = {} THEN raw[i] ELSE rows[Max(rs)]
        <5> HIDE DEF i
        <5> QED  BY <3>3, <3>4, <3>11, <4>1 DEF Loaded
      <4>3. r \in 1..Len(rows) /\ first + r - 1 = p
        BY <3>6, <3>10
      <4>4. r \in rs
        BY <3>8, <4>3
      <4>5. ASSUME NEW x \in rs PROVE x = r
        <5>1. x \in 1..Len(rows) /\ (first + x - 1) % c = p % c
          BY <3>8
        <5>2. PICK q : q = first + x - 1
          OBVIOUS
        <5>3. q \in Nat /\ q % c = p % c /\ p < q + c /\ q < p + c
          <6>1. q % c = p % c
            BY <5>1, <5>2
          <6>2. PICK k : k = Len(rows)
            OBVIOUS
          <6>3. x \in 1..k /\ first \in Nat /\ first + k = Len(h) /\ k <= c /\ k \in Nat
            BY <3>6, <3>10, <5>1, <6>2
          <6>4. p \in first..first + k - 1
            BY <6>3
          <6> HIDE DEF rs
          <6>5. q \in Nat /\ p < q + c /\ q < p + c
            BY <3>7, <5>2, <6>3, <6>4
          <6> QED  BY <6>1, <6>5
        <5>4. q = p
          <6>1. c \in Nat \ {0} /\ p \in Nat /\ q \in Nat /\ p % c = q % c /\ p < q + c /\ q < p + c
            BY <3>7, <4>1, <5>3
          <6> HIDE DEF rs
          <6> QED  BY <6>1, OneRow, Zenon
        <5>5. x \in Int /\ first + x - 1 = p
          <6> HIDE DEF rs
          <6> QED  BY <3>10, <5>1, <5>2, <5>4
        <5> HIDE DEF rs
        <5> QED  BY <3>10, <4>1, <5>5
      <4>6. Max(rs) = r
        <5>1. rs \subseteq 1..Len(rows) /\ rs # {}
          BY <3>8, <4>4
        <5>2. Max(rs) \in rs
          <6> DEFINE b == Len(rows)
          <6>1. b \in Int /\ 1 \in Int /\ rs \subseteq 1..b
            BY <3>10, <5>1
          <6> HIDE DEF rs, b
          <6> QED  BY <5>1, <6>1, Largest
        <5> HIDE DEF rs, r
        <5> QED  BY <4>5, <5>2
      <4>7. rows[r] = SubSeq(h, 1, Len(h) - Len(rows) + r)
        <5> HIDE DEF r
        <5> QED  BY <3>1, <3>2, <3>3, <3>8, <4>3
      <4>8. Len(h) - Len(rows) + r = p + 1
        BY <3>6, <3>10, <4>1
      <4>9. rs # {}
        BY <4>4
      <4> HIDE DEF rs, r
      <4> QED  BY <4>2, <4>6, <4>7, <4>8, <4>9
    <3>13. ckpt' = h /\ Back(ckpt)' = first
      BY <1>2, <1>8, <3>2, <3>5, <3>9 DEF Back
    <3>14. Stored(ckpt, Back(ckpt))'
      BY <1>2, <1>8, <3>4, <3>12, <3>13 DEF Stored, HoldsRow
    <3>15. Serves(front', ckpt') /\ logits' = ckpt'
      BY <1>8, <3>1
    <3> QED  BY <3>14, <3>15
  <2> QED  BY <1>3, <1>4, <1>5, <1>8, <2>1, <2>2 DEF CacheInv, GraphOK
<1> QED  BY <1>6, <1>7, <1>8 DEF Load

(* Nothing changes.                                                        *)
LEMMA StutterKeeps ==
  ASSUME CacheInv, UNCHANGED vars
  PROVE  CacheInv'
<1>1. /\ conf' = conf /\ ckpt' = ckpt /\ valid' = valid /\ raw' = raw /\ front' = front
      /\ logits' = logits /\ job' = job /\ file' = file /\ spoiled' = spoiled /\ faults' = faults
      /\ cap' = cap /\ window' = window /\ Read' = Read /\ Left' = Left
  BY DEF vars, cap, window, Read, Left
<1>2. TypeOK'
  BY <1>1 DEF CacheInv, TypeOK
<1>3. JobOK'
  BY <1>1 DEF CacheInv, JobOK, InBatch, InStream
<1>4. ~spoiled' => GraphOK'
  BY <1>1 DEF CacheInv, GraphOK, Serves, Stored, HoldsRow, Back, Low
<1>5. FileOK'
  BY <1>1, FileSame DEF CacheInv
<1> QED  BY <1>1, <1>2, <1>3, <1>4, <1>5 DEF CacheInv

(* Every step keeps the invariant.                                         *)
LEMMA CacheStep ==
  CacheInv /\ [Next]_vars => CacheInv'
<1> SUFFICES ASSUME CacheInv, [Next]_vars PROVE CacheInv'
  OBVIOUS
<1>1. CASE \E p \in Histories : Sync(p)
  BY <1>1, SyncKeeps
<1>2. CASE Chunk \/ StreamToken \/ SyncToken \/ Whole
  BY <1>2, ChunkKeeps, StreamTokenKeeps, SyncTokenKeeps, WholeKeeps
<1>3. CASE ReportDone \/ Fails \/ Interrupt \/ Finish
  BY <1>3, ReportDoneKeeps, FailsKeeps, InterruptKeeps, FinishKeeps
<1>4. CASE \E t \in Tokens : Append(ckpt, t) \in Histories /\ Eval(t)
  BY <1>4, EvalKeeps
<1>5. CASE Invalidate \/ Save \/ Load
  BY <1>5, InvalidateKeeps, SaveKeeps, LoadKeeps
<1>6. CASE \E c \in Configs : Restart(c)
  BY <1>6, RestartKeeps
<1>7. CASE UNCHANGED vars
  BY <1>7, StutterKeeps
<1> QED  BY <1>1, <1>2, <1>3, <1>4, <1>5, <1>6, <1>7 DEF Next

(* A session that was opened satisfies the invariant.                      *)
LEMMA CacheBegins ==
  Init => CacheInv
<1> SUFFICES ASSUME Init PROVE CacheInv
  OBVIOUS
<1>1. /\ job = NoJob /\ valid = FALSE /\ file = NoFile /\ <<>> \in Histories
  BY HistoriesArePrefixClosed DEF Init
<1>2. TypeOK
  <2>1. raw \in [0..cap - 1 -> Contents]
    BY DEF Init, Blank, Contents, cap
  <2>2. NoJob \in Jobs
    BY <1>1 DEF NoJob, Jobs
  <2>3. NoFile \in [ctx : Nat, window : Nat, tokens : Histories, rows : Seq(Contents),
                    front : Contents, logits : Contents, spoiled : BOOLEAN]
    BY <1>1 DEF NoFile, Contents
  <2>4. 0 \in 0..MaxFaults
    BY SizesArePositive
  <2> QED  BY <1>1, <2>1, <2>2, <2>3, <2>4 DEF TypeOK, Init, Jobs, Contents
<1> QED  BY <1>1, <1>2 DEF CacheInv, JobOK, GraphOK, FileOK, NoJob

(* The invariant of the session cache holds always.                        *)
THEOREM CacheInvariance == Spec => []CacheInv
<1>1. Init => CacheInv
  BY CacheBegins
<1>2. CacheInv /\ [Next]_vars => CacheInv'
  BY CacheStep
<1> QED  BY <1>1, <1>2, PTL DEF Spec

(* The invariant serves whoever looks.                                     *)
LEMMA CacheIsServed ==
  CacheInv => CacheServesCheckpoint
<1> SUFFICES ASSUME CacheInv, Seen, ~spoiled PROVE GraphServes(ckpt) /\ logits = ckpt
  BY DEF CacheServesCheckpoint
<1>1. Serves(front, ckpt) /\ Stored(ckpt, Back(ckpt)) /\ logits = ckpt
  BY SeenServes
<1>2. /\ window \in Nat \ {0} /\ Len(ckpt) \in Nat
  BY RingSize, JobType DEF CacheInv, window
<1>3. \A p \in Reach(ckpt) : p \in Back(ckpt)..Len(ckpt) - 1
  BY <1>2 DEF Reach, Back, Most
<1> QED  BY <1>1, <1>3 DEF Stored, GraphServes

(* Whoever looks at a valid session, between calls or in a progress        *)
(* callback, finds the ring, the compressors and the logits of its         *)
(* checkpoint, but for what an interrupted streamed prefill left, or a     *)
(* batch of a chunk too large for the ring that ran over its own window    *)
(* (ds4_session_sync).                                                     *)
THEOREM SessionServesItsCheckpoint == Spec => []CacheServesCheckpoint
<1>1. CacheInv => CacheServesCheckpoint
  BY CacheIsServed
<1> QED  BY <1>1, CacheInvariance, PTL

(* A saved payload is complete: its logits, its frontier and its rows are  *)
(* of its tokens, of whatever moment it was (ds4_session_save_payload).    *)
THEOREM PayloadsAreComplete == Spec => []PayloadIsComplete
<1>1. CacheInv => PayloadIsComplete
  BY DEF CacheInv, FileOK, PayloadIsComplete
<1> QED  BY <1>1, CacheInvariance, PTL

(* Every variable of the session keeps its type.                           *)
THEOREM SessionTypes == Spec => []TypeOK
<1>1. CacheInv => TypeOK
  BY DEF CacheInv
<1> QED  BY <1>1, CacheInvariance, PTL
=============================================================================
