------------------------------ MODULE Steering ------------------------------
(***************************************************************************)
(* Directional steering of the server's one session: the cache of loaded   *)
(* profiles, the active profile and scale in the graph, the server's       *)
(* default, and the requests that override it (ds4_server.c, ds4.c).  Jobs *)
(* run one at a time, so each is one action.  The attention and the FFN    *)
(* scale are handled alike; one scale stands for both.                     *)
(***************************************************************************)
EXTENDS Naturals, Sequences, SequencesExt

CONSTANTS
  Profiles,     \* names of files in --steering-dir
  LongNames,    \* those longer than a cache key, of 63 bytes
  Truncated,    \* the cache key of such a name
  Scales,       \* scales a client may ask for, 0 among them
  CacheMax,     \* DS4_STEERING_CACHE_MAX
  None,         \* no profile
  Unset         \* the request has no scale

ASSUME NamesDiffer ==
  /\ None \notin Profiles /\ Truncated \notin Profiles /\ None # Truncated
  /\ LongNames \subseteq Profiles
ASSUME ZeroIsAScale == 0 \in Scales /\ Scales \subseteq Nat /\ Unset \notin Scales
ASSUME CacheHasRoom == CacheMax \in Nat \ {0}

VARIABLES
  cache,         \* graph.steering_cache, the keys in load order; never evicted
  dirs,          \* the profile graph.directional_steering_dirs points at
  scale,         \* graph.directional_steering_*_scale
  defaultName,   \* s->steering_current_name
  defaultScale,  \* s->default_steering_*
  last           \* observer: the last generation, what it asked and how it ran

steeringVars == <<cache, dirs, scale, defaultName, defaultScale, last>>

Off == [profile |-> None, scale |-> 0]

(* What a profile and a scale do to the forward pass. *)
Effect(profile, s) ==
  IF profile = None \/ s = 0 THEN Off ELSE [profile |-> profile, scale |-> s]

Key(name) == IF name \in LongNames THEN Truncated ELSE name

Cached(name) == Contains(cache, name)

(* The launch file is loaded only for a scale that is not zero, but its    *)
(* name becomes the default in any case.                                   *)
SteeringInit ==
  \E file \in Profiles \cup {None}, s \in Scales :
    /\ file = None => s = 0
    /\ defaultName = file /\ defaultScale = s
    /\ IF s = 0
         THEN cache = <<>> /\ dirs = None /\ scale = 0
         ELSE cache = <<Key(file)>> /\ dirs = file /\ scale = s
    /\ last = [named |-> None, wanted |-> Off, ran |-> Off]

-----------------------------------------------------------------------------
(* ds4_session_steering_select.  A profile that is not cached is loaded    *)
(* from its path, if there is one, there is room and the file is readable. *)

SetScale(s) ==
  /\ scale' = s
  /\ UNCHANGED <<cache, dirs>>

SelectCached(name, s) ==
  /\ Cached(name)
  /\ dirs' = name /\ scale' = s
  /\ UNCHANGED cache

RoomInCache == Len(cache) < CacheMax

SelectLoaded(name, s) ==
  /\ ~Cached(name)
  /\ RoomInCache
  /\ cache' = Append(cache, Key(name))
  /\ dirs' = name /\ scale' = s

(* The file cannot be read, or the cache is full. *)
SelectFails(name) ==
  /\ ~Cached(name)
  /\ UNCHANGED <<cache, dirs, scale>>

-----------------------------------------------------------------------------
(* The requests.                                                           *)

(* Mutated form: a request that sets no scale keeps the live one. *)
LiveScale(asked) == IF asked = Unset THEN scale ELSE asked

ScaleFor(asked) == IF asked = Unset THEN defaultScale ELSE asked

(* The observer: what a generation should have run with, and what it did. *)
Generated(name, asked, profile) ==
  LET s == IF asked \in Scales THEN asked ELSE defaultScale
  IN last' = [named |-> name, wanted |-> Effect(profile, s),
              ran |-> Effect(dirs', scale')]

(* A generation that names a profile. *)
GenerateNamed(name, asked) ==
  /\ SelectCached(name, ScaleFor(asked)) \/ SelectLoaded(name, ScaleFor(asked))
  /\ Generated(name, asked, name)
  /\ UNCHANGED <<defaultName, defaultScale>>

(* A generation that does not: the default profile is not given a path. *)
RestoreDefault(s) ==
  IF defaultName # None /\ Cached(defaultName)
  THEN SelectCached(defaultName, s)
  ELSE SetScale(s)

GenerateUnnamed(asked) ==
  /\ RestoreDefault(ScaleFor(asked))
  /\ Generated(None, asked, defaultName)
  /\ UNCHANGED <<defaultName, defaultScale>>

(* The profile cannot be loaded: 400, nothing is generated. *)
Refuse(name) ==
  /\ SelectFails(name)
  /\ UNCHANGED <<defaultName, defaultScale, last>>

(* POST /v1/steering with and without a profile. *)
AdminNamed(name, asked) ==
  /\ SelectCached(name, ScaleFor(asked)) \/ SelectLoaded(name, ScaleFor(asked))
  /\ defaultName' = name /\ defaultScale' = ScaleFor(asked)
  /\ UNCHANGED last

AdminScale(asked) ==
  /\ SetScale(ScaleFor(asked))
  /\ defaultScale' = ScaleFor(asked)
  /\ UNCHANGED <<defaultName, last>>

Asked == Scales \cup {Unset}

SteeringNext ==
  \E asked \in Asked :
    \/ GenerateUnnamed(asked) \/ AdminScale(asked)
    \/ \E name \in Profiles :
         GenerateNamed(name, asked) \/ AdminNamed(name, asked) \/ Refuse(name)

SteeringSpec == SteeringInit /\ [][SteeringNext]_steeringVars

-----------------------------------------------------------------------------
(* Properties.                                                             *)

Effects == [profile : Profiles \cup {None}, scale : Scales]

SteeringTypeOK ==
  /\ cache \in Seq(Profiles \cup {Truncated})
  /\ dirs \in Profiles \cup {None}
  /\ scale \in Scales
  /\ defaultName \in Profiles \cup {None}
  /\ defaultScale \in Scales
  /\ last \in [named : Profiles \cup {None}, wanted : Effects, ran : Effects]

(* The active profile is borrowed from the cache: it is one of the loaded  *)
(* tensors, and the cache stays within its array.                          *)
ActiveIsLoaded ==
  /\ Len(cache) <= CacheMax
  /\ dirs # None => Contains(cache, Key(dirs))

(* A name that fits its key is loaded at most once. *)
LoadedOnce ==
  \A i, j \in DOMAIN cache :
    cache[i] = cache[j] /\ cache[i] # Truncated => i = j

(* What the session borrows and reuses is there, once.                     *)
CacheIsSound == ActiveIsLoaded /\ LoadedOnce

(* Once the default profile has been loaded under a name that fits, every  *)
(* generation that names none runs with it: only the scale it asks for is  *)
(* its own.                                                                *)
LoadedDefaultIsRestored ==
  [][\A asked \in Asked :
       GenerateUnnamed(asked) /\ Cached(defaultName)
         => last'.ran = last'.wanted]_steeringVars

=============================================================================
