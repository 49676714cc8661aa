-------------------------- MODULE LiveContinuation --------------------------
(***************************************************************************)
(* How the server decides that a request continues what its one session    *)
(* holds (ds4_server.c): the three live bindings, which remember the text  *)
(* and the call ids of a turn and the token position it ended at; the      *)
(* parser, which looks at them from a client thread; the worker, which     *)
(* looks again and falls back on memory, on disk or on a cold prefill.     *)
(*                                                                         *)
(* A checkpoint is abstracted to the conversation whose history its tokens *)
(* are, how many there are, and whether the graph is valid for them.  An   *)
(* edited history is another conversation, but may keep the calls of the   *)
(* one it was edited from: ids are compared apart from the text.           *)
(***************************************************************************)
EXTENDS Naturals, Sequences, FiniteSets

CONSTANTS
  Convs,      \* conversations, by their visible history
  ApiOf,      \* the API each conversation uses
  MaxPos,     \* bound: positions are 0 .. MaxPos
  MaxQueue,   \* bound: requests parsed and waiting
  MaxFiles,   \* bound: snapshots the disk budget holds
  Nobody,     \* no conversation
  Mixed       \* one conversation's tokens on top of another's

Slots == {"responses", "anthropic", "thinking"}
Apis == {"responses", "anthropic", "chat"}

ASSUME ConvsHaveApis == ApiOf \in [Convs -> Apis]
ASSUME NotConvs == Nobody \notin Convs /\ Mixed \notin Convs /\ Nobody # Mixed
ASSUME BoundsAreNat == MaxPos \in Nat \ {0} /\ MaxQueue \in Nat /\ MaxFiles \in Nat

VARIABLES
  session,    \* the session's checkpoint: [conv, pos, valid]
  bind,       \* s->responses_live, s->anthropic_live, s->thinking_live
  disk,       \* snapshots: [key, pos, conv], stored under the text of key
  parsed,     \* the worker's queue of parsed requests: [conv, kind, calls]
  job,        \* the request in decode, or NoJob
  aliased,    \* observer: a prefill stopped where a binding of another
              \* conversation says its own turn ended
  edits,      \* observer: <<c, d>> when c has been continued on the tokens
              \* of d, whose calls its results named
  answerable  \* observer: the conversation whose tool calls were the last
              \* thing to touch the session

liveVars == <<session, bind, disk, parsed, job, aliased, edits, answerable>>

Positions == 0 .. MaxPos
Owners == Convs \cup {Nobody, Mixed}
Kinds == {"plain", "replay", "tail"}
    \* no results of known calls last; results after their calls; results alone

Empty == [conv |-> Nobody, pos |-> 0, valid |-> FALSE]
NoBinding ==
  [valid |-> FALSE, conv |-> Nobody, pos |-> 0, text |-> FALSE, calls |-> FALSE]
NoJob == [conv |-> Nobody, kind |-> "plain", source |-> "none"]

LiveInit ==
  /\ session = Empty
  /\ bind = [s \in Slots |-> NoBinding]
  /\ disk = {} /\ parsed = <<>> /\ job = NoJob
  /\ aliased = FALSE /\ edits = {} /\ answerable = Nobody

(* The conversations whose tokens c may have been continued on.            *)
Past(c) == {c} \cup {d \in Convs : <<c, d>> \in edits}

-----------------------------------------------------------------------------
(* A client thread parses.                                                 *)

(* The calls of d's last turn: its ids are all that is looked up.          *)
HasCallId(slot, d) == bind[slot].valid /\ bind[slot].calls /\ bind[slot].conv = d

(* Whose calls a request may name: a replay names those its history holds, *)
(* and a client may have edited the history before them.                   *)
CallsOf(c, kind) ==
  CASE kind = "plain"  -> {Nobody}
    [] kind = "replay" -> {d \in Convs : ApiOf[d] = ApiOf[c]}
    [] kind = "tail"   -> {c}

(* Results alone are accepted only while their calls are bound.            *)
Parse(c, kind) ==
  /\ Len(parsed) < MaxQueue
  /\ kind = "tail" => ApiOf[c] \in Slots /\ HasCallId(ApiOf[c], c)
  /\ \E calls \in CallsOf(c, kind) :
       parsed' = Append(parsed, [conv |-> c, kind |-> kind, calls |-> calls])
  /\ UNCHANGED <<session, bind, disk, job, aliased, edits, answerable>>

-----------------------------------------------------------------------------
(* What the worker takes a request to continue.                            *)

(* Mutated form: the remembered position is not compared. *)
AnyPosition(slot) == bind[slot].valid

AtFrontier(slot) == bind[slot].valid /\ bind[slot].pos = session.pos

VisiblePrefix(slot, r) ==
  /\ AtFrontier(slot) /\ bind[slot].text
  /\ bind[slot].conv = r.conv /\ r.kind # "tail"

(* Whatever history comes before the calls. *)
CallIds(slot, r) == AtFrontier(slot) /\ HasCallId(slot, r.calls)

(* The binding of the request's own API, if it speaks of this request and  *)
(* of a prefix that is not empty.                                          *)
LiveSlots(r) ==
  {s \in {"responses", "anthropic"} :
     /\ session.pos > 0 /\ ApiOf[r.conv] = s
     /\ CallIds(s, r) \/ (s = "responses" /\ VisiblePrefix(s, r))}

Thinking(r) ==
  session.pos > 0 /\ ApiOf[r.conv] # "responses" /\ VisiblePrefix("thinking", r)

(* Mutated form: results alone are treated like a full replay. *)
AnyKindReplays(r) == TRUE

Replays(r) == r.kind # "tail"

(* 409: the calls are no longer where the session is. *)
Conflict(r) == LiveSlots(r) = {} /\ ~Replays(r)

(* Live bindings first; then the checkpoint's own tokens or text, which a  *)
(* replay need not reproduce; then the visible text of a thinking turn.    *)
Sources(r) ==
  IF LiveSlots(r) # {} THEN LiveSlots(r)
  ELSE {s \in {"memory"} : Replays(r) /\ session.pos > 0 /\ session.conv = r.conv}
       \cup {s \in {"thinking"} : Thinking(r)}

Misses(r) == LiveSlots(r) = {} /\ Replays(r) /\ ~Thinking(r)

(* The key kv_cache_store_current stores the live checkpoint under; a turn *)
(* that was asked for by results alone has a text no history begins with.  *)
TextOf(slot) == IF bind[slot].text THEN bind[slot].conv ELSE Nobody

CurrentKey ==
  IF AtFrontier("responses") THEN TextOf("responses")
  ELSE IF AtFrontier("thinking") THEN TextOf("thinking")
  ELSE session.conv

(* What an attempt to store a checkpoint may leave on disk d: it is        *)
(* skipped, it is there, or it is written, in the place of an older one    *)
(* when there is no room.  A file no request will find only takes room.    *)
Stored(d, key, at) ==
  LET file == [key |-> key, pos |-> at.pos, conv |-> at.conv]
      found == IF key \in Convs THEN {file} ELSE {}
  IN IF ~at.valid \/ \E f \in d : f.key = key /\ f.pos = at.pos
     THEN {d}
     ELSE {d} \cup {(d \ {f}) \cup found : f \in d}
          \cup {d \cup found : n \in Cardinality(d) + 1 .. MaxFiles}

(* Snapshots of a request's text; loading one may consume it. *)
Loaded(d, r) ==
  UNION {{[source |-> "disk", disk |-> kept,
           at |-> [conv |-> f.conv, pos |-> f.pos, valid |-> TRUE]] :
            kept \in {d, d \ {f}}} :
          f \in {g \in d : g.key = r.conv}}

(* A snapshot that cannot be restored costs the session; a corrupt one is  *)
(* removed.                                                                *)
Broken(d, r) ==
  UNION {{[source |-> "cold", at |-> Empty, disk |-> kept] : kept \in {d, d \ {f}}} :
           f \in {g \in d : g.key = r.conv}}

(* Where a prefill starts: from the session as it is or, on a miss, from   *)
(* the session it will reset or a snapshot, once the live checkpoint has   *)
(* been stored.                                                            *)
Bases(r) ==
  {[source |-> s, at |-> session, disk |-> disk] : s \in Sources(r)}
  \cup UNION {{[source |-> "cold", at |-> session, disk |-> d]}
                 \cup Loaded(d, r) \cup Broken(d, r) :
                d \in {e \in Stored(disk, CurrentKey, session) : Misses(r)}}

-----------------------------------------------------------------------------
(* ds4_session_sync.                                                       *)

(* The conversation a request goes on with: the bound one, if it is.       *)
Continued(b, r) == IF b.source \in Slots THEN bind[b.source].conv ELSE r.conv

(* The history the first n tokens belong to. *)
Content(b, r, n) ==
  IF n = 0 THEN Nobody
  ELSE IF b.source = "cold" THEN r.conv
  ELSE IF n <= b.at.pos \/ b.at.conv \in Past(Continued(b, r)) THEN b.at.conv
  ELSE Mixed

At(b, r, n, valid) ==
  [conv |-> Content(b, r, n), pos |-> n, valid |-> valid /\ n > 0]

(* A checkpoint that is valid and a prefix of the prompt is extended; any  *)
(* other is reset, and its tokens computed again.                          *)
Extends(b) == b.source # "cold" /\ b.at.valid

Reachable(b) == IF Extends(b) THEN b.at.pos .. MaxPos ELSE Positions

(* The prompt has tokens, and some after a prefix that a binding names.    *)
Targets(b) ==
  {n \in Reachable(b) : n > 0 /\ (b.source \in Slots => n > b.at.pos)}

(* Cancelled before anything was done, or at a frontier. *)
Interrupted(b, r) == {b.at} \cup {At(b, r, n, TRUE) : n \in Reachable(b)}

(* Refused, failed at a frontier, or timed out once complete. *)
Failed(b, r) == {b.at, Empty} \cup {At(b, r, n, FALSE) : n \in Reachable(b)}

Aliases(at) ==
  /\ at.pos > 0
  /\ \E s \in Slots :
       bind[s].valid /\ bind[s].pos = at.pos /\ at.conv \notin Past(bind[s].conv)

NextRequest == job = NoJob /\ parsed # <<>> /\ parsed' = Tail(parsed)

Touched == answerable' = IF session' = session THEN answerable ELSE Nobody

Refuse ==
  /\ NextRequest
  /\ Conflict(Head(parsed))
  /\ UNCHANGED <<session, bind, disk, job, aliased, edits, answerable>>

(* Both early returns leave the bindings as they were; a failure drops the *)
(* snapshot it was loaded from, and then the session.                      *)
PrefillStops ==
  /\ NextRequest
  /\ \E b \in Bases(Head(parsed)) :
       \/ session' \in Interrupted(b, Head(parsed)) /\ disk' = b.disk
       \/ /\ b.source # "disk"
          /\ session' \in Failed(b, Head(parsed)) /\ disk' = b.disk
       \/ /\ b.source = "disk"
          /\ session' = Empty
          /\ disk' = {f \in b.disk : f.key # Head(parsed).conv \/ f.pos # b.at.pos}
  /\ aliased' = (aliased \/ Aliases(session'))
  /\ Touched
  /\ UNCHANGED <<bind, job, edits>>

Unused(source) == [s \in Slots |-> IF s = source THEN bind[s] ELSE NoBinding]

(* Another history than the bound one is continued on the bound tokens.    *)
Edited(b, r) ==
  IF Continued(b, r) = r.conv THEN {}
  ELSE {r.conv} \X (Past(Continued(b, r)) \ {r.conv})

(* The frontier is stored, under its own text, before the first token.     *)
PrefillEnds ==
  /\ NextRequest
  /\ \E b \in Bases(Head(parsed)) : \E n \in Targets(b) :
       /\ session' = At(b, Head(parsed), n, TRUE)
       /\ bind' = Unused(b.source)
       /\ disk' \in Stored(b.disk, Content(b, Head(parsed), n), session')
       /\ job' = [conv |-> Head(parsed).conv, kind |-> Head(parsed).kind,
                  source |-> b.source]
       /\ edits' = edits \cup Edited(b, Head(parsed))
  /\ answerable' = Nobody
  /\ UNCHANGED aliased

StreamFails ==
  /\ job # NoJob
  /\ job' = NoJob
  /\ UNCHANGED <<session, bind, disk, parsed, aliased, edits, answerable>>

-----------------------------------------------------------------------------
(* The end of a turn.                                                      *)

LeftAt(n, v) == [conv |-> session.conv, pos |-> n, valid |-> v]

(* How decoding may leave the session: it fails; a stop string is sampled, *)
(* which invalidates the session; or it finishes, with tool calls or none. *)
Endings ==
  {[ok |-> FALSE, calls |-> FALSE, at |-> LeftAt(n, v)] :
     n \in session.pos .. MaxPos, v \in BOOLEAN}
  \cup {[ok |-> TRUE, calls |-> FALSE, at |-> Empty]}
  \cup {[ok |-> TRUE, calls |-> c, at |-> LeftAt(n, session.valid)] :
          n \in session.pos .. MaxPos, c \in BOOLEAN}

(* Mutated form: the position is the one before decoding. *)
BindingAtPrompt(e) ==
  [valid |-> TRUE, conv |-> job.conv, pos |-> session.pos,
   text |-> job.kind # "tail", calls |-> e.calls]

Binding(e) ==
  [valid |-> TRUE, conv |-> job.conv, pos |-> e.at.pos,
   text |-> job.kind # "tail", calls |-> e.calls]

(* Whether a thinking turn is remembered depends on its tools and text;    *)
(* one whose prompt has no thinking tag keeps what was there.              *)
ThinkingAfter(e) ==
  IF e.calls \/ ~e.ok THEN {NoBinding}
  ELSE {NoBinding, Binding(e), bind["thinking"]}

Remembered(e, thinking) ==
  LET api == ApiOf[job.conv]
  IN [s \in Slots |->
        IF s = "thinking" THEN thinking
        ELSE IF s # api THEN bind[s]
        ELSE IF e.ok /\ (s = "responses" \/ e.calls) THEN Binding(e)
        ELSE NoBinding]

(* Whose client may answer with results alone.                             *)
Asked == IF ApiOf[job.conv] \in Slots THEN job.conv ELSE Nobody

EndTurn ==
  /\ job # NoJob
  /\ job' = NoJob
  /\ \E e \in Endings : \E thinking \in ThinkingAfter(e) :
       /\ session' = e.at
       /\ bind' = Remembered(e, thinking)
       /\ answerable' = IF e.calls THEN Asked ELSE Nobody
  /\ UNCHANGED <<disk, parsed, aliased, edits>>

(* The same with a tool call whose sampled bytes are not known: after the  *)
(* calls were bound, the checkpoint is rewritten as the next request will  *)
(* render it, by extending it or from a snapshot; unless it is that        *)
(* already, or does not begin with the prompt, or no snapshot is found.    *)
EndTurnRewritten ==
  /\ job # NoJob
  /\ ApiOf[job.conv] # "responses"
  /\ job' = NoJob
  /\ \E e \in {x \in Endings : x.calls /\ x.at.valid} :
       /\ bind' = Remembered(e, NoBinding)
       /\ \/ session' = e.at /\ UNCHANGED disk
          \/ /\ e.at.conv = job.conv
             /\ \E b \in {[source |-> "memory", at |-> e.at, disk |-> disk]}
                         \cup Loaded(disk, job) :
                  /\ \E n \in b.at.pos .. MaxPos, v \in BOOLEAN :
                       session' = At(b, job, n, v)
                  /\ disk' = b.disk
          \/ /\ e.at.conv = job.conv
             /\ \E b \in Broken(disk, job) : session' = b.at /\ disk' = b.disk
       /\ answerable' = IF session' = e.at THEN Asked ELSE Nobody
  /\ UNCHANGED <<parsed, aliased, edits>>

LiveNext ==
  \/ \E c \in Convs, kind \in Kinds : Parse(c, kind)
  \/ Refuse \/ PrefillStops \/ PrefillEnds \/ StreamFails
  \/ EndTurn \/ EndTurnRewritten

LiveSpec == LiveInit /\ [][LiveNext]_liveVars

-----------------------------------------------------------------------------
(* Properties.                                                             *)

Binds == [valid : BOOLEAN, conv : Convs \cup {Nobody}, pos : Positions,
          text : BOOLEAN, calls : BOOLEAN]

LiveTypeOK ==
  /\ session \in [conv : Owners, pos : Positions, valid : BOOLEAN]
  /\ bind \in [Slots -> Binds]
  /\ disk \subseteq [key : Convs, pos : Positions \ {0}, conv : Convs \cup {Mixed}]
  /\ parsed \in Seq([conv : Convs, kind : Kinds, calls : Convs \cup {Nobody}])
  /\ job \in {NoJob} \cup [conv : Convs, kind : Kinds,
                           source : Slots \cup {"memory", "disk", "cold"}]
  /\ aliased \in BOOLEAN /\ edits \subseteq Convs \X Convs
  /\ answerable \in Convs \cup {Nobody}

(* A binding whose position is the session's speaks of the history the     *)
(* session holds, or of an edit of it, so that position and ids identify   *)
(* it, as the comments on live continuation rely on; unless an interrupted *)
(* prefill of another conversation happened to stop at that very position. *)
BindingsDescribeSession ==
  ~aliased => \A s \in Slots :
    bind[s].valid /\ bind[s].pos = session.pos /\ session.pos > 0
      => session.conv \in Past(bind[s].conv)

(* A snapshot holds the history it is filed under, or one that was edited  *)
(* into it.                                                                *)
DiskDescribesItself == ~aliased => \A f \in disk : f.conv \in Past(f.key)

(* A reply is sampled after its own conversation's history, or after that  *)
(* of a conversation whose live turn its client once answered from an      *)
(* edited history: call ids and a position are all that are compared then  *)
(* (responses_live_matches_request, anthropic_live_matches_request).       *)
ServedFromOwnHistory == ~aliased /\ job # NoJob => session.conv \in Past(job.conv)

(* Results without their calls are answered from a live binding or not at  *)
(* all, though the binding was looked up when they were parsed.            *)
TailServedLive == job.kind = "tail" => job.source \in {"responses", "anthropic"}

(* A client that answers a tool call before anything else touches the      *)
(* session is accepted and continues it.                                   *)
PromptAnswerAccepted ==
  answerable # Nobody =>
    LET r == [conv |-> answerable, kind |-> "tail", calls |-> answerable]
    IN HasCallId(ApiOf[answerable], answerable) /\ LiveSlots(r) # {}
=============================================================================
