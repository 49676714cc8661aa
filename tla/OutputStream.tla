---------------------------- MODULE OutputStream ----------------------------
(***************************************************************************)
(* The decode loop of generate_job (ds4_server.c) as the client of an      *)
(* OpenAI chat request sees it: every token is appended to the text, the   *)
(* stream projects what it may of it into deltas, thinking that does not   *)
(* close is closed by force, the markers of a tool block end the turn, a   *)
(* block cut short is repaired or the model is asked again, and the final  *)
(* parser decides what the turn was.                                       *)
(*                                                                         *)
(* What the model samples is an input: a script, cut into tokens anywhere. *)
(* Where the code forces tokens into the session the model goes on with    *)
(* the rest of its script or with another one.  The budgets (max_tokens,   *)
(* the room of the context, the limit of a block, the watchdog) bite at    *)
(* any moment; so does the detection of a loop in the reasoning.  Stop     *)
(* strings, the writes that fail and the two other protocols are left out. *)
(***************************************************************************)
EXTENDS DsmlText

CONSTANTS
  Requests,    \* [stream, buffered, think, tools]
  Scripts,     \* what the model may say, as symbols; "hidden" is a special token
  Resumed,     \* those it may say where tokens were forced on it
  TokenSizes,  \* symbols of a token
  MarkerHold,  \* the 80 bytes a marker is looked back for, in symbols
  MaxText      \* bound: symbols of a text

ASSUME ScriptsSpeak ==
  \A s \in Scripts \cup Resumed :
    s \in Seq(Symbols \cup {"hidden"}) /\ s # <<>> /\ s[1] # "hidden"
ASSUME RequestsAreFlags ==
  Requests \subseteq [stream : BOOLEAN, buffered : BOOLEAN, think : BOOLEAN, tools : BOOLEAN]
ASSUME TokensHaveSymbols == TokenSizes \subseteq Nat \ {0} /\ MaxText \in Nat
ASSUME MarkersAreHeld == MarkerHold \in Nat /\ MarkerHold >= Len(ThinkEnd)

VARIABLES
  req,      \* the request
  stage,    \* "decode", "ended" (the loop was left), "settled" (no block left open), "done"
  finish,   \* finish, later final_finish
  attempt,  \* 1 after decode_again, that is dsml_recovery_attempted
  script,   \* rest of what the model is about to say
  text,
  tracker,  \* dsml_tracker, with the length it was last called with
  scan,     \* the guards of the loop
  live,     \* openai_live
  wire,     \* what the client was shown in this attempt; stale: calls of the other are left
  result    \* parsed_content, parsed_reasoning, parsed_calls

replyVars == <<req, stage, finish, attempt, script, text, tracker, scan, live, wire, result>>

NoTool == [state |-> "none", pos |-> 0, index |-> 0, active |-> FALSE,
           emitted |-> FALSE, string |-> FALSE, ids |-> 0]

StreamStart(r) ==
  [mode |-> IF r.think THEN "thinking" ELSE "text", emit |-> 0, checked |-> FALSE,
   tool |-> NoTool]

ScanStart(r) ==
  [sawStart |-> FALSE, sawEnd |-> FALSE, from |-> 0, waiting |-> r.think,
   recovery |-> 0, forced |-> <<>>, eosTried |-> FALSE, loop |-> "none"]

TrackerStart == [dt |-> TrackerInit, seen |-> 0, odd |-> FALSE]

NothingSaid == [reasoning |-> <<>>, content |-> <<>>]
NoResult == [reasoning |-> <<>>, content |-> <<>>, calls |-> <<>>]

(* thinking_state_feed: the last of the two tags decides, and at first the prompt. *)
Inside(T) ==
  IF Has(T, 0, ThinkEnd)
  THEN Has(T, LastAt(T, 0, ThinkEnd), ThinkStart)
  ELSE req.think \/ Has(T, 0, ThinkStart)

Injected == ThinkEnd \o <<"w">>

-----------------------------------------------------------------------------
(* The stream: o is the pair of live and wire, T the text so far.          *)

Say(o, field, part) ==
  [o EXCEPT !.wire.said[field] = @ \o part]

EmitUpTo(o, T, field, limit) ==
  IF limit > o.live.emit
  THEN [Say(o, field, Between(T, o.live.emit, limit)) EXCEPT !.live.emit = limit]
  ELSE o

(* A client merges deltas by index: the id of the last, the arguments of all. *)
Merged(calls, i, id, args) ==
  IF i < Len(calls)
  THEN [calls EXCEPT ![i + 1] = [id |-> id, args |-> @.args \o args]]
  ELSE Append(calls, [id |-> id, args |-> args])

StreamId(i) == <<attempt, i>>
FreshId(i) == <<2, i>>

EmitArgs(o, args) ==
  LET i == o.live.tool.index
  IN [o EXCEPT !.wire.calls = Merged(@, i, StreamId(i), args)]

(* The blanks of JSON are layout: neither side has them. *)
Value(tool, v) == IF tool.string THEN v ELSE JsonText(v)

ToolFail(o) == [o EXCEPT !.live.tool.active = FALSE, !.live.tool.state = "error"]
ToolAt(o, state, pos) == [o EXCEPT !.live.tool.state = state, !.live.tool.pos = pos]

ToolInvokes(o, T) ==
  LET q == SkipWs(T, o.live.tool.pos)
      i == o.live.tool.index
  IN IF q >= Len(T) \/ Full(T, q, ToolsStart)
     THEN ToolAt(o, "invokes", IF Full(T, q, ToolsStart) THEN q + 2 ELSE q)
     ELSE IF Full(T, q, ToolsEnd)
     THEN [ToolAt(o, "done", q + 3) EXCEPT !.live.tool.active = FALSE]
     ELSE IF Partial(T, q, ToolsEnd) \/ Partial(T, q, CallStart) THEN ToolAt(o, "invokes", q)
     ELSE IF Full(T, q, CallStart)
     THEN [ToolAt(EmitArgs(o, <<"{">>), "params", q + 2)
             EXCEPT !.live.tool.emitted = TRUE, !.live.tool.ids = Max({@, i + 1})]
     ELSE ToolFail(o)

ToolParams(o, T) ==
  LET q == SkipWs(T, o.live.tool.pos) IN
  IF q >= Len(T) THEN ToolAt(o, "params", q)
  ELSE IF Full(T, q, CallEnd)
  THEN [ToolAt(EmitArgs(o, <<"}">>), "invokes", q + 3) EXCEPT !.live.tool.index = @ + 1]
  ELSE IF Partial(T, q, CallEnd) \/ \E lit \in ParamStarts : Partial(T, q, lit)
  THEN ToolAt(o, "params", q)
  ELSE IF ~ParamStartAt(T, q) \/ Full(T, q, <<"<", "par>">>) THEN ToolFail(o)
  ELSE LET string == T[q + 2] = "spar>" IN
       [ToolAt(EmitArgs(o, <<IF string THEN "s" ELSE "j">>), "value", q + 2)
          EXCEPT !.live.tool.string = string]

(* tool_param_value_stream_safe_len: short of the last "<" if the closing  *)
(* tag may begin there.                                                    *)
ValueLimit(T, start) ==
  LET window == {i \in start..(Len(T) - 1) : i + Len(ParamEnd) >= Len(T) /\ T[i + 1] = "<"}
  IN IF window # {} /\ Partial(T, Max(window), ParamEnd) THEN Max(window) ELSE Len(T)

ToolValue(o, T) ==
  LET tool == o.live.tool
      end == IF Has(T, tool.pos, ParamEnd) THEN FirstAt(T, tool.pos, ParamEnd)
             ELSE ValueLimit(T, tool.pos)
      sent == EmitArgs(o, Value(tool, Between(T, tool.pos, end)))
  IN IF ~Has(T, tool.pos, ParamEnd) THEN ToolAt(sent, "value", end)
     ELSE ToolAt(EmitArgs(sent, IF tool.string THEN <<"'">> ELSE <<>>), "params", end + 3)

ToolStep(o, T) ==
  CASE ~o.live.tool.active \/ o.live.tool.pos >= Len(T) -> o
    [] o.live.tool.active /\ o.live.tool.pos < Len(T) ->
         CASE o.live.tool.state = "invokes" -> ToolInvokes(o, T)
           [] o.live.tool.state = "params"  -> ToolParams(o, T)
           [] o.live.tool.state = "value"   -> ToolValue(o, T)

(* openai_tool_stream_update: its steps until the text has no more for it. *)
ToolUpdate(o, T) ==
  LET step[n \in 0..Len(T)] == IF n = 0 THEN o ELSE ToolStep(step[n - 1], T)
      last == step[Len(T)]
  IN IF o.live.mode # "tool" THEN o
     ELSE IF last.live.tool.active THEN last ELSE [last EXCEPT !.live.mode = "suppress"]

EnterTool(o, at) ==
  IF req.buffered THEN [o EXCEPT !.live.emit = at, !.live.mode = "suppress"]
  ELSE [o EXCEPT !.live.emit = at, !.live.mode = "tool",
                 !.live.tool = [NoTool EXCEPT !.state = "invokes", !.pos = at + 2, !.active = TRUE]]

StreamThinking(o, T, final) ==
  LET open == IF ~o.live.checked /\ Full(T, 0, ThinkStart) THEN 2 ELSE o.live.emit
      started == [o EXCEPT !.live.emit = open, !.live.checked = TRUE]
      close == Has(T, open, ThinkEnd)
      tool == req.tools /\ Has(T, open, ToolsStart)
      limit == IF close THEN FirstAt(T, open, ThinkEnd)
               ELSE IF tool THEN FirstAt(T, open, ToolsStart)
               ELSE IF final THEN Len(T)
               ELSE IF req.tools THEN SafeLimit(T, open, TRUE, FALSE, MarkerHold)
               ELSE IF Len(T) > Len(ThinkEnd) - 1 THEN Len(T) - (Len(ThinkEnd) - 1) ELSE open
      said == EmitUpTo(started, T, "reasoning", limit)
  IN IF o.live.mode # "thinking" THEN o
     ELSE IF ~o.live.checked /\ Partial(T, 0, ThinkStart) /\ ~final THEN o
     ELSE IF close
     THEN [said EXCEPT !.live.emit = FirstAt(T, open, ThinkEnd) + 3, !.live.mode = "text"]
     ELSE IF tool THEN EnterTool(said, FirstAt(T, open, ToolsStart))
     ELSE IF final THEN [said EXCEPT !.live.mode = "suppress"]
     ELSE said

StreamText(o, T, final) ==
  LET emit == o.live.emit
      said == EmitUpTo(o, T, "content", SafeLimit(T, emit, req.tools, final, MarkerHold))
  IN IF o.live.mode # "text" THEN o
     ELSE IF req.tools /\ Has(T, emit, ToolsStart)
     THEN EnterTool(said, FirstAt(T, emit, ToolsStart))
     ELSE IF final THEN [said EXCEPT !.live.mode = "suppress"]
     ELSE said

(* openai_sse_stream_update *)
Streamed(o, T, final) ==
  IF ~req.stream THEN o
  ELSE ToolUpdate(StreamText(StreamThinking(o, T, final), T, final), T)

-----------------------------------------------------------------------------
(* The loop.                                                               *)

ReplyInit ==
  /\ req \in Requests
  /\ stage = "decode" /\ finish = "length" /\ attempt = 0
  /\ script \in Scripts
  /\ text = <<>>
  /\ tracker = TrackerStart
  /\ scan = ScanStart(req)
  /\ live = StreamStart(req)
  /\ wire = [said |-> NothingSaid, calls |-> <<>>, stale |-> FALSE]
  /\ result = NoResult

Leave(how) == stage' = "ended" /\ finish' = how

(* A token that ends between "<" and "/" in a value, and a closing tag in  *)
(* a JSON string: there the tracker and its reference differ.              *)
Odd(dt, T, size) ==
  \/ T[Len(T)] = "<"
  \/ dt.quoted /\ Has(T, Max({0, Len(T) - size - 2}), ParamEnd)

TrackedTo(tr, T, size) ==
  LET dt == Tracked(tr.dt, T) IN
  IF req.tools
  THEN [dt |-> dt, seen |-> Len(T), odd |-> tr.odd \/ Odd(dt, T, size)]
  ELSE tr

(* observe_tool_markers from where the scan stands. *)
Observed(T) ==
  LET from == IF ~scan.waiting THEN scan.from
              ELSE IF Has(T, 0, ThinkEnd) THEN LastAt(T, 0, ThinkEnd) + 3 ELSE Len(T)
      start == Has(T, from, ToolsStart)
      endFrom == IF scan.sawStart \/ ~start THEN from ELSE FirstAt(T, from, ToolsStart)
  IN [scan EXCEPT
        !.waiting = FALSE,
        !.sawStart = @ \/ start,
        !.sawEnd = @ \/ ((scan.sawStart \/ start) /\ Has(T, endFrom, ToolsEnd)),
        !.from = Max({from, Len(T) - MarkerHold})]

(* The scan of a token inside thinking that does not recover. *)
Held(T, at) == [scan EXCEPT !.waiting = TRUE, !.from = Len(T), !.recovery = at]

Stays == stage' = "decode" /\ UNCHANGED finish

(* A token outside thinking; the limit of a block may bite. *)
TokenOutside(T, rest, size) ==
  /\ ~(req.think /\ Inside(T))
  /\ text' = T /\ script' = rest /\ tracker' = TrackedTo(tracker, T, size)
  /\ scan' = IF req.tools THEN Observed(T) ELSE scan
  /\ \/ /\ ~scan'.sawEnd /\ Stays
     \/ /\ scan'.sawEnd /\ Leave("tool_calls")
     \/ /\ scan'.sawStart /\ ~scan'.sawEnd /\ Leave("stop")

LoopSeen == IF scan.loop = "none" THEN {"none", "pending"} ELSE {scan.loop}

(* A token inside thinking. chat_think_tool_recovery closes the thinking   *)
(* behind a complete opening, if there is room for it.                     *)
TokenInside(T, rest, size) ==
  LET from == Min({scan.recovery, Len(T)})
      opened == req.tools /\ Has(T, from, ToolsStart)
      tracked == TrackedTo(tracker, T, size)
      closed == T \o Injected
  IN /\ req.think /\ Inside(T)
     /\ \E loop \in LoopSeen :
        \/ /\ ~opened
           /\ scan' = [(IF req.tools THEN Held(T, Max({0, Len(T) - MarkerHold})) ELSE scan)
                         EXCEPT !.loop = loop]
           /\ text' = T /\ script' = rest /\ tracker' = tracked /\ Stays
        \/ /\ opened   \* no room
           /\ scan' = [Held(T, Len(T)) EXCEPT !.loop = loop]
           /\ text' = T /\ script' = rest /\ tracker' = tracked /\ Stays
        \/ /\ opened
           /\ scan' = [scan EXCEPT !.waiting = TRUE, !.loop = loop, !.recovery = Len(closed),
                                   !.forced = <<FirstAt(T, from, ToolsStart), Len(T)>>]
           /\ text' = closed /\ tracker' = TrackedTo(tracked, closed, Len(Injected))
           /\ script' \in Resumed \cup {rest} /\ Stays
        \/ /\ opened   \* the session cannot be fed
           /\ scan' = [scan EXCEPT !.loop = loop]
           /\ text' = T /\ script' = rest /\ tracker' = tracked /\ Leave("error")

Sample(size) ==
  LET token == SubSeq(script, 1, size)
      T == text \o token
      rest == SubSeq(script, size + 1, Len(script))
      o == Streamed([live |-> live, wire |-> wire], T, FALSE)
  IN /\ stage = "decode" /\ size <= Len(script)
     /\ Len(T) + Len(Injected) <= MaxText
     /\ \A i \in 1..size : token[i] # "hidden"
     /\ TokenOutside(T, rest, size) \/ TokenInside(T, rest, size)
     /\ live' = o.live /\ wire' = o.wire
     /\ UNCHANGED <<req, attempt, result>>

(* A special token is in the session and never in the text: the thinking   *)
(* it closes stays open here.                                              *)
Hidden ==
  /\ stage = "decode" /\ text # <<>>
  /\ script # <<>> /\ script[1] = "hidden"
  /\ script' = Tail(script)
  /\ UNCHANGED <<req, stage, finish, attempt, text, tracker, scan, live, wire, result>>

(* chat_force_close_thinking, and what its caller makes of a refusal. *)
CloseThinking(guards) ==
  \/ /\ Inside(text)
     /\ Len(text) + Len(Injected) <= MaxText
     /\ text' = text \o Injected /\ script' \in Resumed \cup {script}
     /\ scan' = [guards EXCEPT !.waiting = TRUE] /\ Stays
  \/ scan' = guards /\ Leave("error") /\ UNCHANGED <<text, script>>

(* The end of a turn that was sampled by itself. *)
Eos ==
  /\ stage = "decode" /\ text # <<>> /\ script = <<>> /\ scan.loop # "pending"
  /\ IF req.think /\ Inside(text) /\ ~scan.eosTried
     THEN CloseThinking([scan EXCEPT !.eosTried = TRUE])
     ELSE Leave("stop") /\ UNCHANGED <<text, script, scan>>
  /\ UNCHANGED <<req, attempt, tracker, live, wire, result>>

(* The end of a turn inside a batch of accepted drafts. *)
EosInBatch ==
  /\ stage = "decode" /\ text # <<>> /\ script = <<>>
  /\ Leave("stop")
  /\ UNCHANGED <<req, attempt, script, text, tracker, scan, live, wire, result>>

(* After the batch in which the reasoning was seen to repeat itself. *)
LoopClose ==
  /\ stage = "decode" /\ scan.loop = "pending"
  /\ CloseThinking([scan EXCEPT !.loop = "tried"])
  /\ UNCHANGED <<req, attempt, tracker, live, wire, result>>

(* max_tokens, the room of the context; the watchdog, a stop, an error.    *)
CutOff ==
  /\ stage = "decode" /\ scan.loop # "pending"
  /\ \E how \in {"length", "error"} : Leave(how)
  /\ UNCHANGED <<req, attempt, script, text, tracker, scan, live, wire, result>>

-----------------------------------------------------------------------------
(* After the loop.                                                         *)

(* goto decode_again, once; openai_live starts afresh, what the client has *)
(* is there to stay.                                                       *)
DecodeAgain ==
  /\ attempt = 0
  /\ attempt' = 1 /\ stage' = "decode" /\ finish' = "length"
  /\ script' \in Resumed /\ text' = <<>>
  /\ tracker' = TrackerStart /\ scan' = ScanStart(req) /\ live' = StreamStart(req)
  /\ wire' = [said |-> NothingSaid, calls |-> <<>>, stale |-> wire.calls # <<>>]
  /\ UNCHANGED <<req, result>>

LeftOpen == req.tools /\ scan.sawStart /\ ~scan.sawEnd /\ finish # "error"

HasCalls(parsed) == parsed.ok /\ parsed.calls # <<>>
RepairHelps == Repairable(text) /\ HasCalls(Parse(Repaired(text), FALSE))

Settled == stage' = "settled" /\ UNCHANGED <<req, attempt, script, tracker, live, wire, result>>

Settle ==
  /\ stage = "ended"
  /\ \/ /\ ~LeftOpen
        /\ Settled /\ UNCHANGED <<finish, text, scan>>
     \/ /\ LeftOpen /\ Settled
        /\ IF RepairHelps
           THEN /\ text' = Repaired(text) /\ scan' = [scan EXCEPT !.sawEnd = TRUE]
                /\ UNCHANGED finish
           ELSE finish' = "error" /\ UNCHANGED <<text, scan>>

AskAgain == stage = "ended" /\ LeftOpen /\ ~RepairHelps /\ DecodeAgain

(* normalize_forced_think_tool_close: a close that was put into a block    *)
(* moves in front of it.                                                   *)
Moved == scan.forced # <<>> /\ Full(text, scan.forced[2], Injected)

Normalized ==
  IF ~Moved THEN text
  ELSE LET open == scan.forced[1]
           close == scan.forced[2]
       IN Between(text, 0, open) \o Injected \o Between(text, open, close)
            \o Between(text, close + Len(Injected), Len(text))

Parsed == Parse(Normalized, req.think)
Unparsed(parsed) ==
  ~parsed.ok /\ req.tools /\ (scan.sawStart \/ Moved) /\ finish # "error"

(* A block that does not parse, or calls that are refused for their risk.  *)
Refusable(parsed) == (Unparsed(parsed) /\ scan.sawStart) \/ (req.tools /\ parsed.calls # <<>>)
Refuse == stage = "settled" /\ Refusable(Parsed) /\ DecodeAgain

(* Mutated form: the parsed calls do not take the ids the stream has shown. *)
FreshIds(calls) ==
  [i \in 1..Len(calls) |-> [id |-> FreshId(i - 1), args |-> calls[i]]]

Ids(calls) ==
  [i \in 1..Len(calls) |->
     [id |-> IF i <= live.tool.ids THEN StreamId(i - 1) ELSE FreshId(i - 1), args |-> calls[i]]]

Answered(parsed) ==
  IF parsed.calls # <<>> /\ ~req.tools
  THEN [reasoning |-> <<>>, calls |-> <<>>,
        content |-> IF parsed.content = <<>> THEN parsed.reasoning ELSE parsed.content]
  ELSE [reasoning |-> parsed.reasoning, content |-> parsed.content, calls |-> Ids(parsed.calls)]

(* What the turn was: a block that does not parse shown as text (an error  *)
(* if asking again failed), refused calls, calls, or an answer.            *)
Outcome(how, what) == [how |-> how, what |-> what]

Outcomes(parsed) ==
  IF Unparsed(parsed)
  THEN {Outcome(h, Answered(parsed)) :
          h \in {IF finish = "length" THEN "length" ELSE "stop"}
               \cup (IF scan.sawStart /\ attempt = 0 THEN {"error"} ELSE {})}
  ELSE IF req.tools /\ parsed.calls # <<>>
  THEN {Outcome("error", NoResult), Outcome("tool_calls", Answered(parsed))}
  ELSE {Outcome(finish, Answered(parsed))}

AddCalls(o, calls) ==
  [o EXCEPT !.wire.calls =
     FoldLeftDomain(LAMBDA acc, i : Merged(acc, i - 1, calls[i].id, Object(calls[i].args)), @, calls)]

(* openai_sse_finish_live, or the whole response. *)
WithCalls(o, calls) == IF o.live.tool.emitted THEN o ELSE AddCalls(o, calls)

Shown(what) ==
  LET o == [live |-> live, wire |-> wire]
  IN IF req.stream THEN WithCalls(Streamed(o, text, TRUE), what.calls)
     ELSE AddCalls(Say(Say(o, "reasoning", what.reasoning), "content", what.content), what.calls)

Show(outcome, o) ==
  /\ finish' = outcome.how /\ result' = outcome.what
  /\ live' = o.live /\ wire' = o.wire

Serialize ==
  /\ stage = "settled" /\ stage' = "done"
  /\ \E outcome \in Outcomes(Parsed) : Show(outcome, Shown(outcome.what))
  /\ UNCHANGED <<req, attempt, script, text, tracker, scan>>

Decode ==
  \/ \E size \in TokenSizes : Sample(size)
  \/ Hidden \/ Eos \/ EosInBatch \/ LoopClose \/ CutOff

ReplyNext == Decode \/ Settle \/ AskAgain \/ Refuse \/ Serialize

ReplySpec == ReplyInit /\ [][ReplyNext]_replyVars

-----------------------------------------------------------------------------
(* Every position is one of the text it was taken in; a repair only adds.  *)
ReplyTypeOK ==
  /\ req \in Requests /\ attempt \in 0..1
  /\ stage \in {"decode", "ended", "settled", "done"}
  /\ finish \in {"length", "stop", "tool_calls", "error"}
  /\ text \in Seq(Symbols) /\ (stage = "decode" => Len(text) <= MaxText)
  /\ tracker.seen \in 0..Len(text) /\ tracker.dt.pos \in 0..Len(text)
  /\ scan.from \in 0..Len(text) /\ scan.recovery \in 0..Len(text)
  /\ live.mode \in {"thinking", "text", "tool", "suppress"}
  /\ live.emit \in 0..Len(text) /\ live.tool.pos \in 0..Len(text)
  /\ live.tool.state \in {"none", "invokes", "params", "value", "done", "error"}

(* The texts for which the projection must agree with the parser: thinking *)
(* that closes once, a block only behind it, no parameter without its      *)
(* attribute, JSON where it is said to be.                                 *)
Once(lit) == Cardinality(Places(text, 0, lit)) = 1

WellFormed(parsed) ==
  LET close == IF req.think THEN FirstAt(text, 0, ThinkEnd) ELSE 0 IN
  /\ parsed.ok /\ ~Moved
  /\ IF req.think THEN Once(ThinkEnd) ELSE ~Has(text, 0, ThinkEnd)
  /\ ~Has(text, IF req.think THEN 1 ELSE 0, ThinkStart)
  /\ ~Has(text, 0, <<"<", "par>">>)
  /\ ~Has(text, 0, <<"<", "jpar>">> \o ParamEnd)
  /\ \A i \in DOMAIN parsed.calls : Object(parsed.calls[i]) = parsed.calls[i]
  /\ Has(text, 0, ToolsStart) => /\ req.tools /\ Once(ToolsStart)
                                 /\ FirstAt(text, 0, ToolsStart) >= close

FinalCalls ==
  [i \in DOMAIN result.calls |-> [result.calls[i] EXCEPT !.args = Object(@)]]

(* What the client of an OpenAI chat has been shown piece by piece is, when*)
(* the turn ends well, what the final parser made of it: the same calls    *)
(* under the ids the server remembers, the same reasoning and content;     *)
(* and when calls are not streamed, or nothing is, the same calls for every*)
(* text, none of them left from an attempt that was given up               *)
(* (openai_sse_finish_live, apply_openai_stream_tool_ids, try_repair_dsml).*)
ReplyIsShown ==
  (stage = "done" /\ finish \in {"stop", "tool_calls"}) =>
     /\ (~req.stream \/ req.buffered) => ~wire.stale /\ wire.calls = FinalCalls
     /\ WellFormed(Parsed) => /\ wire.calls = FinalCalls
                             /\ wire.said.reasoning = result.reasoning
                             /\ wire.said.content = result.content

(* At no moment has the client been shown, as content, markup of a tool    *)
(* call or anything said before the thinking closed, however the tags were *)
(* cut into tokens (text_stream_safe_limit, the openai_stream modes).      *)
ContentStopsAtMarkup ==
  (req.stream /\ req.tools) =>
     LET content == wire.said.content
         from == IF Has(text, 0, ThinkEnd) THEN FirstAt(text, 0, ThinkEnd) + 3 ELSE Len(text)
         start == IF req.think THEN from ELSE 0
         limit == IF Has(text, start, ToolsStart)
                  THEN TrimWs(text, start, FirstAt(text, start, ToolsStart))
                  ELSE Len(text)
     IN IsPrefix(content, Between(text, start, limit))

(* The incremental tracker, by which the sampler takes its temperature, is *)
(* where the recognizer its tests compare it with is, however the block    *)
(* was cut into tokens, but for the two texts on which they are known to   *)
(* differ (dsml_decode_tracker_update, dsml_decode_state_for_text).        *)
TrackerIsExact ==
  (req.tools /\ ~tracker.odd /\ stage = "decode") =>
     tracker.dt.decode = StateForText(SubSeq(text, 1, tracker.seen))
=============================================================================
