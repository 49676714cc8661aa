------------------------------ MODULE DsmlText ------------------------------
(***************************************************************************)
(* The text of a reply and what ds4_server.c reads in it: the markup of    *)
(* tool calls, where it starts, what of it may be shown while more is to   *)
(* come, the calls the final parser returns, the repair of a truncated     *)
(* block, and the tracker that tells markup from payload while decoding.   *)
(*                                                                         *)
(* A text is a sequence of symbols.  A tag is two or three of them, so that*)
(* a token may end inside it: "<" and the rest, with "/" between the two   *)
(* when the tag closes.  Of a parameter's tag, spar> stands for            *)
(* string="true", jpar> for string="false" and par> for no attribute.  The *)
(* letter x is any visible text, w a blank line, q a quote and e an escape *)
(* inside JSON.  One spelling of the tags is modelled, the plain one: the  *)
(* token for the bars of the other never reaches the text (Hidden, in      *)
(* OutputStream).  Names, entities, UTF-8 and layout of JSON are left out. *)
(* Positions count the symbols before them, as offsets do.                 *)
(***************************************************************************)
EXTENDS Naturals, Sequences, SequencesExt, FiniteSetsExt

Symbols == {"x", "w", "q", "e", "<", "/", "think>", "tools>", "call>",
            "spar>", "jpar>", "par>"}

ThinkStart == <<"<", "think>">>
ThinkEnd   == <<"<", "/", "think>">>
ToolsStart == <<"<", "tools>">>
ToolsEnd   == <<"<", "/", "tools>">>
CallStart  == <<"<", "call>">>
CallEnd    == <<"<", "/", "call>">>
ParamEnd   == <<"<", "/", "par>">>
ParamStarts == {<<"<", "spar>">>, <<"<", "jpar>">>, <<"<", "par>">>}

Full(T, p, lit) == p + Len(lit) <= Len(T) /\ SubSeq(T, p + 1, p + Len(lit)) = lit

(* What follows p is the beginning of lit, and the text ends in it. *)
Partial(T, p, lit) ==
  /\ p <= Len(T) /\ Len(T) - p < Len(lit)
  /\ IsPrefix(SubSeq(T, p + 1, Len(T)), lit)

Places(T, from, lit) == {p \in from..Len(T) : Full(T, p, lit)}
Has(T, from, lit) == \E p \in from..Len(T) : Full(T, p, lit)
FirstAt(T, from, lit) == Min(Places(T, from, lit))
LastAt(T, from, lit) == Max(Places(T, from, lit))
Between(T, a, b) == SubSeq(T, a + 1, b)

ParamStartAt(T, p) == \E lit \in ParamStarts : Full(T, p, lit)

SkipWs(T, p) == Min({Len(T)} \cup {i \in p..Len(T) : i < Len(T) /\ T[i + 1] # "w"})
TrimWs(T, start, limit) == Max({start} \cup {l \in (start + 1)..limit : T[l] # "w"})

(* Mutated form: blanks are held back, the beginning of a tag is not. *)
LimitWithoutHold(T, start, hasTools, final, hold) ==
  IF Len(T) <= start THEN Len(T)
  ELSE IF hasTools /\ Has(T, start, ToolsStart)
  THEN TrimWs(T, start, FirstAt(T, start, ToolsStart))
  ELSE IF hasTools /\ ~final THEN TrimWs(T, start, Len(T)) ELSE Len(T)

(***************************************************************************)
(* How far the text may be shown (text_stream_safe_limit): up to the       *)
(* markup if it is there, and else short of anything that may turn out to  *)
(* be its beginning.  hold is the window the last "<" is looked for in.    *)
(***************************************************************************)
SafeLimit(T, start, hasTools, final, hold) ==
  IF Len(T) <= start THEN Len(T)
  ELSE IF hasTools /\ Has(T, start, ToolsStart)
  THEN TrimWs(T, start, FirstAt(T, start, ToolsStart))
  ELSE IF hasTools /\ ~final
  THEN LET visible == TrimWs(T, start, Len(T))
           window == {i \in start..(Len(T) - 1) : i + hold >= Len(T) /\ T[i + 1] = "<"}
       IN TrimWs(T, start, Min({visible} \cup (IF window = {} THEN {} ELSE {Max(window)})))
  ELSE Len(T)

(***************************************************************************)
(* The final parser.  The arguments of a call are the values of its        *)
(* parameters: those of strings between the marks s and ', those of JSON   *)
(* after the mark j, an object of nested parameters between two marks o.   *)
(***************************************************************************)
StringArg(v) == <<"s">> \o v \o <<"'">>
JsonText(v) == SelectSeq(v, LAMBDA c : c # "w")
JsonArg(v) == <<"j">> \o (IF JsonText(v) = <<>> THEN <<"null">> ELSE JsonText(v))

Malformed == [ok |-> FALSE, args |-> <<>>, calls |-> <<>>, at |-> 0]
Behind(p) == [Malformed EXCEPT !.ok = TRUE, !.at = p]
Arg(tag, v) == IF tag = "jpar>" THEN JsonArg(v) ELSE StringArg(v)

(* The parameters inside one without an attribute, from p on. *)
Nested(T) ==
  LET N[p \in 0..Len(T)] ==
        LET q == SkipWs(T, p) IN
        IF ~ParamStartAt(T, q) THEN Behind(q)
        ELSE IF ~Has(T, q + 2, ParamEnd) THEN Malformed
        ELSE LET end == FirstAt(T, q + 2, ParamEnd)
             IN [N[end + 3] EXCEPT !.args = Arg(T[q + 2], Between(T, q + 2, end)) \o @]
  IN N

(* A parameter with others inside, before the rest of its call.            *)
WithNested(rest, inner) ==
  IF inner.ok THEN [rest EXCEPT !.args = <<"o">> \o inner.args \o <<"o">> \o @]
  ELSE Malformed

BehindParam(T, p) == IF Full(T, SkipWs(T, p), ParamEnd) THEN SkipWs(T, p) + 3 ELSE SkipWs(T, p)

(* The parameters of a call, from p to behind its closing tag. *)
Params(T) ==
  LET P[p \in 0..Len(T)] ==
        LET q == SkipWs(T, p) IN
        IF Full(T, q, CallEnd) THEN Behind(q + 3)
        ELSE IF ~ParamStartAt(T, q) THEN Malformed
        ELSE IF T[q + 2] = "par>" /\ ParamStartAt(T, SkipWs(T, q + 2))
        THEN LET inner == Nested(T)[q + 2]
             IN WithNested(P[BehindParam(T, inner.at)], inner)
        ELSE IF ~Has(T, q + 2, ParamEnd) THEN Malformed
        ELSE LET end == FirstAt(T, q + 2, ParamEnd)
             IN [P[end + 3] EXCEPT !.args = Arg(T[q + 2], Between(T, q + 2, end)) \o @]
  IN P

AddCall(rest, params) ==
  IF params.ok THEN [rest EXCEPT !.calls = <<<<"{">> \o params.args \o <<"}">>>> \o @]
  ELSE Malformed

(* The calls of a block, from p to behind its closing tag. *)
Calls(T) ==
  LET B[p \in 0..Len(T)] ==
        LET q == SkipWs(T, p) IN
        IF Full(T, q, ToolsStart) THEN B[q + 2]
        ELSE IF Full(T, q, ToolsEnd) THEN Behind(q + 3)
        ELSE IF ~Full(T, q, CallStart) THEN Malformed
        ELSE LET params == Params(T)[q + 2] IN AddCall(B[params.at], params)
  IN B

(* split_reasoning_content: reasoning up to the first close, or none. *)
Split(T) ==
  LET body == IF Full(T, 0, ThinkStart) THEN 2 ELSE 0 IN
  IF Has(T, body, ThinkEnd)
  THEN [reasoning |-> Between(T, body, FirstAt(T, body, ThinkEnd)),
        content |-> Between(T, FirstAt(T, body, ThinkEnd) + 3, Len(T))]
  ELSE [reasoning |-> <<>>, content |-> T]

Answer(ok, split, calls) ==
  [ok |-> ok, reasoning |-> split.reasoning, content |-> split.content, calls |-> calls]

(* parse_generated_message_ex: an opening behind a blank line is preferred. *)
BlockStart(T, from) ==
  LET spaced == <<"w">> \o ToolsStart
  IN IF Has(T, from, spaced) THEN FirstAt(T, from, spaced) ELSE FirstAt(T, from, ToolsStart)

WithBlock(T, start, block) ==
  IF block.ok THEN Answer(TRUE, Split(Between(T, 0, TrimWs(T, 0, start))), block.calls)
  ELSE Answer(FALSE, [reasoning |-> <<>>, content |-> T], <<>>)

ParseFrom(T, from) ==
  LET start == BlockStart(T, from)
  IN IF Has(T, from, ToolsStart)
     THEN WithBlock(T, start, Calls(T)[FirstAt(T, start, ToolsStart) + 2])
     ELSE Answer(TRUE, Split(T), <<>>)

Parse(T, thinkingClosed) ==
  IF ~thinkingClosed THEN ParseFrom(T, 0)
  ELSE IF Has(T, 0, ThinkEnd) THEN ParseFrom(T, LastAt(T, 0, ThinkEnd) + 3)
  ELSE Answer(TRUE, Split(T), <<>>)

(* append_json_object_or_empty: arguments that are no JSON are sent as an  *)
(* empty object. Of JSON there are null, a number x and strings.           *)
ValidJson(v) ==
  LET at[n \in 0..Len(v)] ==
        IF n = 0 THEN "outside"
        ELSE IF at[n - 1] = "escaped" THEN "string"
        ELSE IF at[n - 1] = "string" /\ v[n] = "e" THEN "escaped"
        ELSE IF v[n] # "q" THEN at[n - 1]
        ELSE IF at[n - 1] = "string" THEN "outside" ELSE "string"
  IN \/ v \in {<<"null">>, <<"x">>}
     \/ /\ Len(v) > 1 /\ at[Len(v)] = "outside"
        /\ \A n \in 1..(Len(v) - 1) : at[n] # "outside"

Object(args) ==
  LET next(i) == Min({k \in (i + 1)..Len(args) : args[k] \in {"s", "j", "o", "}"}})
  IN IF \A i \in 1..Len(args) : args[i] = "j" => ValidJson(Between(args, i, next(i) - 1))
     THEN args ELSE <<"{", "}">>

(***************************************************************************)
(* try_repair_dsml: the closing tags that are missing, innermost first,    *)
(* counted from the last close of thinking on.                             *)
(***************************************************************************)
Missing(T) ==
  LET from == IF Has(T, 0, ThinkEnd) THEN LastAt(T, 0, ThinkEnd) + 3 ELSE 0
      count(lit) == Cardinality(Places(T, from, lit))
      params == Cardinality({p \in from..Len(T) : ParamStartAt(T, p)})
  IN [found |-> Has(T, from, ToolsStart),
      pairs |-> <<<<params, count(ParamEnd), ParamEnd>>,
                  <<count(CallStart), count(CallEnd), CallEnd>>,
                  <<count(ToolsStart), count(ToolsEnd), ToolsEnd>>>>]

Repairable(T) ==
  LET m == Missing(T) IN
  /\ m.found
  /\ \A i \in 1..3 : m.pairs[i][2] <= m.pairs[i][1]
  /\ \E i \in 1..3 : m.pairs[i][2] < m.pairs[i][1]

Times(n, lit) == FlattenSeq([i \in 1..n |-> lit])
Repaired(T) ==
  LET m == Missing(T) IN
  T \o FlattenSeq([i \in 1..3 |-> Times(m.pairs[i][1] - m.pairs[i][2], m.pairs[i][3])])

(***************************************************************************)
(* The tracker of decoding (dsml_decode_tracker_update), called with a text*)
(* that grows, and the recognizer its tests compare it with, which starts  *)
(* from the first symbol.  Of a partial closing tag two bytes must be      *)
(* there, hence two symbols.                                               *)
(***************************************************************************)
TrackerInit == [mode |-> "search", decode |-> "outside", pos |-> 0,
                quoted |-> FALSE, escaped |-> FALSE]

BeginsParamEnd(T, p) == Len(T) - p >= 2 /\ Partial(T, p, ParamEnd)

TrackSearch(dt, T) ==
  IF Has(T, dt.pos, ToolsStart)
  THEN [dt EXCEPT !.mode = "structural", !.decode = "structural",
                  !.pos = FirstAt(T, dt.pos, ToolsStart) + 2]
  ELSE [dt EXCEPT !.decode = "outside", !.pos = IF Len(T) > 2 THEN Len(T) - 2 ELSE 0]

TrackString(dt, T) ==
  LET cut == {p \in dt.pos..Len(T) : BeginsParamEnd(T, p)} IN
  IF Has(T, dt.pos, ParamEnd)
  THEN [dt EXCEPT !.mode = "structural", !.decode = "structural",
                  !.pos = FirstAt(T, dt.pos, ParamEnd) + 3]
  ELSE IF cut # {} THEN [dt EXCEPT !.decode = "structural", !.pos = Min(cut)]
  ELSE [dt EXCEPT !.decode = "string_body", !.pos = Len(T)]

(* Mutated form: an escaped quote ends the string. *)
AfterJsonUnescaped(dt, c) == [dt EXCEPT !.pos = @ + 1, !.quoted = (@ # (c = "q"))]

AfterJson(dt, c) ==
  [dt EXCEPT !.pos = @ + 1,
             !.escaped = dt.quoted /\ ~dt.escaped /\ c = "e",
             !.quoted = IF dt.escaped THEN @ ELSE (@ # (c = "q"))]

TrackJson(dt, T) ==
  IF ~dt.quoted /\ Full(T, dt.pos, ParamEnd)
  THEN [dt EXCEPT !.mode = "structural", !.decode = "structural", !.pos = @ + 3]
  ELSE IF ~dt.quoted /\ BeginsParamEnd(T, dt.pos)
  THEN [dt EXCEPT !.decode = "structural"]
  ELSE IF dt.pos < Len(T) THEN AfterJson(dt, T[dt.pos + 1])
  ELSE [dt EXCEPT !.decode = IF dt.quoted THEN "json_string" ELSE "json_structural"]

TrackStructural(dt, T) ==
  LET q == SkipWs(T, dt.pos) IN
  IF Full(T, q, ToolsEnd)
  THEN [dt EXCEPT !.mode = "done", !.decode = "outside", !.pos = q + 3]
  ELSE IF Full(T, q, CallEnd) THEN [dt EXCEPT !.pos = q + 3]
  ELSE IF Full(T, q, CallStart) THEN [dt EXCEPT !.pos = q + 2]
  ELSE IF Full(T, q, <<"<", "spar>">>)
  THEN [dt EXCEPT !.mode = "string", !.decode = "string_body", !.pos = q + 2]
  ELSE IF ParamStartAt(T, q)
  THEN [dt EXCEPT !.mode = "json", !.decode = "json_structural", !.pos = q + 2,
                  !.quoted = FALSE, !.escaped = FALSE]
  ELSE [dt EXCEPT !.decode = "structural", !.pos = q]

TrackStep(dt, T) ==
  CASE dt.mode = "search"     -> TrackSearch(dt, T)
    [] dt.mode = "structural" -> TrackStructural(dt, T)
    [] dt.mode = "string"     -> TrackString(dt, T)
    [] dt.mode = "json"       -> TrackJson(dt, T)
    [] dt.mode = "done"       -> [dt EXCEPT !.decode = "outside"]

(* The steps of one call, until one changes nothing. *)
Tracked(dt, T) ==
  LET step[n \in 0..(Len(T) + 2)] ==
        IF n = 0 THEN TrackStep(dt, T)
        ELSE LET before == step[n - 1] IN
             IF before.mode = "done" THEN before ELSE TrackStep(before, T)
  IN step[Len(T) + 2]

(* dsml_decode_scan_json_param: the state of the JSON from p to the end. *)
ScanJson(T, v) ==
  LET S[p \in 0..Len(T), quoted \in BOOLEAN, escaped \in BOOLEAN] ==
        IF ~quoted /\ Full(T, p, ParamEnd) THEN "structural"
        ELSE IF p < Len(T)
        THEN S[p + 1, IF escaped THEN quoted ELSE (quoted # (T[p + 1] = "q")),
                      quoted /\ ~escaped /\ T[p + 1] = "e"]
        ELSE IF quoted THEN "json_string"
        ELSE IF \E i \in 0..Len(T) : BeginsParamEnd(T, i) THEN "structural"
        ELSE "json_structural"
  IN S[v, FALSE, FALSE]

(* dsml_decode_state_for_text, from behind the opening of the block. *)
StateFrom(T) ==
  LET R[p \in 0..Len(T)] ==
        LET q == SkipWs(T, p)
            value == IF Full(T, q, <<"<", "spar>">>)
                     THEN IF Has(T, q + 2, ParamEnd) \/ \E i \in 0..Len(T) : BeginsParamEnd(T, i)
                          THEN "structural" ELSE "string_body"
                     ELSE ScanJson(T, q + 2)
        IN IF Full(T, q, ToolsEnd) THEN "outside"
           ELSE IF Full(T, q, CallEnd) THEN R[q + 3]
           ELSE IF Full(T, q, CallStart) THEN R[q + 2]
           ELSE IF ~ParamStartAt(T, q) THEN "structural"
           ELSE IF value = "structural" /\ Has(T, q + 2, ParamEnd)
           THEN R[FirstAt(T, q + 2, ParamEnd) + 3]
           ELSE value
  IN R

StateForText(T) ==
  IF Has(T, 0, ToolsStart) THEN StateFrom(T)[FirstAt(T, 0, ToolsStart) + 2] ELSE "outside"
=============================================================================
