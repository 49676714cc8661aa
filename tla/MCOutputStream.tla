--------------------------- MODULE MCOutputStream ---------------------------
(* What the model may say: answers with and without a close of thinking, a *)
(* close that is a special token, blocks of one call and of two, with text *)
(* that looks like markup, JSON with an escaped quote, nested parameters,  *)
(* a block cut short in a string and in JSON, one that does not parse, and *)
(* an end without a beginning.                                             *)
EXTENDS OutputStream

X == <<"x">>
StringParam(v) == <<"<", "spar>">> \o v \o ParamEnd
JsonParam(v) == <<"<", "jpar>">> \o v \o ParamEnd
Block(calls) == ToolsStart \o calls \o ToolsEnd
OneCall(params) == CallStart \o params \o CallEnd

ScriptsDef ==
  { X \o ThinkEnd \o <<"w", "x", "<", "w">>,
    ThinkStart \o X \o ThinkEnd \o Block(OneCall(<<>>)),
    X \o ThinkEnd \o <<"w">> \o Block(OneCall(StringParam(<<"x", "<", "x">>))),
    <<"x", "w">> \o Block(OneCall(JsonParam(<<"q", "e", "q", "q">>))),
    Block(OneCall(<<"<", "par>">> \o StringParam(X) \o ParamEnd)),
    Block(OneCall(StringParam(<<"<">>)) \o OneCall(<<>>)),
    X \o ToolsStart \o CallStart \o <<"<", "spar>", "x", "<", "/">>,
    X \o ThinkEnd \o ToolsStart \o CallStart \o <<"<", "jpar>", "q", "x">>,
    Block(X),
    <<"x", "hidden", "x">>,
    X \o ToolsEnd }

ResumedDef ==
  { <<"w", "x">>,
    Block(OneCall(StringParam(X))),
    X \o ToolsStart \o X }

Request(stream, buffered, think, tools) ==
  [stream |-> stream, buffered |-> buffered, think |-> think, tools |-> tools]

RequestsDef ==
  { Request(TRUE, FALSE, TRUE, TRUE), Request(TRUE, FALSE, FALSE, TRUE),
    Request(TRUE, TRUE, TRUE, TRUE), Request(FALSE, FALSE, TRUE, TRUE),
    Request(TRUE, FALSE, TRUE, FALSE) }
=============================================================================
