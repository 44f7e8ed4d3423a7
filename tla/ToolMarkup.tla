------------------------------ MODULE ToolMarkup ------------------------------
(***************************************************************************)
(* What a finished completion means (dsml: decode.go, glm.go, qwen.go,     *)
(* tooltext.go, repair.go): reasoning, content and tool calls, in the      *)
(* three grammars.  StreamDecoder reads the same text chunk by chunk.      *)
(***************************************************************************)
EXTENDS Markup

-----------------------------------------------------------------------------
(* The tool calls at the beginning of t: [ok, calls, rest] *)

Malformed == [ok |-> FALSE, calls |-> <<>>, rest |-> <<>>]

\* parseToolCalls: the parameters of an invoke, up to its end.
RECURSIVE ParseParams(_, _)
ParseParams(text, args) ==
    LET t == Skip(text)
        body == After(t, <<">">>)
    IN  CASE IsPrefix(InvokeEnd, t) -> [ok |-> ValidJSON(args), calls |-> args, rest |-> After(t, InvokeEnd)]
          [] HasTagPrefix(t, ParamStart) /\ Contains(t, ">") /\ Named(t) /\ At(body, ParamEnd) > 0 ->
                ParseParams(After(body, ParamEnd), Put(args, <<"k">>, UpTo(body, ParamEnd), IsString(t)))
          [] OTHER -> Malformed

RECURSIVE ParseInvokes(_, _, _)
ParseInvokes(text, implicit, calls) ==
    LET t == Skip(text) IN
    CASE ~implicit /\ IsPrefix(ToolEnd, t) -> [ok |-> TRUE, calls |-> calls, rest |-> After(t, ToolEnd)]
      [] HasTagPrefix(t, InvokeStart) /\ Contains(t, ">") /\ Named(t) ->
            LET one == ParseParams(After(t, <<">">>), <<>>) IN
            IF one.ok THEN ParseInvokes(one.rest, implicit, Append(calls, one.calls)) ELSE Malformed
      [] implicit /\ calls # <<>> /\ ~HasTagPrefix(t, InvokeStart) ->
            [ok |-> TRUE, calls |-> calls, rest |-> t]
      [] OTHER -> Malformed

\* glmParseOneCall: name, then keys and values.
RECURSIVE ParseGLMArgs(_, _)
ParseGLMArgs(t, args) ==
    LET afterKey == Skip(After(t, KeyEnd))
        value == After(afterKey, ValueStart)
    IN  CASE IsPrefix(CallEnd, t) -> [ok |-> TRUE, calls |-> args, rest |-> After(t, CallEnd)]
          [] IsPrefix(KeyStart, t) /\ At(t, KeyEnd) > 0 /\ ~Blank(After(UpTo(t, KeyEnd), KeyStart))
                /\ IsPrefix(ValueStart, afterKey) /\ At(value, ValueEnd) > 0 ->
                ParseGLMArgs(After(value, ValueEnd),
                    Put(args, Trim(After(UpTo(t, KeyEnd), KeyStart)), UpTo(value, ValueEnd), TRUE))
          [] OTHER -> Malformed

ParseGLMCall(t) ==
    LET lt == CHOOSE i \in FirstAngle(t) : TRUE IN
    IF FirstAngle(t) = {} \/ Blank(SubSeq(t, 1, lt - 1)) THEN Malformed
    ELSE ParseGLMArgs(From(t, lt), <<>>)

\* qwenParseOneCall: <function=NAME>, then parameters.
RECURSIVE ParseQwenParams(_, _)
ParseQwenParams(text, args) ==
    LET t == Skip(text)
        name == From(t, 2)
        value == After(name, <<">">>)
    IN  CASE IsPrefix(FnEnd, t) -> [ok |-> TRUE, calls |-> args, rest |-> After(t, FnEnd)]
          [] IsPrefix(QParamStart, t) /\ GoodName(name) /\ At(value, QParamEnd) > 0 ->
                ParseQwenParams(After(value, QParamEnd),
                                QwenPut(args, Trim(NameOf(name)), UpTo(value, QParamEnd)))
          [] OTHER -> Malformed
ParseQwenCall(text) ==
    LET t == Skip(text)
        args == ParseQwenParams(After(From(t, 2), <<">">>), <<>>)
    IN  IF IsPrefix(FnStart, t) /\ GoodName(From(t, 2)) /\ args.ok /\ IsPrefix(CallEnd, Skip(args.rest))
        THEN [args EXCEPT !.rest = After(Skip(args.rest), CallEnd)] ELSE Malformed

\* glmParseToolCalls, qwenParseToolCalls: adjacent calls.
RECURSIVE ParseXMLCalls(_, _, _)
ParseXMLCalls(syntax, t, calls) ==
    LET Adjacent(one, next) ==
            IF ~one.ok THEN Malformed
            ELSE IF IsPrefix(CallStart, next) THEN ParseXMLCalls(syntax, next, Append(calls, one.calls))
            ELSE [one EXCEPT !.calls = Append(calls, @)]
        Read(one) == Adjacent(one, Skip(one.rest))
    IN  Read(IF syntax = "glm" THEN ParseGLMCall(After(t, CallStart))
             ELSE ParseQwenCall(After(t, CallStart)))

-----------------------------------------------------------------------------
(* The whole completion *)

\* structuralWrappers: what their bodies hold is data.
Wrappers == { <<ParamStart, ParamEnd>>, <<KeyStart, KeyEnd>>, <<ValueStart, ValueEnd>>,
              <<QParamStart, QParamEnd>> }

\* lastStructuralIndex of "</think>": an unfinished wrapper ends the search.
RECURSIVE LastThinkEnd(_, _, _)
LastThinkEnd(t, i, found) ==
    LET here == IF IsPrefix(ThinkEnd, From(t, i)) THEN i ELSE found
        opened == {w \in Wrappers : IsPrefix(w[1], From(t, i))}
        w == CHOOSE x \in opened : TRUE
        gt == At(From(t, i), <<">">>)
        end == At(From(t, i + gt), w[2])
    IN  CASE i > Len(t) -> found
          [] i <= Len(t) /\ opened = {} -> LastThinkEnd(t, i + 1, here)
          [] OTHER -> IF gt = 0 THEN here
                      ELSE IF end = 0 THEN here
                      ELSE LastThinkEnd(t, i + gt + end + 1, here)

Reasoning(t) == IF IsPrefix(Think, t) THEN After(t, Think) ELSE t

\* contentHasStrayMarker.
Stray(content) == \E i \in DOMAIN content :
    content[i] \in {"<calls", "</calls", "<invoke", "</invoke", "<param", "</param"}

\* ParseCompletionSyntax, with rawCompletionMessage where it is malformed: the
\* text after the reasoning is searched for a block, whose calls are read, and
\* which nothing but the end of the sentence may follow.
FindBlock(syntax, body) ==
    IF syntax = "dsml" THEN BlockStart(body)
    ELSE IF At(body, CallStart) = 0 THEN [found |-> FALSE]
    ELSE [found |-> TRUE, start |-> At(body, CallStart), raw |-> At(body, CallStart)]
ParseBlock(syntax, block, body) ==
    IF syntax # "dsml" THEN ParseXMLCalls(syntax, From(body, block.start), <<>>)
    ELSE ParseInvokes(From(body, IF block.implicit THEN block.start ELSE block.start + 2),
                      block.implicit, <<>>)
WithCalls(msg, content, parsed) ==
    IF parsed.ok /\ Blank(UpTo(parsed.rest, Eos))
    THEN [msg EXCEPT !.content = Trim(content), !.calls = parsed.calls]
    ELSE [msg EXCEPT !.malformed = TRUE]
WithBlock(syntax, msg, body, block) ==
    IF ~block.found \/ At(body, Eos) \in 1..(block.start - 1)
    THEN [msg EXCEPT !.malformed = syntax = "dsml" /\ Stray(msg.content)]
    ELSE WithCalls(msg, SubSeq(body, 1, block.raw - 1), ParseBlock(syntax, block, body))
AfterReasoning(syntax, reasoning, body) ==
    WithBlock(syntax,
              [reasoning |-> reasoning, content |-> Trim(UpTo(body, Eos)), calls |-> <<>>,
               malformed |-> FALSE],
              body, FindBlock(syntax, body))
Completion(syntax, text, end) ==
    IF end = 0 THEN [reasoning |-> Trim(Reasoning(text)), content |-> <<>>, calls |-> <<>>,
                     malformed |-> FALSE]
    ELSE AfterReasoning(syntax, Trim(Reasoning(SubSeq(text, 1, end - 1))), From(text, end + 2))
ParseCompletion(syntax, text, thinking) ==
    IF thinking THEN Completion(syntax, text, LastThinkEnd(text, 1, 0))
    ELSE AfterReasoning(syntax, <<>>, text)

\* RepairCompletionSyntax: ends for the wrappers that lack one, when everything
\* inside is complete.
Count(t, p) == Cardinality({i \in DOMAIN t : IsPrefix(p, From(t, i))})
Repair(syntax, text) ==
    LET end == LastThinkEnd(text, 1, 0)
        scan == IF end = 0 THEN text ELSE From(text, end + 2)
        lacking == IF Count(scan, ToolStart) > Count(scan, ToolEnd)
                   THEN Count(scan, ToolStart) - Count(scan, ToolEnd) ELSE 0
    IN  IF /\ syntax = "dsml"
           /\ Count(scan, InvokeStart) = Count(scan, InvokeEnd)
           /\ Count(scan, ParamStart) = Count(scan, ParamEnd)
        THEN text \o FlattenSeq([i \in 1..lacking |-> ToolEnd])
        ELSE text
=============================================================================
