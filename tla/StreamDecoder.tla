---------------------------- MODULE StreamDecoder ----------------------------
(***************************************************************************)
(* dsml.StreamDecoder: the completion arrives in chunks that may end       *)
(* anywhere, and events go out as soon as they are certain.  Tool events   *)
(* are held until the whole block has been read; a block that turns out    *)
(* to be malformed is replayed as content.                                 *)
(*                                                                         *)
(* d is the struct of the code, with the text of the events it has         *)
(* returned.  An argument's fragments are not events of their own.         *)
(***************************************************************************)
EXTENDS Markup

CONSTANTS Inputs,     \* set of [syntax, thinking, text]
          Margin      \* pieces held back: no tag's first pieces are more

VARIABLES d, rest, phase
streamVars == <<d, rest, phase>>

NoPending == [calls |-> <<>>, args |-> <<>>, open |-> FALSE, key |-> <<>>, string |-> TRUE]

NewStreamDecoder(input) ==
    [syntax |-> input.syntax, thinking |-> input.thinking,
     buf |-> <<>>, fullText |-> <<>>, finalPass |-> FALSE,
     state |-> IF input.thinking THEN "thinking" ELSE "content",
     seenToolCallsOp |-> FALSE, implicitBlock |-> FALSE, rawBlockStart |-> 0,
     pending |-> NoPending, toolBlockClosed |-> FALSE, thinkStanza |-> FALSE,
     reasoning |-> <<>>, content |-> <<>>, tools |-> <<>>]

StreamInit == \E input \in Inputs :
    d = NewStreamDecoder(input) /\ rest = input.text /\ phase = "wait"

-----------------------------------------------------------------------------
(* Helpers *)

Partial(t, p) == Len(t) < Len(p) /\ IsPrefix(t, p)
To(x, s) == [x EXCEPT !.state = s]
Drop(x, n) == [x EXCEPT !.buf = From(x.buf, n + 1)]
Skipped(x) == [x EXCEPT !.buf = Skip(@)]
EmitReasoning(x, t) == [x EXCEPT !.reasoning = @ \o t]
EmitContent(x, t) == [x EXCEPT !.content = @ \o t]

\* classifyTagStart.
Classify(t, p) ==
    IF HasTagPrefix(t, p) THEN "yes" ELSE IF IsPrefix(t, p) THEN "partial" ELSE "no"

Consumed(x) == Len(x.fullText) - Len(x.buf)

\* replayConsumedAsContent.
Replayed(x) == EmitContent(x, SubSeq(x.fullText, x.rawBlockStart + 1, Consumed(x)))

EnterRawMode(x) ==
    [Replayed(x) EXCEPT !.state = "raw", !.pending = NoPending, !.toolBlockClosed = FALSE,
                        !.seenToolCallsOp = FALSE, !.implicitBlock = FALSE]

CompleteToolBlock(x) ==
    [x EXCEPT !.tools = @ \o x.pending.calls, !.pending = NoPending, !.state = "content",
              !.seenToolCallsOp = FALSE, !.implicitBlock = FALSE]

\* A call begins, or its arguments are complete.
Opens(x, s) == [x EXCEPT !.pending.args = <<>>, !.pending.open = TRUE, !.state = s]
Completes(x, s) ==
    [x EXCEPT !.pending = [NoPending EXCEPT !.calls = Append(x.pending.calls, x.pending.args)],
              !.state = s]
CompleteInvoke(x) ==
    IF ValidJSON(x.pending.args) THEN Completes(x, "toolCalls") ELSE EnterRawMode(x)

\* safeContentLen: what precedes the last "<" or newline of the tail.
SafeContentLen(x) ==
    LET n == Len(x.buf)
        marks == {i \in (n - Margin + 1)..n : x.buf[i] \in Angles \cup {"nl"}}
        last == CHOOSE i \in marks : \A j \in marks : j <= i
    IN  IF x.finalPass THEN n
        ELSE IF n <= Margin THEN 0
        ELSE IF marks = {} THEN n - Margin
        ELSE IF x.buf[last] # "nl" /\ last > 2 /\ SubSeq(x.buf, last - 2, last - 1) = <<"nl", "nl">>
             THEN last - 3 ELSE last - 1

EmitSafe(x) == LET n == SafeContentLen(x) IN Drop(EmitContent(x, SubSeq(x.buf, 1, n)), n)

\* The content before the end of the sentence, which ends everything.
Ends(x) == Drop(To(EmitContent(x, UpTo(x.buf, Eos)), "done"), At(x.buf, Eos) + 1)
AtEos(t) == At(t, Eos) > 0

-----------------------------------------------------------------------------
(* The handlers *)

ProcessThinking(x0) ==
    LET x1 == [x0 EXCEPT !.thinkStanza = @ \/
                  At(x0.fullText, IF x0.syntax = "dsml" THEN ToolStart ELSE CallStart) > 0]
        x == IF IsPrefix(Think, x1.buf) THEN Drop(x1, 2) ELSE x1
        n == Len(x.buf)
    IN  IF At(x.buf, ThinkEnd) > 0
        THEN Drop(To(EmitReasoning(x, UpTo(x.buf, ThinkEnd)), "content"), At(x.buf, ThinkEnd) + 1)
        ELSE IF x.finalPass THEN Drop(EmitReasoning(x, x.buf), n)
        ELSE IF n > Len(ThinkEnd)
        THEN Drop(EmitReasoning(x, SubSeq(x.buf, 1, n - 2)), n - 2) ELSE x

ProcessContent(x) ==
    LET b == BlockStart(x.buf)
        at == Drop(EmitContent(x, SubSeq(x.buf, 1, b.raw - 1)), b.raw - 1)
    IN  IF b.found /\ (~AtEos(x.buf) \/ b.raw < At(x.buf, Eos))
        THEN [at EXCEPT !.implicitBlock = b.implicit, !.seenToolCallsOp = b.implicit,
                        !.rawBlockStart = Consumed(at), !.state = "toolCalls"]
        ELSE IF AtEos(x.buf) THEN Ends(x) ELSE EmitSafe(x)

\* processXMLContent: <tool_call> alone opens a block.
ProcessXMLContent(x, next) ==
    LET c == At(x.buf, CallStart)
        at == Drop(EmitContent(x, SubSeq(x.buf, 1, c - 1)), c - 1)
    IN  IF c > 0 /\ (~AtEos(x.buf) \/ c < At(x.buf, Eos))
        THEN Drop([at EXCEPT !.rawBlockStart = Consumed(at), !.state = next], 2)
        ELSE IF AtEos(x.buf) THEN Ends(x) ELSE EmitSafe(x)

ProcessInToolCalls(x0) ==
    LET opener == IF IsPrefix(<<"nl", "nl">>, x0.buf) THEN <<"nl", "nl">> \o ToolStart ELSE ToolStart
        x == Skipped(x0)
        closes == [x EXCEPT !.toolBlockClosed = TRUE, !.state = "checkEnd"]
    IN  CASE ~x0.seenToolCallsOp ->
                IF IsPrefix(opener, x0.buf)
                THEN Drop([x0 EXCEPT !.seenToolCallsOp = TRUE], Len(opener)) ELSE EnterRawMode(x0)
          [] x0.seenToolCallsOp /\ x.buf = <<>> -> x
          [] x0.seenToolCallsOp /\ x.buf # <<>> ->
                IF ~x.implicitBlock /\ IsPrefix(ToolEnd, x.buf) THEN Drop(closes, 2)
                ELSE IF Classify(x.buf, InvokeStart) = "yes" THEN To(x, "invoke")
                ELSE IF Classify(x.buf, InvokeStart) = "partial" /\ ~x.finalPass THEN x
                ELSE IF ~x.implicitBlock /\ ~x.finalPass /\ Partial(x.buf, ToolEnd) THEN x
                ELSE IF x.implicitBlock /\ x.pending.calls # <<>> THEN closes
                ELSE EnterRawMode(x)

\* processInInvoke, processInParameter: the tag up to its ">".
ProcessInInvoke(x) ==
    IF ~Contains(x.buf, ">") THEN IF x.finalPass THEN EnterRawMode(x) ELSE x
    ELSE IF ~Named(x.buf) THEN EnterRawMode(x)
    ELSE Opens(Drop(x, At(x.buf, <<">">>)), "invokeBody")

ProcessInParameter(x) ==
    IF ~Contains(x.buf, ">") THEN IF x.finalPass THEN EnterRawMode(x) ELSE x
    ELSE IF ~Named(x.buf) THEN EnterRawMode(x)
    ELSE Drop([x EXCEPT !.pending.key = <<"k">>, !.pending.string = IsString(x.buf),
                        !.state = "paramValue"], At(x.buf, <<">">>))

ProcessInInvokeBody(x0) ==
    LET x == Skipped(x0) IN
    IF x.buf = <<>> THEN x
    ELSE IF IsPrefix(InvokeEnd, x.buf) THEN CompleteInvoke(Drop(x, 2))
    ELSE IF Classify(x.buf, ParamStart) = "yes" THEN To(x, "param")
    ELSE IF ~x.finalPass /\ (Classify(x.buf, ParamStart) = "partial" \/ Partial(x.buf, InvokeEnd)) THEN x
    ELSE EnterRawMode(x)

ProcessInParameterValue(x) ==
    LET i == At(x.buf, ParamEnd) IN
    IF i = 0 THEN IF x.finalPass THEN EnterRawMode(x) ELSE x
    ELSE Drop([x EXCEPT !.pending.args = Put(@, x.pending.key, UpTo(x.buf, ParamEnd), x.pending.string),
                        !.state = "invokeBody"], i + 1)

\* A variant that takes the block as valid whatever follows it.
ProcessCheckingToolBlockEndLax(x0) ==
    LET x == Skipped(x0) IN
    IF x.buf = <<>> THEN x
    ELSE IF IsPrefix(Eos, x.buf) THEN To(CompleteToolBlock(Drop(x, 2)), "done")
    ELSE IF ~x.finalPass /\ Partial(x.buf, Eos) THEN x
    ELSE CompleteToolBlock(x)

ProcessCheckingToolBlockEnd(x0) ==
    LET x == Skipped(x0) IN
    IF x.buf = <<>> THEN x
    ELSE IF IsPrefix(Eos, x.buf) THEN To(CompleteToolBlock(Drop(x, 2)), "done")
    ELSE IF ~x.finalPass /\ Partial(x.buf, Eos) THEN x
    ELSE EnterRawMode(x)

ProcessRaw(x) == IF AtEos(x.buf) THEN Ends(x) ELSE EmitSafe(x)

-----------------------------------------------------------------------------
(* GLM and Qwen *)

ProcessGLMName(x) ==
    LET lt == CHOOSE i \in FirstAngle(x.buf) : TRUE
        t == From(x.buf, lt)
    IN  IF FirstAngle(x.buf) = {} THEN x
        ELSE IF ~IsPrefix(KeyStart, t) /\ ~IsPrefix(CallEnd, t)
        THEN IF Partial(t, KeyStart) \/ Partial(t, CallEnd) THEN x ELSE EnterRawMode(x)
        ELSE IF Blank(SubSeq(x.buf, 1, lt - 1)) THEN EnterRawMode(x)
        ELSE Opens(Drop(x, lt - 1), "glmKey")

ProcessGLMArgKey(x) ==
    LET body == After(x.buf, KeyStart)
        value == Skip(After(body, KeyEnd))
    IN  CASE IsPrefix(CallEnd, x.buf) -> Completes(Drop(x, 2), "afterCall")
          [] ~IsPrefix(CallEnd, x.buf) /\ ~IsPrefix(KeyStart, x.buf) ->
                IF Partial(x.buf, KeyStart) \/ Partial(x.buf, CallEnd) THEN x ELSE EnterRawMode(x)
          [] IsPrefix(KeyStart, x.buf) ->
                IF At(body, KeyEnd) = 0 THEN x
                ELSE IF Blank(UpTo(body, KeyEnd)) THEN EnterRawMode(x)
                ELSE IF IsPrefix(ValueStart, value)
                THEN [x EXCEPT !.pending.key = Trim(UpTo(body, KeyEnd)),
                               !.buf = After(value, ValueStart), !.state = "glmValue"]
                ELSE IF Partial(value, ValueStart) THEN x ELSE EnterRawMode(x)

ProcessGLMArgValue(x) ==
    LET i == At(x.buf, ValueEnd) IN
    IF i = 0 THEN x
    ELSE Drop([x EXCEPT !.pending.args = Put(@, x.pending.key, UpTo(x.buf, ValueEnd), TRUE),
                        !.state = "glmKey"], i + 1)

\* processGLMAfterCall, processQwenAfterCall: white space, another call, the end.
ProcessAfterCall(x) ==
    LET t == Skip(x.buf)
        at == [x EXCEPT !.buf = t]
    IN  IF IsPrefix(CallStart, t) THEN Drop(To(at, IF x.syntax = "glm" THEN "glmName" ELSE "qwenFn"), 2)
        ELSE IF IsPrefix(Eos, t) THEN To(CompleteToolBlock(Drop(at, 2)), "done")
        ELSE IF t = <<>> \/ (~x.finalPass /\ (Partial(t, CallStart) \/ Partial(t, Eos))) THEN x
        ELSE EnterRawMode(x)

\* What follows an opening that ends with a name: wait for it, fail, or go on.
WithName(x, t, next) ==
    LET name == From(t, 2) IN
    IF FirstAngle(NameOf(name)) = {} /\ ~Contains(name, ">") THEN x
    ELSE IF ~GoodName(name) THEN EnterRawMode(x)
    ELSE [next EXCEPT !.buf = After(name, <<">">>)]

ProcessQwenFn(x) ==
    LET t == Skip(x.buf) IN
    IF IsPrefix(FnStart, t) THEN WithName(x, t, Opens(x, "qwenParam"))
    ELSE IF t = <<>> THEN x ELSE EnterRawMode(x)

ProcessQwenParam(x) ==
    LET t == Skip(x.buf) IN
    IF IsPrefix(FnEnd, t) THEN [To(x, "qwenAfterFn") EXCEPT !.buf = From(t, 3)]
    ELSE IF IsPrefix(QParamStart, t)
    THEN WithName(x, t, [To(x, "qwenValue") EXCEPT !.pending.key = Trim(NameOf(From(t, 2)))])
    ELSE IF t = <<>> \/ Partial(t, FnEnd) THEN x ELSE EnterRawMode(x)

ProcessQwenParamValue(x) ==
    LET i == At(x.buf, QParamEnd) IN
    IF i = 0 THEN x
    ELSE Drop([x EXCEPT !.pending.args = QwenPut(@, x.pending.key, UpTo(x.buf, QParamEnd)),
                        !.state = "qwenParam"], i + 1)

ProcessQwenAfterFn(x) ==
    LET t == Skip(x.buf) IN
    IF IsPrefix(CallEnd, t) THEN Completes([x EXCEPT !.buf = From(t, 3)], "afterCall")
    ELSE IF t = <<>> \/ Partial(t, CallEnd) THEN x ELSE EnterRawMode(x)

-----------------------------------------------------------------------------
(* Write, process and Close *)

Handled(x) ==
    CASE x.state = "thinking" -> ProcessThinking(x)
      [] x.state = "content" /\ x.syntax = "dsml" -> ProcessContent(x)
      [] x.state = "content" /\ x.syntax = "glm" -> ProcessXMLContent(x, "glmName")
      [] x.state = "content" /\ x.syntax = "qwen" -> ProcessXMLContent(x, "qwenFn")
      [] x.state = "toolCalls" -> ProcessInToolCalls(x)
      [] x.state = "invoke" -> ProcessInInvoke(x)
      [] x.state = "invokeBody" -> ProcessInInvokeBody(x)
      [] x.state = "param" -> ProcessInParameter(x)
      [] x.state = "paramValue" -> ProcessInParameterValue(x)
      [] x.state = "checkEnd" -> ProcessCheckingToolBlockEnd(x)
      [] x.state = "raw" -> ProcessRaw(x)
      [] x.state = "glmName" -> ProcessGLMName(x)
      [] x.state = "glmKey" -> ProcessGLMArgKey(x)
      [] x.state = "glmValue" -> ProcessGLMArgValue(x)
      [] x.state = "afterCall" -> ProcessAfterCall(x)
      [] x.state = "qwenFn" -> ProcessQwenFn(x)
      [] x.state = "qwenParam" -> ProcessQwenParam(x)
      [] x.state = "qwenValue" -> ProcessQwenParamValue(x)
      [] x.state = "qwenAfterFn" -> ProcessQwenAfterFn(x)
      [] x.state = "done" -> [x EXCEPT !.buf = <<>>]

\* Write: a chunk of any length.
Write ==
    /\ phase = "wait" /\ rest # <<>>
    /\ \E n \in DOMAIN rest :
          /\ d' = [d EXCEPT !.buf = @ \o SubSeq(rest, 1, n), !.fullText = @ \o SubSeq(rest, 1, n)]
          /\ rest' = From(rest, n + 1)
    /\ phase' = "process"

\* process: handlers, until neither the bytes nor the state change.
Process ==
    /\ phase = "process"
    /\ d' = Handled(d)
    /\ phase' = IF Len(d'.buf) # Len(d.buf) \/ d'.state # d.state THEN "process"
                ELSE IF d.finalPass THEN "flush" ELSE "wait"
    /\ UNCHANGED rest

\* Close, at the end of the text or before it; the rest is flushed.
Close ==
    /\ phase = "wait"
    /\ d' = [d EXCEPT !.finalPass = TRUE]
    /\ phase' = "process"
    /\ UNCHANGED rest

Flushed(x) ==
    CASE x.state = "thinking" -> EmitReasoning(x, x.buf)
      [] x.state \in {"content", "raw"} -> EmitContent(x, x.buf)
      [] x.state = "checkEnd" ->
            IF Blank(x.buf) THEN CompleteToolBlock(x) ELSE EmitContent(x, x.buf)
      [] x.state = "afterCall" -> EmitContent(CompleteToolBlock(x), x.buf)
      [] x.state = "done" -> x
      [] OTHER -> EmitContent(Replayed(x), x.buf)

Flush ==
    /\ phase = "flush"
    /\ d' = [Flushed(d) EXCEPT !.buf = <<>>]
    /\ phase' = "closed"
    /\ UNCHANGED rest

StreamNext == Write \/ Process \/ Close \/ Flush
StreamSpec == StreamInit /\ [][StreamNext]_streamVars

-----------------------------------------------------------------------------
(* Properties *)

\* Where the content begins: at the end of the reasoning.
Begins(s) == IF d.thinking THEN s > 1 /\ SubSeq(d.fullText, s - 1, s) = ThinkEnd ELSE s = 0

\* Where it ends: with the text, at the end of the sentence, or at a block of
\* calls that has been read as calls.
Stops(e) ==
    \/ e = Len(d.fullText)
    \/ d.state = "done" /\ IsPrefix(Eos, From(d.fullText, e + 1))
    \/ d.state \in {"done", "content"} /\ e = d.rawBlockStart /\ (d.tools # <<>> \/ d.toolBlockClosed)

\* The content is what the completion says from where the reasoning ends,
\* in its order, with nothing lost and nothing doubled, up to where it ends:
\* a block that fails half way is replayed byte for byte, however the text was
\* cut.  (Only white space after a call of GLM or Qwen is emitted behind it.)
ContentIsText ==
    phase = "closed" =>
        IF d.state = "thinking" THEN d.content = <<>>
        ELSE \E s, e, b \in 0..Len(d.fullText) :
                /\ Begins(s) /\ s <= e /\ e <= b /\ Stops(e)
                /\ Blank(From(d.fullText, b + 1))
                /\ d.content = SubSeq(d.fullText, s + 1, e) \o From(d.fullText, b + 1)
=============================================================================
