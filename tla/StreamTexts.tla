----------------------------- MODULE StreamTexts -----------------------------
(* Completions of a few words, for the instances of StreamDecoder. *)
EXTENDS Markup

Attr(name) == <<name, " name", ">">>
Param == Attr("<param") \o <<"a">> \o ParamEnd
Call == Attr("<invoke") \o Param \o InvokeEnd
GLMCall == CallStart \o <<"a">> \o KeyStart \o <<"a">> \o KeyEnd \o ValueStart \o <<"a">> \o ValueEnd \o CallEnd
QwenCall == CallStart \o <<"<function=", "a", ">", "<param=", "a", ">", "1">>
               \o QParamEnd \o FnEnd \o <<"nl">> \o CallEnd

Common == {<<"a">>, <<"nl", "nl">>, Eos}
DSMLWords == Common \cup {ToolStart, ToolEnd, Call, <<"<invoke", " name">>, Param,
    <<"<invoke", ">">>, <<"<invoke", " name", ">", "<param", " json", ">", "a">> \o ParamEnd \o InvokeEnd}
GLMWords == Common \cup {GLMCall, CallStart, CallEnd, KeyStart \o <<"a">> \o KeyEnd,
                         ValueStart \o <<"a">>}
QwenWords == Common \cup {QwenCall, CallStart, CallEnd, <<"<function=", "a">>, FnEnd}

Sentences(words, k) == {FlattenSeq(s) : s \in UNION {[1..n -> words] : n \in 1..k}}
Texts(syntax, k) == Sentences(CASE syntax = "dsml" -> DSMLWords [] syntax = "glm" -> GLMWords
                                [] syntax = "qwen" -> QwenWords, k)

\* Reasoning that may quote markup, a parameter that does not end among it, and
\* that is closed once, twice, or never: a second end in the answer, or behind it.
Thought == {<<>>, Think, <<"a">>, Think \o ToolStart, Attr("<param"), Think \o Attr("<param") \o ParamEnd}
Calling == ToolStart \o Call \o ToolEnd
Closings == {<<>>, ThinkEnd, ThinkEnd \o <<"a">> \o ThinkEnd, ThinkEnd \o Calling \o Eos \o ThinkEnd}
Completions ==
    [syntax : {"dsml", "glm", "qwen"}, thinking : {FALSE, TRUE}, text : {<<>>}]
    \cup UNION {[syntax : {s}, thinking : {FALSE}, text : Texts(s, 3)] : s \in {"dsml", "glm", "qwen"}}
    \cup {[syntax |-> "dsml", thinking |-> FALSE, text |-> ToolStart \o t] : t \in Texts("dsml", 3)}
    \cup {[syntax |-> "dsml", thinking |-> TRUE, text |-> r \o c \o t] :
             r \in Thought, c \in Closings, t \in {<<"a">>, Calling}}
=============================================================================
