-------------------------------- MODULE Markup --------------------------------
(***************************************************************************)
(* The tags of tool calls (dsml: decode.go, glm.go, qwen.go, dsml.go), and *)
(* what the parser of a finished completion (ToolMarkup) and the decoder   *)
(* of a stream (StreamDecoder) look for in a text.                         *)
(*                                                                         *)
(* A text is a sequence of pieces.  A tag is two pieces or more, of which  *)
(* the last is ">", so that a chunk or a truncation can end inside it.  A  *)
(* piece " name" or " json" is the attributes of an opening tag, "nl" a    *)
(* newline, "a" and "1" any text; there are no entities to unescape.       *)
(***************************************************************************)
EXTENDS Naturals, SequencesExt

Tag(name) == <<name, ">">>
Think == Tag("<think")    ThinkEnd == Tag("</think")    Eos == Tag("<eos")

\* dsmlSyntaxes, of which the model has one row
ToolStart == Tag("<calls")     ToolEnd == Tag("</calls")
InvokeStart == <<"<invoke">>   InvokeEnd == Tag("</invoke")
ParamStart == <<"<param">>     ParamEnd == Tag("</param")

\* GLM and Qwen; a <function= or <parameter= ends after its "="
CallStart == Tag("<call")      CallEnd == Tag("</call")
KeyStart == Tag("<key")        KeyEnd == Tag("</key")
ValueStart == Tag("<value")    ValueEnd == Tag("</value")
FnStart == <<"<function=">>    FnEnd == Tag("</function")
QParamStart == <<"<param=">>   QParamEnd == Tag("</param")

Angles == {"<think", "</think", "<eos", "<calls", "</calls", "<invoke", "</invoke",
           "<param", "</param", "<call", "</call", "<key", "</key", "<value", "</value",
           "<function=", "</function", "<param="}
Delimiters == {">", " name", " json", "nl"}

-----------------------------------------------------------------------------
(* Sequences of pieces *)

\* The first position of p in t, or 0.
At(t, p) ==
    LET hits == {i \in 1..(Len(t) - Len(p) + 1) : SubSeq(t, i, i + Len(p) - 1) = p}
    IN  IF hits = {} THEN 0 ELSE CHOOSE i \in hits : \A j \in hits : i <= j
From(t, i) == SubSeq(t, i, Len(t))
After(t, p) == From(t, At(t, p) + Len(p))
UpTo(t, p) == IF At(t, p) = 0 THEN t ELSE SubSeq(t, 1, At(t, p) - 1)

\* Leading and trailing whitespace.
Blank(t) == \A i \in DOMAIN t : t[i] = "nl"
Skip(t) == IF Blank(t) THEN <<>>
           ELSE From(t, CHOOSE i \in DOMAIN t : t[i] # "nl" /\ Blank(SubSeq(t, 1, i - 1)))
Trim(t) == Reverse(Skip(Reverse(Skip(t))))

\* hasTagPrefix: the element's name ends here.
HasTagPrefix(t, p) == IsPrefix(p, t) /\ Len(t) > Len(p) /\ t[Len(p) + 1] \in Delimiters

\* A tag is what stands up to the next ">"; dsmlAttr finds its name.
Header(t) == UpTo(t, <<">">>)
Named(t) == Contains(Header(t), " name") \/ Contains(Header(t), " json")
IsString(t) == ~Contains(Header(t), " json")

\* orderedArgs: a key keeps its place, the last value counts.
Put(args, k, v, string) ==
    LET x == [k |-> k, v |-> v, string |-> string]
        old == {i \in DOMAIN args : args[i].k = k}
    IN  IF old = {} THEN Append(args, x) ELSE [i \in DOMAIN args |-> IF i \in old THEN x ELSE args[i]]
ValidJSON(args) == \A i \in DOMAIN args : args[i].string \/ args[i].v = <<"1">>

\* qwenStripValueNewlines, and what qwenValueIsJSON says of the rest.
StripValue(v) ==
    LET w == IF v # <<>> /\ v[1] = "nl" THEN Tail(v) ELSE v
    IN  IF w # <<>> /\ Last(w) = "nl" THEN Front(w) ELSE w
QwenPut(args, k, raw) ==
    LET v == StripValue(raw) IN Put(args, k, IF Trim(v) = <<"1">> THEN <<"1">> ELSE v,
                                    Trim(v) # <<"1">>)

\* findToolBlockStartSyntax: the earliest wrapper or bare invoke; the two
\* newlines before it belong to it.
BlockStart(t) ==
    LET w == At(t, ToolStart)
        bare == {i \in DOMAIN t : HasTagPrefix(From(t, i), InvokeStart)}
        hits == (IF w = 0 THEN {} ELSE {w}) \cup bare
        start == CHOOSE i \in hits : \A j \in hits : i <= j
    IN  IF hits = {} THEN [found |-> FALSE]
        ELSE [found |-> TRUE, start |-> start, implicit |-> start # w,
              raw |-> IF start > 2 /\ SubSeq(t, start - 2, start - 1) = <<"nl", "nl">>
                      THEN start - 2 ELSE start]

\* The first tag, and the name up to ">": one without a tag in it.
FirstAngle(t) == {i \in DOMAIN t : t[i] \in Angles /\ \A j \in 1..(i - 1) : t[j] \notin Angles}
NameOf(t) == UpTo(t, <<">">>)
GoodName(t) == Contains(t, ">") /\ FirstAngle(NameOf(t)) = {} /\ ~Blank(NameOf(t))
=============================================================================
