---------------------------- MODULE CallArguments ----------------------------
(***************************************************************************)
(* The arguments of a tool call on their way into a prompt and back: how   *)
(* the three grammars write them (dsml: encode.go, glm.go, qwen.go,        *)
(* ToolText), read them again, and how the registry then restores the      *)
(* types that the markup lost (tools.go: coerceGLMArguments and            *)
(* coerceQwenStringArguments).                                             *)
(*                                                                         *)
(* A value is [k, v, string]: its key, its text, and whether it is a JSON  *)
(* string; the text of any other value is its JSON, and ToolText says how  *)
(* texts are escaped.  A schema gives a key the types it declares; {} is a *)
(* key that it does not know, and a set of one is written as a single type.*)
(***************************************************************************)
EXTENDS ToolText

XML(syntax) == syntax \in {"glm", "qwen"}

\* escapeJSONLiteralSyn: the tag within JSON, spelled with an escape of JSON.
escapeJSONLiteral(s) ==
    [i \in DOMAIN s |-> IF IsPrefix(End, Tags!From(s, i)) THEN "\\u003c" ELSE s[i]]
Meaning(s) == [i \in DOMAIN s |-> IF s[i] = "\\u003c" THEN "<" ELSE s[i]]

-----------------------------------------------------------------------------
(* Writing and reading *)

\* One element of a call: only DSML writes whether it is a string, and Qwen
\* gives a value lines of its own.
Element(x, mark, body) == <<"<p", x.k, mark>> \o body \o End
parameterElement(x) ==
    IF x.string THEN Element(x, "", escapeToolText(x.v)) ELSE Element(x, " json", escapeJSONLiteral(x.v))
GLMElement(x) == Element(x, "", escapeToolText(x.v))
QwenElement(x) == Element(x, "", <<"nl">> \o escapeToolText(x.v) \o <<"nl">>)

\* What is written of a value: json.Unmarshal reads null into a string too, and
\* leaves it empty, so that all three write null as the empty string.
Null(x) == ~x.string /\ x.v = <<"null">>
Written(x) == IF Null(x) THEN [x EXCEPT !.string = TRUE, !.v = <<>>] ELSE x

\* RenderToolCallsSyntax, of one call: element by element, in the order recorded.
Render(syntax, args) ==
    FlattenSeq([i \in DOMAIN args |->
        CASE syntax = "dsml" -> parameterElement(Written(args[i]))
          [] syntax = "glm" -> GLMElement(Written(args[i]))
          [] syntax = "qwen" -> QwenElement(Written(args[i]))])

TrimLeft(t) == IF \A i \in DOMAIN t : t[i] = " " THEN <<>>
               ELSE Tags!From(t, CHOOSE i \in DOMAIN t : t[i] # " " /\ \A j \in 1..(i - 1) : t[j] = " ")
TrimSpace(t) == Reverse(TrimLeft(Reverse(TrimLeft(t))))

\* The type of a text that is JSON; that a number or a word is one piece is
\* what the model abstracts.
Bracketed(t, open, close) == Len(t) > 1 /\ t[1] = open /\ Last(t) = close
TypeOf(t) ==
    CASE t = <<"1">> -> "integer"
      [] t = <<"1.5">> -> "number"
      [] t = <<"true">> -> "boolean"
      [] t = <<"null">> -> "null"
      [] Bracketed(t, "[", "]") -> "array"
      [] Bracketed(t, "{", "}") -> "object"
      [] OTHER -> "text"

\* qwenValueIsJSON
qwenValueIsJSON(t) == TypeOf(TrimSpace(t)) # "text"

\* The value that one element is read as.
DSMLValue(k, json, body) ==
    [k |-> k, string |-> ~json, v |-> IF json THEN body ELSE unescapeToolText(body)]
GLMValue(k, body) == [k |-> k, string |-> TRUE, v |-> unescapeToolText(body)]
QwenValue(k, body) ==
    LET v == Tags!StripValue(body) IN
    [k |-> k, string |-> ~qwenValueIsJSON(v),
     v |-> IF qwenValueIsJSON(v) THEN TrimSpace(v) ELSE unescapeToolText(v)]

Value(syntax, k, json, body) ==
    CASE syntax = "dsml" -> DSMLValue(k, json, body)
      [] syntax = "glm" -> GLMValue(k, body)
      [] syntax = "qwen" -> QwenValue(k, body)

\* parseToolCalls, glmParseOneCall, qwenParseOneCall: up to the first closing tag.
RECURSIVE Parse(_, _, _)
Parse(syntax, text, args) ==
    LET rest == Tags!From(text, 4)
        x == Value(syntax, text[2], text[3] = " json", Tags!UpTo(rest, End))
    IN  IF text = <<>> THEN args
        ELSE IF text[1] # "<p" \/ Tags!At(rest, End) = 0 THEN <<[k |-> "malformed"]>>
        ELSE Parse(syntax, Tags!After(rest, End), Tags!Put(args, x.k, x.v, x.string))

-----------------------------------------------------------------------------
(* Types *)

\* coerceJSONString, one declared type; null is read into a number as well.
Fits(type, t) ==
    \/ TypeOf(t) = type
    \/ type = "number" /\ TypeOf(t) \in {"integer", "null"}
    \/ type = "integer" /\ TypeOf(t) = "null"

\* coerceGLMArguments: strings that the schema does not allow to be strings.
coerceGLMArguments(schema, args) ==
    [i \in DOMAIN args |->
        LET x == args[i] IN
        IF /\ x.string /\ "string" \notin schema[x.k]
           /\ \E type \in schema[x.k] : Fits(type, TrimSpace(x.v))
        THEN [x EXCEPT !.string = FALSE, !.v = TrimSpace(x.v)] ELSE x]

\* coerceQwenStringArguments: what was read as JSON and is declared a string.
coerceQwenStringArguments(schema, args) ==
    [i \in DOMAIN args |->
        IF ~args[i].string /\ schema[args[i].k] = {"string"}
        THEN [args[i] EXCEPT !.string = TRUE] ELSE args[i]]

\* ParseAssistantSyntax, of one call.
ParseArguments(syntax, schema, text) ==
    LET read == Parse(syntax, text, <<>>)
        typed == IF XML(syntax) THEN coerceGLMArguments(schema, read) ELSE read
    IN  IF syntax = "qwen" THEN coerceQwenStringArguments(schema, typed) ELSE typed

-----------------------------------------------------------------------------
(* What it should be *)

\* A value that the grammar and the schema can tell: any in DSML.  GLM needs the
\* type of all but strings; Qwen of strings that read as JSON, and it has no way
\* to quote its own tag within JSON (see escapeToolText in renderQwenToolCalls).
\* What becomes of null is the same whatever the schema says.
Tellable(syntax, types, x) ==
    CASE syntax = "dsml" \/ Null(x) -> TRUE
      [] syntax = "glm" ->
            IF x.string THEN "string" \in types \/ \A type \in types : ~Fits(type, TrimSpace(x.v))
            ELSE TypeOf(x.v) \in types /\ "string" \notin types
      [] syntax = "qwen" ->
            IF x.string THEN /\ types = {"string"} \/ ~qwenValueIsJSON(x.v)
                             /\ "string" \in types \/ \A type \in types : ~Fits(type, TrimSpace(x.v))
            ELSE types # {"string"} /\ Tags!At(x.v, End) = 0

\* x is read again as y.  Null is not: encodeArguments promises its compact JSON,
\* and what comes back is the empty string, in each of the grammars.
ReadAgain(syntax, x, y) ==
    /\ y.k = x.k
    /\ IF Null(x) THEN y.string /\ y.v = <<>>
       ELSE /\ y.string = x.string
            /\ \/ Meaning(y.v) = x.v
               \/ syntax = "qwen" /\ x.string /\ qwenValueIsJSON(x.v) /\ y.v = TrimSpace(x.v)

\* The arguments that are sent back to the model as history are read, by the
\* same program, as the arguments they are: text for text, whatever they quote,
\* in their order and with their types.  Only null becomes an empty string, the
\* padding of a Qwen string that reads as JSON is lost, and of a key that was
\* given twice the first value.
ArgumentsKept(syntax, schema, args) ==
    LET back == ParseArguments(syntax, schema, Render(syntax, args))
        once == FoldLeft(LAMBDA acc, x : Tags!Put(acc, x.k, x.v, x.string), <<>>, args)
    IN  /\ \A i \in DOMAIN args : TextKept(args[i].v)
        /\ (\A i \in DOMAIN args : Tellable(syntax, schema[args[i].k], args[i])) =>
              Len(back) = Len(once) /\ \A i \in DOMAIN once : ReadAgain(syntax, once[i], back[i])

-----------------------------------------------------------------------------
(* Arguments *)

Quoting == {"a", "&", "amp;", "lt;", "<", "/p>"}
Strings(n) == UNION {[1..m -> Quoting] : m \in 0..n}
              \cup {<<"1">>, <<" ", "1">>, <<"1.5">>, <<"true">>, <<"null">>, <<"nl", "a">>, <<"[", "]">>}
JSON == { <<"1">>, <<"1.5">>, <<"true">>, <<"null">>, <<"{", "}">>, <<"[", "<", "/p>", "]">> }
Values(n) == [string : {TRUE}, v : Strings(n)] \cup [string : {FALSE}, v : JSON]
Types == { {}, {"string"}, {"integer"}, {"number"}, {"string", "null"}, {"array", "boolean"},
           {"object", "null"} }
Calls(n) ==
    {[syntax |-> s, schema |-> [k1 |-> t, k2 |-> {"string"}],
      args |-> <<[k |-> "k1", v |-> x.v, string |-> x.string]>>] :
        s \in {"dsml", "glm", "qwen"}, t \in Types, x \in Values(n)}
    \cup {[syntax |-> s, schema |-> [k1 |-> t, k2 |-> {"string"}],
           args |-> <<[k |-> "k1", v |-> x.v, string |-> x.string],
                      [k |-> "k2", v |-> <<"<", "/p>">>, string |-> TRUE],
                      [k |-> k, v |-> y.v, string |-> y.string]>>] :
        s \in {"dsml", "glm", "qwen"}, t \in {{}, {"integer"}, {"string"}},
        k \in {"k1", "k2"}, x \in Values(1), y \in Values(1)}
=============================================================================
