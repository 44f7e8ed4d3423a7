----------------------------- MODULE StreamParity -----------------------------
(***************************************************************************)
(* What the events of StreamDecoder have to do with what the parser says   *)
(* of the whole completion (ToolMarkup).                                   *)
(***************************************************************************)
EXTENDS StreamDecoder, ToolMarkup

Message == ParseCompletion(d.syntax, d.fullText, d.thinking)

Agrees ==
    /\ d.tools = Message.calls
    /\ Trim(d.reasoning) = Message.reasoning
    /\ IF Message.malformed THEN IsPrefix(Message.content, Trim(d.content))
       ELSE Trim(d.content) = Message.content

\* The events can be put together to the message of the parser, however the
\* completion was cut (stream_test.go:201-203, TestStreamDecoderParity).
EventsAreTheMessage == phase = "closed" => Agrees

\* A call without a wrapper, and the text ends without the end of the sentence:
\* Close takes the block for unfinished.
OpenEnded == BlockStart(d.fullText).found /\ BlockStart(d.fullText).implicit
                /\ At(d.fullText, Eos) = 0

\* The stream takes the reasoning to end at the first "</think>" (stream.go:283),
\* the parser at the last that no parameter holds, and at none behind a parameter
\* that does not end (decode.go:124, tooltext.go:96-101): the text has another.
EndsElsewhere == d.thinking /\ At(d.fullText, ThinkEnd) # LastThinkEnd(d.fullText, 1, 0)

\* Those two cases aside, the events say what the parser says of the whole: the
\* same calls, none for a block it rejects, the same reasoning, and the same
\* content, which may be longer where the block is rejected (stream.go:45-49,
\* 172-174).  In the first the calls come as content; in the second the parser
\* takes more for reasoning, calls that went out among it.
ParserAgrees ==
    phase = "closed" => \/ Agrees
                        \/ OpenEnded /\ d.tools = <<>> /\ IsPrefix(Message.content, Trim(d.content))
                        \/ EndsElsewhere /\ IsPrefix(Trim(d.reasoning), Message.reasoning)

\* When the decoder reports that the block is closed, a caller that stops there
\* has a completion that parses (ToolBlockClosed).
ClosedMayStop ==
    phase = "wait" /\ d.toolBlockClosed /\ d.buf = <<>> /\ d.state # "done" => ~Message.malformed

\* A turn that was cut off and repaired holds no call that the whole would not
\* have held (RepairCompletion: "closing it would invent an executable action"),
\* unless what was cut off has the end of the reasoning, the call before it.
RepairInventsNothing ==
    phase = "closed" /\ rest # <<>> =>
        LET whole == ParseCompletion(d.syntax, d.fullText \o rest, d.thinking)
            repaired == ParseCompletion(d.syntax, Repair(d.syntax, d.fullText), d.thinking)
            later == d.thinking
                        /\ LastThinkEnd(d.fullText \o rest, 1, 0) # LastThinkEnd(d.fullText, 1, 0)
        IN  ~whole.malformed /\ At(d.fullText, Eos) = 0 /\ ~later
                => IsPrefix(repaired.calls, whole.calls)

StreamIsFaithful == ParserAgrees /\ ClosedMayStop /\ RepairInventsNothing /\ ContentIsText
=============================================================================
