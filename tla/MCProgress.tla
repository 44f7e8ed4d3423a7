----------------------------- MODULE MCProgress -----------------------------
(* One instance for the long-running work of a process: a model that comes   *)
(* in pieces (SplitDownload), a tool turn (ToolTurn), and the decoding of    *)
(* its completion (StreamDecoder).  Each behaviour is one of them; the       *)
(* variables of the others stay as they begin.                               *)
EXTENDS SplitDownload, ToolTurn

CONSTANTS Margin            \* of StreamDecoder

VARIABLES what,             \* the component that runs: never changes
          d, rest, phase    \* of StreamDecoder

X == INSTANCE StreamTexts
S == INSTANCE StreamParity WITH Inputs <- X!Completions

streamVars == <<d, rest, phase>>
progress == <<vars, what, turnVars, streamVars>>

SplitIdle == Init /\ foreign /\ kind = "join" /\ asm = NoFile
                  /\ \A k \in Parts : part[k] = "none"
TurnIdle == TurnInit /\ setup = [thinking |-> FALSE, spec |-> FALSE, exact |-> FALSE,
                              eos |-> FALSE, room |-> CHOOSE r \in Rooms : TRUE]
StreamIdle == d = <<>> /\ rest = <<>> /\ phase = "none"

ProgressInit ==
    \/ what = "split" /\ Init /\ TurnIdle /\ StreamIdle
    \/ what = "turn" /\ SplitIdle /\ TurnInit /\ StreamIdle
    \/ what = "stream" /\ SplitIdle /\ TurnIdle /\ S!StreamInit

Split(A) == what = "split" /\ A /\ UNCHANGED <<what, turnVars, streamVars>>
Turn(A) == what = "turn" /\ A /\ UNCHANGED <<what, vars, streamVars>>
Stream(A) == what = "stream" /\ A /\ UNCHANGED <<what, vars, turnVars>>

ProgressNext == Split(Next) \/ Turn(TurnNext) \/ Stream(S!StreamNext)

ProgressSpec ==
    /\ ProgressInit /\ [][ProgressNext]_progress
    /\ \A p \in Procs : WF_progress(Split(Step(p))) /\ WF_progress(Split(Start(p)))
    /\ WF_progress(Turn(TurnStep))

\* The properties of the components, where they run.
RunReturns == what = "turn" => RunEnds
StreamIsFaithful == S!StreamIsFaithful
=============================================================================
