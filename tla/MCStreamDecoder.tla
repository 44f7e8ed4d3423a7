--------------------------- MODULE MCStreamDecoder ---------------------------
(* Model-checking instance of StreamDecoder alone, of completions without     *)
(* reasoning.                                                                *)
EXTENDS StreamParity, StreamTexts

MCInputs == {c \in Completions : ~c.thinking}
=============================================================================
