---------------------------- MODULE MCPromptOrder ----------------------------
(* The prompts of short histories, one per state. *)
EXTENDS PromptOrder

VARIABLE q    \* syntax, options and history of the prompt

Spec == q \in Histories(1) /\ [][UNCHANGED q]_q

\* Calls of the history are written in the dialect of the model: see InDialect.
CallsInDialect == InDialect(q, PromptText(q))
=============================================================================
