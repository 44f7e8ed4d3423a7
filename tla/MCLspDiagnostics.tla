-------------------------- MODULE MCLspDiagnostics --------------------------
(* Model-checking instance of LspDiagnostics. *)
EXTENDS LspDiagnostics, TLC

\* Callers that may do the same are interchangeable.
Symmetry == Permutations(Editors) \cup Permutations(Callers \ Editors)
=============================================================================
