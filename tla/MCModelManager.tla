--------------------------- MODULE MCModelManager ---------------------------
(* Model-checking instance of ModelManager. *)
EXTENDS ModelManager, TLC

CONSTANTS p1, p2

AnyOperation == [p \in Procs |-> Ops]

\* Two processes run the same code, so that one of them is enough for what is
\* all done under the state lock.
Divided == p1 :> {"set", "download", "delete", "deletePartial"} @@
           p2 :> {"download", "delete", "leftovers"}
=============================================================================
