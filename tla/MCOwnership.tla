---------------------------- MODULE MCOwnership ----------------------------
(* One instance for what a process owns while it works: a lock file          *)
(* (FileLock), engines and sessions (EngineLifecycle), a partial download    *)
(* (PartDownload).  Each behaviour is one of them; the variables of the      *)
(* others stay as they begin.                                                *)
EXTENDS FileLock, EngineLifecycle, PartDownload, TLC

CONSTANT Owned              \* the components to look at

VARIABLE what               \* the component that runs: never changes

ownership == <<what, lockVars, vars, partVars>>

LockIdle == LockInit /\ kind = CHOOSE k \in Kinds : TRUE
EngineIdle == Init /\ disciplined = CHOOSE b \in Disciplines : TRUE
PartIdle == PartInit /\ world = [pinned |-> FALSE, ranges |-> FALSE, honest |-> FALSE]

OwnershipInit ==
    /\ what \in Owned
    /\ \/ what = "lock" /\ LockInit /\ EngineIdle /\ PartIdle
       \/ what = "engine" /\ LockIdle /\ Init /\ PartIdle
       \/ what = "part" /\ LockIdle /\ EngineIdle /\ PartInit

Lock(A) == what = "lock" /\ A /\ UNCHANGED <<what, vars, partVars>>
Engine(A) == what = "engine" /\ A /\ UNCHANGED <<what, lockVars, partVars>>
Part(A) == what = "part" /\ A /\ UNCHANGED <<what, lockVars, vars>>

OwnershipNext == Lock(LockNext) \/ Engine(Next) \/ Part(PartNext)

OwnershipSafe == OwnershipInit /\ [][OwnershipNext]_ownership

\* The fairness of LockFairSpec, FairSpec and RepeatSpec.  A behaviour is of one
\* component, so a strong fairness condition may stand for one of each.
OwnershipSpec ==
    /\ OwnershipSafe
    /\ \A p \in Procs : WF_ownership(Lock(LockProgress(p)))
    /\ \A a \in Actors : WF_ownership(Engine(Steady(Progress(a))))
    /\ WF_ownership(Engine(Steady(\E o \in Objects : Collect(o))))
    /\ WF_ownership(Part(PartProgress)) /\ WF_ownership(Part(BeginPart))
    /\ \A a \in Procs \cup Threads : SF_ownership(
          \/ a \in Procs /\ Lock(Flock(a))
          \/ a \in Threads /\ Engine(Steady(\E o \in Objects : CloseEnters(a, o))))
    /\ SF_ownership(
          \/ Engine(Steady(\E o \in Objects : CleanupRuns(o)))
          \/ Part(\E hash \in BOOLEAN : Attempt(TRUE, hash)))
    /\ SF_ownership(Part(Delivered)) /\ SF_ownership(Part(Finish /\ run.known))

\* Processes run the same code and the kernel picks any unused inode.
Symmetry == Permutations(Procs) \cup Permutations(Inodes)
=============================================================================
