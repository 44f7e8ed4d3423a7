------------------------------- MODULE Mutex -------------------------------
(***************************************************************************)
(* What internal/models/lock.go promises of a lock path: an exclusive lock *)
(* that at most one process holds, that is handed over only through a      *)
(* release, and that the death of its holder releases.  FileLock refines   *)
(* it when nobody unlinks the lock file.                                   *)
(***************************************************************************)
CONSTANTS Procs,     \* the processes (open file descriptions) that compete
          Nobody     \* the value of holder when the lock is free

VARIABLE holder

Init == holder = Nobody

\* LockExclusive or TryLock returns a FileLock.
Acquire(p) ==
    /\ holder = Nobody
    /\ holder' = p

\* FileLock.Close, or the exit of the process that holds the lock.
Release(p) ==
    /\ holder = p
    /\ holder' = Nobody

Next == \E p \in Procs : Acquire(p) \/ Release(p)

Spec == Init /\ [][Next]_holder
=============================================================================
