------------------------------ MODULE FileLock ------------------------------
(***************************************************************************)
(* The advisory lock files of internal/models (lock.go, lock_unix.go) and  *)
(* the three kinds of them the program uses:                               *)
(*                                                                         *)
(*   "state"     .ds4go.state.lock: LockExclusive, and nobody unlinks it   *)
(*   "run"       the engine run lock: TryLock, and runlock.go closes it    *)
(*               and then removes the file                                 *)
(*   "download"  TryLock, and RemoveLeftovers removes the file while it    *)
(*               holds the lock                                            *)
(*                                                                         *)
(* A flock belongs to an open file description and so to an inode, while   *)
(* the code names the lock by its path; the module keeps the two apart.    *)
(* Every system call between which another process can run is a step.      *)
(***************************************************************************)
CONSTANTS Procs,      \* processes; each has at most one descriptor open
          Inodes,     \* inodes of the directory the lock path is in
          NoInode,    \* no inode: the path is missing, the descriptor closed
          Nobody,     \* no process: the lock is free, the file is empty
          Kinds       \* the kinds of lock to look at

ASSUME FileLockAssumption ==
    /\ NoInode \notin Inodes
    /\ Nobody \notin Procs
    /\ Kinds \subseteq {"state", "run", "download"}

VARIABLES kind,    \* the kind of this lock: it never changes
          dir,     \* the inode the lock path names
          owner,   \* the process whose descriptor holds the flock of an inode
          text,    \* the PID written in an inode
          fd,      \* the inode a process has open
          pc       \* what a process is doing

lockVars == <<kind, dir, owner, text, fd, pc>>

\* The steps at which the process has the flock of its inode: the rest of
\* lockFile, the critical section ("held"), a removal under the lock, and the
\* instant in checkLock between a successful probe and its unlock.
Holding == {"flocked", "truncated", "written", "held", "removed", "probed"}
\* The steps at which the process has the lock file open.
Opened == Holding \cup {"opened", "probing", "reading"}

PCs == Opened \cup {"idle", "released", "stat"}

LockTypeOK ==
    /\ kind \in Kinds
    /\ dir \in Inodes \cup {NoInode}
    /\ owner \in [Inodes -> Procs \cup {Nobody}]
    /\ text \in [Inodes -> Procs \cup {Nobody}]
    /\ fd \in [Procs -> Inodes \cup {NoInode}]
    /\ pc \in [Procs -> PCs]
    \* every path through the code closes the descriptor it opened
    /\ \A p \in Procs : fd[p] # NoInode <=> pc[p] \in Opened

LockInit ==
    /\ kind \in Kinds
    /\ dir = NoInode
    /\ owner = [i \in Inodes |-> Nobody]
    /\ text = [i \in Inodes |-> Nobody]
    /\ fd = [p \in Procs |-> NoInode]
    /\ pc = [p \in Procs |-> "idle"]

-----------------------------------------------------------------------------
(* lockFile *)

\* The file system reuses an inode that has neither a name nor a descriptor.
Unused(i) == dir # i /\ \A p \in Procs : fd[p] # i

\* Seeded fault: os.Create, which truncates the file before the lock is taken.
OpenTruncates(p) ==
    /\ pc[p] = "idle"
    /\ pc' = [pc EXCEPT ![p] = "opened"]
    /\ \E i \in Inodes :
          /\ dir = i \/ (dir = NoInode /\ Unused(i))
          /\ dir' = i
          /\ fd' = [fd EXCEPT ![p] = i]
          /\ text' = [text EXCEPT ![i] = Nobody]
    /\ UNCHANGED <<kind, owner>>

\* os.OpenFile(path, O_CREATE|O_RDWR): creates an empty file if there is none.
Open(p) ==
    /\ pc[p] = "idle"
    /\ pc' = [pc EXCEPT ![p] = "opened"]
    /\ \/ /\ dir # NoInode
          /\ fd' = [fd EXCEPT ![p] = dir]
          /\ UNCHANGED <<dir, text>>
       \/ /\ dir = NoInode
          /\ \E i \in Inodes :
                /\ Unused(i)
                /\ dir' = i
                /\ fd' = [fd EXCEPT ![p] = i]
                /\ text' = [text EXCEPT ![i] = Nobody]
    /\ UNCHANGED <<kind, owner>>

\* Seeded fault: a shared lock (LOCK_SH) instead of LOCK_EX.
FlockShared(p) ==
    /\ pc[p] = "opened"
    /\ owner' = [owner EXCEPT ![fd[p]] = p]
    /\ pc' = [pc EXCEPT ![p] = "flocked"]
    /\ UNCHANGED <<kind, dir, text, fd>>

\* unix.Flock succeeds.  LOCK_EX waits for this; LOCK_EX|LOCK_NB may instead
\* take FlockBusy.
Flock(p) ==
    /\ pc[p] = "opened"
    /\ owner[fd[p]] = Nobody
    /\ owner' = [owner EXCEPT ![fd[p]] = p]
    /\ pc' = [pc EXCEPT ![p] = "flocked"]
    /\ UNCHANGED <<kind, dir, text, fd>>

\* EWOULDBLOCK: the file is closed and ErrLocked returned.  On ErrLocked,
\* AcquireEngineRunLock goes on to ask who holds the lock; the other callers
\* report the error and are done.
FlockBusy(p) ==
    /\ kind # "state"
    /\ pc[p] = "opened"
    /\ owner[fd[p]] # Nobody
    /\ fd' = [fd EXCEPT ![p] = NoInode]
    /\ pc' = [pc EXCEPT ![p] = IF kind = "run" THEN "stat" ELSE "idle"]
    /\ UNCHANGED <<kind, dir, owner, text>>

Truncate(p) ==
    /\ pc[p] = "flocked"
    /\ text' = [text EXCEPT ![fd[p]] = Nobody]
    /\ pc' = [pc EXCEPT ![p] = "truncated"]
    /\ UNCHANGED <<kind, dir, owner, fd>>

WritePid(p) ==
    /\ pc[p] = "truncated"
    /\ text' = [text EXCEPT ![fd[p]] = p]
    /\ pc' = [pc EXCEPT ![p] = "written"]
    /\ UNCHANGED <<kind, dir, owner, fd>>

\* File.Sync succeeds and the caller gets its FileLock.
Sync(p) ==
    /\ pc[p] = "written"
    /\ pc' = [pc EXCEPT ![p] = "held"]
    /\ UNCHANGED <<kind, dir, owner, text, fd>>

\* Closing a descriptor drops the flock it holds.
Unlocked(p) == [i \in Inodes |-> IF owner[i] = p THEN Nobody ELSE owner[i]]

\* A flock, truncate, write or sync that fails with another error: the lock is
\* dropped, the file closed and the error returned.
LockFails(p) ==
    /\ pc[p] \in {"opened", "flocked", "truncated", "written"}
    /\ owner' = Unlocked(p)
    /\ fd' = [fd EXCEPT ![p] = NoInode]
    /\ pc' = [pc EXCEPT ![p] = "idle"]
    /\ UNCHANGED <<kind, dir, text>>

-----------------------------------------------------------------------------
(* Release *)

\* FileLock.Close; the run lock's release function then removes the path.
Close(p) ==
    /\ pc[p] \in {"held", "removed"}
    /\ owner' = Unlocked(p)
    /\ fd' = [fd EXCEPT ![p] = NoInode]
    /\ pc' = [pc EXCEPT ![p] = IF kind = "run" THEN "released" ELSE "idle"]
    /\ UNCHANGED <<kind, dir, text>>

\* os.Remove(lock.Path()) after Close: whatever the path names by now.
RemoveReleased(p) ==
    /\ pc[p] = "released"
    /\ dir' = NoInode
    /\ pc' = [pc EXCEPT ![p] = "idle"]
    /\ UNCHANGED <<kind, owner, text, fd>>

\* RemoveLeftovers removes the path before it closes the lock.
RemoveHeld(p) ==
    /\ kind = "download"
    /\ pc[p] = "held"
    /\ dir' = NoInode
    /\ pc' = [pc EXCEPT ![p] = "removed"]
    /\ UNCHANGED <<kind, owner, text, fd>>

\* Seeded fault: a lock that outlives its process, as a PID file would.
ExitKeepsLock(p) ==
    /\ pc[p] # "idle"
    /\ fd' = [fd EXCEPT ![p] = NoInode]
    /\ pc' = [pc EXCEPT ![p] = "idle"]
    /\ UNCHANGED <<kind, dir, owner, text>>

\* The process dies anywhere; the kernel closes its descriptor.  A process of
\* the same name may start again.
Exit(p) ==
    /\ pc[p] # "idle"
    /\ owner' = Unlocked(p)
    /\ fd' = [fd EXCEPT ![p] = NoInode]
    /\ pc' = [pc EXCEPT ![p] = "idle"]
    /\ UNCHANGED <<kind, dir, text>>

-----------------------------------------------------------------------------
(* GetLockHolder *)

\* Called on its own by Leftovers, DownloadStatus and the uninstaller, about
\* download and run locks.
Ask(p) ==
    /\ kind # "state"
    /\ pc[p] = "idle"
    /\ pc' = [pc EXCEPT ![p] = "stat"]
    /\ UNCHANGED <<kind, dir, owner, text, fd>>

\* os.Stat and os.OpenFile without O_CREATE: a missing file answers 0 in both.
ProbeOpen(p) ==
    /\ pc[p] = "stat"
    /\ fd' = [fd EXCEPT ![p] = dir]
    /\ pc' = [pc EXCEPT ![p] = IF dir = NoInode THEN "idle" ELSE "probing"]
    /\ UNCHANGED <<kind, dir, owner, text>>

\* checkLock: a probe that gets the lock holds it until it unlocks.
ProbeFlock(p) ==
    /\ pc[p] = "probing"
    /\ \/ /\ owner[fd[p]] = Nobody
          /\ owner' = [owner EXCEPT ![fd[p]] = p]
          /\ pc' = [pc EXCEPT ![p] = "probed"]
       \/ /\ owner[fd[p]] # Nobody
          /\ pc' = [pc EXCEPT ![p] = "reading"]
          /\ UNCHANGED owner
    /\ UNCHANGED <<kind, dir, text, fd>>

\* The lock was free: unlock, close, answer 0.
ProbeUnlock(p) ==
    /\ pc[p] = "probed"
    /\ owner' = Unlocked(p)
    /\ fd' = [fd EXCEPT ![p] = NoInode]
    /\ pc' = [pc EXCEPT ![p] = "idle"]
    /\ UNCHANGED <<kind, dir, text>>

\* The lock was taken: read the PID, close, answer it.
ProbeRead(p) ==
    /\ pc[p] = "reading"
    /\ fd' = [fd EXCEPT ![p] = NoInode]
    /\ pc' = [pc EXCEPT ![p] = "idle"]
    /\ UNCHANGED <<kind, dir, owner, text>>

-----------------------------------------------------------------------------
\* The steps a process takes by itself once it has started something.
LockProgress(p) ==
    \/ Flock(p) \/ FlockBusy(p) \/ Truncate(p) \/ WritePid(p) \/ Sync(p)
    \/ Close(p) \/ RemoveReleased(p)
    \/ ProbeOpen(p) \/ ProbeFlock(p) \/ ProbeUnlock(p) \/ ProbeRead(p)

LockNext == \E p \in Procs :
    \/ Open(p) \/ Ask(p) \/ LockProgress(p)
    \/ LockFails(p) \/ RemoveHeld(p) \/ Exit(p)

LockSpec == LockInit /\ [][LockNext]_lockVars

\* A started call runs on and a holder releases; flock wakes its waiters in
\* turn, so one that finds the lock free again and again gets it.
LockFairSpec ==
    /\ LockSpec
    /\ \A p \in Procs : WF_lockVars(LockProgress(p)) /\ SF_lockVars(Flock(p))

-----------------------------------------------------------------------------
(* Properties *)

\* The flock of an inode is held by the one process that took it and has it
\* open, and nobody else is inside lockFile's critical steps on that inode.
\* In particular no lock outlives its process ("an interrupted process never
\* leaves a stale lock behind", lock.go).
OwnersHold ==
    /\ \A p \in Procs : pc[p] \in Holding => owner[fd[p]] = p
    /\ \A i \in Inodes : owner[i] # Nobody =>
          fd[owner[i]] = i /\ pc[owner[i]] \in Holding

\* From the write of its PID to its release a holder's lock file names it:
\* neither a waiter's truncation nor a prober overwrites it.
PidNamesHolder ==
    \A p \in Procs : pc[p] \in {"written", "held", "removed"} => text[fd[p]] = p

\* Two processes inside the section lockFile guards (lock_unix.go).  True of
\* the state lock only, for which ImplementsMutex says it.
AtMostOneHolder ==
    \A p, q \in Procs : pc[p] = "held" /\ pc[q] = "held" => p = q

\* The abstract lock: the owner of the inode the path names.  Only of the state
\* lock is it one; for the others the mapping is constant and says nothing.
Holder == IF kind # "state" \/ dir = NoInode THEN Nobody ELSE owner[dir]

AbstractLock == INSTANCE Mutex WITH holder <- Holder

\* A lock file nobody unlinks is a mutual-exclusion lock (lock.go: "an
\* advisory, OS-level exclusive lock").
ImplementsMutex == AbstractLock!Spec

\* LockExclusive waits for the holder and then gets the lock (or its process
\* dies, or a system call fails), even when holders crash inside it.
WaiterServed ==
    \A p \in Procs : pc[p] = "opened" ~> pc[p] \in {"flocked", "idle"}
=============================================================================
