-------------------------- MODULE OwnershipProofs --------------------------
(***************************************************************************)
(* Who owns what the program may have only once.  Proofs about FileLock,   *)
(* for any set of processes and of inodes, and about EngineLifecycle, for  *)
(* any goroutines, engines and sessions, whether or not the program closes *)
(* its engines in a disciplined order.                                     *)
(***************************************************************************)
EXTENDS FileLock, EngineLifecycle, TLAPS

-----------------------------------------------------------------------------
(* FileLock *)

\* A path that nobody unlinks names one inode for ever, and every descriptor
\* is open on it.  With a removal this is what fails.
OnePath ==
    kind = "state" => \A p \in Procs :
        /\ pc[p] # "released"
        /\ pc[p] \in Opened => fd[p] = dir

\* The inductive invariant.
LockIInv == LockTypeOK /\ OwnersHold /\ PidNamesHolder /\ OnePath

USE FileLockAssumption

\* The initial state satisfies the inductive invariant.
LEMMA LockInitIInv == LockInit => LockIInv
BY DEF LockInit, LockIInv, LockTypeOK, OwnersHold, PidNamesHolder, OnePath, PCs, Opened, Holding

\* Every action preserves the inductive invariant: a step changes the owner
\* or the text of an inode only for the process that has its lock, or for an
\* inode nobody has open.
LEMMA LockNextIInv == LockIInv /\ [LockNext]_lockVars => LockIInv'
<1> SUFFICES ASSUME LockIInv, [LockNext]_lockVars PROVE LockIInv'
    OBVIOUS
<1> USE DEF LockIInv, LockTypeOK, OwnersHold, PidNamesHolder, OnePath, PCs, Opened, Holding
<1>1. CASE UNCHANGED lockVars
    BY <1>1 DEF lockVars
<1>2. ASSUME NEW p \in Procs, Open(p) PROVE LockIInv'
    BY <1>2 DEF Open, Unused
<1>3. ASSUME NEW p \in Procs, Ask(p) PROVE LockIInv'
    BY <1>3 DEF Ask
<1>4. ASSUME NEW p \in Procs, Flock(p) PROVE LockIInv'
    BY <1>4 DEF Flock
<1>5. ASSUME NEW p \in Procs, FlockBusy(p) PROVE LockIInv'
    BY <1>5 DEF FlockBusy
<1>6. ASSUME NEW p \in Procs, Truncate(p) PROVE LockIInv'
    BY <1>6 DEF Truncate
<1>7. ASSUME NEW p \in Procs, WritePid(p) PROVE LockIInv'
    BY <1>7 DEF WritePid
<1>8. ASSUME NEW p \in Procs, Sync(p) PROVE LockIInv'
    BY <1>8 DEF Sync
<1>9. ASSUME NEW p \in Procs, LockFails(p) PROVE LockIInv'
    BY <1>9 DEF LockFails, Unlocked
<1>10. ASSUME NEW p \in Procs, Close(p) PROVE LockIInv'
    BY <1>10 DEF Close, Unlocked
<1>11. ASSUME NEW p \in Procs, RemoveReleased(p) PROVE LockIInv'
    BY <1>11 DEF RemoveReleased
<1>12. ASSUME NEW p \in Procs, RemoveHeld(p) PROVE LockIInv'
    BY <1>12 DEF RemoveHeld
<1>13. ASSUME NEW p \in Procs, Exit(p) PROVE LockIInv'
    BY <1>13 DEF Exit, Unlocked
<1>14. ASSUME NEW p \in Procs, ProbeOpen(p) PROVE LockIInv'
    BY <1>14 DEF ProbeOpen
<1>15. ASSUME NEW p \in Procs, ProbeFlock(p) PROVE LockIInv'
    BY <1>15 DEF ProbeFlock
<1>16. ASSUME NEW p \in Procs, ProbeUnlock(p) PROVE LockIInv'
    BY <1>16 DEF ProbeUnlock, Unlocked
<1>17. ASSUME NEW p \in Procs, ProbeRead(p) PROVE LockIInv'
    BY <1>17 DEF ProbeRead
<1> QED
    BY <1>1, <1>2, <1>3, <1>4, <1>5, <1>6, <1>7, <1>8, <1>9, <1>10, <1>11,
       <1>12, <1>13, <1>14, <1>15, <1>16, <1>17 DEF LockNext, LockProgress

LEMMA LockSpecIInv == LockSpec => []LockIInv
BY LockInitIInv, LockNextIInv, PTL DEF LockSpec

\* Type correctness: in particular no path through lockFile or GetLockHolder
\* leaks its descriptor.
THEOREM LockTypeCorrect == LockSpec => []LockTypeOK
<1>1. LockIInv => LockTypeOK
    BY DEF LockIInv
<1> QED
    BY <1>1, LockSpecIInv, PTL

\* Whatever is unlinked, the flock of an inode belongs to the live process
\* that took it.
THEOREM OwnersHoldTheorem == LockSpec => []OwnersHold
<1>1. LockIInv => OwnersHold
    BY DEF LockIInv
<1> QED
    BY <1>1, LockSpecIInv, PTL

\* Whatever is unlinked, a holder's lock file names the holder.
THEOREM PidNamesHolderTheorem == LockSpec => []PidNamesHolder
<1>1. LockIInv => PidNamesHolder
    BY DEF LockIInv
<1> QED
    BY <1>1, LockSpecIInv, PTL

\* Without an unlink at most one process is inside the lock: this is the state
\* lock, and what the run lock and the download lock lose.
THEOREM StateLockExclusive == Kinds = {"state"} => (LockSpec => []AtMostOneHolder)
<1> SUFFICES ASSUME Kinds = {"state"} PROVE LockSpec => []AtMostOneHolder
    OBVIOUS
<1>1. LockIInv => AtMostOneHolder
    BY DEF LockIInv, LockTypeOK, OwnersHold, OnePath, AtMostOneHolder, Opened, Holding
<1> QED
    BY <1>1, LockSpecIInv, PTL

\* Every step of a lock that is never unlinked is a step of the abstract
\* mutex or leaves it unchanged.
LEMMA NextMutex ==
    ASSUME LockIInv, [LockNext]_lockVars
    PROVE  [AbstractLock!Next]_Holder
<1> SUFFICES ASSUME kind = "state" PROVE [AbstractLock!Next]_Holder
  <2>1. kind' = kind
    BY DEF lockVars, LockNext, LockProgress, Open, Ask, Flock, FlockBusy, Truncate, WritePid, Sync,
           Close, RemoveReleased, ProbeOpen, ProbeFlock, ProbeUnlock, ProbeRead,
           LockFails, RemoveHeld, Exit
  <2> QED BY <2>1 DEF Holder
<1> USE DEF LockIInv, LockTypeOK, OwnersHold, OnePath, PCs, Opened, Holding, Holder
<1> DEFINE Stutters == Holder' = Holder
           Acquires(p) == AbstractLock!Acquire(p)
           Releases(p) == AbstractLock!Release(p)
<1> USE DEF AbstractLock!Acquire, AbstractLock!Release
<1>1. CASE UNCHANGED lockVars
  <2>1. Stutters
    BY <1>1 DEF lockVars
  <2> QED BY <2>1
<1>2. ASSUME NEW p \in Procs, Open(p) PROVE Stutters
    BY <1>2 DEF Open, Unused
<1>3. ASSUME NEW p \in Procs,
             Ask(p) \/ FlockBusy(p) \/ Truncate(p) \/ WritePid(p) \/ Sync(p)
                 \/ ProbeOpen(p) \/ ProbeRead(p)
      PROVE  Stutters
    BY <1>3 DEF Ask, FlockBusy, Truncate, WritePid, Sync, ProbeOpen, ProbeRead
<1>4. ASSUME NEW p \in Procs, Flock(p) PROVE Acquires(p)
    BY <1>4 DEF Flock
<1>5. ASSUME NEW p \in Procs, ProbeFlock(p) PROVE Acquires(p) \/ Stutters
    BY <1>5 DEF ProbeFlock
<1>6. ASSUME NEW p \in Procs, LockFails(p) \/ Exit(p)
      PROVE  Releases(p) \/ Stutters
    BY <1>6 DEF LockFails, Exit, Unlocked
<1>7. ASSUME NEW p \in Procs, Close(p) \/ ProbeUnlock(p) PROVE Releases(p)
    BY <1>7 DEF Close, ProbeUnlock, Unlocked
<1>8. ASSUME NEW p \in Procs PROVE ~RemoveReleased(p) /\ ~RemoveHeld(p)
    BY DEF RemoveReleased, RemoveHeld
<1>9. ASSUME LockNext PROVE Stutters \/ \E p \in Procs : Acquires(p) \/ Releases(p)
    BY <1>9, <1>2, <1>3, <1>4, <1>5, <1>6, <1>7, <1>8 DEF LockNext, LockProgress
<1> QED
    BY <1>1, <1>9 DEF AbstractLock!Next

\* The state lock implements the mutex that lock.go promises.
THEOREM StateLockImplementsMutex == LockSpec => ImplementsMutex
<1>1. LockInit => AbstractLock!Init
    BY DEF LockInit, AbstractLock!Init, Holder
<1>2. LockIInv /\ [LockNext]_lockVars => [AbstractLock!Next]_Holder
    BY NextMutex
<1> QED
    BY <1>1, <1>2, LockSpecIInv, PTL DEF LockSpec, ImplementsMutex, AbstractLock!Spec
HIDE FileLockAssumption

-----------------------------------------------------------------------------
(* EngineLifecycle *)

\* How far the Go object is, given the native one.
PhaseInv ==
    \A o \in Objects :
        /\ native[o] \in {"none", "opening", "failed"} =>
              cleanup[o] = "none" /\ o \notin ptr /\ o \notin held /\ once[o] = "fresh"
        /\ native[o] = "live" =>
              cleanup[o] \in {"armed", "stopped", "queued", "running"} /\ o \in ptr
        /\ native[o] = "freed" =>
              cleanup[o] \in {"stopped", "running", "done"}
                /\ (cleanup[o] = "stopped" => o \notin ptr)
        /\ cleanup[o] = "stopped" <=> once[o] # "fresh"

\* What a goroutine's job says of its object.
JobInv ==
    \A a \in Actors :
        LET o == job[a].obj IN
        /\ job[a].op = "idle" <=> o = NoObject
        /\ job[a].op = "opening" => o \in Engines /\ native[o] = "opening"
        /\ job[a].op = "creating" => o \in Sessions /\ native[o] = "opening"
        /\ job[a].op = "engineCall" => o \in Engines
        /\ job[a].op \in {"sessionCall", "logitsCall"} =>
              o \in Sessions /\ native[o] = "live"
        /\ job[a].op = "closing" => a # Cleaner /\ once[o] = "running" /\ native[o] = "live"
        /\ job[a].op = "freeing" => native[o] = "live"
        /\ job[a].op = "releasing" => o \in Engines /\ native[o] = "freed"
        /\ job[a].op \in {"freeing", "releasing"} =>
              IF a = Cleaner THEN cleanup[o] = "running" ELSE once[o] = "running"
        /\ a = Cleaner => job[a].op \in {"idle", "freeing", "releasing"}

\* Only one goroutine opens an object, and only one closes it.
OneJob ==
    \A a, b \in Actors : job[a].obj = job[b].obj =>
        \/ a = b
        \/ /\ job[a].op \in {"engineCall", "sessionCall", "logitsCall", "idle"}
        \/ /\ job[b].op \in {"engineCall", "sessionCall", "logitsCall", "idle"}

\* An engine has a session's field, and a collected object stays unreachable.
ReachInv ==
    /\ \A s \in Sessions : native[s] = "none" <=> of[s] = NoObject
    /\ \A o \in Objects : cleanup[o] \in {"queued", "running", "done"} => ~Reachable(o)

\* The lease follows the native engine.
LeaseInv ==
    \A e \in Engines :
        /\ native[e] = "none" => lease[e] = "none"
        /\ native[e] \in {"opening", "live"} => lease[e] \in {"held", "exempt"}
        /\ native[e] = "failed" => lease[e] \in {"none", "exempt", "released"}
        /\ native[e] = "freed" =>
              \/ lease[e] \in {"released", "exempt"}
              \/ lease[e] = "held" /\ \E a \in Actors : job[a] = Job("releasing", e)
        /\ \A a \in Actors : job[a] = Job("releasing", e) => lease[e] \in {"held", "exempt"}

\* A native open or a Close in progress is somebody's job, and the Close keeps
\* its object reachable.
BusyInv ==
    \A o \in Objects :
        /\ once[o] = "running" => o \in held /\ \E t \in Threads :
              job[t] \in {Job("closing", o), Job("freeing", o), Job("releasing", o)}
        /\ once[o] = "done" => native[o] = "freed"
        /\ o \in Sessions /\ native[o] = "opening" =>
              \E t \in Threads : job[t] = Job("creating", o)

\* A disciplined program closes no engine under a session.
DisciplineInv ==
    disciplined => \A s \in Sessions : native[s] \in {"opening", "live"} =>
        native[of[s]] = "live" /\ once[of[s]] = "fresh"

IInv == TypeOK /\ PhaseInv /\ JobInv /\ OneJob /\ ReachInv /\ LeaseInv
            /\ BusyInv /\ DisciplineInv /\ EngineCallsLive

USE LifecycleAssumption

\* The initial state satisfies the inductive invariant.
LEMMA InitIInv == Init => IInv
<1> SUFFICES ASSUME Init PROVE IInv
    OBVIOUS
<1> USE DEF Init, Objects, Actors, Idle
<1>1. TypeOK
    BY DEF TypeOK, Ops, InNative, Locked
<1>2. PhaseInv /\ JobInv /\ OneJob /\ LeaseInv
    BY DEF PhaseInv, JobInv, OneJob, LeaseInv, Job
<1>3. ReachInv /\ BusyInv /\ DisciplineInv /\ EngineCallsLive
    BY DEF ReachInv, BusyInv, DisciplineInv, EngineCallsLive
<1> QED
    BY <1>1, <1>2, <1>3 DEF IInv

\* Every action preserves the inductive invariant.
LEMMA NextIInv == IInv /\ [Next]_vars => IInv'
<1> SUFFICES ASSUME IInv, [Next]_vars PROVE IInv'
    OBVIOUS
<1> USE DEF IInv, Objects, Actors, Idle, Job, Ops, InNative, Locked
<1>0. disciplined' = disciplined
    BY DEF Next, Steady, vars
<1> USE <1>0
<1>1. CASE UNCHANGED vars
    BY <1>1 DEF vars, TypeOK, PhaseInv, JobInv, OneJob, ReachInv, LeaseInv, BusyInv,
           DisciplineInv, EngineCallsLive, Reachable
<1>2. ASSUME NEW t \in Threads, NEW e \in Engines, Guard(t, e) PROVE IInv'
  <2>1. TypeOK'
    BY <1>2 DEF Guard, Release, TypeOK
  <2>2. PhaseInv'
    BY <1>2 DEF Guard, Release, TypeOK, PhaseInv, JobInv, OneJob
  <2>3. JobInv'
    BY <1>2 DEF Guard, Release, TypeOK, PhaseInv, JobInv, OneJob
  <2>4. OneJob'
    BY <1>2 DEF Guard, Release, TypeOK, PhaseInv, JobInv, OneJob
  <2>5. ReachInv'
    BY <1>2 DEF Guard, Release, TypeOK, PhaseInv, JobInv, ReachInv, Reachable
  <2>6. LeaseInv'
    BY <1>2 DEF Guard, Release, TypeOK, PhaseInv, JobInv, OneJob, LeaseInv
  <2>7. EngineCallsLive'
    <3>1. \A x \in Objects : native[x] = "live" => native'[x] = "live"
        BY <1>2 DEF Guard, TypeOK
    <3>2. \A x \in Actors : job'[x].op \in {"engineCall", "logitsCall"} => job'[x] = job[x]
        BY <1>2 DEF Guard, TypeOK
    <3>3. \A x \in Sessions : native[x] # "none" => of[x] \in Engines /\ of'[x] = of[x]
        BY <1>2 DEF Guard, TypeOK, ReachInv
    <3> QED
        BY <3>1, <3>2, <3>3 DEF EngineCallsLive, JobInv
  <2>8. BusyInv'
    BY <1>2 DEF Guard, Release, TypeOK, PhaseInv, JobInv, OneJob, ReachInv, Reachable, BusyInv
  <2>9. DisciplineInv'
    BY <1>2 DEF Guard, Release, TypeOK, PhaseInv, JobInv, OneJob, ReachInv, Reachable, BusyInv, DisciplineInv, SessionsOf
  <2> QED BY <2>1, <2>2, <2>3, <2>4, <2>5, <2>6, <2>7, <2>8, <2>9
<1>3. ASSUME NEW t \in Actors, NEW e \in Engines, OpenReturns(t, e) PROVE IInv'
  <2>1. TypeOK'
    BY <1>3 DEF OpenReturns, Wrap, Release, TypeOK
  <2>2. PhaseInv'
    BY <1>3 DEF OpenReturns, Wrap, Release, TypeOK, PhaseInv, JobInv, OneJob
  <2>3. JobInv'
    BY <1>3 DEF OpenReturns, Wrap, Release, TypeOK, PhaseInv, JobInv, OneJob
  <2>4. OneJob'
    BY <1>3 DEF OpenReturns, Wrap, Release, TypeOK, PhaseInv, JobInv, OneJob
  <2>5. ReachInv'
    BY <1>3 DEF OpenReturns, Wrap, Release, TypeOK, PhaseInv, JobInv, ReachInv, Reachable
  <2>6. LeaseInv'
    BY <1>3 DEF OpenReturns, Wrap, Release, TypeOK, PhaseInv, JobInv, OneJob, LeaseInv
  <2>7. EngineCallsLive'
    <3>1. \A x \in Objects : native[x] = "live" => native'[x] = "live"
        BY <1>3 DEF OpenReturns, Wrap, TypeOK, JobInv
    <3>2. \A x \in Actors : job'[x].op \in {"engineCall", "logitsCall"} => job'[x] = job[x]
        BY <1>3 DEF OpenReturns, Wrap, TypeOK
    <3>3. \A x \in Sessions : native[x] # "none" => of[x] \in Engines /\ of'[x] = of[x]
        BY <1>3 DEF OpenReturns, Wrap, TypeOK, ReachInv
    <3> QED
        BY <3>1, <3>2, <3>3 DEF EngineCallsLive, JobInv
  <2>8. BusyInv'
    BY <1>3 DEF OpenReturns, Wrap, Release, TypeOK, PhaseInv, JobInv, OneJob, ReachInv, Reachable, BusyInv
  <2>9. DisciplineInv'
    BY <1>3 DEF OpenReturns, Wrap, Release, TypeOK, PhaseInv, JobInv, OneJob, ReachInv, Reachable, BusyInv, DisciplineInv, SessionsOf
  <2> QED BY <2>1, <2>2, <2>3, <2>4, <2>5, <2>6, <2>7, <2>8, <2>9
<1>4. ASSUME NEW t \in Threads, NEW e \in Engines, NEW s \in Sessions, NewSession(t, e, s) PROVE IInv'
  <2>1. TypeOK'
    BY <1>4 DEF NewSession, Enter, TypeOK
  <2>2. PhaseInv'
    BY <1>4 DEF NewSession, Enter, TypeOK, PhaseInv, JobInv, OneJob
  <2>3. JobInv'
    BY <1>4 DEF NewSession, Enter, TypeOK, PhaseInv, JobInv, OneJob
  <2>4. OneJob'
    BY <1>4 DEF NewSession, Enter, TypeOK, PhaseInv, JobInv, OneJob
  <2>5. ReachInv'
    BY <1>4 DEF NewSession, Enter, TypeOK, PhaseInv, JobInv, ReachInv, Reachable
  <2>6. LeaseInv'
    BY <1>4 DEF NewSession, Enter, TypeOK, PhaseInv, JobInv, OneJob, LeaseInv
  <2>7. EngineCallsLive'
    BY <1>4 DEF NewSession, Enter, TypeOK, PhaseInv, JobInv, ReachInv, Reachable, EngineCallsLive
  <2>8. BusyInv'
    BY <1>4 DEF NewSession, Enter, TypeOK, PhaseInv, JobInv, OneJob, ReachInv, Reachable, BusyInv
  <2>9. DisciplineInv'
    BY <1>4 DEF NewSession, Enter, TypeOK, PhaseInv, JobInv, OneJob, ReachInv, Reachable, BusyInv, DisciplineInv, SessionsOf
  <2> QED BY <2>1, <2>2, <2>3, <2>4, <2>5, <2>6, <2>7, <2>8, <2>9
<1>5. ASSUME NEW t \in Actors, NEW s \in Sessions, CreateReturns(t, s) PROVE IInv'
  <2>1. TypeOK'
    BY <1>5 DEF CreateReturns, Wrap, Leave, TypeOK
  <2>2. PhaseInv'
    BY <1>5 DEF CreateReturns, Wrap, Leave, TypeOK, PhaseInv, JobInv, OneJob
  <2>3. JobInv'
    BY <1>5 DEF CreateReturns, Wrap, Leave, TypeOK, PhaseInv, JobInv, OneJob
  <2>4. OneJob'
    BY <1>5 DEF CreateReturns, Wrap, Leave, TypeOK, PhaseInv, JobInv, OneJob
  <2>5. ReachInv'
    BY <1>5 DEF CreateReturns, Wrap, Leave, TypeOK, PhaseInv, JobInv, ReachInv, Reachable
  <2>6. LeaseInv'
    BY <1>5 DEF CreateReturns, Wrap, Leave, TypeOK, PhaseInv, JobInv, OneJob, LeaseInv
  <2>7. EngineCallsLive'
    BY <1>5 DEF CreateReturns, Wrap, Leave, TypeOK, PhaseInv, JobInv, ReachInv, Reachable, EngineCallsLive
  <2>8. BusyInv'
    BY <1>5 DEF CreateReturns, Wrap, Leave, TypeOK, PhaseInv, JobInv, OneJob, ReachInv, Reachable, BusyInv
  <2>9. DisciplineInv'
    BY <1>5 DEF CreateReturns, Wrap, Leave, TypeOK, PhaseInv, JobInv, OneJob, ReachInv, Reachable, BusyInv, DisciplineInv, SessionsOf
  <2> QED BY <2>1, <2>2, <2>3, <2>4, <2>5, <2>6, <2>7, <2>8, <2>9
<1>6. ASSUME NEW t \in Threads, NEW e \in Engines, EngineCall(t, e) PROVE IInv'
  <2>1. TypeOK'
    BY <1>6 DEF EngineCall, Enter, TypeOK
  <2>2. PhaseInv'
    BY <1>6 DEF EngineCall, Enter, TypeOK, PhaseInv, JobInv, OneJob
  <2>3. JobInv'
    BY <1>6 DEF EngineCall, Enter, TypeOK, PhaseInv, JobInv, OneJob
  <2>4. OneJob'
    BY <1>6 DEF EngineCall, Enter, TypeOK, PhaseInv, JobInv, OneJob
  <2>5. ReachInv'
    BY <1>6 DEF EngineCall, Enter, TypeOK, PhaseInv, JobInv, ReachInv, Reachable
  <2>6. LeaseInv'
    BY <1>6 DEF EngineCall, Enter, TypeOK, PhaseInv, JobInv, OneJob, LeaseInv
  <2>7. EngineCallsLive'
    BY <1>6 DEF EngineCall, Enter, TypeOK, PhaseInv, JobInv, ReachInv, Reachable, EngineCallsLive
  <2>8. BusyInv'
    BY <1>6 DEF EngineCall, Enter, TypeOK, PhaseInv, JobInv, OneJob, ReachInv, Reachable, BusyInv
  <2>9. DisciplineInv'
    BY <1>6 DEF EngineCall, Enter, TypeOK, PhaseInv, JobInv, OneJob, ReachInv, Reachable, BusyInv, DisciplineInv, SessionsOf
  <2> QED BY <2>1, <2>2, <2>3, <2>4, <2>5, <2>6, <2>7, <2>8, <2>9
<1>7. ASSUME NEW t \in Threads, NEW s \in Sessions, SessionCall(t, s) PROVE IInv'
  <2>1. TypeOK'
    BY <1>7 DEF SessionCall, Enter, TypeOK
  <2>2. PhaseInv'
    BY <1>7 DEF SessionCall, Enter, TypeOK, PhaseInv, JobInv, OneJob
  <2>3. JobInv'
    BY <1>7 DEF SessionCall, Enter, TypeOK, PhaseInv, JobInv, OneJob, ReachInv, Reachable
  <2>4. OneJob'
    BY <1>7 DEF SessionCall, Enter, TypeOK, PhaseInv, JobInv, OneJob
  <2>5. ReachInv'
    BY <1>7 DEF SessionCall, Enter, TypeOK, PhaseInv, JobInv, ReachInv, Reachable
  <2>6. LeaseInv'
    BY <1>7 DEF SessionCall, Enter, TypeOK, PhaseInv, JobInv, OneJob, LeaseInv
  <2>7. EngineCallsLive'
    BY <1>7 DEF SessionCall, Enter, TypeOK, PhaseInv, JobInv, ReachInv, Reachable, EngineCallsLive
  <2>8. BusyInv'
    BY <1>7 DEF SessionCall, Enter, TypeOK, PhaseInv, JobInv, OneJob, ReachInv, Reachable, BusyInv
  <2>9. DisciplineInv'
    BY <1>7 DEF SessionCall, Enter, TypeOK, PhaseInv, JobInv, OneJob, ReachInv, Reachable, BusyInv, DisciplineInv, SessionsOf
  <2> QED BY <2>1, <2>2, <2>3, <2>4, <2>5, <2>6, <2>7, <2>8, <2>9
<1>8. ASSUME NEW t \in Threads, NEW s \in Sessions, LogitsCall(t, s) PROVE IInv'
  <2>1. TypeOK'
    BY <1>8 DEF LogitsCall, Enter, TypeOK
  <2>2. PhaseInv'
    BY <1>8 DEF LogitsCall, Enter, TypeOK, PhaseInv, JobInv, OneJob
  <2>3. JobInv'
    BY <1>8 DEF LogitsCall, Enter, TypeOK, PhaseInv, JobInv, OneJob, ReachInv, Reachable
  <2>4. OneJob'
    BY <1>8 DEF LogitsCall, Enter, TypeOK, PhaseInv, JobInv, OneJob
  <2>5. ReachInv'
    BY <1>8 DEF LogitsCall, Enter, TypeOK, PhaseInv, JobInv, ReachInv, Reachable
  <2>6. LeaseInv'
    BY <1>8 DEF LogitsCall, Enter, TypeOK, PhaseInv, JobInv, OneJob, LeaseInv
  <2>7. EngineCallsLive'
    BY <1>8 DEF LogitsCall, Enter, TypeOK, PhaseInv, JobInv, ReachInv, Reachable, EngineCallsLive
  <2>8. BusyInv'
    BY <1>8 DEF LogitsCall, Enter, TypeOK, PhaseInv, JobInv, OneJob, ReachInv, Reachable, BusyInv
  <2>9. DisciplineInv'
    BY <1>8 DEF LogitsCall, Enter, TypeOK, PhaseInv, JobInv, OneJob, ReachInv, Reachable, BusyInv, DisciplineInv, SessionsOf
  <2> QED BY <2>1, <2>2, <2>3, <2>4, <2>5, <2>6, <2>7, <2>8, <2>9
<1>9. ASSUME NEW t \in Actors, CallReturns(t) PROVE IInv'
  <2>1. TypeOK'
    BY <1>9 DEF CallReturns, Leave, TypeOK
  <2>2. PhaseInv'
    BY <1>9 DEF CallReturns, Leave, TypeOK, PhaseInv, JobInv, OneJob
  <2>3. JobInv'
    BY <1>9 DEF CallReturns, Leave, TypeOK, PhaseInv, JobInv, OneJob
  <2>4. OneJob'
    BY <1>9 DEF CallReturns, Leave, TypeOK, PhaseInv, JobInv, OneJob
  <2>5. ReachInv'
    BY <1>9 DEF CallReturns, Leave, TypeOK, PhaseInv, JobInv, ReachInv, Reachable
  <2>6. LeaseInv'
    BY <1>9 DEF CallReturns, Leave, TypeOK, PhaseInv, JobInv, OneJob, LeaseInv
  <2>7. EngineCallsLive'
    BY <1>9 DEF CallReturns, Leave, TypeOK, PhaseInv, JobInv, ReachInv, Reachable, EngineCallsLive
  <2>8. BusyInv'
    BY <1>9 DEF CallReturns, Leave, TypeOK, PhaseInv, JobInv, OneJob, ReachInv, Reachable, BusyInv
  <2>9. DisciplineInv'
    BY <1>9 DEF CallReturns, Leave, TypeOK, PhaseInv, JobInv, OneJob, ReachInv, Reachable, BusyInv, DisciplineInv, SessionsOf
  <2> QED BY <2>1, <2>2, <2>3, <2>4, <2>5, <2>6, <2>7, <2>8, <2>9
<1>10. ASSUME NEW t \in Threads, NEW o \in Objects, CloseStarts(t, o) PROVE IInv'
  <2>1. TypeOK'
    BY <1>10 DEF CloseStarts, TypeOK
  <2>2. PhaseInv'
    BY <1>10 DEF CloseStarts, TypeOK, PhaseInv, JobInv, OneJob, ReachInv, Reachable
  <2>3. JobInv'
    BY <1>10 DEF CloseStarts, TypeOK, PhaseInv, JobInv, OneJob, ReachInv, Reachable
  <2>4. OneJob'
    BY <1>10 DEF CloseStarts, TypeOK, PhaseInv, JobInv, OneJob, ReachInv, Reachable
  <2>5. ReachInv'
    BY <1>10 DEF CloseStarts, TypeOK, PhaseInv, JobInv, ReachInv, Reachable
  <2>6. LeaseInv'
    BY <1>10 DEF CloseStarts, TypeOK, PhaseInv, JobInv, OneJob, LeaseInv
  <2>7. EngineCallsLive'
    BY <1>10 DEF CloseStarts, TypeOK, PhaseInv, JobInv, ReachInv, Reachable, EngineCallsLive
  <2>8. BusyInv'
    BY <1>10 DEF CloseStarts, TypeOK, PhaseInv, JobInv, OneJob, ReachInv, Reachable, BusyInv
  <2>9. DisciplineInv'
    BY <1>10 DEF CloseStarts, TypeOK, PhaseInv, JobInv, OneJob, ReachInv, Reachable, BusyInv, DisciplineInv, SessionsOf
  <2> QED BY <2>1, <2>2, <2>3, <2>4, <2>5, <2>6, <2>7, <2>8, <2>9
<1>11. ASSUME NEW t \in Threads, NEW o \in Objects, CloseEnters(t, o) PROVE IInv'
  <2>1. TypeOK'
    BY <1>11 DEF CloseEnters, Enter, TypeOK
  <2>2. PhaseInv'
    BY <1>11 DEF CloseEnters, Enter, TypeOK, PhaseInv, JobInv, OneJob
  <2>3. JobInv'
    BY <1>11 DEF CloseEnters, Enter, TypeOK, PhaseInv, JobInv, OneJob
  <2>4. OneJob'
    BY <1>11 DEF CloseEnters, Enter, TypeOK, PhaseInv, JobInv, OneJob
  <2>5. ReachInv'
    BY <1>11 DEF CloseEnters, Enter, TypeOK, PhaseInv, JobInv, ReachInv, Reachable
  <2>6. LeaseInv'
    BY <1>11 DEF CloseEnters, Enter, TypeOK, PhaseInv, JobInv, OneJob, LeaseInv
  <2>7. EngineCallsLive'
    BY <1>11 DEF CloseEnters, Enter, TypeOK, PhaseInv, JobInv, ReachInv, Reachable, EngineCallsLive
  <2>8. BusyInv'
    BY <1>11 DEF CloseEnters, Enter, TypeOK, PhaseInv, JobInv, OneJob, ReachInv, Reachable, BusyInv
  <2>9. DisciplineInv'
    BY <1>11 DEF CloseEnters, Enter, TypeOK, PhaseInv, JobInv, OneJob, ReachInv, Reachable, BusyInv, DisciplineInv, SessionsOf
  <2> QED BY <2>1, <2>2, <2>3, <2>4, <2>5, <2>6, <2>7, <2>8, <2>9
<1>12. ASSUME NEW a \in Actors, NEW s \in Sessions, FreeSession(a, s) PROVE IInv'
  <2>1. TypeOK'
    BY <1>12 DEF FreeSession, Leave, TypeOK
  <2>2. PhaseInv'
    BY <1>12 DEF FreeSession, Leave, TypeOK, PhaseInv, JobInv, OneJob
  <2>3. JobInv'
    BY <1>12 DEF FreeSession, Leave, TypeOK, PhaseInv, JobInv, OneJob
  <2>4. OneJob'
    BY <1>12 DEF FreeSession, Leave, TypeOK, PhaseInv, JobInv, OneJob
  <2>5. ReachInv'
    BY <1>12 DEF FreeSession, Leave, TypeOK, PhaseInv, JobInv, ReachInv, Reachable
  <2>6. LeaseInv'
    BY <1>12 DEF FreeSession, Leave, TypeOK, PhaseInv, JobInv, OneJob, LeaseInv
  <2>7. EngineCallsLive'
    BY <1>12 DEF FreeSession, Leave, TypeOK, PhaseInv, JobInv, ReachInv, Reachable, EngineCallsLive
  <2>8. BusyInv'
    BY <1>12 DEF FreeSession, Leave, TypeOK, PhaseInv, JobInv, OneJob, ReachInv, Reachable, BusyInv
  <2>9. DisciplineInv'
    BY <1>12 DEF FreeSession, Leave, TypeOK, PhaseInv, JobInv, OneJob, ReachInv, Reachable, BusyInv, DisciplineInv, SessionsOf
  <2> QED BY <2>1, <2>2, <2>3, <2>4, <2>5, <2>6, <2>7, <2>8, <2>9
<1>13. ASSUME NEW a \in Actors, NEW e \in Engines, FreeEngine(a, e) PROVE IInv'
  <2>1. TypeOK'
    BY <1>13 DEF FreeEngine, TypeOK
  <2>2. PhaseInv'
    BY <1>13 DEF FreeEngine, TypeOK, PhaseInv, JobInv, OneJob
  <2>3. JobInv'
    BY <1>13 DEF FreeEngine, TypeOK, PhaseInv, JobInv, OneJob
  <2>4. OneJob'
    BY <1>13 DEF FreeEngine, TypeOK, PhaseInv, JobInv, OneJob
  <2>5. ReachInv'
    BY <1>13 DEF FreeEngine, TypeOK, PhaseInv, JobInv, ReachInv, Reachable
  <2>6. LeaseInv'
    BY <1>13 DEF FreeEngine, TypeOK, PhaseInv, JobInv, OneJob, LeaseInv
  <2>7. EngineCallsLive'
    BY <1>13 DEF FreeEngine, TypeOK, PhaseInv, JobInv, ReachInv, Reachable, EngineCallsLive
  <2>8. BusyInv'
    BY <1>13 DEF FreeEngine, TypeOK, PhaseInv, JobInv, OneJob, ReachInv, Reachable, BusyInv
  <2>9. DisciplineInv'
    <3> SUFFICES ASSUME disciplined, NEW s \in Sessions, native'[s] \in {"opening", "live"}
                 PROVE  native'[of[s]] = "live" /\ once[of[s]] = "fresh"
        BY <1>13 DEF FreeEngine, DisciplineInv
    <3>1. s # e /\ native[s] \in {"opening", "live"}
        BY <1>13 DEF FreeEngine, TypeOK
    <3>2. native[of[s]] = "live" /\ once[of[s]] = "fresh" /\ of[s] \in Engines
        BY <3>1 DEF DisciplineInv, ReachInv, TypeOK
    <3>3. of[s] # e
      <4>1. CASE a # Cleaner
        BY <1>13, <4>1, <3>2 DEF FreeEngine, JobInv
      <4>2. CASE a = Cleaner
        <5>1. ~Reachable(e)
            BY <1>13, <4>2 DEF FreeEngine, JobInv, ReachInv
        <5>2. CASE native[s] = "opening"
          <6>1. PICK t \in Threads : job[t] = [op |-> "creating", obj |-> s]
            BY <5>2 DEF BusyInv
          <6>2. job[t].op = "creating" /\ job[t].obj = s
            BY <6>1
          <6> QED
            BY <5>1, <6>2 DEF Reachable
        <5>3. CASE native[s] = "live" /\ cleanup[s] \in {"armed", "queued", "running"}
            BY <5>1, <5>3 DEF Reachable
        <5>4. CASE native[s] = "live" /\ cleanup[s] = "stopped"
          <6>1. once[s] # "fresh"
            BY <5>4 DEF PhaseInv
          <6>2. once[s] # "done"
            BY <5>4 DEF BusyInv
          <6>3. once[s] \in {"fresh", "running", "done"}
            BY DEF TypeOK
          <6>4. once[s] = "running"
            BY <6>1, <6>2, <6>3
          <6>5. s \in held
            BY <6>4 DEF BusyInv
          <6> QED
            BY <5>1, <6>5 DEF Reachable
        <5> QED
            BY <3>1, <5>2, <5>3, <5>4 DEF PhaseInv
      <4> QED
        BY <4>1, <4>2
    <3> QED
        BY <1>13, <3>2, <3>3 DEF FreeEngine, TypeOK
  <2> QED BY <2>1, <2>2, <2>3, <2>4, <2>5, <2>6, <2>7, <2>8, <2>9
<1>14. ASSUME NEW a \in Actors, NEW e \in Engines, ReleaseLease(a, e) PROVE IInv'
  <2>1. TypeOK'
    BY <1>14 DEF ReleaseLease, Release, Leave, TypeOK
  <2>2. PhaseInv'
    BY <1>14 DEF ReleaseLease, Release, Leave, TypeOK, PhaseInv, JobInv, OneJob
  <2>3. JobInv'
    BY <1>14 DEF ReleaseLease, Release, Leave, TypeOK, PhaseInv, JobInv, OneJob
  <2>4. OneJob'
    BY <1>14 DEF ReleaseLease, Release, Leave, TypeOK, PhaseInv, JobInv, OneJob
  <2>5. ReachInv'
    BY <1>14 DEF ReleaseLease, Release, Leave, TypeOK, PhaseInv, JobInv, ReachInv, Reachable
  <2>6. LeaseInv'
    BY <1>14 DEF ReleaseLease, Release, Leave, TypeOK, PhaseInv, JobInv, OneJob, LeaseInv
  <2>7. EngineCallsLive'
    BY <1>14 DEF ReleaseLease, Release, Leave, TypeOK, PhaseInv, JobInv, ReachInv, Reachable, EngineCallsLive
  <2>8. BusyInv'
    BY <1>14 DEF ReleaseLease, Release, Leave, TypeOK, PhaseInv, JobInv, OneJob, ReachInv, Reachable, BusyInv
  <2>9. DisciplineInv'
    BY <1>14 DEF ReleaseLease, Release, Leave, TypeOK, PhaseInv, JobInv, OneJob, ReachInv, Reachable, BusyInv, DisciplineInv, SessionsOf
  <2> QED BY <2>1, <2>2, <2>3, <2>4, <2>5, <2>6, <2>7, <2>8, <2>9
<1>15. ASSUME NEW o \in Objects, Drop(o) PROVE IInv'
  <2>1. TypeOK'
    BY <1>15 DEF Drop, TypeOK
  <2>2. PhaseInv'
    BY <1>15 DEF Drop, TypeOK, PhaseInv, JobInv, OneJob
  <2>3. JobInv'
    BY <1>15 DEF Drop, TypeOK, PhaseInv, JobInv, OneJob
  <2>4. OneJob'
    BY <1>15 DEF Drop, TypeOK, PhaseInv, JobInv, OneJob
  <2>5. ReachInv'
    BY <1>15 DEF Drop, TypeOK, PhaseInv, JobInv, ReachInv, Reachable
  <2>6. LeaseInv'
    BY <1>15 DEF Drop, TypeOK, PhaseInv, JobInv, OneJob, LeaseInv
  <2>7. EngineCallsLive'
    BY <1>15 DEF Drop, TypeOK, PhaseInv, JobInv, ReachInv, Reachable, EngineCallsLive
  <2>8. BusyInv'
    BY <1>15 DEF Drop, TypeOK, PhaseInv, JobInv, OneJob, ReachInv, Reachable, BusyInv
  <2>9. DisciplineInv'
    BY <1>15 DEF Drop, TypeOK, PhaseInv, JobInv, OneJob, ReachInv, Reachable, BusyInv, DisciplineInv, SessionsOf
  <2> QED BY <2>1, <2>2, <2>3, <2>4, <2>5, <2>6, <2>7, <2>8, <2>9
<1>16. ASSUME NEW o \in Objects, Collect(o) PROVE IInv'
  <2>1. TypeOK'
    BY <1>16 DEF Collect, TypeOK
  <2>2. PhaseInv'
    BY <1>16 DEF Collect, TypeOK, PhaseInv, JobInv, OneJob
  <2>3. JobInv'
    BY <1>16 DEF Collect, TypeOK, PhaseInv, JobInv, OneJob
  <2>4. OneJob'
    BY <1>16 DEF Collect, TypeOK, PhaseInv, JobInv, OneJob
  <2>5. ReachInv'
    BY <1>16 DEF Collect, TypeOK, PhaseInv, JobInv, ReachInv, Reachable
  <2>6. LeaseInv'
    BY <1>16 DEF Collect, TypeOK, PhaseInv, JobInv, OneJob, LeaseInv
  <2>7. EngineCallsLive'
    BY <1>16 DEF Collect, TypeOK, PhaseInv, JobInv, ReachInv, Reachable, EngineCallsLive
  <2>8. BusyInv'
    BY <1>16 DEF Collect, TypeOK, PhaseInv, JobInv, OneJob, ReachInv, Reachable, BusyInv
  <2>9. DisciplineInv'
    BY <1>16 DEF Collect, TypeOK, PhaseInv, JobInv, OneJob, ReachInv, Reachable, BusyInv, DisciplineInv, SessionsOf
  <2> QED BY <2>1, <2>2, <2>3, <2>4, <2>5, <2>6, <2>7, <2>8, <2>9
<1>17. ASSUME NEW o \in Objects, CleanupRuns(o) PROVE IInv'
  <2>1. TypeOK'
    BY <1>17 DEF CleanupRuns, Enter, TypeOK
  <2>2. PhaseInv'
    BY <1>17 DEF CleanupRuns, Enter, TypeOK, PhaseInv, JobInv, OneJob
  <2>3. JobInv'
    BY <1>17 DEF CleanupRuns, Enter, TypeOK, PhaseInv, JobInv, OneJob
  <2>4. OneJob'
    BY <1>17 DEF CleanupRuns, Enter, TypeOK, PhaseInv, JobInv, OneJob
  <2>5. ReachInv'
    BY <1>17 DEF CleanupRuns, Enter, TypeOK, PhaseInv, JobInv, ReachInv, Reachable
  <2>6. LeaseInv'
    BY <1>17 DEF CleanupRuns, Enter, TypeOK, PhaseInv, JobInv, OneJob, LeaseInv
  <2>7. EngineCallsLive'
    BY <1>17 DEF CleanupRuns, Enter, TypeOK, PhaseInv, JobInv, ReachInv, Reachable, EngineCallsLive
  <2>8. BusyInv'
    BY <1>17 DEF CleanupRuns, Enter, TypeOK, PhaseInv, JobInv, OneJob, ReachInv, Reachable, BusyInv
  <2>9. DisciplineInv'
    BY <1>17 DEF CleanupRuns, Enter, TypeOK, PhaseInv, JobInv, OneJob, ReachInv, Reachable, BusyInv, DisciplineInv, SessionsOf
  <2> QED BY <2>1, <2>2, <2>3, <2>4, <2>5, <2>6, <2>7, <2>8, <2>9
<1> QED
    BY <1>1, <1>2, <1>3, <1>4, <1>5, <1>6, <1>7, <1>8, <1>9, <1>10, <1>11, <1>12, <1>13, <1>14, <1>15, <1>16, <1>17 DEF Next, Steady, Step, Progress

LEMMA SpecIInv == Spec => []IInv
BY InitIInv, NextIInv, PTL DEF Spec

\* Type correctness; in particular every method unlocks libCallMu.
THEOREM TypeCorrect == Spec => []TypeOK
<1>1. IInv => TypeOK
    BY DEF IInv
<1> QED
    BY <1>1, SpecIInv, PTL

\* The guard's release runs once, and not while the native engine is open.
THEOREM LeaseCoversEngineTheorem == Spec => []LeaseCoversEngine
<1>1. IInv => LeaseCoversEngine
    BY DEF IInv, TypeOK, LeaseInv, LeaseCoversEngine, Objects
<1> QED
    BY <1>1, SpecIInv, PTL

\* No native object is freed twice, by Close or by the collector.
THEOREM FreedOnceTheorem == Spec => []FreedOnce
<1>1. IInv => FreedOnce
    BY DEF IInv, JobInv, OneJob, FreedOnce
<1> QED
    BY <1>1, SpecIInv, PTL

\* SetLogits, CopyLogits and the Engine methods find their engine open.
THEOREM EngineCallsLiveTheorem == Spec => []EngineCallsLive
<1>1. IInv => EngineCallsLive
    BY DEF IInv
<1> QED
    BY <1>1, SpecIInv, PTL

\* A program that closes its engines last never calls libds4 on a session
\* whose engine is gone, whatever it leaves to the collector.
THEOREM SessionCallsLiveTheorem == Spec => []DisciplinedCallsLive
<1>1. IInv => DisciplinedCallsLive
    BY DEF IInv, JobInv, DisciplineInv, DisciplinedCallsLive, SessionCallsLive, Job
<1> QED
    BY <1>1, SpecIInv, PTL
=============================================================================
