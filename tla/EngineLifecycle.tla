-------------------------- MODULE EngineLifecycle --------------------------
(***************************************************************************)
(* Engines and sessions of ds4api: opening under the engine open guard,    *)
(* method calls, Close, and the runtime cleanups that close what the       *)
(* program leaks (engine.go, session.go, openguard.go, lock.go).           *)
(*                                                                         *)
(* An object is an Engine or a Session together with the native object it  *)
(* wraps.  Every object is opened at most once; Close runs at most once    *)
(* (sync.Once), so a second Close changes nothing and is not an action.    *)
(* libCallMu is mu: a method takes it, checks its pointers, calls libds4   *)
(* and unlocks.  The call into libds4 is the interval between two steps.   *)
(***************************************************************************)
CONSTANTS Threads,      \* goroutines of the program
          Cleaner,      \* the goroutine that runs runtime.AddCleanup functions
          Engines,
          Sessions,
          NoOne,        \* mu is unlocked
          NoObject,     \* no object
          Disciplines   \* the values of disciplined to look at

ASSUME LifecycleAssumption ==
    /\ Cleaner \notin Threads
    /\ NoOne \notin Threads \cup {Cleaner}
    /\ Engines \cap Sessions = {}
    /\ NoObject \notin Engines \cup Sessions
    /\ Disciplines \subseteq BOOLEAN

Objects == Engines \cup Sessions
Actors == Threads \cup {Cleaner}

VARIABLES mu,       \* libCallMu
          job,      \* what each goroutine is doing, and to which object
          native,   \* the native object: ds4_engine or ds4_session
          ptr,      \* the Go objects whose field ptr is not zero
          once,     \* the sync.Once of Close
          cleanup,  \* the runtime cleanup
          held,     \* the Go objects the program has a reference to
          of,       \* the engine of a session
          lease,    \* the release function the guard returned for an engine
          disciplined   \* the program closes an engine only after its sessions,
                        \* and then opens no session on it: never changes

vars == <<mu, job, native, ptr, once, cleanup, held, of, lease, disciplined>>

\* The jobs during which the goroutine is inside libds4.
InNative == {"opening", "creating", "engineCall", "sessionCall", "logitsCall", "freeing"}
\* The jobs during which it holds libCallMu.
Locked == (InNative \ {"opening"}) \cup {"releasing"}
Ops == InNative \cup {"idle", "closing", "releasing"}
Idle == [op |-> "idle", obj |-> NoObject]
Job(op, o) == [op |-> op, obj |-> o]

TypeOK ==
    /\ mu \in Actors \cup {NoOne}
    /\ job \in [Actors -> [op : Ops, obj : Objects \cup {NoObject}]]
    /\ native \in [Objects -> {"none", "opening", "live", "freed", "failed"}]
    /\ ptr \subseteq Objects
    /\ once \in [Objects -> {"fresh", "running", "done"}]
    /\ cleanup \in [Objects -> {"none", "armed", "stopped", "queued", "running", "done"}]
    /\ held \subseteq Objects
    /\ of \in [Sessions -> Engines \cup {NoObject}]
    /\ lease \in [Engines -> {"none", "exempt", "held", "released", "twice"}]
    /\ disciplined \in Disciplines
    \* every path through a method unlocks what it locked
    /\ \A a \in Actors : mu = a <=> job[a].op \in Locked

Init ==
    /\ mu = NoOne
    /\ job = [a \in Actors |-> Idle]
    /\ native = [o \in Objects |-> "none"]
    /\ ptr = {}
    /\ once = [o \in Objects |-> "fresh"]
    /\ cleanup = [o \in Objects |-> "none"]
    /\ held = {}
    /\ of = [s \in Sessions |-> NoObject]
    /\ lease = [e \in Engines |-> "none"]
    /\ disciplined \in Disciplines

\* release() called once more on the lease of an engine (a nil release is not
\* called).
Release(l) ==
    CASE l = "held" -> "released"
      [] l = "released" -> "twice"
      [] OTHER -> l

-----------------------------------------------------------------------------
(* Opening *)

\* NewEngine runs the guard.  It refuses, with nothing or with a release that
\* is called at once, or lets the open go ahead, with or without a release.
Guard(t, e) ==
    /\ job[t] = Idle
    /\ native[e] = "none"
    /\ \/ /\ native' = [native EXCEPT ![e] = "failed"]
          /\ lease' \in {lease, [lease EXCEPT ![e] = Release("held")]}
          /\ UNCHANGED job
       \/ /\ native' = [native EXCEPT ![e] = "opening"]
          /\ \E l \in {"exempt", "held"} : lease' = [lease EXCEPT ![e] = l]
          /\ job' = [job EXCEPT ![t] = Job("opening", e)]
    /\ UNCHANGED <<mu, ptr, once, cleanup, held, of>>

\* An Engine or Session wraps a native object that was just created.
Wrap(o) ==
    /\ native' = [native EXCEPT ![o] = "live"]
    /\ ptr' = ptr \cup {o}
    /\ cleanup' = [cleanup EXCEPT ![o] = "armed"]
    /\ held' = held \cup {o}

\* Seeded fault: a failed native open keeps the guard's release.
OpenReturnsKeepsLease(t, e) ==
    /\ job[t] = Job("opening", e)
    /\ job' = [job EXCEPT ![t] = Idle]
    /\ \/ Wrap(e)
       \/ /\ native' = [native EXCEPT ![e] = "failed"]
          /\ UNCHANGED <<ptr, cleanup, held>>
    /\ UNCHANGED <<mu, once, of, lease>>

\* ds4_engine_open, which NewEngine calls without libCallMu, returns.
OpenReturns(t, e) ==
    /\ job[t] = Job("opening", e)
    /\ job' = [job EXCEPT ![t] = Idle]
    /\ \/ Wrap(e) /\ UNCHANGED lease
       \/ /\ native' = [native EXCEPT ![e] = "failed"]
          /\ lease' = [lease EXCEPT ![e] = Release(lease[e])]
          /\ UNCHANGED <<ptr, cleanup, held>>
    /\ UNCHANGED <<mu, once, of>>

\* A goroutine locks libCallMu and enters libds4.
Enter(a, op, o) ==
    /\ mu = NoOne
    /\ mu' = a
    /\ job' = [job EXCEPT ![a] = Job(op, o)]

\* It comes back from libds4 and unlocks.
Leave(a) ==
    /\ mu' = NoOne
    /\ job' = [job EXCEPT ![a] = Idle]

\* Engine.NewSession: Engine.require, then ds4_session_create.
NewSession(t, e, s) ==
    /\ job[t] = Idle
    /\ e \in held /\ e \in ptr
    /\ disciplined => once[e] = "fresh"
    /\ native[s] = "none"
    /\ Enter(t, "creating", s)
    /\ native' = [native EXCEPT ![s] = "opening"]
    /\ of' = [of EXCEPT ![s] = e]
    /\ UNCHANGED <<ptr, once, cleanup, held, lease>>

\* ds4_session_create returns, with a session or an error.
CreateReturns(t, s) ==
    /\ job[t] = Job("creating", s)
    /\ Leave(t)
    /\ \/ Wrap(s)
       \/ /\ native' = [native EXCEPT ![s] = "failed"]
          /\ UNCHANGED <<ptr, cleanup, held>>
    /\ UNCHANGED <<once, of, lease>>

-----------------------------------------------------------------------------
(* Calls *)

\* An Engine method: Engine.require.
EngineCall(t, e) ==
    /\ job[t] = Idle
    /\ e \in held /\ e \in ptr
    /\ Enter(t, "engineCall", e)
    /\ UNCHANGED <<native, ptr, once, cleanup, held, of, lease>>

\* A Session method: Session.require.
SessionCall(t, s) ==
    /\ job[t] = Idle
    /\ s \in held /\ s \in ptr
    /\ Enter(t, "sessionCall", s)
    /\ UNCHANGED <<native, ptr, once, cleanup, held, of, lease>>

\* Seeded fault: SetLogits and CopyLogits check only the session.
LogitsCallUnchecked(t, s) ==
    /\ job[t] = Idle
    /\ s \in held /\ s \in ptr
    /\ Enter(t, "logitsCall", s)
    /\ UNCHANGED <<native, ptr, once, cleanup, held, of, lease>>

\* SetLogits and CopyLogits: Session.requireEngine.
LogitsCall(t, s) ==
    /\ job[t] = Idle
    /\ s \in held /\ s \in ptr /\ of[s] \in ptr
    /\ Enter(t, "logitsCall", s)
    /\ UNCHANGED <<native, ptr, once, cleanup, held, of, lease>>

CallReturns(t) ==
    /\ job[t].op \in {"engineCall", "sessionCall", "logitsCall"}
    /\ Leave(t)
    /\ UNCHANGED <<native, ptr, once, cleanup, held, of, lease>>

-----------------------------------------------------------------------------
(* Close *)

SessionsOf(e) == {s \in Sessions : of[s] = e}

\* Seeded fault: Close forgets cleanup.Stop.
CloseStartsKeepsCleanup(t, o) ==
    /\ job[t] = Idle
    /\ o \in held
    /\ once[o] = "fresh"
    /\ job' = [job EXCEPT ![t] = Job("closing", o)]
    /\ once' = [once EXCEPT ![o] = "running"]
    /\ UNCHANGED <<mu, native, ptr, cleanup, held, of, lease>>

\* The first Close: once.Do, cleanup.Stop.
CloseStarts(t, o) ==
    /\ job[t] = Idle
    /\ o \in held
    /\ once[o] = "fresh"
    /\ disciplined /\ o \in Engines =>
          \A s \in SessionsOf(o) : native[s] \in {"freed", "failed"}
    /\ job' = [job EXCEPT ![t] = Job("closing", o)]
    /\ once' = [once EXCEPT ![o] = "running"]
    /\ cleanup' = [cleanup EXCEPT ![o] = "stopped"]
    /\ UNCHANGED <<mu, native, ptr, held, of, lease>>

\* Close locks libCallMu and calls ds4_engine_close or ds4_session_free.
CloseEnters(t, o) ==
    /\ job[t] = Job("closing", o)
    /\ Enter(t, "freeing", o)
    /\ UNCHANGED <<native, ptr, once, cleanup, held, of, lease>>

\* Close has freed the session.
FreeSession(a, s) ==
    /\ job[a] = Job("freeing", s)
    /\ Leave(a)
    /\ native' = [native EXCEPT ![s] = "freed"]
    /\ IF a = Cleaner
       THEN cleanup' = [cleanup EXCEPT ![s] = "done"] /\ UNCHANGED <<ptr, once>>
       ELSE /\ ptr' = ptr \ {s}
            /\ once' = [once EXCEPT ![s] = "done"]
            /\ UNCHANGED cleanup
    /\ UNCHANGED <<held, of, lease>>

\* The engine is closed; libCallMu stays locked until the lease is released.
FreeEngine(a, e) ==
    /\ job[a] = Job("freeing", e)
    /\ job' = [job EXCEPT ![a] = Job("releasing", e)]
    /\ native' = [native EXCEPT ![e] = "freed"]
    /\ ptr' = IF a = Cleaner THEN ptr ELSE ptr \ {e}
    /\ UNCHANGED <<mu, once, cleanup, held, of, lease>>

ReleaseLease(a, e) ==
    /\ job[a] = Job("releasing", e)
    /\ Leave(a)
    /\ lease' = [lease EXCEPT ![e] = Release(lease[e])]
    /\ IF a = Cleaner
       THEN cleanup' = [cleanup EXCEPT ![e] = "done"] /\ UNCHANGED once
       ELSE once' = [once EXCEPT ![e] = "done"] /\ UNCHANGED cleanup
    /\ UNCHANGED <<native, ptr, held, of>>

-----------------------------------------------------------------------------
(* Garbage collection *)

\* The program loses its last reference.  A method in progress needs none once
\* it has read its pointers; a Close does.
Drop(o) ==
    /\ o \in held
    /\ \A t \in Threads : job[t] \notin
          {Job("closing", o), Job("freeing", o), Job("releasing", o)}
    /\ held' = held \ {o}
    /\ UNCHANGED <<mu, job, native, ptr, once, cleanup, of, lease>>

\* Seeded fault: the cleanup argument of a session holds the engine's pointer,
\* not the Engine.
ReachableByProgram(o) ==
    \/ o \in held
    \/ \E t \in Threads : job[t].op = "creating" /\ of[job[t].obj] = o
    \/ \E s \in Sessions : of[s] = o /\ s \in held

\* Seeded fault: the cleanup argument of an engine holds its sessions, whose
\* cleanup arguments hold the engine.
ReachableInCycle(o) ==
    \/ ReachableByProgram(o)
    \/ \E s \in Sessions : of[s] = o /\ cleanup[s] \in {"armed", "queued", "running"}
    \/ o \in Sessions /\ of[o] \in Engines /\ cleanup[of[o]] \in {"armed", "queued"}

\* A reachable object is not collected: one the program holds, the engine a
\* NewSession is about to store, and the engine that a reachable session or
\* the argument of a session's cleanup points to.
Reachable(o) ==
    \/ o \in held
    \/ \E t \in Threads : job[t].op = "creating" /\ of[job[t].obj] = o
    \/ \E s \in Sessions :
          of[s] = o /\ (s \in held \/ cleanup[s] \in {"armed", "queued", "running"})

Collect(o) ==
    /\ cleanup[o] = "armed"
    /\ ~Reachable(o)
    /\ cleanup' = [cleanup EXCEPT ![o] = "queued"]
    /\ UNCHANGED <<mu, job, native, ptr, once, held, of, lease>>

\* cleanEngine and cleanSession: lock libCallMu and free the native object.
CleanupRuns(o) ==
    /\ job[Cleaner] = Idle
    /\ cleanup[o] = "queued"
    /\ Enter(Cleaner, "freeing", o)
    /\ cleanup' = [cleanup EXCEPT ![o] = "running"]
    /\ UNCHANGED <<native, ptr, once, held, of, lease>>

-----------------------------------------------------------------------------
\* What goroutine a does to get on with the job it has.
Progress(a) ==
    \/ \E e \in Engines : OpenReturns(a, e) \/ FreeEngine(a, e) \/ ReleaseLease(a, e)
    \/ \E s \in Sessions : CreateReturns(a, s) \/ FreeSession(a, s)
    \/ CallReturns(a)

Step ==
    \/ \E t \in Threads, e \in Engines : Guard(t, e) \/ EngineCall(t, e)
    \/ \E t \in Threads, e \in Engines, s \in Sessions : NewSession(t, e, s)
    \/ \E t \in Threads, s \in Sessions : SessionCall(t, s) \/ LogitsCall(t, s)
    \/ \E t \in Threads, o \in Objects : CloseStarts(t, o) \/ CloseEnters(t, o)
    \/ \E a \in Actors : Progress(a)
    \/ \E o \in Objects : Drop(o) \/ Collect(o) \/ CleanupRuns(o)

\* A step of a program, which keeps to its habits.
Steady(A) == A /\ UNCHANGED disciplined

Next == Steady(Step)

Spec == Init /\ [][Next]_vars

\* libds4 calls return, a goroutine waiting for a Go mutex gets it, and the
\* collector keeps running.  A goroutine closes one object at a time and an
\* object is collected and cleaned up once, so one condition serves them all.
FairSpec ==
    /\ Spec
    /\ \A a \in Actors : WF_vars(Steady(Progress(a)))
    /\ \A t \in Threads : SF_vars(Steady(\E o \in Objects : CloseEnters(t, o)))
    /\ WF_vars(Steady(\E o \in Objects : Collect(o)))
    /\ SF_vars(Steady(\E o \in Objects : CleanupRuns(o)))

-----------------------------------------------------------------------------
(* Properties *)

\* The guard's release is called exactly once, after the native engine is
\* closed or has failed to open, and never while it is open (openguard.go):
\* the run lock covers the whole life of the native engine.
LeaseCoversEngine ==
    \A e \in Engines :
        /\ lease[e] # "twice"
        /\ native[e] \in {"opening", "live"} => lease[e] \in {"held", "exempt"}
        /\ lease[e] = "held" =>
              \/ native[e] \in {"opening", "live"}
              \/ \E a \in Actors : job[a] = Job("releasing", e)

\* A native object is freed by one goroutine, while it is live, so it is never
\* freed twice: Close and the runtime cleanup exclude each other.
FreedOnce ==
    \A a, b \in Actors : job[a].op = "freeing" =>
        /\ native[job[a].obj] = "live"
        /\ job[b] = job[a] => a = b

\* A call that needs the engine runs on an engine that is open: both checks of
\* Session.requireEngine are under the mutex Engine.Close takes (session.go).
EngineCallsLive ==
    \A a \in Actors :
        /\ job[a].op = "engineCall" => native[job[a].obj] = "live"
        /\ job[a].op = "logitsCall" =>
              native[job[a].obj] = "live" /\ native[of[job[a].obj]] = "live"

\* ds4_session_free and the other session calls dereference the engine of the
\* session (session.go, sessionCleanupArg): it must be open.
SessionCallsLive ==
    \A a \in Actors, s \in Sessions :
        job[a] \in {Job("sessionCall", s), Job("freeing", s)} =>
            native[s] = "live" /\ native[of[s]] = "live"

\* A program that closes its sessions before their engines gets it, whatever it
\* leaves to the collector, which runs the cleanups of both in any order.
DisciplinedCallsLive == disciplined => SessionCallsLive

\* An engine the program lost, sessions and all, is closed in the end and its
\* lease with it: the references between the cleanups form no cycle.
LeakedEngineFreed ==
    \A e \in Engines :
        (native[e] = "live" /\ e \notin held
            /\ \A s \in SessionsOf(e) : s \notin held /\ native[s] # "opening")
        ~> (native[e] = "freed" /\ lease[e] \in {"released", "exempt"})
=============================================================================
