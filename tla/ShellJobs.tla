------------------------------- MODULE ShellJobs -------------------------------
(***************************************************************************)
(* Shell jobs of the workspace tools (workspacetool/shell.go,              *)
(* process_unix.go, Close in workspacetool.go): bash, bash_status,         *)
(* bash_stop and Close called from several goroutines, the goroutine that  *)
(* waits for each shell, and the one that is its timeout.                  *)
(*                                                                         *)
(* A critical section of w.mu or of job.mu is one step, and so is a        *)
(* signal.  Time is not modelled: a deadline passes at any moment.  A      *)
(* shell obeys SIGTERM, traps it, or is wedged and survives SIGKILL.       *)
(***************************************************************************)
EXTENDS Naturals, FiniteSets

CONSTANTS Agents,    \* goroutines that call the tools
          MaxJobs     \* bound: jobs started

JobIds == 1..MaxJobs
Actors == Agents \cup JobIds     \* a job stands for its timeout goroutine

VARIABLES leave,    \* LeaveChildProcesses: never changes
          shells,   \* each job: its shell, done, groupSignaled
          table,    \* w.jobs
          at        \* where each actor is, with the job it works on

shellVars == <<leave, shells, table, at>>

NoJob == [shell |-> "none", nature |-> "obeys", done |-> FALSE, groupSignaled |-> FALSE]
AtRest == [pos |-> "idle", job |-> 0, kill |-> FALSE, after |-> "observe", left |-> {}]

ShellInit ==
    /\ leave \in BOOLEAN
    /\ shells = [j \in JobIds |-> NoJob]
    /\ table = {}
    /\ at = [a \in Actors |-> AtRest]

Becomes(a, r) == at' = [at EXCEPT ![a] = r]
Moves(a, p) == at' = [at EXCEPT ![a].pos = p]
Target(a) == shells[at[a].job]

-----------------------------------------------------------------------------
(* The shell and the goroutine in cmd.Wait *)

ShellExits(j) ==
    /\ shells[j].shell = "running" /\ shells[j].nature # "wedged"
    /\ shells' = [shells EXCEPT ![j].shell = "exited"]
    /\ UNCHANGED <<leave, table, at>>

Reap(j) ==
    /\ shells[j].shell = "exited"
    /\ \A a \in Agents : at[a].pos = "register" => at[a].job # j
    /\ shells' = [shells EXCEPT ![j].shell = "reaped"]
    /\ UNCHANGED <<leave, table, at>>

SetDone(j) ==
    /\ shells[j].shell = "reaped" /\ ~shells[j].done
    /\ shells' = [shells EXCEPT ![j].done = TRUE]
    /\ UNCHANGED <<leave, table, at>>

-----------------------------------------------------------------------------
(* bash: startBashJob *)

\* Bound: the shells that are started.
Free == {j \in JobIds : shells[j].shell = "none"}

\* The temporary directory, the file and the shell.  When one of them fails,
\* after a Close too, nothing has happened.
Start(a) ==
    /\ at[a].pos = "idle"
    /\ \E j \in Free, nature \in {"obeys", "traps", "wedged"} :
          /\ \A k \in Free : j <= k
          /\ shells' = [shells EXCEPT ![j].shell = "running", ![j].nature = nature]
          /\ Becomes(a, [AtRest EXCEPT !.pos = "register", !.job = j])
    /\ UNCHANGED <<leave, table>>

\* The job gets its number, the goroutine that waits and its timeout.
Register(a) ==
    /\ at[a].pos = "register"
    /\ LET j == at[a].job IN
       /\ table' = table \cup {j}
       /\ at' = [at EXCEPT ![a] = [AtRest EXCEPT !.pos = "refresh", !.job = j, !.after = "drop"],
                           ![j] = [AtRest EXCEPT !.pos = "armed", !.job = j, !.after = "end"]]
    /\ UNCHANGED <<leave, shells>>

\* waitForJob ends with the job or the interval; observeJob only reads.
Refreshed(a) ==
    /\ at[a].pos = "refresh"
    /\ Becomes(a, AtRest)
    /\ UNCHANGED <<leave, shells, table>>

\* Or the context is cancelled: bash stops what it has started.
Aborted(a) ==
    /\ at[a].pos = "refresh" /\ at[a].after = "drop"
    /\ Becomes(a, [at[a] EXCEPT !.pos = "group", !.kill = ~leave])
    /\ UNCHANGED <<leave, shells, table>>

-----------------------------------------------------------------------------
(* bash_status and bash_stop *)

Status(a) ==
    /\ at[a].pos = "idle"
    /\ \E j \in table : Becomes(a, [AtRest EXCEPT !.pos = "refresh", !.job = j])
    /\ UNCHANGED <<leave, shells, table>>

BashStop(a) ==
    /\ at[a].pos = "idle"
    /\ \E j \in table, kill \in BOOLEAN :
          Becomes(a, [AtRest EXCEPT !.pos = "group", !.job = j, !.kill = kill])
    /\ UNCHANGED <<leave, shells, table>>

\* The timeout: a job that is done is left alone.
Expire(j) ==
    /\ at[j].pos = "armed"
    /\ IF shells[j].done THEN Becomes(j, AtRest)
       ELSE Becomes(j, [at[j] EXCEPT !.pos = "group", !.kill = ~leave])
    /\ UNCHANGED <<leave, shells, table>>

-----------------------------------------------------------------------------
(* stop and wait *)

\* killGroupOnce decides under the lock, and signals after it.
KillGroupOnce(a) ==
    /\ at[a].pos = "group"
    /\ IF at[a].kill /\ ~Target(a).groupSignaled /\ ~Target(a).done
       THEN /\ shells' = [shells EXCEPT ![at[a].job].groupSignaled = TRUE]
            /\ Moves(a, "signal")
       ELSE Moves(a, "term") /\ UNCHANGED shells
    /\ UNCHANGED <<leave, table>>

\* What a signal makes of a shell that does not survive it.
Dies(j, natures) ==
    [shells[j] EXCEPT !.shell = IF @ = "running" /\ shells[j].nature \in natures THEN "exited" ELSE @]

KillShellGroup(a) ==
    /\ at[a].pos = "signal"
    /\ shells' = [shells EXCEPT ![at[a].job] = Dies(at[a].job, {"obeys", "traps"})]
    /\ Moves(a, "term")
    /\ UNCHANGED <<leave, table>>

\* terminateShell: SIGTERM, up to a second, SIGKILL.
Terminate(a) ==
    /\ at[a].pos = "term"
    /\ shells' = [shells EXCEPT ![at[a].job] = Dies(at[a].job, {"obeys"})]
    /\ Moves(a, "grace")
    /\ UNCHANGED <<leave, table>>

Stopped(a) == IF at[a].after = "end" THEN Becomes(a, AtRest) ELSE Moves(a, "wait")

EndsInGrace(a) ==
    /\ at[a].pos = "grace" /\ Target(a).done
    /\ Stopped(a)
    /\ UNCHANGED <<leave, shells, table>>

\* A variant of Kill: the second signal is one that a shell can trap.
KillPolitely(a) ==
    /\ at[a].pos = "grace"
    /\ shells' = [shells EXCEPT ![at[a].job] = Dies(at[a].job, {"obeys"})]
    /\ Stopped(a)
    /\ UNCHANGED <<leave, table>>

Kill(a) ==
    /\ at[a].pos = "grace"
    /\ shells' = [shells EXCEPT ![at[a].job] = Dies(at[a].job, {"obeys", "traps"})]
    /\ Stopped(a)
    /\ UNCHANGED <<leave, table>>

\* job.wait is over, with the job or with jobStopGrace; an aborted bash then
\* forgets the job, and Close goes on to the next.
Waited(a) ==
    /\ at[a].pos = "wait"
    /\ table' = IF at[a].after = "drop" THEN table \ {at[a].job} ELSE table
    /\ IF at[a].after = "close" THEN Moves(a, "close") ELSE Becomes(a, AtRest)
    /\ UNCHANGED <<leave, shells>>

-----------------------------------------------------------------------------
(* Close *)

\* It takes the jobs away under the lock; their output goes with them.
CloseTakes(a) ==
    /\ at[a].pos = "idle"
    /\ Becomes(a, [AtRest EXCEPT !.pos = "close", !.after = "close", !.left = table])
    /\ table' = {}
    /\ UNCHANGED <<leave, shells>>

CloseNext(a) ==
    /\ at[a].pos = "close"
    /\ \E j \in at[a].left :
          Becomes(a, [at[a] EXCEPT !.pos = "group", !.job = j, !.kill = ~leave, !.left = @ \ {j}])
    /\ UNCHANGED <<leave, shells, table>>

CloseEnds(a) ==
    /\ at[a].pos = "close" /\ at[a].left = {}
    /\ Becomes(a, AtRest)
    /\ UNCHANGED <<leave, shells, table>>

-----------------------------------------------------------------------------
Call(c) == Start(c) \/ Status(c) \/ BashStop(c) \/ CloseTakes(c)

Step(a) ==
    \/ Register(a) \/ Refreshed(a) \/ Aborted(a)
    \/ KillGroupOnce(a) \/ KillShellGroup(a) \/ Terminate(a)
    \/ EndsInGrace(a) \/ Kill(a) \/ Waited(a)
    \/ CloseNext(a) \/ CloseEnds(a)

Watch(j) == Reap(j) \/ SetDone(j) \/ Expire(j)

ShellNext ==
    \/ \E c \in Agents : Call(c)
    \/ \E a \in Actors : Step(a)
    \/ \E j \in JobIds : Watch(j) \/ ShellExits(j)

\* Goroutines that can go on are scheduled, a timer fires and a dead shell is
\* reaped.  A shell need never end, and nobody has to call anything.
Fairness ==
    /\ \A a \in Actors : WF_shellVars(Step(a))
    /\ \A j \in JobIds : WF_shellVars(Watch(j))

ShellSpec == ShellInit /\ [][ShellNext]_shellVars /\ Fairness

-----------------------------------------------------------------------------
(* Properties *)

Works(a, j) == at[a].job = j \/ j \in at[a].left

\* A shell that nobody has stopped, but could.
Stoppable(j) == shells[j].shell = "running" /\ shells[j].nature # "wedged"

\* A shell that runs is one that somebody will stop: whoever starts it has it in
\* hand, and from its registration on its timeout, whatever else is done to it.
InHand(j) == Stoppable(j) => \E a \in Actors : Works(a, j)

\* Whoever has come to the end of a stop has stopped the shell, although others
\* may signal it, watch it or take it out of the table at the same time.
StopsItsShell(a) == at[a].pos = "wait" => ~Stoppable(at[a].job)

\* "Signals the group at most once": two stops are never both about to
\* (shell.go:318-332, bashJob.killGroupOnce).
SignaledOnce ==
    \A a, b \in Actors :
        at[a].pos = "signal" /\ at[b].pos = "signal" /\ at[a].job = at[b].job => a = b

ShellsKept ==
    /\ \A j \in JobIds : InHand(j)
    /\ \A a \in Actors : StopsItsShell(a)
    /\ SignaledOnce

\* No shell is left behind by an abort, a timeout or a Close, all of which may
\* overlap; each of them returns even from a shell that nothing can kill; and
\* every other shell ends and is reported so (shell.go:184-197, 320-336, 353).
JobsEnd ==
    /\ []ShellsKept
    /\ \A c \in Agents : at[c].pos # "idle" ~> at[c].pos = "idle"
    /\ \A j \in JobIds : shells[j].shell # "none" /\ shells[j].nature # "wedged" ~> shells[j].done
=============================================================================
