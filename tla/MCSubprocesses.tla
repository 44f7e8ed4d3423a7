--------------------------- MODULE MCSubprocesses ---------------------------
(* One instance for the processes that the tools start: a language server    *)
(* that reports versions (LspDiagnostics) and one that does not (L, the same *)
(* module with one caller), and shells (ShellJobs).  Each behaviour is of    *)
(* one of them; the variables of the others stay as they begin.              *)
EXTENDS LspDiagnostics

CONSTANTS Agents, MaxJobs,       \* of ShellJobs
          Caller                 \* the one caller of L

VARIABLES what,                  \* "match", "settle" or "shell": never changes
          v, now, sent, opened, entry, doing, down, peer, up, running,    \* of L
          leave, shells, table, at                                        \* of ShellJobs

L == INSTANCE LspDiagnostics WITH
        Callers <- {Caller}, Editors <- {Caller}, Versioned <- FALSE,
        MaxTexts <- 4, MaxOpens <- 2, MaxPublishes <- 2,
        version <- v, current <- now, texts <- sent, opens <- opened, buf <- entry,
        job <- doing, toServer <- down, server <- peer, toClient <- up, alive <- running
J == INSTANCE ShellJobs

settleVars == <<v, now, sent, opened, entry, doing, down, peer, up, running>>
jobVars == <<leave, shells, table, at>>
processes == <<vars, what, settleVars, jobVars>>

SubprocessInit ==
    /\ Init /\ L!Init /\ J!ShellInit
    /\ \/ what \in {"match", "settle"} /\ leave
       \/ what = "shell"

Matching(A) == what = "match" /\ A /\ UNCHANGED <<what, settleVars, jobVars>>
Settling(A) == what = "settle" /\ A /\ UNCHANGED <<what, vars, jobVars>>
Shell(A) == what = "shell" /\ A /\ UNCHANGED <<what, vars, settleVars>>

SubprocessNext == Matching(Next) \/ Settling(L!Next) \/ Shell(J!ShellNext)

SubprocessSpec ==
    /\ SubprocessInit /\ [][SubprocessNext]_processes
    /\ WF_processes(Settling(L!Continue(Caller)))
    /\ WF_processes(Settling(L!Publish)) /\ WF_processes(Settling(L!ServerReads))
    /\ WF_processes(Settling(L!ServerPublishes))
    /\ \A a \in J!Actors : WF_processes(Shell(J!Step(a)))
    /\ \A j \in J!JobIds : WF_processes(Shell(J!Watch(j)))

\* The properties of L and of ShellJobs.
SettledWasPublishedAlone == L!SettledWasPublished
BufferConvergesAlone == L!BufferConverges
JobsEnd == what = "shell" => J!JobsEnd
=============================================================================
