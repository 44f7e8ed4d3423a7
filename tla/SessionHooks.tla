----------------------------- MODULE SessionHooks -----------------------------
(***************************************************************************)
(* Callbacks (ds4api/callbacks.go and its callers in session.go, engine.go *)
(* and vision.go).  libds4 keeps an id where it was given a callback, and  *)
(* the id is looked up in a table when libds4 calls: an id that is no      *)
(* longer there calls nothing.                                             *)
(*                                                                         *)
(* What runs under libCallMu is one step, but for the calls in which       *)
(* libds4 calls back.  The abort hook is called from native threads at any *)
(* moment; one goroutine installs it, "during application startup".        *)
(***************************************************************************)
EXTENDS Naturals, FiniteSets, Functions

CONSTANTS Sessions, Fns,    \* sessions, and what may be registered
          NoFn,             \* nil
          MaxIds            \* bound: registrations

Hooks == {"progress", "display", "cancel"}      \* of a session
Tables == {"progress", "cancel", "token", "done", "abort"}

VARIABLES supported,  \* libds4 has ds4_session_set_cancel: never changes
          nextId,     \* callbackID
          table,      \* the five tables: id -> function
          open,       \* each session: "none", "open", "dropped" or "closed"
          state,      \* the ids that the session noted
          native,     \* the ids that libds4 has for a session
          wanted,     \* the functions the program asked for last
          call,       \* the call inside libds4, and its own registrations
          abort       \* the abort hook: in libds4, in the Library, and SetAbortFunc

hookVars == <<supported, nextId, table, open, state, native, wanted, call, abort>>

Ids == 1..MaxIds
NoHooks(x) == [h \in Hooks |-> x]
NoIds == [t \in {} |-> 0]
NoCall == [op |-> "none", s |-> 0, fn |-> NoFn, ids |-> NoIds]
NoAbort == [native |-> 0, id |-> 0, pos |-> "idle", new |-> 0, fn |-> NoFn]

HookInit ==
    /\ supported \in BOOLEAN
    /\ nextId = 1
    /\ table = [t \in Tables |-> NoIds]
    /\ open = [s \in Sessions |-> "none"]
    /\ state = [s \in Sessions |-> NoHooks(0)]
    /\ native = [s \in Sessions |-> NoHooks(0)]
    /\ wanted = [s \in Sessions |-> NoHooks(NoFn)]
    /\ call = NoCall
    /\ abort = NoAbort

\* Display progress shares the table, and the function that reads it.
TableOf(h) == IF h = "display" THEN "progress" ELSE h

Delete(f, ids) == Restrict(f, DOMAIN f \ ids)
With(f, id, fn) == [i \in DOMAIN f \cup {id} |-> IF i = id THEN fn ELSE f[i]]

Unlocked == call.op = "none"

-----------------------------------------------------------------------------
(* Sessions *)

NewSession(s) ==
    /\ Unlocked /\ open[s] = "none"
    /\ open' = [open EXCEPT ![s] = "open"]
    /\ UNCHANGED <<supported, nextId, table, state, native, wanted, call, abort>>

\* SetProgress, SetDisplayProgress and SetCancel: the old hook goes first.
SetHook(s, h, fn) ==
    /\ Unlocked /\ open[s] = "open"
    /\ h = "cancel" => supported
    /\ LET old == Delete(table[TableOf(h)], {state[s][h]})
           id == IF fn = NoFn THEN 0 ELSE nextId
       IN  /\ fn = NoFn \/ nextId \in Ids
           /\ nextId' = IF fn = NoFn THEN nextId ELSE nextId + 1
           /\ table' = [table EXCEPT ![TableOf(h)] = IF fn = NoFn THEN old ELSE With(old, id, fn)]
           /\ state' = [state EXCEPT ![s][h] = id]
           /\ native' = [native EXCEPT ![s][h] = id]
    /\ wanted' = [wanted EXCEPT ![s][h] = fn]
    /\ UNCHANGED <<supported, open, call, abort>>

\* SyncTokensWithCancel: a hook of this call stands in for the persistent one.
SyncStarts(s, fn) ==
    /\ Unlocked /\ open[s] = "open"
    /\ fn # NoFn => supported /\ nextId \in Ids
    /\ IF fn = NoFn
       THEN /\ call' = [NoCall EXCEPT !.op = "sync", !.s = s, !.fn = wanted[s]["cancel"]]
            /\ UNCHANGED <<nextId, table, native>>
       ELSE /\ nextId' = nextId + 1
            /\ table' = [table EXCEPT !["cancel"] = With(@, nextId, fn)]
            /\ native' = [native EXCEPT ![s]["cancel"] = nextId]
            /\ call' = [op |-> "sync", s |-> s, fn |-> fn, ids |-> [cancel |-> nextId]]
    /\ UNCHANGED <<supported, open, state, wanted, abort>>

\* So do images: SyncMultimodalWithCancel, "as SyncTokensWithCancel does".
Sync(s) == \E fn \in Fns \cup {NoFn} : SyncStarts(s, fn)

\* A variant of SyncReturns: the hook is taken out, whatever was there before.
SyncReturnsClearing ==
    /\ call.op = "sync"
    /\ call' = NoCall
    /\ IF call.ids = NoIds
       THEN UNCHANGED <<table, native>>
       ELSE /\ native' = [native EXCEPT ![call.s]["cancel"] = 0]
            /\ table' = [table EXCEPT !["cancel"] = Delete(@, {call.ids["cancel"]})]
    /\ UNCHANGED <<supported, nextId, open, state, wanted, abort>>

\* However it returns, the persistent hook is back.
SyncReturns ==
    /\ call.op = "sync"
    /\ call' = NoCall
    /\ IF call.ids = NoIds
       THEN UNCHANGED <<table, native>>
       ELSE /\ native' = [native EXCEPT ![call.s]["cancel"] = state[call.s]["cancel"]]
            /\ table' = [table EXCEPT !["cancel"] = Delete(@, {call.ids["cancel"]})]
    /\ UNCHANGED <<supported, nextId, open, state, wanted, abort>>

\* What Close and the cleanup of a forgotten session do.
Released(s) ==
    /\ open' = [open EXCEPT ![s] = "closed"]
    /\ native' = [native EXCEPT ![s] = NoHooks(0)]
    /\ wanted' = [wanted EXCEPT ![s] = NoHooks(NoFn)]
    /\ table' = [t \in Tables |-> Delete(table[t], {state[s][h] : h \in Hooks})]
    /\ state' = [state EXCEPT ![s] = NoHooks(0)]
    /\ UNCHANGED <<supported, nextId, call, abort>>

Close(s) == Unlocked /\ open[s] = "open" /\ Released(s)

Drop(s) ==
    /\ Unlocked /\ open[s] = "open"
    /\ open' = [open EXCEPT ![s] = "dropped"]
    /\ UNCHANGED <<supported, nextId, table, state, native, wanted, call, abort>>

CleanSession(s) == Unlocked /\ open[s] = "dropped" /\ Released(s)

-----------------------------------------------------------------------------
(* GenerateArgmax: three registrations for one call, two of them optional *)

Some(fns) == {t \in DOMAIN fns : fns[t] # NoFn}

ArgmaxStarts(fns) ==
    /\ Unlocked /\ nextId + Cardinality(Some(fns)) - 1 \in Ids
    /\ nextId' = nextId + Cardinality(Some(fns))
    /\ \E ids \in [Some(fns) -> nextId..(nextId + Cardinality(Some(fns)) - 1)] :
          /\ IsInjective(ids)
          /\ table' = [t \in Tables |-> IF t \in Some(fns) THEN With(table[t], ids[t], fns[t])
                                                           ELSE table[t]]
          /\ call' = [op |-> "argmax", s |-> 0, fn |-> fns, ids |-> ids]
    /\ UNCHANGED <<supported, open, state, native, wanted, abort>>

\* What libds4 was given of them: one user data for tokens and for done.
IdGiven(t) == IF t = "done" THEN call.ids["token"] ELSE call.ids[t]

ArgmaxReturns ==
    /\ call.op = "argmax"
    /\ table' = [t \in Tables |-> IF t \in DOMAIN call.ids THEN Delete(table[t], {call.ids[t]})
                                                            ELSE table[t]]
    /\ call' = NoCall
    /\ UNCHANGED <<supported, nextId, open, state, native, wanted, abort>>

-----------------------------------------------------------------------------
(* SetAbortFunc *)

AbortRegister(fn) ==
    /\ abort.pos = "idle"
    /\ fn # NoFn => nextId \in Ids
    /\ abort' = [abort EXCEPT !.pos = "set", !.new = IF fn = NoFn THEN 0 ELSE nextId, !.fn = fn]
    /\ IF fn = NoFn THEN UNCHANGED <<nextId, table>>
       ELSE nextId' = nextId + 1 /\ table' = [table EXCEPT !["abort"] = With(@, nextId, fn)]
    /\ UNCHANGED <<supported, open, state, native, wanted, call>>

AbortSet ==
    /\ abort.pos = "set" /\ Unlocked
    /\ abort' = [abort EXCEPT !.pos = "swap", !.native = abort.new]
    /\ UNCHANGED <<supported, nextId, table, open, state, native, wanted, call>>

\* The ids are swapped under abortMu, and the old one is unregistered.
AbortSwap ==
    /\ abort.pos = "swap"
    /\ table' = [table EXCEPT !["abort"] = Delete(@, {abort.id})]
    /\ abort' = [abort EXCEPT !.pos = "idle", !.id = abort.new, !.new = 0]
    /\ UNCHANGED <<supported, nextId, open, state, native, wanted, call>>

-----------------------------------------------------------------------------
HookNext ==
    \/ \E s \in Sessions :
          \/ NewSession(s) \/ Close(s) \/ Drop(s) \/ CleanSession(s) \/ Sync(s)
          \/ \E h \in Hooks, fn \in Fns \cup {NoFn} : SetHook(s, h, fn)
    \/ SyncReturns \/ ArgmaxReturns \/ AbortSet \/ AbortSwap
    \/ \E fn \in Fns, done, progress \in {NoFn} \cup Fns :
          ArgmaxStarts([t \in {"token", "done", "progress"} |->
              CASE t = "token" -> fn [] t = "done" -> done [] OTHER -> progress])
    \/ \E fn \in Fns \cup {NoFn} : AbortRegister(fn)

HookSpec == HookInit /\ [][HookNext]_hookVars

-----------------------------------------------------------------------------
(* Properties *)

\* What libds4 calls with an id: nothing without one, or one that is not there.
Calls(t, id) == IF id \in DOMAIN table[t] THEN table[t][id] ELSE NoFn

\* During a call libds4 reaches the functions of this call (but for OnDone: see
\* DoneReached), and the persistent one otherwise: "Any persistent SetCancel
\* callback is restored".
HooksReach ==
    /\ \A s \in Sessions, h \in Hooks :
          Calls(TableOf(h), native[s][h]) =
              IF h = "cancel" /\ call.op = "sync" /\ call.s = s THEN call.fn ELSE wanted[s][h]
    /\ call.op = "argmax" =>
          \A t \in DOMAIN call.ids \ {"done"} : Calls(t, IdGiven(t)) = call.fn[t]
    /\ abort.native # 0 => Calls("abort", abort.native) # NoFn
    /\ abort.pos = "idle" => Calls("abort", abort.native) = abort.fn

\* "OnDone is called by ds4 when generation is complete" (types.go:334).  It is
\* looked up with the id of OnToken, and so it never is.
DoneReached ==
    call.op = "argmax" /\ "done" \in DOMAIN call.ids =>
        Calls("done", IdGiven("done")) = call.fn["done"]

\* Nothing is registered that no one can reach: the tables hold what they refer
\* to alive, for the life of the process.
Registered(t) ==
    {state[s][h] : s \in Sessions, h \in {x \in Hooks : TableOf(x) = t}}
    \cup (IF t \in DOMAIN call.ids THEN {call.ids[t]} ELSE {})
    \cup (IF t = "abort" THEN {abort.id, abort.new} ELSE {})
NothingLeaks == \A t \in Tables : DOMAIN table[t] \subseteq Registered(t)

\* Both, of every state: a hook is called until it is replaced and released when
\* it is (session.go:76-84, 161-230, 267-290; engine.go:401-421, 514-547).
HooksAccounted == HooksReach /\ NothingLeaks
=============================================================================
