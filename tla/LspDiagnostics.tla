--------------------------- MODULE LspDiagnostics ---------------------------
(***************************************************************************)
(* The language-server client of lsp: the version of a document            *)
(* (document.go), its buffered diagnostics and the wait for them           *)
(* (diagnostics.go), and the client calls that change both (client.go).    *)
(*                                                                         *)
(* The bookkeeping is per document, so there is one.  A text stands for    *)
(* its diagnostics: buf.text is the text the buffered diagnostics are of.  *)
(* Pipes to and from the server keep their order.  The clock is a choice:  *)
(* a deadline may have passed in any iteration of the wait loop.           *)
(***************************************************************************)
EXTENDS Integers, Sequences

CONSTANTS Callers,        \* goroutines that use the Client
          Editors,        \* those that open, update and close the document
          Versioned,      \* TRUE: the server reports document versions
          MaxTexts,       \* bound: texts sent, by Open or Update
          MaxOpens,       \* bound: calls of Open
          MaxPublishes    \* bound: publications per change of the document

ASSUME LspAssumption ==
    /\ Editors \subseteq Callers
    /\ Versioned \in BOOLEAN
    /\ {MaxTexts, MaxOpens, MaxPublishes} \subseteq Nat

VARIABLES version,    \* docStore.versions of the document; 0: not open
          current,    \* the text of that version
          texts,      \* number of texts so far; text k is the k-th
          opens,      \* calls of Open so far
          buf,        \* diagBuffer.byKey of the document
          job,        \* what each caller is doing
          toServer,   \* notifications on their way to the server
          server,     \* the document at the server, and what it will publish
          toClient,   \* publications on their way to the client
          alive       \* the server runs

vars == <<version, current, texts, opens, buf, job, toServer, server, toClient, alive>>

NoText == 0
Texts == 0 .. MaxTexts
Versions == 0 .. MaxTexts
NoEntry == [version |-> 0, text |-> NoText, seq |-> 0]
Idle == [op |-> "idle"]
NoDocument == [version |-> 0, text |-> NoText, owed |-> 0]

Notifications == [op : {"notify"}, kind : {"open", "change", "close"},
                  version : Versions, text : Texts]
Jobs ==
    [op : {"idle", "opening", "closed"}]
        \cup [op : {"updated"}, version : Versions, text : Texts]
        \cup Notifications
        \cup [op : {"asked"}, want : Versions, text : Texts]
        \cup [op : {"waiting"}, want : Versions, text : Texts, start : Nat, last : Nat,
              settling : BOOLEAN, seen : BOOLEAN]

TypeOK ==
    /\ version \in Versions
    /\ current \in Texts
    /\ texts \in Texts
    /\ opens \in 0 .. MaxOpens
    /\ buf \in [version : Versions, text : Texts, seq : Nat]
    /\ job \in [Callers -> Jobs]
    /\ toServer \in Seq(Notifications)
    /\ server \in [version : Versions, text : Texts, owed : 0 .. MaxPublishes]
    /\ toClient \in Seq([version : Versions, text : Texts])
    /\ alive \in BOOLEAN
    \* a document has a text exactly while it is open, and every text was sent
    /\ version = 0 <=> current = NoText
    /\ \A t \in {current, buf.text, server.text} : t <= texts

Init ==
    /\ version = 0 /\ current = NoText /\ texts = 0 /\ opens = 0
    /\ buf = NoEntry
    /\ job = [c \in Callers |-> Idle]
    /\ toServer = <<>> /\ server = NoDocument /\ toClient = <<>>
    /\ alive = TRUE

-----------------------------------------------------------------------------
(* Open, Update and Close.  Each is a few steps, in the order of the code. *)

Documents == <<version, current, texts, opens>>
Outside == <<toServer, server, toClient, alive>>

Goes(c, j) == job' = [job EXCEPT ![c] = j]

\* The last step of each: send the notification, or fail because the server
\* has died since the call looked.
Notification(kind, v, t) == [op |-> "notify", kind |-> kind, version |-> v, text |-> t]

Notify(c) ==
    /\ job[c].op = "notify"
    /\ toServer' = IF alive THEN Append(toServer, job[c]) ELSE toServer
    /\ Goes(c, Idle)
    /\ UNCHANGED <<Documents, buf, server, toClient, alive>>

\* Open: IsRunning, then diagBuffer.forget.
OpenForgets(c) ==
    /\ job[c] = Idle
    /\ alive
    /\ opens < MaxOpens /\ texts < MaxTexts
    /\ opens' = opens + 1
    /\ buf' = NoEntry
    /\ Goes(c, [op |-> "opening"])
    /\ UNCHANGED <<version, current, texts, Outside>>

\* docStore.open: version 1, also of a document that is open.
OpenRecords(c) ==
    /\ job[c].op = "opening"
    /\ texts < MaxTexts
    /\ texts' = texts + 1
    /\ version' = 1
    /\ current' = texts'
    /\ Goes(c, Notification("open", 1, texts'))
    /\ UNCHANGED <<opens, buf, Outside>>

\* Update: IsRunning, then docStore.update; version 0 is an error.
UpdateRecords(c) ==
    /\ job[c] = Idle
    /\ alive
    /\ version # 0
    /\ texts < MaxTexts
    /\ texts' = texts + 1
    /\ version' = version + 1
    /\ current' = texts'
    /\ Goes(c, [op |-> "updated", version |-> version', text |-> texts'])
    /\ UNCHANGED <<opens, buf, Outside>>

UpdateForgets(c) ==
    /\ job[c].op = "updated"
    /\ buf' = NoEntry
    /\ Goes(c, Notification("change", job[c].version, job[c].text))
    /\ UNCHANGED <<Documents, Outside>>

\* Close: docStore.close, also of a document that is not open.  Bound: such a
\* Close comes only when the server has read everything.
CloseRecords(c) ==
    /\ job[c] = Idle
    /\ version # 0 \/ toServer = <<>>
    /\ version' = 0
    /\ current' = NoText
    /\ Goes(c, [op |-> "closed"])
    /\ UNCHANGED <<texts, opens, buf, Outside>>

\* forget, then IsRunning: a dead server is not told.
CloseForgets(c) ==
    /\ job[c].op = "closed"
    /\ buf' = NoEntry
    /\ Goes(c, IF alive THEN Notification("close", 0, NoText) ELSE Idle)
    /\ UNCHANGED <<Documents, Outside>>

-----------------------------------------------------------------------------
(* publish *)

\* Seeded fault: the first snapshot since the last forget is kept.
PublishKeepsFirst ==
    /\ toClient # <<>>
    /\ LET p == Head(toClient)
       IN  buf' = IF buf.seq = 0
                  THEN [version |-> p.version, text |-> p.text, seq |-> 1]
                  ELSE [buf EXCEPT !.seq = @ + 1]
    /\ toClient' = Tail(toClient)
    /\ job' = [c \in Callers |->
                 IF job[c].op = "waiting" THEN [job[c] EXCEPT !.seen = TRUE] ELSE job[c]]
    /\ UNCHANGED <<Documents, toServer, server, alive>>

\* The notification handler records a publication.
Publish ==
    /\ toClient # <<>>
    /\ LET p == Head(toClient)
       IN  buf' = [version |-> p.version, text |-> p.text, seq |-> buf.seq + 1]
    /\ toClient' = Tail(toClient)
    /\ job' = [c \in Callers |->
                 IF job[c].op = "waiting" THEN [job[c] EXCEPT !.seen = TRUE] ELSE job[c]]
    /\ UNCHANGED <<Documents, toServer, server, alive>>

-----------------------------------------------------------------------------
(* WaitForDiagnostics *)

\* IsRunning and docStore.version.
Ask(c) ==
    /\ job[c] = Idle
    /\ alive
    /\ version # 0
    /\ Goes(c, [op |-> "asked", want |-> version, text |-> current])
    /\ UNCHANGED <<Documents, buf, Outside>>

\* Seeded fault: the wait counts publications from zero.
WaitStartsAtZero(c) ==
    /\ job[c].op = "asked"
    /\ Goes(c, [op |-> "waiting", want |-> job[c].want, text |-> job[c].text,
                start |-> 0, last |-> 0, settling |-> FALSE, seen |-> FALSE])
    /\ UNCHANGED <<Documents, buf, Outside>>

\* diagBuffer.wait reads the publish counter it starts from.  "seen" records
\* whether the document has been published since.
WaitStarts(c) ==
    /\ job[c].op = "asked"
    /\ Goes(c, [op |-> "waiting", want |-> job[c].want, text |-> job[c].text,
                start |-> buf.seq, last |-> buf.seq, settling |-> FALSE, seen |-> FALSE])
    /\ UNCHANGED <<Documents, buf, Outside>>

Matched(c) == buf.version # 0 /\ buf.version = job[c].want
Published(c) == buf.seq # job[c].start

WaitReturns(c) == Goes(c, Idle) /\ UNCHANGED <<Documents, buf, Outside>>

\* Seeded fault: any version the server reports is taken as definitive.
MatchesAny(c) ==
    /\ job[c].op = "waiting"
    /\ buf.version # 0
    /\ WaitReturns(c)

\* An iteration of the loop returns: diagnostics of the version asked about.
Matches(c) ==
    /\ job[c].op = "waiting"
    /\ Matched(c)
    /\ WaitReturns(c)

\* Nothing was published until firstDeadline: return what there is.
Silent(c) ==
    /\ job[c].op = "waiting"
    /\ ~Matched(c) /\ ~Published(c)
    /\ WaitReturns(c)

\* Unversioned publications, none since the last iteration until
\* settleDeadline: return what there is.
Settled(c) ==
    /\ job[c].op = "waiting"
    /\ ~Matched(c) /\ Published(c) /\ buf.version = 0
    /\ job[c].settling /\ buf.seq = job[c].last
    /\ WaitReturns(c)

\* The deadline has passed or the context is done: ErrDiagnosticsTimeout.
TimesOut(c) ==
    /\ job[c].op = "waiting"
    /\ ~Matched(c)
    /\ WaitReturns(c)

\* No return: the loop sleeps and looks again.
LooksAgain(c) ==
    /\ job[c].op = "waiting"
    /\ ~Matched(c)
    /\ Goes(c, [job[c] EXCEPT
          !.last = buf.seq,
          !.settling = IF Published(c) THEN buf.version = 0 ELSE @])
    /\ UNCHANGED <<Documents, buf, Outside>>

-----------------------------------------------------------------------------
(* The server, an external program *)

\* It reads a notification; it will publish diagnostics of a changed document.
ServerReads ==
    /\ alive
    /\ toServer # <<>>
    /\ LET n == Head(toServer)
       IN  server' = IF n.kind = "close" THEN NoDocument
                     ELSE [version |-> n.version, text |-> n.text, owed |-> MaxPublishes]
    /\ toServer' = Tail(toServer)
    /\ UNCHANGED <<Documents, buf, job, toClient, alive>>

\* It publishes what it finds, at least once per change it settles on.
ServerPublishes ==
    /\ alive
    /\ server.owed > 0
    /\ \E more \in 0 .. server.owed - 1 : server' = [server EXCEPT !.owed = more]
    /\ toClient' = Append(toClient,
          [version |-> IF Versioned THEN server.version ELSE 0, text |-> server.text])
    /\ UNCHANGED <<Documents, buf, job, toServer, alive>>

\* It dies, or is shut down.
ServerStops ==
    /\ alive
    /\ alive' = FALSE
    /\ UNCHANGED <<Documents, buf, job, toServer, server, toClient>>

-----------------------------------------------------------------------------
Edit(c) ==
    \/ OpenForgets(c) \/ UpdateRecords(c) \/ CloseRecords(c)

\* The rest of a call that has started.
Continue(c) ==
    \/ OpenRecords(c) \/ UpdateForgets(c) \/ CloseForgets(c) \/ Notify(c)
    \/ WaitStarts(c)

Poll(c) == Matches(c) \/ Silent(c) \/ Settled(c) \/ TimesOut(c) \/ LooksAgain(c)

Next ==
    \/ \E c \in Editors : Edit(c)
    \/ \E c \in Callers : Ask(c) \/ Continue(c) \/ Poll(c)
    \/ Publish \/ ServerReads \/ ServerPublishes \/ ServerStops

Spec == Init /\ [][Next]_vars

\* A call goes on, the handler takes what has arrived, and the server reads
\* and publishes.
FairSpec ==
    /\ Spec
    /\ \A c \in Callers : WF_vars(Continue(c))
    /\ WF_vars(Publish) /\ WF_vars(ServerReads) /\ WF_vars(ServerPublishes)

-----------------------------------------------------------------------------
(* Properties *)

\* A wait that returns because the server reported the very version it asked
\* about returns diagnostics of the text of that version (wait: "Definitive").
\* With one Open this holds however the callers interleave.
MatchIsOfTheText ==
    [][\A c \in Callers : Matches(c) => buf.text = job[c].text]_vars

\* A wait that returns because publications have settled saw one: "until
\* publishes for uri settle" (wait).  True when the one caller does one thing
\* at a time.
SettledWasPublished ==
    [][\A c \in Callers : Settled(c) => job[c].seen]_vars

\* The server sees the versions of an open document ascend, as they were given
\* out: the Client "is safe for concurrent use" (client.go).
VersionsAscend ==
    [][(ServerReads /\ Head(toServer).kind = "change" /\ server.version # 0) =>
          Head(toServer).version > server.version]_vars

\* When the edits of one editor end, the buffer of an open document ends with
\* the diagnostics of its current text, as long as the server runs.
BufferConverges ==
    <>[](alive /\ version # 0 => buf.text = current)
=============================================================================
