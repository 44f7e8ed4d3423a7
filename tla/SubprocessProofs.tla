-------------------------- MODULE SubprocessProofs --------------------------
(***************************************************************************)
(* Proofs about the processes that the tools start: the language server,   *)
(* for any callers and any bounds, and shells, for any agents and jobs.    *)
(***************************************************************************)
EXTENDS LspDiagnostics, ShellJobs, SequenceTheorems, TLAPS

-----------------------------------------------------------------------------
(* The language server *)

\* The jobs of a caller that carry a text.
Carries == {"updated", "notify", "asked", "waiting"}

\* Every text on its way somewhere was sent, and versions never outrun texts.
TextsSent ==
    /\ version <= texts
    /\ \A c \in Callers : job[c].op \in Carries => job[c].text <= texts
    /\ \A i \in 1 .. Len(toServer) : toServer[i].text <= texts
    /\ \A i \in 1 .. Len(toClient) : toClient[i].text <= texts

\* The version a job carries or asks about.
VersionIn(j) == IF j.op \in {"updated", "notify"} THEN j.version ELSE j.want

\* While the document is opened once, the k-th text is version k, wherever the
\* two travel together; an unversioned publication has version 0.
OneOpen ==
    /\ opens = 0 => texts = 0
    /\ \A c, d \in Callers : job[c].op = "opening" /\ job[d].op = "opening" => c = d
    /\ \A c \in Callers : job[c].op = "opening" => opens # 0 /\ texts = 0
    /\ version # 0 => version = texts /\ current = texts
    /\ \A c \in Callers : job[c].op \in Carries => VersionIn(job[c]) = job[c].text
    /\ \A i \in 1 .. Len(toServer) : toServer[i].version = toServer[i].text
    /\ server.version = server.text
    /\ \A i \in 1 .. Len(toClient) : toClient[i].version \in {0, toClient[i].text}
    /\ buf.version \in {0, buf.text}

\* The inductive invariant.
IInv == TypeOK /\ TextsSent /\ (MaxOpens <= 1 => OneOpen)

USE LspAssumption

-----------------------------------------------------------------------------
(* Helpers *)

\* A caller that goes on to another job: its job is that, the others keep theirs.
LEMMA GoesTo ==
    ASSUME TypeOK, NEW c \in Callers, NEW j \in Jobs, Goes(c, j)
    PROVE  /\ job' \in [Callers -> Jobs]
           /\ job'[c] = j
           /\ \A d \in Callers \ {c} : job'[d] = job[d]
BY DEF TypeOK, Goes

\* Texts and versions are numbers, wherever they are.
LEMMA TextsNat ==
    ASSUME TypeOK
    PROVE  /\ version \in Nat /\ texts \in Nat
           /\ \A c \in Callers : job[c].op \in Carries => job[c].text \in Nat
           /\ \A i \in 1 .. Len(toServer) : toServer[i].text \in Nat
           /\ \A i \in 1 .. Len(toClient) : toClient[i].text \in Nat
<1>1. version \in Nat /\ texts \in Nat
    BY DEF TypeOK, Versions, Texts
<1>2. ASSUME NEW c \in Callers, job[c].op \in Carries PROVE job[c].text \in Nat
  <2>1. job[c] \in Jobs
    BY DEF TypeOK
  <2>2. job[c].op \notin {"idle", "opening", "closed"}
    BY <1>2 DEF Carries
  <2>3. job[c].text \in Texts
    BY <2>1, <2>2 DEF Jobs, Notifications
  <2> QED BY <2>3 DEF Texts
<1>3. \A i \in 1 .. Len(toServer) : toServer[i] \in Notifications
    BY ElementOfSeq DEF TypeOK
<1>4. \A i \in 1 .. Len(toClient) : toClient[i] \in [version : Versions, text : Texts]
    BY ElementOfSeq DEF TypeOK
<1> QED
    BY <1>1, <1>2, <1>3, <1>4 DEF Notifications, Texts

\* One more text is sent: the texts on their way stay sent.
LEMMA OneMoreText ==
    ASSUME TypeOK, TextsSent, NEW c \in Callers, NEW j \in Jobs,
           texts' = texts + 1, version' <= texts',
           \A d \in Callers \ {c} : job'[d] = job[d],
           job'[c] = j, j.op \in Carries => j.text <= texts',
           UNCHANGED <<toServer, toClient>>
    PROVE  TextsSent'
<1>1. \A d \in Callers : job'[d].op \in Carries => job'[d].text <= texts'
  <2> TAKE d \in Callers
  <2>1. CASE d = c
    BY <2>1
  <2>2. CASE d # c
    BY <2>2, TextsNat DEF TextsSent
  <2> QED BY <2>1, <2>2
<1> QED
    BY <1>1, TextsNat DEF TextsSent

LEMMA InitIInv == Init => IInv
<1> SUFFICES ASSUME Init PROVE IInv
    OBVIOUS
<1> USE DEF Init, NoText, NoEntry, NoDocument, Idle
<1>1. \A c \in Callers : job[c] = [op |-> "idle"]
    OBVIOUS
<1>2. job \in [Callers -> Jobs]
    BY DEF Jobs
<1>3. TypeOK
    BY <1>2, EmptySeq DEF TypeOK, Versions, Texts
<1>4. TextsSent
    BY <1>1, EmptySeq DEF TextsSent, Carries
<1>5. OneOpen
    BY <1>1, EmptySeq DEF OneOpen, Carries
<1> QED
    BY <1>3, <1>4, <1>5 DEF IInv

-----------------------------------------------------------------------------
(* Every action preserves the invariant.  The job a caller goes on to is     *)
(* typed first; the rest looks at what it carries.                           *)

LEMMA NotifyIInv == ASSUME IInv, NEW c \in Callers, Notify(c) PROVE IInv'
<1> USE DEF IInv
<1>1. Idle \in Jobs /\ Idle.op = "idle"
    BY DEF Idle, Jobs
<1>2. /\ job' \in [Callers -> Jobs] /\ job'[c] = Idle
      /\ \A d \in Callers \ {c} : job'[d] = job[d]
    BY <1>1, GoesTo DEF Notify
<1>3. job[c] \in Notifications
    BY DEF TypeOK, Notify, Jobs, Notifications
<1>4. toServer' \in Seq(Notifications)
      /\ \A i \in 1 .. Len(toServer') :
            \/ i \in 1 .. Len(toServer) /\ toServer'[i] = toServer[i]
            \/ toServer'[i] = job[c]
    BY <1>3 DEF TypeOK, Notify
<1>5. TypeOK'
    BY <1>2, <1>4 DEF TypeOK, Notify, Documents
<1>6. TextsSent'
    BY <1>1, <1>2, <1>4 DEF TextsSent, Notify, Documents, Carries
<1>7. ASSUME OneOpen PROVE OneOpen'
    BY <1>1, <1>2, <1>4, <1>7 DEF OneOpen, Notify, Documents, Carries, VersionIn
<1> QED
    BY <1>5, <1>6, <1>7

LEMMA OpenForgetsIInv == ASSUME IInv, NEW c \in Callers, OpenForgets(c) PROVE IInv'
<1> USE DEF IInv
<1> DEFINE j == [op |-> "opening"]
<1>1. j \in Jobs /\ j.op = "opening"
    BY DEF Jobs
<1>2. /\ job' \in [Callers -> Jobs] /\ job'[c] = j
      /\ \A d \in Callers \ {c} : job'[d] = job[d]
    BY <1>1, GoesTo DEF OpenForgets
<1> HIDE DEF j
<1>3. NoEntry \in [version : Versions, text : Texts, seq : Nat]
      /\ NoEntry.version = 0 /\ NoEntry.text = 0
    BY DEF NoEntry, NoText, Versions, Texts
<1>4. opens' \in 0 .. MaxOpens
    BY DEF TypeOK, OpenForgets
<1>5. TypeOK'
    BY <1>2, <1>3, <1>4 DEF TypeOK, OpenForgets, Outside, Texts
<1>6. TextsSent'
    BY <1>1, <1>2 DEF TextsSent, OpenForgets, Outside, Carries
<1>7. ASSUME MaxOpens <= 1, OneOpen PROVE OneOpen'
  <2>1. opens = 0 /\ opens' = 1 /\ texts = 0
    BY <1>7 DEF TypeOK, OneOpen, OpenForgets
  <2>2. \A d \in Callers : job[d].op # "opening"
    BY <1>7, <2>1 DEF OneOpen
  <2> QED
    BY <1>1, <1>2, <1>3, <1>7, <2>1, <2>2 DEF OneOpen, OpenForgets, Outside, Carries, VersionIn
<1> QED
    BY <1>5, <1>6, <1>7

LEMMA OpenRecordsIInv == ASSUME IInv, NEW c \in Callers, OpenRecords(c) PROVE IInv'
<1> USE DEF IInv
<1> DEFINE j == Notification("open", 1, texts')
<1>1. texts' = texts + 1 /\ texts' \in 1 .. MaxTexts
    BY DEF TypeOK, Texts, OpenRecords
<1>2. /\ j \in Jobs /\ j.op = "notify"
      /\ j.version = 1 /\ j.text = texts'
    BY <1>1 DEF Jobs, Notifications, Notification, Versions, Texts
<1>3. /\ job' \in [Callers -> Jobs] /\ job'[c] = j
      /\ \A d \in Callers \ {c} : job'[d] = job[d]
    BY <1>2, GoesTo DEF OpenRecords
<1> HIDE DEF j
<1>4. TypeOK'
    BY SMTT(30), <1>1, <1>3 DEF TypeOK, OpenRecords, Outside, Texts, Versions, NoText
<1>5. TextsSent'
    BY <1>1, <1>2, <1>3, OneMoreText DEF OpenRecords, Outside
<1>6. ASSUME OneOpen PROVE OneOpen'
    BY <1>1, <1>2, <1>3, <1>6 DEF OneOpen, OpenRecords, Outside, Carries, VersionIn
<1> QED
    BY <1>4, <1>5, <1>6

LEMMA UpdateRecordsIInv == ASSUME IInv, NEW c \in Callers, UpdateRecords(c) PROVE IInv'
<1> USE DEF IInv
<1> DEFINE j == [op |-> "updated", version |-> version', text |-> texts']
<1>1. /\ texts' = texts + 1 /\ texts' \in 1 .. MaxTexts
      /\ version' = version + 1 /\ version' \in 1 .. MaxTexts /\ version' <= texts'
    BY SMTT(30) DEF TypeOK, TextsSent, Texts, Versions, UpdateRecords
<1>2. j \in Jobs /\ j.op = "updated" /\ j.version = version' /\ j.text = texts'
    BY <1>1 DEF Jobs, Versions, Texts
<1>3. /\ job' \in [Callers -> Jobs] /\ job'[c] = j
      /\ \A d \in Callers \ {c} : job'[d] = job[d]
    BY <1>2, GoesTo DEF UpdateRecords
<1> HIDE DEF j
<1>4. TypeOK'
    BY SMTT(30), <1>1, <1>3 DEF TypeOK, UpdateRecords, Outside, Texts, Versions, NoText
<1>5. TextsSent'
    BY <1>1, <1>2, <1>3, OneMoreText DEF UpdateRecords, Outside
<1>6. ASSUME OneOpen PROVE OneOpen'
  <2>1. version # 0 /\ version = texts /\ texts # 0 /\ texts \in Nat
    BY <1>6, TextsNat DEF OneOpen, UpdateRecords
  <2> QED
    BY SMTT(20), <1>1, <1>2, <1>3, <1>6, <2>1 DEF OneOpen, UpdateRecords, Outside, Carries, VersionIn
<1> QED
    BY <1>4, <1>5, <1>6

LEMMA CloseRecordsIInv == ASSUME IInv, NEW c \in Callers, CloseRecords(c) PROVE IInv'
<1> USE DEF IInv
<1> DEFINE j == [op |-> "closed"]
<1>1. j \in Jobs /\ j.op = "closed"
    BY DEF Jobs
<1>2. /\ job' \in [Callers -> Jobs] /\ job'[c] = j
      /\ \A d \in Callers \ {c} : job'[d] = job[d]
    BY <1>1, GoesTo DEF CloseRecords
<1> HIDE DEF j
<1>3. TypeOK'
    BY <1>2 DEF TypeOK, CloseRecords, Outside, Texts, Versions, NoText
<1>4. TextsSent'
    BY <1>1, <1>2, TextsNat DEF TextsSent, CloseRecords, Outside, Carries
<1>5. ASSUME OneOpen PROVE OneOpen'
    BY <1>1, <1>2, <1>5 DEF OneOpen, CloseRecords, Outside, Carries, VersionIn
<1> QED
    BY <1>3, <1>4, <1>5

\* A step that changes the job of a caller and may forget the buffer.
LEMMA JobIInv ==
    ASSUME IInv, NEW c \in Callers, NEW j \in Jobs, Goes(c, j),
           UNCHANGED <<Documents, Outside>>, buf' \in {buf, NoEntry},
           j.op # "opening",
           j.op \in Carries => j.text <= texts,
           MaxOpens <= 1 /\ OneOpen /\ j.op \in Carries => VersionIn(j) = j.text
    PROVE  IInv'
<1> USE DEF IInv
<1>1. /\ job' \in [Callers -> Jobs] /\ job'[c] = j
      /\ \A d \in Callers \ {c} : job'[d] = job[d]
    BY GoesTo
<1>2. NoEntry \in [version : Versions, text : Texts, seq : Nat]
      /\ NoEntry.version = 0 /\ NoEntry.text = 0
    BY DEF NoEntry, NoText, Versions, Texts
<1>3. texts \in Nat
    BY TextsNat
<1>4. TypeOK'
    BY <1>1, <1>2, <1>3 DEF TypeOK, Documents, Outside
<1>5. TextsSent'
    BY <1>1 DEF TextsSent, Documents, Outside
<1>6. ASSUME MaxOpens <= 1, OneOpen PROVE OneOpen'
  <2>1. \A d \in Callers : job'[d].op = "opening" => job'[d] = job[d] /\ d # c
    BY <1>1
  <2>2. \A d \in Callers : job'[d].op \in Carries => VersionIn(job'[d]) = job'[d].text
    BY <1>1, <1>6 DEF OneOpen
  <2> QED
    BY <1>2, <1>6, <2>1, <2>2 DEF OneOpen, Documents, Outside
<1> QED
    BY <1>4, <1>5, <1>6

LEMMA UpdateForgetsIInv == ASSUME IInv, NEW c \in Callers, UpdateForgets(c) PROVE IInv'
<1> DEFINE j == Notification("change", job[c].version, job[c].text)
<1>1. job[c].op = "updated" /\ job[c].version \in Versions /\ job[c].text \in Texts
    BY DEF IInv, TypeOK, UpdateForgets, Jobs, Notifications
<1>2. j \in Jobs /\ j.op = "notify" /\ j.version = job[c].version /\ j.text = job[c].text
    BY <1>1 DEF Jobs, Notifications, Notification
<1>3. j.text <= texts /\ (OneOpen => VersionIn(j) = j.text)
    BY <1>1, <1>2 DEF IInv, TextsSent, OneOpen, Carries, VersionIn
<1> HIDE DEF j
<1>4. Goes(c, j) /\ buf' = NoEntry /\ UNCHANGED <<Documents, Outside>>
    BY DEF UpdateForgets, j
<1> QED
    BY <1>2, <1>3, <1>4, JobIInv

LEMMA CloseForgetsIInv == ASSUME IInv, NEW c \in Callers, CloseForgets(c) PROVE IInv'
<1> DEFINE j == IF alive THEN Notification("close", 0, NoText) ELSE Idle
<1>1. /\ j \in Jobs /\ j.op \in {"notify", "idle"}
      /\ j.op = "notify" => j.version = 0 /\ j.text = 0
    BY DEF Jobs, Notifications, Notification, Idle, NoText, Versions, Texts
<1>2. j.op \in Carries => j.text <= texts /\ VersionIn(j) = j.text
    BY <1>1, TextsNat DEF IInv, Carries, VersionIn
<1> HIDE DEF j
<1>3. Goes(c, j) /\ buf' = NoEntry /\ UNCHANGED <<Documents, Outside>>
    BY DEF CloseForgets, j
<1> QED
    BY <1>1, <1>2, <1>3, JobIInv

LEMMA AskIInv == ASSUME IInv, NEW c \in Callers, Ask(c) PROVE IInv'
<1> DEFINE j == [op |-> "asked", want |-> version, text |-> current]
<1>1. j \in Jobs /\ j.op = "asked" /\ j.want = version /\ j.text = current
    BY DEF IInv, TypeOK, Jobs
<1>2. j.text <= texts /\ (OneOpen => VersionIn(j) = j.text)
    BY <1>1 DEF IInv, TypeOK, OneOpen, VersionIn, Ask
<1> HIDE DEF j
<1>3. Goes(c, j) /\ UNCHANGED <<Documents, buf, Outside>>
    BY DEF Ask, j
<1> QED
    BY <1>1, <1>2, <1>3, JobIInv

LEMMA WaitStartsIInv == ASSUME IInv, NEW c \in Callers, WaitStarts(c) PROVE IInv'
<1> DEFINE j == [op |-> "waiting", want |-> job[c].want, text |-> job[c].text,
                 start |-> buf.seq, last |-> buf.seq, settling |-> FALSE, seen |-> FALSE]
<1>1. job[c].op = "asked" /\ job[c].want \in Versions /\ job[c].text \in Texts
    BY DEF IInv, TypeOK, WaitStarts, Jobs, Notifications
<1>2. j \in Jobs /\ j.op = "waiting" /\ j.want = job[c].want /\ j.text = job[c].text
    BY <1>1 DEF IInv, TypeOK, Jobs
<1>3. j.text <= texts /\ (OneOpen => VersionIn(j) = j.text)
    BY <1>1, <1>2 DEF IInv, TextsSent, OneOpen, Carries, VersionIn
<1> HIDE DEF j
<1>4. Goes(c, j) /\ UNCHANGED <<Documents, buf, Outside>>
    BY DEF WaitStarts, j
<1> QED
    BY <1>2, <1>3, <1>4, JobIInv

LEMMA WaitReturnsIInv == ASSUME IInv, NEW c \in Callers, WaitReturns(c) PROVE IInv'
<1>1. Idle \in Jobs /\ Idle.op = "idle"
    BY DEF Idle, Jobs
<1> QED
    BY <1>1, JobIInv DEF WaitReturns, Carries

\* A waiting caller is a record of the waiting kind.
LEMMA WaitingType ==
    ASSUME TypeOK, NEW c \in Callers, job[c].op = "waiting"
    PROVE  job[c] \in [op : {"waiting"}, want : Versions, text : Texts, start : Nat,
                       last : Nat, settling : BOOLEAN, seen : BOOLEAN]
<1>1. job[c] \in Jobs
    BY DEF TypeOK
<1> QED
    BY <1>1 DEF Jobs, Notifications

LEMMA LooksAgainIInv == ASSUME IInv, NEW c \in Callers, LooksAgain(c) PROVE IInv'
<1> DEFINE settling == IF Published(c) THEN buf.version = 0 ELSE job[c].settling
           j == [job[c] EXCEPT !.last = buf.seq, !.settling = settling]
<1>1. job[c] \in [op : {"waiting"}, want : Versions, text : Texts, start : Nat,
                  last : Nat, settling : BOOLEAN, seen : BOOLEAN]
    BY WaitingType DEF IInv, LooksAgain
<1>2. settling \in BOOLEAN /\ buf.seq \in Nat
    BY <1>1 DEF IInv, TypeOK
<1>3. Goes(c, j) /\ UNCHANGED <<Documents, buf, Outside>>
    BY <1>1 DEF LooksAgain
<1> HIDE DEF settling
<1>4. j \in Jobs /\ j.op = "waiting" /\ j.want = job[c].want /\ j.text = job[c].text
    BY <1>1, <1>2 DEF Jobs
<1>5. j.text <= texts /\ (OneOpen => VersionIn(j) = j.text)
    BY <1>1, <1>4 DEF IInv, TextsSent, OneOpen, Carries, VersionIn
<1> HIDE DEF j
<1> QED
    BY <1>3, <1>4, <1>5, JobIInv

LEMMA PublishIInv == IInv /\ Publish => IInv'
<1> SUFFICES ASSUME IInv, Publish PROVE IInv'
    OBVIOUS
<1> USE DEF IInv
<1> DEFINE Publications == [version : Versions, text : Texts]
<1>0. toClient \in Seq(Publications) /\ toClient # <<>> /\ toClient' = Tail(toClient)
    BY DEF TypeOK, Publish
<1> HIDE DEF Publications
<1>1. /\ Head(toClient) \in Publications
      /\ toClient' \in Seq(Publications)
      /\ Len(toClient') = Len(toClient) - 1
      /\ \A i \in 1 .. Len(toClient') : toClient'[i] = toClient[i + 1]
      /\ Len(toClient) \in Nat \ {0} /\ Head(toClient) = toClient[1]
    BY <1>0, HeadTailProperties, EmptySeq
<1> USE DEF Publications
<1>2. \A i \in 1 .. Len(toClient') : i + 1 \in 1 .. Len(toClient)
    BY <1>1
<1>3. /\ buf'.version = Head(toClient).version /\ buf'.text = Head(toClient).text
      /\ buf' \in [version : Versions, text : Texts, seq : Nat]
    BY <1>1 DEF TypeOK, Publish
<1>4. ASSUME NEW c \in Callers
      PROVE  /\ job'[c] \in Jobs /\ job'[c].op = job[c].op
             /\ job[c].op \in Carries =>
                   job'[c].text = job[c].text /\ VersionIn(job'[c]) = VersionIn(job[c])
  <2>1. CASE job[c].op = "waiting"
    <3>1. job'[c] = [job[c] EXCEPT !.seen = TRUE]
        BY <2>1 DEF Publish
    <3>2. job'[c] \in [op : {"waiting"}, want : Versions, text : Texts, start : Nat,
                       last : Nat, settling : BOOLEAN, seen : BOOLEAN]
          /\ job'[c].text = job[c].text /\ job'[c].want = job[c].want
        BY <2>1, <3>1, WaitingType
    <3> QED BY <2>1, <3>2 DEF Jobs, VersionIn
  <2>2. CASE job[c].op # "waiting"
    BY <2>2 DEF TypeOK, Publish
  <2> QED BY <2>1, <2>2
<1>5. job' \in [Callers -> Jobs]
    BY <1>4 DEF Publish
<1>6. TypeOK'
    BY <1>1, <1>2, <1>3, <1>5 DEF TypeOK, TextsSent, Publish, Documents
<1>7. TextsSent'
  <2>1. \A i \in 1 .. Len(toClient') : toClient'[i].text <= texts
    BY <1>1, <1>2 DEF TextsSent
  <2>2. \A c \in Callers : job'[c].op \in Carries => job'[c].text <= texts
    BY <1>4 DEF TextsSent
  <2> QED
    BY <2>1, <2>2 DEF TextsSent, Publish, Documents
<1>8. ASSUME OneOpen PROVE OneOpen'
  <2>1. \A i \in 1 .. Len(toClient') : toClient'[i].version \in {0, toClient'[i].text}
    BY <1>1, <1>2, <1>8 DEF OneOpen
  <2>2. buf'.version \in {0, buf'.text}
    BY <1>1, <1>3, <1>8 DEF OneOpen
  <2>3. \A c \in Callers : job'[c].op \in Carries => VersionIn(job'[c]) = job'[c].text
    BY <1>4, <1>8 DEF OneOpen
  <2>4. \A c \in Callers : job'[c].op = job[c].op
    BY <1>4
  <2>5. UNCHANGED <<version, current, texts, opens, toServer, server>>
    BY DEF Publish, Documents
  <2> QED
    BY <1>8, <2>1, <2>2, <2>3, <2>4, <2>5 DEF OneOpen
<1> QED
    BY <1>6, <1>7, <1>8

LEMMA ServerReadsIInv == IInv /\ ServerReads => IInv'
<1> SUFFICES ASSUME IInv, ServerReads PROVE IInv'
    OBVIOUS
<1> USE DEF IInv
<1>1. /\ Head(toServer) \in Notifications
      /\ toServer' \in Seq(Notifications)
      /\ Len(toServer') = Len(toServer) - 1
      /\ \A i \in 1 .. Len(toServer') : toServer'[i] = toServer[i + 1]
      /\ Len(toServer) \in Nat \ {0} /\ Head(toServer) = toServer[1]
    BY HeadTailProperties, EmptySeq DEF TypeOK, ServerReads
<1>2. \A i \in 1 .. Len(toServer') : i + 1 \in 1 .. Len(toServer)
    BY <1>1
<1>3. /\ server' \in [version : Versions, text : Texts, owed : 0 .. MaxPublishes]
      /\ \/ server'.version = 0 /\ server'.text = 0
         \/ server'.version = Head(toServer).version /\ server'.text = Head(toServer).text
    BY <1>1 DEF ServerReads, NoDocument, NoText, Notifications, Versions, Texts
<1>4. TypeOK'
    BY <1>1, <1>3, TextsNat DEF TypeOK, TextsSent, ServerReads, Documents
<1>5. TextsSent'
    BY <1>1, <1>2 DEF TextsSent, ServerReads, Documents
<1>6. ASSUME OneOpen PROVE OneOpen'
  <2>1. \A i \in 1 .. Len(toServer') : toServer'[i].version = toServer'[i].text
    BY <1>1, <1>2, <1>6 DEF OneOpen
  <2>2. server'.version = server'.text
    BY <1>1, <1>3, <1>6 DEF OneOpen
  <2> QED
    BY <1>6, <2>1, <2>2 DEF OneOpen, ServerReads, Documents
<1> QED
    BY <1>4, <1>5, <1>6

LEMMA ServerPublishesIInv == IInv /\ ServerPublishes => IInv'
<1> SUFFICES ASSUME IInv, ServerPublishes PROVE IInv'
    OBVIOUS
<1> USE DEF IInv
<1> DEFINE p == [version |-> IF Versioned THEN server.version ELSE 0, text |-> server.text]
<1>1. /\ p \in [version : Versions, text : Texts] /\ p.text = server.text
      /\ p.version \in {0, server.version}
    BY DEF TypeOK, Versions, Texts
<1>2. toClient' = Append(toClient, p)
    BY DEF ServerPublishes
<1> HIDE DEF p
<1>3. /\ toClient' \in Seq([version : Versions, text : Texts])
      /\ \A i \in 1 .. Len(toClient') :
            \/ i \in 1 .. Len(toClient) /\ toClient'[i] = toClient[i]
            \/ toClient'[i] = p
    BY <1>1, <1>2 DEF TypeOK
<1>4. PICK more \in 0 .. server.owed - 1 : server' = [server EXCEPT !.owed = more]
    BY DEF ServerPublishes
<1>5. /\ server' \in [version : Versions, text : Texts, owed : 0 .. MaxPublishes]
      /\ server'.version = server.version /\ server'.text = server.text
    BY SMTT(20), <1>4 DEF TypeOK
<1>6. TypeOK'
    BY <1>3, <1>5 DEF TypeOK, ServerPublishes, Documents
<1>7. TextsSent'
    BY <1>1, <1>3 DEF TypeOK, TextsSent, ServerPublishes, Documents
<1>8. ASSUME OneOpen PROVE OneOpen'
    BY <1>1, <1>3, <1>5, <1>8 DEF OneOpen, ServerPublishes, Documents
<1> QED
    BY <1>6, <1>7, <1>8

LEMMA NextIInv == IInv /\ [Next]_vars => IInv'
<1> SUFFICES ASSUME IInv, [Next]_vars PROVE IInv'
    OBVIOUS
<1>1. CASE UNCHANGED vars
    BY <1>1 DEF vars, IInv, TypeOK, TextsSent, OneOpen
<1>2. CASE ServerStops
    BY <1>2 DEF ServerStops, Documents, IInv, TypeOK, TextsSent, OneOpen
<1>3. ASSUME NEW c \in Callers, Edit(c) PROVE IInv'
    BY <1>3, OpenForgetsIInv, UpdateRecordsIInv, CloseRecordsIInv DEF Edit
<1>4. ASSUME NEW c \in Callers, Continue(c) PROVE IInv'
    BY <1>4, OpenRecordsIInv, UpdateForgetsIInv, CloseForgetsIInv, NotifyIInv, WaitStartsIInv
    DEF Continue
<1>5. ASSUME NEW c \in Callers, Poll(c) PROVE IInv'
    BY <1>5, WaitReturnsIInv, LooksAgainIInv DEF Poll, Matches, Silent, Settled, TimesOut
<1> QED
    BY <1>1, <1>2, <1>3, <1>4, <1>5, AskIInv, PublishIInv, ServerReadsIInv, ServerPublishesIInv
    DEF Next

LEMMA SpecIInv == Spec => []IInv
BY InitIInv, NextIInv, PTL DEF Spec

-----------------------------------------------------------------------------
(* The theorems *)

\* Type correctness: in particular a document is open exactly while it has a
\* text, and everything the server and the buffer hold was sent.
THEOREM TypeCorrect == Spec => []TypeOK
<1>1. IInv => TypeOK
    BY DEF IInv
<1> QED
    BY <1>1, SpecIInv, PTL

\* When a document is opened once, diagnostics a wait takes as definitive are
\* of the text it asked about, whatever else is in the pipes and however the
\* callers interleave.
THEOREM MatchTheorem == MaxOpens <= 1 => (Spec => MatchIsOfTheText)
<1> SUFFICES ASSUME MaxOpens <= 1 PROVE Spec => MatchIsOfTheText
    OBVIOUS
<1> DEFINE A == \A c \in Callers : Matches(c) => buf.text = job[c].text
<1>1. IInv => A
  <2> SUFFICES ASSUME IInv, NEW c \in Callers, Matches(c) PROVE buf.text = job[c].text
    OBVIOUS
  <2>1. job[c].op = "waiting" /\ buf.version # 0 /\ buf.version = job[c].want
    BY DEF Matches, Matched
  <2> QED
    BY <2>1 DEF IInv, OneOpen, Carries, VersionIn
<1>2. Spec => [][A]_vars
  <2> HIDE DEF A
  <2> QED
    BY <1>1, SpecIInv, PTL DEF Spec
<1> QED
    BY <1>2 DEF MatchIsOfTheText
-----------------------------------------------------------------------------
(* One caller at a time *)

Alone == \A c, d \in Callers : c = d

\* While nothing has been published since the wait began, the publish counter is
\* where the wait began: only the caller itself forgets, and it waits.
Watched == \A c \in Callers : job[c].op = "waiting" => job[c].seen \/ buf.seq = job[c].start

\* What a lone caller goes on to, unless it is a wait.
LEMMA NoWait ==
    ASSUME Alone, TypeOK, NEW c \in Callers, NEW j, Goes(c, j), j.op # "waiting"
    PROVE  Watched'
<1>1. job' = [job EXCEPT ![c] = j] /\ job \in [Callers -> Jobs]
    BY DEF Goes, TypeOK
<1>2. \A d \in Callers : job'[d] = j
    BY <1>1 DEF Alone
<1> QED
    BY <1>2 DEF Watched

LEMMA WatchedStep ==
    ASSUME Alone, IInv, Watched, [Next]_vars
    PROVE  Watched'
<1> USE DEF IInv
<1>1. CASE UNCHANGED <<job, buf>>
    BY <1>1 DEF Watched
<1>2. ASSUME NEW c \in Callers, OpenForgets(c) \/ CloseRecords(c) \/ Ask(c) \/ OpenRecords(c) PROVE Watched'
  <2>1. PICK j : Goes(c, j) /\ j.op \in {"opening", "closed", "asked", "notify"}
    BY <1>2 DEF OpenForgets, CloseRecords, Ask, OpenRecords, Notification
  <2> QED
    BY <2>1, NoWait
<1>3. ASSUME NEW c \in Callers, UpdateRecords(c) \/ UpdateForgets(c) PROVE Watched'
  <2>1. PICK j : Goes(c, j) /\ j.op \in {"updated", "notify"}
    BY <1>3 DEF UpdateRecords, UpdateForgets, Notification
  <2> QED
    BY <2>1, NoWait
<1>4. ASSUME NEW c \in Callers, CloseForgets(c) \/ Notify(c) \/ WaitReturns(c) PROVE Watched'
  <2>1. PICK j : Goes(c, j) /\ j.op \in {"notify", "idle"}
    BY <1>4 DEF CloseForgets, Notify, WaitReturns, Notification, Idle
  <2> QED
    BY <2>1, NoWait
<1>5. ASSUME NEW c \in Callers, WaitStarts(c) PROVE Watched'
  <2>1. \A d \in Callers : job'[d].start = buf'.seq
    BY <1>5 DEF WaitStarts, Goes, TypeOK, Alone
  <2> QED
    BY <2>1 DEF Watched
<1>6. ASSUME NEW c \in Callers, LooksAgain(c) PROVE Watched'
  <2>1. job[c].op = "waiting" /\ buf' = buf
    BY <1>6 DEF LooksAgain
  <2>2. job[c] \in [op : {"waiting"}, want : Versions, text : Texts, start : Nat,
                    last : Nat, settling : BOOLEAN, seen : BOOLEAN]
    BY <2>1, WaitingType
  <2>3. job'[c].seen = job[c].seen /\ job'[c].start = job[c].start
    BY <1>6, <2>2 DEF LooksAgain, Goes, TypeOK
  <2> QED
    BY <2>1, <2>3 DEF Watched, Alone
<1>7. CASE Publish
  <2>1. \A c \in Callers : job'[c] = IF job[c].op = "waiting" THEN [job[c] EXCEPT !.seen = TRUE] ELSE job[c]
    BY <1>7 DEF Publish
  <2>2. ASSUME NEW c \in Callers, job[c].op = "waiting" PROVE job'[c].seen
    BY <2>1, <2>2, WaitingType
  <2>3. ASSUME NEW c \in Callers, job[c].op # "waiting" PROVE job'[c].op # "waiting"
    BY <2>1, <2>3
  <2> QED
    BY <2>2, <2>3 DEF Watched
<1>8. CASE ServerReads \/ ServerPublishes \/ ServerStops \/ UNCHANGED vars
    BY <1>1, <1>8 DEF ServerReads, ServerPublishes, ServerStops, vars
<1>9. ASSUME NEW c \in Callers, Edit(c) PROVE Watched'
    BY <1>2, <1>3, <1>9 DEF Edit
<1>10. ASSUME NEW c \in Callers, Continue(c) PROVE Watched'
    BY <1>2, <1>3, <1>4, <1>5, <1>10 DEF Continue
<1>11. ASSUME NEW c \in Callers, Poll(c) PROVE Watched'
    BY <1>4, <1>6, <1>11 DEF Poll, Matches, Silent, Settled, TimesOut
<1> QED
    BY <1>2, <1>7, <1>8, <1>9, <1>10, <1>11 DEF Next

\* A wait of a caller that is alone, and returns because publications have
\* settled, saw one ("until publishes for uri settle", diagnostics.go), whatever
\* the server sends and however often the document was opened.
THEOREM SettledTheorem == Alone => (Spec => SettledWasPublished)
<1> SUFFICES ASSUME Alone PROVE Spec => SettledWasPublished
    OBVIOUS
<1>1. Init => Watched
    BY DEF Init, Idle, Watched
<1>2. IInv /\ Watched /\ [Next]_vars => Watched'
    BY WatchedStep
<1> DEFINE A == \A c \in Callers : Settled(c) => job[c].seen
<1>3. Watched => A
    BY DEF Watched, Settled, Published
<1>4. Spec => [][A]_vars
  <2> HIDE DEF A
  <2> QED
    BY <1>1, <1>2, <1>3, SpecIInv, PTL DEF Spec
<1> QED
    BY <1>4 DEF SettledWasPublished

-----------------------------------------------------------------------------
(* Shells *)

\* An agent is not the timeout of a shell.
AgentsAssumption == MaxJobs \in Nat /\ Agents \cap JobIds = {}

Positions == {"idle", "register", "refresh", "armed", "group", "signal", "term", "grace", "wait", "close"}
Stages == {"none", "running", "exited", "reaped"}
Places == [pos : Positions, job : JobIds \cup {0}, kill : BOOLEAN,
           after : {"observe", "drop", "end", "close"}, left : SUBSET JobIds]
Shells == [shell : Stages, nature : {"obeys", "traps", "wedged"}, done : BOOLEAN, groupSignaled : BOOLEAN]

ShellTypeOK ==
    /\ leave \in BOOLEAN /\ table \subseteq JobIds
    /\ shells \in [JobIds -> Shells] /\ at \in [Actors -> Places]

\* Positions that are about a shell.
AtShell == {"register", "refresh", "armed", "group", "signal", "term", "grace", "wait"}

\* The timeout of a shell is about that shell and never waits for it; an agent
\* is at no timeout.
PlaceOf(a) ==
    /\ at[a].pos \in AtShell => at[a].job \in JobIds
    /\ IF a \in JobIds
       THEN /\ at[a].pos \in {"idle", "armed", "group", "signal", "term", "grace"} /\ at[a].left = {}
            /\ at[a].pos # "idle" => at[a].job = a /\ at[a].after = "end"
       ELSE at[a].pos # "armed" /\ at[a].after # "end"

\* Whatever is listed, or in someone's hand, has been started.
Started(j) == shells[j].shell # "none"
OnlyStarted ==
    /\ \A j \in table : Started(j)
    /\ \A a \in Actors : (at[a].job # 0 => Started(at[a].job)) /\ \A j \in at[a].left : Started(j)

\* A shell that can be stopped is still being registered, or its timeout is not
\* over: it has not expired, or is stopping the shell.
Attended(j) ==
    Stoppable(j) => \/ at[j].pos # "idle"
                    \/ \E c \in Agents : at[c].pos = "register" /\ at[c].job = j

DoneIsReaped == \A j \in JobIds : shells[j].done => shells[j].shell = "reaped"
SignalIsNoted == \A a \in Actors : at[a].pos = "signal" => shells[at[a].job].groupSignaled

ShellIInv ==
    /\ ShellTypeOK
    /\ \A a \in Actors : PlaceOf(a) /\ StopsItsShell(a)
    /\ OnlyStarted
    /\ \A j \in JobIds : Attended(j)
    /\ DoneIsReaped /\ SignalIsNoted /\ SignaledOnce

LEMMA InitShellIInv == AgentsAssumption /\ ShellInit => ShellIInv
BY DEF AgentsAssumption, ShellInit, ShellIInv, ShellTypeOK, Shells, Stages, Places, Positions, NoJob,
       AtRest, PlaceOf, AtShell, StopsItsShell, OnlyStarted, Started, Attended, Stoppable, DoneIsReaped,
       SignalIsNoted, SignaledOnce, Actors, JobIds

LEMMA ShellsAreKept == AgentsAssumption /\ ShellIInv => ShellsKept
<1> SUFFICES ASSUME AgentsAssumption, ShellIInv PROVE ShellsKept
    OBVIOUS
<1>1. ASSUME NEW j \in JobIds, Stoppable(j) PROVE \E a \in Actors : Works(a, j)
  <2>1. CASE at[j].pos # "idle"
    BY <2>1 DEF ShellIInv, PlaceOf, Works, Actors
  <2>2. CASE \E c \in Agents : at[c].pos = "register" /\ at[c].job = j
    BY <2>2 DEF Works, Actors
  <2> QED
    BY <1>1, <2>1, <2>2 DEF ShellIInv, Attended
<1> QED
    BY <1>1 DEF ShellsKept, InHand, ShellIInv

\* A step that starts and registers no shell keeps the invariant, if the place
\* it goes to is in order.
Keeps(j) ==
    /\ Stoppable(j)' => Stoppable(j)
    /\ Started(j) => Started(j)'
    /\ shells[j].groupSignaled => shells'[j].groupSignaled

LEMMA MovesOn ==
    ASSUME AgentsAssumption, ShellIInv, NEW a \in Actors, NEW r \in Places,
           at' = [at EXCEPT ![a] = r], leave' = leave,
           table' \subseteq JobIds, \A j \in table' : Started(j)',
           shells' \in [JobIds -> Shells], \A j \in JobIds : Keeps(j), DoneIsReaped',
           PlaceOf(a)', StopsItsShell(a)',
           r.job # 0 => Started(r.job)', \A j \in r.left : Started(j)',
           a \in JobIds /\ r.pos = "idle" => at[a].pos = "idle" \/ ~Stoppable(a)',
           at[a].pos # "register",
           r.pos = "signal" => /\ shells'[r.job].groupSignaled
                               /\ \A b \in Actors \ {a} : at[b].pos = "signal" => at[b].job # r.job
    PROVE  ShellIInv'
<1>1. /\ at'[a] = r /\ \A b \in Actors : b # a => at'[b] = at[b]
      /\ at' \in [Actors -> Places]
    BY DEF ShellIInv, ShellTypeOK
<1>2. ShellTypeOK'
    BY <1>1 DEF ShellIInv, ShellTypeOK
<1>3. ASSUME NEW b \in Actors PROVE PlaceOf(b)' /\ StopsItsShell(b)'
  <2>1. CASE b = a
    BY <2>1
  <2>2. CASE b # a
    <3>1. at'[b] = at[b] /\ PlaceOf(b) /\ StopsItsShell(b)
      BY <1>1, <2>2 DEF ShellIInv
    <3>2. PlaceOf(b)'
      BY <3>1 DEF PlaceOf
    <3>3. at[b].pos = "wait" => at[b].job \in JobIds
      BY <3>1 DEF PlaceOf, AtShell
    <3>4. StopsItsShell(b)'
      BY <3>1, <3>3 DEF StopsItsShell, Keeps
    <3> QED
      BY <3>2, <3>4
  <2> QED
    BY <2>1, <2>2
<1>4. OnlyStarted'
  <2>1. ASSUME NEW b \in Actors, b # a
        PROVE  /\ at[b].job # 0 => shells'[at[b].job].shell # "none"
               /\ \A j \in at[b].left : Started(j)'
    <3>1. at[b].job \in JobIds \cup {0} /\ at[b].left \subseteq JobIds
      BY DEF ShellIInv, ShellTypeOK, Places
    <3> QED
      BY <3>1 DEF ShellIInv, OnlyStarted, Keeps, Started
  <2> QED
    BY <1>1, <2>1 DEF OnlyStarted, Started
<1>5. ASSUME NEW j \in JobIds PROVE Attended(j)'
  <2> SUFFICES ASSUME Stoppable(j)'
               PROVE  \/ at'[j].pos # "idle"
                      \/ \E c \in Agents : at'[c].pos = "register" /\ at'[c].job = j
    BY DEF Attended
  <2>1. Stoppable(j) /\ Attended(j)
    BY DEF Keeps, ShellIInv
  <2>2. j \in Actors /\ Agents \subseteq Actors
    BY DEF Actors
  <2>3. CASE at[j].pos # "idle"
    BY <1>1, <2>2, <2>3
  <2>4. CASE \E c \in Agents : at[c].pos = "register" /\ at[c].job = j
    BY <1>1, <2>2, <2>4
  <2> QED
    BY <2>1, <2>3, <2>4 DEF Attended
<1>6. SignalIsNoted'
  <2>1. ASSUME NEW b \in Actors, b # a, at[b].pos = "signal" PROVE shells'[at[b].job].groupSignaled
    <3>1. at[b].job \in JobIds
      BY <2>1 DEF ShellIInv, PlaceOf, AtShell
    <3> QED
      BY <2>1, <3>1 DEF ShellIInv, SignalIsNoted, Keeps
  <2> QED
    BY <1>1, <2>1 DEF SignalIsNoted
<1>7. SignaledOnce'
    BY <1>1 DEF ShellIInv, SignaledOnce
<1> QED
    BY <1>2, <1>3, <1>4, <1>5, <1>6, <1>7 DEF ShellIInv

LEMMA ActorIs ==
    ASSUME AgentsAssumption, ShellIInv, NEW a \in Actors
    PROVE  /\ at[a] \in Places /\ PlaceOf(a) /\ StopsItsShell(a)
           /\ at[a].job \in JobIds \cup {0} /\ at[a].left \subseteq JobIds
           /\ at[a].pos \in AtShell => at[a].job \in JobIds /\ Target(a) \in Shells /\ Started(at[a].job)
           /\ at[a].job # 0 => Started(at[a].job)
           /\ \A j \in at[a].left : Started(j)
<1>1. at[a] \in Places /\ PlaceOf(a) /\ StopsItsShell(a)
    BY DEF ShellIInv, ShellTypeOK
<1>2. at[a].job \in JobIds \cup {0} /\ at[a].left \subseteq JobIds
    BY <1>1 DEF Places
<1>3. (at[a].job # 0 => Started(at[a].job)) /\ \A j \in at[a].left : Started(j)
    BY DEF ShellIInv, OnlyStarted
<1>4. at[a].pos \in AtShell => at[a].job \in JobIds /\ at[a].job # 0
    BY <1>1, AgentsAssumption DEF PlaceOf, JobIds, AgentsAssumption
<1> QED
    BY <1>1, <1>2, <1>3, <1>4 DEF ShellIInv, ShellTypeOK, Target

\* Nothing that happens to the shells makes one of them run again.
LEMMA UnchangedShells ==
    ASSUME ShellIInv, shells' = shells
    PROVE  shells' \in [JobIds -> Shells] /\ (\A j \in JobIds : Keeps(j)) /\ DoneIsReaped'
BY DEF ShellIInv, ShellTypeOK, Keeps, Stoppable, Started, DoneIsReaped

LEMMA OneShell ==
    ASSUME ShellIInv, NEW j \in JobIds, NEW s \in Shells, shells' = [shells EXCEPT ![j] = s],
           s.shell = "running" => shells[j].shell = "running" /\ s.nature = shells[j].nature,
           s.shell # "none", shells[j].groupSignaled => s.groupSignaled,
           s.done => s.shell = "reaped"
    PROVE  /\ shells' \in [JobIds -> Shells] /\ (\A k \in JobIds : Keeps(k)) /\ DoneIsReaped'
           /\ shells'[j] = s
<1>1. shells \in [JobIds -> Shells] /\ DoneIsReaped
    BY DEF ShellIInv, ShellTypeOK
<1>2. shells' \in [JobIds -> Shells] /\ shells'[j] = s /\ \A k \in JobIds : k # j => shells'[k] = shells[k]
    BY <1>1
<1>3. ASSUME NEW k \in JobIds PROVE Keeps(k)
    BY <1>2 DEF Keeps, Stoppable, Started
<1>4. DoneIsReaped'
    BY <1>1, <1>2 DEF DoneIsReaped
<1> QED
    BY <1>2, <1>3, <1>4

\* The shell and the goroutine that waits for it.
LEMMA WatchIInv ==
    ASSUME AgentsAssumption, ShellIInv, NEW j \in JobIds, ShellExits(j) \/ Reap(j) \/ SetDone(j)
    PROVE  ShellIInv'
<1>1. j \in Actors /\ leave' = leave /\ table' = table /\ at' = at
    BY DEF Actors, ShellExits, Reap, SetDone
<1>2. shells[j] \in Shells /\ shells \in [JobIds -> Shells]
    BY DEF ShellIInv, ShellTypeOK
<1> DEFINE t == shells'[j]
<1>3. /\ t \in Shells /\ shells' = [shells EXCEPT ![j] = t] /\ t.shell \in {"exited", "reaped"}
      /\ shells[j].groupSignaled = t.groupSignaled /\ (t.done => t.shell = "reaped")
  <2>1. CASE ShellExits(j)
    <3>1. ~shells[j].done
      BY <2>1 DEF ShellExits, ShellIInv, DoneIsReaped
    <3> QED
      BY <1>2, <2>1, <3>1 DEF ShellExits, Shells, Stages
  <2>2. CASE Reap(j)
    BY <1>2, <2>2 DEF Reap, Shells, Stages
  <2>3. CASE SetDone(j)
    BY <1>2, <2>3 DEF SetDone, Shells, Stages
  <2> QED
    BY <2>1, <2>2, <2>3
<1>4. shells' \in [JobIds -> Shells] /\ (\A k \in JobIds : Keeps(k)) /\ DoneIsReaped'
  <2>1. PICK s \in Shells :
          /\ shells' = [shells EXCEPT ![j] = s] /\ s.shell \in {"exited", "reaped"}
          /\ shells[j].groupSignaled = s.groupSignaled /\ (s.done => s.shell = "reaped")
    BY <1>3
  <2>2. /\ s.shell = "running" => shells[j].shell = "running" /\ s.nature = shells[j].nature
        /\ s.shell # "none" /\ (shells[j].groupSignaled => s.groupSignaled)
    BY <2>1
  <2> QED
    BY <2>1, <2>2, OneShell
<1>5. /\ at[j] \in Places /\ PlaceOf(j) /\ StopsItsShell(j) /\ at[j].left = {} /\ at[j].pos # "register"
      /\ at[j].job # 0 => at[j].job \in JobIds /\ Started(at[j].job)
    BY <1>1, ActorIs DEF PlaceOf
<1>6. PlaceOf(j)' /\ at' = [at EXCEPT ![j] = at[j]]
    BY <1>1, <1>5 DEF PlaceOf, ShellIInv, ShellTypeOK
<1>7. StopsItsShell(j)'
    BY <1>1, <1>5 DEF StopsItsShell, PlaceOf
<1>8. ASSUME NEW k \in table' PROVE k \in JobIds /\ Started(k)'
    BY <1>1, <1>4 DEF ShellIInv, ShellTypeOK, OnlyStarted, Keeps
<1>9. at[j].job # 0 => shells'[at[j].job].shell # "none"
    BY <1>4, <1>5 DEF Keeps, Started
<1>10. at[j].pos = "signal" =>
          /\ shells'[at[j].job].groupSignaled
          /\ \A b \in Actors \ {j} : at[b].pos = "signal" => at[b].job # at[j].job
    BY <1>1, <1>4, <1>5 DEF ShellIInv, SignalIsNoted, SignaledOnce, Keeps, PlaceOf
<1> DEFINE r == at[j]
<1>11. /\ r \in Places /\ at' = [at EXCEPT ![j] = r] /\ r.left = {}
       /\ r.job # 0 => shells'[r.job].shell # "none"
       /\ r.pos = "idle" => at[j].pos = "idle"
       /\ r.pos = "signal" => /\ shells'[r.job].groupSignaled
                              /\ \A b \in Actors \ {j} : at[b].pos = "signal" => at[b].job # r.job
    BY <1>5, <1>6, <1>9, <1>10
<1> HIDE DEF r
<1> QED
    BY <1>1, <1>4, <1>5, <1>6, <1>7, <1>8, <1>11, MovesOn DEF Started

\* What an actor does that touches no shell: it goes to r.
LEMMA GoesOn ==
    ASSUME AgentsAssumption, ShellIInv, NEW a \in Actors, NEW r \in Places,
           at' = [at EXCEPT ![a] = r], UNCHANGED <<leave, shells>>,
           table' \subseteq table \/ table' = {},
           at[a].pos \notin {"register", "signal"}, r.pos \notin {"armed", "signal", "register"},
           r.pos \in AtShell => r.job \in JobIds,
           r.job # 0 => Started(r.job), \A j \in r.left : Started(j),
           r.pos = "wait" => ~Stoppable(r.job),
           a \in JobIds => /\ r.pos \in {"idle", "group", "term", "grace"} /\ r.left = {}
                           /\ r.pos # "idle" => r.job = a /\ r.after = "end"
                           /\ r.pos = "idle" => ~Stoppable(a),
           a \notin JobIds => r.after # "end"
    PROVE  ShellIInv'
<1>1. shells' = shells /\ leave' = leave /\ at'[a] = r
    BY DEF ShellIInv, ShellTypeOK
<1>2. shells' \in [JobIds -> Shells] /\ (\A j \in JobIds : Keeps(j)) /\ DoneIsReaped'
    BY <1>1, UnchangedShells
<1>3. PlaceOf(a)' /\ StopsItsShell(a)'
    BY <1>1 DEF PlaceOf, StopsItsShell, Stoppable, AtShell
<1>4. table' \subseteq JobIds /\ \A j \in table' : Started(j)'
    BY <1>1 DEF ShellIInv, ShellTypeOK, OnlyStarted, Started
<1>5. (r.job # 0 => Started(r.job)') /\ (\A j \in r.left : Started(j)') /\ (Stoppable(a)' => Stoppable(a))
    BY <1>1 DEF Started, Stoppable
<1> QED
    BY <1>1, <1>2, <1>3, <1>4, <1>5, MovesOn

\* The end of a wait for a job, an abort, and the calls that start no shell.
LEMMA CallIInv ==
    ASSUME AgentsAssumption, ShellIInv, NEW a \in Agents,
           Status(a) \/ BashStop(a) \/ CloseTakes(a)
    PROVE  ShellIInv'
<1>1. a \in Actors /\ a \notin JobIds /\ at[a].pos = "idle" /\ UNCHANGED <<leave, shells>>
    BY DEF Actors, AgentsAssumption, Status, BashStop, CloseTakes
<1>2. table \subseteq JobIds /\ \A j \in table : Started(j)
    BY DEF ShellIInv, ShellTypeOK, OnlyStarted
<1>3. PICK r \in Places :
         /\ at' = [at EXCEPT ![a] = r] /\ r.pos \in {"refresh", "group", "close"} /\ r.after # "end"
         /\ r.job \in table \cup {0} /\ (r.pos # "close" => r.job \in table) /\ r.left \subseteq table
         /\ table' = table \/ table' = {}
  <2>1. CASE Status(a)
    <3>1. PICK j \in table : at' = [at EXCEPT ![a] = [AtRest EXCEPT !.pos = "refresh", !.job = j]]
      BY <2>1 DEF Status, Becomes
    <3> DEFINE r == [AtRest EXCEPT !.pos = "refresh", !.job = j]
    <3>2. /\ r \in Places /\ r.pos = "refresh" /\ r.after = "observe" /\ r.job = j /\ r.left = {}
      BY <1>2 DEF AtRest, Places, Positions
    <3> QED
      BY <2>1, <3>1, <3>2 DEF Status
  <2>2. CASE BashStop(a)
    <3>1. PICK j \in table, kill \in BOOLEAN :
             at' = [at EXCEPT ![a] = [AtRest EXCEPT !.pos = "group", !.job = j, !.kill = kill]]
      BY <2>2 DEF BashStop, Becomes
    <3> DEFINE r == [AtRest EXCEPT !.pos = "group", !.job = j, !.kill = kill]
    <3>2. /\ r \in Places /\ r.pos = "group" /\ r.after = "observe" /\ r.job = j /\ r.left = {}
      BY <1>2 DEF AtRest, Places, Positions
    <3> QED
      BY <2>2, <3>1, <3>2 DEF BashStop
  <2>3. CASE CloseTakes(a)
    <3> DEFINE r == [AtRest EXCEPT !.pos = "close", !.after = "close", !.left = table]
    <3>2. /\ r \in Places /\ r.pos = "close" /\ r.after = "close" /\ r.job = 0 /\ r.left = table
      BY <1>2 DEF AtRest, Places, Positions
    <3> QED
      BY <2>3, <3>2 DEF CloseTakes, Becomes
  <2> QED
    BY <2>1, <2>2, <2>3
<1>4. /\ r.pos \in AtShell => r.job \in JobIds
      /\ r.job # 0 => Started(r.job)
      /\ \A j \in r.left : Started(j)
      /\ table' \subseteq table \/ table' = {}
    BY <1>2, <1>3 DEF AtShell
<1> QED
    BY <1>1, <1>3, <1>4, GoesOn

\* A place an actor may go to when it touches no shell.
MayGo(a, r) ==
    /\ r.pos \notin {"armed", "signal", "register"}
    /\ r.pos \in AtShell => r.job \in JobIds
    /\ r.job # 0 => Started(r.job)
    /\ \A j \in r.left : Started(j)
    /\ r.pos = "wait" => ~Stoppable(r.job)
    /\ IF a \in JobIds
       THEN /\ r.pos \in {"idle", "group", "term", "grace"} /\ r.left = {}
            /\ r.pos # "idle" => r.job = a /\ r.after = "end"
            /\ r.pos = "idle" => ~Stoppable(a)
       ELSE r.after # "end"

LEMMA Rests ==
    ASSUME NEW a, a \in JobIds => ~Stoppable(a)
    PROVE  AtRest \in Places /\ MayGo(a, AtRest)
BY DEF AtRest, Places, Positions, MayGo, AtShell

\* It stays with its shell, or goes on to one it has taken.
LEMMA GoesWith ==
    ASSUME AgentsAssumption, ShellIInv, NEW a \in Actors, NEW r \in Places,
           at[a].pos \notin {"idle", "register"},
           r.pos \in {"group", "term", "grace", "wait", "close"}, r.after = at[a].after,
           r.left \subseteq at[a].left,
           r.job = at[a].job \/ r.job \in at[a].left,
           r.pos = "close" => a \notin JobIds,
           r.pos = "wait" => a \notin JobIds /\ ~Stoppable(r.job),
           r.pos # "close" => r.job \in JobIds
    PROVE  MayGo(a, r)
<1>1. /\ PlaceOf(a) /\ at[a].job \in JobIds \cup {0} /\ at[a].left \subseteq JobIds
      /\ at[a].job # 0 => Started(at[a].job)
      /\ \A j \in at[a].left : Started(j)
    BY ActorIs
<1> QED
    BY <1>1 DEF MayGo, PlaceOf, AtShell

LEMMA StepIInv ==
    ASSUME AgentsAssumption, ShellIInv, NEW a \in Actors,
           \/ Refreshed(a) \/ Aborted(a) \/ EndsInGrace(a) \/ Waited(a) \/ CloseNext(a) \/ CloseEnds(a)
           \/ KillGroupOnce(a) /\ shells' = shells
    PROVE  ShellIInv'
<1>1. /\ at[a] \in Places /\ PlaceOf(a) /\ StopsItsShell(a)
      /\ at[a].job \in JobIds \cup {0} /\ at[a].left \subseteq JobIds
      /\ at[a].pos \in AtShell => at[a].job \in JobIds
    BY ActorIs
<1>2. at \in [Actors -> Places] /\ leave \in BOOLEAN
    BY DEF ShellIInv, ShellTypeOK
<1>3. PICK r \in Places : at' = [at EXCEPT ![a] = r] /\ MayGo(a, r)
  <2>1. CASE Refreshed(a)
    <3>1. a \notin JobIds
      BY <1>1, <2>1 DEF Refreshed, PlaceOf
    <3> QED
      BY <2>1, <3>1, Rests DEF Refreshed, Becomes
  <2>2. CASE Aborted(a)
    <3> DEFINE r == [at[a] EXCEPT !.pos = "group", !.kill = ~leave]
    <3>1. /\ r \in Places /\ r.pos = "group" /\ r.after = at[a].after /\ r.left = at[a].left
          /\ r.job = at[a].job
      BY <1>1, <1>2 DEF Places, Positions
    <3>2. at[a].pos = "refresh" /\ at' = [at EXCEPT ![a] = r] /\ at[a].job \in JobIds
      BY <1>1, <2>2 DEF Aborted, Becomes, AtShell
    <3> HIDE DEF r
    <3> QED
      BY <3>1, <3>2, GoesWith
  <2>3. CASE EndsInGrace(a)
    <3>1. at[a].pos = "grace" /\ Target(a).done /\ at[a].job \in JobIds
      BY <1>1, <2>3 DEF EndsInGrace, AtShell
    <3>2. ~Stoppable(at[a].job)
      BY <3>1 DEF ShellIInv, DoneIsReaped, Target, Stoppable
    <3>3. CASE at[a].after = "end"
      <4>1. at' = [at EXCEPT ![a] = AtRest] /\ (a \in JobIds => ~Stoppable(a))
        BY <1>1, <2>3, <3>1, <3>2, <3>3 DEF EndsInGrace, Stopped, Becomes, PlaceOf
      <4> QED
        BY <4>1, Rests
    <3>4. CASE at[a].after # "end"
      <4> DEFINE r == [at[a] EXCEPT !.pos = "wait"]
      <4>1. /\ r \in Places /\ r.pos = "wait" /\ r.after = at[a].after /\ r.left = at[a].left
            /\ r.job = at[a].job
        BY <1>1 DEF Places, Positions
      <4>2. at' = [at EXCEPT ![a] = r] /\ a \notin JobIds
        BY <1>1, <1>2, <2>3, <3>1, <3>4 DEF EndsInGrace, Stopped, Moves, PlaceOf
      <4> HIDE DEF r
      <4> QED
        BY <3>1, <3>2, <4>1, <4>2, GoesWith
    <3> QED
      BY <3>3, <3>4
  <2>4. CASE Waited(a)
    <3>1. a \notin JobIds /\ at[a].pos = "wait"
      BY <1>1, <2>4 DEF Waited, PlaceOf
    <3>2. CASE at[a].after = "close"
      <4> DEFINE r == [at[a] EXCEPT !.pos = "close"]
      <4>1. /\ r \in Places /\ r.pos = "close" /\ r.after = at[a].after /\ r.left = at[a].left
            /\ r.job = at[a].job
        BY <1>1 DEF Places, Positions
      <4>2. at' = [at EXCEPT ![a] = r]
        BY <1>2, <2>4, <3>2 DEF Waited, Moves
      <4> HIDE DEF r
      <4> QED
        BY <3>1, <4>1, <4>2, GoesWith
    <3>3. CASE at[a].after # "close"
      BY <2>4, <3>1, <3>3, Rests DEF Waited, Becomes
    <3> QED
      BY <3>2, <3>3
  <2>5. CASE CloseNext(a)
    <3>1. PICK j \in at[a].left :
             at' = [at EXCEPT ![a] = [at[a] EXCEPT !.pos = "group", !.job = j, !.kill = ~leave, !.left = @ \ {j}]]
      BY <2>5 DEF CloseNext, Becomes
    <3> DEFINE r == [at[a] EXCEPT !.pos = "group", !.job = j, !.kill = ~leave, !.left = @ \ {j}]
    <3>2. /\ r \in Places /\ r.pos = "group" /\ r.after = at[a].after /\ r.left = at[a].left \ {j}
          /\ r.job = j
      BY <1>1, <1>2 DEF Places, Positions
    <3>3. at[a].pos = "close" /\ at' = [at EXCEPT ![a] = r] /\ j \in JobIds
      BY <1>1, <2>5, <3>1 DEF CloseNext
    <3> HIDE DEF r
    <3> QED
      BY <3>2, <3>3, GoesWith
  <2>6. CASE CloseEnds(a)
    <3>1. a \notin JobIds
      BY <1>1, <2>6 DEF CloseEnds, PlaceOf
    <3> QED
      BY <2>6, <3>1, Rests DEF CloseEnds, Becomes
  <2>7. CASE KillGroupOnce(a) /\ shells' = shells
    <3>1. at[a].pos = "group" /\ at[a].job \in JobIds
      BY <1>1, <2>7 DEF KillGroupOnce, AtShell
    <3>2. at' = [at EXCEPT ![a].pos = "term"]
      <4>1. shells \in [JobIds -> Shells]
        BY DEF ShellIInv, ShellTypeOK
      <4>2. shells' # [shells EXCEPT ![at[a].job].groupSignaled = TRUE]
            \/ shells[at[a].job].groupSignaled
        BY <2>7, <3>1, <4>1 DEF Shells
      <4> QED
        BY <2>7, <4>2 DEF KillGroupOnce, Moves, Target
    <3> DEFINE r == [at[a] EXCEPT !.pos = "term"]
    <3>3. /\ r \in Places /\ r.pos = "term" /\ r.after = at[a].after /\ r.left = at[a].left
          /\ r.job = at[a].job /\ at' = [at EXCEPT ![a] = r]
      BY <1>1, <1>2, <3>2 DEF Places, Positions
    <3> HIDE DEF r
    <3> QED
      BY <3>1, <3>3, GoesWith
  <2> QED
    BY <2>1, <2>2, <2>3, <2>4, <2>5, <2>6, <2>7
<1>4. /\ UNCHANGED <<leave, shells>> /\ (table' \subseteq table \/ table' = {})
      /\ at[a].pos \notin {"register", "signal"}
    BY DEF Refreshed, Aborted, EndsInGrace, Waited, CloseNext, CloseEnds, KillGroupOnce
<1> QED
    BY <1>3, <1>4, GoesOn DEF MayGo

\* What a signal does to a shell, and what one that cannot be trapped does.
LEMMA Signalled ==
    ASSUME ShellIInv, NEW j \in JobIds, Started(j), NEW natures
    PROVE  LET s == Dies(j, natures) IN
           /\ s \in Shells /\ s.shell # "none" /\ s.groupSignaled = shells[j].groupSignaled
           /\ s.nature = shells[j].nature
           /\ s.shell = "running" => shells[j].shell = "running" /\ s.nature \notin natures
           /\ s.done => s.shell = "reaped"
<1>1. shells[j] \in Shells /\ (shells[j].done => shells[j].shell = "reaped")
    BY DEF ShellIInv, ShellTypeOK, DoneIsReaped
<1> DEFINE s == Dies(j, natures)
<1>2. /\ s \in Shells /\ s.groupSignaled = shells[j].groupSignaled /\ s.nature = shells[j].nature
      /\ s.done = shells[j].done
      /\ s.shell = IF shells[j].shell = "running" /\ shells[j].nature \in natures
                   THEN "exited" ELSE shells[j].shell
    BY <1>1 DEF Dies, Shells, Stages
<1> QED
    BY <1>1, <1>2 DEF Started

\* KillGroupOnce, the signals and their end: the shell of a becomes s, a goes to r.
LEMMA SignalIInv ==
    ASSUME AgentsAssumption, ShellIInv, NEW a \in Actors, NEW r \in Places, NEW s \in Shells,
           at[a].pos \in {"group", "signal", "term", "grace"},
           at' = [at EXCEPT ![a] = r], shells' = [shells EXCEPT ![at[a].job] = s],
           UNCHANGED <<leave, table>>,
           s.shell = "running" => shells[at[a].job].shell = "running" /\ s.nature = shells[at[a].job].nature,
           s.shell # "none", shells[at[a].job].groupSignaled => s.groupSignaled,
           s.done => s.shell = "reaped",
           \/ r.pos \in {"signal", "term", "grace", "wait"} /\ r.job = at[a].job
              /\ r.after = at[a].after /\ r.left = at[a].left
           \/ r = AtRest,
           r.pos = "signal" => s.groupSignaled /\ ~shells[at[a].job].groupSignaled,
           r.pos \in {"wait", "idle"} => s.shell # "running" \/ s.nature = "wedged",
           r.pos = "wait" => at[a].after # "end"
    PROVE  ShellIInv'
<1> DEFINE j == at[a].job
<1>1. /\ PlaceOf(a) /\ j \in JobIds /\ at[a].left \subseteq JobIds /\ Started(j)
      /\ \A k \in at[a].left : Started(k)
    BY ActorIs DEF AtShell
<1>2. /\ shells' \in [JobIds -> Shells] /\ (\A k \in JobIds : Keeps(k)) /\ DoneIsReaped'
      /\ shells'[j] = s
  <2> HIDE DEF j
  <2>1. /\ shells' = [shells EXCEPT ![j] = s]
        /\ s.shell = "running" => shells[j].shell = "running" /\ s.nature = shells[j].nature
        /\ shells[j].groupSignaled => s.groupSignaled
    BY DEF j
  <2> QED
    BY <1>1, <2>1, OneShell
<1>3. leave' = leave /\ table' = table /\ at'[a] = r
    BY DEF ShellIInv, ShellTypeOK
<1>4. table' \subseteq JobIds /\ \A k \in table' : Started(k)'
    BY <1>2, <1>3 DEF ShellIInv, ShellTypeOK, OnlyStarted, Keeps
<1>5. r.job \in {0, j} /\ (r.pos # "idle" => r.job = j) /\ (\A k \in r.left : k \in at[a].left)
    BY DEF AtRest
<1>6. (r.job # 0 => Started(r.job)') /\ (\A k \in r.left : Started(k)')
    BY <1>1, <1>2, <1>5 DEF Keeps, Started
<1>7. PlaceOf(a)'
    BY <1>1, <1>3 DEF PlaceOf, AtRest, AtShell
<1>8. r.pos \in {"wait", "idle"} => shells'[j].shell # "running" \/ shells'[j].nature = "wedged"
    BY <1>2
<1>9. StopsItsShell(a)'
    BY <1>3, <1>5, <1>8 DEF StopsItsShell, Stoppable
<1>10. a \in JobIds /\ r.pos = "idle" => ~Stoppable(a)'
    BY <1>1, <1>8 DEF PlaceOf, Stoppable
<1>11. r.pos = "signal" => /\ shells'[r.job].groupSignaled
                           /\ \A b \in Actors \ {a} : at[b].pos = "signal" => at[b].job # r.job
    BY <1>2, <1>5 DEF ShellIInv, SignalIsNoted
<1> QED
    BY <1>2, <1>3, <1>4, <1>6, <1>7, <1>9, <1>10, <1>11, MovesOn

LEMMA StopIInv ==
    ASSUME AgentsAssumption, ShellIInv, NEW a \in Actors,
           KillGroupOnce(a) \/ KillShellGroup(a) \/ Terminate(a) \/ Kill(a)
    PROVE  ShellIInv'
<1> DEFINE j == at[a].job
<1>1. /\ at[a] \in Places /\ PlaceOf(a) /\ at \in [Actors -> Places] /\ shells \in [JobIds -> Shells]
      /\ j \in JobIds /\ Started(j) /\ at[a].pos \in {"group", "signal", "term", "grace"}
  <2>1. at[a].pos \in {"group", "signal", "term", "grace"}
    BY DEF KillGroupOnce, KillShellGroup, Terminate, Kill
  <2> QED
    BY <2>1, ActorIs DEF AtShell, ShellIInv, ShellTypeOK
<1>2. ASSUME NEW p \in {"signal", "term", "grace", "wait"}
      PROVE  LET r == [at[a] EXCEPT !.pos = p] IN
             /\ r \in Places /\ r.pos = p /\ r.job = j /\ r.after = at[a].after /\ r.left = at[a].left
             /\ Moves(a, p) => at' = [at EXCEPT ![a] = r]
    BY <1>1 DEF Places, Positions, Moves
<1>3. ASSUME NEW natures
      PROVE  LET s == Dies(j, natures) IN
             /\ s \in Shells /\ s.shell # "none" /\ s.groupSignaled = shells[j].groupSignaled
             /\ s.nature = shells[j].nature
             /\ s.shell = "running" => shells[j].shell = "running" /\ s.nature \notin natures
             /\ s.done => s.shell = "reaped"
    BY <1>1, Signalled
<1>4. CASE KillGroupOnce(a) /\ shells' = shells
    BY <1>4, StepIInv
<1>5. CASE KillGroupOnce(a) /\ shells' # shells
  <2> DEFINE s == [shells[j] EXCEPT !.groupSignaled = TRUE]
             r == [at[a] EXCEPT !.pos = "signal"]
  <2>1. /\ ~shells[j].groupSignaled /\ ~shells[j].done /\ UNCHANGED <<leave, table>> /\ Moves(a, "signal")
        /\ shells' = [shells EXCEPT ![j].groupSignaled = TRUE]
    BY <1>5 DEF KillGroupOnce, Target
  <2>2. /\ s \in Shells /\ s.shell = shells[j].shell /\ s.nature = shells[j].nature /\ s.groupSignaled
        /\ ~s.done /\ shells' = [shells EXCEPT ![j] = s]
    BY ZenonT(60), <1>1, <2>1 DEF Shells
  <2>3. r \in Places /\ r.pos = "signal" /\ r.job = j /\ r.after = at[a].after /\ r.left = at[a].left
        /\ at' = [at EXCEPT ![a] = r]
    BY <1>2, <2>1
  <2>4. shells[j].shell # "none" /\ r.pos # "wait" /\ r.pos # "idle"
    BY <1>1, <2>3 DEF Started
  <2> HIDE DEF s, r
  <2>5. /\ s.shell # "none" /\ (s.done => s.shell = "reaped")
        /\ shells' = [shells EXCEPT ![at[a].job] = s]
        /\ s.shell = "running" => shells[at[a].job].shell = "running" /\ s.nature = shells[at[a].job].nature
    BY <2>2, <2>4
  <2>6. r.pos = "signal" /\ r.job = at[a].job /\ r.after = at[a].after /\ r.left = at[a].left
    BY <2>3
  <2> HIDE DEF j
  <2> QED
    BY <1>1, <2>1, <2>2, <2>3, <2>4, <2>5, <2>6, SignalIInv DEF j
<1>6. CASE KillShellGroup(a)
  <2>1. at' = [at EXCEPT ![a] = [at[a] EXCEPT !.pos = "term"]] /\ UNCHANGED <<leave, table>>
        /\ shells' = [shells EXCEPT ![j] = Dies(j, {"obeys", "traps"})]
    BY <1>2, <1>6 DEF KillShellGroup
  <2> DEFINE s == Dies(j, {"obeys", "traps"})
             r == [at[a] EXCEPT !.pos = "term"]
  <2>2. r \in Places /\ r.pos = "term" /\ r.job = j /\ r.after = at[a].after /\ r.left = at[a].left
    BY <1>2
  <2>3. /\ s \in Shells /\ s.shell # "none" /\ s.groupSignaled = shells[j].groupSignaled
        /\ s.nature = shells[j].nature /\ (s.shell = "running" => shells[j].shell = "running")
        /\ (s.done => s.shell = "reaped")
    BY <1>3
  <2> HIDE DEF s, r
  <2> QED
    BY <1>1, <2>1, <2>2, <2>3, SignalIInv DEF s, r
<1>7. CASE Terminate(a)
  <2>1. at' = [at EXCEPT ![a] = [at[a] EXCEPT !.pos = "grace"]] /\ UNCHANGED <<leave, table>>
        /\ shells' = [shells EXCEPT ![j] = Dies(j, {"obeys"})]
    BY <1>2, <1>7 DEF Terminate
  <2> DEFINE s == Dies(j, {"obeys"})
             r == [at[a] EXCEPT !.pos = "grace"]
  <2>2. r \in Places /\ r.pos = "grace" /\ r.job = j /\ r.after = at[a].after /\ r.left = at[a].left
    BY <1>2
  <2>3. /\ s \in Shells /\ s.shell # "none" /\ s.groupSignaled = shells[j].groupSignaled
        /\ s.nature = shells[j].nature /\ (s.shell = "running" => shells[j].shell = "running")
        /\ (s.done => s.shell = "reaped")
    BY <1>3
  <2> HIDE DEF s, r
  <2> QED
    BY <1>1, <2>1, <2>2, <2>3, SignalIInv DEF s, r
<1>8. CASE Kill(a)
  <2> DEFINE s == Dies(j, {"obeys", "traps"})
  <2>1. Stopped(a) /\ UNCHANGED <<leave, table>> /\ shells' = [shells EXCEPT ![j] = s]
    BY <1>8 DEF Kill
  <2>2. /\ s \in Shells /\ s.shell # "none" /\ s.groupSignaled = shells[j].groupSignaled
        /\ s.nature = shells[j].nature /\ (s.shell = "running" => shells[j].shell = "running")
        /\ (s.done => s.shell = "reaped") /\ (s.shell # "running" \/ s.nature = "wedged")
    BY <1>3 DEF Shells
  <2>3. PICK r \in Places :
           /\ at' = [at EXCEPT ![a] = r]
           /\ \/ r.pos = "wait" /\ r.job = j /\ r.after = at[a].after /\ r.left = at[a].left
                 /\ at[a].after # "end"
              \/ r = AtRest
    BY <1>2, <2>1, Rests DEF Stopped, Becomes, AtRest, Places, Positions
  <2>4. AtRest.pos = "idle"
    BY DEF AtRest
  <2> HIDE DEF s
  <2> QED
    BY <1>1, <2>1, <2>2, <2>3, <2>4, SignalIInv
<1> QED
    BY <1>4, <1>5, <1>6, <1>7, <1>8

LEMMA ExpireIInv ==
    ASSUME AgentsAssumption, ShellIInv, NEW j \in JobIds, Expire(j)
    PROVE  ShellIInv'
<1>1. /\ j \in Actors /\ at[j].pos = "armed" /\ UNCHANGED <<leave, shells, table>>
      /\ at \in [Actors -> Places] /\ leave \in BOOLEAN
    BY DEF Expire, Actors, ShellIInv, ShellTypeOK
<1>2. at[j] \in Places /\ PlaceOf(j) /\ at[j].job = j /\ at[j].after = "end" /\ at[j].left = {} /\ Started(j)
    BY <1>1, ActorIs DEF PlaceOf, AtShell
<1>3. CASE shells[j].done
  <2>1. ~Stoppable(j)
    BY <1>3 DEF ShellIInv, DoneIsReaped, Stoppable
  <2>2. at' = [at EXCEPT ![j] = AtRest] /\ AtRest \in Places /\ MayGo(j, AtRest)
    BY <1>3, <2>1, Rests DEF Expire, Becomes
  <2> QED
    BY <1>1, <2>2, GoesOn DEF MayGo
<1>4. CASE ~shells[j].done
  <2> DEFINE r == [at[j] EXCEPT !.pos = "group", !.kill = ~leave]
  <2>1. /\ r \in Places /\ r.pos = "group" /\ r.job = j /\ r.after = "end" /\ r.left = {}
        /\ at' = [at EXCEPT ![j] = r]
    BY <1>1, <1>2, <1>4 DEF Expire, Becomes, Places, Positions
  <2> HIDE DEF r
  <2>2. MayGo(j, r)
    BY <1>2, <2>1 DEF MayGo
  <2> QED
    BY <1>1, <2>1, <2>2, GoesOn DEF MayGo
<1> QED
    BY <1>3, <1>4

\* A shell starts in the hand of who starts it.
LEMMA StartIInv ==
    ASSUME AgentsAssumption, ShellIInv, NEW a \in Agents, Start(a)
    PROVE  ShellIInv'
<1>1. PICK j \in Free, nature \in {"obeys", "traps", "wedged"} :
         /\ shells' = [shells EXCEPT ![j].shell = "running", ![j].nature = nature]
         /\ at' = [at EXCEPT ![a] = [AtRest EXCEPT !.pos = "register", !.job = j]]
    BY DEF Start, Becomes
<1> DEFINE r == [AtRest EXCEPT !.pos = "register", !.job = j]
<1>2. /\ j \in JobIds /\ ~Started(j) /\ a \in Actors /\ a \notin JobIds /\ j # 0
      /\ leave' = leave /\ table' = table /\ at[a].pos = "idle"
      /\ at \in [Actors -> Places] /\ shells \in [JobIds -> Shells]
    BY DEF Start, Free, Started, Actors, JobIds, AgentsAssumption, ShellIInv, ShellTypeOK
<1>3. /\ r \in Places /\ r.pos = "register" /\ r.job = j /\ r.left = {} /\ r.after = "observe"
    BY <1>2 DEF AtRest, Places, Positions
<1>4. at' \in [Actors -> Places] /\ at'[a] = r /\ \A b \in Actors : b # a => at'[b] = at[b]
    BY <1>1, <1>2, <1>3
<1>5. /\ shells' \in [JobIds -> Shells] /\ shells'[j].shell = "running" /\ shells'[j].done = shells[j].done
      /\ \A k \in JobIds : k # j => shells'[k] = shells[k]
    BY <1>1, <1>2 DEF Shells, Stages
<1>6. ~shells[j].done
    BY <1>2 DEF ShellIInv, DoneIsReaped, Started
\* Nobody had anything to do with it.
<1>7. /\ \A b \in Actors : at[b].job # j /\ j \notin at[b].left
      /\ j \notin table
    BY <1>2 DEF ShellIInv, OnlyStarted
<1>8. ShellTypeOK'
    BY <1>2, <1>4, <1>5 DEF ShellIInv, ShellTypeOK
<1>9. ASSUME NEW b \in Actors PROVE PlaceOf(b)' /\ StopsItsShell(b)'
  <2>1. PlaceOf(b) /\ StopsItsShell(b) /\ at[b].job # j
    BY <1>7 DEF ShellIInv
  <2>2. CASE b = a
    BY <1>2, <1>3, <1>4, <2>2 DEF PlaceOf, StopsItsShell, AtShell
  <2>3. CASE b # a
    <3>1. at'[b] = at[b] /\ (at[b].pos = "wait" => at[b].job \in JobIds)
      BY <1>4, <2>1, <2>3 DEF PlaceOf, AtShell
    <3>2. at[b].pos = "wait" => shells'[at[b].job] = shells[at[b].job]
      BY <1>5, <2>1, <3>1
    <3> QED
      BY <2>1, <3>1, <3>2 DEF PlaceOf, StopsItsShell, Stoppable
  <2> QED
    BY <2>2, <2>3
<1>10. OnlyStarted'
  <2>1. ASSUME NEW k \in JobIds, Started(k) PROVE Started(k)'
    BY <1>5, <2>1 DEF Started
  <2>2. \A k \in table : k \in JobIds /\ Started(k)
    BY DEF ShellIInv, ShellTypeOK, OnlyStarted
  <2>3. ASSUME NEW b \in Actors
        PROVE  /\ at'[b].job # 0 => shells'[at'[b].job].shell # "none"
               /\ \A k \in at'[b].left : Started(k)'
    <3>1. CASE b = a
      BY <1>3, <1>4, <1>5, <3>1
    <3>2. CASE b # a
      <4>1. /\ at'[b] = at[b] /\ at[b].job \in JobIds \cup {0} /\ at[b].left \subseteq JobIds
            /\ at[b].job # 0 => Started(at[b].job)
            /\ \A k \in at[b].left : Started(k)
        BY <1>4, <3>2, ActorIs
      <4>2. at[b].job # 0 => shells'[at[b].job] = shells[at[b].job]
        BY <1>5, <1>7, <4>1
      <4> QED
        BY <2>1, <4>1, <4>2 DEF Started
    <3> QED
      BY <3>1, <3>2
  <2> QED
    BY <1>2, <2>1, <2>2, <2>3 DEF OnlyStarted, Started
<1>11. ASSUME NEW k \in JobIds PROVE Attended(k)'
  <2>1. CASE k = j
    BY <1>3, <1>4, <2>1 DEF Attended
  <2>2. CASE k # j
    <3>1. Attended(k) /\ shells'[k] = shells[k] /\ at'[k] = at[k]
      BY <1>2, <1>4, <1>5, <2>2 DEF ShellIInv, Actors
    <3>2. ASSUME NEW c \in Agents, at[c].pos = "register" PROVE at'[c] = at[c]
      BY <1>2, <1>4, <3>2 DEF Actors
    <3> QED
      BY <3>1, <3>2 DEF Attended, Stoppable
  <2> QED
    BY <2>1, <2>2
<1>12. DoneIsReaped'
    BY <1>5, <1>6 DEF ShellIInv, DoneIsReaped
<1>13. SignalIsNoted'
  <2>1. ASSUME NEW b \in Actors, at'[b].pos = "signal" PROVE shells'[at'[b].job].groupSignaled
    <3>1. b # a /\ at'[b] = at[b] /\ at[b].job \in JobIds
      BY <1>3, <1>4, <2>1 DEF ShellIInv, PlaceOf, AtShell
    <3> QED
      BY <1>5, <1>7, <2>1, <3>1 DEF ShellIInv, SignalIsNoted
  <2> QED
    BY <2>1 DEF SignalIsNoted
<1>14. SignaledOnce'
  <2>1. ASSUME NEW b \in Actors, at'[b].pos = "signal" PROVE at'[b] = at[b]
    BY <1>3, <1>4, <2>1
  <2> QED
    BY <2>1 DEF ShellIInv, SignaledOnce
<1> QED
    BY <1>8, <1>9, <1>10, <1>11, <1>12, <1>13, <1>14 DEF ShellIInv

\* Its registration hands it over to its timeout.
LEMMA RegisterIInv ==
    ASSUME AgentsAssumption, ShellIInv, NEW a \in Actors, Register(a)
    PROVE  ShellIInv'
<1> DEFINE j == at[a].job
           r == [AtRest EXCEPT !.pos = "refresh", !.job = j, !.after = "drop"]
           t == [AtRest EXCEPT !.pos = "armed", !.job = j, !.after = "end"]
<1>1. /\ a \notin JobIds /\ j \in JobIds /\ j \in Actors /\ a # j /\ Started(j) /\ j # 0
      /\ shells' = shells /\ leave' = leave /\ table' = table \cup {j} /\ at[a].pos = "register"
      /\ at' = [at EXCEPT ![a] = r, ![j] = t]
  <2>1. at[a].pos = "register" /\ PlaceOf(a) /\ j \in JobIds /\ Started(j)
    BY ActorIs DEF Register, AtShell
  <2> QED
    BY <2>1 DEF Register, PlaceOf, Actors, JobIds, AgentsAssumption
<1>2. /\ r \in Places /\ r.pos = "refresh" /\ r.job = j /\ r.left = {} /\ r.after = "drop"
      /\ t \in Places /\ t.pos = "armed" /\ t.job = j /\ t.left = {} /\ t.after = "end"
    BY <1>1 DEF AtRest, Places, Positions
<1> HIDE DEF r, t
<1>3. /\ at' \in [Actors -> Places] /\ at'[a] = r /\ at'[j] = t
      /\ \A b \in Actors : b # a /\ b # j => at'[b] = at[b]
    BY <1>1, <1>2 DEF ShellIInv, ShellTypeOK
<1>4. ShellTypeOK'
    BY <1>1, <1>3 DEF ShellIInv, ShellTypeOK
<1>5. ASSUME NEW b \in Actors PROVE PlaceOf(b)' /\ StopsItsShell(b)'
  <2>1. CASE b = a
    BY <1>1, <1>2, <1>3, <2>1 DEF PlaceOf, StopsItsShell, AtShell
  <2>2. CASE b = j
    BY <1>1, <1>2, <1>3, <2>2 DEF PlaceOf, StopsItsShell, AtShell
  <2>3. CASE b # a /\ b # j
    BY <1>1, <1>3, <2>3 DEF ShellIInv, PlaceOf, StopsItsShell, Stoppable
  <2> QED
    BY <2>1, <2>2, <2>3
<1>6. OnlyStarted'
    BY <1>1, <1>2, <1>3 DEF ShellIInv, OnlyStarted, Started
<1>7. ASSUME NEW k \in JobIds PROVE Attended(k)'
  <2>1. CASE k = j
    BY <1>2, <1>3, <2>1 DEF Attended
  <2>2. CASE k # j
    <3>1. Attended(k) /\ at'[k] = at[k] /\ shells'[k] = shells[k]
      BY <1>1, <1>3, <2>2 DEF ShellIInv, Actors
    <3>2. ASSUME NEW c \in Agents, at[c].pos = "register", at[c].job = k PROVE at'[c] = at[c]
      BY <1>1, <1>3, <2>2, <3>2 DEF Actors, AgentsAssumption
    <3> QED
      BY <3>1, <3>2 DEF Attended, Stoppable
  <2> QED
    BY <2>1, <2>2
<1>8. DoneIsReaped'
    BY <1>1 DEF ShellIInv, DoneIsReaped
<1>9. SignalIsNoted' /\ SignaledOnce'
    BY <1>1, <1>2, <1>3 DEF ShellIInv, SignalIsNoted, SignaledOnce
<1> QED
    BY <1>4, <1>5, <1>6, <1>7, <1>8, <1>9 DEF ShellIInv

LEMMA NextShellIInv == AgentsAssumption /\ ShellIInv /\ [ShellNext]_shellVars => ShellIInv'
<1> SUFFICES ASSUME AgentsAssumption, ShellIInv, [ShellNext]_shellVars PROVE ShellIInv'
    OBVIOUS
<1>1. ASSUME NEW c \in Agents, Call(c) PROVE ShellIInv'
    BY <1>1, StartIInv, CallIInv DEF Call
<1>2. ASSUME NEW a \in Actors, Step(a) PROVE ShellIInv'
    BY <1>2, RegisterIInv, StepIInv, StopIInv DEF Step
<1>3. ASSUME NEW j \in JobIds, Watch(j) \/ ShellExits(j) PROVE ShellIInv'
    BY <1>3, WatchIInv, ExpireIInv DEF Watch
<1>4. CASE UNCHANGED shellVars
    BY <1>4 DEF shellVars, ShellIInv, ShellTypeOK, PlaceOf, StopsItsShell, Stoppable, OnlyStarted, Started,
                Attended, DoneIsReaped, SignalIsNoted, SignaledOnce
<1> QED
    BY <1>1, <1>2, <1>3, <1>4 DEF ShellNext

\* No shell that can be stopped is left without someone who stops it, a stop that
\* is over has stopped its shell, and two stops never both signal its group: for
\* any number of agents and shells, with aborts, timeouts and Close at any moment
\* (shell.go, bashJob.stop; workspacetool.go, Workspace.Close).
THEOREM ShellsKeptTheorem == AgentsAssumption => (ShellSpec => []ShellsKept)
<1> SUFFICES ASSUME AgentsAssumption PROVE ShellSpec => []ShellsKept
    OBVIOUS
<1>1. ShellInit => ShellIInv
    BY InitShellIInv
<1>2. ShellIInv /\ [ShellNext]_shellVars => ShellIInv'
    BY NextShellIInv
<1>3. ShellIInv => ShellsKept
    BY ShellsAreKept
<1> QED
    BY <1>1, <1>2, <1>3, PTL DEF ShellSpec
=============================================================================
