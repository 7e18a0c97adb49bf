--------------------------- MODULE TerminalProofs ---------------------------
(***************************************************************************)
(* Proofs about PtyDaemon and its client, for any number of processes,     *)
(* connections, ids, calls and faults.                                     *)
(***************************************************************************)
EXTENDS TerminalClient, TLAPS

Steps == {"idle", "connect", "send", "fresh", "answer", "start", "poll", "ack", "poll ack"}

\* A call that talks to a connection has one.
CallOK ==
    /\ call \in [n : 0 .. MaxCalls, op : {"open", "kill", "look"}, id : Id \cup {0},
                 at : Steps, on : Conn \cup {"none"}, tries : {0, 1}]
    /\ call.at \in {"send", "fresh", "answer", "ack", "poll ack"} => call.on \in Conn

JobOK == \A c \in Conn : thread[c] \in {"spawn", "insert", "opened"} => job[c].id \in Id

\* Whoever is past the lock holds it, and its listener stays until it takes it away.
LockOK ==
    \A p \in Proc :
      /\ place[p] \in {"locked", "cleared", "bound", "serving"} => lock = p
      /\ Listening(p) /\ monitor[p] # "exit" => socket = p
      /\ monitor[p] # "sleep" => Serving(p)
      /\ socket = p => Listening(p)

\* A connection past the queue is of a process that serves.
ServedOK ==
    \A c \in Conn :
      /\ thread[c] # "closed" => Listening(server[c])
      /\ thread[c] \notin {"closed", "queued"} => Serving(server[c])

\* Ids in use, and about to be, are below the next one, on disk as in the process.
IdsOK ==
    /\ \A p \in Proc : Serving(p) => next[p] = ids
    /\ \A i \in Id : born[i] <= 1 /\ (born[i] > 0 => i < ids)
    /\ \A c \in Conn : thread[c] = "spawn" => job[c].id < ids /\ born[job[c].id] = 0
    /\ \A c, d \in Conn :
         thread[c] = "spawn" /\ thread[d] = "spawn" /\ job[c].id = job[d].id => c = d

\* What the monitor has seen is still so if nobody has touched the process since.
QuietOK ==
    \A p \in Proc : quiet[p] =>
      /\ monitor[p] \in {"clients", "clock"} => table[p] = {}
      /\ monitor[p] = "clock" => \A c \in Of(p) : thread[c] \in {"queued", "counted"}

Types == TypeOK /\ CallOK /\ JobOK
IInv  == Types /\ LockOK /\ ServedOK /\ IdsOK /\ QuietOK

-----------------------------------------------------------------------------
(* Types *)

Threads == {"closed", "queued", "counted", "hello", "control", "look", "open", "spawn",
            "insert", "opened", "kill", "remove", "reap"}
Open == Threads \ {"closed"}
Places == {"off", "started", "locked", "cleared", "bound", "serving"}
Rounds == {"sleep", "clients", "clock", "leaving", "exit"}

ProcType ==
    /\ place \in [Proc -> {"off", "started", "locked", "cleared", "bound", "serving"}]
    /\ lock \in Proc \cup {"none"} /\ socket \in Proc \cup {"none", "dead"}
    /\ ids \in Id /\ next \in [Proc -> Id]
    /\ monitor \in [Proc -> {"sleep", "clients", "clock", "leaving", "exit"}]

TableType == table \in [Proc -> SUBSET Id] /\ quiet \in [Proc -> BOOLEAN]

SessionType ==
    /\ shell \in [Id -> {"none", "runs", "hup", "job", "gone", "lost"}]
    /\ pump \in [Id -> {"none", "reads", "done"}]
    /\ born \in [Id -> Nat]

ConnType ==
    /\ thread \in [Conn -> Threads]
    /\ server \in [Conn -> Proc \cup {"none"}] /\ job \in [Conn -> Line]
    /\ in \in [Conn -> Seq(Line)] /\ out \in [Conn -> Seq(Reply)]
    /\ far \in [Conn -> {"open", "closed"}]
    /\ \A c \in Conn : thread[c] = "closed" <=> server[c] = "none"

TakenType == taken \in [Call -> Nat]

DaemonType == ProcType /\ TableType /\ SessionType /\ ConnType /\ TakenType

ClientType ==
    /\ app \in {"new", "up", "down"} /\ control \in Conn \cup {"none"}
    /\ asked \subseteq Id /\ mishap \in BOOLEAN /\ stranger \subseteq Conn

LEMMA TypeParts == Types <=> DaemonType /\ ClientType /\ CallOK /\ JobOK
<1>1. CallOK => call.n \in 0 .. MaxCalls /\ call.on \in Conn \cup {"none"}
  BY DEF CallOK
<1> QED
  BY <1>1 DEF Types, TypeOK, DaemonType, ProcType, TableType, SessionType, ConnType, TakenType,
              ClientType, Threads

LEMMA TypePartsNext == Types' <=> DaemonType' /\ ClientType' /\ CallOK' /\ JobOK'
<1>1. CallOK' => call'.n \in 0 .. MaxCalls /\ call'.on \in Conn \cup {"none"}
  BY DEF CallOK
<1> QED
  BY <1>1 DEF Types, TypeOK, DaemonType, ProcType, TableType, SessionType, ConnType, TakenType,
              ClientType, Threads

LEMMA Lines ==
  /\ NoJob \in Line /\ 0 \in Id \cup {0} /\ 1 \in Id
  /\ \A q \in Seq(Line) : q # <<>> => Head(q) \in Line /\ Tail(q) \in Seq(Line)
  /\ \A q \in Seq(Reply) : q # <<>> => Head(q) \in Reply /\ Tail(q) \in Seq(Reply)
  /\ \A q \in Seq(Reply), r \in Reply : Append(q, r) \in Seq(Reply)
  /\ \A q \in Seq(Line), l \in Line : Append(q, l) \in Seq(Line)
  /\ <<>> \in Seq(Line) /\ <<>> \in Seq(Reply)
<1>1. NoJob \in Line /\ 1 \in Id
  BY DaemonAssumption DEF NoJob, Hello, Line, Id
<1> QED
  BY <1>1

\* A process ends: what it leaves is well typed.
LEMMA EndsType ==
  ASSUME DaemonType, JobOK, NEW p \in Proc, Ends(p)
  PROVE  DaemonType' /\ JobOK'
<1>1. ProcType'
  BY Lines DEF DaemonType, ProcType, Ends
<1>2. TableType' /\ TakenType'
  BY DEF DaemonType, TableType, TakenType, Ends
<1>3. SessionType'
  BY DEF DaemonType, SessionType, Ends
<1>4. ConnType' /\ JobOK'
  BY Lines, DaemonAssumption DEF DaemonType, ConnType, JobOK, Ends, Of, Threads
<1> QED
  BY <1>1, <1>2, <1>3, <1>4 DEF DaemonType

LEMMA GoesType ==
  ASSUME ConnType, NEW c \in Conn, NEW from \in Open, NEW to \in Open, Goes(c, from, to),
         job' \in [Conn -> Line], in' \in [Conn -> Seq(Line)], out' \in [Conn -> Seq(Reply)]
  PROVE  ConnType'
BY DEF ConnType, Goes, Open

LEMMA ClosesType ==
  ASSUME DaemonType, JobOK, NEW c \in Conn, NEW from \in Open, Closes(c, from), UNCHANGED out
  PROVE  DaemonType' /\ JobOK'
<1>1. ConnType' /\ JobOK'
  BY Lines DEF DaemonType, ConnType, JobOK, Closes, Open, Threads
<1>2. TableType'
  BY DEF DaemonType, TableType, Closes, Touched
<1> QED
  BY <1>1, <1>2 DEF DaemonType, Closes, ProcType, SessionType, TakenType, procVars, sessionVars

LEMMA AnswersType ==
  ASSUME DaemonType, JobOK, NEW c \in Conn, NEW from \in Open, NEW r \in Reply, Answers(c, from, r)
  PROVE  DaemonType' /\ JobOK'
<1>1. CASE far[c] = "closed" /\ Closes(c, from) /\ UNCHANGED out
  BY <1>1, ClosesType
<1>2. CASE ~(far[c] = "closed" /\ Closes(c, from) /\ UNCHANGED out)
  <2>1. /\ Goes(c, from, "control") /\ out' = [out EXCEPT ![c] = Append(@, r)]
        /\ quiet' = Touched(server[c]) /\ job' = [job EXCEPT ![c] = NoJob]
        /\ UNCHANGED <<table, in, sessionVars, taken>>
    BY <1>2 DEF Answers
  <2>2. ConnType'
    <3>1. job' \in [Conn -> Line] /\ in' \in [Conn -> Seq(Line)] /\ out' \in [Conn -> Seq(Reply)]
      BY <2>1, Lines DEF DaemonType, ConnType
    <3> QED
      BY <2>1, <3>1, GoesType DEF DaemonType, Open, Threads
  <2>3. TableType'
    BY <2>1 DEF DaemonType, TableType, Touched
  <2>4. JobOK'
    BY <2>1 DEF DaemonType, ConnType, JobOK, Goes
  <2> QED
    BY <2>1, <2>2, <2>3, <2>4
       DEF DaemonType, Goes, ProcType, SessionType, TakenType, procVars, sessionVars
<1> QED
  BY <1>1, <1>2

LEMMA DoneType ==
  ASSUME DaemonType, NEW c \in Conn, NEW ok \in BOOLEAN, NEW list \in SUBSET Id
  PROVE  Done(c, ok, list) \in Reply
<1>1. job[c] \in Line
  BY DEF DaemonType, ConnType
<1> QED
  BY <1>1 DEF Done, Reply, Line

StepEnd == DaemonType' /\ JobOK'

\* A thread's step that only moves on, its other effects being well typed.
LEMMA MovesType ==
  ASSUME DaemonType, JobOK, NEW c \in Conn, NEW from \in Open, NEW to \in Open, Goes(c, from, to),
         job' \in [Conn -> Line], in' \in [Conn -> Seq(Line)], out' \in [Conn -> Seq(Reply)],
         TableType', SessionType', TakenType',
         \A d \in Conn : d # c => job'[d] = job[d],
         to \in {"spawn", "insert", "opened"} => job'[c].id \in Id
  PROVE  StepEnd
<1>1. ConnType'
  BY GoesType DEF DaemonType
<1>2. JobOK'
  BY DEF DaemonType, ConnType, JobOK, Goes
<1> QED
  BY <1>1, <1>2 DEF DaemonType, StepEnd, Goes, ProcType, procVars

LEMMA ThreadType ==
  ASSUME DaemonType, JobOK, NEW c \in Conn, ThreadStep(c) \/ CannotAllocate(c) \/ CannotSpawn(c)
  PROVE  StepEnd
<1> USE DEF StepEnd
<1>0. /\ thread[c] \in Threads /\ job[c] \in Line /\ in[c] \in Seq(Line) /\ out[c] \in Seq(Reply)
      /\ job \in [Conn -> Line] /\ in \in [Conn -> Seq(Line)] /\ out \in [Conn -> Seq(Reply)]
      /\ TableType /\ SessionType /\ TakenType
  BY DEF DaemonType, ConnType
<1>1. CASE Accept(c)
  BY <1>0, <1>1, MovesType DEF Accept, TableType, SessionType, TakenType, sessionVars, Open, Threads
<1>2. CASE Greet(c)
  <2>1. TableType'
    BY <1>0, <1>2 DEF Greet, TableType, Touched
  <2> QED
    BY <1>0, <1>2, <2>1, MovesType DEF Greet, SessionType, TakenType, sessionVars, Open, Threads
<1>3. CASE Acked(c)
  <2>1. CASE far[c] = "closed" /\ Closes(c, "hello") /\ UNCHANGED out
    BY <2>1, ClosesType DEF Open, Threads
  <2>2. CASE ~(far[c] = "closed" /\ Closes(c, "hello") /\ UNCHANGED out)
    <3> DEFINE r == [ok |-> TRUE, ids |-> {}, call |-> 0]
    <3>1. r \in Reply
      BY DaemonAssumption DEF Reply
    <3>2. /\ Goes(c, "hello", "control") /\ out' = [out EXCEPT ![c] = Append(@, r)]
          /\ in' = [in EXCEPT ![c] = Tail(@)] /\ in[c] # <<>>
          /\ UNCHANGED <<table, quiet, sessionVars, job, taken>>
      BY <1>3, <2>2 DEF Acked
    <3>3. in' \in [Conn -> Seq(Line)] /\ out' \in [Conn -> Seq(Reply)]
      BY <1>0, <3>1, <3>2, Lines
    <3> HIDE DEF r
    <3> QED
      BY <1>0, <3>2, <3>3, MovesType DEF TableType, SessionType, TakenType, sessionVars, Open, Threads
  <2> QED
    BY <2>1, <2>2
<1>4. CASE NoHello(c)
  BY <1>4, ClosesType DEF NoHello, Open, Threads
<1>5. CASE TakeRequest(c)
  <2> DEFINE line == Head(in[c])
  <2>1. /\ Goes(c, "control", line.op) /\ job' = [job EXCEPT ![c] = line]
        /\ taken' = [taken EXCEPT ![line.call] = @ + 1] /\ in' = [in EXCEPT ![c] = Tail(@)]
        /\ in[c] # <<>> /\ UNCHANGED <<table, quiet, sessionVars, out>>
    BY <1>5 DEF TakeRequest
  <2>2. line \in Line /\ in' \in [Conn -> Seq(Line)]
    BY <1>0, <2>1, Lines
  <2>3. line.op \in Open /\ line.op \notin {"spawn", "insert", "opened"}
    BY <2>2 DEF Line, Open, Threads
  <2> HIDE DEF line
  <2>4. job' \in [Conn -> Line] /\ \A d \in Conn : d # c => job'[d] = job[d]
    BY <1>0, <2>1, <2>2
  <2>5. TakenType'
    <3>1. line.call \in Call => taken[line.call] + 1 \in Nat
      BY <1>0 DEF TakenType
    <3> QED
      BY <1>0, <2>1, <3>1 DEF TakenType
  <2> QED
    BY <1>0, <2>1, <2>2, <2>3, <2>4, <2>5, MovesType DEF TableType, SessionType, sessionVars, Open, Threads
<1>6. CASE EndOfLines(c)
  BY <1>6, ClosesType DEF EndOfLines, Open, Threads
<1>7. CASE Look(c)
  <2>1. table[server[c]] \in SUBSET Id
    BY <1>7 DEF Look, DaemonType, ConnType, TableType
  <2> QED
    BY <1>7, <2>1, DoneType, AnswersType DEF Look, Open, Threads
<1>8. CASE Allocate(c)
  <2>1. CASE Answers(c, "open", Done(c, FALSE, {}))
    BY <2>1, DoneType, AnswersType DEF Open, Threads
  <2>2. CASE ~Answers(c, "open", Done(c, FALSE, {}))
    <3> DEFINE p == server[c]
    <3>1. /\ thread[c] = "open" /\ HasIds(p) /\ ids' = Persisted(p) /\ next' = [next EXCEPT ![p] = @ + 1]
          /\ job' = [job EXCEPT ![c].id = next[p]] /\ thread' = [thread EXCEPT ![c] = "spawn"]
          /\ UNCHANGED <<place, lock, socket, monitor, table, quiet, sessionVars,
                         server, in, out, far, taken>>
      BY <1>8, <2>2 DEF Allocate
    <3>2. p \in Proc /\ next[p] \in Id /\ next[p] + 1 \in Id
      BY <3>1, DaemonAssumption DEF DaemonType, ConnType, ProcType, HasIds, Id
    <3>3. ProcType'
      BY <3>1, <3>2 DEF DaemonType, ProcType, Persisted
    <3>4. [job[c] EXCEPT !.id = next[p]] \in Line /\ [job[c] EXCEPT !.id = next[p]].id = next[p]
      BY <1>0, <3>2 DEF Line
    <3>5. job' = [job EXCEPT ![c] = [job[c] EXCEPT !.id = next[p]]]
      BY <3>1
    <3> HIDE DEF p
    <3>6. ConnType' /\ JobOK'
      BY <1>0, <3>1, <3>2, <3>4, <3>5 DEF DaemonType, ConnType, JobOK, Threads
    <3> QED
      BY <1>0, <3>1, <3>3, <3>6 DEF DaemonType, TableType, SessionType, TakenType, sessionVars
  <2> QED
    BY <2>1, <2>2
<1>9. CASE SpawnShell(c)
  <2>1. job[c].id \in Id
    BY <1>9 DEF SpawnShell, Goes, JobOK
  <2>2. SessionType'
    <3>1. born[job[c].id] + 1 \in Nat
      BY <1>0, <2>1 DEF SessionType
    <3> QED
      BY <1>0, <1>9, <2>1, <3>1 DEF SpawnShell, SessionType
  <2> QED
    BY <1>0, <1>9, <2>1, <2>2, MovesType DEF SpawnShell, TableType, TakenType, Open, Threads
<1>10. CASE Insert(c)
  <2>1. job[c].id \in Id
    BY <1>10 DEF Insert, Goes, JobOK
  <2>2. SessionType' /\ TableType'
    BY <1>0, <1>10, <2>1 DEF Insert, SessionType, TableType, Touched
  <2> QED
    BY <1>0, <1>10, <2>1, <2>2, MovesType DEF Insert, TakenType, Open, Threads
<1>11. CASE Opened(c)
  <2>1. thread[c] = "opened"
    BY <1>11 DEF Opened, Answers, Goes, Closes
  <2>2. {job[c].id} \in SUBSET Id
    BY <2>1 DEF JobOK
  <2> QED
    BY <1>11, <2>2, DoneType, AnswersType DEF Opened, Open, Threads
<1>12. CASE HangUp(c)
  <2>1. CASE Answers(c, "kill", Done(c, FALSE, {}))
    BY <2>1, DoneType, AnswersType DEF Open, Threads
  <2>2. CASE ~Answers(c, "kill", Done(c, FALSE, {}))
    <3>1. SessionType'
      BY <1>0, <1>12, <2>2 DEF HangUp, SessionType
    <3> QED
      BY <1>0, <1>12, <2>2, <3>1, MovesType DEF HangUp, TableType, TakenType, Open, Threads
  <2> QED
    BY <2>1, <2>2
<1>13. CASE Remove(c)
  <2>1. CASE Answers(c, "remove", Done(c, FALSE, {}))
    BY <2>1, DoneType, AnswersType DEF Open, Threads
  <2>2. CASE ~Answers(c, "remove", Done(c, FALSE, {}))
    <3>1. TableType'
      BY <1>0, <1>13, <2>2 DEF Remove, TableType
    <3> QED
      BY <1>0, <1>13, <2>2, <3>1, MovesType DEF Remove, SessionType, TakenType, sessionVars, Open, Threads
  <2> QED
    BY <2>1, <2>2
<1>14. CASE Reap(c)
  BY <1>14, DoneType, AnswersType DEF Reap, Open, Threads
<1>15. CASE CannotAllocate(c) \/ CannotSpawn(c)
  BY <1>15, DoneType, AnswersType DEF CannotAllocate, CannotSpawn, Open, Threads
<1> QED
  BY <1>1, <1>2, <1>3, <1>4, <1>5, <1>6, <1>7, <1>8, <1>9, <1>10, <1>11, <1>12, <1>13, <1>14, <1>15
     DEF ThreadStep

LEMMA StartType ==
  ASSUME DaemonType, JobOK, NEW p \in Proc, StartStep(p)
  PROVE  StepEnd
<1>1. CASE Ends(p)
  BY <1>1, EndsType DEF StepEnd
<1>2. CASE ~Ends(p)
  <2>1. /\ UNCHANGED <<ids, monitor, table, quiet, sessionVars, connVars, taken>>
        /\ ProcType'
    BY <1>2, DaemonAssumption
       DEF StartStep, TakeLock, RemoveStale, Removed, Bind, Load, DaemonType, ProcType
  <2> QED
    BY <2>1 DEF StepEnd, DaemonType, TableType, SessionType, ConnType, TakenType, JobOK,
                sessionVars, connVars
<1> QED
  BY <1>1, <1>2

LEMMA MonitorType ==
  ASSUME DaemonType, JobOK, NEW p \in Proc, MonitorStep(p) \/ GracePasses(p)
  PROVE  StepEnd
<1>1. CASE Ends(p)
  BY <1>1, EndsType DEF StepEnd
<1>2. CASE ~Ends(p)
  <2>1. UNCHANGED <<place, lock, ids, next, table, sessionVars, connVars, taken>>
    BY <1>2 DEF MonitorStep, GracePasses, LookAtSessions, LookAtClients, LookAtClock, RemoveSocket,
                IdleExit, MonitorMoves, procVars
  <2>2. /\ monitor' \in [Proc -> {"sleep", "clients", "clock", "leaving", "exit"}]
        /\ quiet' \in [Proc -> BOOLEAN] /\ socket' \in {socket, "none"}
    BY <1>2 DEF MonitorStep, GracePasses, LookAtSessions, LookAtClients, LookAtClock, RemoveSocket,
                IdleExit, MonitorMoves, procVars, Touched, DaemonType, ProcType, TableType
  <2>3. ProcType' /\ TableType'
    BY <2>1, <2>2 DEF DaemonType, ProcType, TableType
  <2> QED
    BY <2>1, <2>3 DEF StepEnd, DaemonType, SessionType, ConnType, TakenType, JobOK,
                      sessionVars, connVars
<1> QED
  BY <1>1, <1>2

LEMMA SessionStepType ==
  ASSUME DaemonType, JobOK, NEW i \in Id, PumpStep(i) \/ ShellEnds(i)
  PROVE  StepEnd
<1>1. UNCHANGED <<procVars, born, connVars, taken>>
  BY DEF PumpStep, PumpEnds, ShellEnds
<1>2. /\ shell' \in [Id -> {"none", "runs", "hup", "job", "gone", "lost"}]
      /\ pump' \in [Id -> {"none", "reads", "done"}]
  BY DEF PumpStep, PumpEnds, ShellEnds, DaemonType, SessionType
<1>3. TableType'
  BY DEF PumpStep, PumpEnds, ShellEnds, Touched, DaemonType, TableType
<1> QED
  BY <1>1, <1>2, <1>3 DEF StepEnd, DaemonType, SessionType, ProcType, ConnType, TakenType, JobOK,
                          procVars, connVars

-----------------------------------------------------------------------------
(* What the steps leave alone *)

\* What a thread's step may do, in as far as the invariants look at it.
LEMMA ThreadFrame ==
  ASSUME DaemonType, NEW c \in Conn, ThreadStep(c) \/ CannotAllocate(c) \/ CannotSpawn(c)
  PROVE  /\ UNCHANGED <<place, lock, socket, monitor, far>>
         /\ \A d \in Conn : d # c => /\ thread'[d] = thread[d] /\ server'[d] = server[d]
                                     /\ job'[d] = job[d]
         /\ (thread'[c] = "closed" /\ server'[c] = "none") \/ server'[c] = server[c]
         /\ thread[c] # "closed" /\ thread'[c] # "queued"
         /\ thread[c] = "queued" => Serving(server[c]) /\ thread'[c] = "counted"
<1>0. thread[c] \in Threads /\ in[c] \in Seq(Line) /\ server \in [Conn -> Proc \cup {"none"}]
      /\ thread \in [Conn -> Threads] /\ job \in [Conn -> Line]
  BY DEF DaemonType, ConnType
<1>1. ASSUME NEW from \in Open, Closes(c, from)
      PROVE  /\ UNCHANGED <<place, lock, socket, monitor, far>>
             /\ \A d \in Conn : d # c => /\ thread'[d] = thread[d] /\ server'[d] = server[d]
                                         /\ job'[d] = job[d]
             /\ thread'[c] = "closed" /\ server'[c] = "none" /\ thread[c] = from
  BY <1>0, <1>1 DEF Closes, procVars
<1>2. ASSUME NEW from, NEW to, Goes(c, from, to), \A d \in Conn : d # c => job'[d] = job[d]
      PROVE  /\ UNCHANGED <<place, lock, socket, monitor, far>>
             /\ \A d \in Conn : d # c => /\ thread'[d] = thread[d] /\ server'[d] = server[d]
                                         /\ job'[d] = job[d]
             /\ thread'[c] = to /\ thread[c] = from /\ server'[c] = server[c]
  BY <1>0, <1>2 DEF Goes, procVars
<1>3. ASSUME NEW from \in {"look", "open", "spawn", "opened", "kill", "remove", "reap"},
             NEW r, Answers(c, from, r)
      PROVE  /\ UNCHANGED <<place, lock, socket, monitor, far>>
             /\ \A d \in Conn : d # c => /\ thread'[d] = thread[d] /\ server'[d] = server[d]
                                         /\ job'[d] = job[d]
             /\ (thread'[c] = "closed" /\ server'[c] = "none") \/ server'[c] = server[c]
             /\ thread[c] = from /\ thread'[c] # "queued"
  <2>1. CASE Closes(c, from)
    BY <2>1, <1>1 DEF Open, Threads
  <2>2. CASE ~Closes(c, from)
    <3>1. Goes(c, from, "control") /\ job' = [job EXCEPT ![c] = NoJob]
      BY <1>3, <2>2 DEF Answers
    <3>2. \A d \in Conn : d # c => job'[d] = job[d]
      BY <1>0, <3>1
    <3> QED
      BY <1>2, <3>1, <3>2
  <2> QED
    BY <2>1, <2>2
<1>4. CASE Accept(c) \/ Greet(c)
  BY <1>2, <1>4 DEF Accept, Greet
<1>5. CASE Acked(c)
  BY <1>1, <1>2, <1>5 DEF Acked, Open, Threads
<1>6. CASE NoHello(c) \/ EndOfLines(c)
  BY <1>1, <1>6 DEF NoHello, EndOfLines, Open, Threads
<1>7. CASE TakeRequest(c)
  <2>1. Head(in[c]) \in Line
    BY <1>0, <1>7, Lines DEF TakeRequest
  <2>2. Goes(c, "control", Head(in[c]).op) /\ \A d \in Conn : d # c => job'[d] = job[d]
    BY <1>0, <1>7 DEF TakeRequest
  <2>3. Head(in[c]).op # "queued"
    BY <2>1 DEF Line
  <2> QED
    BY <2>2, <2>3, <1>2
<1>8. CASE Look(c) \/ Opened(c) \/ Reap(c) \/ CannotAllocate(c) \/ CannotSpawn(c)
  <2>1. \E from \in {"look", "open", "spawn", "opened", "kill", "remove", "reap"} :
          \E r : Answers(c, from, r)
    BY <1>8 DEF Look, Opened, Reap, CannotAllocate, CannotSpawn
  <2> QED
    BY <2>1, <1>3
<1>9. CASE Allocate(c)
  <2>1. CASE Answers(c, "open", Done(c, FALSE, {}))
    BY <1>3, <2>1
  <2>2. CASE ~Answers(c, "open", Done(c, FALSE, {}))
    BY <1>0, <1>9, <2>2 DEF Allocate
  <2> QED
    BY <2>1, <2>2
<1>10. CASE SpawnShell(c) \/ Insert(c)
  BY <1>2, <1>10 DEF SpawnShell, Insert
<1>11. CASE HangUp(c)
  <2>1. CASE Answers(c, "kill", Done(c, FALSE, {}))
    BY <1>3, <2>1
  <2>2. CASE ~Answers(c, "kill", Done(c, FALSE, {}))
    <3>1. Goes(c, "kill", "remove") /\ job' = job
      BY <1>11, <2>2 DEF HangUp
    <3> QED
      BY <1>2, <3>1
  <2> QED
    BY <2>1, <2>2
<1>12. CASE Remove(c)
  <2>1. CASE Answers(c, "remove", Done(c, FALSE, {}))
    BY <1>3, <2>1
  <2>2. CASE ~Answers(c, "remove", Done(c, FALSE, {}))
    <3>1. Goes(c, "remove", "reap") /\ job' = job
      BY <1>12, <2>2 DEF Remove
    <3> QED
      BY <1>2, <3>1
  <2> QED
    BY <2>1, <2>2
<1> QED
  BY <1>4, <1>5, <1>6, <1>7, <1>8, <1>9, <1>10, <1>11, <1>12 DEF ThreadStep

\* Ids move on in one step, and are used in another.
LEMMA ThreadIds ==
  ASSUME DaemonType, JobOK, NEW c \in Conn, ThreadStep(c) \/ CannotAllocate(c) \/ CannotSpawn(c)
  PROVE  \/ UNCHANGED <<ids, next, born>> /\ thread'[c] # "spawn"
         \/ /\ thread[c] = "open" /\ ids' = next[server[c]] + 1
            /\ next' = [next EXCEPT ![server[c]] = @ + 1]
            /\ job'[c].id = next[server[c]] /\ UNCHANGED born
         \/ /\ thread[c] = "spawn" /\ thread'[c] = "insert" /\ UNCHANGED <<ids, next>>
            /\ born' = [born EXCEPT ![job[c].id] = @ + 1]
<1>0. thread[c] \in Threads /\ in[c] \in Seq(Line) /\ job[c] \in Line
      /\ thread \in [Conn -> Threads] /\ job \in [Conn -> Line]
  BY DEF DaemonType, ConnType
<1>1. ASSUME NEW from, Closes(c, from)
      PROVE  UNCHANGED <<ids, next, born>> /\ thread'[c] # "spawn"
  BY <1>0, <1>1 DEF Closes, procVars, sessionVars
<1>2. ASSUME NEW from, NEW r, Answers(c, from, r)
      PROVE  UNCHANGED <<ids, next, born>> /\ thread'[c] # "spawn"
  <2>1. CASE Closes(c, from)
    BY <2>1, <1>1
  <2>2. CASE ~Closes(c, from)
    BY <1>0, <1>2, <2>2 DEF Answers, Goes, procVars, sessionVars
  <2> QED
    BY <2>1, <2>2
<1>3. CASE Accept(c) \/ Greet(c) \/ Insert(c)
  BY <1>0, <1>3 DEF Accept, Greet, Insert, Goes, procVars, sessionVars
<1>4. CASE Acked(c) \/ NoHello(c) \/ EndOfLines(c)
  <2>1. CASE \E from : Closes(c, from)
    BY <2>1, <1>1
  <2>2. CASE ~\E from : Closes(c, from)
    BY <1>0, <1>4, <2>2 DEF Acked, NoHello, EndOfLines, Goes, procVars, sessionVars
  <2> QED
    BY <2>1, <2>2
<1>5. CASE TakeRequest(c)
  <2>1. Head(in[c]) \in Line
    BY <1>0, <1>5, Lines DEF TakeRequest
  <2>2. Goes(c, "control", Head(in[c]).op) /\ UNCHANGED sessionVars
    BY <1>5 DEF TakeRequest
  <2>3. Head(in[c]).op # "spawn"
    BY <2>1 DEF Line
  <2> QED
    BY <1>0, <2>2, <2>3 DEF Goes, procVars, sessionVars
<1>6. CASE \E from, r : Answers(c, from, r)
  BY <1>6, <1>2
<1>7. CASE Look(c) \/ Opened(c) \/ Reap(c) \/ CannotAllocate(c) \/ CannotSpawn(c)
  BY <1>6, <1>7 DEF Look, Opened, Reap, CannotAllocate, CannotSpawn
<1>8. CASE Allocate(c) /\ ~\E from, r : Answers(c, from, r)
  <2>1. /\ thread[c] = "open" /\ ids' = Persisted(server[c])
        /\ next' = [next EXCEPT ![server[c]] = @ + 1]
        /\ job' = [job EXCEPT ![c].id = next[server[c]]] /\ UNCHANGED sessionVars
    BY <1>8 DEF Allocate
  <2>2. job'[c] = [job[c] EXCEPT !.id = next[server[c]]]
    BY <1>0, <2>1
  <2>3. job'[c].id = next[server[c]]
    BY <1>0, <2>2 DEF Line
  <2> QED
    BY <2>1, <2>3 DEF Persisted, sessionVars
<1>9. CASE SpawnShell(c)
  BY <1>0, <1>9 DEF SpawnShell, Goes, procVars
<1>10. CASE (HangUp(c) \/ Remove(c)) /\ ~\E from, r : Answers(c, from, r)
  <2>1. /\ Goes(c, "kill", "remove") \/ Goes(c, "remove", "reap")
        /\ UNCHANGED born
    BY <1>10 DEF HangUp, Remove, sessionVars
  <2> QED
    BY <1>0, <2>1 DEF Goes, procVars
<1> QED
  BY <1>3, <1>4, <1>5, <1>6, <1>7, <1>8, <1>9, <1>10 DEF ThreadStep

\* Whatever ends the monitor's right to exit touches the process.
LEMMA ThreadQuiet ==
  ASSUME DaemonType, JobOK, NEW c \in Conn, ThreadStep(c) \/ CannotAllocate(c) \/ CannotSpawn(c),
         NEW p \in Proc, quiet'[p]
  PROVE  /\ quiet[p] /\ table'[p] \subseteq table[p]
         /\ server[c] = p => thread[c] # "counted"
<1>0. /\ quiet \in [Proc -> BOOLEAN] /\ table \in [Proc -> SUBSET Id]
      /\ server[c] \in Proc \cup {"none"}
  BY DEF DaemonType, ConnType, TableType
<1>1. ASSUME NEW q, quiet' = Touched(q)
      PROVE  quiet[p] /\ q # p
  BY <1>0, <1>1 DEF Touched
<1>2. ASSUME NEW from, Closes(c, from)
      PROVE  quiet[p] /\ table' = table /\ server[c] # p
  BY <1>1, <1>2 DEF Closes
<1>3. ASSUME NEW from, NEW r, Answers(c, from, r)
      PROVE  quiet[p] /\ table' = table /\ server[c] # p
  BY <1>1, <1>2, <1>3 DEF Answers
<1>4. CASE Accept(c)
  BY <1>4 DEF Accept, Goes
<1>5. CASE Greet(c)
  BY <1>1, <1>5 DEF Greet
<1>6. CASE Acked(c) \/ NoHello(c) \/ EndOfLines(c) \/ TakeRequest(c)
  BY <1>2, <1>6 DEF Acked, NoHello, EndOfLines, TakeRequest, Goes
<1>7. CASE \E from, r : Answers(c, from, r)
  BY <1>7, <1>3
<1>8. CASE Look(c) \/ Opened(c) \/ Reap(c) \/ CannotAllocate(c) \/ CannotSpawn(c)
  BY <1>7, <1>8 DEF Look, Opened, Reap, CannotAllocate, CannotSpawn
<1>9. CASE Allocate(c) \/ SpawnShell(c)
  BY <1>7, <1>9 DEF Allocate, SpawnShell, Goes
<1>10. CASE Insert(c)
  <2>1. quiet' = Touched(server[c]) /\ table' = [table EXCEPT ![server[c]] = @ \cup {job[c].id}]
    BY <1>10 DEF Insert
  <2>2. quiet[p] /\ server[c] # p
    BY <2>1, <1>1
  <2> QED
    BY <1>0, <2>1, <2>2
<1>11. CASE HangUp(c) \/ Remove(c)
  <2>1. CASE ~\E from, r : Answers(c, from, r)
    <3>1. /\ thread[c] \in {"kill", "remove"} /\ UNCHANGED quiet
          /\ table' = table \/ table' = [table EXCEPT ![server[c]] = @ \ {job[c].id}]
      BY <1>11, <2>1 DEF HangUp, Remove, Goes
    <3> QED
      BY <1>0, <3>1
  <2> QED
    BY <2>1, <1>7
<1> QED
  BY <1>4, <1>5, <1>6, <1>7, <1>8, <1>9, <1>10, <1>11 DEF ThreadStep

-----------------------------------------------------------------------------
(* The invariants *)

Safe == LockOK /\ ServedOK /\ IdsOK /\ QuietOK

LEMMA ThreadSafe ==
  ASSUME DaemonType, JobOK, Safe, NEW c \in Conn, ThreadStep(c) \/ CannotAllocate(c) \/ CannotSpawn(c)
  PROVE  Safe'
<1> DEFINE p == server[c]
<1>0. /\ thread \in [Conn -> Threads] /\ server \in [Conn -> Proc \cup {"none"}]
      /\ born \in [Id -> Nat] /\ ids \in Nat /\ next \in [Proc -> Nat] /\ "none" \notin Proc
      /\ \A d \in Conn : thread[d] = "closed" <=> server[d] = "none"
  BY DaemonAssumption DEF DaemonType, ConnType, SessionType, ProcType, Id
<1>1. UNCHANGED <<place, lock, socket, monitor>>
  BY ThreadFrame
<1>2. LockOK'
  BY <1>1 DEF Safe, LockOK, Listening, Serving
<1>3. p \in Proc /\ (thread[c] # "queued" => Serving(p)) /\ Listening(p)
  BY <1>0, ThreadFrame DEF Safe, ServedOK
<1>4. ServedOK'
  <2> SUFFICES ASSUME NEW d \in Conn
               PROVE  /\ thread'[d] # "closed" => place[server'[d]] \in {"bound", "serving"}
                      /\ thread'[d] \notin {"closed", "queued"} => place[server'[d]] = "serving"
    BY <1>1 DEF ServedOK, Listening, Serving
  <2>1. CASE d = c
    BY <1>3, <2>1, ThreadFrame DEF Listening, Serving
  <2>2. CASE d # c
    BY <2>2, ThreadFrame DEF Safe, ServedOK, Listening, Serving
  <2> QED
    BY <2>1, <2>2
<1>5. IdsOK'
  <2>1. \A d \in Conn : d # c => thread'[d] = thread[d] /\ job'[d] = job[d]
    BY ThreadFrame
  <2>2. \A q \in Proc : Serving(q)' <=> Serving(q)
    BY <1>1 DEF Serving
  <2>3. CASE UNCHANGED <<ids, next, born>> /\ thread'[c] # "spawn"
    BY <2>1, <2>2, <2>3 DEF Safe, IdsOK
  <2>4. CASE /\ thread[c] = "open" /\ ids' = next[p] + 1
             /\ next' = [next EXCEPT ![p] = @ + 1]
             /\ job'[c].id = next[p] /\ UNCHANGED born
    <3>1. Serving(p) /\ next[p] = ids /\ ids' = ids + 1 /\ next'[p] = ids + 1 /\ job'[c].id = ids
      BY <1>0, <1>3, <2>4 DEF Safe, IdsOK
    <3>2. \A q \in Proc : Serving(q) => q = p
      BY <1>3, <3>1 DEF Safe, LockOK, Serving
    <3>3. \A q \in Proc : Serving(q)' => next'[q] = ids'
      BY <2>2, <3>1, <3>2
    <3>4. \A i \in Id : born'[i] <= 1 /\ (born'[i] > 0 => i < ids')
      BY <1>0, <2>4, <3>1 DEF Safe, IdsOK, Id
    <3>5. \A d \in Conn : thread[d] = "spawn" =>
            job[d].id \in Id /\ job[d].id < ids /\ born[job[d].id] = 0 /\ d # c
      BY <2>4 DEF Safe, IdsOK, JobOK
    <3>6. ids \in Id /\ born[ids] = 0
      <4>1. ids \in Id
        BY DEF DaemonType, ProcType
      <4>2. born[ids] \in Nat /\ ~(born[ids] > 0)
        BY <1>0, <4>1 DEF Safe, IdsOK
      <4> QED
        BY <4>1, <4>2
    <3>7. \A d \in Conn : thread'[d] = "spawn" => job'[d].id < ids' /\ born'[job'[d].id] = 0
      <4> SUFFICES ASSUME NEW d \in Conn, thread'[d] = "spawn"
                   PROVE  job'[d].id < ids' /\ born'[job'[d].id] = 0
        OBVIOUS
      <4>1. CASE d = c
        BY <1>0, <2>4, <3>1, <3>6, <4>1
      <4>2. CASE d # c
        BY <1>0, <2>1, <2>4, <3>1, <3>5, <4>2 DEF Id
      <4> QED
        BY <4>1, <4>2
    <3>8. \A d, e \in Conn : thread'[d] = "spawn" /\ thread'[e] = "spawn" /\ job'[d].id = job'[e].id
                               => d = e
      <4> SUFFICES ASSUME NEW d \in Conn, NEW e \in Conn, thread'[d] = "spawn", thread'[e] = "spawn",
                          job'[d].id = job'[e].id
                   PROVE  d = e
        OBVIOUS
      <4>1. CASE d # c /\ e # c
        BY <2>1, <4>1 DEF Safe, IdsOK
      <4>2. ASSUME NEW f \in Conn, f # c, thread'[f] = "spawn" PROVE job'[f].id # job'[c].id
        BY <1>0, <2>1, <3>1, <3>5, <4>2 DEF Id
      <4> QED
        BY <4>1, <4>2
    <3> QED
      BY <3>3, <3>4, <3>7, <3>8 DEF IdsOK
  <2>5. CASE /\ thread[c] = "spawn" /\ thread'[c] = "insert" /\ UNCHANGED <<ids, next>>
             /\ born' = [born EXCEPT ![job[c].id] = @ + 1]
    <3>1. job[c].id \in Id /\ job[c].id < ids /\ born[job[c].id] = 0
      BY <2>5 DEF Safe, IdsOK, JobOK
    <3>2. \A i \in Id : born'[i] <= 1 /\ (born'[i] > 0 => i < ids')
      BY <1>0, <2>5, <3>1 DEF Safe, IdsOK, Id
    <3>3. \A d \in Conn : thread'[d] = "spawn" => job'[d].id < ids' /\ born'[job'[d].id] = 0
      <4> SUFFICES ASSUME NEW d \in Conn, thread'[d] = "spawn"
                   PROVE  job'[d].id < ids' /\ born'[job'[d].id] = 0
        OBVIOUS
      <4>1. d # c /\ thread[d] = "spawn" /\ job'[d] = job[d]
        BY <2>1, <2>5
      <4>2. job[d].id # job[c].id /\ job[d].id \in Id /\ job[d].id < ids /\ born[job[d].id] = 0
        BY <2>5, <4>1 DEF Safe, IdsOK, JobOK
      <4> QED
        BY <1>0, <2>5, <4>1, <4>2
    <3> QED
      BY <2>1, <2>2, <2>5, <3>2, <3>3 DEF Safe, IdsOK
  <2> QED
    BY <2>3, <2>4, <2>5, ThreadIds
<1>6. QuietOK'
  <2> SUFFICES ASSUME NEW q \in Proc, quiet'[q]
               PROVE  /\ monitor[q] \in {"clients", "clock"} => table'[q] = {}
                      /\ monitor[q] = "clock" =>
                           \A d \in Conn : server'[d] = q => thread'[d] \in {"queued", "counted"}
    BY <1>1 DEF QuietOK, Of
  <2>1. quiet[q] /\ table'[q] \subseteq table[q] /\ (server[c] = q => thread[c] # "counted")
    BY ThreadQuiet
  <2>2. monitor[q] = "clock" => \A d \in Conn : server'[d] = q => thread'[d] \in {"queued", "counted"}
    <3> SUFFICES ASSUME monitor[q] = "clock", NEW d \in Conn, server'[d] = q
                 PROVE  thread'[d] \in {"queued", "counted"}
      OBVIOUS
    <3>1. CASE d = c
      <4>1. server[c] = q
        BY <1>0, <3>1, ThreadFrame
      <4>2. thread[c] = "queued"
        BY <2>1, <4>1 DEF Safe, QuietOK, Of
      <4> QED
        BY <3>1, <4>2, ThreadFrame
    <3>2. CASE d # c
      BY <2>1, <3>2, ThreadFrame DEF Safe, QuietOK, Of
    <3> QED
      BY <3>1, <3>2
  <2> QED
    BY <2>1, <2>2 DEF Safe, QuietOK
<1> QED
  BY <1>2, <1>4, <1>5, <1>6 DEF Safe

LEMMA EndsSafe ==
  ASSUME DaemonType, Safe, NEW p \in Proc, Ends(p)
  PROVE  Safe'
<1>0. /\ thread \in [Conn -> Threads] /\ server \in [Conn -> Proc \cup {"none"}]
      /\ "none" \notin Proc /\ "dead" \notin Proc
      /\ place \in [Proc -> Places] /\ monitor \in [Proc -> Rounds]
      /\ quiet \in [Proc -> BOOLEAN] /\ table \in [Proc -> SUBSET Id] /\ next \in [Proc -> Id]
      /\ \A d \in Conn : thread[d] = "closed" <=> server[d] = "none"
  BY DaemonAssumption DEF DaemonType, ConnType, ProcType, TableType, Places, Rounds
<1>1. /\ \A q \in Proc : q # p => /\ place'[q] = place[q] /\ monitor'[q] = monitor[q]
                                  /\ quiet'[q] = quiet[q] /\ table'[q] = table[q]
                                  /\ next'[q] = next[q]
      /\ place'[p] = "off" /\ monitor'[p] = "sleep" /\ quiet'[p] = FALSE
  BY <1>0 DEF Ends
<1>2. \A c \in Conn : \/ server[c] = p /\ thread'[c] = "closed" /\ server'[c] = "none"
                      \/ /\ server[c] # p /\ thread'[c] = thread[c] /\ server'[c] = server[c]
                         /\ job'[c] = job[c]
  BY <1>0 DEF Ends, Of
<1>3. LockOK'
  <2>1. \A q \in Proc : /\ lock = q /\ q # p => lock' = q
                        /\ socket = q /\ q # p => socket' = q
                        /\ socket' = q => socket = q /\ q # p
    BY <1>0 DEF Ends
  <2> QED
    BY <1>1, <2>1 DEF Safe, LockOK, Listening, Serving
<1>4. ServedOK'
  <2> SUFFICES ASSUME NEW c \in Conn, thread'[c] # "closed"
               PROVE  /\ Listening(server[c])' /\ (thread'[c] # "queued" => Serving(server[c])')
    BY DEF ServedOK
  <2>1. server[c] \in Proc /\ server[c] # p /\ thread'[c] = thread[c] /\ server'[c] = server[c]
    BY <1>0, <1>2
  <2> QED
    BY <1>1, <2>1 DEF Safe, ServedOK, Listening, Serving
<1>5. IdsOK'
  <2>1. UNCHANGED <<ids, born>>
    BY DEF Ends
  <2> QED
    BY <1>1, <1>2, <2>1 DEF Safe, IdsOK, Serving
<1>6. QuietOK'
  BY <1>0, <1>1, <1>2 DEF Safe, QuietOK, Of
<1> QED
  BY <1>3, <1>4, <1>5, <1>6 DEF Safe

LEMMA StartSafe ==
  ASSUME DaemonType, Safe, NEW p \in Proc, StartStep(p)
  PROVE  Safe'
<1>0. /\ place \in [Proc -> Places] /\ next \in [Proc -> Id] /\ "none" \notin Proc
      /\ server \in [Conn -> Proc \cup {"none"}]
  BY DaemonAssumption DEF DaemonType, ConnType, ProcType, Places
<1>1. CASE Ends(p)
  BY <1>1, EndsSafe
<1>2. CASE ~Ends(p)
  <2>1. UNCHANGED <<ids, monitor, table, quiet, sessionVars, connVars, taken>>
    BY <1>2 DEF StartStep, TakeLock, RemoveStale, Bind, Load
  <2>2. \/ /\ place[p] = "started" /\ lock = "none" /\ lock' = p /\ UNCHANGED <<socket, next>>
           /\ place' = [place EXCEPT ![p] = "locked"]
        \/ /\ place[p] = "locked" /\ socket' = "none" /\ UNCHANGED <<lock, next>>
           /\ place' = [place EXCEPT ![p] = "cleared"]
        \/ /\ place[p] = "cleared" /\ socket' = p /\ UNCHANGED <<lock, next>>
           /\ place' = [place EXCEPT ![p] = "bound"]
        \/ /\ place[p] = "bound" /\ next' = [next EXCEPT ![p] = ids] /\ UNCHANGED <<lock, socket>>
           /\ place' = [place EXCEPT ![p] = "serving"]
    BY <1>2 DEF StartStep, TakeLock, MayLock, RemoveStale, Removed, Bind, Load
  <2>3. \A q \in Proc : /\ q # p => place'[q] = place[q]
                        /\ Listening(q) => Listening(q)' /\ (Serving(q) => Serving(q)')
                        /\ Serving(q)' => Serving(q) \/ (q = p /\ next'[q] = ids)
                        /\ q # p => next'[q] = next[q]
                        /\ Serving(q) => next'[q] = next[q]
    BY <1>0, <2>2 DEF Listening, Serving
  <2>4. LockOK'
    BY <1>0, <2>1, <2>2 DEF Safe, LockOK, Listening, Serving
  <2>5. ServedOK'
    <3> SUFFICES ASSUME NEW c \in Conn, thread[c] # "closed"
                 PROVE  /\ Listening(server[c])' /\ (thread[c] # "queued" => Serving(server[c])')
      BY <2>1 DEF ServedOK, connVars
    <3>1. server[c] \in Proc /\ Listening(server[c]) /\ (thread[c] # "queued" => Serving(server[c]))
      BY <1>0 DEF DaemonType, ConnType, Safe, ServedOK
    <3>2. Listening(server[c])' <=> place'[server[c]] \in {"bound", "serving"}
      BY <2>1 DEF Listening, connVars
    <3>3. Serving(server[c])' <=> place'[server[c]] = "serving"
      BY <2>1 DEF Serving, connVars
    <3> QED
      BY <1>0, <2>2, <3>1, <3>2, <3>3 DEF Listening, Serving
  <2>6. IdsOK'
    BY <2>1, <2>3 DEF Safe, IdsOK, connVars, sessionVars
  <2>7. QuietOK'
    BY <2>1 DEF Safe, QuietOK, Of, connVars
  <2> QED
    BY <2>4, <2>5, <2>6, <2>7 DEF Safe
<1> QED
  BY <1>1, <1>2

LEMMA MonitorSafe ==
  ASSUME DaemonType, Safe, NEW p \in Proc, MonitorStep(p) \/ GracePasses(p)
  PROVE  Safe'
<1>0. /\ monitor \in [Proc -> Rounds] /\ "none" \notin Proc /\ quiet \in [Proc -> BOOLEAN]
  BY DaemonAssumption DEF DaemonType, ProcType, TableType, Rounds
<1>1. CASE Ends(p)
  BY <1>1, EndsSafe
<1>2. CASE ~Ends(p)
  <2>1. UNCHANGED <<place, lock, ids, next, table, sessionVars, connVars, taken>> /\ Serving(p)
        /\ monitor[p] # "exit"
    BY <1>2 DEF MonitorStep, GracePasses, LookAtSessions, LookAtClients, LookAtClock, RemoveSocket,
                IdleExit, MonitorMoves, procVars
  <2>2. \/ /\ UNCHANGED <<socket, quiet>>
           /\ \/ /\ table[p] = {} /\ monitor' = [monitor EXCEPT ![p] = "clients"]
              \/ /\ table[p] = {} \/ ~quiet[p]
                 /\ Counted(p) = {} /\ monitor' = [monitor EXCEPT ![p] = "clock"]
              \/ monitor' = [monitor EXCEPT ![p] = "leaving"]
              \/ monitor' = [monitor EXCEPT ![p] = "sleep"]
        \/ /\ UNCHANGED socket /\ quiet' = Touched(p) /\ monitor' = [monitor EXCEPT ![p] = "sleep"]
        \/ /\ UNCHANGED <<socket, monitor>> /\ quiet' = [quiet EXCEPT ![p] = TRUE]
           /\ monitor[p] = "sleep"
        \/ /\ monitor' = [monitor EXCEPT ![p] = "exit"] /\ socket' = "none" /\ UNCHANGED quiet
    BY <1>2 DEF MonitorStep, GracePasses, LookAtSessions, LookAtClients, LookAtClock, RemoveSocket,
                IdleExit, MonitorMoves, procVars, Safe, QuietOK
  <2>3. LockOK'
    <3>1. /\ \A q \in Proc : q # p => monitor'[q] = monitor[q]
          /\ \/ socket' = socket /\ (monitor'[p] = "exit" \/ monitor[p] # "exit")
             \/ socket' = "none" /\ monitor'[p] = "exit"
      BY <1>0, <2>1, <2>2
    <3>2. lock = p /\ Listening(p) /\ \A q \in Proc : Listening(q) => q = p
      BY <1>0, <2>1 DEF Safe, LockOK, Listening, Serving
    <3> QED
      BY <1>0, <2>1, <3>1, <3>2 DEF Safe, LockOK, Listening, Serving
  <2>4. ServedOK' /\ IdsOK'
    BY <2>1 DEF Safe, ServedOK, IdsOK, Listening, Serving, connVars, sessionVars
  <2>5. QuietOK'
    <3>1. \A q \in Proc : q # p => monitor'[q] = monitor[q] /\ (quiet'[q] <=> quiet[q])
      BY <1>0, <2>2 DEF Touched
    <3>2. quiet'[p] => /\ monitor'[p] \in {"clients", "clock"} => table[p] = {}
                       /\ monitor'[p] = "clock" => Counted(p) = {}
      BY <1>0, <2>2 DEF Touched
    <3>3. Counted(p) = {} => \A c \in Of(p) : thread[c] \in {"queued", "counted"}
      BY DEF Counted, Of
    <3> QED
      BY <2>1, <3>1, <3>2, <3>3 DEF Safe, QuietOK, Of, connVars
  <2> QED
    BY <2>3, <2>4, <2>5 DEF Safe
<1> QED
  BY <1>1, <1>2

LEMMA SessionSafe ==
  ASSUME DaemonType, Safe, NEW i \in Id, PumpStep(i) \/ ShellEnds(i)
  PROVE  Safe'
<1>1. UNCHANGED <<procVars, born, connVars>>
  BY DEF PumpStep, PumpEnds, ShellEnds
<1>2. \A q \in Proc : (quiet'[q] => quiet[q]) /\ table'[q] \subseteq table[q]
  BY DEF PumpStep, PumpEnds, ShellEnds, Touched, DaemonType, TableType
<1> QED
  BY <1>1, <1>2 DEF Safe, LockOK, ServedOK, IdsOK, QuietOK, Listening, Serving, Of, procVars, connVars
-----------------------------------------------------------------------------
(* The client's steps *)

\* What the daemon keeps, but for the lines on their way and the client's ends.
StillVars == <<procVars, table, quiet, sessionVars, taken, thread, server, job>>

LineType ==
    /\ in \in [Conn -> Seq(Line)] /\ out \in [Conn -> Seq(Reply)]
    /\ far \in [Conn -> {"open", "closed"}]

LEMMA StillSafe ==
  ASSUME DaemonType, JobOK, Safe, UNCHANGED StillVars, LineType'
  PROVE  StepEnd /\ Safe'
<1>1. StepEnd
  BY DEF StepEnd, StillVars, LineType, DaemonType, ProcType, TableType, SessionType, ConnType,
         TakenType, JobOK, procVars, sessionVars
<1>2. LockOK' /\ ServedOK'
  BY DEF Safe, StillVars, LockOK, ServedOK, Listening, Serving, procVars
<1>3. IdsOK' /\ QuietOK'
  BY DEF Safe, StillVars, IdsOK, QuietOK, Serving, Of, procVars, sessionVars
<1> QED
  BY <1>1, <1>2, <1>3 DEF Safe

LEMMA DropsSafe ==
  ASSUME DaemonType, JobOK, Safe, NEW cs, Drops(cs)
  PROVE  StepEnd /\ Safe'
<1>1. UNCHANGED StillVars
  BY DEF Drops, QuietDaemon, StillVars, procVars
<1>2. LineType'
  BY Lines DEF Drops, LineType, DaemonType, ConnType
<1> QED
  BY <1>1, <1>2, StillSafe

LEMMA DialsSafe ==
  ASSUME DaemonType, JobOK, Safe, Reached, FreeConn # {}, NEW lines \in Seq(Line),
         Dials(Slot, socket, lines)
  PROVE  StepEnd /\ Safe' /\ Slot \in Conn
<1>1. Slot \in Conn /\ thread[Slot] = "closed"
  BY DEF Slot, FreeConn
<1> DEFINE s == Slot
<1> HIDE DEF s
<1>2. s \in Conn /\ thread[s] = "closed"
  BY <1>1 DEF s
<1>3. /\ thread' = [thread EXCEPT ![s] = "queued"] /\ server' = [server EXCEPT ![s] = socket]
      /\ in' = [in EXCEPT ![s] = lines] /\ out' = [out EXCEPT ![s] = <<>>]
      /\ far' = [far EXCEPT ![s] = "open"]
      /\ UNCHANGED <<procVars, table, quiet, sessionVars, taken, job>>
  BY DEF Dials, QuietDaemon, procVars, s
<1>4. socket \in Proc /\ Listening(socket) /\ "none" \notin Proc
  BY DaemonAssumption DEF Reached, Safe, LockOK
<1>5. ConnType' /\ JobOK'
  BY <1>2, <1>3, <1>4, Lines DEF DaemonType, ConnType, JobOK, Threads
<1>6. StepEnd
  BY <1>3, <1>5 DEF StepEnd, DaemonType, ProcType, TableType, SessionType, TakenType, procVars,
                    sessionVars
<1>7. LockOK'
  BY <1>3 DEF Safe, LockOK, Listening, Serving, procVars
<1>8. ServedOK'
  BY <1>2, <1>3, <1>4 DEF Safe, ServedOK, Listening, Serving, procVars, DaemonType, ConnType
<1>9. IdsOK' /\ QuietOK'
  BY <1>2, <1>3 DEF Safe, IdsOK, QuietOK, Serving, Of, procVars, sessionVars, DaemonType, ConnType
<1> QED
  BY <1>1, <1>6, <1>7, <1>8, <1>9 DEF Safe

LEMMA StartsSafe ==
  ASSUME DaemonType, JobOK, Safe, FreeProc # {}, QuietDaemon, UNCHANGED connVars,
         place' = [place EXCEPT ![CHOOSE p \in FreeProc : TRUE] = "started"]
  PROVE  StepEnd /\ Safe'
<1>1. PICK p \in Proc : place[p] = "off" /\ place' = [place EXCEPT ![p] = "started"]
  BY DEF FreeProc
<1>2. UNCHANGED <<lock, socket, ids, next, monitor, table, quiet, sessionVars, connVars, taken>>
  BY DEF QuietDaemon
<1>3. \A q \in Proc : (Listening(q)' <=> Listening(q)) /\ (Serving(q)' <=> Serving(q))
  BY <1>1 DEF Listening, Serving, DaemonType, ProcType
<1>4. StepEnd
  <2>1. ProcType'
    BY <1>1, <1>2 DEF DaemonType, ProcType
  <2>2. TableType' /\ SessionType' /\ TakenType'
    BY <1>2 DEF DaemonType, TableType, SessionType, TakenType, sessionVars
  <2>3. ConnType' /\ JobOK'
    BY <1>2 DEF DaemonType, ConnType, JobOK, connVars
  <2> QED
    BY <2>1, <2>2, <2>3 DEF StepEnd, DaemonType
<1>5. LockOK'
  BY <1>1, <1>2, <1>3 DEF Safe, LockOK, DaemonType, ProcType
<1>6. ServedOK'
  <2> SUFFICES ASSUME NEW c \in Conn, thread[c] # "closed"
               PROVE  /\ place'[server[c]] \in {"bound", "serving"}
                      /\ thread[c] # "queued" => place'[server[c]] = "serving"
    BY <1>2 DEF ServedOK, Listening, Serving, connVars
  <2>1. server[c] \in Proc /\ Listening(server[c]) /\ (thread[c] # "queued" => Serving(server[c]))
    BY DEF DaemonType, ConnType, Safe, ServedOK
  <2> QED
    BY <1>1, <2>1 DEF Listening, Serving, DaemonType, ProcType
<1>7. IdsOK' /\ QuietOK'
  BY <1>2, <1>3 DEF Safe, IdsOK, QuietOK, Of, sessionVars, connVars
<1> QED
  BY <1>4, <1>5, <1>6, <1>7 DEF Safe

LEMMA MovesCall ==
  ASSUME CallOK, NEW at \in Steps, NEW on \in Conn \cup {"none"}, Moves(at, on),
         at \in {"send", "fresh", "answer", "ack", "poll ack"} => on \in Conn
  PROVE  CallOK'
<1>1. call' = [n |-> call.n, op |-> call.op, id |-> call.id, at |-> at, on |-> on,
               tries |-> call.tries]
  BY DEF Moves, CallOK
<1> QED
  BY <1>1 DEF CallOK

LEMMA IdleCall ==
  /\ CallOK => [Idle EXCEPT !.n = call.n] \in
                  [n : 0 .. MaxCalls, op : {"open", "kill", "look"}, id : Id \cup {0},
                   at : Steps, on : Conn \cup {"none"}, tries : {0, 1}]
  /\ [Idle EXCEPT !.n = call.n].at = "idle"
BY DEF CallOK, Idle, Steps

\* A call that fails.
LEMMA FailsSafe ==
  ASSUME DaemonType, JobOK, Safe, CallOK, ClientType, Fails, UNCHANGED <<asked, stranger>>,
         mishap' \in BOOLEAN
  PROVE  StepEnd /\ Safe' /\ CallOK' /\ ClientType'
<1>1. StepEnd /\ Safe'
  BY DropsSafe DEF Fails
<1>2. CallOK' /\ ClientType'
  BY IdleCall DEF Fails, Finishes, ClientType, CallOK
<1> QED
  BY <1>1, <1>2

\* A line read by the client, from one of its connections.
LEMMA ReadSafe ==
  ASSUME DaemonType, JobOK, Safe, NEW c \in Conn, out[c] # <<>>,
         out' = [out EXCEPT ![c] = Tail(@)],
         UNCHANGED <<place, thread, server, job, in, far>>, QuietDaemon
  PROVE  StepEnd /\ Safe'
<1>1. UNCHANGED StillVars
  BY DEF QuietDaemon, StillVars, procVars
<1>2. LineType'
  BY Lines DEF LineType, DaemonType, ConnType
<1> QED
  BY <1>1, <1>2, StillSafe

StepSafe == StepEnd /\ Safe' /\ CallOK' /\ ClientType'

LEMMA SendSafe ==
  ASSUME DaemonType, JobOK, Safe, CallOK, ClientType, Send
  PROVE  StepSafe
<1> USE DEF StepSafe
<1>0. call.on \in Conn /\ UNCHANGED <<asked, mishap, stranger, faults>>
  BY DEF CallOK, Send
<1>1. CASE Fails
  BY <1>0, <1>1, FailsSafe DEF ClientType
<1>2. CASE Reconnects
  <2>1. StepEnd /\ Safe'
    BY <1>2, DropsSafe DEF Reconnects
  <2>2. CallOK'
    BY <1>2, MovesCall DEF Reconnects, Steps
  <2> QED
    BY <1>0, <1>2, <2>1, <2>2 DEF Reconnects, ClientType
<1>3. CASE ~Fails /\ ~Reconnects
  <2>1. /\ in' = [in EXCEPT ![call.on] = Append(@, Request)]
        /\ Moves("answer", call.on)
        /\ UNCHANGED <<place, thread, server, job, out, far, app, control, last>>
        /\ QuietDaemon
    BY <1>3 DEF Send
  <2>2. Request \in Line
    BY DEF Request, Line, CallOK
  <2> DEFINE r == Request
  <2> HIDE DEF r
  <2>3. in' = [in EXCEPT ![call.on] = Append(@, r)] /\ r \in Line
    BY <2>1, <2>2 DEF r
  <2>4. LineType'
    BY <1>0, <2>1, <2>3, Lines DEF LineType, DaemonType, ConnType
  <2>5. UNCHANGED StillVars
    BY <2>1 DEF QuietDaemon, StillVars, procVars
  <2>6. StepEnd /\ Safe'
    BY <2>4, <2>5, StillSafe
  <2>7. CallOK'
    BY <1>0, <2>1, MovesCall DEF Steps
  <2> QED
    BY <1>0, <2>1, <2>6, <2>7 DEF ClientType
<1> QED
  BY <1>1, <1>2, <1>3

LEMMA SilenceMishap ==
  ASSUME ClientType, NEW c, Silence(c)
  PROVE  mishap' \in BOOLEAN
BY DEF ClientType, Silence

LEMMA CallSafe ==
  ASSUME DaemonType, JobOK, Safe, CallOK, ClientType, CallStep
  PROVE  StepSafe
<1> USE DEF StepSafe
<1>1. CASE Send
  BY <1>1, SendSafe
<1>2. CASE Heard
  <2>0. call.on \in Conn
    BY <1>2 DEF Heard, CallOK
  <2>1. StepEnd /\ Safe'
    BY <1>2, <2>0, ReadSafe DEF Heard
  <2>2. CallOK'
    BY <1>2, IdleCall DEF Heard, Finishes, CallOK
  <2> QED
    BY <1>2, <2>0, <2>1, <2>2 DEF Heard, Finishes, ClientType
<1>3. CASE Unanswered
  BY <1>3, SilenceMishap, FailsSafe DEF Unanswered, GivesUp
<1>4. CASE Dial
  <2>1. StepEnd /\ Safe' /\ Slot \in Conn
    <3>1. <<Hello>> \in Seq(Line)
      BY Lines DEF NoJob
    <3> QED
      BY <1>4, <3>1, DialsSafe DEF Dial
  <2>2. CallOK'
    <3>1. CASE call.at = "poll"
      BY <1>4, <2>1, <3>1, MovesCall DEF Dial, Steps
    <3>2. CASE call.at # "poll"
      BY <1>4, <2>1, <3>2, MovesCall DEF Dial, Steps
    <3> QED
      BY <3>1, <3>2
  <2> QED
    BY <1>4, <2>1, <2>2 DEF Dial, ClientType
<1>5. CASE NotRunning
  <2>1. StepEnd /\ Safe'
    BY <1>5, StillSafe DEF NotRunning, daemonVars, connVars, StillVars, LineType, DaemonType, ConnType
  <2>2. CallOK' /\ app' \in {"new", "up", "down"}
    <3>1. CASE app = "new"
      BY <1>5, <3>1, IdleCall DEF NotRunning, Finishes, CallOK
    <3>2. CASE app # "new"
      BY <1>5, <3>2, MovesCall DEF NotRunning, Steps, ClientType
    <3> QED
      BY <3>1, <3>2
  <2> QED
    BY <1>5, <2>1, <2>2 DEF NotRunning, ClientType
<1>6. CASE StartDaemon
  <2>1. StepEnd /\ Safe'
    BY <1>6, StartsSafe DEF StartDaemon
  <2>2. CallOK'
    BY <1>6, MovesCall DEF StartDaemon, Steps
  <2> QED
    BY <1>6, <2>1, <2>2 DEF StartDaemon, ClientType
<1>7. CASE DeadlinePasses
  BY <1>7, FailsSafe DEF DeadlinePasses, ClientType
<1>8. CASE Acknowledged
  <2>0. call.on \in Conn
    BY <1>8 DEF Acknowledged, CallOK
  <2>1. StepEnd /\ Safe'
    BY <1>8, <2>0, ReadSafe DEF Acknowledged
  <2>2. CallOK'
    BY <1>8, <2>0, MovesCall DEF Acknowledged, Steps
  <2> QED
    BY <1>8, <2>1, <2>2 DEF Acknowledged, ClientType
<1>9. CASE Unacknowledged
  <2>1. CASE Fails
    BY <1>9, <2>1, SilenceMishap, FailsSafe DEF Unacknowledged
  <2>2. CASE ~Fails
    <3>1. /\ call' = [call EXCEPT !.at = "poll", !.on = "none", !.tries = 1]
          /\ Drops({call.on}) /\ UNCHANGED <<app, control, last, asked, stranger>>
      BY <1>9, <2>2 DEF Unacknowledged
    <3>2. mishap' \in BOOLEAN
      BY <1>9, SilenceMishap DEF Unacknowledged
    <3>3. CallOK'
      <4>1. call' = [n |-> call.n, op |-> call.op, id |-> call.id, at |-> "poll", on |-> "none",
                     tries |-> 1]
        BY <3>1 DEF CallOK
      <4> QED
        BY <4>1 DEF CallOK, Steps
    <3> QED
      BY <3>1, <3>2, <3>3, DropsSafe DEF ClientType
  <2> QED
    BY <2>1, <2>2
<1> QED
  BY <1>1, <1>2, <1>3, <1>4, <1>5, <1>6, <1>7, <1>8, <1>9 DEF CallStep

LEMMA BystanderOK ==
  ASSUME ClientType, CallOK, Bystander
  PROVE  ClientType' /\ CallOK'
BY DEF ClientType, CallOK, Bystander

LEMMA DaemonSafe ==
  ASSUME DaemonType, JobOK, Safe, DaemonStep
  PROVE  StepEnd /\ Safe'
<1>1. CASE \E p \in Proc : StartStep(p)
  BY <1>1, StartType, StartSafe
<1>2. CASE \E p \in Proc : MonitorStep(p) \/ GracePasses(p)
  BY <1>2, MonitorType, MonitorSafe
<1>3. CASE \E c \in Conn : ThreadStep(c)
  BY <1>3, ThreadType, ThreadSafe
<1>4. CASE \E i \in Id : PumpStep(i) \/ ShellEnds(i)
  BY <1>4, SessionStepType, SessionSafe
<1> QED
  BY <1>1, <1>2, <1>3, <1>4 DEF DaemonStep

LEMMA BeginSafe ==
  ASSUME DaemonType, JobOK, Safe, CallOK, ClientType,
         \/ BeginCensus
         \/ \E op \in {"open", "look", "kill"}, i \in Id \cup {0} : Begin(op, i)
  PROVE  StepSafe
<1>1. UNCHANGED <<daemonVars, app, control, stranger>> /\ mishap' = FALSE
  BY DEF BeginCensus, Begin
<1>2. StepEnd /\ Safe'
  BY <1>1, StillSafe DEF daemonVars, connVars, StillVars, LineType, DaemonType, ConnType
<1>3. asked' \subseteq Id
  BY DEF BeginCensus, Begin, DaemonType, TableType
<1>4. call.n \in 0 .. MaxCalls /\ (call.n < MaxCalls => call.n + 1 \in 0 .. MaxCalls)
  <2>1. call.n \in 0 .. MaxCalls
    BY DEF CallOK
  <2> QED
    BY <2>1, DaemonAssumption
<1>5. CallOK'
  <2>1. CASE BeginCensus
    <3>1. call' = [n |-> call.n + 1, op |-> "look", id |-> 0, at |-> "connect", on |-> "none",
                   tries |-> 0]
      BY <2>1 DEF BeginCensus, Idle
    <3>2. call.n + 1 \in 0 .. MaxCalls
      BY <1>4, <2>1 DEF BeginCensus
    <3> QED
      BY <3>1, <3>2 DEF CallOK, Steps
  <2>2. ASSUME NEW op \in {"open", "look", "kill"}, NEW i \in Id \cup {0}, Begin(op, i)
        PROVE  CallOK'
    BY <1>4, <2>2 DEF Begin, CallOK, Steps, ClientType
  <2> QED
    BY <2>1, <2>2
<1> QED
  BY <1>1, <1>2, <1>3, <1>5 DEF StepSafe, ClientType

LEMMA WorldSafe ==
  ASSUME DaemonType, JobOK, Safe, CallOK, ClientType,
         \/ Quit \/ CannotStart \/ Rival \/ StrangerConnects
         \/ \E p \in Proc : Dies(p)
         \/ \E c \in Conn : Refused(c)
  PROVE  StepSafe
<1> USE DEF StepSafe
<1>1. CASE Quit
  <2>1. CallOK'
    BY <1>1, IdleCall DEF Quit, CallOK
  <2> QED
    BY <1>1, <2>1, DropsSafe DEF Quit, ClientType
<1>2. CASE CannotStart
  BY <1>2, FailsSafe DEF CannotStart
<1>3. CASE Rival
  BY <1>3, StartsSafe DEF Rival, ClientType, CallOK
<1>4. CASE StrangerConnects
  <2>1. StepEnd /\ Safe' /\ Slot \in Conn
    BY <1>4, Lines, DialsSafe DEF StrangerConnects
  <2> QED
    BY <1>4, <2>1 DEF StrangerConnects, ClientType, CallOK
<1>5. CASE \E p \in Proc : Dies(p)
  BY <1>5, EndsType, EndsSafe DEF Dies, StepEnd, ClientType, CallOK
<1>6. CASE \E c \in Conn : Refused(c)
  BY <1>6, ThreadType, ThreadSafe DEF Refused, ClientType, CallOK
<1> QED
  BY <1>1, <1>2, <1>3, <1>4, <1>5, <1>6

LEMMA StepInv == IInv /\ [Next]_vars => IInv'
<1> SUFFICES ASSUME IInv, [Next]_vars PROVE IInv'
  OBVIOUS
<1>0. DaemonType /\ JobOK /\ Safe /\ CallOK /\ ClientType
  BY TypeParts DEF IInv, Safe
<1> SUFFICES StepSafe
  BY TypePartsNext DEF StepSafe, StepEnd, IInv, Safe
<1>1. CASE DaemonStep /\ Bystander
  BY <1>0, <1>1, DaemonSafe, BystanderOK DEF StepSafe
<1>2. CASE BeginCensus \/ Begin("open", 0) \/ Begin("look", 0) \/ \E i \in Id : Begin("kill", i)
  BY <1>0, <1>2, BeginSafe
<1>3. CASE CallStep
  BY <1>0, <1>3, CallSafe
<1>4. CASE \/ Quit \/ CannotStart \/ Rival \/ StrangerConnects
           \/ \E p \in Proc : Dies(p)
           \/ \E c \in Conn : Refused(c)
  BY <1>0, <1>4, WorldSafe
<1>5. CASE UNCHANGED vars
  BY <1>0, <1>5, StillSafe
     DEF vars, daemonVars, clientVars, connVars, StillVars, LineType, DaemonType, ConnType, StepSafe,
         ClientType, CallOK
<1> QED
  BY <1>1, <1>2, <1>3, <1>4, <1>5 DEF Next

LEMMA InitInv == Init => IInv
<1> SUFFICES ASSUME Init PROVE IInv
  OBVIOUS
<1>1. PICK first \in Proc : TRUE
  BY DaemonAssumption
<1>2. CallOK /\ ClientType
  <2>1. 0 \in 0 .. MaxCalls
    BY DaemonAssumption
  <2>2. CallOK
    BY <2>1 DEF Init, Idle, CallOK, Steps
  <2> QED
    BY <2>2 DEF Init, ClientType
<1>3. \/ /\ place = [p \in Proc |-> "off"] /\ lock = "none" /\ socket = "none"
         /\ ids = 1 /\ born = [i \in Id |-> 0] /\ table = [p \in Proc |-> {}]
      \/ /\ lock \in Proc /\ socket = lock
         /\ place = [p \in Proc |-> IF p = lock THEN "serving" ELSE "off"]
         /\ MaxId > 1 /\ ids = 2 /\ born = [i \in Id |-> IF i = 1 THEN 1 ELSE 0]
         /\ table = [p \in Proc |-> IF p = lock THEN {1} ELSE {}]
  BY <1>1 DEF Init, DaemonInit
<1>4. /\ next = [p \in Proc |-> IF p = lock THEN ids ELSE 1]
      /\ monitor = [p \in Proc |-> "sleep"] /\ quiet = [p \in Proc |-> FALSE]
      /\ shell = [i \in Id |-> IF born[i] = 1 THEN "runs" ELSE "none"]
      /\ pump = [i \in Id |-> IF born[i] = 1 THEN "reads" ELSE "none"]
      /\ thread = [c \in Conn |-> "closed"] /\ server = [c \in Conn |-> "none"]
      /\ job = [c \in Conn |-> NoJob]
      /\ in = [c \in Conn |-> <<>>] /\ out = [c \in Conn |-> <<>>]
      /\ far = [c \in Conn |-> "closed"] /\ taken = [n \in Call |-> 0]
  BY DEF Init, DaemonInit
<1>5. ids \in Id /\ born \in [Id -> {0, 1}] /\ table \in [Proc -> SUBSET Id]
  BY <1>3, DaemonAssumption DEF Id
<1>6. DaemonType
  <2>1. ProcType
    BY <1>3, <1>4, <1>5, Lines DEF ProcType
  <2>2. TableType /\ SessionType /\ TakenType
    BY <1>4, <1>5 DEF TableType, SessionType, TakenType
  <2>3. ConnType
    BY <1>4, Lines DEF ConnType, Threads
  <2> QED
    BY <2>1, <2>2, <2>3 DEF DaemonType
<1>7. JobOK /\ ServedOK /\ QuietOK
  BY <1>4 DEF JobOK, ServedOK, QuietOK
<1>8. LockOK
  <2>1. "none" \notin Proc
    BY DaemonAssumption
  <2>2. CASE socket = "none" /\ place = [p \in Proc |-> "off"]
    BY <1>4, <2>1, <2>2 DEF LockOK, Listening, Serving
  <2>3. CASE /\ lock \in Proc /\ socket = lock
             /\ place = [p \in Proc |-> IF p = lock THEN "serving" ELSE "off"]
    BY <1>4, <2>3 DEF LockOK, Listening, Serving
  <2> QED
    BY <1>3, <2>2, <2>3
<1>9. IdsOK
  <2>1. \A i \in Id : born[i] <= 1 /\ (born[i] > 0 => i < ids)
    BY <1>3, <1>5 DEF Id
  <2> QED
    BY <1>3, <1>4, <2>1, DaemonAssumption DEF IdsOK, Serving
<1> QED
  BY <1>2, <1>6, <1>7, <1>8, <1>9, TypeParts DEF IInv

LEMMA Invariance == Spec => []IInv
<1> QED
  BY InitInv, StepInv, PTL DEF Spec

-----------------------------------------------------------------------------
(* Theorems *)

\* The daemon's state and the client's are well typed, and no id beyond u32::MAX is ever
\* next (Daemon::alloc_id).
THEOREM TypeCorrect == Spec => []TypeOK
<1>1. IInv => TypeOK
  BY DEF IInv, Types
<1> QED
  BY <1>1, Invariance, PTL

\* No two shells ever have the same id, however daemons die and follow one another
\* (Daemon::alloc_id persists the next id before it hands one out).
THEOREM IdsNeverReused == Spec => []NeverReused
<1>1. IInv => NeverReused
  BY DEF IInv, IdsOK, NeverReused
<1> QED
  BY <1>1, Invariance, PTL

\* A daemon that serves can be reached by its socket until it is about to exit: the one
\* that removes a stale socket holds the lock (take_lock, run).
THEOREM AlwaysReachable == Spec => []Reachable
<1>1. IInv => Reachable
  BY DEF IInv, LockOK, Reachable, Listening, Serving
<1> QED
  BY <1>1, Invariance, PTL

\* The monitor decides to exit only with no session and no client that has said hello,
\* though it reads its counts and its clock one after the other (spawn_idle_monitor).
THEOREM OnlyEmptyExits == Spec => ExitsEmpty
<1>1. ASSUME IInv, [Next]_vars, NEW p \in Proc, monitor[p] = "clock", monitor'[p] = "leaving"
      PROVE  table[p] = {} /\ \A c \in Of(p) : thread[c] \in {"queued", "counted"}
  <2>0. DaemonType /\ JobOK /\ Safe /\ CallOK /\ ClientType
    BY <1>1, TypeParts DEF IInv, Safe
  <2>1. quiet[p]
    <3>1. \A q \in Proc : ~Ends(q)
      BY <1>1, <2>0 DEF Ends, DaemonType, ProcType
    <3>2. monitor' # monitor
      BY <1>1
    <3>3. PICK q \in Proc : MonitorStep(q)
      <4>1. CASE DaemonStep /\ Bystander
        <5>1. ASSUME NEW c \in Conn, ThreadStep(c) PROVE FALSE
          BY <2>0, <3>2, <5>1, ThreadFrame
        <5> QED
          BY <3>1, <3>2, <4>1, <5>1
             DEF DaemonStep, StartStep, TakeLock, RemoveStale, Bind, Load, GracePasses, PumpStep,
                 PumpEnds, ShellEnds, procVars
      <4>2. CASE ~(DaemonStep /\ Bystander)
        <5>1. ASSUME NEW c \in Conn, Refused(c) PROVE FALSE
          BY <2>0, <3>2, <5>1, ThreadFrame DEF Refused
        <5>2. ASSUME Fails PROVE FALSE
          BY <3>2, <5>2 DEF Fails, Drops, QuietDaemon
        <5>3. ASSUME CallStep PROVE FALSE
          BY <3>2, <5>2, <5>3
             DEF CallStep, Send, Reconnects, Heard, Unanswered, GivesUp, Dial, Dials, NotRunning,
                 StartDaemon, DeadlinePasses, Acknowledged, Unacknowledged, Drops, QuietDaemon,
                 daemonVars, procVars
        <5> QED
          BY <1>1, <3>1, <3>2, <4>2, <5>1, <5>2, <5>3
             DEF Next, vars, daemonVars, procVars, BeginCensus, Begin, Quit, CannotStart, Rival,
                 StrangerConnects, Dials, Drops, QuietDaemon, Dies
      <4> QED
        BY <4>1, <4>2
    <3>4. LookAtClock(q) /\ q = p
      BY <1>1, <2>0, <3>1, <3>3
         DEF MonitorStep, LookAtSessions, LookAtClients, LookAtClock, RemoveSocket, IdleExit,
             MonitorMoves, DaemonType, ProcType
    <3> QED
      BY <1>1, <2>0, <3>4 DEF LookAtClock, MonitorMoves, DaemonType, ProcType
  <2> QED
    BY <1>1, <2>1 DEF IInv, QuietOK
<1>2. IInv /\ [Next]_vars =>
        [\A p \in Proc : monitor[p] = "clock" /\ monitor'[p] = "leaving" =>
            table[p] = {} /\ \A c \in Of(p) : thread[c] \in {"queued", "counted"}]_vars
  BY <1>1
<1> QED
  BY <1>2, Invariance, PTL DEF Spec, ExitsEmpty
=============================================================================
