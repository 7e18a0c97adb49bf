----------------------------- MODULE CallProofs -----------------------------
(***************************************************************************)
(* Proofs about TerminalClient, continued: no request is carried out       *)
(* twice, no reply is taken for another request's, a call that fails has   *)
(* an excuse, a census misses no session, and the daemons and the client   *)
(* together implement SessionService, for any number of processes,         *)
(* connections, ids, calls and faults.                                     *)
(***************************************************************************)
EXTENDS TerminalProofs

\* The call in hand has not been written yet.
Early == {"connect", "start", "poll", "ack", "poll ack", "fresh", "send"}

Sent(n) == n < call.n \/ (n = call.n /\ call.at \notin Early)

OneLine == \A c \in Conn : in[c] = <<>> \/ Tail(in[c]) = <<>>

Asks(c, n) == in[c] # <<>> /\ Head(in[c]).call = n

\* What was taken up has been sent, and is nowhere waiting; what waits is in one place.
SentOnce ==
    \A n \in Call :
      /\ taken[n] <= 1 /\ (taken[n] > 0 => Sent(n))
      /\ \A c \in Conn : Asks(c, n) =>
           taken[n] = 0 /\ Sent(n) /\ \A d \in Conn : Asks(d, n) => d = c

Working == {"look", "open", "spawn", "insert", "opened", "kill", "remove", "reap"}

AtRest(c) == thread[c] \in {"control", "closed"}

\* Nothing is on its way on a connection a request may be written to ...
Clear(c) == in[c] = <<>> /\ out[c] = <<>> /\ AtRest(c)

\* ... the hello or its acknowledgement on a new one ...
Greeting(c) ==
    \/ in[c] = <<Hello>> /\ out[c] = <<>> /\ thread[c] \in {"queued", "counted", "hello"}
    \/ in[c] = <<>> /\ AtRest(c) /\ (out[c] = <<>> \/ Tail(out[c]) = <<>>)

\* ... and on the one a call waits at, that call or the reply to it.
Asking(c) ==
    \/ in[c] = <<Request>> /\ out[c] = <<>> /\ thread[c] = "control"
    \/ in[c] = <<>> /\ out[c] = <<>> /\ thread[c] \in Working /\ job[c].call = call.n
    \/ /\ in[c] = <<>> /\ AtRest(c)
       /\ out[c] = <<>> \/ (Tail(out[c]) = <<>> /\ Head(out[c]).call = call.n)

Held == IF call.at = "idle" THEN control ELSE call.on

HeldOK ==
    Held \in Conn =>
      /\ far[Held] = "open" /\ Held \notin stranger
      /\ call.at \in {"idle", "send", "fresh"} => Clear(Held)
      /\ call.at \in {"ack", "poll ack"} => Greeting(Held)
      /\ call.at = "answer" => Asking(Held)

KeptOK ==
    /\ call.at \in Early \ {"send"} => control = "none"
    /\ call.at \in {"connect", "start", "poll"} => call.on = "none"
    /\ app = "new" => control = "none"

SendOK == OneLine /\ SentOnce
TalkOK == SendOK /\ HeldOK /\ KeptOK

-----------------------------------------------------------------------------
(* What a connection's thread does to it *)

LEMMA OneItem ==
  /\ \A l : Append(<<>>, l) = <<l>>
  /\ \A l : <<l>> # <<>> /\ Head(<<l>>) = l /\ Tail(<<l>>) = <<>>
<1>1. \A l : Append(<<>>, l) = <<l>>
  OBVIOUS
<1>2. \A l : <<l>> # <<>>
  OBVIOUS
<1>3. \A l : Head(<<l>>) = l
  OBVIOUS
<1>4. \A l : Tail(<<l>>) = <<>>
  OBVIOUS
<1> QED
  BY <1>1, <1>2, <1>3, <1>4

Hangs(c) ==
    /\ thread[c] \notin {"closed", "queued"}
    /\ thread'[c] = "closed" /\ in'[c] = <<>> /\ out'[c] = out[c] /\ taken' = taken
    /\ far[c] = "open" => thread[c] = "hello" /\ in[c] = <<>>

Waits(c) ==
    /\ thread[c] \in {"queued", "counted"} /\ thread'[c] \in {"counted", "hello"}
    /\ in'[c] = in[c] /\ out'[c] = out[c] /\ taken' = taken

Acks(c) ==
    /\ thread[c] = "hello" /\ thread'[c] = "control"
    /\ in[c] # <<>> /\ in'[c] = Tail(in[c]) /\ taken' = taken
    /\ \E r \in Reply : out'[c] = Append(out[c], r)

Takes(c) ==
    /\ thread[c] = "control" /\ thread'[c] = Head(in[c]).op
    /\ in[c] # <<>> /\ in'[c] = Tail(in[c]) /\ out'[c] = out[c]
    /\ job'[c] = Head(in[c]) /\ taken' = [taken EXCEPT ![Head(in[c]).call] = @ + 1]

Works(c) ==
    /\ thread[c] \in Working /\ thread'[c] \in Working
    /\ in'[c] = in[c] /\ out'[c] = out[c] /\ taken' = taken
    /\ job'[c].call = job[c].call

Replies(c) ==
    /\ thread[c] \in Working /\ thread'[c] = "control"
    /\ in'[c] = in[c] /\ taken' = taken
    /\ \E r \in Reply : r.call = job[c].call /\ out'[c] = Append(out[c], r)

Others(c) ==
    \A d \in Conn : d # c => /\ in'[d] = in[d] /\ out'[d] = out[d]
                             /\ thread'[d] = thread[d] /\ job'[d] = job[d]

Talks(c) ==
    /\ far' = far /\ Others(c)
    /\ Hangs(c) \/ Waits(c) \/ Acks(c) \/ Takes(c) \/ Works(c) \/ Replies(c)

LEMMA ClosesTalks ==
  ASSUME DaemonType, NEW c \in Conn, NEW from \in Threads \ {"closed", "queued"},
         Closes(c, from), UNCHANGED out,
         far[c] = "open" => from = "hello" /\ in[c] = <<>>
  PROVE  Talks(c)
BY DEF Closes, Talks, Others, Hangs, DaemonType, ConnType

LEMMA AnswersTalks ==
  ASSUME DaemonType, NEW c \in Conn, NEW from \in Working, NEW r \in Reply,
         r.call = job[c].call, Answers(c, from, r)
  PROVE  Talks(c)
<1>1. CASE far[c] = "closed" /\ Closes(c, from) /\ UNCHANGED out
  BY <1>1, ClosesTalks DEF Working, Threads
<1>2. CASE ~(far[c] = "closed" /\ Closes(c, from) /\ UNCHANGED out)
  <2>1. /\ Goes(c, from, "control") /\ out' = [out EXCEPT ![c] = Append(@, r)]
        /\ job' = [job EXCEPT ![c] = NoJob] /\ UNCHANGED <<in, taken>>
    BY <1>2 DEF Answers
  <2>2. Replies(c)
    BY <2>1 DEF Replies, Goes, DaemonType, ConnType
  <2> QED
    BY <2>1, <2>2 DEF Talks, Others, Goes, DaemonType, ConnType
<1> QED
  BY <1>1, <1>2

LEMMA MovesTalks ==
  ASSUME DaemonType, NEW c \in Conn, NEW from \in Working, NEW to \in Working, Goes(c, from, to),
         UNCHANGED <<job, in, out, taken>>
  PROVE  Talks(c)
BY DEF Goes, Talks, Others, Works, DaemonType, ConnType

LEMMA ThreadTalks ==
  ASSUME DaemonType, JobOK, NEW c \in Conn, ThreadStep(c) \/ CannotAllocate(c) \/ CannotSpawn(c)
  PROVE  Talks(c)
<1>0. /\ thread \in [Conn -> Threads] /\ job \in [Conn -> Line]
      /\ in \in [Conn -> Seq(Line)] /\ out \in [Conn -> Seq(Reply)] /\ far \in [Conn -> {"open", "closed"}]
      /\ table \in [Proc -> SUBSET Id]
  BY DEF DaemonType, ConnType, TableType
<1>1. ASSUME NEW from \in Working, NEW ok \in BOOLEAN, NEW list \in SUBSET Id,
             Answers(c, from, Done(c, ok, list))
      PROVE  Talks(c)
  <2>1. Done(c, ok, list).call = job[c].call
    BY DEF Done
  <2> QED
    BY <1>1, <2>1, DoneType, AnswersTalks
<1>1a. ASSUME NEW from \in Working, NEW ok \in BOOLEAN, Answers(c, from, Done(c, ok, {}))
       PROVE  Talks(c)
  BY <1>1, <1>1a
<1>2. CASE Accept(c) \/ Greet(c)
  BY <1>0, <1>2 DEF Accept, Greet, Goes, Talks, Others, Waits
<1>3. CASE Acked(c)
  <2>1. CASE far[c] = "closed" /\ Closes(c, "hello") /\ UNCHANGED out
    BY <2>1, ClosesTalks DEF Threads
  <2>2. CASE ~(far[c] = "closed" /\ Closes(c, "hello") /\ UNCHANGED out)
    <3> DEFINE r == [ok |-> TRUE, ids |-> {}, call |-> 0]
    <3>1. r \in Reply
      BY DaemonAssumption DEF Reply
    <3>2. /\ Goes(c, "hello", "control") /\ out' = [out EXCEPT ![c] = Append(@, r)]
          /\ in' = [in EXCEPT ![c] = Tail(@)] /\ in[c] # <<>> /\ UNCHANGED <<job, taken>>
      BY <1>3, <2>2 DEF Acked
    <3> HIDE DEF r
    <3>3. Acks(c)
      BY <1>0, <3>1, <3>2 DEF Acks, Goes
    <3> QED
      BY <1>0, <3>2, <3>3 DEF Talks, Others, Goes
  <2> QED
    BY <2>1, <2>2
<1>4. CASE NoHello(c)
  BY <1>4, ClosesTalks DEF NoHello, HelloTimesOut, Threads
<1>5. CASE TakeRequest(c)
  <2>1. /\ Goes(c, "control", Head(in[c]).op) /\ job' = [job EXCEPT ![c] = Head(in[c])]
        /\ taken' = [taken EXCEPT ![Head(in[c]).call] = @ + 1] /\ in' = [in EXCEPT ![c] = Tail(@)]
        /\ in[c] # <<>> /\ UNCHANGED out
    BY <1>5 DEF TakeRequest
  <2>2. Takes(c)
    BY <1>0, <2>1 DEF Takes, Goes
  <2> QED
    BY <1>0, <2>1, <2>2 DEF Talks, Others, Goes
<1>6. CASE EndOfLines(c)
  BY <1>6, ClosesTalks DEF EndOfLines, Threads
<1>7. CASE Look(c)
  <2>1. table[server[c]] \in SUBSET Id
    BY <1>7 DEF Look, DaemonType, ConnType, TableType
  <2> QED
    BY <1>1, <1>7, <2>1 DEF Look, Working
<1>8. CASE Allocate(c)
  <2>1. CASE Answers(c, "open", Done(c, FALSE, {}))
    BY <1>1a, <2>1 DEF Working
  <2>2. CASE ~Answers(c, "open", Done(c, FALSE, {}))
    <3>1. /\ thread[c] = "open" /\ thread' = [thread EXCEPT ![c] = "spawn"]
          /\ job' = [job EXCEPT ![c].id = next[server[c]]] /\ UNCHANGED <<in, out, far, taken>>
      BY <1>8, <2>2 DEF Allocate
    <3>2. job'[c] = [job[c] EXCEPT !.id = next[server[c]]]
      BY <1>0, <3>1
    <3>3. job'[c].call = job[c].call
      BY <1>0, <3>2 DEF Line
    <3> QED
      BY <1>0, <3>1, <3>3 DEF Talks, Others, Works, Working
  <2> QED
    BY <2>1, <2>2
<1>9. CASE SpawnShell(c) \/ Insert(c)
  BY <1>9, MovesTalks DEF SpawnShell, Insert, Working
<1>10. CASE Opened(c)
  <2>1. thread[c] = "opened"
    BY <1>10 DEF Opened, Answers, Goes, Closes
  <2>2. {job[c].id} \in SUBSET Id
    BY <2>1 DEF JobOK
  <2> QED
    BY <1>1, <1>10, <2>2 DEF Opened, Working
<1>11. CASE HangUp(c)
  <2>1. CASE Answers(c, "kill", Done(c, FALSE, {}))
    BY <1>1a, <2>1 DEF Working
  <2>2. CASE ~Answers(c, "kill", Done(c, FALSE, {}))
    BY <1>11, <2>2, MovesTalks DEF HangUp, Working
  <2> QED
    BY <2>1, <2>2
<1>12. CASE Remove(c)
  <2>1. CASE Answers(c, "remove", Done(c, FALSE, {}))
    BY <1>1a, <2>1 DEF Working
  <2>2. CASE ~Answers(c, "remove", Done(c, FALSE, {}))
    BY <1>12, <2>2, MovesTalks DEF Remove, Working
  <2> QED
    BY <2>1, <2>2
<1>13. CASE Reap(c) \/ CannotAllocate(c) \/ CannotSpawn(c)
  BY <1>1a, <1>13 DEF Reap, CannotAllocate, CannotSpawn, Working
<1> QED
  BY <1>2, <1>3, <1>4, <1>5, <1>6, <1>7, <1>8, <1>9, <1>10, <1>11, <1>12, <1>13 DEF ThreadStep

-----------------------------------------------------------------------------
(* The connections a call is not at, and the one it is at *)

\* What is sent stays sent, and what waits only gets less.
LEMMA LessSends ==
  ASSUME SendOK, taken' = taken, \A d \in Conn : in'[d] \in {in[d], <<>>, <<Hello>>},
         \A n \in Call : Sent(n) => Sent(n)'
  PROVE  SendOK'
<1>1. OneLine'
  BY OneItem DEF SendOK, OneLine
<1>2. \A d \in Conn, n \in Call : Asks(d, n)' => Asks(d, n)
  BY OneItem DEF Asks, Hello, Call
<1>3. SentOnce'
  BY <1>2 DEF SendOK, SentOnce
<1> QED
  BY <1>1, <1>3 DEF SendOK

LEMMA ThreadSends ==
  ASSUME DaemonType, SendOK, NEW c \in Conn, Talks(c), call' = call
  PROVE  SendOK'
<1>1. \A d \in Conn : in'[d] = in[d] \/ in'[d] = <<>>
  BY DEF Talks, Others, Hangs, Waits, Acks, Takes, Works, Replies, SendOK, OneLine
<1>2. \A n : Sent(n)' = Sent(n)
  BY DEF Sent
<1>3. CASE taken' = taken
  BY <1>1, <1>2, <1>3, LessSends
<1>4. CASE taken' # taken
  <2> DEFINE m == Head(in[c]).call
  <2>1. in[c] # <<>> /\ in'[c] = <<>> /\ taken' = [taken EXCEPT ![m] = @ + 1]
    BY <1>4 DEF Talks, Hangs, Waits, Acks, Takes, Works, Replies, SendOK, OneLine
  <2>2. m \in Call /\ taken \in [Call -> Nat]
    BY <1>4, <2>1 DEF DaemonType, TakenType
  <2>3. Asks(c, m)
    BY <2>1 DEF Asks
  <2>4. taken[m] = 0 /\ Sent(m) /\ \A d \in Conn : Asks(d, m) => d = c
    BY <2>2, <2>3 DEF SendOK, SentOnce
  <2>5. \A d \in Conn, n \in Call : Asks(d, n)' => Asks(d, n) /\ d # c
    BY <1>1, <2>1 DEF Asks
  <2>6. taken'[m] = 1 /\ \A n \in Call : n # m => taken'[n] = taken[n]
    BY <2>1, <2>2, <2>4
  <2> HIDE DEF m
  <2>7. ASSUME NEW n \in Call PROVE taken'[n] <= 1 /\ (taken'[n] > 0 => Sent(n)')
    BY <1>2, <2>4, <2>6 DEF SendOK, SentOnce
  <2>8. ASSUME NEW n \in Call, NEW d \in Conn, Asks(d, n)'
        PROVE  taken'[n] = 0 /\ Sent(n)' /\ \A e \in Conn : Asks(e, n)' => e = d
    <3>1. n # m
      BY <2>4, <2>5, <2>8
    <3> QED
      BY <1>2, <2>5, <2>6, <2>8, <3>1 DEF SendOK, SentOnce
  <2>9. SentOnce'
    BY <2>7, <2>8 DEF SentOnce
  <2> QED
    BY <1>1, <2>9 DEF SendOK, OneLine
<1> QED
  BY <1>3, <1>4

\* What a thread does to the connection a call is at.
LEMMA ThreadServes ==
  ASSUME DaemonType, CallOK, NEW c \in Conn, Talks(c), far[c] = "open", call' = call
  PROVE  /\ Clear(c) => Clear(c)'
         /\ Greeting(c) => Greeting(c)'
         /\ Asking(c) => Asking(c)'
<1>0. /\ Hello \in Line /\ in[c] \in Seq(Line) /\ out[c] \in Seq(Reply)
      /\ job[c] \in Line /\ Request' = Request
  BY Lines DEF DaemonType, ConnType, NoJob, Request
<1>1. Clear(c) => Clear(c)'
  BY DEF Clear, AtRest, Working, Talks, Hangs, Waits, Acks, Takes, Works, Replies
<1>2. ASSUME Greeting(c) PROVE Greeting(c)'
  <2>1. CASE thread[c] \in {"queued", "counted"}
    BY <1>2, <2>1 DEF Greeting, AtRest, Working, Talks, Hangs, Waits, Acks, Takes, Works, Replies
  <2>2. CASE thread[c] = "hello"
    <3>1. in[c] = <<Hello>> /\ out[c] = <<>>
      BY <1>2, <2>2 DEF Greeting, AtRest
    <3>2. Acks(c)
      BY <2>2, <3>1, OneItem DEF Talks, Hangs, Waits, Acks, Takes, Works, Replies, Working
    <3>3. in'[c] = <<>> /\ Tail(out'[c]) = <<>> /\ thread'[c] = "control"
      BY <3>1, <3>2, OneItem DEF Acks
    <3> QED
      BY <3>3 DEF Greeting, AtRest
  <2>3. CASE AtRest(c)
    BY <1>2, <2>3 DEF Greeting, AtRest, Working, Talks, Hangs, Waits, Acks, Takes, Works, Replies
  <2> QED
    BY <1>2, <2>1, <2>2, <2>3 DEF Greeting
<1>3. ASSUME Asking(c) PROVE Asking(c)'
  <2>1. CASE in[c] # <<>>
    <3>1. in[c] = <<Request>> /\ out[c] = <<>> /\ thread[c] = "control"
      BY <1>3, <2>1 DEF Asking
    <3>2. Takes(c)
      BY <2>1, <3>1 DEF Talks, Hangs, Waits, Acks, Takes, Works, Replies, Working
    <3>3. in'[c] = <<>> /\ out'[c] = <<>> /\ thread'[c] = call.op /\ job'[c].call = call.n
      BY <3>1, <3>2, OneItem DEF Takes, Request
    <3>4. call.op \in Working
      BY DEF CallOK, Working
    <3> QED
      BY <3>3, <3>4 DEF Asking
  <2>2. CASE in[c] = <<>> /\ thread[c] \in Working
    <3>1. out[c] = <<>> /\ job[c].call = call.n
      BY <1>3, <2>2 DEF Asking, AtRest, Working
    <3>2. CASE Works(c)
      BY <2>2, <3>1, <3>2 DEF Works, Asking
    <3>3. CASE Replies(c)
      <4>1. PICK r \in Reply : r.call = job[c].call /\ out'[c] = Append(out[c], r)
        BY <3>3 DEF Replies
      <4>2. Tail(out'[c]) = <<>> /\ Head(out'[c]).call = call.n
        BY <3>1, <4>1, OneItem
      <4> QED
        BY <2>2, <3>3, <4>2 DEF Replies, Asking, AtRest
    <3> QED
      BY <2>2, <3>2, <3>3 DEF Talks, Hangs, Waits, Acks, Takes, Working
  <2>3. CASE in[c] = <<>> /\ thread[c] \notin Working
    BY <1>3, <2>3 DEF Asking, AtRest, Talks, Hangs, Waits, Acks, Takes, Works, Replies, Working
  <2> QED
    BY <2>1, <2>2, <2>3
<1> QED
  BY <1>1, <1>2, <1>3

LEMMA ThreadHolds ==
  ASSUME DaemonType, CallOK, HeldOK, KeptOK, NEW c \in Conn, Talks(c),
         UNCHANGED <<app, control, call, stranger>>
  PROVE  HeldOK' /\ KeptOK'
<1>1. KeptOK'
  BY DEF KeptOK
<1>2. Held' = Held /\ far' = far
  BY DEF Held, Talks
<1>3. CASE Held = c
  <2>1. Held' = c
    BY <1>2, <1>3
  <2>2. /\ Clear(Held)' = Clear(c)' /\ Greeting(Held)' = Greeting(c)'
        /\ Asking(Held)' = Asking(c)'
    BY <2>1 DEF Clear, Greeting, Asking, AtRest
  <2>3. Held \in Conn /\ far[c] = "open" /\ UNCHANGED <<call, stranger>>
    BY <1>3, <2>1 DEF HeldOK
  <2> QED
    BY <1>1, <1>2, <1>3, <2>1, <2>2, <2>3, ThreadServes DEF HeldOK
<1>4. ASSUME Held \in Conn, Held # c
      PROVE  /\ Clear(Held)' = Clear(Held) /\ Greeting(Held)' = Greeting(Held)
             /\ Asking(Held)' = Asking(Held)
  BY <1>2, <1>4 DEF Clear, Greeting, Asking, AtRest, Request, Talks, Others
<1> QED
  BY <1>1, <1>2, <1>3, <1>4 DEF HeldOK

-----------------------------------------------------------------------------
(* The other steps of the daemon's side *)

Client == <<app, control, call, stranger>>

LEMMA StillTalks ==
  ASSUME TalkOK, UNCHANGED Client, UNCHANGED <<thread, job, in, out, far, taken>>
  PROVE  TalkOK'
<1>1. SendOK'
  <2>1. \A n : Sent(n)' = Sent(n)
    BY DEF Sent, Client
  <2> QED
    BY <2>1, LessSends DEF TalkOK
<1>2. KeptOK'
  BY DEF TalkOK, KeptOK, Client
<1>3. HeldOK'
  <2>1. Held' = Held
    BY DEF Held, Client
  <2>2. /\ Clear(Held)' = Clear(Held) /\ Greeting(Held)' = Greeting(Held)
        /\ Asking(Held)' = Asking(Held)
    BY <2>1 DEF Clear, Greeting, Asking, AtRest, Request, Client
  <2> QED
    BY <2>1, <2>2 DEF TalkOK, HeldOK, Client
<1> QED
  BY <1>1, <1>2, <1>3 DEF TalkOK

LEMMA EndsTalks ==
  ASSUME DaemonType, TalkOK, NEW p \in Proc, Ends(p), UNCHANGED Client
  PROVE  TalkOK'
<1>1. \A d \in Conn :
        \/ thread'[d] = "closed" /\ in'[d] = <<>>
        \/ thread'[d] = thread[d] /\ in'[d] = in[d] /\ job'[d] = job[d]
  BY DEF Ends
<1>2. SendOK'
  <2>1. \A n : Sent(n)' = Sent(n)
    BY DEF Sent, Client
  <2> QED
    BY <1>1, <2>1, LessSends DEF TalkOK, Ends
<1>3. KeptOK'
  BY DEF TalkOK, KeptOK, Client
<1>4. Held' = Held /\ Request' = Request /\ UNCHANGED <<far, out, call, stranger>>
  BY DEF Held, Request, Ends, Client
<1>5. ASSUME NEW d \in Conn
      PROVE  /\ Clear(d) => Clear(d)'
             /\ Greeting(d) => Greeting(d)'
             /\ Asking(d) => Asking(d)'
  BY <1>1, <1>4 DEF Clear, Greeting, Asking, AtRest
<1>6. HeldOK'
  <2> SUFFICES ASSUME NEW d \in Conn, d = Held PROVE HeldOK'
    BY <1>4 DEF HeldOK
  <2>1. /\ Clear(Held)' = Clear(d)' /\ Greeting(Held)' = Greeting(d)'
        /\ Asking(Held)' = Asking(d)'
    BY <1>4 DEF Clear, Greeting, Asking, AtRest
  <2> QED
    BY <1>4, <1>5, <2>1 DEF TalkOK, HeldOK
<1> QED
  BY <1>2, <1>3, <1>6 DEF TalkOK

\* A connection is not held that a new one may take the slot of.
LEMMA SlotFree ==
  ASSUME HeldOK, FreeConn # {}
  PROVE  Slot \in Conn /\ Slot # Held
<1>1. Slot \in FreeConn
  BY DEF Slot
<1> QED
  BY <1>1 DEF FreeConn, HeldOK

LEMMA DaemonTalks ==
  ASSUME DaemonType, JobOK, CallOK, TalkOK, DaemonStep, UNCHANGED Client
  PROVE  TalkOK'
<1>1. CASE \E c \in Conn : ThreadStep(c)
  <2>1. PICK c \in Conn : Talks(c)
    BY <1>1, ThreadTalks
  <2> QED
    BY <2>1, ThreadSends, ThreadHolds DEF TalkOK, Client
<1>2. CASE \E i \in Id : PumpStep(i) \/ ShellEnds(i)
  BY <1>2, StillTalks DEF PumpStep, PumpEnds, ShellEnds, connVars
<1>3. ASSUME NEW p \in Proc, StartStep(p) \/ MonitorStep(p) \/ GracePasses(p) PROVE TalkOK'
  <2>1. CASE Ends(p)
    BY <2>1, EndsTalks
  <2>2. CASE ~Ends(p)
    <3>1. UNCHANGED <<connVars, taken>>
      BY <1>3, <2>2
         DEF StartStep, TakeLock, RemoveStale, Bind, Load, MonitorStep, LookAtSessions,
             LookAtClients, LookAtClock, RemoveSocket, IdleExit, MonitorMoves, GracePasses
    <3> QED
      BY <3>1, StillTalks DEF connVars
  <2> QED
    BY <2>1, <2>2
<1> QED
  BY <1>1, <1>2, <1>3 DEF DaemonStep

-----------------------------------------------------------------------------
(* The client's steps *)

\* The call goes on, unwritten as before or over.
LEMMA QuietSends ==
  ASSUME CallOK, SendOK, UNCHANGED <<in, taken>>, call'.n = call.n,
         call'.at \in Early => call.at \in Early
  PROVE  SendOK'
<1>1. \A n \in Call : Sent(n) => Sent(n)'
  BY DEF Sent
<1> QED
  BY <1>1, LessSends

LEMMA FailsTalks ==
  ASSUME CallOK, TalkOK, Fails
  PROVE  TalkOK'
<1>1. /\ UNCHANGED <<in, taken>> /\ call' = [Idle EXCEPT !.n = call.n]
      /\ control' = "none" /\ app' = "up"
  BY DEF Fails, Finishes, Drops, QuietDaemon
<1>2. call'.n = call.n /\ call'.at = "idle"
  BY <1>1 DEF Idle
<1>3. SendOK'
  BY <1>1, <1>2, QuietSends DEF TalkOK, Early
<1>4. HeldOK'
  BY <1>1, <1>2, ClientAssumption DEF HeldOK, Held
<1>5. KeptOK'
  BY <1>1, <1>2 DEF KeptOK, Early
<1> QED
  BY <1>3, <1>4, <1>5 DEF TalkOK

LEMMA MovesTo ==
  ASSUME CallOK, NEW at, NEW on, Moves(at, on)
  PROVE  /\ call'.n = call.n /\ call'.at = at /\ call'.on = on
         /\ Request' = Request
BY DEF CallOK, Moves, Request

LEMMA SendTalks ==
  ASSUME DaemonType, CallOK, TalkOK, Send
  PROVE  TalkOK'
<1>0. /\ call.at \in {"send", "fresh"} /\ call.on \in Conn /\ Held = call.on
      /\ Clear(call.on) /\ far[call.on] = "open" /\ call.on \notin stranger
  BY DEF Send, CallOK, Held, TalkOK, HeldOK
<1>1. CASE thread[call.on] # "closed"
  <2>1. /\ in' = [in EXCEPT ![call.on] = Append(@, Request)] /\ Moves("answer", call.on)
        /\ UNCHANGED <<thread, job, out, far, app, control, stranger, taken>>
    BY <1>1 DEF Send, QuietDaemon
  <2>2. /\ call'.n = call.n /\ call'.at = "answer" /\ call'.on = call.on /\ Request' = Request
    BY <2>1, MovesTo
  <2>3. in'[call.on] = <<Request>> /\ \A d \in Conn : d # call.on => in'[d] = in[d]
    BY <1>0, <2>1, OneItem DEF Clear, DaemonType, ConnType
  <2>4. OneLine'
    BY <2>3, OneItem DEF TalkOK, SendOK, OneLine
  <2>5. SentOnce'
    <3>0. PICK m : m = call.n
      OBVIOUS
    <3>1. \A d \in Conn, n \in Call : Asks(d, n)' => (d # call.on /\ Asks(d, n)) \/ (d = call.on /\ n = m)
      BY <2>3, <3>0, OneItem DEF Asks, Request
    <3>2. ~Sent(m)
      <4>1. m \in 0 .. MaxCalls
        BY <3>0 DEF CallOK
      <4>2. ~(m < m)
        BY <4>1, DaemonAssumption
      <4> QED
        BY <1>0, <3>0, <4>2 DEF Sent, Early
    <3>3. m \in Call => taken[m] = 0 /\ \A d \in Conn : ~Asks(d, m)
      BY <3>2 DEF TalkOK, SendOK, SentOnce, DaemonType, TakenType
    <3>4. Sent(m)' /\ \A n \in Call : Sent(n) => Sent(n)'
      BY <1>0, <2>2, <3>0 DEF Sent, Early
    <3>5. taken' = taken
      BY <2>1
    <3>6. ASSUME NEW n \in Call PROVE taken'[n] <= 1 /\ (taken'[n] > 0 => Sent(n)')
      BY <3>4, <3>5 DEF TalkOK, SendOK, SentOnce
    <3>7. ASSUME NEW n \in Call, NEW d \in Conn, Asks(d, n)'
          PROVE  taken'[n] = 0 /\ Sent(n)' /\ \A e \in Conn : Asks(e, n)' => e = d
      <4>1. CASE n = m
        <5>1. taken'[n] = 0 /\ Sent(n)'
          BY <3>3, <3>4, <3>5, <4>1
        <5>2. \A e \in Conn : Asks(e, n)' => e = call.on
          BY <3>1, <3>3, <4>1
        <5> QED
          BY <3>7, <5>1, <5>2
      <4>2. CASE n # m
        <5>1. \A e \in Conn : Asks(e, n)' => Asks(e, n)
          BY <3>1, <4>2
        <5> QED
          BY <3>4, <3>5, <3>7, <5>1 DEF TalkOK, SendOK, SentOnce
      <4> QED
        BY <4>1, <4>2
    <3> QED
      BY <3>6, <3>7 DEF SentOnce
  <2>6. KeptOK'
    BY <2>1, <2>2 DEF TalkOK, KeptOK, Early
  <2>7. Asking(call.on)'
    BY <1>0, <1>1, <2>1, <2>2, <2>3 DEF Asking, Clear, AtRest
  <2>8. HeldOK'
    BY <1>0, <2>1, <2>2, <2>7 DEF HeldOK, Held, Asking, AtRest
  <2> QED
    BY <2>4, <2>5, <2>6, <2>8 DEF TalkOK, SendOK
<1>2. CASE Reconnects
  <2>1. /\ Moves("connect", "none") /\ control' = "none" /\ UNCHANGED <<in, taken, app>>
    BY <1>2 DEF Reconnects, Drops, QuietDaemon
  <2>2. call'.n = call.n /\ call'.at = "connect" /\ call'.on = "none"
    BY <2>1, MovesTo
  <2>3. SendOK'
    BY <1>0, <2>1, <2>2, QuietSends DEF TalkOK, Early
  <2>4. HeldOK'
    BY <2>2, ClientAssumption DEF HeldOK, Held
  <2> QED
    BY <2>1, <2>2, <2>3, <2>4 DEF TalkOK, KeptOK
<1>3. CASE Fails
  BY <1>3, FailsTalks
<1> QED
  BY <1>1, <1>2, <1>3 DEF Send

LEMMA HeardTalks ==
  ASSUME DaemonType, CallOK, TalkOK, Heard
  PROVE  TalkOK' /\ Head(out[call.on]).call = call.n
<1>0. /\ call.at = "answer" /\ call.on \in Conn /\ Held = call.on /\ out[call.on] # <<>>
      /\ Asking(call.on) /\ far[call.on] = "open" /\ call.on \notin stranger
  BY DEF Heard, CallOK, Held, TalkOK, HeldOK
<1>1. /\ in[call.on] = <<>> /\ AtRest(call.on) /\ Tail(out[call.on]) = <<>>
      /\ Head(out[call.on]).call = call.n
  BY <1>0 DEF Asking
<1>2. /\ call' = [Idle EXCEPT !.n = call.n] /\ control' = call.on /\ app' = "up"
      /\ out' = [out EXCEPT ![call.on] = Tail(@)] /\ UNCHANGED <<thread, in, far, taken, stranger>>
  BY DEF Heard, Finishes, QuietDaemon
<1>3. call'.n = call.n /\ call'.at = "idle"
  BY <1>2 DEF Idle
<1>4. SendOK'
  BY <1>2, <1>3, QuietSends DEF TalkOK, Early
<1>6. HeldOK'
  <2>1. Held' = call.on
    BY <1>2, <1>3 DEF Held
  <2>2. Clear(Held)'
    BY <1>0, <1>1, <1>2, <2>1 DEF Clear, AtRest, DaemonType, ConnType
  <2> QED
    BY <1>0, <1>2, <1>3, <2>1, <2>2 DEF HeldOK
<1>7. KeptOK'
  BY <1>2, <1>3 DEF KeptOK, Early
<1> QED
  BY <1>1, <1>4, <1>6, <1>7 DEF TalkOK

\* Connecting: a slot that is free is nobody's.
LEMMA DialTalks ==
  ASSUME DaemonType, CallOK, TalkOK, Dial
  PROVE  TalkOK'
<1>0. /\ call.at \in {"connect", "poll"} /\ control = "none" /\ FreeConn # {}
      /\ Dials(Slot, socket, <<Hello>>) /\ stranger' = stranger \ {Slot}
      /\ UNCHANGED <<app, control>>
  BY DEF Dial, TalkOK, KeptOK, Early
<1>1. Slot \in Conn
  BY <1>0, SlotFree DEF TalkOK
<1>2. PICK c \in Conn : c = Slot
  BY <1>1
<1>3. PICK at \in {"ack", "poll ack"} : Moves(at, c)
  BY <1>0, <1>2 DEF Dial
<1>4. call'.n = call.n /\ call'.at = at /\ call'.on = c
  BY <1>3, MovesTo
<1>5. /\ thread'[c] = "queued" /\ in'[c] = <<Hello>> /\ out'[c] = <<>> /\ far'[c] = "open"
      /\ \A d \in Conn : d # c => in'[d] = in[d]
      /\ taken' = taken /\ c \notin stranger'
  BY <1>0, <1>2 DEF Dials, QuietDaemon, DaemonType, ConnType
<1>6. SendOK'
  <2>1. \A n \in Call : Sent(n) => Sent(n)'
    BY <1>0, <1>3, <1>4 DEF Sent, Early
  <2> QED
    BY <1>5, <2>1, LessSends DEF TalkOK
<1>7. HeldOK'
  <2>1. Held' = c
    BY <1>3, <1>4 DEF Held
  <2>2. Greeting(Held)'
    BY <1>5, <2>1 DEF Greeting, AtRest
  <2> QED
    BY <1>3, <1>4, <1>5, <2>1, <2>2 DEF HeldOK
<1>8. KeptOK'
  BY <1>0, <1>3, <1>4 DEF KeptOK
<1> QED
  BY <1>6, <1>7, <1>8 DEF TalkOK

\* A step between two attempts, with no connection in use.
LEMMA LooseTalks ==
  ASSUME CallOK, TalkOK, UNCHANGED <<in, taken, app>>, call.at \in Early \ {"send"},
         control' = "none", NEW at \in {"start", "poll"}, call'.n = call.n,
         call'.at = at, call'.on = "none"
  PROVE  TalkOK'
<1>1. SendOK'
  BY QuietSends DEF TalkOK
<1>2. HeldOK'
  BY ClientAssumption DEF HeldOK, Held
<1>3. KeptOK'
  BY DEF KeptOK
<1> QED
  BY <1>1, <1>2, <1>3 DEF TalkOK

LEMMA CallTalks ==
  ASSUME DaemonType, CallOK, TalkOK, CallStep
  PROVE  TalkOK'
<1>1. CASE Send
  BY <1>1, SendTalks
<1>2. CASE Heard
  BY <1>2, HeardTalks
<1>3. CASE Unanswered \/ DeadlinePasses
  BY <1>3, FailsTalks DEF Unanswered, GivesUp, DeadlinePasses
<1>4. CASE Dial
  BY <1>4, DialTalks
<1>5. CASE NotRunning
  <2>1. call.at = "connect" /\ control = "none" /\ UNCHANGED <<in, taken, control>>
    BY <1>5 DEF NotRunning, TalkOK, KeptOK, Early, daemonVars, connVars
  <2>2. CASE app = "new"
    <3>1. call' = [Idle EXCEPT !.n = call.n] /\ app' = "up"
      BY <1>5, <2>2 DEF NotRunning, Finishes
    <3>2. call'.n = call.n /\ call'.at = "idle"
      BY <3>1 DEF Idle
    <3>3. SendOK'
      BY <2>1, <3>2, QuietSends DEF TalkOK, Early
    <3>4. HeldOK'
      BY <2>1, <3>2, ClientAssumption DEF HeldOK, Held
    <3> QED
      BY <2>1, <3>1, <3>2, <3>3, <3>4 DEF TalkOK, KeptOK
  <2>3. CASE app # "new"
    <3>1. Moves("start", "none") /\ UNCHANGED app
      BY <1>5, <2>3 DEF NotRunning
    <3>2. call'.n = call.n /\ call'.at = "start" /\ call'.on = "none"
      BY <3>1, MovesTo
    <3> QED
      BY <2>1, <3>1, <3>2, LooseTalks DEF Early
  <2> QED
    BY <2>2, <2>3
<1>6. CASE StartDaemon
  <2>1. call.at = "start" /\ Moves("poll", "none") /\ UNCHANGED <<in, taken, app, control>>
    BY <1>6 DEF StartDaemon, QuietDaemon, connVars
  <2>2. call'.n = call.n /\ call'.at = "poll" /\ call'.on = "none"
    BY <2>1, MovesTo
  <2>3. control' = "none"
    BY <2>1 DEF TalkOK, KeptOK, Early
  <2> QED
    BY <2>1, <2>2, <2>3, LooseTalks DEF Early
<1>7. CASE Acknowledged
  <2>0. /\ call.at \in {"ack", "poll ack"} /\ call.on \in Conn /\ Held = call.on
        /\ out[call.on] # <<>> /\ Greeting(call.on) /\ far[call.on] = "open"
        /\ call.on \notin stranger /\ control = "none"
    BY <1>7 DEF Acknowledged, CallOK, Held, TalkOK, HeldOK, KeptOK, Early
  <2>1. /\ out' = [out EXCEPT ![call.on] = Tail(@)] /\ Moves("fresh", call.on)
        /\ UNCHANGED <<thread, in, far, taken, app, control, stranger>>
    BY <1>7 DEF Acknowledged, QuietDaemon
  <2>2. call'.n = call.n /\ call'.at = "fresh" /\ call'.on = call.on
    BY <2>1, MovesTo
  <2>3. SendOK'
    BY <2>0, <2>1, <2>2, QuietSends DEF TalkOK, Early
  <2>4. Clear(call.on)'
    BY <2>0, <2>1, <2>2 DEF Clear, Greeting, AtRest, DaemonType, ConnType
  <2>5. HeldOK'
    BY <2>0, <2>1, <2>2, <2>4 DEF HeldOK, Held, Clear, AtRest
  <2>6. KeptOK'
    BY <2>0, <2>1, <2>2 DEF KeptOK, Early
  <2> QED
    BY <2>3, <2>5, <2>6 DEF TalkOK
<1>8. CASE Unacknowledged
  <2>1. CASE Fails
    BY <2>1, FailsTalks
  <2>2. CASE ~Fails
    <3>1. /\ call.at \in {"ack", "poll ack"} /\ Drops({call.on}) /\ UNCHANGED <<app, control>>
          /\ call' = [call EXCEPT !.at = "poll", !.on = "none", !.tries = 1]
      BY <1>8, <2>2 DEF Unacknowledged
    <3>2. call'.n = call.n /\ call'.at = "poll" /\ call'.on = "none"
      BY <3>1 DEF CallOK
    <3>3. UNCHANGED <<in, taken>> /\ control' = "none"
      BY <3>1 DEF Drops, QuietDaemon, TalkOK, KeptOK, Early
    <3> QED
      BY <3>1, <3>2, <3>3, LooseTalks DEF Early
  <2> QED
    BY <2>1, <2>2
<1> QED
  BY <1>1, <1>2, <1>3, <1>4, <1>5, <1>6, <1>7, <1>8 DEF CallStep

-----------------------------------------------------------------------------
(* A call begins, and the world around *)

LEMMA BeginTalks ==
  ASSUME DaemonType, CallOK, TalkOK,
         BeginCensus \/ \E op \in {"open", "look", "kill"}, i \in Id \cup {0} : Begin(op, i)
  PROVE  TalkOK'
<1>0. /\ call.at = "idle" /\ Held = control /\ UNCHANGED <<daemonVars, app, control, stranger>>
      /\ call.n \in 0 .. MaxCalls
  BY DEF BeginCensus, Begin, Held, CallOK
<1>1. /\ call'.n = call.n + 1 /\ call'.at \in {"connect", "send"}
      /\ call'.at = "connect" => control = "none" /\ call'.on = "none"
      /\ call'.at = "send" => call'.on = control
  <2>1. CASE BeginCensus
    <3>1. call' = [Idle EXCEPT !.n = call.n + 1, !.at = "connect"] /\ app = "new"
      BY <2>1 DEF BeginCensus
    <3> QED
      BY <3>1 DEF Idle, TalkOK, KeptOK
  <2>2. CASE \E op \in {"open", "look", "kill"}, i \in Id \cup {0} : Begin(op, i)
    BY <2>2 DEF Begin
  <2> QED
    BY <2>1, <2>2
<1>2. SendOK'
  <2>1. \A n \in Call : Sent(n) => Sent(n)'
    BY <1>0, <1>1, DaemonAssumption DEF Sent, Call
  <2> QED
    BY <1>0, <2>1, LessSends DEF TalkOK, daemonVars, connVars
<1>3. HeldOK'
  <2>1. CASE call'.at = "connect"
    BY <1>1, <2>1, ClientAssumption DEF HeldOK, Held
  <2>2. CASE call'.at = "send"
    <3>1. Held' = Held /\ UNCHANGED connVars /\ stranger' = stranger
      BY <1>0, <1>1, <2>2 DEF Held, daemonVars
    <3> SUFFICES ASSUME NEW d \in Conn, d = Held PROVE HeldOK'
      BY <3>1 DEF HeldOK
    <3>2. Clear(Held)' = Clear(Held)
      BY <3>1 DEF Clear, AtRest, connVars
    <3> QED
      BY <1>0, <2>2, <3>1, <3>2 DEF TalkOK, HeldOK, connVars
  <2> QED
    BY <1>1, <2>1, <2>2
<1>4. KeptOK'
  BY <1>0, <1>1 DEF TalkOK, KeptOK, Early
<1> QED
  BY <1>2, <1>3, <1>4 DEF TalkOK

LEMMA QuitTalks ==
  ASSUME DaemonType, CallOK, TalkOK, Quit
  PROVE  TalkOK'
<1>1. /\ UNCHANGED <<in, taken>> /\ call' = [Idle EXCEPT !.n = call.n]
      /\ control' = "none" /\ app' = "down"
  BY DEF Quit, Drops, QuietDaemon
<1>2. call'.n = call.n /\ call'.at = "idle"
  BY <1>1 DEF Idle
<1>3. SendOK'
  BY <1>1, <1>2, QuietSends DEF TalkOK, Early
<1>4. HeldOK'
  BY <1>1, <1>2, ClientAssumption DEF HeldOK, Held
<1> QED
  BY <1>1, <1>2, <1>3, <1>4 DEF TalkOK, KeptOK, Early

LEMMA StrangerTalks ==
  ASSUME DaemonType, CallOK, TalkOK, StrangerConnects
  PROVE  TalkOK'
<1>0. /\ FreeConn # {} /\ Dials(Slot, socket, <<>>) /\ stranger' = stranger \cup {Slot}
      /\ UNCHANGED <<app, control, call>>
  BY DEF StrangerConnects
<1>1. PICK c \in Conn : c = Slot /\ c # Held
  BY <1>0, SlotFree DEF TalkOK
<1>2. /\ \A d \in Conn : d # c => /\ in'[d] = in[d] /\ out'[d] = out[d] /\ far'[d] = far[d]
                                 /\ thread'[d] = thread[d]
      /\ in'[c] = <<>> /\ UNCHANGED <<taken, job>> /\ stranger' = stranger \cup {c}
  BY <1>0, <1>1 DEF Dials, QuietDaemon, DaemonType, ConnType
<1>3. SendOK'
  <2>1. \A n \in Call : Sent(n) => Sent(n)'
    BY <1>0 DEF Sent
  <2> QED
    BY <1>2, <2>1, LessSends DEF TalkOK
<1>4. HeldOK'
  <2>1. Held' = Held
    BY <1>0 DEF Held
  <2> SUFFICES ASSUME NEW d \in Conn, d = Held PROVE HeldOK'
    BY <2>1 DEF HeldOK
  <2>2. /\ Clear(Held)' = Clear(Held) /\ Greeting(Held)' = Greeting(Held)
        /\ Asking(Held)' = Asking(Held)
    BY <1>0, <1>1, <1>2, <2>1 DEF Clear, Greeting, Asking, AtRest, Request
  <2> QED
    BY <1>0, <1>1, <1>2, <2>1, <2>2 DEF TalkOK, HeldOK
<1>5. KeptOK'
  BY <1>0 DEF TalkOK, KeptOK
<1> QED
  BY <1>3, <1>4, <1>5 DEF TalkOK

-----------------------------------------------------------------------------
(* The theorems *)

LEMMA TalkStep == IInv /\ TalkOK /\ [Next]_vars => TalkOK'
<1> SUFFICES ASSUME IInv, TalkOK, [Next]_vars PROVE TalkOK'
  OBVIOUS
<1>0. DaemonType /\ JobOK /\ CallOK
  BY TypeParts DEF IInv
<1>1. CASE DaemonStep /\ Bystander
  BY <1>0, <1>1, DaemonTalks DEF Bystander, Client
<1>2. CASE BeginCensus \/ Begin("open", 0) \/ Begin("look", 0)
             \/ \E i \in Id : born[i] > 0 /\ Begin("kill", i)
  BY <1>0, <1>2, BeginTalks
<1>3. CASE CallStep
  BY <1>0, <1>3, CallTalks
<1>4. CASE Quit
  BY <1>0, <1>4, QuitTalks
<1>5. CASE CannotStart
  BY <1>0, <1>5, FailsTalks DEF CannotStart
<1>6. CASE Rival
  BY <1>6, StillTalks DEF Rival, QuietDaemon, connVars, Client
<1>7. CASE StrangerConnects
  BY <1>0, <1>7, StrangerTalks
<1>8. CASE \E p \in Proc : Dies(p)
  BY <1>0, <1>8, EndsTalks DEF Dies, Client
<1>9. CASE \E c \in Conn : Refused(c)
  <2>1. PICK c \in Conn : Refused(c)
    BY <1>9
  <2> QED
    BY <1>0, <2>1, ThreadTalks, ThreadSends, ThreadHolds DEF TalkOK, Refused
<1>10. CASE UNCHANGED vars
  BY <1>10, StillTalks DEF vars, clientVars, daemonVars, connVars, Client
<1> QED
  BY <1>1, <1>2, <1>3, <1>4, <1>5, <1>6, <1>7, <1>8, <1>9, <1>10 DEF Next

LEMMA TalkInit == Init => TalkOK
<1> SUFFICES ASSUME Init PROVE TalkOK
  OBVIOUS
<1>1. /\ taken = [n \in Call |-> 0] /\ \A c \in Conn : in[c] = <<>>
      /\ control = "none" /\ call.at = "idle"
  BY DEF Init, DaemonInit, Idle
<1>2. SendOK
  BY <1>1 DEF SendOK, OneLine, SentOnce, Asks
<1>3. HeldOK /\ KeptOK
  BY <1>1, ClientAssumption DEF HeldOK, KeptOK, Held, Early
<1> QED
  BY <1>2, <1>3 DEF TalkOK

LEMMA TalkHolds == Spec => []TalkOK
<1> QED
  BY TalkInit, TalkStep, Invariance, PTL DEF Spec

\* No request is carried out twice, though one is sent again when a kept connection
\* turns out closed, and daemons die and are started in between (round_trip, request).
THEOREM NothingTwice == Spec => []OnceOnly
<1>1. TalkOK => OnceOnly
  BY DEF TalkOK, SendOK, SentOnce, OnceOnly
<1> QED
  BY <1>1, TalkHolds, PTL

\* The reply a call ends with is the one to its own request, since a connection that
\* may hold another is never kept (round_trip's one line out, one line in).
THEOREM OwnAnswers == Spec => []AnswersMatch
<1>1. Init => AnswersMatch
  BY DEF Init, NoResult, AnswersMatch
<1>2. IInv /\ TalkOK /\ AnswersMatch /\ [Next]_vars => AnswersMatch'
  <2> SUFFICES ASSUME IInv, TalkOK, AnswersMatch, [Next]_vars PROVE AnswersMatch'
    OBVIOUS
  <2>0. DaemonType /\ CallOK
    BY TypeParts DEF IInv
  <2>1. ASSUME NEW result, NEW list, NEW n, Finishes(result, n, list), result = "reply" => n = call.n
        PROVE  AnswersMatch'
    <3>1. call'.n = call.n /\ last'.result = result /\ last'.of = n
      BY <2>1 DEF Finishes, Idle
    <3> QED
      BY <2>1, <3>1 DEF AnswersMatch
  <2>2. ASSUME UNCHANGED last, call'.n = call.n PROVE AnswersMatch'
    BY <2>2 DEF AnswersMatch
  <2>3. CASE last' = NoResult
    BY <2>3 DEF AnswersMatch, NoResult
  <2>4. CASE Fails
    BY <2>1, <2>4 DEF Fails, Unknown
  <2>5. CASE Heard
    BY <2>0, <2>1, <2>5, HeardTalks DEF Heard
  <2>6. CASE NotRunning
    BY <2>1, <2>2, <2>6, <2>0, MovesTo DEF NotRunning
  <2>7. CASE CallStep /\ ~Fails /\ ~Heard /\ ~NotRunning
    <3>1. CASE Unacknowledged
      <4>1. UNCHANGED last /\ call' = [call EXCEPT !.at = "poll", !.on = "none", !.tries = 1]
        BY <2>7, <3>1 DEF Unacknowledged
      <4>2. call'.n = call.n
        BY <2>0, <4>1 DEF CallOK
      <4> QED
        BY <2>2, <4>1, <4>2
    <3>2. CASE ~Unacknowledged
      <4>1. UNCHANGED last /\ \E at, on : Moves(at, on)
        BY <2>7, <3>2 DEF CallStep, Send, Reconnects, Unanswered, GivesUp, Dial, StartDaemon,
                          DeadlinePasses, Acknowledged
      <4> QED
        BY <2>0, <2>2, <4>1, MovesTo
    <3> QED
      BY <3>1, <3>2
  <2>8. CASE ~CallStep /\ ~Fails /\ last' # NoResult
    BY <2>2, <2>8 DEF Next, vars, clientVars, Bystander, BeginCensus, Begin, Quit, CannotStart,
                      Rival,
                      StrangerConnects, Dies, Refused
  <2> QED
    BY <2>3, <2>4, <2>5, <2>6, <2>7, <2>8
<1> QED
  BY <1>1, <1>2, Invariance, TalkHolds, PTL DEF Spec

-----------------------------------------------------------------------------
(* A failure has an excuse *)

Waiting == {"ack", "poll ack", "fresh", "answer"}

\* Somebody is on the way to serving, serves, or is about to go.
Coming == lock # "none" \/ \E p \in Proc : place[p] = "started"

\* The lock is held by one that is past it, and there is no socket in its way.
LockedOK ==
    /\ lock # "none" => place[lock] \in {"locked", "cleared", "bound", "serving"}
    /\ \A p \in Proc : place[p] = "cleared" => socket = "none"

\* A daemon hangs up on a call, or is not there when one polls for it, only by mishap.
HealOK ==
    /\ call.at \in Waiting /\ thread[call.on] = "closed" => mishap
    /\ call.at = "poll" => mishap \/ Coming
    /\ Heals

LEMMA EndsLocked ==
  ASSUME ProcType, LockOK, LockedOK, NEW p \in Proc, Ends(p)
  PROVE  LockedOK'
<1>0. place \in [Proc -> Places] /\ "none" \notin Proc /\ lock \in Proc \cup {"none"}
  BY DaemonAssumption DEF ProcType, Places
<1>1. \A q \in Proc : place'[q] = IF q = p THEN "off" ELSE place[q]
  BY <1>0 DEF Ends
<1>2. lock' = (IF lock = p THEN "none" ELSE lock) /\ socket' = (IF socket = p THEN "dead" ELSE socket)
  BY DEF Ends
<1>3. lock' # "none" => place'[lock'] \in {"locked", "cleared", "bound", "serving"}
  BY <1>0, <1>1, <1>2 DEF LockedOK
<1>4. ASSUME NEW q \in Proc, place'[q] = "cleared" PROVE socket' = "none"
  BY <1>0, <1>1, <1>2, <1>4 DEF LockedOK
<1> QED
  BY <1>3, <1>4 DEF LockedOK

\* A process may end while it starts only if another holds the lock.
LEMMA StartComes ==
  ASSUME ProcType, LockOK, LockedOK, NEW p \in Proc, StartStep(p)
  PROVE  LockedOK' /\ lock' # "none"
<1>0. /\ place \in [Proc -> Places] /\ "none" \notin Proc /\ lock \in Proc \cup {"none"}
      /\ socket \in Proc \cup {"none", "dead"}
  BY DaemonAssumption DEF ProcType, Places
<1>1. CASE TakeLock(p)
  <2>1. CASE Ends(p)
    <3>1. lock # p
      BY <1>0, <1>1 DEF TakeLock, LockedOK
    <3>2. CASE lock = "none"
      <4>1. place' = [place EXCEPT ![p] = "locked"]
        BY <1>1, <3>2 DEF TakeLock, MayLock
      <4> QED
        BY <1>0, <2>1, <4>1 DEF Ends
    <3> QED
      BY <2>1, <3>1, <3>2, EndsLocked DEF Ends
  <2>2. CASE ~Ends(p)
    <3>1. /\ lock = "none" /\ lock' = p /\ place' = [place EXCEPT ![p] = "locked"] /\ socket' = socket
      BY <1>1, <2>2 DEF TakeLock, MayLock
    <3> QED
      BY <1>0, <3>1 DEF LockedOK
  <2> QED
    BY <2>1, <2>2
<1>2. CASE RemoveStale(p)
  <2>1. place' = [place EXCEPT ![p] = "cleared"] /\ socket' = "none" /\ lock' = lock /\ lock = p
    BY <1>2 DEF RemoveStale, Removed, LockOK
  <2> QED
    BY <1>0, <2>1 DEF LockedOK
<1>3. CASE Bind(p)
  <2>1. lock = p /\ socket = "none"
    BY <1>3 DEF Bind, LockOK, LockedOK
  <2>2. place' = [place EXCEPT ![p] = "bound"] /\ socket' = p /\ lock' = lock
    BY <1>3, <2>1 DEF Bind
  <2>3. \A q \in Proc : place[q] = "cleared" => q = p
    BY <2>1 DEF LockOK
  <2> QED
    BY <1>0, <2>1, <2>2, <2>3 DEF LockedOK
<1>4. CASE Load(p)
  <2>1. place' = [place EXCEPT ![p] = "serving"] /\ socket' = socket /\ lock' = lock /\ lock = p
    BY <1>4 DEF Load, LockOK
  <2> QED
    BY <1>0, <2>1 DEF LockedOK
<1> QED
  BY <1>1, <1>2, <1>3, <1>4 DEF StartStep

LEMMA MonitorLocked ==
  ASSUME ProcType, LockOK, LockedOK, NEW p \in Proc, MonitorStep(p) \/ GracePasses(p)
  PROVE  LockedOK'
<1>1. CASE Ends(p)
  BY <1>1, EndsLocked
<1>2. CASE ~Ends(p)
  <2>1. Serving(p) /\ UNCHANGED <<place, lock>> /\ (socket' = socket \/ socket' = "none")
    BY <1>2 DEF MonitorStep, GracePasses, LookAtSessions, LookAtClients, LookAtClock,
                RemoveSocket,
                IdleExit, MonitorMoves, procVars
  <2> QED
    BY <2>1 DEF LockedOK
<1> QED
  BY <1>1, <1>2

LEMMA SameLocked ==
  ASSUME LockedOK, UNCHANGED <<place, lock, socket>>
  PROVE  LockedOK' /\ (Coming => Coming')
BY DEF LockedOK, Coming

\* A process that has not begun does no harm.
LEMMA SpawnLocked ==
  ASSUME ProcType, LockedOK, FreeProc # {}, UNCHANGED <<lock, socket>>,
         place' = [place EXCEPT ![CHOOSE p \in FreeProc : TRUE] = "started"]
  PROVE  LockedOK' /\ Coming'
<1>1. PICK q \in Proc : place[q] = "off" /\ q = (CHOOSE p \in FreeProc : TRUE)
  BY DEF FreeProc
<1>2. place' = [place EXCEPT ![q] = "started"] /\ place \in [Proc -> Places]
  BY <1>1 DEF ProcType, Places
<1>3. lock # "none" => lock \in Proc
  BY DEF ProcType
<1> QED
  BY <1>1, <1>2, <1>3 DEF LockedOK, Coming

\* While one holds the lock it can be reached, or is on its way up or out.
LEMMA NobodyComes ==
  ASSUME DaemonType, LockOK, LockedOK, ~Reached, ~Unsettled
  PROVE  ~Coming
<1>0. lock \in Proc \cup {"none"}
  BY DEF DaemonType, ProcType
<1>1. ASSUME lock \in Proc PROVE FALSE
  <2>1. place[lock] \in {"bound", "serving"} /\ monitor[lock] # "exit"
    BY <1>1, DaemonAssumption DEF LockedOK, Unsettled
  <2>2. socket = lock
    BY <1>1, <2>1 DEF LockOK, Listening
  <2> QED
    BY <1>1, <2>2 DEF Reached
<1>2. \A p \in Proc : place[p] # "started"
  BY DEF Unsettled
<1> QED
  BY <1>0, <1>1, <1>2 DEF Coming

-----------------------------------------------------------------------------

LEMMA HealFrame ==
  ASSUME HealOK, UNCHANGED <<call, last>>, mishap => mishap',
         call.at \in Waiting /\ thread'[call.on] = "closed" => thread[call.on] = "closed" \/ mishap',
         call.at = "poll" /\ Coming => Coming' \/ mishap'
  PROVE  HealOK'
BY DEF HealOK, Heals

\* A thread does not hang up on a call.
LEMMA ThreadStays ==
  ASSUME DaemonType, CallOK, HeldOK, NEW c \in Conn, Talks(c), call.at \in Waiting,
         thread'[call.on] = "closed"
  PROVE  thread[call.on] = "closed"
<1>0. /\ call.on \in Conn /\ Held = call.on
      /\ far[call.on] = "open"
      /\ Clear(call.on) \/ Greeting(call.on) \/ Asking(call.on)
  BY DEF Waiting, CallOK, Held, HeldOK
<1>1. CASE c # call.on
  BY <1>0, <1>1 DEF Talks, Others
<1>2. CASE c = call.on /\ thread[c] # "closed"
  <2>0. in[c] # <<>> => Head(in[c]).op # "closed"
    BY Lines DEF DaemonType, ConnType, Line
  <2>1. Hangs(c)
    BY <1>2, <2>0 DEF Talks, Waits, Acks, Takes, Works, Replies, Working
  <2>2. thread[c] = "hello" /\ in[c] = <<>>
    BY <1>0, <1>2, <2>1 DEF Hangs
  <2> QED
    BY <1>0, <1>2, <2>2, OneItem DEF Clear, Greeting, Asking, AtRest, Working
<1> QED
  BY <1>1, <1>2

LEMMA DaemonHeals ==
  ASSUME IInv, DaemonType, JobOK, CallOK, ClientType, TalkOK, LockedOK, HealOK, DaemonStep, Bystander
  PROVE  LockedOK' /\ HealOK'
<1>0. UNCHANGED <<call, last>> /\ (mishap => mishap') /\ ProcType /\ LockOK /\ ServedOK
  BY DEF Bystander, IInv, DaemonType
<1>1. ASSUME NEW c \in Conn, ThreadStep(c) PROVE LockedOK' /\ HealOK'
  <2>1. UNCHANGED <<place, lock, socket>> /\ Talks(c)
    BY <1>1, ThreadFrame, ThreadTalks
  <2> QED
    BY <1>0, <2>1, SameLocked, ThreadStays, HealFrame DEF TalkOK
<1>2. ASSUME NEW i \in Id, PumpStep(i) \/ ShellEnds(i) PROVE LockedOK' /\ HealOK'
  <2>1. UNCHANGED <<place, lock, socket, thread>>
    BY <1>2 DEF PumpStep, PumpEnds, ShellEnds, connVars, procVars
  <2> QED
    BY <1>0, <2>1, SameLocked, HealFrame
<1>3. ASSUME NEW p \in Proc, StartStep(p) PROVE LockedOK' /\ HealOK'
  <2>1. LockedOK' /\ Coming'
    BY <1>0, <1>3, StartComes DEF Coming
  <2>2. \A c \in Conn : thread'[c] = "closed" => thread[c] = "closed"
    <3>1. CASE Ends(p)
      <4>1. place[p] \notin {"bound", "serving"}
        <5>1. CASE Load(p)
          BY <1>0, <3>1, <5>1 DEF Load, Ends, ProcType
        <5> QED
          BY <1>3, <5>1 DEF StartStep, TakeLock, RemoveStale, Bind
      <4>2. \A c \in Conn : server[c] = p => thread[c] = "closed"
        BY <1>0, <4>1 DEF ServedOK, Listening
      <4> QED
        BY <3>1, <4>2 DEF Ends, Of
    <3>2. CASE ~Ends(p)
      BY <1>3, <3>2 DEF StartStep, TakeLock, RemoveStale, Bind, Load, connVars
    <3> QED
      BY <3>1, <3>2
  <2>3. call.at \in Waiting => call.on \in Conn
    BY DEF Waiting, CallOK
  <2> QED
    BY <1>0, <2>1, <2>2, <2>3, HealFrame
<1>4. ASSUME NEW p \in Proc, MonitorStep(p) \/ GracePasses(p) PROVE LockedOK' /\ HealOK'
  <2>1. LockedOK'
    BY <1>0, <1>4, MonitorLocked
  <2>2. CASE IdleExit(p)
    <3>1. monitor[p] = "exit" /\ place'[p] = "off"
      BY <1>0, <2>2 DEF IdleExit, Ends, ProcType
    <3>2. call.at # "idle" => mishap'
      BY <3>1 DEF Bystander
    <3> QED
      BY <1>0, <2>1, <3>2, HealFrame DEF Waiting
  <2>3. CASE ~IdleExit(p)
    <3>1. UNCHANGED <<place, lock, thread>>
      BY <1>4, <2>3 DEF MonitorStep, GracePasses, LookAtSessions, LookAtClients, LookAtClock,
                        RemoveSocket, MonitorMoves, procVars, connVars
    <3> QED
      BY <1>0, <2>1, <3>1, HealFrame DEF Coming
  <2> QED
    BY <2>2, <2>3
<1> QED
  BY <1>1, <1>2, <1>3, <1>4 DEF DaemonStep

\* The call is over, with an excuse if it failed, or at a place where none is needed.
LEMMA OverHeals ==
  ASSUME call'.at = "idle", last'.result = "failed" => mishap'
  PROVE  HealOK'
BY DEF HealOK, Heals, Waiting

LEMMA FailsHeals ==
  ASSUME CallOK, Fails, mishap'
  PROVE  HealOK'
BY IdleCall, OverHeals DEF Fails, Finishes, CallOK

LEMMA QuietLocked ==
  ASSUME LockedOK, UNCHANGED place, QuietDaemon
  PROVE  LockedOK' /\ (Coming => Coming')
BY SameLocked DEF QuietDaemon

LEMMA FailsLocked ==
  ASSUME LockedOK, Fails
  PROVE  LockedOK'
BY QuietLocked DEF Fails, Drops

\* Nobody answers: the daemon hung up by mishap, or it is one.
LEMMA SilenceHeals ==
  ASSUME HealOK, call.at \in Waiting, Silence(call.on)
  PROVE  mishap'
BY DEF Silence, HealOK

LEMMA CallHeals ==
  ASSUME DaemonType, CallOK, LockOK, ServedOK, TalkOK, LockedOK, HealOK, CallStep
  PROVE  LockedOK' /\ HealOK'
<1>0. ProcType /\ ConnType
  BY DEF DaemonType
<1>1. CASE Send
  <2>1. CASE Fails
    <3>1. mishap'
      <4>1. ~Moves("answer", call.on) /\ ~Moves("connect", "none")
        <5>1. call'.at = "idle"
          BY <2>1, IdleCall DEF Fails, Finishes
        <5> QED
          BY <5>1, MovesTo
      <4>2. call.at = "fresh" /\ thread[call.on] = "closed" /\ mishap' = mishap
        BY <1>1, <4>1 DEF Send, Reconnects
      <4> QED
        BY <4>2 DEF HealOK, Waiting
    <3> QED
      BY <2>1, <3>1, FailsHeals, FailsLocked
  <2>2. CASE ~Fails
    <3>1. \/ /\ thread[call.on] # "closed" /\ Moves("answer", call.on)
             /\ UNCHANGED <<place, thread>> /\ QuietDaemon
          \/ Reconnects
      BY <1>1, <2>2 DEF Send
    <3>2. UNCHANGED last /\ mishap' = mishap
      BY <1>1, <2>2 DEF Send, Reconnects
    <3>3. LockedOK'
      BY <3>1, QuietLocked DEF Reconnects, Drops
    <3>4. CASE Moves("answer", call.on) /\ thread[call.on] # "closed" /\ UNCHANGED thread
      <4>1. call'.at = "answer" /\ call'.on = call.on
        BY <3>4, MovesTo
      <4> QED
        BY <3>2, <3>3, <3>4, <4>1 DEF HealOK, Heals
    <3>5. CASE Reconnects
      <4>1. call'.at = "connect"
        BY <3>5, MovesTo DEF Reconnects
      <4> QED
        BY <3>2, <3>3, <4>1 DEF HealOK, Heals, Waiting
    <3> QED
      BY <3>1, <3>4, <3>5
  <2> QED
    BY <2>1, <2>2
<1>2. CASE Heard
  <2>1. LockedOK'
    BY <1>2, QuietLocked DEF Heard
  <2>2. call'.at = "idle" /\ last'.result = "reply"
    BY <1>2, IdleCall DEF Heard, Finishes
  <2> QED
    BY <2>1, <2>2, OverHeals
<1>3. CASE Unanswered
  BY <1>3, SilenceHeals, FailsHeals, FailsLocked DEF Unanswered, GivesUp, Waiting
<1>4. CASE Dial
  <2>0. UNCHANGED <<place, last, mishap>> /\ QuietDaemon /\ FreeConn # {}
    BY <1>4 DEF Dial, Dials
  <2>1. LockedOK'
    BY <2>0, QuietLocked
  <2>2. PICK c \in Conn : c = Slot
    BY <2>0, SlotFree DEF TalkOK
  <2>3. thread'[c] = "queued"
    BY <1>0, <1>4, <2>2 DEF Dial, Dials, ConnType
  <2>4. call'.at \in {"ack", "poll ack"} /\ call'.on = c
    BY <1>4, <2>2, MovesTo DEF Dial
  <2> QED
    BY <2>0, <2>1, <2>3, <2>4 DEF HealOK, Heals
<1>5. CASE NotRunning
  <2>1. LockedOK'
    BY <1>5, SameLocked DEF NotRunning, daemonVars, procVars
  <2>2. CASE app = "new"
    <3>1. call'.at = "idle" /\ last'.result = "reply"
      BY <1>5, <2>2, IdleCall DEF NotRunning, Finishes
    <3> QED
      BY <2>1, <3>1, OverHeals
  <2>3. CASE app # "new"
    <3>1. call'.at = "start" /\ UNCHANGED <<last, mishap>>
      BY <1>5, <2>3, MovesTo DEF NotRunning
    <3> QED
      BY <2>1, <3>1 DEF HealOK, Heals, Waiting
  <2> QED
    BY <2>2, <2>3
<1>6. CASE StartDaemon
  <2>1. LockedOK' /\ Coming'
    BY <1>0, <1>6, SpawnLocked DEF StartDaemon, QuietDaemon
  <2>2. call'.at = "poll" /\ UNCHANGED <<last, mishap>>
    BY <1>6, MovesTo DEF StartDaemon
  <2> QED
    BY <2>1, <2>2 DEF HealOK, Heals, Waiting
<1>7. CASE DeadlinePasses
  <2>1. mishap /\ mishap' = mishap
    BY <1>7, NobodyComes DEF DeadlinePasses, HealOK
  <2> QED
    BY <1>7, <2>1, FailsHeals, FailsLocked DEF DeadlinePasses
<1>8. CASE Acknowledged
  <2>1. UNCHANGED <<place, thread, last, mishap>> /\ QuietDaemon
    BY <1>8 DEF Acknowledged
  <2>2. call'.at = "fresh" /\ call'.on = call.on /\ call.at \in Waiting
    BY <1>8, MovesTo DEF Acknowledged, Waiting
  <2> QED
    BY <2>1, <2>2, QuietLocked DEF HealOK, Heals
<1>9. CASE Unacknowledged
  <2>1. mishap'
    BY <1>9, SilenceHeals DEF Unacknowledged, Waiting
  <2>2. CASE Fails
    BY <2>1, <2>2, FailsHeals, FailsLocked
  <2>3. CASE ~Fails
    <3>1. call' = [call EXCEPT !.at = "poll", !.on = "none", !.tries = 1] /\ Drops({call.on})
      BY <1>9, <2>3 DEF Unacknowledged
    <3>2. call'.at = "poll"
      BY <3>1 DEF CallOK
    <3>3. LockedOK'
      BY <3>1, QuietLocked DEF Drops
    <3> QED
      BY <2>1, <3>2, <3>3 DEF HealOK, Heals, Waiting
  <2> QED
    BY <2>2, <2>3
<1> QED
  BY <1>1, <1>2, <1>3, <1>4, <1>5, <1>6, <1>7, <1>8, <1>9 DEF CallStep

HealInv == IInv /\ TalkOK /\ LockedOK /\ HealOK

LEMMA HealStep == HealInv /\ [Next]_vars => LockedOK' /\ HealOK'
<1> SUFFICES ASSUME IInv, TalkOK, LockedOK, HealOK, [Next]_vars PROVE LockedOK' /\ HealOK'
  BY DEF HealInv
<1>0. DaemonType /\ JobOK /\ CallOK /\ ClientType /\ LockOK /\ ServedOK /\ ProcType /\ ConnType
  BY TypeParts DEF IInv, DaemonType
<1>1. CASE DaemonStep /\ Bystander
  BY <1>0, <1>1, DaemonHeals
<1>2. CASE BeginCensus \/ Begin("open", 0) \/ Begin("look", 0)
             \/ \E i \in Id : born[i] > 0 /\ Begin("kill", i)
  <2>1. UNCHANGED daemonVars /\ last' = NoResult
    BY <1>2 DEF BeginCensus, Begin
  <2>2. call'.at \in {"connect", "send"}
    <3>1. CASE BeginCensus
      <4>1. call' = [Idle EXCEPT !.n = call.n + 1, !.at = "connect"]
        BY <3>1 DEF BeginCensus
      <4> QED
        BY <4>1 DEF Idle
    <3>2. CASE ~BeginCensus
      BY <1>2, <3>2 DEF Begin
    <3> QED
      BY <3>1, <3>2
  <2> QED
    BY <2>1, <2>2, SameLocked DEF daemonVars, procVars, HealOK, Heals, Waiting, NoResult
<1>3. CASE CallStep
  BY <1>0, <1>3, CallHeals
<1>4. CASE Quit
  <2>1. LockedOK'
    BY <1>4, QuietLocked DEF Quit, Drops
  <2>2. call'.at = "idle" /\ last' = NoResult
    BY <1>4, IdleCall DEF Quit
  <2> QED
    BY <2>1, <2>2, OverHeals DEF NoResult
<1>5. CASE CannotStart
  BY <1>0, <1>5, FailsHeals, FailsLocked DEF CannotStart
<1>6. CASE Rival
  <2>1. LockedOK' /\ Coming'
    BY <1>0, <1>6, SpawnLocked DEF Rival, QuietDaemon
  <2>2. UNCHANGED <<thread, call, last, mishap>>
    BY <1>6 DEF Rival, connVars
  <2> QED
    BY <2>1, <2>2, HealFrame
<1>7. CASE StrangerConnects
  <2>0. /\ UNCHANGED <<place, call, last, mishap>> /\ QuietDaemon /\ FreeConn # {}
    BY <1>7 DEF StrangerConnects, Dials
  <2>1. thread' = [thread EXCEPT ![Slot] = "queued"]
    BY <1>7 DEF StrangerConnects, Dials
  <2>2. LockedOK' /\ (Coming => Coming')
    BY <2>0, QuietLocked
  <2>3. call.at \in Waiting => call.on \in Conn
    BY <1>0 DEF CallOK, Waiting
  <2>4. call.at \in Waiting /\ thread'[call.on] = "closed" => thread[call.on] = "closed"
    BY <1>0, <2>1, <2>3 DEF ConnType
  <2> QED
    BY <2>0, <2>2, <2>4, HealFrame
<1>8. CASE \E p \in Proc : Dies(p)
  <2>1. PICK p \in Proc : Dies(p)
    BY <1>8
  <2>2. LockedOK'
    BY <1>0, <2>1, EndsLocked DEF Dies
  <2>3. UNCHANGED <<call, last>> /\ mishap' = (mishap \/ call.at # "idle")
    BY <2>1 DEF Dies
  <2> QED
    BY <2>2, <2>3, HealFrame DEF Waiting
<1>9. CASE \E c \in Conn : Refused(c)
  <2>1. PICK c \in Conn : Refused(c)
    BY <1>9
  <2>2. /\ UNCHANGED <<place, lock, socket>> /\ Talks(c)
    BY <1>0, <2>1, ThreadFrame, ThreadTalks DEF Refused
  <2>3. UNCHANGED <<call, last, mishap>>
    BY <2>1 DEF Refused
  <2> QED
    BY <1>0, <2>2, <2>3, SameLocked, ThreadStays, HealFrame DEF TalkOK
<1>10. CASE UNCHANGED vars
  BY <1>10, SameLocked, HealFrame DEF vars, clientVars, daemonVars, connVars, procVars
<1> QED
  BY <1>1, <1>2, <1>3, <1>4, <1>5, <1>6, <1>7, <1>8, <1>9, <1>10 DEF Next

LEMMA HealInit == Init => LockedOK /\ HealOK
<1> SUFFICES ASSUME Init PROVE LockedOK /\ HealOK
  OBVIOUS
<1>1. LockedOK
  <2>1. CASE lock = "none"
    BY <2>1, DaemonAssumption DEF Init, DaemonInit, LockedOK
  <2>2. CASE lock # "none"
    <3>1. lock \in Proc
      BY DaemonAssumption, <2>2 DEF Init, DaemonInit
    <3>2. place = [p \in Proc |-> IF p = lock THEN "serving" ELSE "off"]
      BY <2>2 DEF Init, DaemonInit
    <3> QED
      BY <3>1, <3>2 DEF LockedOK
  <2> QED
    BY <2>1, <2>2
<1>2. call.at = "idle" /\ last.result = "none"
  BY DEF Init, Idle, NoResult
<1> QED
  BY <1>1, <1>2 DEF HealOK, Heals, Waiting

\* A call fails only if something died, timed out or left for idleness while it ran: a
\* daemon that is gone between two calls is replaced (call, connect, start_daemon).
THEOREM HealsAlways == Spec => []Heals
<1>1. HealOK => Heals
  BY DEF HealOK
<1>2. IInv /\ TalkOK /\ LockedOK /\ HealOK /\ [Next]_vars => LockedOK' /\ HealOK'
  BY HealStep DEF HealInv
<1> QED
  BY <1>1, <1>2, HealInit, Invariance, TalkHolds, PTL DEF Spec

-----------------------------------------------------------------------------
(* What the census finds *)

\* The app asks for nothing else before its census is over, nor has it been asked.
Looking(c) ==
    /\ thread[c] \notin Working \ {"look"}
    /\ in[c] # <<>> => Head(in[c]).op \in {"hello", "look"}

Census == app = "new" \/ asked # {}

LooksOnly ==
    /\ Census => call.op = "look" /\ \A c \in Conn : Looking(c)
    /\ app = "up" /\ call.at # "idle" => asked = {}
    /\ app = "down" => call.at = "idle"

TablesOK == \A p \in Proc : table[p] # {} => Serving(p)

\* The list has all sessions that were asked for and still are.
Whole(list) == \A p \in Proc : monitor[p] # "exit" => asked \cap table[p] \subseteq list

CensusOK ==
    /\ app = "new" /\ call.at = "answer" /\ out[call.on] # <<>> => Whole(Head(out[call.on]).ids)
    /\ app = "up" /\ last.result = "reply" => Whole(last.ids)

LookOK == LooksOnly /\ TablesOK /\ CensusOK

\* Without opens, sessions only become fewer.
Shrinks ==
    \A p \in Proc : /\ table'[p] \subseteq table[p]
                    /\ monitor'[p] # "exit" => monitor[p] # "exit" \/ table'[p] = {}

LEMMA WholeStays ==
  ASSUME NEW list, Whole(list), asked' = asked, asked # {} => Shrinks
  PROVE  Whole(list)'
BY DEF Whole, Shrinks

LEMMA CensusFrame ==
  ASSUME CensusOK, UNCHANGED <<app, call, last, asked>>, asked # {} => Shrinks,
         app = "new" /\ call.at = "answer" => out'[call.on] = out[call.on]
  PROVE  CensusOK'
<1>1. \A list : Whole(list) => Whole(list)'
  BY WholeStays
<1> QED
  BY <1>1 DEF CensusOK

LEMMA LooksFrame ==
  ASSUME LooksOnly, UNCHANGED <<app, call, asked>>,
         \A c \in Conn : Census /\ Looking(c) => Looking(c)'
  PROVE  LooksOnly'
BY DEF LooksOnly, Census

\* One daemon has sessions at most, and they can be reached until it is about to exit.
LEMMA OneTable ==
  ASSUME LockOK, TablesOK, NEW p \in Proc, table[p] # {}
  PROVE  /\ \A q \in Proc : Serving(q) => q = p
         /\ monitor[p] # "exit" => socket = p
<1>1. Serving(p) /\ Listening(p) /\ lock = p
  BY DEF TablesOK, LockOK, Serving, Listening
<1> QED
  BY <1>1 DEF LockOK, Serving

-----------------------------------------------------------------------------
(* The daemon's side *)

LEMMA EndsLooks ==
  ASSUME DaemonType, CallOK, LookOK, NEW p \in Proc, Ends(p), UNCHANGED <<app, call, last, asked>>
  PROVE  LookOK'
<1>0. /\ table \in [Proc -> SUBSET Id] /\ monitor \in [Proc -> Rounds] /\ place \in [Proc -> Places]
  BY DEF DaemonType, TableType, ProcType, Rounds, Places
<1>1. \A q \in Proc : /\ table'[q] = IF q = p THEN {} ELSE table[q]
                      /\ monitor'[q] = IF q = p THEN "sleep" ELSE monitor[q]
                      /\ place'[q] = IF q = p THEN "off" ELSE place[q]
  BY <1>0 DEF Ends
<1>2. TablesOK'
  BY <1>1 DEF LookOK, TablesOK, Serving
<1>3. Shrinks
  BY <1>1 DEF Shrinks
<1>4. CensusOK'
  BY <1>3, CensusFrame DEF LookOK, Ends
<1>5. LooksOnly'
  <2>1. \A c \in Conn : Looking(c) => Looking(c)'
    BY DEF Looking, Working, Ends
  <2> QED
    BY <2>1, LooksFrame DEF LookOK
<1> QED
  BY <1>2, <1>4, <1>5 DEF LookOK

\* The only request is one to look: it changes no table and answers with the one.
LEMMA OnlyLook ==
  ASSUME DaemonType, NEW c \in Conn, ThreadStep(c) \/ CannotAllocate(c) \/ CannotSpawn(c),
         Looking(c)
  PROVE  /\ UNCHANGED table
         /\ thread[c] = "look" => Look(c)
<1>1. thread[c] \notin {"open", "spawn", "insert", "opened", "kill", "remove", "reap"}
  BY DEF Looking, Working
<1>2. Accept(c) \/ Greet(c) \/ Acked(c) \/ NoHello(c) \/ TakeRequest(c) \/ EndOfLines(c) \/ Look(c)
  BY <1>1 DEF ThreadStep, CannotAllocate, CannotSpawn, Allocate, SpawnShell, Insert, Opened,
              HangUp,
              Remove, Reap, Answers, Goes, Closes
<1>3. UNCHANGED table
  BY <1>2 DEF Accept, Greet, Acked, NoHello, TakeRequest, EndOfLines, Look, Answers, Goes, Closes
<1>4. thread[c] = "look" => Look(c)
  BY <1>2 DEF Accept, Greet, Acked, NoHello, TakeRequest, EndOfLines, Goes, Closes
<1> QED
  BY <1>3, <1>4

LEMMA ThreadTables ==
  ASSUME DaemonType, ServedOK, NEW c \in Conn, ThreadStep(c) \/ CannotAllocate(c) \/ CannotSpawn(c)
  PROVE  \A p \in Proc : table'[p] = table[p] \/ Serving(p)
<1>0. table \in [Proc -> SUBSET Id] /\ server[c] \in Proc \cup {"none"}
  BY DEF DaemonType, TableType, ConnType
<1>1. CASE Insert(c) \/ Remove(c)
  <2>1. thread[c] \notin {"closed", "queued"}
    BY <1>1 DEF Insert, Remove, Goes, Answers, Closes
  <2>2. Serving(server[c])
    BY <2>1 DEF ServedOK
  <2>3. \A p \in Proc : p # server[c] => table'[p] = table[p]
    BY <1>0, <1>1 DEF Insert, Remove, Answers, Closes
  <2> QED
    BY <2>2, <2>3
<1>2. CASE ~(Insert(c) \/ Remove(c))
  <2>1. UNCHANGED table
    BY <1>2 DEF ThreadStep, CannotAllocate, CannotSpawn, Accept, Greet, Acked, NoHello,
                TakeRequest,
                EndOfLines, Look, Allocate, SpawnShell, Opened, HangUp, Reap, Answers, Goes, Closes
  <2> QED
    BY <2>1
<1> QED
  BY <1>1, <1>2

\* What a look is answered with, is whole.
LEMMA LookWhole ==
  ASSUME DaemonType, LockOK, ServedOK, TablesOK, NEW c \in Conn, thread[c] = "look"
  PROVE  Whole(table[server[c]])
<1>1. Serving(server[c])
  BY DEF ServedOK
<1>2. server[c] \in Proc
  BY DEF DaemonType, ConnType
<1>3. \A p \in Proc : table[p] = {} \/ server[c] = p
  BY <1>1, <1>2, OneTable
<1> QED
  BY <1>3 DEF Whole

LEMMA ThreadLooks ==
  ASSUME DaemonType, JobOK, LockOK, ServedOK, CallOK, TalkOK, LookOK, NEW c \in Conn,
         ThreadStep(c) \/ CannotAllocate(c) \/ CannotSpawn(c), UNCHANGED <<app, call, last, asked>>
  PROVE  LookOK'
<1>1. UNCHANGED <<place, monitor>> /\ Talks(c)
  BY ThreadFrame, ThreadTalks
<1>2. TablesOK'
  BY <1>1, ThreadTables DEF LookOK, TablesOK, Serving
<1>3. CASE ~Census
  <2>1. asked = {} /\ app # "new"
    BY <1>3 DEF Census
  <2> QED
    BY <1>2, <1>3, <2>1, LooksFrame, CensusFrame DEF LookOK
<1>4. CASE Census
  <2>1. Looking(c) /\ call.op = "look" /\ OneLine
    BY <1>4 DEF LookOK, LooksOnly, TalkOK, SendOK
  <2>2. UNCHANGED table /\ (thread[c] = "look" => Look(c))
    BY <2>1, OnlyLook
  <2>3. Shrinks
    BY <1>1, <2>2 DEF Shrinks
  <2>4. Look(c) => thread'[c] \in {"control", "closed"}
    BY DEF Look, Answers, Goes, Closes, DaemonType, ConnType
  <2>5. Looking(c)'
    <3>1. in'[c] = in[c] \/ in'[c] = <<>>
      BY <1>1, <2>1 DEF Talks, Hangs, Waits, Acks, Takes, Works, Replies, OneLine
    <3>2. thread'[c] \notin Working \ {"look"}
      <4>1. CASE thread[c] = "look"
        BY <2>2, <2>4, <4>1 DEF Working
      <4>2. CASE thread[c] # "look"
        BY <1>1, <2>1, <4>2 DEF Talks, Hangs, Waits, Acks, Takes, Works, Replies, Looking, Working
      <4> QED
        BY <4>1, <4>2
    <3> QED
      BY <2>1, <3>1, <3>2 DEF Looking
  <2>6. \A d \in Conn : Looking(d) => Looking(d)'
    BY <1>1, <2>5 DEF Looking, Talks, Others
  <2>7. LooksOnly'
    BY <2>6, LooksFrame DEF LookOK
  <2>8. CensusOK'
    <3>1. CASE ~(app = "new" /\ call.at = "answer") \/ out'[call.on] = out[call.on]
      BY <2>3, <3>1, CensusFrame DEF LookOK
    <3>2. CASE app = "new" /\ call.at = "answer" /\ out'[call.on] # out[call.on]
      <4>1. call.on \in Conn /\ Held = call.on /\ Asking(call.on)
        BY <3>2 DEF CallOK, Held, TalkOK, HeldOK
      <4>2. c = call.on
        BY <1>1, <3>2, <4>1 DEF Talks, Others
      <4>3. thread[c] # "hello"
        BY <4>1, <4>2 DEF Asking, AtRest, Working
      <4>4. Replies(c)
        BY <1>1, <3>2, <4>2, <4>3 DEF Talks, Hangs, Waits, Acks, Takes, Works
      <4>5. thread[c] = "look" /\ out[c] = <<>>
        BY <2>1, <4>1, <4>2, <4>4 DEF Replies, Looking, Asking, AtRest, Working
      <4>6. out'[c] = Append(out[c], Done(c, TRUE, table[server[c]]))
        BY <2>2, <3>2, <4>2, <4>5 DEF Look, Answers, Closes, DaemonType, ConnType
      <4>7. Head(out'[c]).ids = table[server[c]]
        BY <4>5, <4>6, OneItem DEF Done
      <4>8. Whole(table[server[c]])
        BY <4>5, LookWhole DEF LookOK
      <4>9. PICK list : list = table[server[c]]
        OBVIOUS
      <4>10. Whole(list)'
        BY <2>3, <4>8, <4>9, WholeStays
      <4> QED
        BY <3>2, <4>2, <4>7, <4>9, <4>10 DEF CensusOK
    <3> QED
      BY <3>1, <3>2
  <2> QED
    BY <1>2, <2>7, <2>8 DEF LookOK
<1> QED
  BY <1>3, <1>4

LEMMA StillLooks ==
  ASSUME LookOK, UNCHANGED <<app, call, last, asked>>, UNCHANGED <<thread, in, out>>,
         Shrinks, TablesOK'
  PROVE  LookOK'
<1>1. \A c \in Conn : Looking(c) => Looking(c)'
  BY DEF Looking
<1> QED
  BY <1>1, LooksFrame, CensusFrame DEF LookOK

LEMMA DaemonLooks ==
  ASSUME DaemonType, JobOK, LockOK, ServedOK, CallOK, TalkOK, LookOK, DaemonStep, Bystander
  PROVE  LookOK'
<1>0. /\ UNCHANGED <<app, call, last, asked>>
      /\ table \in [Proc -> SUBSET Id] /\ place \in [Proc -> Places] /\ monitor \in [Proc -> Rounds]
  BY DEF Bystander, DaemonType, TableType, ProcType, Places, Rounds
<1>1. CASE \E c \in Conn : ThreadStep(c)
  BY <1>0, <1>1, ThreadLooks
<1>2. CASE \E i \in Id : PumpStep(i) \/ ShellEnds(i)
  <2>1. /\ UNCHANGED <<thread, in, out, place, monitor>>
        /\ \A p \in Proc : table'[p] \subseteq table[p]
    BY <1>0, <1>2 DEF PumpStep, PumpEnds, ShellEnds, connVars, procVars
  <2>2. Shrinks
    BY <2>1 DEF Shrinks
  <2>3. TablesOK'
    BY <2>1 DEF LookOK, TablesOK, Serving
  <2> QED
    BY <1>0, <2>1, <2>2, <2>3, StillLooks
<1>3. ASSUME NEW p \in Proc, StartStep(p) \/ MonitorStep(p) \/ GracePasses(p) PROVE LookOK'
  <2>1. CASE Ends(p)
    BY <1>0, <2>1, EndsLooks
  <2>2. CASE ~Ends(p)
    <3>1. UNCHANGED <<table, thread, in, out>>
      BY <1>3, <2>2
         DEF StartStep, TakeLock, RemoveStale, Bind, Load, MonitorStep, LookAtSessions,
             LookAtClients, LookAtClock, RemoveSocket, IdleExit, MonitorMoves, GracePasses, connVars
    <3>2. Shrinks
      <4>1. monitor[p] = "exit" => monitor' = monitor
        BY <1>3, <2>2
           DEF StartStep, TakeLock, RemoveStale, Bind, Load, MonitorStep, LookAtSessions,
               LookAtClients, LookAtClock, RemoveSocket, IdleExit, MonitorMoves, GracePasses, procVars
      <4>2. \A q \in Proc : q # p => monitor'[q] = monitor[q]
        BY <1>0, <1>3, <2>2
           DEF StartStep, TakeLock, RemoveStale, Bind, Load, MonitorStep, LookAtSessions,
               LookAtClients, LookAtClock, RemoveSocket, IdleExit, MonitorMoves, GracePasses, procVars
      <4> QED
        BY <3>1, <4>1, <4>2 DEF Shrinks
    <3>3. \A q \in Proc : Serving(q) => Serving(q)'
      BY <1>0, <1>3, <2>2
         DEF StartStep, TakeLock, RemoveStale, Bind, Load, MonitorStep, LookAtSessions, Serving,
             LookAtClients, LookAtClock, RemoveSocket, IdleExit, MonitorMoves, GracePasses, procVars
    <3>4. TablesOK'
      BY <3>1, <3>3 DEF LookOK, TablesOK
    <3> QED
      BY <1>0, <3>1, <3>2, <3>4, StillLooks
  <2> QED
    BY <2>1, <2>2
<1> QED
  BY <1>1, <1>2, <1>3 DEF DaemonStep

-----------------------------------------------------------------------------
(* The client's steps *)

LEMMA QuietWhole ==
  ASSUME QuietDaemon, asked' = asked, NEW list, Whole(list)
  PROVE  Whole(list)'
BY DEF QuietDaemon, Whole

LEMMA QuietTables ==
  ASSUME TablesOK, QuietDaemon, UNCHANGED place
  PROVE  TablesOK'
BY DEF TablesOK, QuietDaemon, Serving

\* A process that begins has no sessions.
LEMMA SpawnTables ==
  ASSUME ProcType, TablesOK, QuietDaemon, FreeProc # {},
         place' = [place EXCEPT ![CHOOSE p \in FreeProc : TRUE] = "started"]
  PROVE  TablesOK'
<1>1. PICK q \in Proc : place[q] = "off" /\ q = (CHOOSE p \in FreeProc : TRUE)
  BY DEF FreeProc
<1>2. place' = [place EXCEPT ![q] = "started"] /\ place \in [Proc -> Places] /\ table' = table
  BY <1>1 DEF ProcType, Places, QuietDaemon
<1> QED
  BY <1>1, <1>2 DEF TablesOK, Serving

LEMMA OverLooks ==
  ASSUME LookOK, CallOK, call' = [Idle EXCEPT !.n = call.n], asked' = asked,
         app' \in {"up", "down"}, TablesOK', NEW list,
         app' = "up" /\ last'.result = "reply" => last'.ids = list /\ Whole(list)',
         \A c \in Conn : Looking(c) => Looking(c)'
  PROVE  LookOK'
<1>1. call'.at = "idle" /\ call'.op = "look"
  BY DEF Idle
<1>2. LooksOnly'
  BY <1>1 DEF LookOK, LooksOnly, Census
<1>3. CensusOK'
  BY <1>1 DEF CensusOK
<1> QED
  BY <1>2, <1>3 DEF LookOK

LEMMA FailsLooks ==
  ASSUME LookOK, CallOK, Fails, asked' = asked
  PROVE  LookOK'
<1>1. /\ call' = [Idle EXCEPT !.n = call.n] /\ app' = "up" /\ last'.result = "failed"
      /\ UNCHANGED <<place, thread, in>> /\ QuietDaemon
  BY DEF Fails, Finishes, Unknown, Drops
<1>2. \A c \in Conn : Looking(c) => Looking(c)'
  BY <1>1 DEF Looking
<1>3. TablesOK'
  BY <1>1, QuietTables DEF LookOK
<1> QED
  BY <1>1, <1>2, <1>3, OverLooks

LEMMA GoesOnLooks ==
  ASSUME LookOK, call.at # "idle", call'.op = call.op, UNCHANGED <<app, last, asked>>, QuietDaemon,
         TablesOK', call'.at = "answer" => out'[call'.on] = <<>>,
         \A c \in Conn : call.op = "look" /\ Looking(c) => Looking(c)'
  PROVE  LookOK'
<1>1. LooksOnly'
  BY DEF LookOK, LooksOnly, Census
<1>2. CensusOK'
  BY QuietWhole DEF LookOK, CensusOK
<1> QED
  BY <1>1, <1>2 DEF LookOK

LEMMA MovesOp ==
  ASSUME CallOK, NEW at, NEW on, Moves(at, on)
  PROVE  call'.op = call.op /\ call'.at = at /\ call'.on = on
BY DEF CallOK, Moves

LEMMA CallLooks ==
  ASSUME DaemonType, ClientType, LockOK, CallOK, TalkOK, LookOK, CallStep
  PROVE  LookOK'
<1>0. ProcType /\ ConnType /\ LooksOnly /\ TablesOK /\ CensusOK
  BY DEF DaemonType, LookOK
<1>1. CASE Send
  <2>0. /\ call.at # "idle" /\ call.on \in Conn /\ Clear(call.on) /\ asked' = asked
    BY <1>1 DEF Send, CallOK, TalkOK, HeldOK, Held
  <2>1. CASE Fails
    BY <2>0, <2>1, FailsLooks
  <2>2. CASE Reconnects
    <3>1. /\ UNCHANGED <<place, thread, in, app, last>> /\ QuietDaemon /\ Moves("connect", "none")
      BY <2>2 DEF Reconnects, Drops
    <3>2. \A c \in Conn : Looking(c) => Looking(c)'
      BY <3>1 DEF Looking
    <3> QED
      BY <1>0, <2>0, <3>1, <3>2, MovesOp, QuietTables, GoesOnLooks
  <2>3. CASE thread[call.on] # "closed"
    <3>1. /\ in' = [in EXCEPT ![call.on] = Append(@, Request)]
          /\ UNCHANGED <<place, thread, out, app, last>> /\ QuietDaemon /\ Moves("answer", call.on)
      BY <1>1, <2>3 DEF Send
    <3>2. in[call.on] = <<>> /\ out[call.on] = <<>>
      BY <2>0 DEF Clear
    <3>3. in'[call.on] = <<Request>> /\ \A d \in Conn : d # call.on => in'[d] = in[d]
      BY <1>0, <2>0, <3>1, <3>2, OneItem DEF ConnType
    <3>4. ASSUME NEW c \in Conn, call.op = "look", Looking(c) PROVE Looking(c)'
      <4>1. CASE c = call.on
        BY <3>1, <3>3, <3>4, <4>1, OneItem DEF Looking, Request
      <4>2. CASE c # call.on
        BY <3>1, <3>3, <3>4, <4>2 DEF Looking
      <4> QED
        BY <4>1, <4>2
    <3> QED
      BY <1>0, <2>0, <3>1, <3>2, <3>4, MovesOp, QuietTables, GoesOnLooks
  <2> QED
    BY <1>1, <2>1, <2>2, <2>3 DEF Send
<1>2. CASE Heard
  <2>1. /\ call.at = "answer" /\ out[call.on] # <<>> /\ UNCHANGED <<place, thread, in, asked>>
        /\ QuietDaemon /\ call' = [Idle EXCEPT !.n = call.n] /\ app' = "up"
        /\ last'.ids = Head(out[call.on]).ids
    BY <1>2 DEF Heard, Finishes
  <2>2. PICK list : list = Head(out[call.on]).ids
    OBVIOUS
  <2>3. Whole(list)
    <3>1. CASE app = "new"
      BY <1>0, <2>1, <2>2, <3>1 DEF CensusOK
    <3>2. CASE app # "new"
      <4>1. asked = {}
        BY <1>0, <2>1, <3>2 DEF LooksOnly, ClientType
      <4> QED
        BY <4>1 DEF Whole
    <3> QED
      BY <3>1, <3>2
  <2>4. Whole(list)'
    BY <2>1, <2>3, QuietWhole
  <2>5. \A c \in Conn : Looking(c) => Looking(c)'
    BY <2>1 DEF Looking
  <2> QED
    BY <1>0, <2>1, <2>2, <2>4, <2>5, QuietTables, OverLooks
<1>3. CASE Unanswered \/ DeadlinePasses
  BY <1>3, FailsLooks DEF Unanswered, GivesUp, DeadlinePasses
<1>4. CASE Dial
  <2>0. /\ FreeConn # {} /\ UNCHANGED <<place, app, last, asked>> /\ QuietDaemon
        /\ call.at # "idle" /\ thread' = [thread EXCEPT ![Slot] = "queued"]
        /\ in' = [in EXCEPT ![Slot] = <<Hello>>]
    BY <1>4 DEF Dial, Dials
  <2>1. Slot \in Conn
    BY <2>0, SlotFree DEF TalkOK
  <2>2. /\ thread'[Slot] = "queued" /\ in'[Slot] = <<Hello>>
        /\ \A d \in Conn : d # Slot => thread'[d] = thread[d] /\ in'[d] = in[d]
    BY <1>0, <2>0, <2>1 DEF ConnType
  <2>3. ASSUME NEW c \in Conn, Looking(c) PROVE Looking(c)'
    <3>1. CASE c = Slot
      BY <2>2, <3>1, OneItem DEF Looking, Hello, Working
    <3>2. CASE c # Slot
      BY <2>2, <2>3, <3>2 DEF Looking
    <3> QED
      BY <3>1, <3>2
  <2>4. call'.op = call.op /\ call'.at \in {"ack", "poll ack"}
    BY <1>4, MovesOp DEF Dial
  <2> QED
    BY <1>0, <2>0, <2>3, <2>4, QuietTables, GoesOnLooks
<1>5. CASE NotRunning
  <2>1. /\ UNCHANGED <<daemonVars, asked>> /\ call.at # "idle" /\ ~Reached
    BY <1>5 DEF NotRunning
  <2>2. /\ UNCHANGED place /\ QuietDaemon /\ \A c \in Conn : Looking(c) => Looking(c)'
    BY <2>1 DEF daemonVars, procVars, connVars, QuietDaemon, Looking
  <2>3. CASE app = "new"
    <3>1. /\ call' = [Idle EXCEPT !.n = call.n] /\ app' = "up" /\ last'.ids = {}
      BY <1>5, <2>3 DEF NotRunning, Finishes
    <3>2. Whole({})
      BY <1>0, <2>1, OneTable DEF Whole, Reached
    <3>3. PICK list : list = {}
      OBVIOUS
    <3>4. Whole(list)'
      BY <2>1, <2>2, <3>2, <3>3, QuietWhole
    <3> QED
      BY <1>0, <2>1, <2>2, <3>1, <3>3, <3>4, QuietTables, OverLooks
  <2>4. CASE app # "new"
    <3>1. Moves("start", "none") /\ UNCHANGED <<app, last>>
      BY <1>5, <2>4 DEF NotRunning
    <3> QED
      BY <1>0, <2>1, <2>2, <3>1, MovesOp, QuietTables, GoesOnLooks
  <2> QED
    BY <2>3, <2>4
<1>6. CASE StartDaemon
  <2>1. /\ UNCHANGED <<app, last, asked, thread, in>> /\ QuietDaemon /\ call.at # "idle"
        /\ Moves("poll", "none")
    BY <1>6 DEF StartDaemon, connVars
  <2>2. TablesOK'
    BY <1>0, <1>6, SpawnTables DEF StartDaemon
  <2>3. \A c \in Conn : Looking(c) => Looking(c)'
    BY <2>1 DEF Looking
  <2> QED
    BY <2>1, <2>2, <2>3, MovesOp, GoesOnLooks
<1>7. CASE Acknowledged
  <2>1. /\ UNCHANGED <<place, app, last, asked, thread, in>> /\ QuietDaemon /\ call.at # "idle"
        /\ Moves("fresh", call.on)
    BY <1>7 DEF Acknowledged
  <2>2. \A c \in Conn : Looking(c) => Looking(c)'
    BY <2>1 DEF Looking
  <2> QED
    BY <1>0, <2>1, <2>2, MovesOp, QuietTables, GoesOnLooks
<1>8. CASE Unacknowledged
  <2>0. asked' = asked /\ call.at # "idle"
    BY <1>8 DEF Unacknowledged
  <2>1. CASE Fails
    BY <2>0, <2>1, FailsLooks
  <2>2. CASE ~Fails
    <3>1. /\ call' = [call EXCEPT !.at = "poll", !.on = "none", !.tries = 1]
          /\ UNCHANGED <<place, app, last, thread, in>> /\ QuietDaemon
      BY <1>8, <2>2 DEF Unacknowledged, Drops
    <3>2. call'.at = "poll" /\ call'.op = call.op
      BY <3>1 DEF CallOK
    <3>3. \A c \in Conn : Looking(c) => Looking(c)'
      BY <3>1 DEF Looking
    <3> QED
      BY <1>0, <2>0, <3>1, <3>2, <3>3, QuietTables, GoesOnLooks
  <2> QED
    BY <2>1, <2>2
<1> QED
  BY <1>1, <1>2, <1>3, <1>4, <1>5, <1>6, <1>7, <1>8 DEF CallStep

LEMMA LookStep == IInv /\ TalkOK /\ LookOK /\ [Next]_vars => LookOK'
<1> SUFFICES ASSUME IInv, TalkOK, LookOK, [Next]_vars PROVE LookOK'
  OBVIOUS
<1>0. /\ DaemonType /\ JobOK /\ CallOK /\ ClientType /\ LockOK /\ ServedOK /\ ProcType /\ ConnType
      /\ LooksOnly /\ TablesOK /\ CensusOK
  BY TypeParts DEF IInv, DaemonType, LookOK
<1>1. CASE DaemonStep /\ Bystander
  BY <1>0, <1>1, DaemonLooks
<1>2. CASE BeginCensus
  <2>1. /\ UNCHANGED daemonVars /\ app = "new" /\ app' = app
        /\ call' = [Idle EXCEPT !.n = call.n + 1, !.at = "connect"]
    BY <1>2 DEF BeginCensus
  <2>2. call'.at = "connect" /\ call'.op = "look"
    BY <2>1 DEF Idle
  <2>3. \A c \in Conn : Looking(c)'
    BY <1>0, <2>1 DEF LooksOnly, Census, Looking, daemonVars, connVars
  <2> QED
    BY <1>0, <2>1, <2>2, <2>3 DEF LookOK, LooksOnly, CensusOK, TablesOK, Serving, daemonVars,
                                  procVars
<1>3. CASE Begin("open", 0) \/ Begin("look", 0) \/ \E i \in Id : born[i] > 0 /\ Begin("kill", i)
  <2>1. UNCHANGED daemonVars /\ app' = "up" /\ asked' = {} /\ last' = NoResult
    BY <1>3 DEF Begin
  <2> QED
    BY <1>0, <2>1 DEF LookOK, LooksOnly, CensusOK, TablesOK, Serving, Census, NoResult,
                      daemonVars, procVars
<1>4. CASE CallStep
  BY <1>0, <1>4, CallLooks
<1>5. CASE Quit
  <2>1. /\ call' = [Idle EXCEPT !.n = call.n] /\ app' = "down" /\ UNCHANGED <<place, thread, in, asked>>
        /\ QuietDaemon
    BY <1>5 DEF Quit, Drops
  <2>2. \A c \in Conn : Looking(c) => Looking(c)'
    BY <2>1 DEF Looking
  <2> QED
    BY <1>0, <2>1, <2>2, QuietTables, OverLooks
<1>6. CASE CannotStart
  BY <1>0, <1>6, FailsLooks DEF CannotStart
<1>7. CASE Rival
  <2>1. UNCHANGED <<app, call, last, asked>> /\ UNCHANGED <<thread, in, out, table, monitor>>
    BY <1>7 DEF Rival, QuietDaemon, connVars
  <2>2. TablesOK'
    BY <1>0, <1>7, SpawnTables DEF Rival
  <2> QED
    BY <2>1, <2>2, StillLooks DEF Shrinks
<1>8. CASE StrangerConnects
  <2>0. /\ FreeConn # {} /\ UNCHANGED <<place, app, call, last, asked>> /\ QuietDaemon
        /\ thread' = [thread EXCEPT ![Slot] = "queued"] /\ in' = [in EXCEPT ![Slot] = <<>>]
        /\ out' = [out EXCEPT ![Slot] = <<>>]
    BY <1>8 DEF StrangerConnects, Dials
  <2>1. Slot \in Conn /\ Slot # Held
    BY <2>0, SlotFree DEF TalkOK
  <2>2. \A c \in Conn : Looking(c) => Looking(c)'
    BY <1>0, <2>0, <2>1 DEF Looking, Working, ConnType
  <2>3. call.at = "answer" => out'[call.on] = out[call.on]
    BY <1>0, <2>0, <2>1 DEF Held, ConnType, CallOK
  <2>4. Shrinks
    BY <2>0 DEF Shrinks, QuietDaemon
  <2> QED
    BY <1>0, <2>0, <2>2, <2>3, <2>4, QuietTables, LooksFrame, CensusFrame DEF LookOK
<1>9. CASE \E p \in Proc : Dies(p)
  BY <1>0, <1>9, EndsLooks DEF Dies
<1>10. CASE \E c \in Conn : Refused(c)
  BY <1>0, <1>10, ThreadLooks DEF Refused
<1>11. CASE UNCHANGED vars
  <2>1. /\ UNCHANGED <<app, call, last, asked>> /\ UNCHANGED <<thread, in, out, table, monitor, place>>
    BY <1>11 DEF vars, clientVars, daemonVars, connVars, procVars
  <2>2. TablesOK'
    BY <1>0, <2>1 DEF TablesOK, Serving
  <2> QED
    BY <2>1, <2>2, StillLooks DEF Shrinks
<1> QED
  BY <1>1, <1>2, <1>3, <1>4, <1>5, <1>6, <1>7, <1>8, <1>9, <1>10, <1>11 DEF Next

LEMMA LookInit == Init => LookOK
<1> SUFFICES ASSUME Init PROVE LookOK
  OBVIOUS
<1>1. LooksOnly
  <2>1. call.op = "look" /\ app = "new"
    BY DEF Init, Idle
  <2> QED
    BY <2>1 DEF Init, DaemonInit, LooksOnly, Looking, Working
<1>2. TablesOK
  BY DEF Init, DaemonInit, TablesOK, Serving
<1>3. CensusOK
  BY DEF Init, Idle, CensusOK
<1> QED
  BY <1>1, <1>2, <1>3 DEF LookOK

\* Whatever dies or is slow meanwhile, a census that ends in a list, an empty one where
\* nobody answers, leaves out no session that still is (surviving, called with no daemon).
THEOREM CensusWhole == Spec => []SurvivorsListed
<1>1. LookOK => SurvivorsListed
  BY DEF LookOK, CensusOK, Whole, SurvivorsListed
<1> QED
  BY <1>1, LookInit, LookStep, Invariance, TalkHolds, PTL DEF Spec

-----------------------------------------------------------------------------
(* What the threads are at *)

Kind(t) == IF t = "look" THEN "look" ELSE IF t \in {"kill", "remove", "reap"} THEN "kill" ELSE "open"

Carries(c) == in[c] # <<>> /\ Head(in[c]).op # "hello"

\* What is waiting or being worked at is a request of some call, and one of its kind.
TasksOK ==
    /\ call.at # "idle" => call.n > 0
    /\ \A c \in Conn : Carries(c) => Head(in[c]).call \in Call
    /\ \A c \in Conn : thread[c] \in Working =>
         /\ job[c].call \in Call /\ taken[job[c].call] > 0
         /\ job[c].op = Kind(thread[c])
    /\ \A c, d \in Conn : thread[c] \in Working /\ thread[d] \in Working
                            /\ job[c].call = job[d].call => c = d

\* An id without a shell has nothing yet, and one on its way to the table no pump.
FreshOK ==
    /\ \A i \in Id : /\ born[i] = 0 => shell[i] = "none"
                     /\ shell[i] = "none" => pump[i] = "none"
    /\ \A c \in Conn : thread[c] = "insert" =>
         pump[job[c].id] = "none" /\ shell[job[c].id] \notin {"none", "lost"}
    /\ \A c, d \in Conn :
         thread[c] = "insert" /\ thread[d] = "insert" /\ job[c].id = job[d].id => c = d

ServeOK == TasksOK /\ FreshOK

\* No thread takes up anything, and no session begins or ends.
LEMMA ServesStay ==
  ASSUME ServeOK, UNCHANGED <<sessionVars, taken>>, call'.at # "idle" => call'.n > 0,
         \A d \in Conn :
           /\ thread'[d] \in Working => thread'[d] = thread[d] /\ job'[d] = job[d]
           /\ Carries(d)' => (Carries(d) /\ in'[d] = in[d]) \/ Head(in'[d]).call \in Call
  PROVE  ServeOK'
<1>1. TasksOK'
  BY DEF ServeOK, TasksOK, Kind
<1>2. FreshOK'
  <2>1. \A d \in Conn : thread'[d] = "insert" => thread[d] = "insert" /\ job'[d] = job[d]
    BY DEF Working
  <2> QED
    BY <2>1 DEF ServeOK, FreshOK, sessionVars
<1> QED
  BY <1>1, <1>2 DEF ServeOK

LEMMA AnswersLeave ==
  ASSUME DaemonType, NEW c \in Conn, NEW from, NEW r, Answers(c, from, r)
  PROVE  thread[c] = from /\ thread'[c] \notin Working /\ UNCHANGED <<table, sessionVars>>
BY DEF Answers, Goes, Closes, DaemonType, ConnType, Working

LEMMA ThreadKinds ==
  ASSUME DaemonType, NEW c \in Conn, ThreadStep(c) \/ CannotAllocate(c) \/ CannotSpawn(c),
         thread[c] \in Working, thread'[c] \in Working
  PROVE  Kind(thread'[c]) = Kind(thread[c]) /\ job'[c].op = job[c].op
<1>0. thread \in [Conn -> Threads] /\ job \in [Conn -> Line]
  BY DEF DaemonType, ConnType
<1>1. CASE Allocate(c)
  <2>1. /\ thread[c] = "open" /\ thread' = [thread EXCEPT ![c] = "spawn"]
        /\ job' = [job EXCEPT ![c].id = next[server[c]]]
    BY <1>1, AnswersLeave DEF Allocate
  <2>2. job'[c] = [job[c] EXCEPT !.id = next[server[c]]]
    BY <1>0, <2>1
  <2> QED
    BY <1>0, <2>1, <2>2 DEF Kind, Line
<1>2. CASE SpawnShell(c) \/ Insert(c)
  BY <1>0, <1>2 DEF SpawnShell, Insert, Goes, Kind
<1>3. CASE HangUp(c)
  <2>1. Goes(c, "kill", "remove") /\ UNCHANGED job
    BY <1>3, AnswersLeave DEF HangUp
  <2> QED
    BY <1>0, <2>1 DEF Goes, Kind
<1>4. CASE Remove(c)
  <2>1. Goes(c, "remove", "reap") /\ UNCHANGED job
    BY <1>4, AnswersLeave DEF Remove
  <2> QED
    BY <1>0, <2>1 DEF Goes, Kind
<1>5. CASE Look(c) \/ Opened(c) \/ Reap(c) \/ CannotAllocate(c) \/ CannotSpawn(c)
  BY <1>5, AnswersLeave DEF Look, Opened, Reap, CannotAllocate, CannotSpawn
<1>6. CASE Accept(c) \/ Greet(c) \/ Acked(c) \/ NoHello(c) \/ TakeRequest(c) \/ EndOfLines(c)
  BY <1>6 DEF Accept, Greet, Acked, NoHello, TakeRequest, EndOfLines, Goes, Closes, Working
<1> QED
  BY <1>1, <1>2, <1>3, <1>4, <1>5, <1>6 DEF ThreadStep

LEMMA ThreadTasks ==
  ASSUME DaemonType, JobOK, TalkOK, TasksOK, NEW c \in Conn, call' = call,
         ThreadStep(c) \/ CannotAllocate(c) \/ CannotSpawn(c)
  PROVE  TasksOK'
<1>0. /\ Talks(c) /\ OneLine /\ SentOnce
      /\ thread \in [Conn -> Threads] /\ in \in [Conn -> Seq(Line)] /\ taken \in [Call -> Nat]
  BY ThreadTalks DEF TalkOK, SendOK, DaemonType, ConnType, TakenType
<1>1. \A d \in Conn : Carries(d)' => Carries(d) /\ in'[d] = in[d]
  BY <1>0 DEF Talks, Others, Hangs, Waits, Acks, Takes, Works, Replies, Carries, OneLine
<1>2. CASE thread'[c] \notin Working
  <2>1. \A n \in Call : taken[n] > 0 => taken'[n] > 0
    BY <1>0 DEF Talks, Hangs, Waits, Acks, Takes, Works, Replies
  <2>2. \A d \in Conn : thread'[d] \in Working => thread'[d] = thread[d] /\ job'[d] = job[d]
    BY <1>0, <1>2 DEF Talks, Others
  <2> QED
    BY <1>1, <2>1, <2>2 DEF TasksOK
<1>3. CASE thread[c] \in Working /\ thread'[c] \in Working
  <2>1. Kind(thread'[c]) = Kind(thread[c]) /\ job'[c].op = job[c].op
    BY <1>3, ThreadKinds
  <2>2. taken' = taken /\ job'[c].call = job[c].call
    BY <1>0, <1>3 DEF Talks, Hangs, Waits, Acks, Takes, Works, Replies, Working
  <2>3. \A d \in Conn : d # c => thread'[d] = thread[d] /\ job'[d] = job[d]
    BY <1>0 DEF Talks, Others
  <2>4. \A d \in Conn : /\ thread'[d] \in Working => thread[d] \in Working
                        /\ job'[d].call = job[d].call /\ job'[d].op = job[d].op
                        /\ Kind(thread'[d]) = Kind(thread[d])
    BY <1>3, <2>1, <2>2, <2>3
  <2> HIDE DEF Kind
  <2> QED
    BY <1>1, <2>2, <2>4 DEF TasksOK
<1>4. CASE thread[c] \notin Working /\ thread'[c] \in Working
  <2>1. Takes(c)
    BY <1>0, <1>4 DEF Talks, Hangs, Waits, Acks, Takes, Works, Replies, Working
  <2> DEFINE m == Head(in[c]).call
  <2>2. /\ thread'[c] = Head(in[c]).op /\ in[c] # <<>> /\ job'[c] = Head(in[c])
        /\ taken' = [taken EXCEPT ![m] = @ + 1] /\ Head(in[c]) \in Line
    BY <1>0, <2>1, Lines DEF Takes
  <2>3. Carries(c) /\ Asks(c, m) /\ m \in Call
    BY <1>4, <2>2 DEF Carries, Asks, Working, TasksOK
  <2>4. taken[m] = 0
    BY <1>0, <2>3 DEF SentOnce
  <2>5. Kind(thread'[c]) = job'[c].op
    BY <1>4, <2>2 DEF Kind, Working, Line
  <2>6. taken'[m] = 1 /\ \A n \in Call : taken[n] > 0 => taken'[n] > 0 /\ n # m
    BY <1>0, <2>2, <2>3, <2>4
  <2> HIDE DEF m
  <2>7. \A d \in Conn : d # c => thread'[d] = thread[d] /\ job'[d] = job[d]
    BY <1>0 DEF Talks, Others
  <2>8. job'[c].call = m
    BY <2>2 DEF m
  <2>9. \A d \in Conn : thread'[d] \in Working =>
           job'[d].call \in Call /\ taken'[job'[d].call] > 0 /\ job'[d].op = Kind(thread'[d])
    BY <2>3, <2>5, <2>6, <2>7, <2>8 DEF TasksOK
  <2>10. \A d \in Conn : d # c /\ thread'[d] \in Working => job'[d].call # m
    BY <2>6, <2>7 DEF TasksOK
  <2>11. \A d, e \in Conn : thread'[d] \in Working /\ thread'[e] \in Working
                              /\ job'[d].call = job'[e].call => d = e
    BY <2>7, <2>8, <2>10 DEF TasksOK
  <2> QED
    BY <1>1, <2>9, <2>11 DEF TasksOK
<1> QED
  BY <1>2, <1>3, <1>4

LEMMA ThreadFresh ==
  ASSUME DaemonType, JobOK, IdsOK, FreshOK, NEW c \in Conn,
         ThreadStep(c) \/ CannotAllocate(c) \/ CannotSpawn(c)
  PROVE  FreshOK'
<1>0. /\ thread \in [Conn -> Threads] /\ shell \in [Id -> {"none", "runs", "hup", "job", "gone", "lost"}]
      /\ pump \in [Id -> {"none", "reads", "done"}] /\ born \in [Id -> Nat]
      /\ \A d \in Conn : thread[d] \in {"spawn", "insert", "opened"} => job[d].id \in Id
  BY DEF DaemonType, ConnType, SessionType, JobOK
<1>1. \A d \in Conn : d # c => thread'[d] = thread[d] /\ job'[d] = job[d]
  BY ThreadFrame
<1> DEFINE i == job[c].id
<1>2. CASE SpawnShell(c)
  <2>1. /\ thread[c] = "spawn" /\ job' = job /\ pump' = pump
        /\ shell' = [shell EXCEPT ![i] = "runs"] /\ born' = [born EXCEPT ![i] = @ + 1]
    BY <1>2 DEF SpawnShell, Goes
  <2>2. i \in Id /\ born[i] = 0 /\ shell[i] = "none" /\ pump[i] = "none"
    BY <1>0, <2>1 DEF IdsOK, FreshOK
  <2> HIDE DEF i
  <2>3. \A d \in Conn : d # c /\ thread'[d] = "insert" => job'[d].id # i
    BY <1>1, <2>1, <2>2 DEF FreshOK
  <2>4. job'[c].id = i
    BY <2>1 DEF i
  <2>5. \A d \in Conn : thread'[d] = "insert" =>
           pump'[job'[d].id] = "none" /\ shell'[job'[d].id] \notin {"none", "lost"}
    BY <1>0, <1>1, <2>1, <2>2, <2>3, <2>4 DEF FreshOK
  <2>6. \A k \in Id : /\ born'[k] = 0 => shell'[k] = "none"
                      /\ shell'[k] = "none" => pump'[k] = "none"
    BY <1>0, <2>1, <2>2 DEF FreshOK
  <2>7. \A d, e \in Conn :
           thread'[d] = "insert" /\ thread'[e] = "insert" /\ job'[d].id = job'[e].id => d = e
    BY <1>1, <2>3, <2>4 DEF FreshOK
  <2> QED
    BY <2>5, <2>6, <2>7 DEF FreshOK
<1>3. CASE Insert(c)
  <2>1. /\ thread[c] = "insert" /\ thread'[c] = "opened" /\ job' = job /\ UNCHANGED <<shell, born>>
        /\ pump' = [pump EXCEPT ![i] = "reads"]
    BY <1>0, <1>3 DEF Insert, Goes
  <2>2. i \in Id /\ shell[i] # "none" /\ \A d \in Conn : d # c /\ thread[d] = "insert" => job[d].id # i
    BY <1>0, <2>1 DEF FreshOK
  <2> HIDE DEF i
  <2> QED
    BY <1>0, <1>1, <2>1, <2>2 DEF FreshOK
<1>4. CASE HangUp(c)
  <2>1. /\ UNCHANGED <<pump, born>> /\ thread'[c] # "insert"
        /\ \A k \in Id : shell'[k] = shell[k] \/ (shell[k] = "runs" /\ shell'[k] = "hup")
    BY <1>0, <1>4, AnswersLeave DEF HangUp, Goes, sessionVars, Working
  <2>2. \A k \in Id : (shell'[k] = "none" <=> shell[k] = "none") /\ (shell'[k] = "lost" <=> shell[k] = "lost")
    BY <2>1
  <2> QED
    BY <1>0, <1>1, <2>1, <2>2 DEF FreshOK
<1>5. CASE ~(SpawnShell(c) \/ Insert(c) \/ HangUp(c))
  <2>1. thread'[c] # "insert" /\ UNCHANGED sessionVars
    <3>1. CASE Allocate(c)
      BY <1>0, <3>1, AnswersLeave DEF Allocate, Working
    <3>2. CASE Remove(c)
      BY <1>0, <3>2, AnswersLeave DEF Remove, Goes, Working
    <3>3. CASE Look(c) \/ Opened(c) \/ Reap(c) \/ CannotAllocate(c) \/ CannotSpawn(c)
      BY <3>3, AnswersLeave DEF Look, Opened, Reap, CannotAllocate, CannotSpawn, Working
    <3>4. CASE TakeRequest(c)
      <4>1. Head(in[c]) \in Line
        BY <3>4, Lines DEF TakeRequest, DaemonType, ConnType
      <4>2. Head(in[c]).op # "insert"
        BY <4>1 DEF Line
      <4> QED
        BY <1>0, <3>4, <4>2 DEF TakeRequest, Goes
    <3>5. CASE Accept(c) \/ Greet(c) \/ Acked(c) \/ NoHello(c) \/ EndOfLines(c)
      BY <1>0, <3>5 DEF Accept, Greet, Acked, NoHello, EndOfLines, Goes, Closes
    <3> QED
      BY <1>5, <3>1, <3>2, <3>3, <3>4, <3>5 DEF ThreadStep
  <2> QED
    BY <1>1, <2>1 DEF FreshOK, sessionVars
<1> QED
  BY <1>2, <1>3, <1>4, <1>5

LEMMA EndsServes ==
  ASSUME DaemonType, LockOK, ServedOK, ServeOK, NEW p \in Proc, Ends(p), UNCHANGED call
  PROVE  ServeOK'
<1>0. ConnType /\ SessionType /\ TasksOK /\ FreshOK
  BY DEF DaemonType, ServeOK
<1>1. \A d \in Conn : /\ thread'[d] \in Working => d \notin Of(p) /\ thread'[d] = thread[d] /\ job'[d] = job[d]
                      /\ Carries(d)' => Carries(d) /\ in'[d] = in[d]
  BY <1>0 DEF Ends, ConnType, Working, Carries
<1>2. TasksOK'
  BY <1>0, <1>1 DEF TasksOK, Ends
<1>3. CASE ~Serving(p)
  <2>1. UNCHANGED sessionVars
    BY <1>0, <1>3 DEF Ends, sessionVars, SessionType
  <2> QED
    BY <1>0, <1>1, <1>2, <2>1 DEF ServeOK, FreshOK, sessionVars, Working
<1>4. CASE Serving(p)
  <2>1. \A d \in Conn : thread'[d] # "insert"
    <3> SUFFICES ASSUME NEW d \in Conn, thread'[d] = "insert" PROVE FALSE
      OBVIOUS
    <3>1. thread[d] = "insert" /\ d \notin Of(p)
      BY <1>1 DEF Working
    <3>2. Serving(server[d]) /\ server[d] \in Proc
      BY <1>0, <3>1 DEF ServedOK, ConnType
    <3> QED
      BY <1>4, <3>1, <3>2 DEF Of, LockOK, Serving
  <2>2. \A i \in Id : /\ pump'[i] = "none" /\ born'[i] = born[i]
                      /\ shell'[i] = "none" <=> shell[i] = "none"
    BY <1>0, <1>4 DEF Ends
  <2> QED
    BY <1>0, <1>2, <2>1, <2>2 DEF ServeOK, FreshOK
<1> QED
  BY <1>3, <1>4

LEMMA SessionFresh ==
  ASSUME DaemonType, JobOK, FreshOK, NEW i \in Id, PumpStep(i) \/ ShellEnds(i)
  PROVE  FreshOK'
<1>0. SessionType /\ \A d \in Conn : thread[d] = "insert" => job[d].id \in Id
  BY DEF DaemonType, JobOK
<1>1. UNCHANGED <<thread, job, born>>
  BY DEF PumpStep, PumpEnds, ShellEnds, connVars
<1>2. CASE ShellEnds(i)
  <2>1. pump' = pump /\ shell[i] \in {"runs", "hup", "job"}
        /\ \E s \in {"job", "gone"} : shell' = [shell EXCEPT ![i] = s]
    BY <1>2 DEF ShellEnds
  <2>2. \A k \in Id : /\ shell'[k] = "none" <=> shell[k] = "none"
                      /\ shell'[k] = "lost" <=> shell[k] = "lost"
    BY <1>0, <2>1 DEF SessionType
  <2> QED
    BY <1>0, <1>1, <2>1, <2>2 DEF FreshOK
<1>3. CASE PumpStep(i)
  <2>1. shell' = shell /\ pump[i] = "reads" /\ pump' = [pump EXCEPT ![i] = "done"]
    BY <1>3 DEF PumpStep, PumpEnds
  <2>2. \A k \in Id : pump'[k] = "none" <=> pump[k] = "none"
    BY <1>0, <2>1 DEF SessionType
  <2> QED
    BY <1>0, <1>1, <2>1, <2>2 DEF FreshOK
<1> QED
  BY <1>2, <1>3

LEMMA DaemonServes ==
  ASSUME DaemonType, JobOK, LockOK, ServedOK, IdsOK, TalkOK, ServeOK, DaemonStep, call' = call
  PROVE  ServeOK'
<1>0. TasksOK /\ FreshOK
  BY DEF ServeOK
<1>1. CASE \E c \in Conn : ThreadStep(c)
  BY <1>0, <1>1, ThreadTasks, ThreadFresh DEF ServeOK
<1>2. CASE \E i \in Id : PumpStep(i) \/ ShellEnds(i)
  <2>1. UNCHANGED <<thread, job, in, taken>>
    BY <1>2 DEF PumpStep, PumpEnds, ShellEnds, connVars
  <2>2. TasksOK'
    BY <1>0, <2>1 DEF TasksOK, Carries
  <2> QED
    BY <1>0, <1>2, <2>2, SessionFresh DEF ServeOK
<1>3. ASSUME NEW p \in Proc, StartStep(p) \/ MonitorStep(p) \/ GracePasses(p) PROVE ServeOK'
  <2>1. CASE Ends(p)
    BY <2>1, EndsServes
  <2>2. CASE ~Ends(p)
    <3>1. UNCHANGED <<sessionVars, thread, job, in, taken>>
      BY <1>3, <2>2
         DEF StartStep, TakeLock, RemoveStale, Bind, Load, MonitorStep, LookAtSessions,
             LookAtClients, LookAtClock, RemoveSocket, IdleExit, MonitorMoves, GracePasses, connVars
    <3> QED
      BY <1>0, <3>1, ServesStay DEF TasksOK, Carries
  <2> QED
    BY <2>1, <2>2
<1> QED
  BY <1>1, <1>2, <1>3 DEF DaemonStep

\* The client's steps take up nothing; what it writes is the call in hand.
LEMMA ClientServes ==
  ASSUME ServeOK, CallOK, UNCHANGED <<sessionVars, taken, thread, job>>,
         call'.at # "idle" => call'.n > 0, \A d \in Conn : in'[d] = in[d]
  PROVE  ServeOK'
BY ServesStay DEF Carries

LEMMA DialServes ==
  ASSUME DaemonType, ServeOK, TalkOK, FreeConn # {}, NEW p, NEW lines \in {<<Hello>>, <<>>},
         Dials(Slot, p, lines), call'.at # "idle" => call'.n > 0
  PROVE  ServeOK'
<1>0. PICK s \in Conn : s = Slot
  BY SlotFree DEF TalkOK
<1>1. /\ thread' = [thread EXCEPT ![s] = "queued"] /\ in' = [in EXCEPT ![s] = lines]
      /\ UNCHANGED <<job, sessionVars, taken>>
      /\ thread \in [Conn -> Threads] /\ in \in [Conn -> Seq(Line)]
  BY <1>0 DEF Dials, QuietDaemon, DaemonType, ConnType
<1>2. thread'[s] = "queued" /\ in'[s] = lines
  BY <1>0, <1>1
<1>3. ~Carries(s)'
  <2>1. Head(<<Hello>>) = Hello
    BY OneItem
  <2> QED
    BY <1>2, <2>1 DEF Carries, Hello
<1>4. \A d \in Conn : d # s => thread'[d] = thread[d] /\ in'[d] = in[d]
  BY <1>0, <1>1
<1>5. \A d \in Conn : /\ thread'[d] \in Working => thread'[d] = thread[d] /\ job'[d] = job[d]
                      /\ Carries(d)' => Carries(d) /\ in'[d] = in[d]
  BY <1>1, <1>2, <1>3, <1>4 DEF Working, Carries
<1> QED
  BY <1>1, <1>5, ServesStay

LEMMA CallServes ==
  ASSUME DaemonType, CallOK, TalkOK, ServeOK, CallStep
  PROVE  ServeOK'
<1>0. /\ call.at # "idle" /\ call.n > 0 /\ call.n \in 0 .. MaxCalls /\ call.op \in {"open", "kill", "look"}
      /\ in \in [Conn -> Seq(Line)]
  <2>1. call.at # "idle"
    BY DEF CallStep, Send, Heard, Unanswered, Dial, NotRunning, StartDaemon, DeadlinePasses,
           Acknowledged, Unacknowledged
  <2> QED
    BY <2>1 DEF ServeOK, TasksOK, CallOK, DaemonType, ConnType
<1>1. CASE Send /\ thread[call.on] # "closed"
  <2>1. /\ in' = [in EXCEPT ![call.on] = Append(@, Request)] /\ Moves("answer", call.on)
        /\ UNCHANGED <<thread, job>> /\ QuietDaemon
    BY <1>1 DEF Send
  <2>2. call.on \in Conn /\ Clear(call.on)
    BY <1>1 DEF Send, CallOK, TalkOK, HeldOK, Held
  <2>3. in'[call.on] = <<Request>> /\ \A d \in Conn : d # call.on => in'[d] = in[d]
    BY <1>0, <2>1, <2>2, OneItem DEF Clear
  <2>4. Head(in'[call.on]).call = call.n /\ call.n \in Call
    BY <1>0, <2>3, OneItem DEF Request, Call
  <2>5. call'.n = call.n
    BY <2>1, MovesTo
  <2> QED
    BY <1>0, <2>1, <2>3, <2>4, <2>5, ServesStay DEF QuietDaemon, Carries
<1>2. CASE Fails
  BY <1>2, ClientServes DEF Fails, Finishes, Drops, QuietDaemon, Idle
<1>3. CASE Dial
  <2>1. call'.n = call.n
    BY <1>3, MovesTo DEF Dial
  <2> QED
    BY <1>0, <1>3, <2>1, DialServes DEF Dial
<1>4. CASE ~Fails /\ ~Dial /\ ~(Send /\ thread[call.on] # "closed")
  <2>1. UNCHANGED <<sessionVars, taken, thread, job, in>>
    BY <1>4 DEF CallStep, Send, Reconnects, Heard, Unanswered, GivesUp, NotRunning, StartDaemon,
                DeadlinePasses, Acknowledged, Unacknowledged, Drops, QuietDaemon, daemonVars,
                connVars
  <2>2. call'.at = "idle" \/ call'.n = call.n
    <3>1. CASE \E at \in Steps, on \in Conn \cup {"none"} : Moves(at, on)
      BY <3>1, MovesTo
    <3>2. CASE \/ \E result, n, list : Finishes(result, n, list)
               \/ call' = [call EXCEPT !.at = "poll", !.on = "none", !.tries = 1]
      BY <3>2, IdleCall DEF Finishes, CallOK
    <3> QED
      BY <1>4, <3>1, <3>2
         DEF CallStep, Send, Reconnects, Heard, Unanswered, GivesUp, NotRunning, StartDaemon,
             DeadlinePasses, Acknowledged, Unacknowledged, Steps, CallOK
  <2> QED
    BY <1>0, <2>1, <2>2, ClientServes
<1> QED
  BY <1>1, <1>2, <1>3, <1>4

LEMMA ServeStep == IInv /\ TalkOK /\ ServeOK /\ [Next]_vars => ServeOK'
<1> SUFFICES ASSUME IInv, TalkOK, ServeOK, [Next]_vars PROVE ServeOK'
  OBVIOUS
<1>0. /\ DaemonType /\ JobOK /\ CallOK /\ LockOK /\ ServedOK /\ IdsOK /\ TasksOK /\ FreshOK
  BY TypeParts DEF IInv, ServeOK
<1>1. CASE DaemonStep /\ Bystander
  BY <1>0, <1>1, DaemonServes DEF Bystander
<1>2. CASE \/ BeginCensus \/ Begin("open", 0) \/ Begin("look", 0)
           \/ \E i \in Id : born[i] > 0 /\ Begin("kill", i)
  <2>1. UNCHANGED daemonVars /\ call'.n = call.n + 1 /\ call.n \in Nat
    <3>1. CASE BeginCensus
      BY <1>0, <3>1 DEF BeginCensus, Idle, CallOK
    <3>2. ASSUME NEW op, NEW i, Begin(op, i)
          PROVE  UNCHANGED daemonVars /\ call'.n = call.n + 1 /\ call.n \in Nat
      BY <1>0, <3>2 DEF Begin, CallOK
    <3> QED
      BY <1>2, <3>1, <3>2
  <2> QED
    BY <1>0, <2>1, ClientServes DEF daemonVars, connVars
<1>3. CASE CallStep
  BY <1>0, <1>3, CallServes
<1>4. CASE Quit \/ CannotStart
  BY <1>0, <1>4, ClientServes, IdleCall DEF Quit, CannotStart, Fails, Finishes, Drops, QuietDaemon
<1>5. CASE Rival
  BY <1>0, <1>5, ClientServes DEF Rival, QuietDaemon, connVars, TasksOK
<1>6. CASE StrangerConnects
  BY <1>0, <1>6, DialServes DEF StrangerConnects, TasksOK
<1>7. CASE \E p \in Proc : Dies(p)
  BY <1>0, <1>7, EndsServes DEF Dies
<1>8. CASE \E c \in Conn : Refused(c)
  BY <1>0, <1>8, ThreadTasks, ThreadFresh DEF Refused, ServeOK
<1>9. CASE UNCHANGED vars
  BY <1>0, <1>9, ClientServes DEF vars, clientVars, daemonVars, connVars, TasksOK
<1> QED
  BY <1>1, <1>2, <1>3, <1>4, <1>5, <1>6, <1>7, <1>8, <1>9 DEF Next

LEMMA ServeInit == Init => ServeOK
<1> SUFFICES ASSUME Init PROVE ServeOK
  OBVIOUS
<1>1. call.at = "idle"
  BY DEF Init, Idle
<1>2. TasksOK
  BY <1>1 DEF Init, DaemonInit, TasksOK, Working, Carries
<1>3. FreshOK
  BY DEF Init, DaemonInit, FreshOK
<1> QED
  BY <1>2, <1>3 DEF ServeOK

-----------------------------------------------------------------------------
(* The steps of the service, seen through the mapping *)

Mapped   == [Service!Next]_(Service!serviceVars)
Sessions == <<Live, Doomed, Used>>
Caller   == <<call.n, Stage, last>>

LEMMA MapsLose ==
  ASSUME UNCHANGED <<Sessions, Caller, Underway>>, Sending' \subseteq Sending, Pending' \subseteq Pending
  PROVE  Mapped
BY DEF Mapped, Sessions, Caller, Service!Next, Service!Lose, Service!sessions, Service!caller

LEMMA MapsTakeUp ==
  ASSUME UNCHANGED <<Sessions, Caller, Pending>>, NEW r \in Sending,
         Sending' = Sending \ {r}, Underway' = Underway \cup {r}
  PROVE  Mapped
BY DEF Mapped, Sessions, Caller, Service!Next, Service!TakeUp, Service!sessions, Service!caller

\* A request leaves the threads' hands, answered or not.
Answered(r, rep) ==
    r \in Underway /\ Underway' = Underway \ {r} /\ Sending' = Sending /\ Pending' = Pending \cup {rep}
Dropped(r) ==
    r \in Underway /\ Underway' = Underway \ {r} /\ Sending' \subseteq Sending /\ Pending' = Pending

ReplyTo(r, ok, list) == [ok |-> ok, ids |-> list, call |-> r.call]

LEMMA MapsRefuse ==
  ASSUME UNCHANGED <<Sessions, Caller>>, NEW r, Answered(r, ReplyTo(r, FALSE, {})) \/ Dropped(r),
         r.op = "open" \/ (r.op = "kill" /\ r.id \notin Live \cup Doomed)
  PROVE  Mapped
<1>1. Service!MayRefuse(r)
  BY DEF Service!MayRefuse
<1>2. CASE Answered(r, ReplyTo(r, FALSE, {}))
  <2>1. Service!Refuse(r)
    BY <1>1, <1>2 DEF Service!Refuse, Service!Does, Answered, ReplyTo, Sessions, Caller,
                      Service!sessions, Service!caller
  <2> QED
    BY <1>2, <2>1 DEF Mapped, Service!Next, Answered
<1>3. CASE Dropped(r)
  <2>1. Service!Ignore(r)
    BY <1>1, <1>3 DEF Service!Ignore, Dropped, Sessions, Caller, Service!sessions, Service!caller
  <2> QED
    BY <1>3, <2>1 DEF Mapped, Service!Next, Dropped
<1> QED
  BY <1>2, <1>3

LEMMA MapsLook ==
  ASSUME UNCHANGED <<Sessions, Caller>>, NEW r, NEW list,
         r.op = "look", Live \subseteq list, list \subseteq Live \cup Doomed,
         Answered(r, ReplyTo(r, TRUE, list)) \/ Dropped(r)
  PROVE  Mapped
<1>1. CASE Answered(r, ReplyTo(r, TRUE, list))
  <2>1. Service!Look(r, list)
    BY <1>1 DEF Service!Look, Service!Does, Answered, ReplyTo, Sessions, Caller,
                Service!sessions, Service!caller
  <2> QED
    BY <1>1, <2>1 DEF Mapped, Service!Next, Answered
<1>2. CASE Dropped(r)
  <2>1. Service!Ignore(r)
    BY <1>2 DEF Service!Ignore, Dropped, Sessions, Caller, Service!sessions, Service!caller
  <2> QED
    BY <1>2, <2>1 DEF Mapped, Service!Next, Dropped
<1> QED
  BY <1>1, <1>2

LEMMA MapsOpen ==
  ASSUME UNCHANGED Caller, NEW r, NEW i \in Id, r.op = "open", i \notin Used,
         Answered(r, ReplyTo(r, TRUE, {i})), Used' = Used \cup {i},
         \/ Live' = Live \cup {i} /\ Doomed' = Doomed
         \/ Doomed' = Doomed \cup {i} /\ Live' = Live
  PROVE  Mapped
<1>1. Service!Open(r, i)
  BY DEF Service!Open, Service!Does, Answered, ReplyTo, Caller, Service!caller
<1> QED
  BY <1>1 DEF Mapped, Service!Next, Answered

LEMMA MapsKill ==
  ASSUME UNCHANGED Caller, NEW r, r.op = "kill", r.id \in Live \cup Doomed,
         Answered(r, ReplyTo(r, TRUE, {})), Used' = Used,
         Live' = Live \ {r.id}, Doomed' = Doomed \ {r.id}
  PROVE  Mapped
<1>1. Service!Kill(r)
  BY DEF Service!Kill, Service!Does, Answered, ReplyTo, Caller, Service!caller
<1> QED
  BY <1>1 DEF Mapped, Service!Next, Answered

LEMMA MapsEndOf ==
  ASSUME UNCHANGED <<Used, Caller, Sending, Underway, Pending>>, NEW i \in Id,
         Live' = Live \ {i}, Doomed' = Doomed \ {i}
  PROVE  Mapped
<1>1. Service!EndOf(i)
  BY DEF Service!EndOf, Caller, Service!caller, Service!requests
<1> QED
  BY <1>1 DEF Mapped, Service!Next, Id

LEMMA MapsDoom ==
  ASSUME UNCHANGED <<Used, Caller, Sending, Underway, Pending>>,
         Live' = {}, Doomed' = Live \cup Doomed
  PROVE  Mapped
<1>1. Service!Doom
  BY DEF Service!Doom, Caller, Service!caller, Service!requests
<1> QED
  BY <1>1 DEF Mapped, Service!Next

LEMMA MapsCrash ==
  ASSUME UNCHANGED Caller, Live' = {}, Doomed' = {}, Used \subseteq Used', Used' \subseteq Id,
         Sending' \subseteq Sending, Underway' \subseteq Underway, Pending' \subseteq Pending
  PROVE  Mapped
<1>1. Service!Crash
  BY DEF Service!Crash, Caller, Service!caller
<1> QED
  BY <1>1 DEF Mapped, Service!Next

LEMMA MapsBegin ==
  ASSUME UNCHANGED <<Sessions, Sending, Underway, Pending>>,
         Stage = "over", Stage' = "new", call'.n = call.n + 1, last' = NoResult
  PROVE  Mapped
<1>1. Service!Begin
  BY DEF Service!Begin, Service!NoOutcome, NoResult, Sessions, Service!sessions, Service!requests
<1> QED
  BY <1>1 DEF Mapped, Service!Next

LEMMA MapsAsk ==
  ASSUME UNCHANGED <<Sessions, call.n, last, Underway, Pending>>, Stage = "new", Stage' = "asked",
         NEW r, r.call = call.n, Sending' = Sending \cup {r}
  PROVE  Mapped
<1>1. Service!Ask(r)
  BY DEF Service!Ask, Sessions, Service!sessions
<1> QED
  BY <1>1 DEF Mapped, Service!Next

\* The call ends.
Over(result, list) ==
    /\ Stage' = "over" /\ last' = [result |-> result, of |-> call.n, ids |-> list]
    /\ UNCHANGED <<call.n, Sessions, Sending, Underway>> /\ Pending' \subseteq Pending

LEMMA MapsOver ==
  ASSUME NEW result, NEW list, Over(result, list),
         \/ result = "failed" /\ list = {} /\ Stage # "over"
         \/ result = "reply" /\ list = {} /\ Stage = "new" /\ Live = {}
         \/ result = "reply" /\ Stage = "asked" /\ \E r \in Pending : r.call = call.n /\ r.ids = list
  PROVE  Mapped
<1>1. Service!Ends(result, list)
  BY DEF Service!Ends, Over, Sessions, Service!sessions
<1>2. CASE result = "failed" /\ list = {} /\ Stage # "over"
  BY <1>1, <1>2 DEF Mapped, Service!Next, Service!GiveUp
<1>3. CASE result = "reply" /\ list = {} /\ Stage = "new" /\ Live = {}
  BY <1>1, <1>3 DEF Mapped, Service!Next, Service!FindNone
<1>4. CASE result = "reply" /\ Stage = "asked" /\ \E r \in Pending : r.call = call.n /\ r.ids = list
  BY <1>1, <1>4 DEF Mapped, Service!Next, Service!Hear
<1> QED
  BY <1>2, <1>3, <1>4

LEMMA MapsQuit ==
  ASSUME UNCHANGED <<Sessions, call.n, Sending, Underway>>,
         Stage' = "over", last' = NoResult, Pending' \subseteq Pending
  PROVE  Mapped
<1>1. Service!Quit
  BY DEF Service!Quit, Service!NoOutcome, NoResult, Sessions, Service!sessions
<1> QED
  BY <1>1 DEF Mapped, Service!Next

-----------------------------------------------------------------------------
(* What is on its way, in hand and heard of, by connection *)

LEMMA Gathered ==
  /\ \A x : x \in Sending <=> \E c \in Conn : x \in Written(c)
  /\ \A x : x \in Underway <=> \E c \in Conn : x \in Doing(c)
  /\ \A x : x \in Pending <=> \E c \in Conn : x \in Unread(c) \cup Decided(c)
  /\ \A x : x \in Sending' <=> \E c \in Conn : x \in Written(c)'
  /\ \A x : x \in Underway' <=> \E c \in Conn : x \in Doing(c)'
  /\ \A x : x \in Pending' <=> \E c \in Conn : x \in (Unread(c) \cup Decided(c))'
BY DEF Sending, Underway, Pending

LEMMA Tables ==
  /\ \A x : x \in Live <=> \E p \in Proc : monitor[p] # "exit" /\ x \in table[p]
  /\ \A x : x \in Doomed <=> \E p \in Proc : monitor[p] = "exit" /\ x \in table[p]
  /\ \A x : x \in Live' <=> \E p \in Proc : monitor'[p] # "exit" /\ x \in table'[p]
  /\ \A x : x \in Doomed' <=> \E p \in Proc : monitor'[p] = "exit" /\ x \in table'[p]
BY DEF Live, Doomed

LEMMA SessionsSame ==
  ASSUME UNCHANGED <<table, monitor, shell, pump>>
  PROVE  UNCHANGED Sessions
BY DEF Sessions, Live, Doomed, Used

LEMMA CallerSame ==
  ASSUME UNCHANGED <<call, last>>
  PROVE  UNCHANGED Caller
BY DEF Caller, Stage

LEMMA OthersSame ==
  ASSUME NEW c \in Conn, Others(c)
  PROVE  \A d \in Conn : d # c =>
           /\ Written(d)' = Written(d) /\ Doing(d)' = Doing(d)
           /\ Unread(d)' = Unread(d) /\ Decided(d)' = Decided(d)
<1> SUFFICES ASSUME NEW d \in Conn, d # c
             PROVE  /\ Written(d)' = Written(d) /\ Doing(d)' = Doing(d)
                    /\ Unread(d)' = Unread(d) /\ Decided(d)' = Decided(d)
  OBVIOUS
<1>0. in'[d] = in[d] /\ out'[d] = out[d] /\ thread'[d] = thread[d] /\ job'[d] = job[d]
  BY DEF Others
<1>1. Written(d)' = Written(d)
  BY <1>0 DEF Written
<1>2. Doing(d)' = Doing(d)
  BY <1>0 DEF Doing
<1>3. Unread(d)' = Unread(d)
  BY <1>0 DEF Unread
<1>4. Decided(d)' = Decided(d)
  BY <1>0 DEF Decided, Done
<1> QED
  BY <1>1, <1>2, <1>3, <1>4

LEMMA PlainCall ==
  ASSUME NEW l \in Line
  PROVE  /\ Plain(l).call = l.call /\ Plain(l).op = l.op
         /\ l.op # "open" => Plain(l).id = l.id
BY DEF Plain, Line

LEMMA UnreadGrows ==
  ASSUME NEW c \in Conn, out[c] \in Seq(Reply), NEW r \in Reply, out'[c] = Append(out[c], r)
  PROVE  Unread(c)' = IF r.call = 0 THEN Unread(c) ELSE Unread(c) \cup {r}
<1>1. /\ Len(out'[c]) = Len(out[c]) + 1 /\ Len(out[c]) \in Nat
      /\ out'[c][Len(out[c]) + 1] = r /\ \A k \in 1 .. Len(out[c]) : out'[c][k] = out[c][k]
  OBVIOUS
<1>2. 1 .. Len(out'[c]) = (1 .. Len(out[c])) \cup {Len(out[c]) + 1}
  BY <1>1
<1>3. \A x : (\E k \in 1 .. Len(out'[c]) : x = out'[c][k])
               <=> x = r \/ \E k \in 1 .. Len(out[c]) : x = out[c][k]
  BY <1>1, <1>2
<1>4. {out'[c][k] : k \in 1 .. Len(out'[c])} = {out[c][k] : k \in 1 .. Len(out[c])} \cup {r}
  BY <1>3
<1> QED
  BY <1>4 DEF Unread

LEMMA UnreadShrinks ==
  ASSUME NEW c \in Conn, out[c] \in Seq(Reply), out[c] # <<>>, out'[c] = Tail(out[c])
  PROVE  /\ Unread(c)' \subseteq Unread(c)
         /\ Head(out[c]).call # 0 => Head(out[c]) \in Unread(c)
<1>1. /\ Len(out'[c]) = Len(out[c]) - 1 /\ Len(out[c]) \in Nat \ {0}
      /\ \A k \in 1 .. Len(out'[c]) : out'[c][k] = out[c][k + 1]
      /\ Head(out[c]) = out[c][1]
  OBVIOUS
<1>2. \A k \in 1 .. Len(out'[c]) : k + 1 \in 1 .. Len(out[c])
  BY <1>1
<1>3. 1 \in 1 .. Len(out[c])
  BY <1>1
<1> QED
  BY <1>1, <1>2, <1>3 DEF Unread

LEMMA UnreadNone ==
  ASSUME NEW c \in Conn, out'[c] = <<>>
  PROVE  Unread(c)' = {}
BY DEF Unread

-----------------------------------------------------------------------------
(* A connection's thread *)

Busy == {"look", "open", "spawn", "insert", "kill", "remove"}

LEMMA ConnLoses ==
  ASSUME NEW c \in Conn, Others(c), UNCHANGED <<Sessions, Caller>>,
         Written(c)' \subseteq Written(c), Doing(c)' = Doing(c),
         (Unread(c) \cup Decided(c))' \subseteq Unread(c) \cup Decided(c)
  PROVE  Mapped
<1>0. \A d \in Conn : /\ Written(d)' \subseteq Written(d)
                      /\ (Unread(d) \cup Decided(d))' \subseteq Unread(d) \cup Decided(d)
  BY OthersSame
<1>1. Sending' \subseteq Sending /\ Pending' \subseteq Pending
  BY <1>0, Gathered
<1>2. Underway' = Underway
  <2>1. \A d \in Conn : Doing(d)' = Doing(d)
    BY OthersSame
  <2> QED
    BY <2>1, Gathered
<1> QED
  BY <1>1, <1>2, MapsLose

\* The request a thread has in hand leaves it.
LEMMA ConnLets ==
  ASSUME ConnType, TasksOK, NEW c \in Conn, Others(c), thread[c] \in Busy, Doing(c)' = {},
         Written(c)' \subseteq Written(c)
  PROVE  LET r == Plain(job[c])
         IN  /\ r \in Underway /\ Underway' = Underway \ {r} /\ Sending' \subseteq Sending
             /\ Written(c)' = Written(c) => Sending' = Sending
             /\ \A rep : (Unread(c) \cup Decided(c))' = Unread(c) \cup {rep} =>
                           Pending' = Pending \cup {rep}
             /\ (Unread(c) \cup Decided(c))' = Unread(c) => Pending' = Pending
<1> DEFINE r == Plain(job[c])
<1>1. Doing(c) = {r} /\ Decided(c) = {}
  BY DEF Doing, Decided, Busy
<1>2. ASSUME NEW d \in Conn, d # c PROVE r \notin Doing(d)
  <2> SUFFICES ASSUME r \in Doing(d) PROVE FALSE
    OBVIOUS
  <2>1. r = Plain(job[d]) /\ thread[d] \in Working /\ thread[c] \in Working
    BY DEF Doing, Busy, Working
  <2>2. job[c] \in Line /\ job[d] \in Line
    BY DEF ConnType
  <2>3. job[c].call = job[d].call
    BY <2>1, <2>2, PlainCall DEF r
  <2> QED
    BY <1>2, <2>1, <2>3 DEF TasksOK
<1> HIDE DEF r
<1>3. r \in Underway /\ Underway' = Underway \ {r}
  BY <1>1, <1>2, Gathered, OthersSame
<1>4. Sending' \subseteq Sending /\ (Written(c)' = Written(c) => Sending' = Sending)
  <2>1. \A d \in Conn : Written(d)' \subseteq Written(d)
    BY OthersSame
  <2>2. Written(c)' = Written(c) => \A d \in Conn : Written(d)' = Written(d)
    BY OthersSame
  <2>3. Sending' \subseteq Sending
    BY <2>1, Gathered
  <2>4. ASSUME Written(c)' = Written(c) PROVE Sending' = Sending
    BY <2>2, <2>4, Gathered
  <2> QED
    BY <2>3, <2>4
<1>5. ASSUME NEW rep, (Unread(c) \cup Decided(c))' = Unread(c) \cup {rep}
      PROVE  Pending' = Pending \cup {rep}
  BY <1>1, <1>5, Gathered, OthersSame
<1>6. ASSUME (Unread(c) \cup Decided(c))' = Unread(c) PROVE Pending' = Pending
  BY <1>1, <1>6, Gathered, OthersSame
<1> QED
  BY <1>3, <1>4, <1>5, <1>6 DEF r

\* A request in hand is answered, or nobody is left to tell.
LEMMA AnswersLets ==
  ASSUME DaemonType, TasksOK, NEW c \in Conn, NEW from \in Busy, NEW rep \in Reply,
         rep.call = job[c].call, Answers(c, from, rep)
  PROVE  UNCHANGED Sessions /\ (Answered(Plain(job[c]), rep) \/ Dropped(Plain(job[c])))
<1>0. /\ ConnType /\ thread[c] = from /\ thread[c] \in Busy /\ thread[c] \in Working
      /\ out[c] \in Seq(Reply) /\ in \in [Conn -> Seq(Line)]
  BY AnswersLeave DEF DaemonType, ConnType, Busy, Working
<1>1. Talks(c) /\ Others(c)
  BY <1>0, AnswersTalks DEF Talks
<1>2. UNCHANGED Sessions
  BY SessionsSame DEF Answers, Goes, Closes, sessionVars, procVars
<1>3. CASE far[c] = "open" /\ Goes(c, from, "control") /\ out' = [out EXCEPT ![c] = Append(@, rep)] /\ in' = in
  <2>1. thread'[c] = "control" /\ out'[c] = Append(out[c], rep) /\ in'[c] = in[c]
    BY <1>0, <1>3 DEF Goes, DaemonType, ConnType
  <2>2. Doing(c)' = {} /\ Decided(c)' = {} /\ Written(c)' = Written(c)
    BY <2>1 DEF Doing, Decided, Written
  <2>3. rep.call # 0
    BY <1>0 DEF TasksOK, Call
  <2>4. Unread(c)' = Unread(c) \cup {rep}
    BY <1>0, <2>1, <2>3, UnreadGrows
  <2>5. (Unread(c) \cup Decided(c))' = Unread(c) \cup {rep}
    BY <2>2, <2>4
  <2> QED
    BY <1>0, <1>1, <1>2, <2>2, <2>5, ConnLets DEF Answered
<1>4. CASE Closes(c, from) /\ UNCHANGED out
  <2>1. thread'[c] = "closed" /\ out' = out /\ in'[c] = <<>>
    BY <1>0, <1>4 DEF Closes, DaemonType, ConnType
  <2>2. Doing(c)' = {} /\ Decided(c)' = {} /\ Written(c)' = {} /\ Unread(c)' = Unread(c)
    BY <2>1 DEF Doing, Decided, Written, Unread
  <2>3. (Unread(c) \cup Decided(c))' = Unread(c)
    BY <2>2
  <2> QED
    BY <1>0, <1>1, <1>2, <2>2, <2>3, ConnLets DEF Dropped
<1> QED
  BY <1>3, <1>4 DEF Answers

\* What was decided is said, or nobody is left to tell.
LEMMA AnswersSays ==
  ASSUME DaemonType, TasksOK, NEW c \in Conn, NEW from \in {"opened", "reap"}, NEW rep \in Reply,
         rep.call = job[c].call, Decided(c) = {rep}, Answers(c, from, rep), UNCHANGED Caller
  PROVE  Mapped
<1>0. /\ ConnType /\ thread[c] = from /\ thread[c] \in Working
      /\ out[c] \in Seq(Reply) /\ in \in [Conn -> Seq(Line)]
  BY AnswersLeave DEF DaemonType, ConnType, Working
<1>1. Talks(c) /\ Others(c)
  BY <1>0, AnswersTalks DEF Talks
<1>2. UNCHANGED Sessions
  BY SessionsSame DEF Answers, Goes, Closes, sessionVars, procVars
<1>3. Doing(c) = {}
  BY <1>0 DEF Doing
<1>4. CASE far[c] = "open" /\ Goes(c, from, "control") /\ out' = [out EXCEPT ![c] = Append(@, rep)] /\ in' = in
  <2>1. thread'[c] = "control" /\ out'[c] = Append(out[c], rep) /\ in'[c] = in[c]
    BY <1>0, <1>4 DEF Goes, DaemonType, ConnType
  <2>2. Doing(c)' = {} /\ Decided(c)' = {} /\ Written(c)' = Written(c)
    BY <2>1 DEF Doing, Decided, Written
  <2>3. rep.call # 0
    BY <1>0 DEF TasksOK, Call
  <2>4. Unread(c)' = Unread(c) \cup {rep}
    BY <1>0, <2>1, <2>3, UnreadGrows
  <2>5. (Unread(c) \cup Decided(c))' \subseteq Unread(c) \cup Decided(c)
    BY <2>2, <2>4
  <2> QED
    BY <1>1, <1>2, <1>3, <2>2, <2>5, ConnLoses
<1>5. CASE Closes(c, from) /\ UNCHANGED out
  <2>1. thread'[c] = "closed" /\ out' = out /\ in'[c] = <<>>
    BY <1>0, <1>5 DEF Closes, DaemonType, ConnType
  <2>2. Doing(c)' = {} /\ Decided(c)' = {} /\ Written(c)' = {} /\ Unread(c)' = Unread(c)
    BY <2>1 DEF Doing, Decided, Written, Unread
  <2>3. (Unread(c) \cup Decided(c))' \subseteq Unread(c) \cup Decided(c)
    BY <2>2
  <2> QED
    BY <1>1, <1>2, <1>3, <2>2, <2>3, ConnLoses
<1> QED
  BY <1>4, <1>5 DEF Answers

\* No other process than the one that serves has sessions.
LEMMA OnlyTable ==
  ASSUME LockOK, TablesOK, NEW p \in Proc, Serving(p)
  PROVE  /\ \A q \in Proc : q # p => table[q] = {}
         /\ Live \cup Doomed = table[p]
         /\ monitor[p] # "exit" => Live = table[p] /\ Doomed = {}
         /\ monitor[p] = "exit" => Doomed = table[p] /\ Live = {}
<1>1. \A q \in Proc : q # p => table[q] = {}
  BY OneTable
<1>2. Live \cup Doomed = table[p]
  BY <1>1, Tables
<1>3. CASE monitor[p] # "exit"
  BY <1>1, <1>3, <1>2, Tables
<1>4. CASE monitor[p] = "exit"
  BY <1>1, <1>4, <1>2, Tables
<1> QED
  BY <1>1, <1>2, <1>3, <1>4

LEMMA LookMaps ==
  ASSUME DaemonType, LockOK, ServedOK, TablesOK, TasksOK, NEW c \in Conn, Look(c), UNCHANGED Caller
  PROVE  Mapped
<1>1. thread[c] = "look" /\ thread[c] \in Busy /\ thread[c] \in Working
  BY DEF Look, Busy, Working
<1> DEFINE p == server[c]
           rep == Done(c, TRUE, table[p])
<1>2. p \in Proc /\ Serving(p) /\ job[c] \in Line
  BY <1>1 DEF ServedOK, DaemonType, ConnType
<1>3. rep \in Reply /\ rep.call = job[c].call
  BY <1>2, DoneType DEF DaemonType, TableType, Done
<1>4. UNCHANGED Sessions /\ (Answered(Plain(job[c]), rep) \/ Dropped(Plain(job[c])))
  BY <1>1, <1>3, AnswersLets DEF Look
<1>5. Plain(job[c]).op = "look" /\ Plain(job[c]).call = job[c].call
  BY <1>1, <1>2, PlainCall DEF TasksOK, Kind
<1>6. rep = ReplyTo(Plain(job[c]), TRUE, table[p])
  BY <1>5 DEF Done, ReplyTo
<1>7. Live \subseteq table[p] /\ table[p] \subseteq Live \cup Doomed
  BY <1>2, OnlyTable
<1> QED
  BY <1>4, <1>5, <1>6, <1>7, MapsLook

\* An open that fails, or the kill of a session there is none of.
LEMMA RefuseMaps ==
  ASSUME DaemonType, TasksOK, NEW c \in Conn, NEW from \in Busy, Answers(c, from, Done(c, FALSE, {})),
         UNCHANGED Caller,
         \/ from \in {"open", "spawn"}
         \/ from \in {"kill", "remove"} /\ job[c].id \notin Live \cup Doomed
  PROVE  Mapped
<1> DEFINE rep == Done(c, FALSE, {})
<1>1. thread[c] = from /\ thread[c] \in Working /\ job[c] \in Line
  BY AnswersLeave DEF Busy, Working, DaemonType, ConnType
<1>2. rep \in Reply /\ rep.call = job[c].call
  BY DoneType DEF Done
<1>3. UNCHANGED Sessions /\ (Answered(Plain(job[c]), rep) \/ Dropped(Plain(job[c])))
  BY <1>2, AnswersLets
<1>4. Plain(job[c]).op = job[c].op /\ Plain(job[c]).call = job[c].call
      /\ (job[c].op = "kill" => Plain(job[c]).id = job[c].id)
  BY <1>1, PlainCall
<1>5. rep = ReplyTo(Plain(job[c]), FALSE, {})
  BY <1>4 DEF Done, ReplyTo
<1>6. \/ Plain(job[c]).op = "open"
      \/ Plain(job[c]).op = "kill" /\ Plain(job[c]).id \notin Live \cup Doomed
  BY <1>1, <1>4 DEF TasksOK, Kind
<1> QED
  BY <1>3, <1>5, <1>6, MapsRefuse

\* A request in hand is done, and its reply decided but not yet said.
LEMMA ConnDecides ==
  ASSUME ConnType, TasksOK, NEW c \in Conn, Others(c), thread[c] \in Busy,
         thread'[c] \in {"opened", "reap"}, in'[c] = in[c], out'[c] = out[c], job'[c] = job[c]
 
      PROVE   Answered(Plain(job[c]), ReplyTo(job[c], TRUE, IF thread'[c] = "opened" THEN {job[c].id} ELSE {}))
<1> DEFINE rep == ReplyTo(job[c], TRUE, IF thread'[c] = "opened" THEN {job[c].id} ELSE {})
<1>1. Doing(c)' = {} /\ Written(c)' = Written(c) /\ Unread(c)' = Unread(c)
  BY DEF Doing, Written, Unread
<1>2. Decided(c)' = {rep}
  BY DEF Decided, Done, ReplyTo
<1> HIDE DEF rep
<1>3. (Unread(c) \cup Decided(c))' = Unread(c) \cup {rep}
  BY <1>1, <1>2
<1> QED
  BY <1>1, <1>3, ConnLets DEF Answered, rep

LEMMA InsertMaps ==
  ASSUME DaemonType, JobOK, ServedOK, ServeOK, NEW c \in Conn, Insert(c), UNCHANGED Caller
  PROVE  Mapped
<1> DEFINE i == job[c].id
           p == server[c]
           r == Plain(job[c])
<1>1. /\ thread[c] = "insert" /\ thread'[c] = "opened" /\ Others(c) /\ TasksOK /\ ConnType
      /\ in' = in /\ out' = out /\ job' = job /\ thread[c] \in Busy /\ thread[c] \in Working
  BY DEF Insert, Goes, Others, ServeOK, DaemonType, ConnType, Busy, Working
<1>2. /\ i \in Id /\ p \in Proc /\ pump[i] = "none" /\ shell[i] # "lost"
      /\ job[c] \in Line /\ job[c].op = "open"
  BY <1>1 DEF JobOK, ServedOK, ServeOK, FreshOK, TasksOK, Kind, DaemonType, ConnType
<1>3. Answered(r, ReplyTo(job[c], TRUE, {i}))
  BY <1>1, ConnDecides
<1>4. r.op = "open" /\ ReplyTo(job[c], TRUE, {i}) = ReplyTo(r, TRUE, {i})
  BY <1>2, PlainCall DEF ReplyTo
<1>5. /\ table' = [table EXCEPT ![p] = @ \cup {i}] /\ pump' = [pump EXCEPT ![i] = "reads"]
      /\ UNCHANGED <<shell, monitor>>
      /\ table \in [Proc -> SUBSET Id] /\ pump \in [Id -> {"none", "reads", "done"}]
  BY DEF Insert, Goes, procVars, DaemonType, TableType, SessionType
<1> HIDE DEF i, p, r
<1>6. i \notin Used /\ Used' = Used \cup {i}
  BY <1>2, <1>5 DEF Used
<1>7. \A q \in Proc : table'[q] = IF q = p THEN table[q] \cup {i} ELSE table[q]
  BY <1>2, <1>5
<1>8. CASE monitor[p] # "exit"
  <2>1. Live' = Live \cup {i}
    <3>1. \A x : x \in Live' <=> x \in Live \/ x = i
      BY <1>2, <1>5, <1>7, <1>8, Tables
    <3> QED
      BY <3>1
  <2>2. Doomed' = Doomed
    <3>1. \A x : x \in Doomed' <=> x \in Doomed
      BY <1>2, <1>5, <1>7, <1>8, Tables
    <3> QED
      BY <3>1
  <2> QED
    BY <1>2, <1>3, <1>4, <1>6, <2>1, <2>2, MapsOpen
<1>9. CASE monitor[p] = "exit"
  <2>1. Doomed' = Doomed \cup {i}
    BY <1>2, <1>5, <1>7, <1>9, Tables
  <2>2. Live' = Live
    <3>1. \A x : x \in Live' <=> x \in Live
      BY <1>2, <1>5, <1>7, <1>9, Tables
    <3> QED
      BY <3>1
  <2> QED
    BY <1>2, <1>3, <1>4, <1>6, <2>1, <2>2, MapsOpen
<1> QED
  BY <1>8, <1>9

\* The one table there is loses an id.
LEMMA TableLoses ==
  ASSUME DaemonType, LockOK, TablesOK, NEW p \in Proc, Serving(p), NEW i,
         table' = [table EXCEPT ![p] = @ \ {i}], UNCHANGED monitor
  PROVE  Live' = Live \ {i} /\ Doomed' = Doomed \ {i}
<1>1. /\ table \in [Proc -> SUBSET Id] /\ \A q \in Proc : q # p => table[q] = {}
  BY OnlyTable DEF DaemonType, TableType
<1>2. \A q \in Proc : table'[q] = table[q] \ {i}
  BY <1>1
<1>3. Live' = Live \ {i}
  BY <1>2, Tables
<1>4. Doomed' = Doomed \ {i}
  BY <1>2, Tables
<1> QED
  BY <1>3, <1>4

LEMMA RemoveMaps ==
  ASSUME DaemonType, LockOK, ServedOK, TablesOK, TasksOK, NEW c \in Conn, Remove(c), UNCHANGED Caller
  PROVE  Mapped
<1> DEFINE i == job[c].id
           p == server[c]
           r == Plain(job[c])
<1>1. thread[c] = "remove" /\ thread[c] \in Busy /\ thread[c] \in Working /\ ConnType
  BY AnswersLeave DEF Remove, Goes, Busy, Working, DaemonType
<1>2. /\ p \in Proc /\ Serving(p) /\ job[c] \in Line /\ job[c].op = "kill" /\ Live \cup Doomed = table[p]
  <2>1. p \in Proc /\ Serving(p) /\ job[c] \in Line
    BY <1>1 DEF ServedOK, ConnType
  <2>2. job[c].op = "kill"
    BY <1>1 DEF TasksOK, Kind
  <2> QED
    BY <2>1, <2>2, OnlyTable
<1>3. CASE i \notin table[p]
  BY <1>1, <1>2, <1>3, RefuseMaps DEF Remove, Finished
<1>4. CASE i \in table[p]
  <2>1. /\ Goes(c, "remove", "reap") /\ table' = [table EXCEPT ![p] = @ \ {i}]
        /\ UNCHANGED <<sessionVars, job, in, out, monitor>>
    BY <1>4 DEF Remove, Finished, Goes, procVars
  <2>2. Others(c) /\ thread'[c] = "reap"
    BY <1>1, <2>1 DEF Goes, Others, ConnType
  <2>3. Answered(r, ReplyTo(job[c], TRUE, {}))
    BY <1>1, <2>1, <2>2, ConnDecides
  <2>4. r.op = "kill" /\ r.id = i /\ ReplyTo(job[c], TRUE, {}) = ReplyTo(r, TRUE, {})
    BY <1>2, PlainCall DEF ReplyTo
  <2>5. Used' = Used
    BY <2>1 DEF Used, sessionVars
  <2>6. Live' = Live \ {i} /\ Doomed' = Doomed \ {i}
    BY <1>2, <2>1, TableLoses
  <2> HIDE DEF r, i
  <2> QED
    BY <1>2, <1>4, <2>3, <2>4, <2>5, <2>6, MapsKill
<1> QED
  BY <1>3, <1>4

LEMMA TakeRequestMaps ==
  ASSUME DaemonType, TalkOK, TasksOK, NEW c \in Conn, TakeRequest(c), UNCHANGED Caller
  PROVE  Mapped
<1> DEFINE l == Head(in[c])
<1>1. /\ thread[c] = "control" /\ in[c] # <<>> /\ thread' = [thread EXCEPT ![c] = l.op]
      /\ job' = [job EXCEPT ![c] = l] /\ in' = [in EXCEPT ![c] = Tail(@)] /\ out' = out
      /\ UNCHANGED <<table, monitor, shell, pump>> /\ OneLine /\ SentOnce
  BY DEF TakeRequest, Goes, procVars, sessionVars, TalkOK, SendOK
<1>2. l \in Line /\ thread \in [Conn -> Threads] /\ job \in [Conn -> Line] /\ in \in [Conn -> Seq(Line)]
  BY <1>1, Lines DEF DaemonType, ConnType
<1>3. /\ thread'[c] = l.op /\ job'[c] = l /\ in'[c] = <<>> /\ out'[c] = out[c] /\ Others(c)
  BY <1>1, <1>2 DEF OneLine, Others
<1>4. UNCHANGED Sessions
  BY <1>1, SessionsSame
<1>5. /\ Written(c)' = {} /\ Doing(c) = {} /\ Decided(c) = {} /\ Decided(c)' = {} /\ Unread(c)' = Unread(c)
  BY <1>1, <1>2, <1>3 DEF Written, Doing, Decided, Unread, Line
<1>6. CASE l.op = "hello"
  <2>1. Doing(c)' = {}
    BY <1>3, <1>6 DEF Doing
  <2> QED
    BY <1>3, <1>4, <1>5, <2>1, ConnLoses
<1>7. CASE l.op # "hello"
  <2> DEFINE r == Plain(l)
  <2>1. Written(c) = {r} /\ Doing(c)' = {r}
    BY <1>1, <1>2, <1>3, <1>7 DEF Written, Doing, Line
  <2>2. l.call \in Call /\ Asks(c, l.call) /\ r.call = l.call
    BY <1>1, <1>2, <1>7, PlainCall DEF TasksOK, Carries, Asks
  <2>3. ASSUME NEW d \in Conn, d # c, r \in Written(d) PROVE FALSE
    <3>1. in[d] # <<>> /\ r = Plain(Head(in[d])) /\ Head(in[d]) \in Line
      BY <1>2, <2>3, Lines DEF Written
    <3>2. Asks(d, l.call)
      BY <2>2, <3>1, PlainCall DEF Asks
    <3> QED
      BY <1>1, <2>2, <2>3, <3>2 DEF SentOnce
  <2> HIDE DEF r, l
  <2>4. r \in Sending /\ Sending' = Sending \ {r}
    BY <1>3, <1>5, <2>1, <2>3, Gathered, OthersSame
  <2>5. Underway' = Underway \cup {r}
    BY <1>3, <1>5, <2>1, Gathered, OthersSame
  <2>6. Pending' = Pending
    <3>1. \A d \in Conn : (Unread(d) \cup Decided(d))' = Unread(d) \cup Decided(d)
      BY <1>3, <1>5, OthersSame
    <3> QED
      BY <3>1, Gathered
  <2> QED
    BY <1>4, <2>4, <2>5, <2>6, MapsTakeUp
<1> QED
  BY <1>6, <1>7

\* A thread goes on with a request.
LEMMA GoesOnMaps ==
  ASSUME NEW c \in Conn, Others(c), thread[c] \in Busy, thread'[c] \in Busy, in'[c] = in[c],
         out'[c] = out[c], Plain(job'[c]) = Plain(job[c]), UNCHANGED <<Sessions, Caller>>
  PROVE  Mapped
<1>1. Doing(c)' = Doing(c) /\ Written(c)' = Written(c) /\ Unread(c)' = Unread(c) /\ Decided(c)' = Decided(c)
  BY DEF Doing, Written, Unread, Decided, Busy
<1> QED
  BY <1>1, ConnLoses

LEMMA AllocateMaps ==
  ASSUME DaemonType, TasksOK, NEW c \in Conn, Allocate(c), UNCHANGED Caller
  PROVE  Mapped
<1>1. CASE Answers(c, "open", Done(c, FALSE, {}))
  BY <1>1, RefuseMaps DEF Busy
<1>2. CASE ~Answers(c, "open", Done(c, FALSE, {}))
  <2>1. /\ thread[c] = "open" /\ thread' = [thread EXCEPT ![c] = "spawn"] /\ in' = in /\ out' = out
        /\ job' = [job EXCEPT ![c].id = next[server[c]]]
        /\ UNCHANGED <<table, monitor, shell, pump>>
    BY <1>2 DEF Allocate, sessionVars
  <2>2. thread \in [Conn -> Threads] /\ job \in [Conn -> Line] /\ job[c].op = "open"
    BY <2>1 DEF DaemonType, ConnType, TasksOK, Working, Kind
  <2>3. thread'[c] = "spawn" /\ job'[c] = [job[c] EXCEPT !.id = next[server[c]]] /\ Others(c)
    BY <2>1, <2>2 DEF Others
  <2>4. job[c] \in Line
    BY <2>2
  <2>5. Plain(job'[c]) = Plain(job[c])
    BY <2>2, <2>3, <2>4 DEF Plain, Line
  <2> QED
    BY <2>1, <2>3, <2>5, GoesOnMaps, SessionsSame DEF Busy
<1> QED
  BY <1>1, <1>2

LEMMA SpawnShellMaps ==
  ASSUME DaemonType, JobOK, IdsOK, FreshOK, NEW c \in Conn, SpawnShell(c), UNCHANGED Caller
  PROVE  Mapped
<1> DEFINE i == job[c].id
<1>1. /\ thread[c] = "spawn" /\ thread'[c] = "insert" /\ Others(c) /\ in' = in /\ out' = out /\ job' = job
      /\ shell' = [shell EXCEPT ![i] = "runs"] /\ UNCHANGED <<table, monitor, pump>>
  BY DEF SpawnShell, Goes, Others, procVars, DaemonType, ConnType
<1>2. shell[i] = "none" /\ shell \in [Id -> {"none", "runs", "hup", "job", "gone", "lost"}]
  BY <1>1 DEF JobOK, IdsOK, FreshOK, DaemonType, SessionType
<1> HIDE DEF i
<1>3. \A k \in Id : shell'[k] = "lost" <=> shell[k] = "lost"
  BY <1>1, <1>2
<1>4. UNCHANGED Sessions
  BY <1>1, <1>3 DEF Sessions, Live, Doomed, Used
<1> QED
  BY <1>1, <1>4, GoesOnMaps DEF Busy

LEMMA HangUpMaps ==
  ASSUME DaemonType, LockOK, ServedOK, TablesOK, TasksOK, NEW c \in Conn, HangUp(c), UNCHANGED Caller
  PROVE  Mapped
<1> DEFINE i == job[c].id
<1>1. CASE i \notin table[server[c]]
  <2>1. Answers(c, "kill", Done(c, FALSE, {})) /\ thread[c] = "kill"
    BY <1>1 DEF HangUp
  <2>2. server[c] \in Proc /\ Serving(server[c])
    BY <2>1 DEF ServedOK, DaemonType, ConnType
  <2>3. Live \cup Doomed = table[server[c]]
    BY <2>2, OnlyTable
  <2> QED
    BY <1>1, <2>1, <2>3, RefuseMaps DEF Busy
<1>2. CASE i \in table[server[c]]
  <2>1. /\ thread[c] = "kill" /\ thread'[c] = "remove" /\ Others(c) /\ in' = in /\ out' = out /\ job' = job
        /\ shell' = [shell EXCEPT ![i] = IF @ = "runs" THEN "hup" ELSE @]
        /\ UNCHANGED <<table, monitor, pump>>
    BY <1>2 DEF HangUp, Goes, Others, procVars, DaemonType, ConnType
  <2>2. shell \in [Id -> {"none", "runs", "hup", "job", "gone", "lost"}]
    BY DEF DaemonType, SessionType
  <2>3. \A k \in Id : shell'[k] = "lost" <=> shell[k] = "lost"
    BY <2>1, <2>2
  <2>4. UNCHANGED Sessions
    BY <2>1, <2>3 DEF Sessions, Live, Doomed, Used
  <2> QED
    BY <2>1, <2>4, GoesOnMaps DEF Busy
<1> QED
  BY <1>1, <1>2

LEMMA OpenedReapMaps ==
  ASSUME DaemonType, JobOK, TasksOK, NEW c \in Conn, Opened(c) \/ Reap(c), UNCHANGED Caller
  PROVE  Mapped
<1>1. CASE Opened(c)
  <2>1. thread[c] = "opened"
    BY <1>1, AnswersLeave DEF Opened
  <2>2. Done(c, TRUE, {job[c].id}) \in Reply /\ Done(c, TRUE, {job[c].id}).call = job[c].call
    <3>1. {job[c].id} \in SUBSET Id
      BY <2>1 DEF JobOK
    <3> QED
      BY <3>1, DoneType DEF Done
  <2>3. Decided(c) = {Done(c, TRUE, {job[c].id})}
    BY <2>1 DEF Decided
  <2> QED
    BY <1>1, <2>2, <2>3, AnswersSays DEF Opened
<1>2. CASE Reap(c)
  <2>1. thread[c] = "reap"
    BY <1>2 DEF Reap
  <2>2. Done(c, TRUE, {}) \in Reply /\ Done(c, TRUE, {}).call = job[c].call
    BY DoneType DEF Done
  <2>3. Decided(c) = {Done(c, TRUE, {})}
    BY <2>1 DEF Decided
  <2> QED
    BY <1>2, <2>2, <2>3, AnswersSays DEF Reap
<1> QED
  BY <1>1, <1>2

LEMMA ClosesMaps ==
  ASSUME DaemonType, NEW c \in Conn, NEW from \in {"hello", "control"}, Closes(c, from),
         UNCHANGED out, UNCHANGED Caller
  PROVE  Mapped
<1>1. /\ thread[c] = from /\ thread'[c] = "closed" /\ in'[c] = <<>> /\ out'[c] = out[c] /\ Others(c)
      /\ UNCHANGED <<table, monitor, shell, pump>>
  BY DEF Closes, Others, procVars, sessionVars, DaemonType, ConnType
<1>2. /\ Doing(c)' = Doing(c) /\ Written(c)' = {} /\ Unread(c)' = Unread(c) /\ Decided(c)' = Decided(c)
  BY <1>1 DEF Doing, Written, Unread, Decided
<1> QED
  BY <1>1, <1>2, ConnLoses, SessionsSame

LEMMA AckedMaps ==
  ASSUME DaemonType, TalkOK, NEW c \in Conn, Acked(c), UNCHANGED Caller
  PROVE  Mapped
<1>1. CASE Closes(c, "hello") /\ UNCHANGED out
  BY <1>1, ClosesMaps
<1>2. CASE ~(Closes(c, "hello") /\ UNCHANGED out)
  <2> DEFINE rep == [ok |-> TRUE, ids |-> {}, call |-> 0]
  <2>0. ConnType /\ in[c] # <<>> /\ Tail(in[c]) = <<>> /\ rep \in Reply /\ rep.call = 0
    BY DaemonAssumption DEF Acked, DaemonType, TalkOK, SendOK, OneLine, Reply
  <2>1. /\ thread[c] = "hello" /\ thread' = [thread EXCEPT ![c] = "control"]
        /\ out' = [out EXCEPT ![c] = Append(@, rep)] /\ in' = [in EXCEPT ![c] = Tail(@)]
        /\ UNCHANGED <<job, table, monitor, shell, pump>>
    BY <1>2 DEF Acked, Goes, procVars, sessionVars
  <2> HIDE DEF rep
  <2>2. thread'[c] = "control" /\ out'[c] = Append(out[c], rep) /\ in'[c] = <<>> /\ Others(c)
    BY <2>0, <2>1 DEF ConnType, Others
  <2>3. Unread(c)' = Unread(c)
    BY <2>0, <2>2, UnreadGrows DEF ConnType
  <2>4. Doing(c)' = Doing(c) /\ Written(c)' = {} /\ Decided(c)' = Decided(c)
    BY <2>1, <2>2 DEF Doing, Written, Decided
  <2> QED
    BY <2>1, <2>2, <2>3, <2>4, ConnLoses, SessionsSame
<1> QED
  BY <1>1, <1>2

LEMMA ThreadMaps ==
  ASSUME DaemonType, JobOK, LockOK, ServedOK, IdsOK, TalkOK, TablesOK, ServeOK, NEW c \in Conn,
         ThreadStep(c) \/ CannotAllocate(c) \/ CannotSpawn(c), UNCHANGED Caller
  PROVE  Mapped
<1>0. TasksOK /\ FreshOK
  BY DEF ServeOK
<1>1. CASE Accept(c) \/ Greet(c)
  <2>1. /\ thread[c] \in {"queued", "counted"} /\ thread'[c] \in {"counted", "hello"} /\ Others(c)
        /\ in' = in /\ out' = out /\ UNCHANGED <<table, monitor, shell, pump>>
    BY <1>1 DEF Accept, Greet, Goes, Others, procVars, sessionVars, DaemonType, ConnType
  <2>2. /\ Doing(c)' = Doing(c) /\ Written(c)' = Written(c) /\ Unread(c)' = Unread(c)
        /\ Decided(c)' = Decided(c)
    BY <2>1 DEF Doing, Written, Unread, Decided
  <2> QED
    BY <2>1, <2>2, ConnLoses, SessionsSame
<1>2. CASE NoHello(c) \/ EndOfLines(c)
  BY <1>2, ClosesMaps DEF NoHello, EndOfLines
<1>3. CASE CannotAllocate(c) \/ CannotSpawn(c)
  BY <1>0, <1>3, RefuseMaps DEF CannotAllocate, CannotSpawn, Busy
<1> QED
  BY <1>0, <1>1, <1>2, <1>3, AckedMaps, TakeRequestMaps, LookMaps, AllocateMaps, SpawnShellMaps,
     InsertMaps, OpenedReapMaps, HangUpMaps, RemoveMaps DEF ThreadStep

-----------------------------------------------------------------------------
(* Processes, the monitor, shells *)

\* Connections and sessions stay as they are.
LEMMA StillMaps ==
  ASSUME UNCHANGED <<table, monitor, shell, pump, in, out, thread, job>>, UNCHANGED Caller
  PROVE  Mapped
<1>1. UNCHANGED <<Sending, Underway, Pending>>
  BY DEF Sending, Underway, Pending, Written, Doing, Unread, Decided, Done
<1> QED
  BY <1>1, SessionsSame, MapsLose

\* What a process that ends leaves of its connections.
LEMMA EndsConns ==
  ASSUME ConnType, NEW p \in Proc, Ends(p)
  PROVE  \A d \in Conn :
           /\ Written(d)' \subseteq Written(d)
           /\ (Unread(d) \cup Decided(d))' \subseteq Unread(d) \cup Decided(d)
           /\ IF server[d] = p THEN Doing(d)' = {} ELSE Doing(d)' = Doing(d)
<1> SUFFICES ASSUME NEW d \in Conn
             PROVE  /\ Written(d)' \subseteq Written(d)
                    /\ (Unread(d) \cup Decided(d))' \subseteq Unread(d) \cup Decided(d)
                    /\ IF server[d] = p THEN Doing(d)' = {} ELSE Doing(d)' = Doing(d)
  OBVIOUS
<1>1. out' = out /\ Unread(d)' = Unread(d)
  BY DEF Ends, Unread
<1>2. CASE server[d] = p
  <2>1. thread'[d] = "closed" /\ in'[d] = <<>>
    BY <1>2 DEF Ends, Of
  <2> QED
    BY <1>1, <1>2, <2>1 DEF Written, Doing, Decided
<1>3. CASE server[d] # p
  <2>1. thread'[d] = thread[d] /\ in'[d] = in[d] /\ job'[d] = job[d]
    BY <1>3 DEF Ends, Of
  <2>2. Written(d)' = Written(d) /\ Doing(d)' = Doing(d) /\ Decided(d)' = Decided(d)
    BY <2>1 DEF Written, Doing, Decided, Done
  <2> QED
    BY <1>1, <1>3, <2>2
<1> QED
  BY <1>2, <1>3

LEMMA EndsMaps ==
  ASSUME DaemonType, LockOK, ServedOK, TablesOK, FreshOK, NEW p \in Proc, Ends(p), UNCHANGED Caller
  PROVE  Mapped
<1>0. ConnType /\ SessionType /\ TableType /\ ProcType
  BY DEF DaemonType
<1>1. Sending' \subseteq Sending /\ Pending' \subseteq Pending
  BY <1>0, EndsConns, Gathered
<1>2. CASE Serving(p)
  <2>1. \A q \in Proc : table'[q] = {}
    BY <1>0, <1>2, OnlyTable DEF Ends, TableType
  <2>2. Live' = {} /\ Doomed' = {}
    BY <2>1, Tables
  <2>3. \A i \in Id : i \in Used => shell'[i] = "lost"
    BY <1>0, <1>2 DEF Ends, Used, FreshOK, SessionType
  <2>4. Used \subseteq Used' /\ Used' \subseteq Id
    BY <2>3 DEF Used
  <2>5. \A d \in Conn : Doing(d)' \subseteq Doing(d)
    BY <1>0, EndsConns
  <2>6. Underway' \subseteq Underway
    BY <2>5, Gathered
  <2> QED
    BY <1>1, <2>2, <2>4, <2>6, MapsCrash
<1>3. CASE ~Serving(p)
  <2>1. table[p] = {} /\ monitor[p] = "sleep"
    BY <1>3 DEF TablesOK, LockOK
  <2>2. UNCHANGED <<table, monitor, shell, pump>>
    BY <1>0, <1>3, <2>1 DEF Ends, TableType, ProcType, SessionType
  <2>3. \A d \in Conn : server[d] = p => thread[d] \notin Busy
    BY <1>0, <1>3 DEF ServedOK, ConnType, Busy
  <2>4. \A d \in Conn : Doing(d)' = Doing(d)
    BY <1>0, <2>3, EndsConns DEF Doing, Busy
  <2>5. Underway' = Underway
    BY <2>4, Gathered
  <2> QED
    BY <1>1, <2>2, <2>5, SessionsSame, MapsLose
<1> QED
  BY <1>2, <1>3

LEMMA RemoveSocketMaps ==
  ASSUME DaemonType, LockOK, TablesOK, NEW p \in Proc, RemoveSocket(p), UNCHANGED Caller
  PROVE  Mapped
<1>1. /\ Serving(p) /\ monitor[p] = "leaving" /\ monitor' = [monitor EXCEPT ![p] = "exit"]
      /\ UNCHANGED <<table, shell, pump, in, out, thread, job>>
      /\ monitor \in [Proc -> Rounds]
  BY DEF RemoveSocket, MonitorMoves, sessionVars, connVars, DaemonType, ProcType, Rounds
<1>2. Live = table[p] /\ Doomed = {} /\ \A q \in Proc : q # p => table[q] = {}
  BY <1>1, OnlyTable
<1>3. monitor'[p] = "exit" /\ table' = table
  BY <1>1
<1>4. Live' = {}
  BY <1>2, <1>3, Tables
<1>5. Doomed' = table[p]
  <2>1. \A x : x \in Doomed' <=> x \in table[p]
    BY <1>2, <1>3, Tables
  <2> QED
    BY <2>1
<1>6. UNCHANGED <<Used, Sending, Underway, Pending>>
  BY <1>1 DEF Used, Sending, Underway, Pending, Written, Doing, Unread, Decided, Done
<1> QED
  BY <1>2, <1>4, <1>5, <1>6, MapsDoom

LEMMA PumpMaps ==
  ASSUME DaemonType, LockOK, TablesOK, NEW p \in Proc, NEW i \in Id, PumpEnds(p, i), UNCHANGED Caller
  PROVE  Mapped
<1>1. /\ Serving(p) /\ pump[i] = "reads" /\ pump' = [pump EXCEPT ![i] = "done"]
      /\ table' = [table EXCEPT ![p] = @ \ {i}] /\ UNCHANGED <<monitor, shell, in, out, thread, job>>
      /\ pump \in [Id -> {"none", "reads", "done"}]
  BY DEF PumpEnds, procVars, connVars, DaemonType, SessionType
<1>2. Live' = Live \ {i} /\ Doomed' = Doomed \ {i}
  BY <1>1, TableLoses
<1>3. \A k \in Id : pump'[k] = "none" <=> pump[k] = "none"
  BY <1>1
<1>4. Used' = Used
  BY <1>1, <1>3 DEF Used
<1>5. UNCHANGED <<Sending, Underway, Pending>>
  BY <1>1 DEF Sending, Underway, Pending, Written, Doing, Unread, Decided, Done
<1> QED
  BY <1>2, <1>4, <1>5, MapsEndOf

LEMMA ShellMaps ==
  ASSUME DaemonType, NEW i \in Id, ShellEnds(i), UNCHANGED Caller
  PROVE  Mapped
<1>1. /\ UNCHANGED <<table, monitor, pump, in, out, thread, job>>
      /\ shell \in [Id -> {"none", "runs", "hup", "job", "gone", "lost"}]
      /\ shell[i] \in {"runs", "hup", "job"} /\ \E s \in {"job", "gone"} : shell' = [shell EXCEPT ![i] = s]
  BY DEF ShellEnds, procVars, connVars, DaemonType, SessionType
<1>2. \A k \in Id : shell'[k] = "lost" <=> shell[k] = "lost"
  BY <1>1
<1>3. UNCHANGED Sessions
  BY <1>1, <1>2 DEF Sessions, Live, Doomed, Used
<1>4. UNCHANGED <<Sending, Underway, Pending>>
  BY <1>1 DEF Sending, Underway, Pending, Written, Doing, Unread, Decided, Done
<1> QED
  BY <1>3, <1>4, MapsLose

LEMMA DaemonMaps ==
  ASSUME DaemonType, JobOK, LockOK, ServedOK, IdsOK, TalkOK, TablesOK, ServeOK, DaemonStep,
         UNCHANGED Caller
  PROVE  Mapped
<1>1. CASE \E c \in Conn : ThreadStep(c)
  BY <1>1, ThreadMaps
<1>2. CASE \E i \in Id : PumpStep(i) \/ ShellEnds(i)
  BY <1>2, PumpMaps, ShellMaps DEF PumpStep
<1>3. ASSUME NEW p \in Proc, StartStep(p) \/ MonitorStep(p) \/ GracePasses(p) PROVE Mapped
  <2>1. CASE Ends(p)
    BY <2>1, EndsMaps DEF ServeOK
  <2>2. CASE RemoveSocket(p)
    BY <2>2, RemoveSocketMaps
  <2>3. CASE StartStep(p) \/ GracePasses(p)
    <3>1. ~Ends(p) => UNCHANGED <<table, monitor, shell, pump, in, out, thread, job>>
      BY <2>3 DEF StartStep, TakeLock, RemoveStale, Bind, Load, GracePasses, sessionVars,
                  connVars, procVars
    <3> QED
      BY <2>1, <3>1, StillMaps
  <2>4. CASE LookAtSessions(p) \/ LookAtClients(p) \/ LookAtClock(p)
    <3>1. /\ monitor \in [Proc -> Rounds] /\ monitor[p] \in {"sleep", "clients", "clock"}
          /\ \E to \in Rounds \ {"exit"} : monitor' = [monitor EXCEPT ![p] = to]
          /\ UNCHANGED <<table, shell, pump, in, out, thread, job>>
      BY <2>4 DEF LookAtSessions, LookAtClients, LookAtClock, MonitorMoves, Rounds, sessionVars,
                  connVars,
                  DaemonType, ProcType
    <3>2. \A q \in Proc : monitor'[q] = "exit" <=> monitor[q] = "exit"
      BY <3>1
    <3>3. UNCHANGED Sessions
      BY <3>1, <3>2 DEF Sessions, Live, Doomed, Used
    <3>4. UNCHANGED <<Sending, Underway, Pending>>
      BY <3>1 DEF Sending, Underway, Pending, Written, Doing, Unread, Decided, Done
    <3> QED
      BY <3>3, <3>4, MapsLose
  <2> QED
    BY <1>3, <2>1, <2>2, <2>3, <2>4 DEF MonitorStep, IdleExit
<1> QED
  BY <1>1, <1>2, <1>3 DEF DaemonStep

-----------------------------------------------------------------------------
(* The client *)

LEMMA Stages ==
  /\ call.at = "idle" => Stage = "over"
  /\ call.at = "answer" => Stage = "asked"
  /\ call.at \notin {"idle", "answer"} => Stage = "new"
  /\ call'.at = "idle" => Stage' = "over"
  /\ call'.at = "answer" => Stage' = "asked"
  /\ call'.at \notin {"idle", "answer"} => Stage' = "new"
BY DEF Stage

\* What closing its ends of connections, or opening one, does for the service.
Loosens ==
    UNCHANGED <<Sessions, Underway>> /\ Sending' \subseteq Sending /\ Pending' \subseteq Pending

LEMMA QuietSessions ==
  ASSUME QuietDaemon
  PROVE  UNCHANGED Sessions
BY SessionsSame DEF QuietDaemon, sessionVars

LEMMA DropsLoosens ==
  ASSUME NEW cs, Drops(cs)
  PROVE  Loosens /\ Sending' = Sending
<1>1. /\ UNCHANGED <<thread, job, in>> /\ QuietDaemon
      /\ out' = [c \in Conn |-> IF c \in cs THEN <<>> ELSE out[c]]
  BY DEF Drops
<1>2. UNCHANGED <<Sending, Underway>>
  BY <1>1 DEF Sending, Underway, Written, Doing
<1>3. \A d \in Conn : (Unread(d) \cup Decided(d))' \subseteq Unread(d) \cup Decided(d)
  <2> SUFFICES ASSUME NEW d \in Conn
               PROVE  Unread(d)' \subseteq Unread(d) /\ Decided(d)' = Decided(d)
    OBVIOUS
  <2>1. Decided(d)' = Decided(d)
    BY <1>1 DEF Decided, Done
  <2>2. CASE d \in cs
    BY <1>1, <2>1, <2>2, UnreadNone
  <2>3. CASE d \notin cs
    <3>1. out'[d] = out[d]
      BY <1>1, <2>3
    <3> QED
      BY <2>1, <3>1 DEF Unread
  <2> QED
    BY <2>2, <2>3
<1>4. Pending' \subseteq Pending
  BY <1>3, Gathered
<1> QED
  BY <1>1, <1>2, <1>4, QuietSessions DEF Loosens

LEMMA DialLoosens ==
  ASSUME ConnType, HeldOK, FreeConn # {}, NEW p, NEW lines \in {<<Hello>>, <<>>}, Dials(Slot, p, lines)
  PROVE  Loosens
<1>0. PICK s \in Conn : s = Slot
  BY SlotFree
<1>1. s \in FreeConn
  BY <1>0 DEF Slot
<1>2. /\ thread[s] = "closed" /\ thread'[s] = "queued" /\ in'[s] = lines /\ out'[s] = <<>> /\ Others(s)
      /\ QuietDaemon
  BY <1>0, <1>1 DEF Dials, FreeConn, ConnType, Others
<1>3. Written(s)' = {}
  <2>1. Head(<<Hello>>) = Hello
    BY OneItem
  <2> QED
    BY <1>2, <2>1 DEF Written, Hello
<1>4. Doing(s)' = Doing(s) /\ Decided(s)' = Decided(s)
  BY <1>2 DEF Doing, Decided
<1>5. Unread(s)' = {}
  BY <1>2, UnreadNone
<1>6. \A d \in Conn : /\ Written(d)' \subseteq Written(d)
                      /\ (Unread(d) \cup Decided(d))' \subseteq Unread(d) \cup Decided(d)
  BY <1>2, <1>3, <1>4, <1>5, OthersSame
<1>7. \A d \in Conn : Doing(d)' = Doing(d)
  BY <1>2, <1>4, OthersSame
<1>8. Sending' \subseteq Sending /\ Pending' \subseteq Pending
  BY <1>6, Gathered
<1>9. Underway' = Underway
  BY <1>7, Gathered
<1> QED
  BY <1>2, <1>8, <1>9, QuietSessions DEF Loosens

\* The oldest line is read.
LEMMA ReadLoosens ==
  ASSUME ConnType, NEW c \in Conn, out[c] # <<>>, out' = [out EXCEPT ![c] = Tail(@)],
         UNCHANGED <<thread, job, in>>, QuietDaemon
  PROVE  Loosens /\ Sending' = Sending
<1>1. out'[c] = Tail(out[c]) /\ Others(c)
  BY DEF Others, ConnType
<1>2. UNCHANGED <<Sending, Underway>>
  BY DEF Sending, Underway, Written, Doing
<1>3. Unread(c)' \subseteq Unread(c) /\ Decided(c)' = Decided(c)
  BY <1>1, UnreadShrinks DEF ConnType, Decided, Done
<1>4. \A d \in Conn : (Unread(d) \cup Decided(d))' \subseteq Unread(d) \cup Decided(d)
  BY <1>1, <1>3, OthersSame
<1>5. Pending' \subseteq Pending
  BY <1>4, Gathered
<1> QED
  BY <1>2, <1>5, QuietSessions DEF Loosens

LEMMA LoosensMaps ==
  ASSUME Loosens, UNCHANGED Caller
  PROVE  Mapped
BY MapsLose DEF Loosens

\* A call goes on before it is asked, or after.
LEMMA GoesOn ==
  ASSUME call.at \in {"connect", "send", "fresh", "start", "poll", "ack", "poll ack"},
         call'.at \in {"connect", "send", "fresh", "start", "poll", "ack", "poll ack"},
         call'.n = call.n, last' = last
  PROVE  UNCHANGED Caller
BY Stages DEF Caller

LEMMA FailsMaps ==
  ASSUME CallOK, call.at # "idle", Fails
  PROVE  Mapped
<1>1. /\ call' = [Idle EXCEPT !.n = call.n] /\ last' = [result |-> "failed", of |-> call.n, ids |-> {}]
      /\ Drops({call.on} \ {"none"})
  BY DEF Fails, Finishes, Unknown
<1>2. call'.at = "idle" /\ call'.n = call.n
  BY <1>1 DEF Idle
<1>3. Loosens /\ Sending' = Sending
  BY <1>1, DropsLoosens
<1>4. Stage # "over" /\ Stage' = "over"
  BY <1>2, Stages
<1>5. PICK list : list = {}
  OBVIOUS
<1>6. Over("failed", list)
  BY <1>1, <1>2, <1>3, <1>4, <1>5 DEF Over, Loosens
<1> QED
  BY <1>4, <1>5, <1>6, MapsOver

LEMMA AskMaps ==
  ASSUME DaemonType, CallOK, TalkOK, Send, thread[call.on] # "closed"
  PROVE  Mapped
<1>1. /\ in' = [in EXCEPT ![call.on] = Append(@, Request)] /\ Moves("answer", call.on)
      /\ UNCHANGED <<thread, job, out, last>> /\ QuietDaemon /\ call.at \in {"send", "fresh"}
  BY DEF Send
<1>2. PICK c \in Conn : c = call.on
  BY <1>1 DEF CallOK
<1>3. in[c] = <<>>
  BY <1>1, <1>2 DEF TalkOK, HeldOK, Held, Clear
<1>4. in'[c] = <<Request>> /\ Others(c)
  BY <1>1, <1>2, <1>3, OneItem DEF Others, DaemonType, ConnType
<1>5. Head(in'[c]) = Request /\ in'[c] # <<>>
  BY <1>4, OneItem
<1>6. Request \in Line /\ Request.op # "hello" /\ Request.call = call.n
  BY DEF Request, CallOK, Line
<1>7. PICK r : r = Plain(Request)
  OBVIOUS
<1>8. r.call = call.n
  BY <1>6, <1>7, PlainCall
<1>9. Written(c) = {} /\ Written(c)' = {r}
  BY <1>3, <1>5, <1>6, <1>7 DEF Written
<1>10. Sending' = Sending \cup {r}
  <2>1. \A x : x \in Sending' <=> x \in Sending \/ x = r
    BY <1>4, <1>9, Gathered, OthersSame
  <2> QED
    BY <2>1
<1>11. UNCHANGED <<Underway, Pending>>
  BY <1>1 DEF Underway, Pending, Doing, Unread, Decided, Done
<1>12. call'.n = call.n /\ Stage = "new" /\ Stage' = "asked"
  BY <1>1, MovesTo, Stages
<1> QED
  BY <1>1, <1>8, <1>10, <1>11, <1>12, QuietSessions, MapsAsk

LEMMA HeardMaps ==
  ASSUME DaemonType, CallOK, TalkOK, TasksOK, Heard
  PROVE  Mapped
<1>1. /\ call.at = "answer" /\ out[call.on] # <<>> /\ out' = [out EXCEPT ![call.on] = Tail(@)]
      /\ call' = [Idle EXCEPT !.n = call.n] /\ UNCHANGED <<thread, job, in>> /\ QuietDaemon
      /\ last' = [result |-> "reply", of |-> Head(out[call.on]).call, ids |-> Head(out[call.on]).ids]
  BY DEF Heard, Finishes
<1>2. PICK c \in Conn : c = call.on
  BY <1>1 DEF CallOK
<1>3. PICK r : r = Head(out[c])
  OBVIOUS
<1>4. r.call = call.n /\ r.call # 0
  BY <1>1, <1>2, <1>3, HeardTalks DEF TasksOK, CallOK
<1>5. r \in Pending
  <2>1. out[c] \in Seq(Reply) /\ out[c] # <<>> /\ out'[c] = Tail(out[c])
    BY <1>1, <1>2 DEF DaemonType, ConnType
  <2>2. r \in Unread(c)
    BY <1>3, <1>4, <2>1, UnreadShrinks
  <2> QED
    BY <2>2, Gathered
<1>6. Loosens /\ Sending' = Sending
  BY <1>1, <1>2, ReadLoosens DEF DaemonType
<1>7. call'.at = "idle" /\ call'.n = call.n
  BY <1>1 DEF Idle
<1>8. Stage = "asked" /\ Stage' = "over"
  BY <1>1, <1>7, Stages
<1>9. Over("reply", r.ids)
  BY <1>1, <1>2, <1>3, <1>4, <1>6, <1>7, <1>8 DEF Over, Loosens
<1> QED
  BY <1>4, <1>5, <1>8, <1>9, MapsOver

LEMMA NotRunningMaps ==
  ASSUME DaemonType, CallOK, LockOK, TablesOK, NotRunning
  PROVE  Mapped
<1>1. call.at = "connect" /\ ~Reached /\ UNCHANGED daemonVars
  BY DEF NotRunning
<1>2. UNCHANGED <<Sessions, Sending, Underway, Pending>>
  BY <1>1 DEF daemonVars, procVars, sessionVars, connVars, Sessions, Live, Doomed, Used, Sending,
              Underway, Pending, Written, Doing, Unread, Decided, Done
<1>3. CASE app = "new"
  <2>1. /\ call' = [Idle EXCEPT !.n = call.n] /\ last' = [result |-> "reply", of |-> call.n, ids |-> {}]
    BY <1>3 DEF NotRunning, Finishes
  <2>2. call'.at = "idle" /\ call'.n = call.n
    BY <2>1 DEF Idle
  <2>3. Stage = "new" /\ Stage' = "over"
    BY <1>1, <2>2, Stages
  <2>4. Live = {}
    BY <1>1, OneTable, Tables DEF Reached
  <2>5. PICK list : list = {}
    OBVIOUS
  <2>6. Over("reply", list)
    BY <1>2, <2>1, <2>2, <2>3, <2>5 DEF Over
  <2> QED
    BY <2>3, <2>4, <2>5, <2>6, MapsOver
<1>4. CASE app # "new"
  <2>1. Moves("start", "none") /\ last' = last
    BY <1>4 DEF NotRunning
  <2>2. UNCHANGED Caller
    BY <1>1, <2>1, MovesTo, GoesOn
  <2> QED
    BY <1>2, <2>2, MapsLose
<1> QED
  BY <1>3, <1>4

LEMMA CallMaps ==
  ASSUME DaemonType, CallOK, LockOK, TalkOK, TablesOK, TasksOK, CallStep
  PROVE  Mapped
<1>0. HeldOK /\ ConnType
  BY DEF TalkOK, DaemonType
<1>1. CASE Fails
  <2>1. call.at # "idle"
    BY DEF CallStep, Send, Heard, Unanswered, Dial, NotRunning, StartDaemon, DeadlinePasses,
           Acknowledged, Unacknowledged
  <2> QED
    BY <1>1, <2>1, FailsMaps
<1>2. CASE Send /\ Reconnects
  <2>1. /\ Moves("connect", "none") /\ Drops({call.on}) /\ last' = last /\ call.at \in {"send", "fresh"}
    BY <1>2 DEF Send, Reconnects
  <2>2. UNCHANGED Caller
    BY <2>1, MovesTo, GoesOn
  <2> QED
    BY <2>1, <2>2, DropsLoosens, LoosensMaps
<1>3. CASE Send /\ ~Reconnects /\ ~Fails
  BY <1>3, AskMaps DEF Send
<1>4. CASE Dial
  <2>1. /\ call.at \in {"connect", "poll"} /\ last' = last /\ FreeConn # {}
        /\ Dials(Slot, socket, <<Hello>>)
        /\ Moves(IF call.at = "poll" THEN "poll ack" ELSE "ack", Slot)
    BY <1>4 DEF Dial
  <2>2. call'.at \in {"ack", "poll ack"} /\ call'.n = call.n
    BY <2>1, MovesTo
  <2>3. UNCHANGED Caller
    BY <2>1, <2>2, GoesOn
  <2>4. <<Hello>> \in {<<Hello>>, <<>>}
    OBVIOUS
  <2>5. Loosens
    BY <1>0, <2>1, <2>4, DialLoosens
  <2> QED
    BY <2>3, <2>5, LoosensMaps
<1>5. CASE StartDaemon
  <2>1. /\ call.at = "start" /\ Moves("poll", "none") /\ last' = last
        /\ UNCHANGED <<table, monitor, shell, pump, in, out, thread, job>>
    BY <1>5 DEF StartDaemon, QuietDaemon, sessionVars, connVars
  <2>2. UNCHANGED Caller
    BY <2>1, MovesTo, GoesOn
  <2> QED
    BY <2>1, <2>2, StillMaps
<1>6. CASE Acknowledged
  <2>1. /\ call.at \in {"ack", "poll ack"} /\ out[call.on] # <<>> /\ last' = last
        /\ out' = [out EXCEPT ![call.on] = Tail(@)] /\ Moves("fresh", call.on)
        /\ UNCHANGED <<thread, job, in>> /\ QuietDaemon
    BY <1>6 DEF Acknowledged
  <2>2. PICK c \in Conn : c = call.on
    BY <2>1 DEF CallOK
  <2>3. UNCHANGED Caller
    BY <2>1, MovesTo, GoesOn
  <2> QED
    BY <1>0, <2>1, <2>2, <2>3, ReadLoosens, LoosensMaps
<1>7. CASE Unacknowledged /\ ~Fails
  <2>1. /\ call.at \in {"ack", "poll ack"} /\ Drops({call.on}) /\ last' = last
        /\ call' = [call EXCEPT !.at = "poll", !.on = "none", !.tries = 1]
    BY <1>7 DEF Unacknowledged
  <2>2. call'.at = "poll" /\ call'.n = call.n
    BY <2>1 DEF CallOK
  <2>3. UNCHANGED Caller
    BY <2>1, <2>2, GoesOn
  <2> QED
    BY <2>1, <2>3, DropsLoosens, LoosensMaps
<1>8. CASE Unanswered \/ DeadlinePasses
  BY <1>1, <1>8 DEF Unanswered, GivesUp, DeadlinePasses
<1> QED
  BY <1>1, <1>2, <1>3, <1>4, <1>5, <1>6, <1>7, <1>8, HeardMaps, NotRunningMaps DEF CallStep

LEMMA BeginMaps ==
  ASSUME CallOK,
         \/ BeginCensus \/ Begin("open", 0) \/ Begin("look", 0)
         \/ \E i \in Id : born[i] > 0 /\ Begin("kill", i)
  PROVE  Mapped
<1>1. call.at = "idle" /\ last' = NoResult /\ UNCHANGED daemonVars
  BY DEF BeginCensus, Begin
<1>2. call'.n = call.n + 1 /\ call'.at \in {"connect", "send"}
  <2>1. CASE BeginCensus
    BY <2>1 DEF BeginCensus, Idle
  <2>2. ASSUME NEW op, NEW i, Begin(op, i)
        PROVE  call'.n = call.n + 1 /\ call'.at \in {"connect", "send"}
    BY <2>2 DEF Begin
  <2> QED
    BY <2>1, <2>2
<1>3. UNCHANGED <<Sessions, Sending, Underway, Pending>>
  BY <1>1 DEF daemonVars, procVars, sessionVars, connVars, Sessions, Live, Doomed, Used, Sending,
              Underway, Pending, Written, Doing, Unread, Decided, Done
<1>4. Stage = "over" /\ Stage' = "new"
  BY <1>1, <1>2, Stages
<1> QED
  BY <1>1, <1>2, <1>3, <1>4, MapsBegin

LEMMA QuitMaps ==
  ASSUME CallOK, Quit
  PROVE  Mapped
<1>1. call' = [Idle EXCEPT !.n = call.n] /\ last' = NoResult /\ Drops(Conn \ stranger)
  BY DEF Quit
<1>2. call'.at = "idle" /\ call'.n = call.n
  BY <1>1 DEF Idle
<1>3. Loosens /\ Sending' = Sending
  BY <1>1, DropsLoosens
<1>4. Stage' = "over"
  BY <1>2, Stages
<1> QED
  BY <1>1, <1>2, <1>3, <1>4, MapsQuit DEF Loosens

LEMMA NextMaps == IInv /\ TalkOK /\ LookOK /\ ServeOK /\ [Next]_vars => [Service!Next]_(Service!serviceVars)
<1> SUFFICES ASSUME IInv, TalkOK, LookOK, ServeOK, [Next]_vars PROVE Mapped
  BY DEF Mapped
<1>0. /\ DaemonType /\ JobOK /\ CallOK /\ LockOK /\ ServedOK /\ IdsOK /\ TablesOK /\ TasksOK /\ FreshOK
      /\ HeldOK /\ ConnType
  BY TypeParts DEF IInv, LookOK, ServeOK, TalkOK, DaemonType
<1>1. CASE DaemonStep /\ Bystander
  BY <1>0, <1>1, CallerSame, DaemonMaps DEF Bystander
<1>2. CASE \/ BeginCensus \/ Begin("open", 0) \/ Begin("look", 0)
           \/ \E i \in Id : born[i] > 0 /\ Begin("kill", i)
  BY <1>0, <1>2, BeginMaps
<1>3. CASE CallStep
  BY <1>0, <1>3, CallMaps
<1>4. CASE Quit
  BY <1>0, <1>4, QuitMaps
<1>5. CASE CannotStart
  BY <1>0, <1>5, FailsMaps DEF CannotStart
<1>6. CASE Rival
  BY <1>6, CallerSame, StillMaps DEF Rival, QuietDaemon, sessionVars, connVars
<1>7. CASE StrangerConnects
  <2>1. FreeConn # {} /\ Dials(Slot, socket, <<>>) /\ UNCHANGED <<call, last>>
    BY <1>7 DEF StrangerConnects
  <2>2. <<>> \in {<<Hello>>, <<>>}
    OBVIOUS
  <2>3. Loosens
    BY <1>0, <2>1, <2>2, DialLoosens
  <2> QED
    BY <2>1, <2>3, CallerSame, LoosensMaps
<1>8. CASE \E p \in Proc : Dies(p)
  BY <1>0, <1>8, CallerSame, EndsMaps DEF Dies
<1>9. CASE \E c \in Conn : Refused(c)
  BY <1>0, <1>9, CallerSame, ThreadMaps DEF Refused
<1>10. CASE UNCHANGED vars
  BY <1>10, CallerSame, StillMaps DEF vars, clientVars, daemonVars, procVars, sessionVars,
                                      connVars
<1> QED
  BY <1>1, <1>2, <1>3, <1>4, <1>5, <1>6, <1>7, <1>8, <1>9, <1>10 DEF Next

LEMMA InitMaps == Init => Service!Init
<1> SUFFICES ASSUME Init PROVE Service!Init
  OBVIOUS
<1>1. /\ call = Idle /\ last = NoResult /\ \A p \in Proc : monitor[p] = "sleep"
      /\ \A i \in Id : born[i] \in {0, 1} /\ shell[i] = (IF born[i] = 1 THEN "runs" ELSE "none")
                       /\ pump[i] = (IF born[i] = 1 THEN "reads" ELSE "none")
      /\ \A c \in Conn : thread[c] = "closed" /\ in[c] = <<>> /\ out[c] = <<>>
  BY DEF Init, DaemonInit
<1>2. Live = Used
  <2>1. Used = {i \in Id : born[i] = 1}
    BY <1>1 DEF Used
  <2>2. \A i : i \in Live <=> \E p \in Proc : i \in table[p]
    BY <1>1, Tables
  <2>3. CASE table = [p \in Proc |-> {}] /\ born = [i \in Id |-> 0]
    BY <2>1, <2>2, <2>3
  <2>4. CASE /\ lock \in Proc /\ table = [p \in Proc |-> IF p = lock THEN {1} ELSE {}]
             /\ born = [i \in Id |-> IF i = 1 THEN 1 ELSE 0]
    <3>1. 1 \in Id
      BY Lines
    <3>2. Used = {1}
      BY <2>1, <2>4, <3>1
    <3>3. \A i : i \in Live <=> i = 1
      BY <2>2, <2>4
    <3> QED
      BY <3>2, <3>3
  <2>5. (CHOOSE p \in Proc : TRUE) \in Proc
    BY DaemonAssumption
  <2> QED
    BY <2>3, <2>4, <2>5 DEF Init, DaemonInit
<1>3. Doomed = {}
  BY <1>1, Tables
<1>4. Used \subseteq Id
  BY DEF Used
<1>5. call.n = 0 /\ Stage = "over"
  BY <1>1, Stages DEF Idle
<1>6. Sending = {} /\ Underway = {}
  BY <1>1 DEF Sending, Underway, Written, Doing
<1>7. Pending = {}
  <2>1. ASSUME NEW c \in Conn PROVE Unread(c) = {} /\ Decided(c) = {}
    <3>1. thread[c] = "closed" /\ out[c] = <<>>
      BY <1>1
    <3>2. 1 .. Len(out[c]) = {}
      BY <3>1
    <3> QED
      BY <3>1, <3>2 DEF Unread, Decided
  <2> QED
    BY <2>1, Gathered
<1> QED
  BY <1>1, <1>2, <1>3, <1>4, <1>5, <1>6, <1>7 DEF Service!Init, Service!NoOutcome, NoResult

\* Whatever the threads, the processes that want to serve, the shells and the faults do,
\* and in whatever order, the app deals with one set of sessions: a request is carried out
\* once at most, by one step after it was asked, on that set; a reply says what that step
\* did; no open is given an id that was in use before; and a session goes only by its own
\* end, by a kill, or with its daemon.
THEOREM ServesSessions == Spec => ImplementsService
<1>1. Spec => []ServeOK
  BY ServeInit, ServeStep, Invariance, TalkHolds, PTL DEF Spec
<1>2. Spec => []LookOK
  BY LookInit, LookStep, Invariance, TalkHolds, PTL DEF Spec
<1> QED
  BY <1>1, <1>2, InitMaps, NextMaps, Invariance, TalkHolds, PTL
     DEF Spec, ImplementsService, Service!Spec
=============================================================================
