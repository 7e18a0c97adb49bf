--------------------------- MODULE TerminalClient ---------------------------
(***************************************************************************)
(* The app's control connection to the PTY daemon: one call at a time, on  *)
(* the connection kept from the last one or on a new one, with a daemon    *)
(* started if none listens; and the census of surviving panes at the app's *)
(* start.  The app is quit, the daemon killed, a stranger connects and     *)
(* says nothing.                                                           *)
(***************************************************************************)
EXTENDS PtyDaemon

CONSTANT MaxFaults   \* bound on kills, strangers, and calls to the system that fail

ASSUME ClientAssumption == MaxFaults \in Nat /\ "none" \notin Conn

VARIABLES
    app,        \* "new" until its census is over, "up", "down"
    control,    \* Inner.control
    call,       \* the call in hand
    last,       \* what came of the last call, and the call that was the answer of
    asked,      \* history: the sessions there were when the census began
    mishap,     \* history: what may excuse a failure fell into the call
    stranger,   \* connections that are not the app's
    faults

clientVars == <<app, control, call, last, asked, mishap, stranger, faults>>
vars == <<daemonVars, clientVars>>

Idle == [n |-> 0, op |-> "look", id |-> 0, at |-> "idle", on |-> "none", tries |-> 0]

NoResult == [result |-> "none", of |-> 0, ids |-> {}]

Moves(at, on) == call' = [call EXCEPT !.at = at, !.on = on]

Finishes(result, n, list) ==
    /\ call' = [Idle EXCEPT !.n = call.n]
    /\ last' = [result |-> result, of |-> n, ids |-> list]
    /\ app' = "up"

\* Slots are alike: any free one will do.
FreeConn == {c \in Conn : thread[c] = "closed" /\ (far[c] = "closed" \/ c \in stranger)}
Slot == CHOOSE c \in FreeConn : TRUE
FreeProc == {p \in Proc : place[p] = "off"}

\* The daemon's side of things stays as it is but for connections and new processes.
QuietDaemon == UNCHANGED <<lock, socket, ids, next, monitor, table, quiet, sessionVars, taken>>

\* Connecting to p's listener; a line or nothing is written at once.
Dials(c, p, lines) ==
    /\ thread' = [thread EXCEPT ![c] = "queued"]
    /\ server' = [server EXCEPT ![c] = p]
    /\ in' = [in EXCEPT ![c] = lines]
    /\ out' = [out EXCEPT ![c] = <<>>]
    /\ far' = [far EXCEPT ![c] = "open"]
    /\ UNCHANGED <<place, job>> /\ QuietDaemon

\* The app's ends of these connections are closed.
Drops(cs) ==
    /\ far' = [c \in Conn |-> IF c \in cs THEN "closed" ELSE far[c]]
    /\ out' = [c \in Conn |-> IF c \in cs THEN <<>> ELSE out[c]]
    /\ UNCHANGED <<place, thread, server, job, in>> /\ QuietDaemon

-----------------------------------------------------------------------------
(* A call *)

Begin(op, i) ==
    /\ app = "up" /\ call.at = "idle" /\ call.n < MaxCalls
    /\ call' = [n |-> call.n + 1, op |-> op, id |-> i, on |-> control, tries |-> 0,
                at |-> IF control = "none" THEN "connect" ELSE "send"]
    /\ last' = NoResult /\ mishap' = FALSE /\ asked' = {}
    /\ UNCHANGED <<daemonVars, app, control, stranger, faults>>

\* Terminals::surviving, before anything else.
BeginCensus ==
    /\ app = "new" /\ call.at = "idle" /\ call.n < MaxCalls
    /\ call' = [Idle EXCEPT !.n = call.n + 1, !.at = "connect"]
    /\ last' = NoResult /\ mishap' = FALSE
    /\ asked' = UNION {table[p] : p \in Proc}
    /\ UNCHANGED <<daemonVars, app, control, stranger, faults>>

Request == [op |-> call.op, id |-> call.id, call |-> call.n]

\* Slip: a failed census is an empty one.
AssumedDead(result) == IF app = "new" THEN "reply" ELSE result
Unknown(result) == result

\* The call ends in an error, and the connection it used is dropped.
Fails ==
    /\ Finishes(Unknown("failed"), call.n, {})
    /\ control' = "none"
    /\ Drops({call.on} \ {"none"})

Reconnects ==
    /\ Moves("connect", "none") /\ control' = "none"
    /\ Drops({call.on}) /\ UNCHANGED <<app, last>>

\* Round trip, first half. A daemon that has closed its end cannot be written to: the
\* request never left, and a connection that was kept gives way to a new one.
Send ==
    /\ call.at \in {"send", "fresh"}
    /\ \/ /\ thread[call.on] # "closed"
          /\ in' = [in EXCEPT ![call.on] = Append(@, Request)]
          /\ Moves("answer", call.on)
          /\ UNCHANGED <<place, thread, server, job, out, far, app, control, last>>
          /\ QuietDaemon
       \/ thread[call.on] = "closed" /\ call.at = "send" /\ Reconnects
       \/ thread[call.on] = "closed" /\ call.at = "fresh" /\ Fails
    /\ UNCHANGED <<asked, mishap, stranger, faults>>

\* Second half: the reply, and the connection is kept for the next call.
Heard ==
    /\ call.at = "answer" /\ out[call.on] # <<>>
    /\ LET r == Head(out[call.on])
       IN  Finishes("reply", r.call, r.ids)
    /\ control' = call.on
    /\ out' = [out EXCEPT ![call.on] = Tail(@)]
    /\ UNCHANGED <<place, thread, server, job, in, far, asked, mishap, stranger, faults>>
    /\ QuietDaemon

Fault == faults < MaxFaults /\ faults' = faults + 1

NoDeadline(c) == FALSE              \* slip: a reply has no deadline

\* REPLY_TIMEOUT: the daemon waits for a shell, or is slow for once.
TimesOut(c) ==
    /\ out[c] = <<>> /\ thread[c] # "closed"
    /\ IF thread[c] = "reap" THEN UNCHANGED faults ELSE Fault

\* No line comes: the daemon hung up, or is too slow.
Silence(c) ==
    \/ out[c] = <<>> /\ thread[c] = "closed" /\ UNCHANGED <<mishap, faults>>
    \/ TimesOut(c) /\ mishap' = TRUE

\* Slips: the request is sent again; the connection is kept.
Resends == IF control = "none" THEN Fails ELSE Reconnects
Keeps   == Finishes("failed", call.n, {}) /\ control' = call.on /\ UNCHANGED daemonVars

\* Sent and not answered, it may have taken effect, so it is not sent again.
GivesUp == Fails

Unanswered ==
    /\ call.at = "answer" /\ Silence(call.on) /\ GivesUp
    /\ UNCHANGED <<asked, stranger>>

-----------------------------------------------------------------------------
(* A connection, and a daemon if there is none *)

Reached == socket \in Proc

Dial ==
    /\ call.at \in {"connect", "poll"} /\ Reached /\ FreeConn # {}
    /\ Dials(Slot, socket, <<Hello>>)
    /\ Moves(IF call.at = "poll" THEN "poll ack" ELSE "ack", Slot)
    /\ stranger' = stranger \ {Slot}
    /\ UNCHANGED <<app, control, last, asked, mishap, faults>>

\* Nobody listens: to the census that is an answer, to a call a reason to start one.
NotRunning ==
    /\ call.at = "connect" /\ ~Reached
    /\ IF app = "new"
       THEN Finishes("reply", call.n, {})
       ELSE Moves("start", "none") /\ UNCHANGED <<app, last>>
    /\ UNCHANGED <<daemonVars, control, asked, mishap, stranger, faults>>

StartDaemon ==
    /\ call.at = "start" /\ FreeProc # {}
    /\ place' = [place EXCEPT ![CHOOSE p \in FreeProc : TRUE] = "started"]
    /\ Moves("poll", "none")
    /\ QuietDaemon /\ UNCHANGED connVars
    /\ UNCHANGED <<app, control, last, asked, mishap, stranger, faults>>

\* A process on its way up, or out, is there before START_TIMEOUT.
Unsettled ==
    \E p \in Proc : place[p] \in {"started", "locked", "cleared"} \/ monitor[p] \in {"leaving", "exit"}

DeadlinePasses ==
    /\ call.at = "poll" /\ ~Reached /\ ~Unsettled /\ Fails
    /\ UNCHANGED <<asked, mishap, stranger, faults>>

Acknowledged ==
    /\ call.at \in {"ack", "poll ack"} /\ out[call.on] # <<>>
    /\ out' = [out EXCEPT ![call.on] = Tail(@)]
    /\ Moves("fresh", call.on)
    /\ UNCHANGED <<place, thread, server, job, in, far>> /\ QuietDaemon
    /\ UNCHANGED <<app, control, last, asked, mishap, stranger, faults>>

\* Two hellos without an answer take all of START_TIMEOUT.
Unacknowledged ==
    /\ call.at \in {"ack", "poll ack"} /\ Silence(call.on)
    /\ IF call.at = "poll ack" /\ call.tries = 0
       THEN /\ call' = [call EXCEPT !.at = "poll", !.on = "none", !.tries = 1]
            /\ Drops({call.on}) /\ UNCHANGED <<app, control, last>>
       ELSE Fails
    /\ UNCHANGED <<asked, stranger>>

CallStep ==
    \/ Send \/ Heard \/ Unanswered
    \/ Dial \/ NotRunning \/ StartDaemon \/ DeadlinePasses \/ Acknowledged \/ Unacknowledged

-----------------------------------------------------------------------------
(* The world around *)

Quit ==
    /\ app # "down" /\ app' = "down"
    /\ call' = [Idle EXCEPT !.n = call.n]
    /\ last' = NoResult /\ control' = "none"
    /\ Drops(Conn \ stranger)
    /\ UNCHANGED <<asked, mishap, stranger, faults>>

\* kill -9, or a start that fails.
Dies(p) ==
    /\ Fault /\ place[p] # "off" /\ Ends(p)
    /\ mishap' = (mishap \/ call.at # "idle")
    /\ UNCHANGED <<app, control, call, last, asked, stranger>>

\* The binary is not found.
CannotStart ==
    /\ Fault /\ call.at = "start" /\ Fails
    /\ mishap' = TRUE
    /\ UNCHANGED <<asked, stranger>>

Refused(c) ==
    /\ Fault /\ (CannotAllocate(c) \/ CannotSpawn(c))
    /\ UNCHANGED <<app, control, call, last, asked, mishap, stranger>>

\* Somebody starts a daemon by hand.
Rival ==
    /\ Fault /\ FreeProc # {}
    /\ place' = [place EXCEPT ![CHOOSE p \in FreeProc : TRUE] = "started"]
    /\ QuietDaemon /\ UNCHANGED connVars
    /\ UNCHANGED <<app, control, call, last, asked, mishap, stranger>>

StrangerConnects ==
    /\ Fault /\ Reached /\ FreeConn # {}
    /\ Dials(Slot, socket, <<>>)
    /\ stranger' = stranger \cup {Slot}
    /\ UNCHANGED <<app, control, call, last, asked, mishap>>

\* The client's part in a step of a daemon's: a daemon that leaves may be missed.
Bystander ==
    /\ mishap' = (mishap \/ (call.at # "idle" /\ \E p \in Proc :
                                monitor[p] = "exit" /\ place'[p] = "off"))
    /\ UNCHANGED <<app, control, call, last, asked, stranger, faults>>

Init ==
    /\ DaemonInit
    /\ app = "new" /\ control = "none"
    /\ call = Idle /\ last = NoResult
    /\ asked = {} /\ mishap = FALSE /\ stranger = {}
    /\ faults = 0

Next ==
    \/ DaemonStep /\ Bystander
    \/ BeginCensus
    \/ Begin("open", 0) \/ Begin("look", 0)
    \/ \E i \in Id : born[i] > 0 /\ Begin("kill", i)
    \/ CallStep
    \/ Quit
    \/ CannotStart \/ Rival \/ StrangerConnects
    \/ \E p \in Proc : Dies(p)
    \/ \E c \in Conn : Refused(c)

Spec == Init /\ [][Next]_vars

\* Threads and processes run on, time passes, and the app's timers go off.  Nothing is
\* assumed of shells, of people, or of the order in which they come.  What starts, serves
\* or pumps takes boundedly many steps, so that one condition for all of it is enough.
Fairness ==
    /\ WF_vars(/\ \/ \E p \in Proc : StartStep(p)
                  \/ \E c \in Conn : ThreadStep(c)
                  \/ \E i \in Id : PumpStep(i)
               /\ Bystander)
    /\ WF_vars((\E p \in Proc : MonitorStep(p)) /\ Bystander)
    /\ SF_vars((\E p \in Proc : GracePasses(p)) /\ Bystander)
    /\ WF_vars(CallStep)

FairSpec == Spec /\ Fairness

-----------------------------------------------------------------------------
(* Properties *)

\* Type correctness; no id beyond the last is ever next.
TypeOK ==
    /\ place \in [Proc -> {"off", "started", "locked", "cleared", "bound", "serving"}]
    /\ lock \in Proc \cup {"none"} /\ socket \in Proc \cup {"none", "dead"}
    /\ ids \in Id /\ next \in [Proc -> Id]
    /\ table \in [Proc -> SUBSET Id]
    /\ monitor \in [Proc -> {"sleep", "clients", "clock", "leaving", "exit"}]
    /\ quiet \in [Proc -> BOOLEAN]
    /\ shell \in [Id -> {"none", "runs", "hup", "job", "gone", "lost"}]
    /\ pump \in [Id -> {"none", "reads", "done"}]
    /\ born \in [Id -> Nat] /\ taken \in [Call -> Nat]
    /\ thread \in [Conn -> {"closed", "queued", "counted", "hello", "control", "look", "open",
                            "spawn", "insert", "opened", "kill", "remove", "reap"}]
    /\ server \in [Conn -> Proc \cup {"none"}] /\ job \in [Conn -> Line]
    /\ in \in [Conn -> Seq(Line)] /\ out \in [Conn -> Seq(Reply)]
    /\ far \in [Conn -> {"open", "closed"}]
    /\ app \in {"new", "up", "down"} /\ control \in Conn \cup {"none"}
    /\ call.n \in 0 .. MaxCalls /\ call.on \in Conn \cup {"none"}
    /\ \A c \in Conn : thread[c] = "closed" <=> server[c] = "none"
    /\ asked \subseteq Id /\ mishap \in BOOLEAN /\ stranger \subseteq Conn

\* "a daemon killed mid-open loses an id rather than reusing one" (pty_serve.rs:351):
\* however daemons die and whoever follows them, no two shells ever have the same id.
NeverReused == \A i \in Id : born[i] <= 1

\* "whoever wins the lock is by definition the only process that could be serving the
\* socket" (pty_serve.rs:244): a daemon that serves can be reached until it is about to
\* exit, so its sessions can.
Reachable == \A p \in Proc : Serving(p) /\ monitor[p] # "exit" => socket = p

\* The daemon decides to exit only when it has no session and no client whose hello it
\* waits for or has, though it reads its counts one after the other while both change.
ExitsEmpty ==
    [][\A p \in Proc : monitor[p] = "clock" /\ monitor'[p] = "leaving" =>
         table[p] = {} /\ \A c \in Of(p) : thread[c] \in {"queued", "counted"}]_vars

\* A reply is taken for the answer of the call it answers.
AnswersMatch == last.result = "reply" => last.of = call.n

\* "resending `open` because a reply went missing would leave a shell running that nobody
\* is attached to" (daemon.rs:281): no request is carried out twice.
OnceOnly == \A n \in Call : taken[n] <= 1

\* "a daemon that was killed between two clicks should heal rather than turn into an
\* error" (daemon.rs:276): a call fails only if something died, timed out or left for
\* idleness while it ran.
Heals == last.result = "failed" => mishap

\* "unknown must never be reported as ended" (main.rs:521): what the census reports
\* has every session there was when it began, if it still is; but for those of a
\* daemon that has taken its socket away.
SurvivorsListed ==
    app = "up" /\ last.result = "reply" /\ call.n > 0 =>
      \A p \in Proc : monitor[p] # "exit" => asked \cap table[p] \subseteq last.ids

\* "an empty one must go away" (pty_serve.rs:458): once the app is gone for good and
\* every shell with it, no daemon stays: no session is left in a table, and no
\* connection that says nothing holds it up.
Deserted == app = "down" /\ \A i \in Id : shell[i] \in {"none", "gone", "lost"}
EmptyGoes == <>[]Deserted => <>[](lock = "none")

\* "a wedged daemon must cost the UI a refusal, never a freeze" (daemon.rs:37): every
\* call comes to an end, also behind a shell that ignores its hangup.
CallsEnd == []<>(call.at = "idle")

-----------------------------------------------------------------------------
(* What it implements *)

\* A request as it was asked: an open gets its id later.
Plain(l) == [l EXCEPT !.id = IF l.op = "open" THEN 0 ELSE @]

Written(c) ==
    IF in[c] # <<>> /\ Head(in[c]).op # "hello" THEN {Plain(Head(in[c]))} ELSE {}

Doing(c) ==
    IF thread[c] \in {"look", "open", "spawn", "insert", "kill", "remove"}
    THEN {Plain(job[c])} ELSE {}

\* Done, and about to say so.
Decided(c) ==
    CASE thread[c] = "opened" -> {Done(c, TRUE, {job[c].id})}
      [] thread[c] = "reap"   -> {Done(c, TRUE, {})}
      [] OTHER                -> {}

Unread(c) == {r \in {out[c][k] : k \in 1 .. Len(out[c])} : r.call # 0}

Live    == UNION {table[p] : p \in {q \in Proc : monitor[q] # "exit"}}
Doomed  == UNION {table[p] : p \in {q \in Proc : monitor[q] = "exit"}}
Used    == {i \in Id : pump[i] # "none" \/ shell[i] = "lost"}
Stage   == CASE call.at = "idle" -> "over" [] call.at = "answer" -> "asked" [] OTHER -> "new"
Sending == UNION {Written(c) : c \in Conn}
Underway == UNION {Doing(c) : c \in Conn}
Pending == UNION {Unread(c) \cup Decided(c) : c \in Conn}

Service == INSTANCE SessionService WITH
    live <- Live, doomed <- Doomed, used <- Used,
    current <- call.n, stage <- Stage, outcome <- last,
    sent <- Sending, doing <- Underway, replies <- Pending

\* The connection, the threads, the rivals for the lock and the socket they fight over
\* come to this: one request at a time, carried out once at most by one step between
\* question and answer, against one set of sessions.
ImplementsService == Service!Spec
=============================================================================
