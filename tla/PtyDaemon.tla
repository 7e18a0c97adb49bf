----------------------------- MODULE PtyDaemon ------------------------------
(***************************************************************************)
(* The PTY daemon (witnos pty-serve): the processes that want to serve the *)
(* one socket and the lock that decides between them, the allocator whose  *)
(* next id survives them on disk, the table of sessions, a thread per      *)
(* connection, a thread per session that pumps its output, and the monitor *)
(* that lets an empty daemon go.                                           *)
(*                                                                         *)
(* What a session's output is, and its viewers' data connections, are in   *)
(* PtySession.  The clients are in TerminalClient.                         *)
(***************************************************************************)
EXTENDS Integers, Sequences

CONSTANTS
    Proc,       \* slots for daemon processes
    Conn,       \* slots for control connections
    MaxId,      \* u32::MAX
    MaxCalls    \* bound on the requests clients make

ASSUME DaemonAssumption ==
    /\ MaxId \in Nat \ {0} /\ MaxCalls \in Nat
    /\ Proc # {} /\ {"none", "dead"} \cap Proc = {}

Id   == 1 .. MaxId
Call == 1 .. MaxCalls

VARIABLES
    place,      \* where each process is in its run
    lock,       \* who holds the lock on pty.lock
    socket,     \* whose listener pty.sock leads to; "dead" if its process is gone
    ids,        \* pty-ids.json
    next,       \* Daemon.next_id of each process
    table,      \* Daemon.sessions
    monitor,    \* the thread that watches for idleness
    quiet,      \* the grace has passed since the process was last touched
    shell,      \* the child of each session
    pump,       \* the thread that reads its output
    born,       \* history: how many shells were given each id
    thread,     \* the thread that serves each connection
    server,     \* the process it is of, "none" once that has closed it
    job,        \* the request it is at, and the id it has for it
    in, out,    \* the lines waiting at the daemon's and at the client's end
    far,        \* the client's end
    taken       \* history: how often each request was taken up

procVars    == <<place, lock, socket, ids, next, monitor>>
sessionVars == <<shell, pump, born>>
connVars    == <<thread, server, job, in, out, far>>
daemonVars  == <<procVars, table, quiet, sessionVars, connVars, taken>>

Line  == [op : {"hello", "open", "kill", "look"}, id : Id \cup {0}, call : 0 .. MaxCalls]
Reply == [ok : BOOLEAN, ids : SUBSET Id, call : 0 .. MaxCalls]

Hello == [op |-> "hello", id |-> 0, call |-> 0]
NoJob == Hello

Serving(p)   == place[p] = "serving"
Listening(p) == place[p] \in {"bound", "serving"}

Untouched(p) == quiet                       \* slip: the idle clock is not reset
Touched(p)   == [quiet EXCEPT ![p] = FALSE]   \* Daemon::touch

Of(p) == {c \in Conn : server[c] = p}

\* Daemon.clients: a connection counts from its thread's first instruction on.
Counted(p) == {c \in Of(p) : thread[c] # "queued"}

-----------------------------------------------------------------------------
(* A process starts *)

IgnoringLock(p) == TRUE         \* slip: whoever comes may serve
MayLock(p) == lock = "none"

\* The process ends, by itself or not, and what it holds goes with it: the lock,
\* its ends of the connections, its ends of the PTYs.
Ends(p) ==
    /\ place' = [place EXCEPT ![p] = "off"]
    /\ lock' = IF lock = p THEN "none" ELSE lock
    /\ socket' = IF socket = p THEN "dead" ELSE socket
    /\ monitor' = [monitor EXCEPT ![p] = "sleep"]
    /\ quiet' = [quiet EXCEPT ![p] = FALSE]
    /\ table' = [table EXCEPT ![p] = {}]
    /\ next' = [next EXCEPT ![p] = 1]
    /\ shell' = [i \in Id |-> IF Serving(p) /\ shell[i] # "none" THEN "lost" ELSE shell[i]]
    /\ pump' = [i \in Id |-> IF Serving(p) THEN "none" ELSE pump[i]]
    /\ thread' = [c \in Conn |-> IF c \in Of(p) THEN "closed" ELSE thread[c]]
    /\ server' = [c \in Conn |-> IF c \in Of(p) THEN "none" ELSE server[c]]
    /\ job' = [c \in Conn |-> IF c \in Of(p) THEN NoJob ELSE job[c]]
    /\ in' = [c \in Conn |-> IF c \in Of(p) THEN <<>> ELSE in[c]]
    /\ UNCHANGED <<ids, born, out, far, taken>>

\* One that finds the lock taken has nothing to do.
TakeLock(p) ==
    /\ place[p] = "started"
    /\ \/ /\ MayLock(p)
          /\ place' = [place EXCEPT ![p] = "locked"] /\ lock' = p
          /\ UNCHANGED <<socket, ids, next, monitor, table, quiet, sessionVars, connVars, taken>>
       \/ ~MayLock(p) /\ Ends(p)

LeftLying == socket        \* slip: what a killed daemon left stays
Removed == "none"

RemoveStale(p) ==
    /\ place[p] = "locked"
    /\ place' = [place EXCEPT ![p] = "cleared"]
    /\ socket' = Removed
    /\ UNCHANGED <<lock, ids, next, monitor, table, quiet, sessionVars, connVars, taken>>

\* A path that is there cannot be bound.
Bind(p) ==
    /\ place[p] = "cleared"
    /\ IF socket = "none"
       THEN /\ place' = [place EXCEPT ![p] = "bound"]
            /\ socket' = p
            /\ UNCHANGED <<lock, ids, next, monitor, table, quiet, sessionVars, connVars, taken>>
       ELSE Ends(p)

\* Daemon::new; from now on the monitor runs and connections are accepted.
Load(p) ==
    /\ place[p] = "bound"
    /\ place' = [place EXCEPT ![p] = "serving"]
    /\ next' = [next EXCEPT ![p] = ids]
    /\ UNCHANGED <<lock, socket, ids, monitor, table, quiet, sessionVars, connVars, taken>>

StartStep(p) == TakeLock(p) \/ RemoveStale(p) \/ Bind(p) \/ Load(p)

-----------------------------------------------------------------------------
(* Idle exit *)

MonitorMoves(p, from, to) ==
    /\ Serving(p) /\ monitor[p] = from
    /\ monitor' = [monitor EXCEPT ![p] = to]
    /\ UNCHANGED <<place, lock, ids, next, table, sessionVars, connVars, taken>>

\* The counts are read one after the other; if one is not 0 that is a touch.
LookAtSessions(p) ==
    \/ table[p] = {} /\ MonitorMoves(p, "sleep", "clients") /\ UNCHANGED <<socket, quiet>>
    \/ /\ table[p] # {} /\ MonitorMoves(p, "sleep", "sleep")
       /\ quiet' = Touched(p) /\ UNCHANGED socket

LookAtClients(p) ==
    \/ /\ Counted(p) = {} /\ MonitorMoves(p, "clients", "clock")
       /\ UNCHANGED <<socket, quiet>>
    \/ /\ Counted(p) # {} /\ MonitorMoves(p, "clients", "sleep")
       /\ quiet' = Touched(p) /\ UNCHANGED socket

LookAtClock(p) ==
    /\ MonitorMoves(p, "clock", IF quiet[p] THEN "leaving" ELSE "sleep")
    /\ UNCHANGED <<socket, quiet>>

RemoveSocket(p) ==
    /\ MonitorMoves(p, "leaving", "exit")
    /\ socket' = "none" /\ UNCHANGED quiet

IdleExit(p) == Serving(p) /\ monitor[p] = "exit" /\ Ends(p)

\* Many rounds go by in a grace: it passes between two of them, and not while there
\* is something each of them is touched for.
GracePasses(p) ==
    /\ Serving(p) /\ monitor[p] = "sleep" /\ ~quiet[p]
    /\ table[p] = {} /\ Counted(p) = {}
    /\ quiet' = [quiet EXCEPT ![p] = TRUE]
    /\ UNCHANGED <<procVars, table, sessionVars, connVars, taken>>

MonitorStep(p) == LookAtSessions(p) \/ LookAtClients(p) \/ LookAtClock(p) \/ RemoveSocket(p)
                    \/ IdleExit(p)

-----------------------------------------------------------------------------
(* A connection's thread *)

Goes(c, from, to) ==
    /\ thread[c] = from
    /\ thread' = [thread EXCEPT ![c] = to]
    /\ UNCHANGED <<procVars, server, far>>

Accept(c) ==
    /\ Goes(c, "queued", "counted")
    /\ Serving(server[c])
    /\ UNCHANGED <<table, quiet, sessionVars, job, in, out, taken>>

Greet(c) ==
    /\ Goes(c, "counted", "hello")
    /\ quiet' = Touched(server[c])
    /\ UNCHANGED <<table, sessionVars, job, in, out, taken>>

\* The socket is closed; and the drop of ClientGuard.
Closes(c, from) ==
    /\ thread[c] = from
    /\ thread' = [thread EXCEPT ![c] = "closed"]
    /\ server' = [server EXCEPT ![c] = "none"]
    /\ quiet' = Touched(server[c])
    /\ job' = [job EXCEPT ![c] = NoJob]
    /\ in' = [in EXCEPT ![c] = <<>>]
    /\ UNCHANGED <<procVars, far, table, sessionVars, taken>>

\* A line back, unless the client's end is closed: that ends the connection.
Answers(c, from, r) ==
    \/ /\ far[c] = "open" /\ Goes(c, from, "control")
       /\ out' = [out EXCEPT ![c] = Append(@, r)]
       /\ quiet' = Touched(server[c])
       /\ job' = [job EXCEPT ![c] = NoJob]
       /\ UNCHANGED <<table, in, sessionVars, taken>>
    \/ far[c] = "closed" /\ Closes(c, from) /\ UNCHANGED out

Acked(c) ==
    /\ in[c] # <<>>
    /\ \/ /\ far[c] = "open" /\ Goes(c, "hello", "control")
          /\ out' = [out EXCEPT ![c] = Append(@, [ok |-> TRUE, ids |-> {}, call |-> 0])]
          /\ in' = [in EXCEPT ![c] = Tail(@)]
          /\ UNCHANGED <<table, quiet, sessionVars, job, taken>>
       \/ far[c] = "closed" /\ Closes(c, "hello") /\ UNCHANGED out

NeverTimesOut(c) == FALSE       \* slip: the hello has no deadline
HelloTimesOut(c) == in[c] = <<>>

\* A client that says nothing, or nothing more, is let go.
NoHello(c) ==
    /\ HelloTimesOut(c) \/ (in[c] = <<>> /\ far[c] = "closed")
    /\ Closes(c, "hello") /\ UNCHANGED out

EndOfLines(c) ==
    /\ in[c] = <<>> /\ far[c] = "closed"
    /\ Closes(c, "control") /\ UNCHANGED out

TakeRequest(c) ==
    /\ in[c] # <<>>
    /\ LET line == Head(in[c])
       IN  /\ Goes(c, "control", line.op)
           /\ job' = [job EXCEPT ![c] = line]
           /\ taken' = [taken EXCEPT ![line.call] = @ + 1]
    /\ in' = [in EXCEPT ![c] = Tail(@)]
    /\ UNCHANGED <<table, quiet, sessionVars, out>>

Done(c, ok, list) == [ok |-> ok, ids |-> list, call |-> job[c].call]

\* `list`.  (`resize` and `foreground`, which change nothing kept here but the idle
\* clock, are left out.)
Look(c) ==
    thread[c] = "look" /\ Answers(c, "look", Done(c, TRUE, table[server[c]]))

-----------------------------------------------------------------------------
(* Opening a session *)

LastGiven(p) == next[p]       \* slip: the id handed out, and not the one that follows

\* What is on disk when an id is handed out: the one that follows.
Persisted(p) == next[p] + 1

Unchecked(p) == TRUE          \* slip: no overflow check
HasIds(p) == next[p] < MaxId

\* Daemon::alloc_id, under the lock of next_id.
Allocate(c) ==
    LET p == server[c]
    IN  \/ /\ thread[c] = "open" /\ HasIds(p)
           /\ ids' = Persisted(p)
           /\ next' = [next EXCEPT ![p] = @ + 1]
           /\ job' = [job EXCEPT ![c].id = next[p]]
           /\ thread' = [thread EXCEPT ![c] = "spawn"]
           /\ UNCHANGED <<place, lock, socket, monitor, table, quiet, sessionVars,
                           server, in, out, far, taken>>
        \/ thread[c] = "open" /\ ~HasIds(p) /\ Answers(c, "open", Done(c, FALSE, {}))

\* The file cannot be written, or then the shell not be spawned.
CannotAllocate(c) == Answers(c, "open", Done(c, FALSE, {}))
CannotSpawn(c)    == Answers(c, "spawn", Done(c, FALSE, {}))

SpawnShell(c) ==
    LET i == job[c].id
    IN  /\ Goes(c, "spawn", "insert")
        /\ shell' = [shell EXCEPT ![i] = "runs"]
        /\ born' = [born EXCEPT ![i] = @ + 1]
        /\ UNCHANGED <<table, quiet, pump, job, in, out, taken>>

\* In the table before its pump starts: a shell that dies at once is found there.
Insert(c) ==
    LET i == job[c].id
    IN  /\ Goes(c, "insert", "opened")
        /\ table' = [table EXCEPT ![server[c]] = @ \cup {i}]
        /\ quiet' = Touched(server[c])
        /\ pump' = [pump EXCEPT ![i] = "reads"]
        /\ UNCHANGED <<shell, born, job, in, out, taken>>

Opened(c) == Answers(c, "opened", Done(c, TRUE, {job[c].id}))

-----------------------------------------------------------------------------
(* The end of a session *)

\* A shell exits, having been hung up on or not; a job it left in the background
\* may hold the PTY open for longer.
ShellEnds(i) ==
    /\ \/ shell[i] \in {"runs", "hup"} /\ shell' \in {[shell EXCEPT ![i] = s] : s \in {"job", "gone"}}
       \/ shell[i] = "job" /\ shell' = [shell EXCEPT ![i] = "gone"]
    /\ UNCHANGED <<procVars, table, quiet, pump, born, connVars, taken>>

\* End-of-file, once everyone has closed the PTY, and Daemon::finish; the child
\* is dead, so reaping it does not wait.
PumpEnds(p, i) ==
    /\ Serving(p) /\ pump[i] = "reads" /\ shell[i] = "gone"
    /\ pump' = [pump EXCEPT ![i] = "done"]
    /\ table' = [table EXCEPT ![p] = @ \ {i}]
    /\ quiet' = IF i \in table[p] THEN Touched(p) ELSE quiet
    /\ UNCHANGED <<procVars, shell, born, connVars, taken>>

\* Daemon::kill: the hangup ...
HangUp(c) ==
    LET i == job[c].id
    IN  \/ /\ thread[c] = "kill" /\ i \in table[server[c]]
           /\ Goes(c, "kill", "remove")
           /\ shell' = [shell EXCEPT ![i] = IF @ = "runs" THEN "hup" ELSE @]
           /\ UNCHANGED <<table, quiet, pump, born, job, in, out, taken>>
        \/ thread[c] = "kill" /\ i \notin table[server[c]] /\ Answers(c, "kill", Done(c, FALSE, {}))

Anyway(p, i) == TRUE          \* slip: what finish returns is not looked at
Finished(p, i) == i \in table[p]

\* ... and its own finish, which the pump may have come before.
Remove(c) ==
    LET p == server[c]
        i == job[c].id
    IN  \/ /\ thread[c] = "remove" /\ Finished(p, i) /\ Goes(c, "remove", "reap")
           /\ table' = [table EXCEPT ![p] = @ \ {i}]
           /\ UNCHANGED <<quiet, sessionVars, job, in, out, taken>>
        \/ thread[c] = "remove" /\ ~Finished(p, i) /\ Answers(c, "remove", Done(c, FALSE, {}))

\* The wait is over when the shell is dead.
Reap(c) ==
    /\ thread[c] = "reap" /\ shell[job[c].id] \in {"job", "gone"}
    /\ Answers(c, "reap", Done(c, TRUE, {}))

-----------------------------------------------------------------------------
ThreadStep(c) ==
    \/ Accept(c) \/ Greet(c) \/ Acked(c) \/ NoHello(c)
    \/ TakeRequest(c) \/ EndOfLines(c) \/ Look(c)
    \/ Allocate(c) \/ SpawnShell(c) \/ Insert(c) \/ Opened(c)
    \/ HangUp(c) \/ Remove(c) \/ Reap(c)

PumpStep(i) == \E p \in Proc : PumpEnds(p, i)

DaemonStep ==
    \/ \E p \in Proc : StartStep(p) \/ MonitorStep(p) \/ GracePasses(p)
    \/ \E c \in Conn : ThreadStep(c)
    \/ \E i \in Id : PumpStep(i) \/ ShellEnds(i)

\* Nothing has run yet; or a process, any one, serves already, with one session.
DaemonInit ==
    /\ \/ /\ place = [p \in Proc |-> "off"] /\ lock = "none" /\ socket = "none"
          /\ ids = 1 /\ born = [i \in Id |-> 0]
          /\ table = [p \in Proc |-> {}]
       \/ /\ lock = (CHOOSE p \in Proc : TRUE) /\ socket = lock
          /\ place = [p \in Proc |-> IF p = lock THEN "serving" ELSE "off"]
          /\ MaxId > 1 /\ ids = 2 /\ born = [i \in Id |-> IF i = 1 THEN 1 ELSE 0]
          /\ table = [p \in Proc |-> IF p = lock THEN {1} ELSE {}]
    /\ next = [p \in Proc |-> IF p = lock THEN ids ELSE 1]
    /\ monitor = [p \in Proc |-> "sleep"] /\ quiet = [p \in Proc |-> FALSE]
    /\ shell = [i \in Id |-> IF born[i] = 1 THEN "runs" ELSE "none"]
    /\ pump = [i \in Id |-> IF born[i] = 1 THEN "reads" ELSE "none"]
    /\ thread = [c \in Conn |-> "closed"] /\ server = [c \in Conn |-> "none"]
    /\ job = [c \in Conn |-> NoJob]
    /\ in = [c \in Conn |-> <<>>] /\ out = [c \in Conn |-> <<>>]
    /\ far = [c \in Conn |-> "closed"]
    /\ taken = [n \in Call |-> 0]
=============================================================================
