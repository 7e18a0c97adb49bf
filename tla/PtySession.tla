----------------------------- MODULE PtySession -----------------------------
(***************************************************************************)
(* One detached terminal session of the PTY daemon: a thread that pumps    *)
(* the shell's output into a bounded ring and into the backlog of every    *)
(* attached viewer, a writer thread per viewer that sends the replay and   *)
(* then the backlog, the thread that serves the viewer's connection, and   *)
(* the end of the session, by end-of-file or by kill.                      *)
(*                                                                         *)
(* Output is counted, not stored: byte n is the n-th the shell printed, a  *)
(* chunk is a run of them, and the model follows which run is where.       *)
(***************************************************************************)
EXTENDS Integers, SequencesExt

CONSTANTS
    Viewer,      \* data connections that ask for this session
    Killer,      \* kill requests for it
    RingBytes,   \* RING_BYTES
    Cap,         \* CLIENT_BACKLOG_BYTES
    MaxRead,     \* what one read returns at most
    MaxBytes     \* bound on what the shell prints

ASSUME PtyAssumption ==
    /\ {RingBytes, Cap, MaxRead} \subseteq Nat \ {0} /\ MaxBytes \in Nat
    /\ MaxRead <= RingBytes
    /\ "pump" \notin Killer

Finisher == Killer \cup {"pump"}   \* the threads that call Daemon::finish

VARIABLES
    newline,     \* which bytes of all the shell will print are newlines
    held,        \* some process still has the shell's side of the PTY open
    registered,  \* the session is in the daemon's table
    finisher,    \* each finishing thread: where it is
    read,        \* bytes pushed so far
    oldest,      \* the first byte the ring still has
    listeners,   \* Out.listeners
    backlog,     \* each viewer's Backlog
    serving,     \* the thread of each viewer's connection
    writer,      \* its writer thread
    hand,        \* the replay or chunk the writer is to send
    got,         \* the bytes put on the viewer's socket, in order
    away,        \* "here", "left" (closed its end), or "refused" (the PTY took no more input)
    run,         \* history: the bytes each viewer is to see
    down         \* the socket has been shut down

pumpVars   == <<newline, held, registered, finisher, read, oldest>>
viewerVars == <<serving, writer, hand, got, away, run, down>>
vars == <<pumpVars, listeners, backlog, viewerVars>>

Chunk == [from : Nat, to : Nat]    \* empty when to = from - 1
Size(c)  == c.to + 1 - c.from
Bytes(c) == [k \in 1 .. Size(c) |-> c.from + k - 1]

NoChunk    == [from |-> 1, to |-> 0]
NewBacklog == [chunks |-> <<>>, bytes |-> 0, closed |-> FALSE]

\* Writers waiting on the condition variable of one of these backlogs wake up.
Notified(vs) ==
    [v \in Viewer |-> IF v \in vs /\ writer[v] = "wait" THEN "take" ELSE writer[v]]

Silently(vs) == writer         \* slip: nobody is told
OnPush(vs)   == Notified(vs)
OnClose(vs)  == Notified(vs)

-----------------------------------------------------------------------------
(* Output *)

Overflows(b, c) == b.bytes + Size(c) > Cap

\* Slip: past its cap the viewer misses the chunk, but is kept.
PushedSkipping(b, c) ==
    IF b.closed \/ Overflows(b, c) THEN b
    ELSE [b EXCEPT !.chunks = Append(@, c), !.bytes = @ + Size(c)]

\* Backlog::push: past its cap a viewer is finished with.
Pushed(b, c) ==
    IF b.closed THEN b
    ELSE IF Overflows(b, c) THEN [b EXCEPT !.closed = TRUE]
    ELSE [b EXCEPT !.chunks = Append(@, c), !.bytes = @ + Size(c)]

Uncut(n) == oldest     \* slip: the ring is never cut

\* Ring::push: the oldest byte left, once byte n is in.
Evicted(n) == IF n + 1 - oldest > RingBytes THEN n + 1 - RingBytes ELSE oldest

Read(n) ==
    /\ finisher["pump"] = "idle"
    /\ read + n <= MaxBytes
    /\ read' = read + n
    /\ oldest' = Evicted(read + n)
    /\ LET c == [from |-> read + 1, to |-> read + n]
       IN  backlog' = [v \in Viewer |-> IF v \in listeners THEN Pushed(backlog[v], c)
                                        ELSE backlog[v]]
    /\ listeners' = {v \in listeners : ~backlog'[v].closed}
    /\ writer' = OnPush({v \in listeners : ~backlog[v].closed})
    /\ run' = [v \in Viewer |-> IF v \in listeners' THEN [run[v] EXCEPT !.to = read + n]
                                ELSE run[v]]
    /\ UNCHANGED <<newline, held, registered, finisher, serving, hand, got, away, down>>

-----------------------------------------------------------------------------
(* The end of the session *)

\* The shell, and whatever it left running, is gone: by itself, or hung up.
Exit ==
    /\ held /\ held' = FALSE
    /\ UNCHANGED <<newline, registered, finisher, read, oldest, listeners, backlog, viewerVars>>

Step(f, at, to) ==
    /\ finisher[f] = at
    /\ finisher' = [finisher EXCEPT ![f] = to]

\* End-of-file: only when every process has closed its side.
Eof ==
    /\ ~held
    /\ Step("pump", "idle", "unregister")
    /\ UNCHANGED <<newline, held, registered, read, oldest, listeners, backlog, viewerVars>>

\* A kill finds the session and hangs up on its processes; a job in the
\* background may keep the PTY open all the same.
Kill(k) ==
    /\ registered
    /\ Step(k, "idle", "unregister")
    /\ UNCHANGED <<newline, held, registered, read, oldest, listeners, backlog, viewerVars>>

\* Daemon::finish: whoever takes the session out of the table closes it.
Unregister(f) ==
    /\ Step(f, "unregister", IF registered THEN "close" ELSE "done")
    /\ registered' = FALSE
    /\ UNCHANGED <<newline, held, read, oldest, listeners, backlog, viewerVars>>

CloseAll(f) ==
    /\ Step(f, "close", "done")
    /\ backlog' = [v \in Viewer |-> IF v \in listeners THEN [backlog[v] EXCEPT !.closed = TRUE]
                                    ELSE backlog[v]]
    /\ listeners' = {}
    /\ writer' = OnClose(listeners)
    /\ UNCHANGED <<newline, held, registered, read, oldest, serving, hand, got, away, run, down>>

-----------------------------------------------------------------------------
(* A viewer's connection *)

Find(v) ==
    /\ serving[v] = "away"
    /\ registered
    /\ serving' = [serving EXCEPT ![v] = "found"]
    /\ UNCHANGED <<pumpVars, listeners, backlog, writer, hand, got, away, run, down>>

\* Ring::snapshot: a ring that has lost its beginning is replayed from after its
\* first newline.
Snapshot ==
    LET breaks == newline \cap (oldest .. read)
    IN  [from |-> IF oldest > 1 /\ breaks # {} THEN Min(breaks) + 1 ELSE oldest,
         to   |-> read]

\* Out::attach, under the lock that Read holds.
Attach(v) ==
    /\ serving[v] = "found"
    /\ serving' = [serving EXCEPT ![v] = "ack"]
    /\ hand' = [hand EXCEPT ![v] = Snapshot]
    /\ run' = [run EXCEPT ![v] = Snapshot]
    /\ listeners' = listeners \cup {v}
    /\ UNCHANGED <<pumpVars, backlog, writer, got, away, down>>

Ack(v) ==
    /\ serving[v] = "ack"
    /\ IF away[v] = "left"
       THEN /\ serving' = [serving EXCEPT ![v] = "unlist"]
            /\ backlog' = [backlog EXCEPT ![v].closed = TRUE]
            /\ UNCHANGED writer
       ELSE /\ serving' = [serving EXCEPT ![v] = "input"]
            /\ writer' = [writer EXCEPT ![v] = "send"]
            /\ UNCHANGED backlog
    /\ UNCHANGED <<pumpVars, listeners, hand, got, away, run, down>>

\* The writer sends what it has in hand, to a viewer that is still there.
Send(v) ==
    /\ writer[v] = "send"
    /\ IF away[v] = "left" \/ down[v]
       THEN writer' = [writer EXCEPT ![v] = "shut"] /\ UNCHANGED got
       ELSE /\ writer' = [writer EXCEPT ![v] = "take"]
            /\ got' = [got EXCEPT ![v] = @ \o Bytes(hand[v])]
    /\ hand' = [hand EXCEPT ![v] = NoChunk]
    /\ UNCHANGED <<pumpVars, listeners, backlog, serving, away, run, down>>

Taken(b) == [b EXCEPT !.chunks = Tail(@), !.bytes = @ - Size(Head(b.chunks))]

\* Backlog::next_chunk: closed ends it only once it is drained.
Take(v) ==
    /\ writer[v] = "take"
    /\ IF backlog[v].chunks # <<>>
       THEN /\ hand' = [hand EXCEPT ![v] = Head(backlog[v].chunks)]
            /\ backlog' = [backlog EXCEPT ![v] = Taken(@)]
            /\ writer' = [writer EXCEPT ![v] = "send"]
       ELSE /\ writer' = [writer EXCEPT ![v] = IF backlog[v].closed THEN "shut" ELSE "wait"]
            /\ UNCHANGED <<hand, backlog>>
    /\ UNCHANGED <<pumpVars, listeners, serving, got, away, run, down>>

Shut(v) ==
    /\ writer[v] = "shut"
    /\ writer' = [writer EXCEPT ![v] = "done"]
    /\ down' = [down EXCEPT ![v] = TRUE]
    /\ UNCHANGED <<pumpVars, listeners, backlog, serving, hand, got, away, run>>

Leave(v) ==
    /\ serving[v] # "away" /\ away[v] = "here"
    /\ away' = [away EXCEPT ![v] = "left"]
    /\ UNCHANGED <<pumpVars, listeners, backlog, serving, writer, hand, got, run, down>>

\* Out::detach, its first half.
Detach(v) ==
    /\ serving[v] = "input"
    /\ serving' = [serving EXCEPT ![v] = "unlist"]
    /\ backlog' = [backlog EXCEPT ![v].closed = TRUE]
    /\ writer' = OnClose({v})
    /\ UNCHANGED <<pumpVars, listeners, hand, got, run, down>>

\* The input loop ends: nothing more will come from the viewer ...
InputEnds(v) ==
    /\ away[v] = "left" \/ down[v]
    /\ Detach(v) /\ UNCHANGED away

\* ... or a PTY that nobody has open any more refuses what it typed.
InputRefused(v) ==
    /\ ~held /\ away[v] = "here"
    /\ Detach(v) /\ away' = [away EXCEPT ![v] = "refused"]

Unlist(v) ==
    /\ serving[v] = "unlist"
    /\ serving' = [serving EXCEPT ![v] = "shut"]
    /\ listeners' = listeners \ {v}
    /\ UNCHANGED <<pumpVars, backlog, writer, hand, got, away, run, down>>

ShutInput(v) ==
    /\ serving[v] = "shut"
    /\ serving' = [serving EXCEPT ![v] = "join"]
    /\ down' = [down EXCEPT ![v] = TRUE]
    /\ UNCHANGED <<pumpVars, listeners, backlog, writer, hand, got, away, run>>

Join(v) ==
    /\ serving[v] = "join"
    /\ writer[v] \in {"none", "done"}
    /\ serving' = [serving EXCEPT ![v] = "gone"]
    /\ UNCHANGED <<pumpVars, listeners, backlog, writer, hand, got, away, run, down>>

-----------------------------------------------------------------------------
Init ==
    /\ newline \in SUBSET (1 .. MaxBytes)
    /\ held = TRUE /\ registered = TRUE
    /\ finisher = [f \in Finisher |-> "idle"]
    /\ read = 0 /\ oldest = 1
    /\ listeners = {}
    /\ backlog = [v \in Viewer |-> NewBacklog]
    /\ serving = [v \in Viewer |-> "away"]
    /\ writer = [v \in Viewer |-> "none"]
    /\ hand = [v \in Viewer |-> NoChunk]
    /\ got = [v \in Viewer |-> <<>>]
    /\ away = [v \in Viewer |-> "here"]
    /\ run = [v \in Viewer |-> NoChunk]
    /\ down = [v \in Viewer |-> FALSE]

Output == \E n \in 1 .. MaxRead : Read(n)

Ending ==
    \/ Exit \/ Eof
    \/ \E k \in Killer : Kill(k)
    \/ \E f \in Finisher : Unregister(f) \/ CloseAll(f)

WriterStep(v) == Send(v) \/ Take(v) \/ Shut(v)

ServingStep(v) == Ack(v) \/ InputEnds(v) \/ Unlist(v) \/ ShutInput(v) \/ Join(v)

Next ==
    \/ Output
    \/ Ending
    \/ \E v \in Viewer : \/ Find(v) \/ Attach(v) \/ Leave(v) \/ InputRefused(v)
                         \/ WriterStep(v) \/ ServingStep(v)

Spec == Init /\ [][Next]_vars

\* The daemon's threads run on; a viewer that has not left goes on reading.
Fairness ==
    /\ \A f \in Finisher : WF_vars(Unregister(f) \/ CloseAll(f))
    /\ \A v \in Viewer : WF_vars(WriterStep(v)) /\ WF_vars(ServingStep(v))

FairSpec == Spec /\ Fairness

-----------------------------------------------------------------------------
(* Properties *)

\* Type correctness; and the bounds: the ring keeps at most RingBytes, a backlog
\* at most Cap, counted right.
TypeOK ==
    /\ newline \subseteq 1 .. MaxBytes
    /\ held \in BOOLEAN /\ registered \in BOOLEAN
    /\ finisher \in [Finisher -> {"idle", "unregister", "close", "done"}]
    /\ read \in 0 .. MaxBytes
    /\ oldest \in 1 .. read + 1 /\ read + 1 - oldest <= RingBytes
    /\ listeners \subseteq Viewer
    /\ \A v \in Viewer :
         /\ backlog[v].chunks \in Seq(Chunk) /\ backlog[v].closed \in BOOLEAN
         /\ backlog[v].bytes \in 0 .. Cap
         /\ backlog[v].bytes = IF backlog[v].chunks = <<>> THEN 0
                               ELSE Last(backlog[v].chunks).to + 1
                                      - Head(backlog[v].chunks).from
    /\ serving \in [Viewer -> {"away", "found", "ack", "input", "unlist", "shut", "join",
                               "gone"}]
    /\ writer \in [Viewer -> {"none", "send", "take", "wait", "shut", "done"}]
    /\ hand \in [Viewer -> Chunk] /\ run \in [Viewer -> Chunk]
    /\ got \in [Viewer -> Seq(Nat)]
    /\ away \in [Viewer -> {"here", "left", "refused"}] /\ down \in [Viewer -> BOOLEAN]

\* Every viewer sees one contiguous run of the output, seam between replay and
\* live included, up to where it is counted out: when it left, had more than Cap
\* yet to be sent, or the session was closed; and its socket is shut down only after
\* the last byte of it, unless it left.
S == INSTANCE Stream WITH
        Recent <- RingBytes, Lag <- Cap, Length <- MaxBytes,
        printed  <- read,
        over     <- ~registered /\ \A f \in Finisher : finisher[f] # "close",
        watching <- {v \in listeners : ~backlog[v].closed},
        start    <- [v \in Viewer |-> IF serving[v] \in {"away", "found"} THEN 0
                                      ELSE run[v].from],
        promised <- [v \in Viewer |-> run[v].to],
        seen     <- got,
        excused  <- {v \in Viewer : away[v] # "here"},
        ended    <- {v \in Viewer : down[v]}

ImplementsStream == S!Spec

\* No wakeup is lost: a writer asleep on its backlog has sent all its viewer is to see so
\* far, and nobody has closed it; while input is read there is a writer, and one that is
\* through has shut the socket, which ends the input; and a writer somebody is to join is
\* never asleep, for nobody would wake it any more.
NobodyWaitsInVain ==
    \A v \in Viewer :
      /\ writer[v] = "wait" =>
           run[v].from + Len(got[v]) = run[v].to + 1 /\ ~backlog[v].closed
      /\ serving[v] = "input" => writer[v] # "none" /\ (writer[v] = "done" => down[v])
      /\ serving[v] = "join" => writer[v] # "wait"

\* However the notifications of a backlog and the waits of its writer fall, a
\* viewer that stays is sent what it is to see.
BytesArrive ==
    \A v \in Viewer : \A n \in 1 .. MaxBytes :
      run[v].to >= n ~> run[v].from + Len(got[v]) > n \/ away[v] # "here"

\* A viewer that was cut off, or counted in when the session was closed, comes to the
\* end of its stream, and its threads to theirs.
StreamsEnd == \A v \in Viewer : backlog[v].closed ~> serving[v] = "gone" /\ down[v]

\* No viewer hangs: it gets all it was promised, and then the end of its stream.
SeesItThrough == BytesArrive /\ StreamsEnd
=============================================================================
