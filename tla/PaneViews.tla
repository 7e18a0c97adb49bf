----------------------------- MODULE PaneViews ------------------------------
(***************************************************************************)
(* One pane in the app: the views of it that mount and unmount, the        *)
(* commands they send to the app's main thread, the attachment the app     *)
(* holds for the pane, the thread that reads it, and what the views are    *)
(* told of the session's end.  At the daemon's end, the session and the    *)
(* connection of each attachment, reduced to whether it is still fed: what *)
(* flows through it is PtySession's.                                       *)
(*                                                                         *)
(* A view asks for one attachment, so a view stands for its token too.     *)
(***************************************************************************)
EXTENDS Sequences, Naturals

CONSTANTS
    View,           \* the views of the pane, one after the other on the screen
    MaxTimeouts     \* bound on acknowledgements that do not come in time

ASSUME ViewsAssumption == MaxTimeouts \in Nat /\ "none" \notin View

VARIABLES
    mounted,    \* the view on the screen
    asked,      \* each view: has it asked to attach, and has it been answered
    queue,      \* commands on their way to the main thread
    main,       \* the main thread: where it is, for which view, releasing which other
    pane,       \* Inner.panes: whose attachment it holds
    released,   \* attachments let go of on purpose
    reader,     \* the thread that reads each attachment
    told,       \* views that have been told that the session ended
    timeouts,
    session,    \* "live", "out" of the daemon's table, "over": its listeners closed; "lost"
    link,       \* the daemon's end of each connection
    cut,        \* backlogs that have been closed
    left        \* connections whose app end has been shut down

appVars    == <<mounted, asked, queue, main, pane, released, reader, told, timeouts>>
daemonVars == <<session, link, cut>>
vars       == <<appVars, daemonVars, left>>

Resting == [at |-> "idle", view |-> "none", old |-> "none"]

Command(what, v) == [what |-> what, view |-> v]
Comes(what) == main = Resting /\ queue # <<>> /\ Head(queue).what = what

At(what, v) == main.at = what /\ main.view = v

-----------------------------------------------------------------------------
(* The daemon's end *)

\* Removed from the table by a kill or by its own end, it still has its listeners ...
Unregister ==
    /\ session = "live" /\ session' = "out"
    /\ UNCHANGED <<appVars, link, cut, left>>

\* ... until close_all.
CloseAll ==
    /\ session = "out" /\ session' = "over"
    /\ cut' = cut \cup {v \in View : link[v] \in {"listening", "fed"}}
    /\ UNCHANGED <<appVars, link, left>>

\* A client past its cap is cut off; after a kill, too, there may be output yet.
Overflow(v) ==
    /\ link[v] \in {"listening", "fed"} /\ v \notin cut
    /\ cut' = cut \cup {v}
    /\ UNCHANGED <<appVars, session, link, left>>

LinkGoes(v, from, to) ==
    /\ link[v] = from /\ link' = [link EXCEPT ![v] = to]
    /\ UNCHANGED <<appVars, session, left>>

Find(v) == LinkGoes(v, "dialled", IF session = "live" THEN "found" ELSE "refused") /\ UNCHANGED cut
Listen(v) == LinkGoes(v, "found", "listening") /\ UNCHANGED cut

Acknowledge(v) ==
    LinkGoes(v, "listening", IF v \in left THEN "down" ELSE "fed") /\ UNCHANGED cut

\* The backlog is closed and drained, or the client gone.
ShutDown(v) ==
    /\ v \in cut \cup left
    /\ LinkGoes(v, "fed", "down") /\ cut' = cut \cup {v}

Die ==
    /\ session # "lost" /\ session' = "lost"
    /\ link' = [v \in View |-> CASE link[v] \in {"dialled", "found", "listening"} -> "refused"
                                 [] link[v] = "fed" -> "down"
                                 [] OTHER -> link[v]]
    /\ UNCHANGED <<appVars, cut, left>>

LinkStep(v) == Find(v) \/ Listen(v) \/ Acknowledge(v) \/ ShutDown(v)

-----------------------------------------------------------------------------
(* The views *)

\* Its shell is there: it asks for its output.
Mount(v) ==
    /\ mounted = "none" /\ asked[v] = "no"
    /\ mounted' = v
    /\ asked' = [asked EXCEPT ![v] = "yes"]
    /\ queue' = Append(queue, Command("attach", v))
    /\ UNCHANGED <<daemonVars, left, main, pane, released, reader, told, timeouts>>

\* A view that knows its token lets go of its attachment.
Unmount ==
    /\ mounted # "none" /\ mounted' = "none"
    /\ queue' = IF asked[mounted] = "attached" THEN Append(queue, Command("detach", mounted))
                ELSE queue
    /\ UNCHANGED <<daemonVars, left, asked, main, pane, released, reader, told, timeouts>>

JustDrops(v) == queue       \* slip: the token that comes too late is dropped
LetsGo(v) == IF mounted = v THEN queue ELSE Append(queue, Command("detach", v))

\* The answer to its attach: a token, for a view that may be gone by now ...
Answered(v) ==
    /\ asked[v] = "token"
    /\ asked' = [asked EXCEPT ![v] = "attached"]
    /\ queue' = LetsGo(v)
    /\ UNCHANGED <<daemonVars, left, mounted, main, pane, released, reader, told, timeouts>>

\* ... or an error, which the view takes for the end of its shell.
Failed(v) ==
    /\ asked[v] = "error"
    /\ asked' = [asked EXCEPT ![v] = "failed"]
    /\ told' = told \cup ({v} \cap {mounted})
    /\ UNCHANGED <<daemonVars, left, mounted, queue, main, pane, released, reader, timeouts>>

-----------------------------------------------------------------------------
(* The main thread *)

Whatever(v)  == pane # "none"      \* slip: detach does not look at the token
TokenFits(v) == pane = v

\* Terminals::detach: the attachment is taken out, if it is the one meant.
DetachBegins ==
    /\ Comes("detach")
    /\ IF TokenFits(Head(queue).view)
       THEN main' = [at |-> "release", view |-> "none", old |-> pane] /\ pane' = "none"
       ELSE UNCHANGED <<main, pane>>
    /\ queue' = Tail(queue)
    /\ UNCHANGED <<daemonVars, left, mounted, asked, released, reader, told, timeouts>>

Nobody   == "none"             \* slip: the old attachment is left alone
Replaced == pane

\* A daemon that is gone cannot be reached.
Dial(v) == link' = [link EXCEPT ![v] = IF session = "lost" THEN "refused" ELSE "dialled"]

\* Terminals::attach: whoever holds the pane is released before it connects.
AttachBegins ==
    LET v == Head(queue).view
    IN  /\ Comes("attach")
        /\ IF Replaced = "none"
           THEN main' = [at |-> "hello", view |-> v, old |-> "none"] /\ Dial(v)
           ELSE main' = [at |-> "release", view |-> v, old |-> Replaced] /\ UNCHANGED link
        /\ pane' = "none"
        /\ queue' = Tail(queue)
        /\ UNCHANGED <<session, cut, left, mounted, asked, released, reader, told, timeouts>>

AfterShutdown == "shut"        \* slip: the socket first
FlagStep == "release"

\* Attachment::release: the flag, then the socket.
Release ==
    /\ main.at \in {"release", "shut"}
    /\ IF main.at = FlagStep THEN released' = released \cup {main.old} /\ UNCHANGED left
       ELSE left' = left \cup {main.old} /\ UNCHANGED released
    /\ \/ main.at = "release" /\ main' = [main EXCEPT !.at = "shut"] /\ UNCHANGED link
       \/ main.at = "shut" /\ main.view = "none" /\ main' = Resting /\ UNCHANGED link
       \/ /\ main.at = "shut" /\ main.view # "none" /\ Dial(main.view)
          /\ main' = [at |-> "hello", view |-> main.view, old |-> "none"]
    /\ UNCHANGED <<session, cut, mounted, asked, queue, pane, reader, told, timeouts>>

\* The ack: the attachment is registered, its reader starts, the view gets its token.
AttachEnds(v) ==
    /\ At("hello", v) /\ link[v] \in {"fed", "down"}
    /\ main' = Resting
    /\ pane' = v
    /\ reader' = [reader EXCEPT ![v] = "reads"]
    /\ asked' = [asked EXCEPT ![v] = "token"]
    /\ UNCHANGED <<daemonVars, left, mounted, queue, released, told, timeouts>>

AttachFails(v) ==
    /\ At("hello", v)
    /\ main' = Resting
    /\ asked' = [asked EXCEPT ![v] = "error"]
    /\ left' = left \cup {v}
    /\ UNCHANGED <<daemonVars, mounted, queue, pane, released, reader, told>>

\* The daemon has no such session, hung up, or cannot be reached.
Refused(v) == link[v] = "refused" /\ AttachFails(v) /\ UNCHANGED timeouts

AckTimesOut(v) ==
    /\ timeouts < MaxTimeouts /\ timeouts' = timeouts + 1
    /\ link[v] \in {"dialled", "found", "listening"} /\ AttachFails(v)

MainStep ==
    \/ DetachBegins \/ AttachBegins \/ Release
    \/ \E v \in View : AttachEnds(v) \/ Refused(v)

-----------------------------------------------------------------------------
(* The reader of an attachment *)

\* End of stream, from either side; whose doing it was is in the flag.
ReaderEnds(v) ==
    /\ reader[v] = "reads" /\ (link[v] = "down" \/ v \in left)
    /\ reader' = [reader EXCEPT ![v] = IF v \in released THEN "done" ELSE "ended"]
    /\ UNCHANGED <<daemonVars, left, mounted, asked, queue, main, pane, released, told, timeouts>>

AttachedOnly(v) == mounted = v /\ asked[v] = "attached"   \* slip: not before it has its token
Hears(v)        == mounted = v

Remembers(v) == pane                                \* slip: the pane keeps its attachment
Forgets(v)   == IF pane = v THEN "none" ELSE pane

\* The pane is forgotten if it is still this attachment's, and term:exit is sent, which
\* names the pane: whichever view of it is mounted takes it.
Reports(v) ==
    /\ reader[v] = "ended"
    /\ reader' = [reader EXCEPT ![v] = "done"]
    /\ pane' = Forgets(v)
    /\ told' = told \cup {w \in View : Hears(w)}
    /\ UNCHANGED <<daemonVars, left, mounted, asked, queue, main, released, timeouts>>

-----------------------------------------------------------------------------
Init ==
    /\ mounted = "none"
    /\ asked = [v \in View |-> "no"]
    /\ queue = <<>> /\ main = Resting
    /\ pane = "none" /\ released = {}
    /\ reader = [v \in View |-> "none"]
    /\ told = {} /\ timeouts = 0
    /\ session = "live" /\ link = [v \in View |-> "none"]
    /\ cut = {} /\ left = {}

ViewStep(v)   == Answered(v) \/ Failed(v)
ReaderStep(v) == ReaderEnds(v) \/ Reports(v)

Next ==
    \/ Unregister \/ CloseAll \/ Die
    \/ Unmount \/ MainStep
    \/ \E v \in View :
         \/ LinkStep(v) \/ Overflow(v)
         \/ Mount(v) \/ ViewStep(v) \/ ReaderStep(v) \/ AckTimesOut(v)

Spec == Init /\ [][Next]_vars

\* The daemon's threads, the app's and the webview's run on.
Fairness ==
    /\ WF_vars(MainStep)
    /\ \A v \in View : WF_vars(LinkStep(v)) /\ WF_vars(ViewStep(v)) /\ WF_vars(ReaderStep(v))

FairSpec == Spec /\ Fairness

-----------------------------------------------------------------------------
(* Properties *)

\* Type correctness; and what the app holds for the pane is an attachment that is being
\* read, or whose end is about to be reported.
TypeOK ==
    /\ mounted \in View \cup {"none"}
    /\ asked \in [View -> {"no", "yes", "token", "attached", "error", "failed"}]
    /\ queue \in Seq([what : {"attach", "detach"}, view : View])
    /\ main \in [at : {"idle", "release", "shut", "hello"}, view : View \cup {"none"},
                 old : View \cup {"none"}]
    /\ pane \in View \cup {"none"} /\ (pane # "none" => reader[pane] \in {"reads", "ended"})
    /\ released \subseteq View /\ told \subseteq View
    /\ reader \in [View -> {"none", "reads", "ended", "done"}]
    /\ timeouts \in 0 .. MaxTimeouts
    /\ session \in {"live", "out", "over", "lost"}
    /\ link \in [View -> {"none", "dialled", "found", "refused", "listening", "fed", "down"}]
    /\ cut \subseteq View /\ left \subseteq View

Feeds(v) == link[v] = "fed" /\ v \notin left

\* "otherwise the same bytes could arrive down two sockets" (daemon.rs:165): the session
\* never feeds two connections of the pane.
OneFeed == \A v, w \in View : Feeds(v) /\ Feeds(w) => v = w

\* "a late ... must not be able to cut off the view that has meanwhile taken the pane
\* over" (daemon.rs:220): what the mounted view has attached stays the pane's, and is not
\* let go of, until its stream has ended.
NotCutOff ==
    \A v \in View : mounted = v /\ asked[v] \in {"token", "attached"} =>
      v \notin released /\ (pane = v \/ reader[v] = "done")

\* An end is reported "never when the app merely let go of the pane" (terminal.rs:63).
LetGoIsNotEnd == \A v \in View : reader[v] = "ended" => link[v] = "down"

\* "`Ended` only when the SESSION finished" (terminal.rs:63).
EndedMeansEnded == \A v \in View : reader[v] = "ended" => session # "live"

\* What an attachment's end is owed to: the main thread lets go of it, its socket is shut
\* or its connection closed already, or it is the pane's, and its view's detach is queued
\* or will be once the token has reached it.  Nothing streams into a view that is gone
\* without somebody about to end it.
LettingGo(v) ==
    \/ main.at \in {"release", "shut"} /\ main.old = v
    \/ v \in left \/ link[v] = "down"
    \/ /\ pane = v
       /\ \/ asked[v] = "token"
          \/ \E k \in 1 .. Len(queue) : queue[k] = Command("detach", v)

OnItsWayOut == \A v \in View : reader[v] = "reads" /\ mounted # v => LettingGo(v)

\* A view on the screen that has not been told of an end is not forgotten: its attach is
\* queued, under way or about to be answered with an error, or a thread that will report
\* the end reads its attachment.
WillHear(v) ==
    \/ \E k \in 1 .. Len(queue) : queue[k] = Command("attach", v)
    \/ main.view = v
    \/ asked[v] = "error"
    \/ reader[v] \in {"reads", "ended"} /\ v \notin released

NotForgotten == \A v \in View : mounted = v /\ v \notin told => WillHear(v)

\* Whatever races with an attach: what should end is about to, and what should be told will be.
SeenTo == OnItsWayOut /\ NotForgotten

\* "finished" (terminal.rs:63) reaches whoever looks: a view that stays on the screen is
\* told when its connection has been closed for good or come to nothing, also when that
\* happens while its attach is being answered.
Closed(v) == v \in cut \/ link[v] \in {"refused", "down"}
LearnsEnd ==
    \A v \in View : mounted = v /\ Closed(v) ~> v \in told \/ mounted # v

\* Nothing streams for ever into a view that is gone.
LetsItGo == \A v \in View : reader[v] = "reads" /\ mounted # v ~> reader[v] = "done"
=============================================================================
