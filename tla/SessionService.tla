--------------------------- MODULE SessionService ---------------------------
(***************************************************************************)
(* What the app may rely on of the daemons behind its socket, with the     *)
(* socket, the connections, the processes and their threads left out.      *)
(*                                                                         *)
(* There are sessions, by id.  The app makes one call at a time; a request *)
(* is carried out once at most, by one step between its being asked and    *)
(* its reply, or after the app gave it up, or never.  That step decides    *)
(* the reply: an open brings one session, under an id no session ever had; *)
(* a kill succeeds on a session there is; a look finds every session there *)
(* is.  A daemon may die with all it holds.  One about to leave dooms its  *)
(* sessions first: who still reaches it still sees them.                   *)
(* TerminalClient implements it.                                           *)
(***************************************************************************)
EXTENDS Naturals

CONSTANT Id

VARIABLES
    live, doomed,   \* the sessions there are; those a daemon takes with it
    used,           \* the ids sessions have had
    current,        \* the number of the app's latest call
    stage,          \* whether that is "new", "asked" or "over"
    outcome,        \* what came of it
    sent, doing,    \* requests on their way; those a daemon has taken up
    replies         \* replies decided and not yet heard

sessions    == <<live, doomed, used>>
caller      == <<current, stage, outcome>>
requests    == <<sent, doing, replies>>
serviceVars == <<sessions, caller, requests>>

NoOutcome == [result |-> "none", of |-> 0, ids |-> {}]

Ends(result, list) ==
    /\ stage' = "over"
    /\ outcome' = [result |-> result, of |-> current, ids |-> list]
    /\ UNCHANGED <<current, sessions, sent, doing>>
    /\ replies' \subseteq replies

Init ==
    /\ live \in SUBSET Id /\ doomed = {} /\ used = live
    /\ current = 0 /\ stage = "over" /\ outcome = NoOutcome
    /\ sent = {} /\ doing = {} /\ replies = {}

-----------------------------------------------------------------------------
(* The app *)

Begin ==
    /\ stage = "over" /\ stage' = "new"
    /\ current' = current + 1 /\ outcome' = NoOutcome
    /\ UNCHANGED <<sessions, requests>>

Ask(r) ==
    /\ stage = "new" /\ stage' = "asked"
    /\ r.call = current /\ sent' = sent \cup {r}
    /\ UNCHANGED <<sessions, current, outcome, doing, replies>>

Hear(r) ==
    /\ stage = "asked" /\ r \in replies /\ r.call = current
    /\ Ends("reply", r.ids)

\* Nobody to ask, so there are none.
FindNone == stage = "new" /\ live = {} /\ Ends("reply", {})

GiveUp == stage # "over" /\ Ends("failed", {})

Quit ==
    /\ stage' = "over" /\ outcome' = NoOutcome
    /\ replies' \subseteq replies
    /\ UNCHANGED <<current, sessions, sent, doing>>

-----------------------------------------------------------------------------
(* The daemons *)

TakeUp(r) ==
    /\ r \in sent /\ sent' = sent \ {r} /\ doing' = doing \cup {r}
    /\ UNCHANGED <<sessions, caller, replies>>

\* The request is carried out and the reply decided.
Does(r, ok, list) ==
    /\ r \in doing /\ doing' = doing \ {r}
    /\ replies' = replies \cup {[ok |-> ok, ids |-> list, call |-> r.call]}
    /\ UNCHANGED <<caller, sent>>

Open(r, i) ==
    /\ r.op = "open" /\ i \notin used /\ Does(r, TRUE, {i})
    /\ used' = used \cup {i}
    /\ \/ live' = live \cup {i} /\ UNCHANGED doomed
       \/ doomed' = doomed \cup {i} /\ UNCHANGED live

Kill(r) ==
    /\ r.op = "kill" /\ r.id \in live \cup doomed /\ Does(r, TRUE, {})
    /\ live' = live \ {r.id} /\ doomed' = doomed \ {r.id}
    /\ UNCHANGED used

Look(r, list) ==
    /\ r.op = "look" /\ Does(r, TRUE, list)
    /\ live \subseteq list /\ list \subseteq live \cup doomed
    /\ UNCHANGED sessions

MayRefuse(r) == r.op = "open" \/ (r.op = "kill" /\ r.id \notin live \cup doomed)

Refuse(r) == MayRefuse(r) /\ Does(r, FALSE, {}) /\ UNCHANGED sessions

\* Without effect, and nobody is left to tell: the connection closes.
Ignore(r) ==
    /\ MayRefuse(r) \/ r.op = "look"
    /\ r \in doing /\ doing' = doing \ {r}
    /\ sent' \subseteq sent
    /\ UNCHANGED <<caller, sessions, replies>>

\* A shell exits.
EndOf(i) ==
    /\ live' = live \ {i} /\ doomed' = doomed \ {i}
    /\ UNCHANGED <<used, caller, requests>>

Doom ==
    /\ live' = {} /\ doomed' = live \cup doomed
    /\ UNCHANGED <<used, caller, requests>>

Crash ==
    /\ live' = {} /\ doomed' = {}
    /\ used \subseteq used' /\ used' \subseteq Id
    /\ sent' \subseteq sent /\ doing' \subseteq doing /\ replies' \subseteq replies
    /\ UNCHANGED caller

\* A connection closes.
Lose ==
    /\ sent' \subseteq sent /\ replies' \subseteq replies
    /\ UNCHANGED <<sessions, caller, doing>>

Next ==
    \/ Begin \/ (\E r \in sent' : Ask(r)) \/ (\E r \in replies : Hear(r))
    \/ FindNone \/ GiveUp \/ Quit
    \/ \E r \in sent : TakeUp(r)
    \/ \E r \in doing, i \in Id : Open(r, i)
    \/ \E r \in doing : Kill(r) \/ Refuse(r) \/ Ignore(r)
    \/ \E r \in doing, list \in SUBSET (live \cup doomed) : Look(r, list)
    \/ \E i \in Id : EndOf(i)
    \/ Doom \/ Crash \/ Lose

Spec == Init /\ [][Next]_serviceVars
=============================================================================
