------------------------------- MODULE Hooks --------------------------------
(***************************************************************************)
(* The hooks of the agents' sessions over the armed marker of Marker.      *)
(*                                                                         *)
(* A hook is a short-lived process: it reads the marker, and what it does  *)
(* next rests on what it read, though the marker, the goals and the core   *)
(* may have changed by the time it acts.  The UserPromptSubmit hook finds  *)
(* or makes the session's goal and notes in instructed.json that the agent *)
(* has been told of it; the Stop hook asks the gate.  One hook of a        *)
(* session runs at a time.                                                 *)
(***************************************************************************)
EXTENDS Marker

CONSTANT Inside   \* the sessions that run in Witnos's own terminals

ASSUME HooksAssumption == Inside \subseteq Session

VARIABLES
    instructed,  \* instructed.json: the goal each session was told of, 0 for none
    hook         \* the hook each session is running

vars == <<markerVars, instructed, hook>>

Book == [Session -> Goal \cup {0}]

NoHook == [step |-> "none", goal |-> 0, book |-> [s \in Session |-> 0]]

Readied(s, step, g, book) ==
    hook' = [hook EXCEPT ![s] = [step |-> step, goal |-> g, book |-> book]]

Done(s) == hook' = [hook EXCEPT ![s] = NoHook]

\* The marker answers NoGoalAuto for s.
Unnamed(s) == Readable(armed) /\ armed.auto /\ Named(armed, s) = 0

-----------------------------------------------------------------------------
(* UserPromptSubmit *)

\* A session the marker names a goal for that it has not been told of is bound to
\* it; one without a goal, in an auto project and inside Witnos, asks for its own.
PromptRead(s) ==
    /\ hook[s] = NoHook /\ Readable(armed)
    /\ \/ /\ Named(armed, s) \notin {0, instructed[s]}
          /\ Readied(s, "bind", Named(armed, s), instructed)
       \/ /\ Unnamed(s) /\ s \in Inside
          /\ Readied(s, "create", 0, instructed)
    /\ UNCHANGED <<markerVars, instructed>>

\* Best effort: without the core there is no binding, and the agent is told anyway.
PromptBind(s) ==
    /\ hook[s].step = "bind"
    /\ goal' = IF core = "down" THEN goal ELSE Bound(s, hook[s].goal)
    /\ Readied(s, "note", hook[s].goal, hook[s].book)
    /\ UNCHANGED <<registered, core, handler, armed, tmp, alone, left, instructed>>

\* A goal that comes back unwatched was opted out of: the agent is told nothing.
PromptCreate(s, h, g) ==
    /\ hook[s].step = "create"
    /\ CreateAutoGoal(h, s, g)
    /\ Readied(s, "wait", IF goal'[g].watching THEN g ELSE 0, hook[s].book)
    /\ UNCHANGED <<instructed, left>>

\* The answer comes when the handler has resynced the marker.
PromptAnswered(s) ==
    /\ hook[s].step = "wait" /\ \A h \in Handler : handler[h].for # s
    /\ IF hook[s].goal = 0 THEN Done(s)
       ELSE Readied(s, "note", hook[s].goal, hook[s].book)
    /\ UNCHANGED <<markerVars, instructed>>

\* A hook without an answer, for want of a core or of patience, does nothing:
\* the next prompt tries again.
PromptGivesUp(s) ==
    /\ \/ hook[s].step = "create" /\ core = "down"
       \/ hook[s].step = "wait"
    /\ Done(s)
    /\ handler' = [h \in Handler |-> IF handler[h].for = s
                                     THEN [handler[h] EXCEPT !.for = "nobody"] ELSE handler[h]]
    /\ UNCHANGED <<storeVars, core, armed, tmp, alone, left, instructed>>

\* The whole book is written back, as it was read: another session's note in
\* between is lost.
PromptNote(s) ==
    /\ hook[s].step = "note"
    /\ instructed' = [hook[s].book EXCEPT ![s] = hook[s].goal]
    /\ Done(s)
    /\ UNCHANGED markerVars

-----------------------------------------------------------------------------
(* Stop *)

\* Does the Stop hook let s go without asking the core?  A session Witnos never
\* had anything to do with, or one that was told of a goal the marker has lost.
\* (An unreadable marker holds every session inside Witnos.)
GoesUnasked(s) == Unnamed(s) /\ (s \notin Inside \/ instructed[s] # 0)

StopRead(s) ==
    /\ hook[s] = NoHook /\ Readable(armed)
    /\ \/ /\ Named(armed, s) # 0
          /\ Readied(s, "gate", Named(armed, s), NoHook.book)
       \/ /\ Unnamed(s) /\ ~GoesUnasked(s)
          /\ Readied(s, "ask", 0, NoHook.book)
    /\ UNCHANGED <<markerVars, instructed>>

\* The gate by goal id binds the session, whether or not the goal is watched.
StopGate(s) ==
    /\ hook[s].step = "gate"
    /\ goal' = IF core = "down" THEN goal ELSE Bound(s, hook[s].goal)
    /\ Done(s)
    /\ UNCHANGED <<registered, core, handler, armed, tmp, alone, left, instructed>>

\* find_session_goal: the goal the session owns before any it is bound to.
GoalsOf(s) == IF Owned(s) # {} THEN Owned(s) ELSE {g \in Goal : Kept(g) /\ s \in goal[g].bound}

\* The gate by session.  A watched goal the marker did not name: the marker is
\* stale, and is healed.  An unwatched one: the human opted out, release.  None
\* at all, or no core: block.
StopAsk(s, h) ==
    /\ hook[s].step = "ask"
    /\ \/ /\ \E g \in GoalsOf(s) : goal[g].watching
          /\ Begin(h, "registry", "nobody")
          /\ UNCHANGED <<storeVars, left>>
       \/ /\ \/ GoalsOf(s) = {} \/ core = "down"
             \/ \E g \in GoalsOf(s) : ~goal[g].watching
          /\ UNCHANGED markerVars
    /\ Done(s)
    /\ UNCHANGED instructed

-----------------------------------------------------------------------------
(* SessionEnd *)

AnyEntry(s) == Named(armed, s)   \* slip: the default goal, too

\* Only an entry of its own: the default goal is other sessions', too.
OwnEntry(s) == armed.entry[s]

EndRead(s) ==
    /\ hook[s] = NoHook /\ Readable(armed) /\ OwnEntry(s) # 0
    /\ Readied(s, "end", OwnEntry(s), NoHook.book)
    /\ UNCHANGED <<markerVars, instructed>>

\* The core, if there is one, ends the turn of the goal's contract (EndTurn there).
EndTold(s) ==
    /\ hook[s].step = "end" /\ Done(s)
    /\ UNCHANGED <<markerVars, instructed>>

-----------------------------------------------------------------------------
Init ==
    /\ MarkerInit
    /\ instructed = [s \in Session |-> 0]
    /\ hook = [s \in Session |-> NoHook]

HookStep(s) ==
    \/ PromptBind(s) \/ PromptAnswered(s) \/ PromptNote(s) \/ StopGate(s) \/ EndTold(s)
    \/ \E h \in Http : StopAsk(s, h)

Creates(s) == \E h \in Http, g \in Goal : PromptCreate(s, h, g)

Serve(h) == HandlerStep(h) /\ UNCHANGED <<left, instructed, hook>>

\* A hook whose request dies with the core has no answer.
Crash ==
    /\ End
    /\ hook' = [s \in Session |-> IF \E h \in Handler : handler[h].for = s
                                  THEN NoHook ELSE hook[s]]
    /\ UNCHANGED instructed

Next ==
    \/ Event /\ UNCHANGED <<instructed, hook>>
    \/ Start /\ UNCHANGED <<instructed, hook>>
    \/ Crash
    \/ \E h \in Handler : Serve(h)
    \/ \E s \in Session :
         \/ PromptRead(s) \/ PromptGivesUp(s) \/ StopRead(s) \/ EndRead(s)
         \/ Creates(s) \/ HookStep(s)

Spec == Init /\ [][Next]_vars

\* The core's handlers and the hooks run to their end, the core never stops taking
\* requests, and the human keeps talking to every session inside Witnos.
Fairness ==
    /\ \A h \in Handler : WF_vars(Serve(h))
    /\ \A s \in Session : WF_vars(HookStep(s)) /\ SF_vars(Creates(s))
    /\ \A s \in Inside : SF_vars(PromptRead(s))

FairSpec == Spec /\ Fairness

-----------------------------------------------------------------------------
(* Invariants *)

GoalState == [is : {"unused", "kept", "deleted"}, watching : BOOLEAN,
              owner : Session \cup {"nobody"}, bound : SUBSET Session]

Content == [is : {"absent", "empty", "garbled", "marker"}, auto : BOOLEAN,
            default : Goal \cup {0}, entry : Book]

HandlerState ==
    [step : {"idle", "list", "unwatch", "registry", "goals", "remove", "open", "fill",
             "rename"},
     auto : BOOLEAN, new : Content, file : {"none", "tmp", "armed", "gone"},
     todo : SUBSET Goal, for : Session \cup {"nobody"}]

HookState == [step : {"none", "bind", "create", "wait", "note", "gate", "ask", "end"},
              goal : Goal \cup {0}, book : Book]

\* Every variable stays in its domain, only a kept goal is watched (delete_goal takes
\* the goal with its watching, set_watch fails on a goal that is gone), and a core
\* that is down serves nothing.
TypeOK ==
    /\ registered \in BOOLEAN /\ alone \in BOOLEAN /\ left \in 0 .. MaxEvents
    /\ goal \in [Goal -> GoalState]
    /\ core \in {"up", "stopping", "down"}
    /\ handler \in [Handler -> HandlerState]
    /\ armed \in Content /\ tmp \in Content
    /\ instructed \in Book
    /\ hook \in [Session -> HookState]
    /\ \A g \in Goal : goal[g].watching => Kept(g)
    /\ core = "down" => Quiet

OwnGoal(s, g) == \/ g = 0
                 \/ goal[g].is = "deleted"
                 \/ Kept(g) /\ goal[g].owner \in {s, "nobody"}

OwnMarker(text) == \A s \in Session : OwnGoal(s, Named(text, s))

OwnTexts ==
    /\ OwnMarker(armed) /\ OwnMarker(tmp)
    /\ \A h \in Handler : OwnMarker(handler[h].new)

OwnHooks ==
    \A s \in Session : /\ OwnGoal(s, instructed[s]) /\ OwnGoal(s, hook[s].goal)
                       /\ \A o \in Session : OwnGoal(s, hook[o].book[s])

OwnBound    == \A g \in Goal : \A s \in goal[g].bound : OwnGoal(s, g)
OneGoalEach == \A s \in Session : \A g, k \in Owned(s) : g = k

\* Goal identity never crosses sessions, however stale a marker a hook reads:
\* no marker on disk, in a temporary file or in a handler's hands names for a
\* session a goal another session owns; nobody is bound to, told of or about to
\* be held to one, in the book or in a hook's copy of it; and a session never
\* owns two goals.
OwnGoals == OwnTexts /\ OwnHooks /\ OwnBound /\ OneGoalEach

\* The marker is what compute makes of the registry and the store, up to a
\* binding to a manual goal, whenever the core is up with nothing in hand, unless
\* two requests have overlapped, the core died over one, or somebody disarmed.
Mirrors(text, truth) ==
    /\ text.is = truth.is /\ text.auto = truth.auto /\ text.default = truth.default
    /\ \A s \in Session :
         \/ text.entry[s] = truth.entry[s]
         \/ truth.entry[s] # 0 /\ goal[truth.entry[s]].owner = "nobody"

Derived ==
    (core = "up" /\ Quiet /\ alone) => Mirrors(armed, Compute(registered, goal))

\* A session's watched goal is not lost: whenever the marker can be relied on as above,
\* it holds every session to the goal it owns, and names some goal for one that was told
\* of a goal which is still watched.  Then, and only then, a session that was told of a
\* goal and goes unasked (hook_stop.rs:114) goes with the human's leave.
NamedWhileWatched ==
    (core = "up" /\ Quiet /\ alone) =>
      \A s \in Session, g \in Watched(goal) :
        goal[g].owner = s \/ instructed[s] = g =>
          /\ Readable(armed) /\ Named(armed, s) # 0
          /\ goal[g].owner = s => Named(armed, s) = g

\* The default goal is other sessions', too: "one session ending says nothing about it"
\* (hook_session_end.rs:45-47).  The turn a SessionEnd hook is about to end is that of a
\* goal its session is bound to, however stale the marker it read, or of one that is gone.
EndsOwnTurn ==
    \A s \in Session : hook[s].step = "end" =>
      goal[hook[s].goal].is = "deleted" \/ s \in goal[hook[s].goal].bound

-----------------------------------------------------------------------------
(* Liveness *)

\* A session never stays without its goal.  However often stale markers take its
\* entry away, as long as the core runs and the directory stays armed in auto
\* mode, its prompts bring the entry back, unless the human took the goal away.
OptedOut(s) == \E g \in Owned(s) : ~goal[g].watching

ArmedFor(s) == core = "up" /\ Readable(armed) /\ armed.auto /\ Owned(s) \cup Newer # {}

EntryComesBack ==
    \A s \in Inside :
      <>[]ArmedFor(s) => []<>(Named(armed, s) # 0 \/ OptedOut(s))

-----------------------------------------------------------------------------
(* A claim of the repository that the code does not keep *)

\* hook_stop.rs:105-108: a marker "can only have lost the entry because a human
\* deleted that goal or stopped watching it"; so the Stop hook lets the session go
\* without asking the core.
LostEntryMeansOptOut ==
    \A s \in Inside : GoesUnasked(s) => ~goal[instructed[s]].watching
=============================================================================
