------------------------------- MODULE Marker -------------------------------
(***************************************************************************)
(* The armed marker of one project directory, <dir>/.witnos/armed.json:    *)
(* what the core derives it from (the project registry and the goals of    *)
(* the directory), and how it is written.                                  *)
(*                                                                         *)
(* The core serves requests concurrently, and the app's own commands run   *)
(* on its main thread beside them.  A request that changes something a     *)
(* hook should see ends in resync_dir: it reads the registry, then the     *)
(* goals, each under a lock of its own, derives a marker and publishes it  *)
(* by writing armed.json.tmp and renaming it.  Nothing orders two of those *)
(* and they share the one temporary file, so a slow request may publish    *)
(* after a fast one that started later, or write into a file that another  *)
(* has renamed under its hands.                                            *)
(*                                                                         *)
(* This module has the core's steps; Hooks adds the agents' sessions,      *)
(* whose hooks read the marker, and the specification of both.             *)
(***************************************************************************)
EXTENDS Naturals, FiniteSets

CONSTANTS
    Session,   \* agent sessions in the directory
    Http,      \* requests the core serves at once
    MaxGoal,   \* bound on the goals ever made for the directory
    MaxEvents  \* bound on what people and mishaps do: commands, stops, disarms

ASSUME MarkerAssumption ==
    /\ MaxGoal \in Nat /\ MaxEvents \in Nat
    /\ "nobody" \notin Session
    /\ "main" \notin Http

Goal    == 1 .. MaxGoal          \* in the order of created_at
Handler == Http \cup {"main"}    \* "main": the app's thread, one command at a time

VARIABLES
    registered,  \* the registry has the directory: auto mode
    goal,        \* the directory's goals
    core,        \* "up", "stopping" (graceful stop has run), "down"
    handler,     \* the request each handler is serving
    armed,       \* armed.json
    tmp,         \* armed.json.tmp
    alone,       \* history: the last request to begin found no other, and no
                 \* crash or disarm has interfered with what it wrote
    left         \* events left of MaxEvents

storeVars == <<registered, goal>>
markerVars == <<registered, goal, core, handler, armed, tmp, alone, left>>

-----------------------------------------------------------------------------
(* Goals and markers *)

\* owner is goal.auto_session; bound is goal.sessions.
NoGoal == [is |-> "unused", watching |-> FALSE, owner |-> "nobody", bound |-> {}]

\* Slip: the session a goal is made for is not bound to it.
NewGoalUnbound(owner) == [is |-> "kept", watching |-> TRUE, owner |-> owner, bound |-> {}]

NewGoal(owner) == [is |-> "kept", watching |-> TRUE, owner |-> owner,
                   bound |-> {owner} \cap Session]

Kept(g) == goal[g].is = "kept"

Watched(gs) == {g \in Goal : gs[g].watching}

\* A file's content.  "empty" is a file just truncated, "garbled" one that two
\* writers wrote into; neither parses.  Goal 0 stands for none.
Text(is) == [is |-> is, auto |-> FALSE, default |-> 0, entry |-> [s \in Session |-> 0]]

Absent == Text("absent")
Readable(text) == text.is = "marker"

Latest(G) == LET newest == {g \in G : \A k \in G : k <= g}
             IN  IF newest = {} THEN 0 ELSE CHOOSE g \in newest : TRUE

\* Slip: the default goal is the newest watched one, whoever owns it.
DefaultOfAll(gs) == Latest(Watched(gs))
DefaultOf(gs)    == Latest({g \in Watched(gs) : gs[g].owner = "nobody"})

\* A session's own goal wins its slot over goals it was merely bound to.
EntryOf(gs, s) ==
    LET bound == {g \in Watched(gs) : s \in gs[g].bound}
        own   == {g \in bound : gs[g].owner = s}
    IN  Latest(IF own # {} THEN own ELSE bound)

\* compute: no marker at all for a directory nobody asked to watch.
Compute(auto, gs) ==
    LET entry == [s \in Session |-> EntryOf(gs, s)]
    IN  IF ~auto /\ DefaultOf(gs) = 0 /\ \A s \in Session : entry[s] = 0
        THEN Absent
        ELSE [is |-> "marker", auto |-> auto, default |-> DefaultOf(gs), entry |-> entry]

\* resolve: the goal the marker names for a session, 0 for none.
Named(marker, s) == IF marker.entry[s] # 0 THEN marker.entry[s] ELSE marker.default

\* marker_dirs: should the directory carry a marker at all?
Marked == registered \/ Watched(goal) # {}

-----------------------------------------------------------------------------
(* Requests.  Each changes the store and leaves a resync to be done. *)

Idle == [step |-> "idle", auto |-> FALSE, new |-> Absent, file |-> "none",
         todo |-> {}, for |-> "nobody"]

Quiet == \A h \in Handler : handler[h] = Idle

Begin(h, step, s) ==
    /\ handler[h] = Idle
    /\ core = "up" \/ (core = "stopping" /\ h # "main")
    /\ handler' = [handler EXCEPT ![h].step = step, ![h].for = s]
    /\ alone' = Quiet
    /\ UNCHANGED <<core, armed, tmp>>

\* `witnos goal new`: the goal was made earlier, without a directory.
Watch(h, g) ==
    /\ goal[g] = NoGoal
    /\ goal' = [goal EXCEPT ![g] = NewGoal("nobody")]
    /\ Begin(h, "registry", "nobody")
    /\ UNCHANGED registered

\* Anything that changes only a goal's contract: the versions the marker mirrors
\* are not modelled.
Touch(h) ==
    /\ \E g \in Goal : Kept(g)
    /\ Begin(h, "registry", "nobody")
    /\ UNCHANGED storeVars

CloseGoal(g) ==
    /\ Kept(g)
    /\ goal' = [goal EXCEPT ![g].watching = FALSE]
    /\ Begin("main", "registry", "nobody")
    /\ UNCHANGED registered

\* Slip: what is gone stays on the list of watched goals.
DeletedWatched(g) == [NoGoal EXCEPT !.is = "deleted", !.watching = goal[g].watching]
Deleted(g)        == [NoGoal EXCEPT !.is = "deleted"]

DeleteGoal(g) ==
    /\ Kept(g)
    /\ goal' = [goal EXCEPT ![g] = Deleted(g)]
    /\ Begin("main", "registry", "nobody")
    /\ UNCHANGED registered

Register(h) ==
    /\ registered' = TRUE
    /\ Begin(h, "registry", "nobody")
    /\ UNCHANGED goal

Unregister ==
    /\ registered' = FALSE
    /\ Begin("main", "list", "nobody")
    /\ UNCHANGED goal

\* Unregistering lists the directory's goals, and unwatches the auto goals it
\* found watched, one store operation each.
ListGoals(h) ==
    LET autos == {g \in Watched(goal) : goal[g].owner # "nobody"}
    IN  /\ handler[h].step = "list"
        /\ handler' = [handler EXCEPT
                         ![h].step = IF autos = {} THEN "registry" ELSE "unwatch",
                         ![h].todo = autos]
        /\ UNCHANGED <<storeVars, core, armed, tmp, alone>>

UnwatchNext(h, g) ==
    /\ handler[h].step = "unwatch" /\ g \in handler[h].todo
    /\ goal' = [goal EXCEPT ![g].watching = FALSE]
    /\ handler' = [handler EXCEPT
                     ![h].step = IF handler[h].todo = {g} THEN "registry" ELSE "unwatch",
                     ![h].todo = @ \ {g}]
    /\ UNCHANGED <<registered, core, armed, tmp, alone>>

\* Ids still free whose goals would be newer than every goal there is.
Newer == {g \in Goal : \A k \in Goal : k >= g => goal[k] = NoGoal}

Owned(s) == {g \in Goal : Kept(g) /\ goal[g].owner = s}

\* Slip: a goal that is found needs no new marker.
CreateOnce(h, s, g) ==
    IF Owned(s) # {}
    THEN g \in Owned(s) /\ UNCHANGED <<storeVars, core, handler, armed, tmp, alone>>
    ELSE /\ g \in Newer /\ \A k \in Newer : g <= k
         /\ goal' = [goal EXCEPT ![g] = NewGoal(s)]
         /\ Begin(h, "registry", s)
         /\ UNCHANGED registered

\* Get or create, under the store's write lock.  The goal found may be unwatched,
\* and stays so.
CreateAutoGoal(h, s, g) ==
    /\ IF Owned(s) # {}
       THEN g \in Owned(s) /\ UNCHANGED goal
       ELSE /\ g \in Newer /\ \A k \in Newer : g <= k
            /\ goal' = [goal EXCEPT ![g] = NewGoal(s)]
    /\ Begin(h, "registry", s)
    /\ UNCHANGED registered

\* Binding does not touch the marker.  The goal may be gone: then nothing happens.
Bound(s, g) == IF Kept(g) THEN [goal EXCEPT ![g].bound = @ \cup {s}] ELSE goal

-----------------------------------------------------------------------------
(* resync_dir *)

ReadRegistry(h) ==
    /\ handler[h].step = "registry"
    /\ handler' = [handler EXCEPT ![h].step = "goals", ![h].auto = registered]
    /\ UNCHANGED <<storeVars, core, armed, tmp, alone>>

ReadGoals(h) ==
    LET new == Compute(handler[h].auto, goal)
    IN  /\ handler[h].step = "goals"
        /\ handler' = [handler EXCEPT
                         ![h].step = IF Readable(new) THEN "open" ELSE "remove",
                         ![h].auto = FALSE, ![h].new = new]
        /\ UNCHANGED <<storeVars, core, armed, tmp, alone>>

\* What becomes of the files other handlers have open when armed.json is
\* removed, and when armed.json.tmp is renamed to it.
Unlinked(file) == IF file = "armed" THEN "gone" ELSE file
Renamed(file)  == IF file = "tmp" THEN "armed" ELSE Unlinked(file)

RemoveMarker(h) ==
    /\ handler[h].step = "remove"
    /\ armed' = Absent
    /\ handler' = [k \in Handler |-> IF k = h THEN Idle
                                     ELSE [handler[k] EXCEPT !.file = Unlinked(@)]]
    /\ UNCHANGED <<storeVars, core, tmp, alone>>

\* Opening for writing creates the temporary file, or truncates the one there.
OpenTmp(h) ==
    /\ handler[h].step = "open"
    /\ tmp' = Text("empty")
    /\ handler' = [handler EXCEPT ![h].step = "fill", ![h].file = "tmp"]
    /\ UNCHANGED <<storeVars, core, armed, alone>>

\* Writing over another's text leaves its tail when that was longer.
Written(old, new) == IF old.is = "empty" \/ old = new THEN {new} ELSE {new, Text("garbled")}

Fill(h) ==
    /\ handler[h].step = "fill"
    /\ tmp' \in IF handler[h].file = "tmp" THEN Written(tmp, handler[h].new) ELSE {tmp}
    /\ armed' \in IF handler[h].file = "armed" THEN Written(armed, handler[h].new)
                  ELSE {armed}
    /\ handler' = [handler EXCEPT ![h].step = "rename", ![h].new = Absent,
                                         ![h].file = "none"]
    /\ UNCHANGED <<storeVars, core, alone>>

\* Another handler may have renamed the file already: that error is ignored.
Rename(h) ==
    /\ handler[h].step = "rename"
    /\ IF tmp = Absent
       THEN /\ handler' = [handler EXCEPT ![h] = Idle]
            /\ UNCHANGED <<armed, tmp>>
       ELSE /\ armed' = tmp /\ tmp' = Absent
            /\ handler' = [k \in Handler |-> IF k = h THEN Idle
                                             ELSE [handler[k] EXCEPT !.file = Renamed(@)]]
    /\ UNCHANGED <<storeVars, core, alone>>

-----------------------------------------------------------------------------
(* The core's life, and the way out of it *)

\* The exit handler removes the marker; requests are still being served.
GracefulStop ==
    /\ core = "up" /\ handler["main"] = Idle
    /\ core' = "stopping"
    /\ armed' = IF Marked THEN Absent ELSE armed
    /\ handler' = IF Marked THEN [h \in Handler |-> [handler[h] EXCEPT !.file = Unlinked(@)]]
                  ELSE handler
    /\ UNCHANGED <<storeVars, tmp, alone>>

\* The process ends: the exit that follows a graceful stop, or a crash, which
\* counts as an event.
End ==
    /\ \/ core = "stopping" /\ UNCHANGED left
       \/ core = "up" /\ left > 0 /\ left' = left - 1
    /\ core' = "down"
    /\ handler' = [h \in Handler |-> Idle]
    /\ alone' = (alone /\ Quiet)
    /\ UNCHANGED <<storeVars, armed, tmp>>

\* Slip: only the registered projects are armed again.
StartRegistered ==
    /\ core = "down"
    /\ core' = "up"
    /\ IF registered THEN armed' = Compute(registered, goal) /\ tmp' = Absent /\ alone' = TRUE
       ELSE UNCHANGED <<armed, tmp, alone>>
    /\ UNCHANGED <<storeVars, handler, left>>

\* Before it serves anything, the core arms again what should be armed.
Start ==
    /\ core = "down"
    /\ core' = "up"
    /\ IF Marked THEN armed' = Compute(registered, goal) /\ tmp' = Absent /\ alone' = TRUE
       ELSE UNCHANGED <<armed, tmp, alone>>
    /\ UNCHANGED <<storeVars, handler, left>>

\* `witnos disarm`, the human's way out when the core is not there.
Disarm ==
    /\ armed # Absent
    /\ armed' = Absent
    /\ alone' = FALSE
    /\ handler' = [h \in Handler |-> [handler[h] EXCEPT !.file = Unlinked(@)]]
    /\ UNCHANGED <<storeVars, core, tmp>>

\* The core has just started, on a directory that may be registered and may have
\* a goal of an earlier run, made by `witnos goal new`.
MarkerInit ==
    /\ registered \in BOOLEAN
    /\ \E old \in {NoGoal, NewGoal("nobody")} :
         goal = [g \in Goal |-> IF g = 1 THEN old ELSE NoGoal]
    /\ core = "up"
    /\ handler = [h \in Handler |-> Idle]
    /\ armed = Compute(registered, goal) /\ tmp = Absent
    /\ alone = TRUE
    /\ left = MaxEvents

ResyncStep(h) ==
    \/ ReadRegistry(h) \/ ReadGoals(h) \/ RemoveMarker(h)
    \/ OpenTmp(h) \/ Fill(h) \/ Rename(h)

HandlerStep(h) ==
    \/ ListGoals(h) \/ ResyncStep(h)
    \/ \E g \in Goal : UnwatchNext(h, g)

Request ==
    \/ \E h \in Handler : Touch(h)
    \/ \E h \in Http, g \in Goal : Watch(h, g)
    \/ \E g \in Goal : CloseGoal(g) \/ DeleteGoal(g)
    \/ \E h \in Http : Register(h)
    \/ Unregister

Event ==
    /\ left > 0
    /\ left' = left - 1
    /\ Request \/ GracefulStop \/ Disarm
=============================================================================
