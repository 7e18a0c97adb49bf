---------------------------- MODULE HooksProofs -----------------------------
(***************************************************************************)
(* Proofs about Hooks, for any number of sessions, requests served at once *)
(* and goals.                                                              *)
(***************************************************************************)
EXTENDS Hooks, TLAPS

LEMMA LatestIn == \A G : Latest(G) \in G \cup {0}
BY DEF Latest

LEMMA NullTypes ==
  /\ \A is \in {"absent", "empty", "garbled"} : Text(is) \in Content
  /\ Absent \in Content
  /\ Idle \in HandlerState
  /\ NoHook \in HookState
  /\ NoGoal \in GoalState
<1>1. [s \in Session |-> 0] \in Book
  BY DEF Book
<1> QED
  BY <1>1 DEF Text, Absent, Idle, NoHook, NoGoal, Content, HandlerState, HookState, GoalState

LEMMA NewGoalType ==
  \A s \in Session \cup {"nobody"} :
    /\ NewGoal(s) \in GoalState
    /\ NewGoal(s).is = "kept" /\ NewGoal(s).owner = s
    /\ NewGoal(s).bound = {s} \cap Session
<1> TAKE s \in Session \cup {"nobody"}
<1>1. {s} \cap Session \in SUBSET Session
  OBVIOUS
<1> QED
  BY <1>1 DEF NewGoal, GoalState

\* What compute makes of well-typed goals is a marker, or none.
LEMMA ComputeType ==
  ASSUME NEW auto \in BOOLEAN, NEW gs \in [Goal -> GoalState]
  PROVE  Compute(auto, gs) \in Content
<1>1. DefaultOf(gs) \in Goal \cup {0}
  BY LatestIn DEF DefaultOf, Watched
<1>2. \A s \in Session : EntryOf(gs, s) \in Goal \cup {0}
  BY LatestIn DEF EntryOf, Watched
<1>3. [s \in Session |-> EntryOf(gs, s)] \in Book
  BY <1>2 DEF Book
<1> QED
  BY <1>1, <1>3, NullTypes DEF Compute, Content

LEMMA InitType == Init => TypeOK
<1> SUFFICES ASSUME Init PROVE TypeOK
  OBVIOUS
<1>1. PICK old \in {NoGoal, NewGoal("nobody")} :
        goal = [g \in Goal |-> IF g = 1 THEN old ELSE NoGoal]
  BY DEF Init, MarkerInit
<1>2. old \in GoalState /\ (old.watching => old.is = "kept")
  <2>1. CASE old = NoGoal
    BY <2>1, NullTypes DEF NoGoal
  <2>2. CASE old = NewGoal("nobody")
    BY <2>2, NewGoalType
  <2> QED
    BY <2>1, <2>2
<1>3. goal \in [Goal -> GoalState] /\ \A g \in Goal : goal[g].watching => Kept(g)
  BY <1>1, <1>2, NullTypes DEF NoGoal, Kept
<1>4. armed \in Content
  BY <1>3, ComputeType DEF Init, MarkerInit
<1>5. handler \in [Handler -> HandlerState] /\ hook \in [Session -> HookState]
  BY NullTypes DEF Init, MarkerInit
<1>6. instructed \in Book /\ tmp \in Content
  BY NullTypes DEF Init, MarkerInit, Book
<1>7. left \in 0 .. MaxEvents
  BY MarkerAssumption DEF Init, MarkerInit
<1> QED
  BY <1>3, <1>4, <1>5, <1>6, <1>7 DEF Init, MarkerInit, TypeOK

\* Where a request begins, one handler leaves the idle state.
LEMMA BeginType ==
  ASSUME TypeOK, NEW h \in Handler, NEW s \in Session \cup {"nobody"},
         NEW step \in {"list", "registry"}, Begin(h, step, s)
  PROVE  /\ handler' \in [Handler -> HandlerState] /\ core' = core /\ core # "down"
         /\ alone' \in BOOLEAN
         /\ armed' = armed /\ tmp' = tmp
<1>1. handler[h] \in HandlerState
  BY DEF TypeOK
<1>2. [handler[h] EXCEPT !.step = step, !.for = s] \in HandlerState
  BY <1>1 DEF HandlerState
<1>3. handler' = [handler EXCEPT ![h] = [handler[h] EXCEPT !.step = step, !.for = s]]
  BY DEF Begin
<1>4. Quiet \in BOOLEAN
  BY DEF Quiet
<1> QED
  BY <1>2, <1>3, <1>4 DEF Begin, TypeOK

\* What a file becomes under a handler's hands keeps handlers well-typed.
LEMMA FileType ==
  ASSUME NEW r \in HandlerState
  PROVE  /\ [r EXCEPT !.file = Unlinked(@)] \in HandlerState
         /\ [r EXCEPT !.file = Renamed(@)] \in HandlerState
<1>1. r.file \in {"none", "tmp", "armed", "gone"}
  BY DEF HandlerState
<1>2. Unlinked(r.file) \in {"none", "tmp", "armed", "gone"}
  BY <1>1 DEF Unlinked
<1>3. Renamed(r.file) \in {"none", "tmp", "armed", "gone"}
  BY <1>1, <1>2 DEF Renamed
<1> QED
  BY <1>2, <1>3 DEF HandlerState

\* A store operation that rewrites one goal keeps the goals well-typed.
LEMMA GoalType ==
  ASSUME TypeOK, NEW g \in Goal, NEW r \in GoalState, r.watching => r.is = "kept",
         goal' = [goal EXCEPT ![g] = r]
  PROVE  goal' \in [Goal -> GoalState] /\ \A k \in Goal : goal'[k].watching => Kept(k)'
BY DEF TypeOK, Kept

LEMMA GoalVariants ==
  ASSUME TypeOK, NEW g \in Goal
  PROVE  /\ goal[g] \in GoalState
         /\ [goal[g] EXCEPT !.watching = FALSE] \in GoalState
         /\ Deleted(g) \in GoalState /\ ~Deleted(g).watching /\ Deleted(g).is = "deleted"
         /\ Deleted(g).bound = {}
         /\ \A s \in Session : [goal[g] EXCEPT !.bound = @ \cup {s}] \in GoalState
<1>1. goal[g] \in GoalState
  BY DEF TypeOK
<1>2. ASSUME NEW s \in Session PROVE [goal[g] EXCEPT !.bound = @ \cup {s}] \in GoalState
  <2>1. goal[g].bound \cup {s} \in SUBSET Session
    BY <1>1 DEF GoalState
  <2> QED
    BY <1>1, <2>1 DEF GoalState
<1> QED
  BY <1>1, <1>2, NullTypes DEF GoalState, Deleted, NoGoal

LEMMA BoundType ==
  ASSUME TypeOK, NEW s \in Session, NEW g \in Goal, goal' = Bound(s, g) \/ goal' = goal
  PROVE  goal' \in [Goal -> GoalState] /\ \A k \in Goal : goal'[k].watching => Kept(k)'
<1>1. CASE goal' = goal
  BY <1>1 DEF TypeOK, Kept
<1>2. CASE goal' = Bound(s, g) /\ Kept(g)
  <2>1. goal' = [goal EXCEPT ![g] = [goal[g] EXCEPT !.bound = @ \cup {s}]]
    BY <1>2 DEF Bound
  <2>2. [goal[g] EXCEPT !.bound = @ \cup {s}].is = "kept"
    BY <1>2, GoalVariants DEF Kept, GoalState
  <2> QED
    BY <2>1, <2>2, GoalType, GoalVariants
<1>3. CASE goal' = Bound(s, g) /\ ~Kept(g)
  BY <1>1, <1>3 DEF Bound
<1> QED
  BY <1>1, <1>2, <1>3

LEMMA UnboundNone == ASSUME TypeOK, NEW s \in Session PROVE Bound(s, 0) = goal
<1>1. 0 \notin Goal /\ goal \in [Goal -> GoalState]
  BY MarkerAssumption DEF Goal, TypeOK
<1>2. [goal EXCEPT ![0].bound = @ \cup {s}] = goal
  BY <1>1
<1> QED
  BY <1>2 DEF Bound

LEMMA HookTypes ==
  ASSUME TypeOK, NEW s \in Session
  PROVE  /\ \A step \in {"bind", "create", "wait", "note", "gate", "ask", "end"},
               g \in Goal \cup {0}, book \in Book :
              Readied(s, step, g, book) => hook' \in [Session -> HookState]
         /\ Done(s) => hook' \in [Session -> HookState]
         /\ hook[s].goal \in Goal \cup {0} /\ hook[s].book \in Book
         /\ NoHook.book \in Book
BY NullTypes DEF TypeOK, HookState, Readied, Done

LEMMA NamedType ==
  ASSUME NEW text \in Content, NEW s \in Session
  PROVE  Named(text, s) \in Goal \cup {0}
BY DEF Named, Content, Book

-----------------------------------------------------------------------------
(* Every step keeps the types *)

\* Handlers at work belong to a core that is not down.
LEMMA AtWork ==
  ASSUME TypeOK, NEW h \in Handler, handler[h].step # "idle"
  PROVE  core # "down"
BY DEF TypeOK, Quiet, Idle

\* What a step changes may be read off the conjuncts of the type invariant.
LEMMA Parts ==
  ASSUME registered' \in BOOLEAN, alone' \in BOOLEAN, left' \in 0 .. MaxEvents,
         goal' \in [Goal -> GoalState], core' \in {"up", "stopping", "down"},
         handler' \in [Handler -> HandlerState], armed' \in Content, tmp' \in Content,
         instructed' \in Book, hook' \in [Session -> HookState],
         \A g \in Goal : goal'[g].watching => Kept(g)',
         core' = "down" => Quiet'
  PROVE  TypeOK'
BY DEF TypeOK

LEMMA RequestType ==
  ASSUME TypeOK, Request
  PROVE  /\ registered' \in BOOLEAN /\ alone' \in BOOLEAN
         /\ goal' \in [Goal -> GoalState] /\ \A g \in Goal : goal'[g].watching => Kept(g)'
         /\ core' \in {"up", "stopping", "down"} /\ core' # "down"
         /\ handler' \in [Handler -> HandlerState]
         /\ armed' \in Content /\ tmp' \in Content
<1> USE DEF Handler
<1>t. /\ registered \in BOOLEAN /\ core \in {"up", "stopping", "down"}
      /\ goal \in [Goal -> GoalState] /\ \A g \in Goal : goal[g].watching => Kept(g)
      /\ armed \in Content /\ tmp \in Content
  BY DEF TypeOK
<1>1. CASE \E h \in Handler : Touch(h)
  BY <1>1, <1>t, BeginType DEF Touch, storeVars, Kept
<1>2. ASSUME NEW h \in Http, NEW g \in Goal, Watch(h, g)
      PROVE  goal' \in [Goal -> GoalState] /\ \A k \in Goal : goal'[k].watching => Kept(k)'
  BY <1>2, GoalType, NewGoalType DEF Watch
<1>3. CASE \E h \in Http, g \in Goal : Watch(h, g)
  BY <1>2, <1>3, <1>t, BeginType DEF Watch
<1>4. ASSUME NEW g \in Goal, CloseGoal(g)
      PROVE  goal' \in [Goal -> GoalState] /\ \A k \in Goal : goal'[k].watching => Kept(k)'
  <2>1. goal' = [goal EXCEPT ![g] = [goal[g] EXCEPT !.watching = FALSE]]
    BY <1>4 DEF CloseGoal
  <2>2. ~[goal[g] EXCEPT !.watching = FALSE].watching
    BY GoalVariants DEF GoalState
  <2> QED
    BY <2>1, <2>2, GoalType, GoalVariants
<1>5. CASE \E g \in Goal : CloseGoal(g)
  BY <1>4, <1>5, <1>t, BeginType DEF CloseGoal
<1>6. ASSUME NEW g \in Goal, DeleteGoal(g)
      PROVE  goal' \in [Goal -> GoalState] /\ \A k \in Goal : goal'[k].watching => Kept(k)'
  BY <1>6, GoalType, GoalVariants DEF DeleteGoal
<1>7. CASE \E g \in Goal : DeleteGoal(g)
  BY <1>6, <1>7, <1>t, BeginType DEF DeleteGoal
<1>8. CASE \E h \in Http : Register(h)
  BY <1>8, <1>t, BeginType DEF Register, Kept
<1>9. CASE Unregister
  BY <1>9, <1>t, BeginType DEF Unregister, Kept
<1> QED
  BY <1>1, <1>3, <1>5, <1>7, <1>8, <1>9 DEF Request

LEMMA WrittenType ==
  ASSUME NEW old \in Content, NEW new \in Content
  PROVE  Written(old, new) \subseteq Content
BY NullTypes DEF Written

\* Only one handler changes, to a well-typed one.
LEMMA OneHandler ==
  ASSUME TypeOK, NEW h \in Handler, NEW r \in HandlerState, handler' = [handler EXCEPT ![h] = r]
  PROVE  handler' \in [Handler -> HandlerState]
BY DEF TypeOK

\* What is kept, what is deleted and what was never used when one goal is rewritten
\* or none.
LEMMA SameGoals ==
  ASSUME TypeOK, goal' = goal
  PROVE  goal' \in [Goal -> GoalState] /\ \A g \in Goal : goal'[g].watching => Kept(g)'
BY DEF TypeOK, Kept

LEMMA ServeType ==
  ASSUME TypeOK, NEW h \in Handler, HandlerStep(h)
  PROVE  /\ registered' = registered /\ alone' = alone
         /\ goal' \in [Goal -> GoalState] /\ \A g \in Goal : goal'[g].watching => Kept(g)'
         /\ core' = core /\ core # "down"
         /\ handler' \in [Handler -> HandlerState]
         /\ armed' \in Content /\ tmp' \in Content
<1>t. /\ registered \in BOOLEAN /\ handler[h] \in HandlerState
      /\ goal \in [Goal -> GoalState] /\ \A g \in Goal : goal[g].watching => Kept(g)
      /\ armed \in Content /\ tmp \in Content /\ handler \in [Handler -> HandlerState]
  BY DEF TypeOK
<1>d. core # "down"
  BY AtWork DEF HandlerStep, ListGoals, ResyncStep, UnwatchNext, ReadRegistry, ReadGoals,
                RemoveMarker, OpenTmp, Fill, Rename
<1>1. CASE ListGoals(h)
  <2> DEFINE autos == {g \in Watched(goal) : goal[g].owner # "nobody"}
             step == IF autos = {} THEN "registry" ELSE "unwatch"
  <2>1. handler' = [handler EXCEPT ![h] = [handler[h] EXCEPT !.step = step, !.todo = autos]]
    BY <1>1 DEF ListGoals
  <2>2. autos \in SUBSET Goal
    BY DEF Watched
  <2>3. [handler[h] EXCEPT !.step = step, !.todo = autos] \in HandlerState
    <3> HIDE DEF autos
    <3> QED
      BY <1>t, <2>2 DEF HandlerState
  <2> QED
    BY <1>1, <1>t, <1>d, <2>1, <2>3, OneHandler, SameGoals DEF ListGoals, storeVars
<1>2. CASE \E g \in Goal : UnwatchNext(h, g)
  <2>1. PICK g \in Goal : UnwatchNext(h, g)
    BY <1>2
  <2> DEFINE step == IF handler[h].todo = {g} THEN "registry" ELSE "unwatch"
             todo == handler[h].todo \ {g}
             r == [handler[h] EXCEPT !.step = step, !.todo = todo]
  <2>2. handler' = [handler EXCEPT ![h] = r]
    BY <2>1 DEF UnwatchNext
  <2>3. todo \in SUBSET Goal
    BY <1>t DEF HandlerState
  <2>4. r \in HandlerState
    <3> HIDE DEF todo
    <3> QED
      BY <1>t, <2>3 DEF HandlerState
  <2>5. goal' = [goal EXCEPT ![g] = [goal[g] EXCEPT !.watching = FALSE]]
    BY <2>1 DEF UnwatchNext
  <2>6. ~[goal[g] EXCEPT !.watching = FALSE].watching
    BY GoalVariants DEF GoalState
  <2>7. goal' \in [Goal -> GoalState] /\ \A k \in Goal : goal'[k].watching => Kept(k)'
    BY <2>5, <2>6, GoalType, GoalVariants
  <2> QED
    BY <2>1, <2>2, <2>4, <2>7, <1>t, <1>d, OneHandler DEF UnwatchNext
<1>3. CASE ReadRegistry(h)
  <2>1. handler' = [handler EXCEPT ![h] = [handler[h] EXCEPT !.step = "goals", !.auto = registered]]
    BY <1>3 DEF ReadRegistry
  <2>2. [handler[h] EXCEPT !.step = "goals", !.auto = registered] \in HandlerState
    BY <1>t DEF HandlerState
  <2> QED
    BY <1>3, <1>t, <1>d, <2>1, <2>2, OneHandler, SameGoals DEF ReadRegistry, storeVars
<1>4. CASE ReadGoals(h)
  <2> DEFINE new == Compute(handler[h].auto, goal)
             step == IF Readable(new) THEN "open" ELSE "remove"
             r == [handler[h] EXCEPT !.step = step, !.auto = FALSE, !.new = new]
  <2>1. handler' = [handler EXCEPT ![h] = r]
    BY <1>4 DEF ReadGoals
  <2>2. handler[h].auto \in BOOLEAN
    BY <1>t DEF HandlerState
  <2>3. new \in Content
    BY <1>t, <2>2, ComputeType
  <2>4. r \in HandlerState
    <3> HIDE DEF new
    <3> QED
      BY <1>t, <2>3 DEF HandlerState
  <2> QED
    BY <1>4, <1>t, <1>d, <2>1, <2>4, OneHandler, SameGoals DEF ReadGoals, storeVars
<1>5. CASE RemoveMarker(h)
  BY <1>5, <1>t, <1>d, FileType, NullTypes, SameGoals DEF RemoveMarker, storeVars
<1>6. CASE OpenTmp(h)
  <2>1. handler' = [handler EXCEPT ![h] = [handler[h] EXCEPT !.step = "fill", !.file = "tmp"]]
    BY <1>6 DEF OpenTmp
  <2>2. [handler[h] EXCEPT !.step = "fill", !.file = "tmp"] \in HandlerState
    BY <1>t DEF HandlerState
  <2> QED
    BY <1>6, <1>t, <1>d, <2>1, <2>2, OneHandler, SameGoals, NullTypes DEF OpenTmp, storeVars
<1>7. CASE Fill(h)
  <2> DEFINE r == [handler[h] EXCEPT !.step = "rename", !.new = Absent, !.file = "none"]
  <2>1. handler' = [handler EXCEPT ![h] = r]
    BY <1>7 DEF Fill
  <2>2. r \in HandlerState
    BY <1>t, NullTypes DEF HandlerState
  <2>3. handler[h].new \in Content
    BY <1>t DEF HandlerState
  <2>4. armed' \in Content /\ tmp' \in Content
    BY <1>7, <1>t, <2>3, WrittenType DEF Fill
  <2> QED
    BY <1>7, <1>t, <1>d, <2>1, <2>2, <2>4, OneHandler, SameGoals DEF Fill, storeVars
<1>8. CASE Rename(h)
  BY <1>8, <1>t, <1>d, FileType, NullTypes, SameGoals DEF Rename, storeVars
<1> QED
  BY <1>1, <1>2, <1>3, <1>4, <1>5, <1>6, <1>7, <1>8 DEF HandlerStep, ResyncStep

\* A file removed under the handlers' hands.
LEMMA UnlinkedType ==
  ASSUME TypeOK, handler' = [h \in Handler |-> [handler[h] EXCEPT !.file = Unlinked(@)]]
  PROVE  handler' \in [Handler -> HandlerState]
BY FileType DEF TypeOK

LEMMA EventType == TypeOK /\ Event /\ UNCHANGED <<instructed, hook>> => TypeOK'
<1> SUFFICES ASSUME TypeOK, Event, UNCHANGED <<instructed, hook>> PROVE TypeOK'
  OBVIOUS
<1>t. /\ registered \in BOOLEAN /\ alone \in BOOLEAN /\ left \in 0 .. MaxEvents
      /\ armed \in Content /\ tmp \in Content
      /\ instructed' \in Book /\ hook' \in [Session -> HookState]
      /\ core \in {"up", "stopping", "down"} /\ handler \in [Handler -> HandlerState]
  BY DEF TypeOK
<1>1. left' \in 0 .. MaxEvents
  BY <1>t, MarkerAssumption DEF Event
<1>2. CASE Request
  BY <1>t, <1>1, <1>2, RequestType, Parts
<1>3. CASE GracefulStop
  <2>1. handler' \in [Handler -> HandlerState]
    BY <1>3, <1>t, UnlinkedType DEF GracefulStop
  <2>2. core' = "stopping" /\ armed' \in Content
    BY <1>3, <1>t, NullTypes DEF GracefulStop
  <2> QED
    BY <1>3, <1>t, <1>1, <2>1, <2>2, SameGoals, Parts DEF GracefulStop, storeVars
<1>4. CASE Disarm
  <2>1. handler' \in [Handler -> HandlerState]
    BY <1>4, UnlinkedType DEF Disarm
  <2>2. core' = "down" => Quiet'
    <3>1. SUFFICES ASSUME core = "down", NEW h \in Handler PROVE handler'[h] = Idle
      BY <1>4 DEF Disarm, Quiet
    <3>2. handler[h] = Idle
      BY <3>1 DEF TypeOK, Quiet
    <3>3. [Idle EXCEPT !.file = Unlinked(@)] = Idle
      BY DEF Idle, Unlinked
    <3> QED
      BY <1>4, <3>2, <3>3 DEF Disarm
  <2>3. armed' \in Content /\ alone' \in BOOLEAN
    BY <1>4, NullTypes DEF Disarm
  <2> QED
    BY <1>4, <1>t, <1>1, <2>1, <2>2, <2>3, SameGoals, Parts DEF Disarm, storeVars
<1> QED
  BY <1>2, <1>3, <1>4 DEF Event

LEMMA LifeType ==
  ASSUME TypeOK
  PROVE  /\ Start /\ UNCHANGED <<instructed, hook>> => TypeOK'
         /\ Crash => TypeOK'
         /\ \A h \in Handler : Serve(h) => TypeOK'
<1>t. /\ registered \in BOOLEAN /\ alone \in BOOLEAN /\ left \in 0 .. MaxEvents
      /\ armed \in Content /\ tmp \in Content /\ goal \in [Goal -> GoalState]
      /\ instructed \in Book /\ hook \in [Session -> HookState]
      /\ handler \in [Handler -> HandlerState]
  BY DEF TypeOK
<1>1. ASSUME Start, UNCHANGED <<instructed, hook>> PROVE TypeOK'
  <2>1. armed' \in Content /\ tmp' \in Content /\ alone' \in BOOLEAN
    BY <1>1, <1>t, ComputeType, NullTypes DEF Start
  <2> QED
    BY <1>1, <1>t, <2>1, SameGoals, Parts DEF Start, storeVars
<1>2. ASSUME Crash PROVE TypeOK'
  <2>1. left' \in 0 .. MaxEvents
    BY <1>2, <1>t, MarkerAssumption DEF Crash, End
  <2>2. handler' \in [Handler -> HandlerState] /\ Quiet'
    BY <1>2, NullTypes DEF Crash, End, Quiet
  <2>3. hook' \in [Session -> HookState]
    BY <1>2, <1>t, NullTypes DEF Crash
  <2>4. alone' \in BOOLEAN
    BY <1>2, <1>t DEF Crash, End, Quiet
  <2> QED
    BY <1>2, <1>t, <2>1, <2>2, <2>3, <2>4, SameGoals, Parts DEF Crash, End, storeVars
<1>3. ASSUME NEW h \in Handler, Serve(h) PROVE TypeOK'
  BY <1>3, <1>t, ServeType, Parts DEF Serve, TypeOK
<1> QED
  BY <1>1, <1>2, <1>3

LEMMA HookType ==
  ASSUME TypeOK, NEW s \in Session
  PROVE  /\ PromptRead(s) => TypeOK'
         /\ PromptGivesUp(s) => TypeOK'
         /\ StopRead(s) => TypeOK'
         /\ EndRead(s) => TypeOK'
         /\ Creates(s) => TypeOK'
         /\ HookStep(s) => TypeOK'
<1>t. /\ registered \in BOOLEAN /\ alone \in BOOLEAN /\ left \in 0 .. MaxEvents
      /\ armed \in Content /\ tmp \in Content /\ goal \in [Goal -> GoalState]
      /\ instructed \in Book /\ hook \in [Session -> HookState]
      /\ handler \in [Handler -> HandlerState] /\ core \in {"up", "stopping", "down"}
  BY DEF TypeOK
<1>n. Named(armed, s) \in Goal \cup {0} /\ 0 \in Goal \cup {0}
  BY <1>t, NamedType
<1>q. handler' = handler /\ core' = core => (core' = "down" => Quiet')
  BY DEF TypeOK, Quiet
<1>1. ASSUME PromptRead(s) PROVE TypeOK'
  <2>1. hook' \in [Session -> HookState]
    BY <1>1, <1>t, <1>n, HookTypes DEF PromptRead
  <2> QED
    BY <1>1, <1>t, <1>q, <2>1, SameGoals, Parts DEF PromptRead, markerVars
<1>2. ASSUME PromptGivesUp(s) PROVE TypeOK'
  <2>1. hook' \in [Session -> HookState]
    BY <1>2, HookTypes DEF PromptGivesUp
  <2>2. ASSUME NEW r \in HandlerState PROVE [r EXCEPT !.for = "nobody"] \in HandlerState
    BY DEF HandlerState
  <2>3. handler' \in [Handler -> HandlerState]
    BY <1>2, <1>t, <2>2 DEF PromptGivesUp
  <2>4. core' = "down" => Quiet'
    <3>1. SUFFICES ASSUME core = "down", NEW h \in Handler PROVE handler'[h] = Idle
      BY <1>2 DEF PromptGivesUp, Quiet
    <3>2. handler[h] = Idle
      BY <3>1 DEF TypeOK, Quiet
    <3>3. Idle.for # s
      BY MarkerAssumption DEF Idle
    <3> QED
      BY <1>2, <3>2, <3>3 DEF PromptGivesUp
  <2> QED
    BY <1>2, <1>t, <2>1, <2>3, <2>4, SameGoals, Parts DEF PromptGivesUp, storeVars
<1>3. ASSUME StopRead(s) PROVE TypeOK'
  <2>1. hook' \in [Session -> HookState]
    BY <1>3, <1>t, <1>n, HookTypes DEF StopRead
  <2> QED
    BY <1>3, <1>t, <1>q, <2>1, SameGoals, Parts DEF StopRead, markerVars
<1>4. ASSUME Creates(s) PROVE TypeOK'
  <2>1. PICK h \in Http, g \in Goal : PromptCreate(s, h, g)
    BY <1>4 DEF Creates
  <2>2. h \in Handler
    BY DEF Handler
  <2>3. Begin(h, "registry", s)
    BY <2>1 DEF PromptCreate, CreateAutoGoal
  <2>4. goal' \in [Goal -> GoalState] /\ \A k \in Goal : goal'[k].watching => Kept(k)'
    <3>1. CASE Owned(s) # {}
      BY <2>1, <3>1, SameGoals DEF PromptCreate, CreateAutoGoal
    <3>2. CASE Owned(s) = {}
      BY <2>1, <3>2, GoalType, NewGoalType DEF PromptCreate, CreateAutoGoal
    <3> QED
      BY <3>1, <3>2
  <2>5. hook' \in [Session -> HookState]
    BY <2>1, HookTypes DEF PromptCreate
  <2> QED
    BY <2>1, <2>2, <2>3, <2>4, <2>5, <1>t, BeginType, Parts DEF PromptCreate, CreateAutoGoal
<1>5. ASSUME HookStep(s) PROVE TypeOK'
  <2>1. CASE PromptBind(s)
    <3>1. hook' \in [Session -> HookState]
      BY <2>1, HookTypes DEF PromptBind
    <3>2. goal' \in [Goal -> GoalState] /\ \A k \in Goal : goal'[k].watching => Kept(k)'
      <4>1. CASE hook[s].goal \in Goal
        BY <2>1, <4>1, BoundType DEF PromptBind
      <4>2. CASE hook[s].goal = 0
        BY <2>1, <4>2, SameGoals, UnboundNone DEF PromptBind
      <4> QED
        BY <4>1, <4>2, HookTypes
    <3> QED
      BY <2>1, <1>t, <1>q, <3>1, <3>2, Parts DEF PromptBind
  <2>2. CASE PromptAnswered(s)
    <3>1. hook' \in [Session -> HookState]
      BY <2>2, HookTypes DEF PromptAnswered
    <3> QED
      BY <2>2, <1>t, <1>q, <3>1, SameGoals, Parts DEF PromptAnswered, markerVars
  <2>3. CASE PromptNote(s)
    <3>1. hook' \in [Session -> HookState] /\ instructed' \in Book
      BY <2>3, HookTypes DEF PromptNote, Book
    <3> QED
      BY <2>3, <1>t, <1>q, <3>1, SameGoals, Parts DEF PromptNote, markerVars
  <2>4. CASE StopGate(s)
    <3>1. hook' \in [Session -> HookState]
      BY <2>4, HookTypes DEF StopGate
    <3>2. goal' \in [Goal -> GoalState] /\ \A k \in Goal : goal'[k].watching => Kept(k)'
      <4>1. CASE hook[s].goal \in Goal
        BY <2>4, <4>1, BoundType DEF StopGate
      <4>2. CASE hook[s].goal = 0
        BY <2>4, <4>2, SameGoals, UnboundNone DEF StopGate
      <4> QED
        BY <4>1, <4>2, HookTypes
    <3> QED
      BY <2>4, <1>t, <1>q, <3>1, <3>2, Parts DEF StopGate
  <2>5. CASE \E h \in Http : StopAsk(s, h)
    <3>1. PICK h \in Http : StopAsk(s, h)
      BY <2>5
    <3>2. hook' \in [Session -> HookState]
      BY <3>1, HookTypes DEF StopAsk
    <3>3. CASE Begin(h, "registry", "nobody") /\ UNCHANGED <<storeVars, left>>
      BY <3>1, <3>2, <3>3, <1>t, BeginType, SameGoals, Parts DEF StopAsk, storeVars, Handler
    <3>4. CASE UNCHANGED markerVars
      BY <3>1, <3>2, <3>4, <1>t, <1>q, SameGoals, Parts DEF StopAsk, markerVars
    <3> QED
      BY <3>1, <3>3, <3>4 DEF StopAsk
  <2>6. CASE EndTold(s)
    <3>1. hook' \in [Session -> HookState]
      BY <2>6, HookTypes DEF EndTold
    <3> QED
      BY <2>6, <1>t, <1>q, <3>1, SameGoals, Parts DEF EndTold, markerVars
  <2> QED
    BY <1>5, <2>1, <2>2, <2>3, <2>4, <2>5, <2>6 DEF HookStep
<1>6. ASSUME EndRead(s) PROVE TypeOK'
  <2>1. armed.entry[s] \in Goal \cup {0}
    BY <1>t DEF Content, Book
  <2>2. hook' \in [Session -> HookState]
    BY <1>6, <2>1, HookTypes DEF EndRead, OwnEntry
  <2> QED
    BY <1>6, <1>t, <1>q, <2>2, SameGoals, Parts DEF EndRead, markerVars
<1> QED
  BY <1>1, <1>2, <1>3, <1>4, <1>5, <1>6

LEMMA StepType == TypeOK /\ [Next]_vars => TypeOK'
<1>1. ASSUME TypeOK, UNCHANGED vars PROVE TypeOK'
  BY <1>1 DEF vars, markerVars, TypeOK, Quiet, Kept
<1> QED
  BY <1>1, EventType, LifeType, HookType DEF Next

\* Every variable stays in its domain, only a kept goal is watched, and a core that
\* is down serves nothing, for any number of sessions and requests.
THEOREM TypeCorrect == Spec => []TypeOK
BY InitType, StepType, PTL DEF Spec

-----------------------------------------------------------------------------
(* Goal identity *)

\* The six things a step may do to the goals.
Same      == goal' = goal
Made(s)   == \E g \in Goal : /\ goal[g] = NoGoal
                              /\ goal' = [goal EXCEPT ![g] = NewGoal(s)]
MadeAuto  == \E s \in Session : Owned(s) = {} /\ Made(s)
Unwatched == \E g \in Goal : goal' = [goal EXCEPT ![g].watching = FALSE]
Removed   == \E g \in Goal : goal' = [goal EXCEPT ![g] = Deleted(g)]
Joined    == \E s \in Session, g \in Goal :
               /\ Kept(g) /\ OwnGoal(s, g)
               /\ goal' = [goal EXCEPT ![g].bound = @ \cup {s}]

LEMMA BindingJoins ==
  ASSUME TypeOK, NEW s \in Session, NEW g \in Goal \cup {0}, OwnGoal(s, g),
         goal' = goal \/ goal' = Bound(s, g)
  PROVE  Same \/ Joined
<1>1. CASE g = 0
  BY <1>1, UnboundNone DEF Same
<1>2. CASE g \in Goal
  BY <1>2 DEF Same, Joined, Bound
<1> QED
  BY <1>1, <1>2

LEMMA GoalChanges ==
  TypeOK /\ OwnGoals /\ [Next]_vars =>
    Same \/ Made("nobody") \/ MadeAuto \/ Unwatched \/ Removed \/ Joined
<1> SUFFICES ASSUME TypeOK, OwnGoals, [Next]_vars
             PROVE  Same \/ Made("nobody") \/ MadeAuto \/ Unwatched \/ Removed \/ Joined
  OBVIOUS
<1>1. CASE UNCHANGED vars
  BY <1>1 DEF vars, markerVars, Same
<1>2. CASE Event
  <2>1. CASE Request
    BY <2>1 DEF Request, Touch, Watch, CloseGoal, DeleteGoal, Register, Unregister, storeVars,
                Same, Made, Unwatched, Removed
  <2>2. CASE GracefulStop \/ Disarm
    BY <2>2 DEF GracefulStop, Disarm, storeVars, Same
  <2> QED
    BY <1>2, <2>1, <2>2 DEF Event
<1>3. CASE Start \/ Crash
  BY <1>3 DEF Start, Crash, End, storeVars, Same
<1>4. CASE \E h \in Handler : Serve(h)
  BY <1>4 DEF Serve, HandlerStep, ResyncStep, ListGoals, UnwatchNext, ReadRegistry, ReadGoals,
              RemoveMarker, OpenTmp, Fill, Rename, storeVars, Same, Unwatched
<1>5. ASSUME NEW s \in Session, PromptRead(s) \/ PromptGivesUp(s) \/ StopRead(s) \/ EndRead(s)
      PROVE  Same
  BY <1>5 DEF PromptRead, PromptGivesUp, StopRead, EndRead, markerVars, storeVars, Same
<1>6. ASSUME NEW s \in Session, Creates(s)
      PROVE  Same \/ MadeAuto
  <2>1. PICK h \in Http, g \in Goal : CreateAutoGoal(h, s, g)
    BY <1>6 DEF Creates, PromptCreate
  <2>2. CASE Owned(s) # {}
    BY <2>1, <2>2 DEF CreateAutoGoal, Same
  <2>3. CASE Owned(s) = {}
    <3>1. goal[g] = NoGoal
      BY <2>1, <2>3 DEF CreateAutoGoal, Newer, Goal
    <3> QED
      BY <2>1, <2>3, <3>1 DEF CreateAutoGoal, MadeAuto, Made
  <2> QED
    BY <2>2, <2>3
<1>7. ASSUME NEW s \in Session, HookStep(s)
      PROVE  Same \/ Joined
  <2>1. CASE PromptBind(s) \/ StopGate(s)
    BY <2>1, BindingJoins, HookTypes DEF PromptBind, StopGate, OwnGoals, OwnHooks
  <2>2. CASE PromptAnswered(s) \/ PromptNote(s) \/ EndTold(s) \/ \E h \in Http : StopAsk(s, h)
    BY <2>2 DEF PromptAnswered, PromptNote, EndTold, StopAsk, markerVars, storeVars, Same
  <2> QED
    BY <1>7, <2>1, <2>2 DEF HookStep
<1> QED
  BY <1>1, <1>2, <1>3, <1>4, <1>5, <1>6, <1>7 DEF Next

\* What is a session's to be named stays so: owners never change, and a goal that is
\* deleted stays deleted.
LEMMA OwnStays ==
  TypeOK /\ OwnGoals /\ [Next]_vars =>
    \A s \in Session, g \in Goal \cup {0} : OwnGoal(s, g) => OwnGoal(s, g)'
<1> SUFFICES ASSUME TypeOK, OwnGoals, [Next]_vars, NEW s \in Session, NEW g \in Goal,
                    OwnGoal(s, g)
             PROVE  OwnGoal(s, g)'
  BY DEF OwnGoal
<1>g. goal \in [Goal -> GoalState] /\ 0 \notin Goal
  BY MarkerAssumption DEF TypeOK, Goal
<1>u. goal[g].is # "unused"
  BY <1>g DEF OwnGoal, Kept
<1>1. CASE Same
  BY <1>1 DEF Same, OwnGoal, Kept
<1>2. ASSUME NEW o \in Session \cup {"nobody"}, Made(o)
      PROVE  OwnGoal(s, g)'
  <2>1. goal'[g] = goal[g]
    BY <1>2, <1>g, <1>u DEF Made, NoGoal
  <2> QED
    BY <2>1 DEF OwnGoal, Kept
<1>3. CASE Unwatched
  <2>1. goal'[g].is = goal[g].is /\ goal'[g].owner = goal[g].owner
    BY <1>3, <1>g DEF Unwatched, GoalState
  <2> QED
    BY <2>1 DEF OwnGoal, Kept
<1>4. CASE Removed
  <2>1. goal'[g] = goal[g] \/ goal'[g].is = "deleted"
    BY <1>4, <1>g, GoalVariants DEF Removed
  <2> QED
    BY <2>1 DEF OwnGoal, Kept
<1>5. CASE Joined
  <2>1. goal'[g].is = goal[g].is /\ goal'[g].owner = goal[g].owner
    BY <1>5, <1>g DEF Joined, GoalState
  <2> QED
    BY <2>1 DEF OwnGoal, Kept
<1> QED
  BY <1>1, <1>2, <1>3, <1>4, <1>5, GoalChanges DEF MadeAuto

LEMMA BoundStays == TypeOK /\ OwnGoals /\ [Next]_vars => OwnBound'
<1> SUFFICES ASSUME TypeOK, OwnGoals, [Next]_vars, NEW g \in Goal, NEW s \in goal'[g].bound
             PROVE  OwnGoal(s, g)'
  BY DEF OwnBound
<1>g. goal \in [Goal -> GoalState] /\ \A k \in Goal : goal[k].bound \subseteq Session
  BY DEF TypeOK, GoalState
<1>o. s \in goal[g].bound => OwnGoal(s, g)'
  BY <1>g, OwnStays DEF OwnGoals, OwnBound
<1>1. CASE Same
  BY <1>1, <1>o DEF Same
<1>2. ASSUME NEW o \in Session \cup {"nobody"}, Made(o)
      PROVE  OwnGoal(s, g)'
  <2>1. CASE goal'[g] = goal[g]
    BY <2>1, <1>o
  <2>2. CASE goal'[g] = NewGoal(o)
    BY <2>2, NewGoalType DEF OwnGoal, Kept
  <2> QED
    BY <1>2, <1>g, <2>1, <2>2 DEF Made
<1>3. CASE Unwatched
  <2>1. goal'[g].bound = goal[g].bound
    BY <1>3, <1>g DEF Unwatched, GoalState
  <2> QED
    BY <2>1, <1>o
<1>4. CASE Removed
  <2>1. goal'[g] = goal[g] \/ goal'[g].bound = {}
    BY <1>4, <1>g, GoalVariants DEF Removed
  <2> QED
    BY <2>1, <1>o
<1>5. CASE Joined
  <2>1. PICK t \in Session, k \in Goal :
          OwnGoal(t, k) /\ goal' = [goal EXCEPT ![k].bound = @ \cup {t}]
    BY <1>5 DEF Joined
  <2>2. goal'[g].bound = goal[g].bound \/ (k = g /\ goal'[g].bound = goal[g].bound \cup {t})
    BY <2>1, <1>g DEF GoalState
  <2>3. OwnGoal(t, k)'
    BY <2>1, OwnStays
  <2> QED
    BY <2>2, <2>3, <1>o
<1> QED
  BY <1>1, <1>2, <1>3, <1>4, <1>5, GoalChanges DEF MadeAuto

LEMMA OneStays == TypeOK /\ OwnGoals /\ [Next]_vars => OneGoalEach'
<1> SUFFICES ASSUME TypeOK, OwnGoals, [Next]_vars, NEW s \in Session,
                    NEW g \in Owned(s)', NEW k \in Owned(s)'
             PROVE  g = k
  BY DEF OneGoalEach
<1>g. goal \in [Goal -> GoalState] /\ s # "nobody"
  BY MarkerAssumption DEF TypeOK
<1>k. g \in Goal /\ k \in Goal
  BY DEF Owned
<1>o. \A x, y \in Owned(s) : x = y
  BY DEF OwnGoals, OneGoalEach
<1>1. ASSUME \A x \in Goal : goal'[x].is = "kept" /\ goal'[x].owner = s =>
                              goal[x].is = "kept" /\ goal[x].owner = s
      PROVE  g = k
  BY <1>1, <1>o DEF Owned, Kept
<1>2. CASE Same
  BY <1>1, <1>2 DEF Same
<1>3. CASE Made("nobody")
  <2>1. \A x \in Goal : goal'[x] = goal[x] \/ goal'[x].owner = "nobody"
    BY <1>3, <1>g, NewGoalType DEF Made
  <2> QED
    BY <1>1, <1>g, <2>1
<1>4. CASE MadeAuto
  <2>1. PICK o \in Session, n \in Goal :
          Owned(o) = {} /\ goal[n] = NoGoal /\ goal' = [goal EXCEPT ![n] = NewGoal(o)]
    BY <1>4 DEF MadeAuto, Made
  <2>2. goal'[n].owner = o /\ \A x \in Goal : x # n => goal'[x] = goal[x]
    BY <2>1, <1>g, NewGoalType
  <2>3. CASE o = s
    <3>1. \A x \in Goal : x # n => ~(goal'[x].is = "kept" /\ goal'[x].owner = s)
      BY <2>1, <2>2, <2>3 DEF Owned, Kept
    <3> QED
      BY <3>1 DEF Owned, Kept
  <2>4. CASE o # s
    BY <1>1, <2>2, <2>4
  <2> QED
    BY <2>3, <2>4
<1>5. CASE Unwatched
  <2>1. \A x \in Goal : goal'[x].is = goal[x].is /\ goal'[x].owner = goal[x].owner
    BY <1>5, <1>g DEF Unwatched, GoalState
  <2> QED
    BY <1>1, <2>1
<1>6. CASE Removed
  <2>1. \A x \in Goal : goal'[x] = goal[x] \/ goal'[x].is = "deleted"
    BY <1>6, <1>g, GoalVariants DEF Removed
  <2> QED
    BY <1>1, <2>1
<1>7. CASE Joined
  <2>1. \A x \in Goal : goal'[x].is = goal[x].is /\ goal'[x].owner = goal[x].owner
    BY <1>7, <1>g DEF Joined, GoalState
  <2> QED
    BY <1>1, <2>1
<1> QED
  BY <1>2, <1>3, <1>4, <1>5, <1>6, <1>7, GoalChanges

\* A blank text names nothing; what compute makes names for a session a goal it owns
\* or is bound to, or a goal nobody owns.
LEMMA BlankNames ==
  \A is \in {"absent", "empty", "garbled"}, s \in Session : Named(Text(is), s) = 0
BY DEF Named, Text

LEMMA ComputeNames ==
  ASSUME TypeOK, OwnGoals, NEW auto \in BOOLEAN
  PROVE  OwnMarker(Compute(auto, goal))
<1>g. goal \in [Goal -> GoalState] /\ \A g \in Goal : goal[g].watching => Kept(g)
  BY DEF TypeOK
<1>1. ASSUME NEW s \in Session PROVE OwnGoal(s, EntryOf(goal, s))
  <2> DEFINE bound == {g \in Watched(goal) : s \in goal[g].bound}
             own   == {g \in bound : goal[g].owner = s}
  <2>1. EntryOf(goal, s) \in bound \cup {0}
    BY LatestIn DEF EntryOf
  <2>2. \A g \in bound : OwnGoal(s, g)
    BY DEF Watched, OwnGoals, OwnBound
  <2> QED
    BY <2>1, <2>2 DEF OwnGoal
<1>2. DefaultOf(goal) \in {g \in Watched(goal) : goal[g].owner = "nobody"} \cup {0}
  BY LatestIn DEF DefaultOf
<1>3. \A s \in Session : OwnGoal(s, DefaultOf(goal))
  BY <1>2, <1>g DEF Watched, OwnGoal
<1>4. SUFFICES ASSUME NEW s \in Session PROVE OwnGoal(s, Named(Compute(auto, goal), s))
  BY DEF OwnMarker
<1>5. CASE Compute(auto, goal) = Absent
  BY <1>5, BlankNames DEF Absent, OwnGoal
<1>6. CASE Compute(auto, goal) # Absent
  BY <1>1, <1>3, <1>6 DEF Compute, Named
<1> QED
  BY <1>5, <1>6

LEMMA BlankOwn == \A is \in {"absent", "empty", "garbled"} : OwnMarker(Text(is))
BY BlankNames DEF OwnMarker, OwnGoal

\* Where a step gets the texts it leaves behind: they were there before, are blank, or
\* have just been computed.
Texts == {armed, tmp} \cup {handler[h].new : h \in Handler}

From(text) ==
    \/ text \in Texts
    \/ text \in {Text(is) : is \in {"absent", "empty", "garbled"}}
    \/ text \in {Compute(auto, goal) : auto \in BOOLEAN}

LEMMA WrittenFrom ==
  ASSUME NEW old, From(old), NEW new, From(new), NEW text \in Written(old, new)
  PROVE  From(text)
BY DEF Written, From

LEMMA TextSources ==
  TypeOK /\ [Next]_vars =>
    /\ From(armed') /\ From(tmp')
    /\ \A h \in Handler : From(handler'[h].new)
<1> SUFFICES ASSUME TypeOK, [Next]_vars
             PROVE  /\ From(armed') /\ From(tmp')
                    /\ \A h \in Handler : From(handler'[h].new)
  OBVIOUS
<1>t. /\ handler \in [Handler -> HandlerState] /\ registered \in BOOLEAN
      /\ \A h \in Handler : handler[h].auto \in BOOLEAN
  BY DEF TypeOK, HandlerState
<1>o. /\ From(armed) /\ From(tmp)
      /\ \A h \in Handler : From(handler[h].new)
  BY DEF From, Texts
<1>a. From(Absent) /\ From(Idle.new) /\ From(Text("empty"))
  BY DEF From, Absent, Idle
<1>c. \A auto \in BOOLEAN : From(Compute(auto, goal))
  BY DEF From
<1>1. CASE UNCHANGED vars
  BY <1>1, <1>o DEF vars, markerVars
<1>b. ASSUME NEW h \in Handler, NEW s, NEW step, Begin(h, step, s)
      PROVE  /\ armed' = armed /\ tmp' = tmp
             /\ \A k \in Handler : handler'[k].new = handler[k].new
  BY <1>b, <1>t DEF Begin, HandlerState
<1>2. CASE Event
  <2>1. CASE Request
    <3>1. \E h \in Handler, step \in {"list", "registry"} : Begin(h, step, "nobody")
      BY <2>1 DEF Request, Touch, Watch, CloseGoal, DeleteGoal, Register, Unregister, Handler
    <3> QED
      BY <3>1, <1>b, <1>o
  <2>2. CASE GracefulStop
    <3>1. \A k \in Handler : handler'[k].new = handler[k].new
      BY <2>2, <1>t DEF GracefulStop, HandlerState
    <3> QED
      BY <2>2, <3>1, <1>o, <1>a DEF GracefulStop
  <2>3. CASE Disarm
    <3>1. \A k \in Handler : handler'[k].new = handler[k].new
      BY <2>3, <1>t DEF Disarm, HandlerState
    <3> QED
      BY <2>3, <3>1, <1>o, <1>a DEF Disarm
  <2> QED
    BY <1>2, <2>1, <2>2, <2>3 DEF Event
<1>3. CASE Start
  BY <1>3, <1>o, <1>a, <1>t, <1>c DEF Start
<1>4. CASE Crash
  BY <1>4, <1>o, <1>a DEF Crash, End
<1>5. ASSUME NEW h \in Handler, HandlerStep(h)
      PROVE  /\ From(armed') /\ From(tmp')
             /\ \A k \in Handler : From(handler'[k].new)
  <2>1. CASE ListGoals(h) \/ ReadRegistry(h) \/ \E g \in Goal : UnwatchNext(h, g)
    <3>1. \A k \in Handler : handler'[k].new = handler[k].new
      BY <2>1, <1>t DEF ListGoals, ReadRegistry, UnwatchNext, HandlerState
    <3> QED
      BY <2>1, <3>1, <1>o DEF ListGoals, ReadRegistry, UnwatchNext
  <2>2. CASE ReadGoals(h)
    <3>1. \A k \in Handler : \/ handler'[k].new = handler[k].new
                             \/ handler'[k].new = Compute(handler[h].auto, goal)
      BY <2>2, <1>t DEF ReadGoals, HandlerState
    <3> QED
      BY <2>2, <3>1, <1>o, <1>t, <1>c DEF ReadGoals
  <2>3. CASE RemoveMarker(h) \/ Rename(h)
    <3>1. \A k \in Handler : handler'[k] = Idle \/ handler'[k].new = handler[k].new
      BY <2>3, <1>t DEF RemoveMarker, Rename, HandlerState
    <3> QED
      BY <2>3, <3>1, <1>o, <1>a DEF RemoveMarker, Rename
  <2>4. CASE OpenTmp(h)
    <3>1. \A k \in Handler : handler'[k].new = handler[k].new
      BY <2>4, <1>t DEF OpenTmp, HandlerState
    <3> QED
      BY <2>4, <3>1, <1>o, <1>a DEF OpenTmp
  <2>5. CASE Fill(h)
    <3>1. \A k \in Handler : handler'[k].new \in {handler[k].new, Absent}
      BY <2>5, <1>t DEF Fill, HandlerState
    <3>2. From(armed') /\ From(tmp')
      BY <2>5, <1>o, WrittenFrom DEF Fill
    <3> QED
      BY <3>1, <3>2, <1>o, <1>a
  <2> QED
    BY <1>5, <2>1, <2>2, <2>3, <2>4, <2>5 DEF HandlerStep, ResyncStep
<1>6. ASSUME NEW s \in Session, PromptRead(s) \/ PromptGivesUp(s) \/ StopRead(s) \/ EndRead(s)
      PROVE  /\ armed' = armed /\ tmp' = tmp
             /\ \A k \in Handler : handler'[k].new = handler[k].new
  BY <1>6, <1>t DEF PromptRead, PromptGivesUp, StopRead, EndRead, markerVars, HandlerState
<1>7. ASSUME NEW s \in Session, Creates(s)
      PROVE  /\ armed' = armed /\ tmp' = tmp
             /\ \A k \in Handler : handler'[k].new = handler[k].new
  BY <1>7, <1>b DEF Creates, PromptCreate, CreateAutoGoal, Handler
<1>8. ASSUME NEW s \in Session, HookStep(s)
      PROVE  /\ armed' = armed /\ tmp' = tmp
             /\ \A k \in Handler : handler'[k].new = handler[k].new
  <2>1. CASE \E h \in Http : Begin(h, "registry", "nobody")
    BY <2>1, <1>b DEF Handler
  <2>2. CASE UNCHANGED <<armed, tmp, handler>>
    BY <2>2
  <2> QED
    BY <1>8, <2>1, <2>2 DEF HookStep, PromptBind, PromptAnswered, PromptNote, StopGate, StopAsk,
                            EndTold, markerVars
<1> QED
  BY <1>o, <1>1, <1>2, <1>3, <1>4, <1>5, <1>6, <1>7, <1>8 DEF Next, Serve

LEMMA FromOwn ==
  ASSUME TypeOK, OwnGoals, NEW text, From(text)
  PROVE  OwnMarker(text)
BY BlankOwn, ComputeNames DEF From, Texts, OwnGoals, OwnTexts

\* Where a step gets the goals that hooks and the book hold.
HookSources ==
  \A s \in Session :
    /\ \/ instructed'[s] \in {instructed[s], hook[s].goal}
       \/ \E o \in Session : instructed'[s] = hook[o].book[s]
    /\ \A o \in Session : hook'[o].book[s] \in {hook[o].book[s], instructed[s], 0}
    /\ \/ hook'[s].goal \in {hook[s].goal, 0, Named(armed, s)}
       \/ \E g \in Goal : hook'[s].goal = g /\ OwnGoal(s, g)'

LEMMA BookOnly ==
  ASSUME TypeOK, NEW s \in Session, NEW step, NEW g, NEW book \in Book,
         Readied(s, step, g, book)
  PROVE  /\ hook'[s] = [step |-> step, goal |-> g, book |-> book]
         /\ \A o \in Session : o # s => hook'[o] = hook[o]
BY DEF TypeOK, Readied

LEMMA DoneOnly ==
  ASSUME TypeOK, NEW s \in Session, Done(s)
  PROVE  \A o \in Session : hook'[o] = IF o = s THEN NoHook ELSE hook[o]
BY DEF TypeOK, Done

LEMMA NoHookHolds == NoHook.goal = 0 /\ \A s \in Session : NoHook.book[s] = 0
BY DEF NoHook

LEMMA HooksFrom == TypeOK /\ OwnGoals /\ [Next]_vars => HookSources
<1> SUFFICES ASSUME TypeOK, OwnGoals, [Next]_vars PROVE HookSources
  OBVIOUS
<1>t. instructed \in Book /\ NoHook.book \in Book /\ \A s \in Session : hook[s].book \in Book
  BY NullTypes DEF TypeOK, HookState
<1>1. ASSUME UNCHANGED <<instructed, hook>> PROVE HookSources
  BY <1>1 DEF HookSources
<1>2. ASSUME instructed' = instructed,
             \A s \in Session : hook'[s] \in {hook[s], NoHook}
      PROVE  HookSources
  BY <1>2, NoHookHolds DEF HookSources
<1>3. ASSUME NEW s \in Session, instructed' = instructed, NEW step,
             NEW g \in {hook[s].goal, 0, Named(armed, s)},
             NEW book \in {hook[s].book, instructed, NoHook.book},
             Readied(s, step, g, book)
      PROVE  HookSources
  <2>1. /\ hook'[s] = [step |-> step, goal |-> g, book |-> book]
        /\ \A o \in Session : o # s => hook'[o] = hook[o]
    BY <1>3, <1>t, BookOnly
  <2>2. \A o \in Session : book[o] \in {hook[s].book[o], instructed[o], 0}
    BY <1>3, NoHookHolds
  <2>3. hook'[s].book = book /\ hook'[s].goal = g
    BY <2>1
  <2> QED
    BY <1>3, <2>1, <2>2, <2>3 DEF HookSources
<1>4. CASE Crash
  BY <1>2, <1>4 DEF Crash
<1>5. ASSUME NEW s \in Session, PromptRead(s) \/ StopRead(s) \/ EndRead(s) PROVE HookSources
  <2>1. CASE PromptRead(s)
    BY <1>3, <2>1 DEF PromptRead
  <2>2. CASE StopRead(s)
    BY <1>3, <2>2 DEF StopRead
  <2>3. CASE EndRead(s)
    BY <1>3, <2>3 DEF EndRead, OwnEntry, Named
  <2> QED
    BY <1>5, <2>1, <2>2, <2>3
<1>6. ASSUME NEW s \in Session, PromptGivesUp(s) PROVE HookSources
  BY <1>2, <1>6, DoneOnly DEF PromptGivesUp
<1>7. ASSUME NEW s \in Session, Creates(s) PROVE HookSources
  <2>1. PICK h \in Http, g \in Goal : PromptCreate(s, h, g)
    BY <1>7 DEF Creates
  <2>2. OwnGoal(s, g)'
    <3>1. CASE Owned(s) # {}
      BY <2>1, <3>1 DEF PromptCreate, CreateAutoGoal, Owned, OwnGoal, Kept
    <3>2. CASE Owned(s) = {}
      <4>1. goal'[g] = NewGoal(s)
        BY <2>1, <3>2 DEF PromptCreate, CreateAutoGoal, TypeOK
      <4> QED
        BY <4>1, NewGoalType DEF OwnGoal, Kept
    <3> QED
      BY <3>1, <3>2
  <2>3. \E k \in {0, g} : Readied(s, "wait", k, hook[s].book)
    BY <2>1 DEF PromptCreate
  <2>4. instructed' = instructed
    BY <2>1 DEF PromptCreate
  <2>5. PICK k \in {0, g} : /\ hook'[s] = [step |-> "wait", goal |-> k, book |-> hook[s].book]
                            /\ \A o \in Session : o # s => hook'[o] = hook[o]
    BY <2>3, <1>t, BookOnly
  <2>6. hook'[s].goal = 0 \/ \E own \in Goal : hook'[s].goal = own /\ OwnGoal(s, own)'
    BY <2>2, <2>5
  <2>7. \A o \in Session : hook'[o].book = hook[o].book /\ (o # s => hook'[o] = hook[o])
    BY <2>5
  <2> QED
    BY <2>4, <2>6, <2>7 DEF HookSources
<1>8. ASSUME NEW s \in Session, HookStep(s) PROVE HookSources
  <2>1. CASE PromptBind(s)
    BY <1>3, <2>1 DEF PromptBind
  <2>2. CASE PromptAnswered(s)
    <3>1. CASE hook[s].goal = 0
      BY <1>2, <2>2, <3>1, DoneOnly DEF PromptAnswered
    <3>2. CASE hook[s].goal # 0
      BY <1>3, <2>2, <3>2 DEF PromptAnswered
    <3> QED
      BY <3>1, <3>2
  <2>3. CASE PromptNote(s)
    <3>1. instructed' = [hook[s].book EXCEPT ![s] = hook[s].goal]
      BY <2>3 DEF PromptNote
    <3>2. \A o \in Session : instructed'[o] = IF o = s THEN hook[s].goal ELSE hook[s].book[o]
      BY <3>1, <1>t DEF Book
    <3>3. \A o \in Session : hook'[o] \in {hook[o], NoHook}
      BY <2>3, DoneOnly DEF PromptNote
    <3> QED
      BY <3>2, <3>3, NoHookHolds DEF HookSources
  <2>4. CASE StopGate(s)
    BY <1>2, <2>4, DoneOnly DEF StopGate
  <2>5. CASE \E h \in Http : StopAsk(s, h)
    BY <1>2, <2>5, DoneOnly DEF StopAsk
  <2>6. CASE EndTold(s)
    BY <1>2, <2>6, DoneOnly DEF EndTold
  <2> QED
    BY <1>8, <2>1, <2>2, <2>3, <2>4, <2>5, <2>6 DEF HookStep
<1> QED
  BY <1>1, <1>4, <1>5, <1>6, <1>7, <1>8 DEF Next, Serve, vars

LEMMA OwnStep == TypeOK /\ OwnGoals /\ [Next]_vars => OwnGoals'
<1> SUFFICES ASSUME TypeOK, OwnGoals, [Next]_vars PROVE OwnGoals'
  OBVIOUS
<1>t. TypeOK'
  BY StepType
<1>2. OwnTexts'
  <2>1. /\ armed' \in Content /\ tmp' \in Content
        /\ \A h \in Handler : handler'[h].new \in Content
    BY <1>t DEF TypeOK, HandlerState
  <2>2. OwnMarker(armed)' /\ OwnMarker(tmp)'
    BY <2>1, TextSources, FromOwn, NamedType, OwnStays DEF OwnMarker
  <2>3. ASSUME NEW h \in Handler PROVE OwnMarker(handler[h].new)'
    BY <2>1, TextSources, FromOwn, NamedType, OwnStays DEF OwnMarker
  <2> QED
    BY <2>2, <2>3 DEF OwnTexts, Handler
<1>3. OwnHooks'
  <2> SUFFICES ASSUME NEW s \in Session
               PROVE  /\ OwnGoal(s, instructed[s])' /\ OwnGoal(s, hook[s].goal)'
                      /\ \A o \in Session : OwnGoal(s, hook[o].book[s])'
    BY DEF OwnHooks
  <2>1. /\ instructed[s] \in Goal \cup {0} /\ hook[s].goal \in Goal \cup {0}
        /\ \A o \in Session : hook[o].book[s] \in Goal \cup {0}
        /\ Named(armed, s) \in Goal \cup {0}
    BY NamedType DEF TypeOK, Book, HookState
  <2>2. /\ OwnGoal(s, instructed[s]) /\ OwnGoal(s, hook[s].goal) /\ OwnGoal(s, 0)
        /\ \A o \in Session : OwnGoal(s, hook[o].book[s])
        /\ OwnGoal(s, Named(armed, s))
    BY DEF OwnGoals, OwnHooks, OwnTexts, OwnMarker, OwnGoal
  <2> QED
    BY <2>1, <2>2, OwnStays, HooksFrom DEF HookSources
<1> QED
  BY <1>2, <1>3, BoundStays, OneStays DEF OwnGoals

LEMMA OwnInit == Init => OwnGoals
<1> SUFFICES ASSUME Init PROVE OwnGoals
  OBVIOUS
<1>t. TypeOK
  BY InitType
<1>1. PICK old \in {NoGoal, NewGoal("nobody")} :
        goal = [g \in Goal |-> IF g = 1 THEN old ELSE NoGoal]
  BY DEF Init, MarkerInit
<1>2. \A g \in Goal : goal[g].owner = "nobody" /\ goal[g].bound = {}
  <2>1. NewGoal("nobody").owner = "nobody" /\ NewGoal("nobody").bound = {}
    BY NewGoalType, MarkerAssumption
  <2> QED
    BY <1>1, <2>1 DEF NoGoal
<1>3. OwnBound /\ OneGoalEach
  BY <1>2, MarkerAssumption DEF OwnBound, OneGoalEach, Owned
<1>4. OwnHooks
  BY NoHookHolds DEF Init, OwnHooks, OwnGoal
<1>5. OwnMarker(Absent) /\ OwnMarker(Idle.new)
  BY BlankOwn DEF Absent, Idle
<1>6. \A s \in Session : OwnGoal(s, DefaultOf(goal)) /\ EntryOf(goal, s) = 0
  <2> TAKE s \in Session
  <2>1. DefaultOf(goal) \in {g \in Watched(goal) : goal[g].owner = "nobody"} \cup {0}
    BY LatestIn DEF DefaultOf
  <2>2. OwnGoal(s, DefaultOf(goal))
    BY <2>1, <1>t DEF Watched, OwnGoal, TypeOK
  <2>3. EntryOf(goal, s) \in {0}
    BY <1>2, LatestIn DEF EntryOf, Watched
  <2> QED
    BY <2>2, <2>3
<1>7. OwnMarker(armed)
  <2>1. armed = Compute(registered, goal)
    BY DEF Init, MarkerInit
  <2>2. CASE armed = Absent
    BY <2>2, <1>5
  <2>3. CASE armed # Absent
    BY <2>1, <2>3, <1>6 DEF Compute, Named, OwnMarker
  <2> QED
    BY <2>2, <2>3
<1>8. OwnTexts
  BY <1>5, <1>7 DEF Init, MarkerInit, OwnTexts
<1> QED
  BY <1>3, <1>4, <1>8 DEF OwnGoals

\* Goal identity never crosses sessions: however stale a marker a hook reads, no
\* session is bound to, told of or held to a goal another one owns, and none owns
\* two goals, for any number of sessions, requests served at once and goals.
THEOREM GoalsStayOwn == Spec => []OwnGoals
<1>1. Init => TypeOK /\ OwnGoals
  BY InitType, OwnInit
<1>2. TypeOK /\ OwnGoals /\ [Next]_vars => TypeOK' /\ OwnGoals'
  BY StepType, OwnStep
<1> QED
  BY <1>1, <1>2, PTL DEF Spec
=============================================================================
