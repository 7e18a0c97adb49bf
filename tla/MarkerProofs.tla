---------------------------- MODULE MarkerProofs ----------------------------
(***************************************************************************)
(* Proofs about Hooks, continued: the marker is what compute makes of the  *)
(* registry and the store whenever nothing that writes it has overlapped,  *)
(* and always gives a session only entries of goals it is bound to, for    *)
(* any number of sessions, requests served at once and goals.              *)
(***************************************************************************)
EXTENDS HooksProofs, FiniteSetTheorems

-----------------------------------------------------------------------------
(* The inductive invariant *)

Busy(h) == handler[h].step # "idle"

\* The text says what compute would make of the registry and the goals now.
Current(text) == Mirrors(text, Compute(registered, goal))

\* What a request that nothing interferes with has in its hands.
InHands(h) ==
    /\ handler[h].step = "goals" => handler[h].auto = registered
    /\ handler[h].step \in {"open", "fill"} => Current(handler[h].new) /\ Readable(handler[h].new)
    /\ handler[h].step = "remove" => handler[h].new = Absent /\ Current(handler[h].new)
    /\ handler[h].step = "fill" => handler[h].file = "tmp" /\ tmp = Text("empty")
    /\ handler[h].step = "rename" => Current(tmp) /\ Readable(tmp)

OneAtWork == \A h, k \in Handler : Busy(h) /\ Busy(k) => h = k

\* On its way down the core takes a marker away that it puts back when it starts.
AtRest == \A h \in Handler : ~Busy(h)
Settled == AtRest => Current(armed) \/ (core # "up" /\ Marked)

IdleOK   == \A h \in Handler : ~Busy(h) => handler[h] = Idle
OwnersIn == \A g \in Goal : Kept(g) => goal[g].owner \in goal[g].bound \cup {"nobody"}
InHand   == alone => OneAtWork /\ (\A h \in Handler : InHands(h)) /\ Settled

Faithful == TypeOK /\ OwnGoals /\ IdleOK /\ OwnersIn /\ InHand

-----------------------------------------------------------------------------
(* The newest goal *)

\* A set of goals that is not empty has a newest one: the one with the fewest after it.
LEMMA LatestSome ==
  ASSUME NEW G, G \subseteq Goal, G # {}
  PROVE  Latest(G) \in G
<1>m. MaxGoal \in Nat
  BY MarkerAssumption
<1> DEFINE After(n) == (n + 1) .. MaxGoal
           T        == {After(n) : n \in G}
<1>1. T \subseteq FiniteSubsetsOf(Nat) /\ T # {}
  <2>1. ASSUME NEW n \in G PROVE After(n) \in FiniteSubsetsOf(Nat)
    <3>1. n \in Nat
      BY DEF Goal
    <3>2. IsFiniteSet(After(n))
      BY <1>m, <3>1, FS_Interval
    <3>3. After(n) \in SUBSET Nat
      BY <1>m, <3>1
    <3> QED
      BY <3>2, <3>3 DEF FiniteSubsetsOf
  <2> QED
    BY <2>1
<1>2. IsWellFoundedOn(StrictSubsetOrdering(Nat), FiniteSubsetsOf(Nat))
  BY FS_StrictSubsetOrderingWellFounded
<1>3. \E X \in T : \A Y \in T : ~ (<<Y, X>> \in StrictSubsetOrdering(Nat))
  <2> HIDE DEF T
  <2> QED
    BY <1>1, <1>2, WFMin
<1>4. PICK newest \in G : \A n \in G : ~ (<<After(n), After(newest)>> \in StrictSubsetOrdering(Nat))
  BY <1>3
<1>5. ASSUME NEW n \in G PROVE n <= newest
  <2>1. SUFFICES ASSUME ~(n <= newest) PROVE FALSE
    OBVIOUS
  <2>2. n \in 1 .. MaxGoal /\ newest \in 1 .. MaxGoal
    BY DEF Goal
  <2>3. After(n) \subseteq After(newest) /\ n \in After(newest) /\ n \notin After(n)
    BY <1>m, <2>1, <2>2
  <2>4. After(n) \in SUBSET Nat /\ After(newest) \in SUBSET Nat
    BY <1>m, <2>2
  <2>5. After(n) # After(newest)
    BY <2>3
  <2> QED
    BY <1>4, <2>3, <2>4, <2>5 DEF StrictSubsetOrdering
<1> QED
  BY <1>5 DEF Latest

LEMMA LatestZero == ASSUME NEW G, G \subseteq Goal PROVE Latest(G) = 0 <=> G = {}
<1>1. 0 \notin Goal
  BY DEF Goal
<1>2. Latest({}) = 0
  BY DEF Latest
<1> QED
  BY <1>1, <1>2, LatestSome

-----------------------------------------------------------------------------
(* What compute makes *)

LEMMA ComputeParts ==
  ASSUME NEW auto \in BOOLEAN, NEW gs
  PROVE  /\ Compute(auto, gs).auto = auto
         /\ Compute(auto, gs).default = DefaultOf(gs)
         /\ \A s \in Session : Compute(auto, gs).entry[s] = EntryOf(gs, s)
         /\ Compute(auto, gs).is =
              IF ~auto /\ DefaultOf(gs) = 0 /\ \A s \in Session : EntryOf(gs, s) = 0
              THEN "absent" ELSE "marker"
         /\ Compute(auto, gs) = Absent \/ Readable(Compute(auto, gs))
<1> DEFINE none == ~auto /\ DefaultOf(gs) = 0 /\ \A s \in Session : EntryOf(gs, s) = 0
<1>1. CASE none
  <2>1. Compute(auto, gs) = Absent
    BY <1>1 DEF Compute
  <2>2. /\ Absent.auto = FALSE /\ Absent.default = 0 /\ Absent.is = "absent"
        /\ \A s \in Session : Absent.entry[s] = 0
    BY DEF Absent, Text
  <2> QED
    BY <1>1, <2>1, <2>2
<1>2. CASE ~none
  <2> DEFINE entry == [s \in Session |-> EntryOf(gs, s)]
  <2>1. Compute(auto, gs) =
          [is |-> "marker", auto |-> auto, default |-> DefaultOf(gs), entry |-> entry]
    BY <1>2 DEF Compute
  <2>2. \A s \in Session : entry[s] = EntryOf(gs, s)
    OBVIOUS
  <2> HIDE DEF entry
  <2> QED
    BY <1>2, <2>1, <2>2 DEF Readable
<1> QED
  BY <1>1, <1>2

LEMMA ComputeCurrent == TypeOK => Current(Compute(registered, goal))
BY DEF Current, Mirrors

\* A directory nobody asked to watch has no marker.
LEMMA Unmarked == TypeOK /\ ~Marked => Compute(registered, goal) = Absent
<1> SUFFICES ASSUME TypeOK, ~Marked PROVE Compute(registered, goal) = Absent
  OBVIOUS
<1>1. Watched(goal) = {} /\ registered = FALSE
  BY DEF Marked, TypeOK
<1>2. DefaultOf(goal) = 0
  BY <1>1, LatestZero DEF DefaultOf
<1>3. \A s \in Session : EntryOf(goal, s) = 0
  BY <1>1, LatestZero DEF EntryOf
<1> QED
  BY <1>1, <1>2, <1>3 DEF Compute

\* A binding to a goal moves the marker's truth only to where Mirrors lets it be.
LEMMA BindingKeeps ==
  ASSUME TypeOK, OwnGoals, OwnersIn, Joined, registered' = registered
  PROVE  \A text : Mirrors(text, Compute(registered, goal))
                     => Mirrors(text, Compute(registered, goal))'
<1>1. PICK s \in Session, g \in Goal :
        /\ Kept(g) /\ OwnGoal(s, g)
        /\ goal' = [goal EXCEPT ![g].bound = @ \cup {s}]
  BY DEF Joined
<1>t. goal \in [Goal -> GoalState] /\ registered \in BOOLEAN /\ s # "nobody"
      /\ \A k \in Goal : goal[k].watching => Kept(k)
  BY MarkerAssumption DEF TypeOK
<1>2. \A k \in Goal : /\ goal'[k].watching = goal[k].watching /\ goal'[k].owner = goal[k].owner
                      /\ goal'[k].bound = IF k = g THEN goal[k].bound \cup {s}
                                          ELSE goal[k].bound
  BY <1>1, <1>t DEF GoalState
<1>3. Watched(goal') = Watched(goal) /\ Watched(goal) \subseteq Goal
  BY <1>2 DEF Watched
<1>4. DefaultOf(goal') = DefaultOf(goal)
  BY <1>2, <1>3 DEF DefaultOf
<1> DEFINE bound(gs, t) == {k \in Watched(gs) : t \in gs[k].bound}
           own(gs, t)   == {k \in bound(gs, t) : gs[k].owner = t}
<1>5. \A t \in Session, gs \in {goal, goal'} :
        EntryOf(gs, t) = Latest(IF own(gs, t) # {} THEN own(gs, t) ELSE bound(gs, t))
  BY DEF EntryOf
<1>6. ASSUME NEW t \in Session, bound(goal', t) = bound(goal, t)
      PROVE  EntryOf(goal', t) = EntryOf(goal, t)
  <2>1. own(goal', t) = own(goal, t)
    BY <1>2, <1>3, <1>6
  <2> QED
    BY <1>5, <1>6, <2>1
<1>7. \A t \in Session : t # s => EntryOf(goal', t) = EntryOf(goal, t)
  <2> SUFFICES ASSUME NEW t \in Session, t # s PROVE EntryOf(goal', t) = EntryOf(goal, t)
    OBVIOUS
  <2>1. bound(goal', t) = bound(goal, t)
    BY <1>2, <1>3
  <2> QED
    BY <1>6, <2>1
<1>8. \A k \in Goal : goal'[k].owner = goal[k].owner
  BY <1>2
<1>9. \A t \in Session : Compute(registered, goal).entry[t] \in Goal \cup {0}
  <2> SUFFICES ASSUME NEW t \in Session PROVE EntryOf(goal, t) \in Goal \cup {0}
    BY <1>t, ComputeParts
  <2>1. own(goal, t) \subseteq Goal /\ bound(goal, t) \subseteq Goal
    BY <1>3
  <2> HIDE DEF own, bound
  <2> QED
    BY <1>5, <2>1, LatestIn
<1>10. CASE EntryOf(goal', s) = EntryOf(goal, s)
  <2>1. \A t \in Session : EntryOf(goal', t) = EntryOf(goal, t)
    BY <1>7, <1>10
  <2>2. /\ Compute(registered, goal').is = Compute(registered, goal).is
        /\ Compute(registered, goal').auto = Compute(registered, goal).auto
        /\ Compute(registered, goal').default = Compute(registered, goal).default
        /\ \A t \in Session :
             Compute(registered, goal').entry[t] = Compute(registered, goal).entry[t]
    BY <1>4, <1>t, <2>1, ComputeParts
  <2> QED
    BY <1>8, <1>9, <2>2 DEF Mirrors
<1>11. CASE EntryOf(goal', s) # EntryOf(goal, s)
  <2>1. bound(goal', s) = bound(goal, s) \cup {g} /\ g \in Watched(goal) /\ g \notin bound(goal, s)
    <3>1. bound(goal', s) # bound(goal, s)
      BY <1>6, <1>11
    <3> QED
      BY <1>2, <1>3, <3>1
  <2>2. goal[g].owner = "nobody"
    <3>1. s \notin goal[g].bound
      BY <2>1
    <3>2. goal[g].owner # s
      BY <1>1, <1>t, <3>1 DEF OwnersIn
    <3> QED
      BY <1>1, <3>2 DEF OwnGoal, Kept, Goal
  <2>3. own(goal', s) = own(goal, s)
    BY <1>2, <1>3, <1>t, <2>1, <2>2
  <2>4. own(goal', s) = {}
    BY <1>5, <1>11, <2>1, <2>3
  <2>5. EntryOf(goal', s) \in bound(goal', s)
    <3>1. EntryOf(goal', s) = Latest(bound(goal', s))
      BY <1>5, <2>4
    <3>2. bound(goal', s) \subseteq Goal /\ bound(goal', s) # {}
      BY <1>3, <2>1
    <3> HIDE DEF bound
    <3> QED
      BY <3>1, <3>2, LatestSome
  <2>6. \A k \in bound(goal', s) : k \in Goal /\ goal[k].owner = "nobody"
    <3> SUFFICES ASSUME NEW k \in bound(goal', s) PROVE k \in Goal /\ goal[k].owner = "nobody"
      OBVIOUS
    <3>1. k \in Goal /\ Kept(k) /\ goal[k].owner # s
      BY <1>2, <1>3, <1>t, <2>4 DEF Watched
    <3>2. OwnGoal(s, k)
      <4>1. CASE k = g
        BY <1>1, <4>1
      <4>2. CASE k \in bound(goal, s)
        BY <3>1, <4>2 DEF OwnGoals, OwnBound
      <4> QED
        BY <2>1, <4>1, <4>2
    <3> QED
      BY <3>1, <3>2 DEF OwnGoal, Kept, Goal
  <2>7. DefaultOf(goal) # 0
    <3> DEFINE manual == {k \in Watched(goal) : goal[k].owner = "nobody"}
    <3>1. g \in manual /\ manual \subseteq Goal
      BY <1>3, <2>1, <2>2
    <3>2. DefaultOf(goal) = Latest(manual)
      BY DEF DefaultOf
    <3> HIDE DEF manual
    <3> QED
      BY <3>1, <3>2, LatestZero
  <2> DEFINE truth == Compute(registered, goal)
             next  == Compute(registered, goal')
  <2>8. next.is = truth.is /\ next.auto = truth.auto /\ next.default = truth.default
    BY <1>4, <1>t, <2>7, ComputeParts
  <2>9. next.entry[s] # 0 /\ goal'[next.entry[s]].owner = "nobody"
    <3>1. next.entry[s] \in bound(goal', s)
      BY <1>t, <2>5, ComputeParts
    <3> QED
      BY <1>8, <2>6, <3>1 DEF Goal
  <2>10. \A t \in Session : t # s => next.entry[t] = truth.entry[t]
    BY <1>7, <1>t, ComputeParts
  <2>11. \A t \in Session : truth.entry[t] \in Goal \cup {0}
    BY <1>9
  <2> HIDE DEF truth, next
  <2> SUFFICES ASSUME NEW text, Mirrors(text, truth)
               PROVE  Mirrors(text, Compute(registered, goal))'
    BY DEF truth
  <2>12. /\ text.is = next.is /\ text.auto = next.auto /\ text.default = next.default
         /\ \A t \in Session : \/ text.entry[t] = next.entry[t]
                               \/ next.entry[t] # 0 /\ goal'[next.entry[t]].owner = "nobody"
    BY <1>8, <2>8, <2>9, <2>10, <2>11 DEF Mirrors
  <2> QED
    BY <2>12 DEF Mirrors, next
<1> QED
  BY <1>10, <1>11

LEMMA CurrentKeeps ==
  ASSUME TypeOK, OwnGoals, OwnersIn, Same \/ Joined, registered' = registered
  PROVE  /\ \A text : Mirrors(text, Compute(registered, goal))
                        => Mirrors(text, Compute(registered, goal))'
         /\ Marked => Marked'
<1>1. CASE Same
  BY <1>1 DEF Same, Mirrors, Marked
<1>2. CASE Joined
  <2>1. \A g \in Goal : goal'[g].watching = goal[g].watching
    BY <1>2 DEF Joined, TypeOK, GoalState
  <2> QED
    BY <1>2, <2>1, BindingKeeps DEF Marked, Watched
<1> QED
  BY <1>1, <1>2

-----------------------------------------------------------------------------
(* Steps that leave the files and the work on them alone *)

LEMMA HandsKeep ==
  ASSUME TypeOK, OwnGoals, OwnersIn, Same \/ Joined, registered' = registered, tmp' = tmp,
         NEW h \in Handler, InHands(h),
         handler'[h].step = handler[h].step, handler'[h].auto = handler[h].auto,
         handler'[h].new = handler[h].new,
         handler[h].file = "tmp" => handler'[h].file = "tmp"
  PROVE  InHands(h)'
<1>1. \A text : Mirrors(text, Compute(registered, goal)) => Mirrors(text, Compute(registered, goal))'
  BY CurrentKeeps
<1> QED
  BY <1>1 DEF InHands, Current

\* As HandsKeep, for all handlers, and with the marker as it was.
LEMMA AllKeep ==
  ASSUME Faithful, Same \/ Joined,
         UNCHANGED <<registered, core, armed, tmp, alone>>,
         \A h \in Handler :
           /\ handler'[h].step = handler[h].step /\ handler'[h].auto = handler[h].auto
           /\ handler'[h].new = handler[h].new /\ handler'[h].file = handler[h].file
  PROVE  InHand'
<1>1. SUFFICES ASSUME alone PROVE OneAtWork' /\ (\A h \in Handler : InHands(h)') /\ Settled'
  BY DEF InHand
<1>2. OneAtWork /\ (\A h \in Handler : InHands(h)) /\ Settled
  BY <1>1 DEF Faithful, InHand
<1>3. OneAtWork'
  BY <1>2 DEF OneAtWork, Busy
<1>4. \A h \in Handler : InHands(h)'
  BY <1>2, HandsKeep DEF Faithful
<1>5. Settled'
  BY <1>2, CurrentKeeps DEF Faithful, Settled, AtRest, Busy, Current
<1> QED
  BY <1>3, <1>4, <1>5

LEMMA IdleStep == Idle.step = "idle"
BY DEF Idle

\* A request that begins has nothing in its hands yet; whether it is the only one is
\* what alone is for.
LEMMA BeginSafe ==
  ASSUME Faithful, NEW h \in Handler, NEW step \in {"list", "registry"}, NEW s, Begin(h, step, s)
  PROVE  IdleOK' /\ InHand'
<1>1. /\ handler[h] = Idle /\ alone' = Quiet
      /\ handler' = [handler EXCEPT ![h] = [Idle EXCEPT !.step = step, !.for = s]]
      /\ handler \in [Handler -> HandlerState]
  BY DEF Begin, Faithful, TypeOK
<1>2. handler'[h].step = step /\ \A k \in Handler : k # h => handler'[k] = handler[k]
  BY <1>1 DEF Idle
<1>3. IdleOK'
  BY <1>2 DEF Faithful, IdleOK, Busy
<1>4. ASSUME alone' PROVE OneAtWork' /\ (\A k \in Handler : InHands(k)') /\ Settled'
  <2>0. Quiet
    BY <1>1, <1>4, Zenon
  <2>1. \A k \in Handler : k # h => handler'[k].step = "idle"
    BY <1>2, <2>0, IdleStep DEF Quiet
  <2> QED
    BY <1>2, <2>1 DEF OneAtWork, InHands, Settled, AtRest, Busy
<1> QED
  BY <1>3, <1>4 DEF InHand

-----------------------------------------------------------------------------
(* The core's life *)

\* A file goes away under the handlers' hands.
LEMMA UnlinkSafe ==
  ASSUME Faithful, UNCHANGED <<registered, goal, tmp>>,
         \A h \in Handler : handler'[h] = [handler[h] EXCEPT !.file = Unlinked(@)]
  PROVE  /\ IdleOK'
         /\ OneAtWork => OneAtWork'
         /\ \A h \in Handler : InHands(h) => InHands(h)'
         /\ AtRest' => AtRest
<1>t. \A h \in Handler : handler[h] \in HandlerState
  BY DEF Faithful, TypeOK
<1>1. ASSUME NEW h \in Handler
      PROVE  /\ handler'[h].step = handler[h].step /\ handler'[h].auto = handler[h].auto
             /\ handler'[h].new = handler[h].new
             /\ handler[h].file = "tmp" => handler'[h].file = "tmp"
  BY <1>t DEF HandlerState, Unlinked
<1>2. [Idle EXCEPT !.file = Unlinked(@)] = Idle
  BY DEF Idle, Unlinked
<1>3. IdleOK'
  BY <1>1, <1>2 DEF Faithful, IdleOK, Busy
<1>4. \A h \in Handler : InHands(h) => InHands(h)'
  BY <1>1, HandsKeep DEF Faithful, Same
<1> QED
  BY <1>1, <1>3, <1>4 DEF OneAtWork, AtRest, Busy

LEMMA StopSafe == ASSUME Faithful, GracefulStop PROVE IdleOK' /\ InHand'
<1>t. handler \in [Handler -> HandlerState] /\ registered' = registered /\ goal' = goal
  BY DEF Faithful, TypeOK, GracefulStop, storeVars
<1>1. CASE Marked
  <2>1. \A h \in Handler : handler'[h] = [handler[h] EXCEPT !.file = Unlinked(@)]
    BY <1>1 DEF GracefulStop
  <2>2. Marked' /\ core' # "up" /\ UNCHANGED <<registered, goal, tmp, alone>>
    BY <1>1 DEF GracefulStop, storeVars, Marked
  <2> QED
    BY <2>1, <2>2, UnlinkSafe DEF InHand, Settled, Faithful
<1>2. CASE ~Marked
  <2>1. UNCHANGED <<registered, goal, handler, armed, tmp, alone>> /\ core = "up"
    BY <1>2 DEF GracefulStop, storeVars
  <2>2. ASSUME NEW h \in Handler, InHands(h) PROVE InHands(h)'
    BY <2>1, <2>2, HandsKeep DEF Faithful, Same
  <2>3. Settled => Settled'
    BY <2>1, CurrentKeeps DEF Settled, AtRest, Busy, Current, Faithful, Same
  <2> QED
    BY <2>1, <2>2, <2>3 DEF InHand, OneAtWork, Busy, Faithful, IdleOK
<1> QED
  BY <1>1, <1>2

LEMMA DisarmSafe == ASSUME Faithful, Disarm PROVE IdleOK' /\ InHand'
<1>1. \A h \in Handler : handler'[h] = [handler[h] EXCEPT !.file = Unlinked(@)]
  BY DEF Disarm
<1> QED
  BY <1>1, UnlinkSafe DEF Disarm, storeVars, InHand

\* Nobody is at work in a core that is not there, nor in one that has just come up.
LEMMA RestSafe ==
  ASSUME \A h \in Handler : handler'[h] = Idle,
         alone' => Current(armed)' \/ (core' # "up" /\ Marked')
  PROVE  IdleOK' /\ InHand'
<1>1. \A h \in Handler : handler'[h].step = "idle"
  BY DEF Idle
<1> QED
  BY <1>1 DEF IdleOK, InHand, OneAtWork, InHands, Settled, Busy

LEMMA QuietRests == ASSUME Faithful PROVE Quiet <=> AtRest
BY IdleStep, Zenon DEF Faithful, IdleOK, Quiet, AtRest, Busy

LEMMA CrashSafe == ASSUME Faithful, Crash PROVE IdleOK' /\ InHand'
<1>1. /\ \A h \in Handler : handler'[h] = Idle
      /\ UNCHANGED <<registered, goal, armed>> /\ core' # "up" /\ alone' = (alone /\ Quiet)
  BY DEF Crash, End, storeVars
<1>2. ASSUME alone' PROVE Current(armed)' \/ (core' # "up" /\ Marked')
  <2>1. Current(armed) \/ Marked
    BY <1>1, <1>2, QuietRests DEF Faithful, InHand, Settled
  <2> QED
    BY <1>1, <2>1, CurrentKeeps DEF Current, Faithful, Same
<1> QED
  BY <1>1, <1>2, RestSafe

LEMMA StartSafe == ASSUME Faithful, Start PROVE IdleOK' /\ InHand'
<1>1. Quiet /\ handler' = handler /\ registered' = registered /\ goal' = goal
  BY DEF Faithful, TypeOK, Start, storeVars
<1>2. \A h \in Handler : handler'[h] = Idle
  BY <1>1 DEF Quiet
<1>3. CASE Marked
  <2>1. armed' = Compute(registered', goal')
    BY <1>1, <1>3 DEF Start
  <2>2. Current(armed)'
    BY <2>1 DEF Current, Mirrors
  <2> QED
    BY <1>2, <2>2, RestSafe
<1>4. CASE ~Marked
  <2>1. armed' = armed /\ alone' = alone
    BY <1>4 DEF Start
  <2>2. ASSUME alone PROVE Current(armed)'
    <3>1. Current(armed)
      BY <1>1, <1>4, <2>2, QuietRests DEF Faithful, InHand, Settled
    <3> QED
      BY <1>1, <2>1, <3>1, CurrentKeeps DEF Current, Faithful, Same
  <2> QED
    BY <1>2, <2>1, <2>2, RestSafe
<1> QED
  BY <1>3, <1>4

-----------------------------------------------------------------------------
(* Requests at work *)

\* A handler at work has others' files in its way only when it is not alone.
LEMMA OneServes ==
  ASSUME Faithful, NEW h \in Handler, Busy(h), alone' = alone,
         \A k \in Handler : k # h =>
            \/ handler'[k] = handler[k]
            \/ handler'[k] = [handler[k] EXCEPT !.file = Unlinked(@)]
            \/ handler'[k] = [handler[k] EXCEPT !.file = Renamed(@)],
         handler'[h] = Idle \/ handler'[h].step # "idle",
         alone => InHands(h)' /\ (handler'[h] = Idle => Current(armed)')
  PROVE  IdleOK' /\ InHand'
<1>t. \A k \in Handler : handler[k] \in HandlerState
  BY DEF Faithful, TypeOK
<1>1. /\ [Idle EXCEPT !.file = Unlinked(@)] = Idle
      /\ [Idle EXCEPT !.file = Renamed(@)] = Idle
  BY DEF Idle, Unlinked, Renamed
<1>2. ASSUME NEW k \in Handler, k # h
      PROVE  /\ handler'[k].step = handler[k].step
             /\ handler[k] = Idle => handler'[k] = Idle
  <2>1. handler'[k].step = handler[k].step
    BY <1>t, <1>2 DEF HandlerState
  <2>2. handler[k] = Idle => handler'[k] = Idle
    BY <1>1, <1>2
  <2> QED
    BY <2>1, <2>2
<1>3. IdleOK'
  BY <1>2, IdleStep DEF Faithful, IdleOK, Busy
<1>4. ASSUME alone' PROVE OneAtWork' /\ (\A k \in Handler : InHands(k)') /\ Settled'
  <2>0. alone
    BY <1>4, Zenon
  <2>1. \A k \in Handler : k # h => handler'[k].step = "idle"
    BY <1>2, <2>0 DEF Faithful, InHand, OneAtWork, Busy
  <2>2. OneAtWork'
    BY <2>1 DEF OneAtWork, Busy
  <2>3. \A k \in Handler : InHands(k)'
    BY <2>0, <2>1 DEF InHands
  <2>4. Settled'
    BY <2>0, Zenon DEF Settled, AtRest, Busy
  <2> QED
    BY <2>2, <2>3, <2>4
<1> QED
  BY <1>3, <1>4 DEF InHand

LEMMA ServeSafe == ASSUME Faithful, NEW h \in Handler, HandlerStep(h) PROVE IdleOK' /\ InHand'
<1>t. handler \in [Handler -> HandlerState] /\ handler[h] \in HandlerState
  BY DEF Faithful, TypeOK
<1>h. alone => InHands(h)
  BY DEF Faithful, InHand
<1>c. ASSUME registered' = registered, goal' = goal
      PROVE  \A text : Current(text) <=> Mirrors(text, Compute(registered, goal))'
  BY <1>c DEF Current, Mirrors
<1>1. CASE ListGoals(h) \/ \E g \in Goal : UnwatchNext(h, g)
  <2>1. /\ Busy(h) /\ handler'[h].step \in {"registry", "unwatch"} /\ alone' = alone
        /\ \A k \in Handler : k # h => handler'[k] = handler[k]
    BY <1>1, <1>t DEF ListGoals, UnwatchNext, Busy, HandlerState
  <2> QED
    BY <2>1, OneServes, IdleStep DEF InHands
<1>2. CASE ReadRegistry(h)
  <2>1. /\ Busy(h) /\ handler'[h].step = "goals" /\ handler'[h].auto = registered'
        /\ alone' = alone
        /\ \A k \in Handler : k # h => handler'[k] = handler[k]
    BY <1>2, <1>t DEF ReadRegistry, Busy, HandlerState, storeVars
  <2> QED
    BY <2>1, OneServes, IdleStep DEF InHands
<1>3. CASE ReadGoals(h)
  <2> DEFINE new == Compute(handler[h].auto, goal)
  <2>1. /\ Busy(h) /\ handler[h].step = "goals" /\ alone' = alone
        /\ handler'[h].step = IF Readable(new) THEN "open" ELSE "remove"
        /\ handler'[h].new = new
        /\ registered' = registered /\ goal' = goal
        /\ \A k \in Handler : k # h => handler'[k] = handler[k]
    BY <1>3, <1>t DEF ReadGoals, Busy, HandlerState, storeVars
  <2>2. ASSUME alone PROVE InHands(h)'
    <3>1. new = Compute(registered, goal)
      BY <1>h, <2>1, <2>2 DEF InHands
    <3>2. Current(new)
      BY <3>1, ComputeCurrent DEF Faithful
    <3>3. Readable(new) \/ new = Absent
      BY <3>1, ComputeParts DEF Faithful, TypeOK
    <3> HIDE DEF new
    <3>4. Current(handler[h].new)'
      BY <1>c, <2>1, <3>2 DEF Current
    <3> QED
      BY <2>1, <3>3, <3>4 DEF InHands, Readable
  <2> QED
    BY <2>1, <2>2, OneServes, IdleStep
<1>4. CASE RemoveMarker(h)
  <2>1. /\ Busy(h) /\ handler[h].step = "remove" /\ alone' = alone /\ armed' = Absent
        /\ handler'[h] = Idle
        /\ registered' = registered /\ goal' = goal
        /\ \A k \in Handler : k # h => handler'[k] = [handler[k] EXCEPT !.file = Unlinked(@)]
    BY <1>4 DEF RemoveMarker, Busy, storeVars
  <2>2. ASSUME alone PROVE InHands(h)' /\ Current(armed)'
    <3>1. Current(Absent)
      BY <1>h, <2>1, <2>2 DEF InHands
    <3>2. Current(armed)'
      BY <1>c, <2>1, <3>1 DEF Current
    <3> QED
      BY <2>1, <3>2, IdleStep DEF InHands
  <2> QED
    BY <2>1, <2>2, OneServes
<1>5. CASE OpenTmp(h)
  <2>1. /\ Busy(h) /\ handler[h].step = "open" /\ alone' = alone /\ tmp' = Text("empty")
        /\ handler'[h].step = "fill" /\ handler'[h].file = "tmp"
        /\ handler'[h].new = handler[h].new
        /\ registered' = registered /\ goal' = goal
        /\ \A k \in Handler : k # h => handler'[k] = handler[k]
    BY <1>5, <1>t DEF OpenTmp, Busy, HandlerState, storeVars
  <2>2. ASSUME alone PROVE InHands(h)'
    <3>1. Current(handler[h].new) /\ Readable(handler[h].new)
      BY <1>h, <2>1, <2>2 DEF InHands
    <3>2. Current(handler[h].new)' /\ Readable(handler[h].new)'
      BY <1>c, <2>1, <3>1 DEF Current, Readable
    <3> QED
      BY <2>1, <3>2 DEF InHands
  <2> QED
    BY <2>1, <2>2, OneServes, IdleStep
<1>6. CASE Fill(h)
  <2>1. /\ Busy(h) /\ handler[h].step = "fill" /\ alone' = alone
        /\ handler'[h].step = "rename"
        /\ handler[h].file = "tmp" => tmp' \in Written(tmp, handler[h].new)
        /\ registered' = registered /\ goal' = goal
        /\ \A k \in Handler : k # h => handler'[k] = handler[k]
    BY <1>6, <1>t DEF Fill, Busy, HandlerState, storeVars
  <2>2. ASSUME alone PROVE InHands(h)'
    <3>1. /\ Current(handler[h].new) /\ Readable(handler[h].new)
          /\ handler[h].file = "tmp" /\ tmp = Text("empty")
      BY <1>h, <2>1, <2>2 DEF InHands
    <3>2. Text("empty").is = "empty"
      BY DEF Text
    <3>3. tmp' = handler[h].new
      BY <2>1, <3>1, <3>2 DEF Written
    <3>4. Current(tmp)' /\ Readable(tmp)'
      BY <1>c, <2>1, <3>1, <3>3 DEF Current, Readable
    <3> QED
      BY <2>1, <3>4 DEF InHands
  <2> QED
    BY <2>1, <2>2, OneServes, IdleStep
<1>7. CASE Rename(h)
  <2>1. /\ Busy(h) /\ handler[h].step = "rename" /\ alone' = alone
        /\ handler'[h] = Idle
        /\ tmp # Absent => armed' = tmp
        /\ registered' = registered /\ goal' = goal
        /\ \A k \in Handler : k # h => \/ handler'[k] = handler[k]
                                       \/ handler'[k] = [handler[k] EXCEPT !.file = Renamed(@)]
    BY <1>7, <1>t DEF Rename, Busy, storeVars
  <2>2. ASSUME alone PROVE InHands(h)' /\ Current(armed)'
    <3>1. Current(tmp) /\ Readable(tmp)
      BY <1>h, <2>1, <2>2 DEF InHands
    <3>2. armed' = tmp
      BY <2>1, <3>1 DEF Readable, Absent, Text
    <3>3. Current(armed)'
      BY <1>c, <2>1, <3>1, <3>2 DEF Current
    <3> QED
      BY <2>1, <3>3, IdleStep DEF InHands
  <2> QED
    BY <2>1, <2>2, OneServes
<1> QED
  BY <1>1, <1>2, <1>3, <1>4, <1>5, <1>6, <1>7 DEF HandlerStep, ResyncStep

-----------------------------------------------------------------------------
(* All steps *)

LEMMA OwnersStay == TypeOK /\ OwnGoals /\ OwnersIn /\ [Next]_vars => OwnersIn'
<1> SUFFICES ASSUME TypeOK, OwnGoals, OwnersIn, [Next]_vars, NEW g \in Goal, Kept(g)'
             PROVE  goal'[g].owner \in goal'[g].bound \cup {"nobody"}
  BY DEF OwnersIn
<1>t. goal \in [Goal -> GoalState]
  BY DEF TypeOK
<1>0. ASSUME goal'[g].is = goal[g].is, goal'[g].owner = goal[g].owner,
             goal[g].bound \subseteq goal'[g].bound
      PROVE  goal'[g].owner \in goal'[g].bound \cup {"nobody"}
  BY <1>0 DEF OwnersIn, Kept
<1>1. CASE Same
  BY <1>0, <1>1 DEF Same
<1>2. ASSUME NEW s \in Session \cup {"nobody"}, Made(s)
      PROVE  goal'[g].owner \in goal'[g].bound \cup {"nobody"}
  <2>1. goal'[g] = goal[g] \/ goal'[g] = NewGoal(s)
    BY <1>2, <1>t DEF Made
  <2> QED
    BY <1>0, <2>1, NewGoalType
<1>3. CASE Unwatched \/ Joined
  <2>1. /\ goal'[g].is = goal[g].is /\ goal'[g].owner = goal[g].owner
        /\ goal[g].bound \subseteq goal'[g].bound
    BY <1>3, <1>t DEF Unwatched, Joined, GoalState
  <2> QED
    BY <1>0, <2>1
<1>4. CASE Removed
  <2>1. goal'[g] = goal[g] \/ goal'[g].is = "deleted"
    BY <1>4, <1>t, GoalVariants DEF Removed
  <2> QED
    BY <1>0, <2>1 DEF Kept
<1> QED
  BY <1>1, <1>2, <1>3, <1>4, GoalChanges DEF MadeAuto

LEMMA HookSafe ==
  ASSUME Faithful, NEW s \in Session,
         \/ PromptRead(s) \/ PromptGivesUp(s) \/ StopRead(s) \/ EndRead(s) \/ Creates(s) \/ HookStep(s)
  PROVE  IdleOK' /\ InHand'
<1>t. \A h \in Handler : handler[h] \in HandlerState
  BY DEF Faithful, TypeOK
<1>0. ASSUME UNCHANGED <<registered, core, handler, armed, tmp, alone>>, Same \/ Joined
      PROVE  IdleOK' /\ InHand'
  BY <1>0, AllKeep DEF Faithful, IdleOK, Busy
<1>1. CASE PromptRead(s) \/ StopRead(s) \/ EndRead(s)
  BY <1>0, <1>1 DEF PromptRead, StopRead, EndRead, markerVars, storeVars, Same
<1>2. CASE PromptGivesUp(s)
  <2>1. \A h \in Handler : handler'[h] = IF handler[h].for = s
                                         THEN [handler[h] EXCEPT !.for = "nobody"]
                                         ELSE handler[h]
    BY <1>2 DEF PromptGivesUp
  <2>2. ASSUME NEW h \in Handler
        PROVE  /\ handler'[h].step = handler[h].step /\ handler'[h].auto = handler[h].auto
               /\ handler'[h].new = handler[h].new /\ handler'[h].file = handler[h].file
    BY <1>t, <2>1 DEF HandlerState
  <2>3. UNCHANGED <<registered, core, armed, tmp, alone>> /\ Same
    BY <1>2 DEF PromptGivesUp, storeVars, Same
  <2>4. Idle.for # s
    BY MarkerAssumption DEF Idle
  <2>5. IdleOK'
    BY <2>1, <2>2, <2>4 DEF Faithful, IdleOK, Busy
  <2> QED
    BY <2>2, <2>3, <2>5, AllKeep
<1>3. CASE Creates(s)
  BY <1>3, BeginSafe DEF Creates, PromptCreate, CreateAutoGoal, Handler
<1>4. CASE HookStep(s)
  <2>1. CASE PromptBind(s) \/ StopGate(s)
    <3>1. Same \/ Joined
      BY <2>1, BindingJoins, HookTypes DEF PromptBind, StopGate, OwnGoals, OwnHooks, Faithful
    <3> QED
      BY <1>0, <2>1, <3>1 DEF PromptBind, StopGate
  <2>2. CASE PromptAnswered(s) \/ PromptNote(s) \/ EndTold(s)
    BY <1>0, <2>2 DEF PromptAnswered, PromptNote, EndTold, markerVars, storeVars, Same
  <2>3. CASE \E h \in Http : StopAsk(s, h)
    <3>1. CASE \E h \in Http : Begin(h, "registry", "nobody")
      BY <3>1, BeginSafe DEF Handler
    <3>2. CASE UNCHANGED markerVars
      BY <1>0, <3>2 DEF markerVars, storeVars, Same
    <3> QED
      BY <2>3, <3>1, <3>2 DEF StopAsk
  <2> QED
    BY <1>4, <2>1, <2>2, <2>3 DEF HookStep
<1> QED
  BY <1>1, <1>2, <1>3, <1>4

LEMMA EventSafe == ASSUME Faithful, Event PROVE IdleOK' /\ InHand'
<1>1. CASE Request
  <2>1. \E h \in Handler, step \in {"list", "registry"} : Begin(h, step, "nobody")
    BY <1>1 DEF Request, Touch, Watch, CloseGoal, DeleteGoal, Register, Unregister, Handler
  <2> QED
    BY <2>1, BeginSafe
<1> QED
  BY <1>1, StopSafe, DisarmSafe DEF Event

LEMMA NextSafe == Faithful /\ [Next]_vars => Faithful'
<1> SUFFICES ASSUME Faithful, [Next]_vars PROVE Faithful'
  OBVIOUS
<1>1. TypeOK' /\ OwnGoals' /\ OwnersIn'
  BY StepType, OwnStep, OwnersStay DEF Faithful
<1>2. CASE UNCHANGED vars
  <2>1. UNCHANGED <<registered, core, handler, armed, tmp, alone>> /\ Same
    BY <1>2 DEF vars, markerVars, storeVars, Same
  <2> QED
    BY <1>1, <2>1, AllKeep DEF Faithful, IdleOK, Busy
<1>3. CASE Next
  <2>1. IdleOK' /\ InHand'
    BY <1>3, EventSafe, StartSafe, CrashSafe, ServeSafe, HookSafe DEF Next, Serve
  <2> QED
    BY <1>1, <2>1 DEF Faithful
<1> QED
  BY <1>2, <1>3

LEMMA InitFaithful == Init => Faithful
<1> SUFFICES ASSUME Init PROVE Faithful
  OBVIOUS
<1>1. TypeOK /\ OwnGoals
  BY InitType, OwnInit
<1>2. \A h \in Handler : handler[h] = Idle
  BY DEF Init, MarkerInit
<1>3. IdleOK
  BY <1>2 DEF IdleOK
<1>4. OwnersIn
  <2>1. PICK old \in {NoGoal, NewGoal("nobody")} :
          goal = [g \in Goal |-> IF g = 1 THEN old ELSE NoGoal]
    BY DEF Init, MarkerInit
  <2>2. \A g \in Goal : goal[g].owner = "nobody"
    BY <2>1, NewGoalType DEF NoGoal
  <2> QED
    BY <2>2 DEF OwnersIn
<1>5. InHand
  <2>1. Current(armed)
    BY <1>1, ComputeCurrent DEF Init, MarkerInit
  <2> QED
    BY <1>2, <2>1, IdleStep DEF InHand, OneAtWork, InHands, Settled, Busy
<1> QED
  BY <1>1, <1>3, <1>4, <1>5 DEF Faithful

\* Whatever requests, hooks, stops and crashes come in whatever order, a core that is up
\* with nothing in hand has published what compute makes of the registry and the store,
\* unless two requests have overlapped, it died over one, or somebody disarmed.
THEOREM AlwaysDerived == Spec => []Derived
<1>1. Faithful => Derived
  BY QuietRests, Zenon DEF Faithful, InHand, Settled, Current, Derived
<1> QED
  BY <1>1, InitFaithful, NextSafe, PTL DEF Spec

\* By what compute makes of it, a goal a session owns is its entry, and a goal nobody owns
\* leaves the directory a default.
LEMMA ComputeOwn ==
  ASSUME TypeOK, OwnGoals, OwnersIn, NEW s \in Session, NEW g \in Watched(goal), goal[g].owner = s
  PROVE  EntryOf(goal, s) = g
<1>1. g \in Goal /\ Kept(g) /\ s # "nobody"
  BY MarkerAssumption DEF Watched, TypeOK
<1>2. s \in goal[g].bound
  BY <1>1 DEF OwnersIn
<1> DEFINE bound == {k \in Watched(goal) : s \in goal[k].bound}
           own   == {k \in bound : goal[k].owner = s}
<1>3. own = {g}
  <2>1. \A k \in own : Kept(k) /\ k \in Owned(s)
    BY DEF Watched, Owned, TypeOK
  <2>2. g \in own /\ g \in Owned(s)
    BY <1>1, <1>2 DEF Owned
  <2> QED
    BY <2>1, <2>2 DEF OwnGoals, OneGoalEach
<1>4. Latest({g}) \in {g}
  BY <1>1, LatestSome
<1>5. EntryOf(goal, s) = Latest(own)
  BY <1>3 DEF EntryOf
<1> QED
  BY <1>3, <1>4, <1>5

LEMMA ComputeDefault ==
  ASSUME NEW g \in Watched(goal), goal[g].owner = "nobody"
  PROVE  DefaultOf(goal) # 0
<1> DEFINE G == {k \in Watched(goal) : goal[k].owner = "nobody"}
<1>1. g \in G /\ G \subseteq Goal
  BY DEF Watched
<1> QED
  BY <1>1, LatestZero DEF DefaultOf

\* However requests, hooks, crashes and restarts fall, the marker at rest holds a session to
\* its own goal, and never loses one that was told of a goal still watched: what the Stop
\* hook concludes from a lost entry is right then.
THEOREM NeverLost == Spec => []NamedWhileWatched
<1>1. Faithful => NamedWhileWatched
  <2> SUFFICES ASSUME Faithful, core = "up", Quiet, alone,
                      NEW s \in Session, NEW g \in Watched(goal), goal[g].owner = s \/ instructed[s] = g
               PROVE  /\ Readable(armed) /\ Named(armed, s) # 0
                      /\ goal[g].owner = s => Named(armed, s) = g
    BY DEF NamedWhileWatched
  <2> DEFINE truth == Compute(registered, goal)
  <2>1. TypeOK /\ OwnGoals /\ OwnersIn /\ Mirrors(armed, truth)
    BY QuietRests DEF Faithful, InHand, Settled, Current
  <2>2. registered \in BOOLEAN /\ g \in Goal /\ Kept(g) /\ g # 0
    BY <2>1 DEF TypeOK, Watched, Goal
  <2>3. /\ truth.default = DefaultOf(goal) /\ truth.entry[s] = EntryOf(goal, s)
        /\ DefaultOf(goal) # 0 \/ EntryOf(goal, s) # 0 => truth.is = "marker"
    BY <2>2, ComputeParts
  <2> HIDE DEF truth
  <2>4. CASE goal[g].owner = s
    <3>1. EntryOf(goal, s) = g /\ s # "nobody"
      BY <2>1, <2>4, ComputeOwn, MarkerAssumption
    <3>2. armed.entry[s] = g /\ armed.is = "marker"
      BY <2>1, <2>2, <2>3, <2>4, <3>1 DEF Mirrors
    <3> QED
      BY <2>2, <3>2 DEF Named, Readable
  <2>5. CASE goal[g].owner # s
    <3>1. OwnGoal(s, g)
      BY <2>1, <2>5 DEF OwnGoals, OwnHooks
    <3>2. goal[g].owner = "nobody"
      BY <2>2, <2>5, <3>1 DEF OwnGoal, Kept
    <3>3. armed.default # 0 /\ armed.is = "marker"
      BY <2>1, <2>3, <3>2, ComputeDefault DEF Mirrors
    <3> QED
      BY <2>5, <3>3 DEF Named, Readable
  <2> QED
    BY <2>4, <2>5
<1> QED
  BY <1>1, InitFaithful, NextSafe, PTL DEF Spec

-----------------------------------------------------------------------------
(* Entries of a session's own *)

HasPart(s, g)    == g = 0 \/ goal[g].is = "deleted" \/ s \in goal[g].bound
PartMarker(text) == \A s \in Session : HasPart(s, text.entry[s])
PartTexts        == \A text \in Texts : PartMarker(text)

Ends(s)   == hook[s].step = "end" => hook[s].goal # 0 /\ HasPart(s, hook[s].goal)
OwnTurns  == TypeOK /\ OwnGoals /\ PartTexts /\ \A s \in Session : Ends(s)

\* Goals are deleted for good, and a binding is never taken back before.
LEMMA PartStays ==
  TypeOK /\ OwnGoals /\ [Next]_vars =>
    \A s \in Session, g \in Goal \cup {0} : HasPart(s, g) => HasPart(s, g)'
<1> SUFFICES ASSUME TypeOK, OwnGoals, [Next]_vars, NEW s \in Session, NEW g \in Goal,
                    HasPart(s, g)
             PROVE  HasPart(s, g)'
  BY DEF HasPart
<1>t. goal \in [Goal -> GoalState] /\ 0 \notin Goal
  BY MarkerAssumption DEF TypeOK, Goal
<1>0. ASSUME goal'[g].is = goal[g].is, goal[g].bound \subseteq goal'[g].bound
      PROVE  HasPart(s, g)'
  BY <1>0, <1>t DEF HasPart
<1>1. CASE Same
  BY <1>0, <1>1 DEF Same
<1>2. ASSUME NEW o \in Session \cup {"nobody"}, Made(o) PROVE HasPart(s, g)'
  <2>1. PICK k \in Goal : goal[k] = NoGoal /\ goal' = [goal EXCEPT ![k] = NewGoal(o)]
    BY <1>2 DEF Made
  <2>2. NoGoal.is # "deleted" /\ NoGoal.bound = {}
    BY DEF NoGoal
  <2>3. k # g
    BY <1>t, <2>1, <2>2 DEF HasPart
  <2> QED
    BY <1>0, <1>t, <2>1, <2>3
<1>3. CASE Unwatched \/ Joined
  <2>1. goal'[g].is = goal[g].is /\ goal[g].bound \subseteq goal'[g].bound
    BY <1>3, <1>t DEF Unwatched, Joined, GoalState
  <2> QED
    BY <1>0, <2>1
<1>4. CASE Removed
  <2>1. goal'[g] = goal[g] \/ goal'[g].is = "deleted"
    BY <1>4, <1>t, GoalVariants DEF Removed
  <2> QED
    BY <1>0, <2>1 DEF HasPart
<1> QED
  BY <1>1, <1>2, <1>3, <1>4, GoalChanges DEF MadeAuto

LEMMA ComputePart == ASSUME NEW auto \in BOOLEAN PROVE PartMarker(Compute(auto, goal))
<1>1. ASSUME NEW s \in Session PROVE HasPart(s, EntryOf(goal, s))
  <2>1. EntryOf(goal, s) \in {g \in Watched(goal) : s \in goal[g].bound} \cup {0}
    BY LatestIn DEF EntryOf
  <2> QED
    BY <2>1 DEF HasPart
<1> QED
  BY <1>1, ComputeParts DEF PartMarker

LEMMA FromPart ==
  ASSUME PartTexts, NEW text, From(text)
  PROVE  PartMarker(text)
<1>1. CASE text \in Texts
  BY <1>1 DEF PartTexts
<1>2. CASE text \in {Text(is) : is \in {"absent", "empty", "garbled"}}
  BY <1>2 DEF Text, PartMarker, HasPart
<1>3. CASE text \in {Compute(auto, goal) : auto \in BOOLEAN}
  BY <1>3, ComputePart
<1> QED
  BY <1>1, <1>2, <1>3 DEF From

\* A text holds an entry, or none, for each session.
LEMMA EntryType == \A text \in Content, s \in Session : text.entry[s] \in Goal \cup {0}
BY DEF Content, Book

LEMMA TextsPart == OwnTurns /\ [Next]_vars => PartTexts'
<1> SUFFICES ASSUME OwnTurns, [Next]_vars PROVE PartTexts'
  OBVIOUS
<1>t. TypeOK'
  BY StepType DEF OwnTurns
<1>1. /\ armed' \in Content /\ tmp' \in Content
      /\ \A h \in Handler : handler'[h].new \in Content
  BY <1>t DEF TypeOK, HandlerState
<1>2. ASSUME NEW text \in Content, From(text)
      PROVE  \A s \in Session : HasPart(s, text.entry[s])'
  BY <1>2, FromPart, EntryType, PartStays DEF OwnTurns, PartMarker
<1>3. /\ From(armed') /\ From(tmp')
      /\ \A h \in Handler : From(handler'[h].new)
  BY TextSources DEF OwnTurns
<1>4. ASSUME NEW text \in Texts' PROVE \A s \in Session : HasPart(s, text.entry[s])'
  <2>1. text \in Content /\ From(text)
    BY <1>1, <1>3, <1>4 DEF Texts, Handler
  <2> QED
    BY <1>2, <2>1
<1> QED
  BY <1>4 DEF PartTexts, PartMarker

\* Only EndRead makes a hook one that ends a turn, of the entry it has read.
LEMMA EndsFrom ==
  ASSUME TypeOK, [Next]_vars, NEW s \in Session
  PROVE  \/ hook'[s] = hook[s] \/ hook'[s].step # "end"
         \/ hook'[s].goal = armed.entry[s] /\ armed.entry[s] # 0
<1> DEFINE Fine(t) == \/ hook'[t] = hook[t] \/ hook'[t].step # "end"
                      \/ hook'[t].goal = armed.entry[t] /\ armed.entry[t] # 0
<1> SUFFICES Fine(s)
  OBVIOUS
<1>n. NoHook.step = "none"
  BY DEF NoHook
<1>1. ASSUME UNCHANGED hook PROVE Fine(s)
  BY <1>1
<1>2. ASSUME NEW t \in Session, Done(t) PROVE Fine(s)
  BY <1>2, <1>n, DoneOnly
<1>3. ASSUME NEW t \in Session, NEW step, NEW g, NEW book, Readied(t, step, g, book),
             step # "end" \/ (g = armed.entry[t] /\ g # 0)
      PROVE  Fine(s)
  <2>1. /\ hook'[t] = [step |-> step, goal |-> g, book |-> book]
        /\ \A o \in Session : o # t => hook'[o] = hook[o]
    BY <1>3 DEF TypeOK, Readied
  <2>2. hook'[t].step = step /\ hook'[t].goal = g
    BY <2>1
  <2> QED
    BY <1>3, <2>1, <2>2
<1> HIDE DEF Fine
<1>4. CASE Crash
  <2>1. hook'[s] = NoHook \/ hook'[s] = hook[s]
    BY <1>4 DEF Crash
  <2> QED
    BY <1>n, <2>1 DEF Fine
<1>5. ASSUME NEW t \in Session, PromptRead(t) \/ PromptGivesUp(t) \/ StopRead(t) \/ EndRead(t)
      PROVE  Fine(s)
  <2>1. CASE PromptRead(t)
    BY <1>3, <2>1 DEF PromptRead
  <2>2. CASE PromptGivesUp(t)
    BY <1>2, <2>2 DEF PromptGivesUp
  <2>3. CASE StopRead(t)
    BY <1>3, <2>3 DEF StopRead
  <2>4. CASE EndRead(t)
    BY <1>3, <2>4 DEF EndRead, OwnEntry
  <2> QED
    BY <1>5, <2>1, <2>2, <2>3, <2>4
<1>6. ASSUME NEW t \in Session, Creates(t) PROVE Fine(s)
  <2>1. \E g : Readied(t, "wait", g, hook[t].book)
    BY <1>6 DEF Creates, PromptCreate
  <2> QED
    BY <1>3, <2>1
<1>7. ASSUME NEW t \in Session, HookStep(t) PROVE Fine(s)
  <2>1. CASE PromptBind(t)
    BY <1>3, <2>1 DEF PromptBind
  <2>2. CASE PromptAnswered(t)
    BY <1>2, <1>3, <2>2 DEF PromptAnswered
  <2>3. CASE PromptNote(t) \/ StopGate(t) \/ EndTold(t) \/ \E h \in Http : StopAsk(t, h)
    BY <1>2, <2>3 DEF PromptNote, StopGate, EndTold, StopAsk
  <2> QED
    BY <1>7, <2>1, <2>2, <2>3 DEF HookStep
<1> QED
  BY <1>1, <1>4, <1>5, <1>6, <1>7 DEF Next, Serve, vars

LEMMA TurnsStep == OwnTurns /\ [Next]_vars => OwnTurns'
<1> SUFFICES ASSUME OwnTurns, [Next]_vars PROVE OwnTurns'
  OBVIOUS
<1>1. TypeOK' /\ OwnGoals' /\ PartTexts'
  BY StepType, OwnStep, TextsPart DEF OwnTurns
<1>2. ASSUME NEW s \in Session, hook'[s].step = "end"
      PROVE  hook'[s].goal # 0 /\ HasPart(s, hook'[s].goal)
             /\ hook'[s].goal \in Goal \cup {0}
  <2>1. hook'[s].goal \in Goal \cup {0}
    BY <1>1 DEF TypeOK, HookState
  <2>2. \/ hook'[s] = hook[s]
        \/ hook'[s].goal = armed.entry[s] /\ armed.entry[s] # 0
    BY <1>2, EndsFrom DEF OwnTurns
  <2>3. HasPart(s, armed.entry[s])
    BY DEF OwnTurns, PartTexts, PartMarker, Texts
  <2> QED
    BY <1>2, <2>1, <2>2, <2>3 DEF OwnTurns, Ends
<1>3. \A s \in Session : Ends(s)'
  <2>1. \A s \in Session, g \in Goal \cup {0} : HasPart(s, g) => HasPart(s, g)'
    BY PartStays DEF OwnTurns
  <2>2. ASSUME NEW s \in Session, hook'[s].step = "end"
        PROVE  hook'[s].goal # 0 /\ HasPart(s, hook[s].goal)'
    BY <1>2, <2>1, <2>2 DEF HasPart
  <2> QED
    BY <2>2 DEF Ends
<1> QED
  BY <1>1, <1>3 DEF OwnTurns

LEMMA InitTurns == Init => OwnTurns
<1> SUFFICES ASSUME Init PROVE OwnTurns
  OBVIOUS
<1>t. TypeOK /\ OwnGoals
  BY InitType, OwnInit
<1>1. \A h \in Handler : handler[h].new = Absent
  BY DEF Init, MarkerInit, Idle
<1>2. PartMarker(Absent) /\ tmp = Absent
  BY DEF Init, MarkerInit, Absent, Text, PartMarker, HasPart
<1>3. PartMarker(armed)
  BY <1>t, ComputePart DEF Init, MarkerInit, TypeOK
<1>4. \A s \in Session : Ends(s)
  BY DEF Init, NoHook, Ends
<1> QED
  BY <1>t, <1>1, <1>2, <1>3, <1>4 DEF OwnTurns, PartTexts, Texts

\* However stale the marker it read, a SessionEnd hook ends the turn only of a goal its
\* session is bound to, or of one that is gone, for any number of sessions, requests
\* served at once and goals.
THEOREM EndsOwn == Spec => []EndsOwnTurn
<1>1. OwnTurns => EndsOwnTurn
  BY DEF OwnTurns, Ends, HasPart, EndsOwnTurn
<1> QED
  BY <1>1, InitTurns, TurnsStep, PTL DEF Spec
=============================================================================
