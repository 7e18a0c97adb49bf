--------------------------- MODULE DeliveryProofs ---------------------------
(***************************************************************************)
(* Proofs about Delivery, for any number of items, hooks, other sessions   *)
(* and requests served at once, and any bounds.                            *)
(***************************************************************************)
EXTENDS Delivery, TLAPS

ItemState(v) == [is : {"unused", "kept", "deleted"}, at : 0 .. v, gone : 0 .. v]
HandlerState == [step : {"idle", "read", "publish"}, new : Entry]
HookState    == [step : {"idle", "book", "ask", "note"}, goal : Nat,
                 version : Version, since : Version]
OtherState   == [busy : BOOLEAN, copy : Version]

LEMMA NullTypes ==
  /\ \A v \in Nat : NoItem \in ItemState(v)
  /\ NoEntry \in Entry /\ Served \in HandlerState /\ Idle \in HookState
BY DeliveryAssumption
   DEF NoItem, NoEntry, Served, Idle, ItemState, Entry, HandlerState, HookState, Version

LEMMA InitType == Init => TypeOK
<1> SUFFICES ASSUME Init PROVE TypeOK
  OBVIOUS
<1>1. 0 \in Version
  BY DeliveryAssumption DEF Version
<1>2. item \in [ItemId -> ItemState(version)]
  BY NullTypes DEF Init
<1>3. handler \in [Handler -> HandlerState] /\ hook \in [Hook -> HookState]
  BY NullTypes DEF Init
<1>4. entry \in Entry
  BY <1>1 DEF Init, Entry
<1>5. other \in [Other -> OtherState]
  BY <1>1 DEF Init, OtherState
<1> QED
  BY <1>1, <1>2, <1>3, <1>4, <1>5, DeliveryAssumption
     DEF Init, TypeOK, ItemState, HandlerState, HookState, OtherState

\* What is owed to a resync when one begins.
LEMMA BeginType ==
  ASSUME TypeOK, NEW h \in Handler, Begin(h)
  PROVE  /\ handler' \in [Handler -> HandlerState] /\ alone' \in BOOLEAN
         /\ \A k \in Handler : handler'[k].new = handler[k].new
         /\ UNCHANGED <<entry, book, hook, other>>
<1>1. handler \in [Handler -> HandlerState]
  BY DEF TypeOK, HandlerState
<1>2. handler' = [handler EXCEPT ![h] = [handler[h] EXCEPT !.step = "read"]]
  BY DEF Begin
<1>3. [handler[h] EXCEPT !.step = "read"] \in HandlerState
  BY <1>1 DEF HandlerState
<1>4. \A k \in Handler : handler'[k].new = handler[k].new
  BY <1>1, <1>2 DEF HandlerState
<1> QED
  BY <1>1, <1>2, <1>3, <1>4 DEF Begin, hookVars

\* The types of one step at a time: `Calm` is everything but items and versions.
Calm == /\ handler \in [Handler -> HandlerState] /\ entry \in Entry
        /\ book \in Version /\ hook \in [Hook -> HookState]
        /\ other \in [Other -> OtherState] /\ alone \in BOOLEAN
        /\ left \in 0 .. MaxEvents

Contract == /\ goal \in Nat \ {0} /\ exists \in BOOLEAN
            /\ version \in Version /\ synced \in 0 .. version /\ shown \in 0 .. version
            /\ item \in [ItemId -> ItemState(version)]
            /\ known \in [ItemId -> 0 .. version] /\ told \subseteq ItemId

LEMMA TypeParts == TypeOK => Calm /\ Contract
BY DEF TypeOK, Calm, Contract, ItemState, HandlerState, HookState, OtherState

LEMMA PartsType == Calm' /\ Contract' => TypeOK'
BY DEF TypeOK, Calm, Contract, ItemState, HandlerState, HookState, OtherState

\* A change of one item, stamped with the next version.
LEMMA BumpType ==
  ASSUME Contract, Bump(1), NEW i \in ItemId, NEW r \in ItemState(version + 1),
         item' = [item EXCEPT ![i] = r],
         known' = known,
         told' = told, shown' = shown
  PROVE  Contract'
<1>1. version \in Nat /\ version' = version + 1 /\ version' \in Version
  BY DeliveryAssumption DEF Contract, Bump, Version
<1>2. \A j \in ItemId : item[j] \in ItemState(version')
  BY <1>1 DEF Contract, ItemState
<1>3. item' \in [ItemId -> ItemState(version')]
  BY <1>1, <1>2 DEF Contract
<1>4. known' \in [ItemId -> 0 .. version']
  BY <1>1 DEF Contract
<1>5. synced' \in 0 .. version' /\ shown' \in 0 .. version'
  BY <1>1 DEF Contract, Bump
<1> QED
  BY <1>1, <1>3, <1>4, <1>5 DEF Contract, Bump

\* Hearing a delta.
LEMMA HearType ==
  ASSUME Contract, NEW since \in Nat, Hear(since), UNCHANGED goalVars
  PROVE  Contract'
<1>1. known' \in [ItemId -> 0 .. version]
  BY DEF Contract, Hear, ItemState
<1>2. told' \subseteq ItemId /\ shown' \in 0 .. version
  BY DEF Contract, Hear, Version
<1> QED
  BY <1>1, <1>2 DEF Contract, goalVars

\* The four ways an item changes.
LEMMA Stamped ==
  ASSUME Contract, version < MaxVersion, NEW i \in ItemId
  PROVE  /\ [is |-> "kept", at |-> version + 1, gone |-> 0] \in ItemState(version + 1)
         /\ [item[i] EXCEPT !.at = version + 1] \in ItemState(version + 1)
         /\ [is |-> "deleted", at |-> item[i].at, gone |-> version + 1]
              \in ItemState(version + 1)
<1>1. version \in Nat /\ item[i] \in ItemState(version)
  BY DEF Contract, Version
<1>2. [item[i] EXCEPT !.at = version + 1] \in ItemState(version + 1)
  BY <1>1 DEF ItemState
<1>3. [is |-> "deleted", at |-> item[i].at, gone |-> version + 1]
        \in ItemState(version + 1)
  BY <1>1 DEF ItemState
<1>4. [is |-> "kept", at |-> version + 1, gone |-> 0] \in ItemState(version + 1)
  BY <1>1 DEF ItemState
<1> QED
  BY <1>2, <1>3, <1>4

LEMMA HumanType == TypeOK /\ Human => TypeOK'
<1> SUFFICES ASSUME TypeOK, Human PROVE TypeOK'
  OBVIOUS
<1>0. Calm /\ Contract
  BY TypeParts
<1>1. ASSUME NEW i \in ItemId, AddItem(i) \/ EditItem(i) \/ DeleteItem(i)
      PROVE  TypeOK'
  <2>0. Begin("main") /\ "main" \in Handler /\ left' = left
    BY <1>1 DEF AddItem, EditItem, DeleteItem, Bump, Handler
  <2>1. Calm'
    BY <1>0, <2>0, BeginType DEF Calm
  <2>2. PICK r \in ItemState(version + 1) : item' = [item EXCEPT ![i] = r]
    <3>1. version < MaxVersion
      BY <1>0, <1>1, DeliveryAssumption DEF AddItem, EditItem, DeleteItem, Bump, Contract, Version
    <3>2. CASE AddItem(i)
      BY <1>0, <3>1, <3>2, Stamped DEF AddItem
    <3>3. CASE EditItem(i)
      <4>1. item' = [item EXCEPT ![i] = [item[i] EXCEPT !.at = version + 1]]
        BY <3>3 DEF EditItem
      <4> QED
        BY <1>0, <3>1, <4>1, Stamped
    <3>4. CASE DeleteItem(i)
      BY <1>0, <3>1, <3>4, Stamped DEF DeleteItem
    <3> QED
      BY <1>1, <3>2, <3>3, <3>4
  <2>3. Bump(1) /\ UNCHANGED agentVars
    BY <1>1 DEF AddItem, EditItem, DeleteItem
  <2>4. Contract'
    BY <1>0, <2>2, <2>3, BumpType DEF agentVars
  <2> QED
    BY <2>1, <2>4, PartsType
<1>2. CASE DeleteGoal
  <2>0. Begin("main") /\ "main" \in Handler /\ left' \in 0 .. MaxEvents
    BY <1>0, <1>2, DeliveryAssumption DEF DeleteGoal, Handler, Calm
  <2>1. Calm'
    BY <1>0, <2>0, BeginType DEF Calm
  <2>2. Contract'
    BY <1>0, <1>2 DEF Contract, DeleteGoal, agentVars
  <2> QED
    BY <2>1, <2>2, PartsType
<1> QED
  BY <1>1, <1>2 DEF Human

LEMMA AgentType == TypeOK /\ Agent => TypeOK'
<1> SUFFICES ASSUME TypeOK, Agent PROVE TypeOK'
  OBVIOUS
<1>0. Calm /\ Contract
  BY TypeParts
<1>1. ASSUME NEW h \in Http, AutoGoal(h) PROVE TypeOK'
  <2>0. Begin(h) /\ h \in Handler /\ left' = left
    BY <1>1 DEF AutoGoal, Handler
  <2>1. Calm'
    BY <1>0, <2>0, BeginType DEF Calm
  <2>2. Contract'
    BY <1>0, <1>1, NullTypes, DeliveryAssumption DEF Contract, AutoGoal, Version
  <2> QED
    BY <2>1, <2>2, PartsType
<1>2. ASSUME NEW h \in Http, Touch(h) PROVE TypeOK'
  <2>0. Begin(h) /\ h \in Handler /\ left' = left
    BY <1>2 DEF Touch, Handler
  <2>1. Calm'
    BY <1>0, <2>0, BeginType DEF Calm
  <2>2. Contract'
    BY <1>0, <1>2 DEF Contract, Touch, goalVars, agentVars
  <2> QED
    BY <2>1, <2>2, PartsType
<1>3. ASSUME NEW h \in Http, NEW n \in 1 .. MaxVersion, NEW batch \in SUBSET ItemId,
             NEW place \in Bijection(batch, 1 .. n), LayItems(h, n, batch, place)
      PROVE  TypeOK'
  <2>0. Begin(h) /\ h \in Handler /\ left' = left
    BY <1>3 DEF LayItems, Bump, Handler
  <2>1. Calm'
    BY <1>0, <2>0, BeginType DEF Calm
  <2>2. Contract'
    <3>1. place \in [batch -> 1 .. n]
      BY <1>3 DEF Bijection, Injection
    <3>2. n \in Nat /\ version \in Nat /\ version' = version + n /\ version' \in Version
      BY <1>0, <1>3, DeliveryAssumption DEF LayItems, Bump, Contract, Version
    <3>3. \A i \in batch : version + place[i] \in 0 .. version'
      BY <3>1, <3>2
    <3>4. \A i \in ItemId : item[i] \in ItemState(version') /\ known[i] \in 0 .. version'
      BY <1>0, <3>2 DEF Contract, ItemState
    <3>5. item' \in [ItemId -> ItemState(version')]
      BY <1>3, <3>2, <3>3, <3>4 DEF LayItems, ItemState
    <3>6. known' \in [ItemId -> 0 .. version']
      BY <1>3, <3>3, <3>4 DEF LayItems
    <3>7. synced' \in 0 .. version' /\ shown' \in 0 .. version' /\ told' \subseteq ItemId
      BY <1>0, <1>3, <3>2 DEF LayItems, Bump, Contract
    <3> QED
      BY <1>0, <1>3, <3>2, <3>5, <3>6, <3>7 DEF LayItems, Bump, Contract
  <2> QED
    BY <2>1, <2>2, PartsType
<1>4. ASSUME NEW h \in Http, NEW to \in Version, Reconcile(h, to) PROVE TypeOK'
  <2>0. Begin(h) /\ h \in Handler /\ left' = left
    BY <1>4 DEF Reconcile, Handler
  <2>1. Calm'
    BY <1>0, <2>0, BeginType DEF Calm
  <2>2. synced' \in 0 .. version
    BY <1>4 DEF Reconcile, MayReconcile, Version
  <2>3. Contract'
    BY <1>0, <1>4, <2>2 DEF Contract, Reconcile, agentVars
  <2> QED
    BY <2>1, <2>3, PartsType
<1>5. CASE ShowContract
  <2>1. Calm'
    BY <1>0, <1>5 DEF Calm, ShowContract, hookVars
  <2>2. PICK since \in 0 .. synced : Hear(since)
    BY <1>5 DEF ShowContract
  <2>3. since \in Nat
    BY <1>0, <2>2 DEF Contract
  <2>4. Contract'
    BY <1>0, <1>5, <2>2, <2>3, HearType DEF ShowContract
  <2> QED
    BY <2>1, <2>4, PartsType
<1> QED
  BY <1>1, <1>2, <1>3, <1>4, <1>5 DEF Agent

LEMMA ResyncType ==
  ASSUME TypeOK, NEW h \in Handler, ReadGoals(h) \/ Publish(h)
  PROVE  TypeOK'
<1>0. Calm /\ Contract
  BY TypeParts
<1>1. CASE ReadGoals(h)
  <2>0. goal \in Nat /\ version \in Version /\ synced \in Version
    BY <1>0, DeliveryAssumption DEF Contract, Version
  <2>1. (IF exists THEN [goal |-> goal, version |-> version, synced |-> synced]
         ELSE NoEntry) \in Entry
    BY <2>0, NullTypes DEF Entry
  <2>2. handler' \in [Handler -> HandlerState]
    BY <1>0, <1>1, <2>1 DEF ReadGoals, Calm, HandlerState
  <2>3. Calm'
    BY <1>0, <1>1, <2>2 DEF ReadGoals, Calm, hookVars
  <2>4. Contract'
    BY <1>0, <1>1 DEF ReadGoals, Contract, goalVars, agentVars
  <2> QED
    BY <2>3, <2>4, PartsType
<1>2. CASE Publish(h)
  <2>1. handler' \in [Handler -> HandlerState] /\ entry' \in Entry
    BY <1>0, <1>2, NullTypes DEF Publish, Calm, HandlerState
  <2>2. Calm'
    BY <1>0, <1>2, <2>1 DEF Publish, Calm, hookVars
  <2>3. Contract'
    BY <1>0, <1>2 DEF Publish, Contract, goalVars, agentVars
  <2> QED
    BY <2>2, <2>3, PartsType
<1> QED
  BY <1>1, <1>2

LEMMA LandedIn ==
  ASSUME NEW own \in Version, NEW rivals \in SUBSET Version
  PROVE  Landed(own, rivals) \subseteq Version
BY DeliveryAssumption DEF Landed, Version

LEMMA HookType ==
  ASSUME TypeOK, NEW h \in Hook, HookStep(h)
  PROVE  TypeOK'
<1>0. Calm /\ Contract
  BY TypeParts
<1>1. hook \in [Hook -> HookState] /\ entry \in Entry /\ book \in Version
      /\ version \in Version /\ left \in 0 .. MaxEvents
  BY <1>0 DEF Calm, Contract
<1>2. CASE ReadMarker(h)
  <2>1. [step |-> "book", goal |-> entry.goal, version |-> entry.version,
         since |-> entry.synced] \in HookState
    BY <1>1 DEF Entry, HookState
  <2>2. hook' \in [Hook -> HookState]
    BY <1>1, <1>2, <2>1 DEF ReadMarker
  <2>3. Calm' /\ Contract'
    BY <1>0, <1>2, <2>2 DEF ReadMarker, Calm, Contract, goalVars, agentVars
  <2> QED
    BY <2>3, PartsType
<1>3. CASE ReadBook(h)
  <2>1. Larger(book, hook[h].since) \in Version /\ hook[h].goal \in Nat /\ 0 \in Version
    BY <1>1, DeliveryAssumption DEF Larger, HookState, Version
  <2>2. hook' \in [Hook -> HookState]
    BY <1>1, <1>3, <2>1, NullTypes DEF ReadBook, HookState
  <2>3. Calm' /\ Contract'
    BY <1>0, <1>3, <2>2 DEF ReadBook, Calm, Contract, goalVars, agentVars
  <2> QED
    BY <2>3, PartsType
<1>4. CASE Deliver(h)
  <2>1. hook[h].since \in Nat /\ 0 \in Version
    BY <1>1, DeliveryAssumption DEF HookState, Version
  <2>2. hook' \in [Hook -> HookState]
    BY <1>1, <1>4, <2>1 DEF Deliver, HookState
  <2>3. Calm'
    BY <1>0, <1>4, <2>2 DEF Deliver, Calm
  <2>4. Contract'
    BY <1>0, <1>4, <2>1, HearType DEF Deliver
  <2> QED
    BY <2>3, <2>4, PartsType
<1>5. CASE Note(h)
  <2>1. hook[h].version \in Version /\ NoteIn(h) \in SUBSET Version
    BY <1>0, <1>1 DEF NoteIn, Calm, HookState, OtherState
  <2>2. book' \in Version
    BY <1>5, <2>1, LandedIn DEF Note
  <2>3. hook' \in [Hook -> HookState]
    BY <1>1, <1>5, NullTypes DEF Note
  <2>4. Calm' /\ Contract'
    BY <1>0, <1>5, <2>2, <2>3 DEF Note, Calm, Contract, goalVars, agentVars
  <2> QED
    BY <2>4, PartsType
<1>6. CASE NotFound(h) \/ Fail(h)
  <2>1. hook' \in [Hook -> HookState]
    BY <1>1, <1>6, NullTypes DEF NotFound, Fail
  <2>2. left' \in 0 .. MaxEvents
    BY <1>1, <1>6, DeliveryAssumption DEF NotFound, Fail
  <2>3. Calm' /\ Contract'
    BY <1>0, <1>6, <2>1, <2>2 DEF NotFound, Fail, Calm, Contract, goalVars, agentVars
  <2> QED
    BY <2>3, PartsType
<1> QED
  BY <1>2, <1>3, <1>4, <1>5, <1>6 DEF HookStep

LEMMA OtherType ==
  ASSUME TypeOK, NEW o \in Other, OtherReads(o) \/ OtherNotes(o)
  PROVE  TypeOK'
<1>0. Calm /\ Contract
  BY TypeParts
<1>1. other \in [Other -> OtherState] /\ hook \in [Hook -> HookState] /\ book \in Version
  BY <1>0 DEF Calm
<1>2. book' \in Version
  <2>1. CASE OtherReads(o)
    BY <1>1, <2>1 DEF OtherReads
  <2>2. CASE OtherNotes(o)
    <3> DEFINE rivals == {hook[k].version : k \in {k \in Hook : hook[k].step = "note"}}
                           \cup {other[p].copy : p \in {p \in Other \ {o} : other[p].busy}}
    <3>1. rivals \in SUBSET Version /\ other[o].copy \in Version
      BY <1>1 DEF HookState, OtherState
    <3>2. book' \in Landed(other[o].copy, rivals)
      BY <2>2 DEF OtherNotes
    <3> QED
      BY <3>1, <3>2, LandedIn
  <2> QED
    BY <2>1, <2>2
<1>3. other' \in [Other -> OtherState]
  <2>1. [busy |-> TRUE, copy |-> book] \in OtherState
    BY <1>1 DEF OtherState
  <2>2. [busy |-> FALSE, copy |-> 0] \in OtherState
    BY DeliveryAssumption DEF OtherState, Version
  <2> QED
    BY <1>1, <2>1, <2>2 DEF OtherReads, OtherNotes
<1>4. Calm' /\ Contract'
  BY <1>0, <1>2, <1>3 DEF OtherReads, OtherNotes, Calm, Contract, goalVars, agentVars
<1> QED
  BY <1>4, PartsType

LEMMA StepType == TypeOK /\ [Next]_vars => TypeOK'
<1> SUFFICES ASSUME TypeOK, [Next]_vars PROVE TypeOK'
  OBVIOUS
<1>1. CASE Next
  BY <1>1, HumanType, AgentType, ResyncType, HookType, OtherType DEF Next
<1>2. CASE UNCHANGED vars
  <2>1. Calm /\ Contract
    BY TypeParts
  <2>2. Calm' /\ Contract'
    BY <1>2, <2>1 DEF vars, goalVars, agentVars, hookVars, Calm, Contract
  <2> QED
    BY <2>2, PartsType
<1> QED
  BY <1>1, <1>2

\* Type correctness of the delivery channel, and that no stamp, reconciliation or
\* wording the agent knows is ahead of the contract.
THEOREM TypeCorrect == Spec => []TypeOK
BY InitType, StepType, PTL DEF Spec

-----------------------------------------------------------------------------
(* The baseline: the inductive invariant is OnlySeen, together with TypeOK. *)

\* Every version that is, or is on its way to be, a baseline.
Baselines ==
    {0, synced, shown, book, entry.synced}
        \cup {handler[h].new.synced : h \in Handler}
        \cup {hook[h].since : h \in Hook}
        \cup {hook[h].version : h \in {h \in Hook : hook[h].step = "note"}}
        \cup {other[o].copy : o \in Other}

\* The agent has seen them all, as long as the session has its first goal.
OnlySeen ==
    exists /\ goal = 1 =>
      /\ \A i \in ItemId : /\ Kept(i) => item[i].at > 0
                           /\ Deleted(i) => item[i].gone > 0
      /\ \A v \in Baselines : v <= version /\ Informed(v)

First  == exists /\ goal = 1
Dated  == \A i \in ItemId : /\ Kept(i) => item[i].at > 0
                            /\ Deleted(i) => item[i].gone > 0
Seen(v) == v <= version /\ Informed(v)

LEMMA SeenParts == OnlySeen <=> (First => Dated /\ \A v \in Baselines : Seen(v))
BY DEF OnlySeen, First, Dated, Seen

LEMMA PartsSeen ==
  ASSUME First' => Dated' /\ \A v \in Baselines' : Seen(v)'
  PROVE  OnlySeen'
BY DEF OnlySeen, First, Dated, Seen

LEMMA BaselinesType == TypeOK => Baselines \subseteq Nat
BY DeliveryAssumption DEF TypeOK, Baselines, Entry, Version

LEMMA InitSeen == Init => OnlySeen
BY DEF Init, OnlySeen, Baselines, Informed, Kept, Deleted, NoItem, Served, NoEntry, Idle

\* Nothing is news at a version when nothing is at a later one.
LEMMA SeenBelow ==
  ASSUME TypeOK, NEW v \in Nat, Seen(v), NEW w \in Nat, w <= v
  PROVE  Seen(w)
BY DEF Seen, Informed, TypeOK, Version

\* A step that leaves the contract and the agent's knowledge alone.
LEMMA CalmSeen ==
  ASSUME TypeOK, OnlySeen, UNCHANGED <<goal, exists, version, item, known, told>>,
         \A v \in Baselines' : v \in Nat /\ \E w \in Baselines : v <= w
  PROVE  OnlySeen'
<1> SUFFICES ASSUME First' PROVE Dated' /\ \A v \in Baselines' : Seen(v)'
  BY PartsSeen
<1>1. First /\ Dated /\ \A v \in Baselines : Seen(v)
  BY SeenParts DEF First
<1>2. Dated'
  BY <1>1 DEF Dated, Kept, Deleted
<1>3. ASSUME NEW v \in Baselines' PROVE Seen(v)'
  <2>1. PICK w \in Baselines : v <= w
    OBVIOUS
  <2>2. Seen(v)
    BY <1>1, <2>1, BaselinesType, SeenBelow
  <2> QED
    BY <2>2 DEF Seen, Informed, Kept, Deleted
<1> QED
  BY <1>2, <1>3

\* A change of the contract is later than anything the agent has seen.
LEMMA BumpSeen ==
  ASSUME TypeOK, OnlySeen, Bump(1), NEW i \in ItemId, Begin("main") \/ \E h \in Http : Begin(h),
         \/ item' = [item EXCEPT ![i] = [is |-> "kept", at |-> version + 1, gone |-> 0]]
         \/ item' = [item EXCEPT ![i].at = version + 1] /\ Kept(i)
         \/ item' = [item EXCEPT ![i] = [is |-> "deleted", at |-> item[i].at,
                                         gone |-> version + 1]],
         known' = known,
         told' = told, shown' = shown
  PROVE  OnlySeen'
<1> SUFFICES ASSUME First' PROVE Dated' /\ \A v \in Baselines' : Seen(v)'
  BY PartsSeen
<1>1. First /\ Dated /\ \A v \in Baselines : Seen(v)
  BY SeenParts DEF First, Bump
<1>2. version \in Nat /\ version' = version + 1 /\ synced' = synced
  BY DEF TypeOK, Bump, Version
<1>3. /\ \A j \in ItemId \ {i} : item'[j] = item[j] /\ known'[j] = known[j]
      /\ item'[i].is = "kept" => item'[i].at = version + 1
      /\ item'[i].is = "deleted" => item'[i].gone = version + 1
  BY DEF TypeOK, Kept
<1>4. Dated'
  BY <1>1, <1>2, <1>3 DEF Dated, Kept, Deleted
<1>5. PICK h \in Handler : Begin(h)
  BY DEF Handler
<1>6. Baselines' = Baselines
  <2>1. \A k \in Handler : handler'[k].new.synced = handler[k].new.synced
    BY <1>5, BeginType
  <2> QED
    BY <1>2, <1>5, <2>1, BeginType DEF Baselines
<1>7. ASSUME NEW v \in Baselines PROVE Seen(v)'
  <2>1. Seen(v) /\ v \in Nat
    BY <1>1, BaselinesType
  <2> QED
    BY <1>2, <1>3, <2>1 DEF Seen, Informed, Kept, Deleted
<1> QED
  BY <1>4, <1>6, <1>7

\* So is a batch the agent lays, and it knows what it laid.
LEMMA LaySeen ==
  ASSUME TypeOK, OnlySeen, NEW h \in Http, NEW n \in 1 .. MaxVersion,
         NEW batch \in SUBSET ItemId, NEW place \in Bijection(batch, 1 .. n),
         LayItems(h, n, batch, place)
  PROVE  OnlySeen'
<1> SUFFICES ASSUME First' PROVE Dated' /\ \A v \in Baselines' : Seen(v)'
  BY PartsSeen
<1>1. First /\ Dated /\ \A v \in Baselines : Seen(v)
  BY SeenParts DEF First, LayItems, Bump
<1>2. place \in [batch -> 1 .. n] /\ n \in Nat
  BY DeliveryAssumption DEF Bijection, Injection
<1>3. /\ version \in Nat /\ version' = version + n
      /\ synced' = synced /\ told' = told /\ shown' = shown
  BY DEF TypeOK, LayItems, Bump, Version
<1>4. /\ \A j \in ItemId \ batch : item'[j] = item[j] /\ known'[j] = known[j]
      /\ \A j \in batch : /\ item'[j].is = "kept"
                           /\ item'[j].at > version /\ known'[j] = item'[j].at
  BY <1>2, <1>3 DEF LayItems
<1>5. Dated'
  <2>1. ASSUME NEW i \in ItemId
        PROVE  /\ Kept(i)' => item'[i].at > 0
               /\ Deleted(i)' => item'[i].gone > 0
    <3>1. CASE i \in batch
      <4>1. item'[i].at = version + place[i] /\ item'[i].is = "kept"
        BY <3>1 DEF LayItems
      <4>2. place[i] \in 1 .. n
        BY <1>2, <3>1
      <4>3. item'[i].at > 0
        BY <1>2, <1>3, <4>1, <4>2
      <4> QED
        BY <4>1, <4>3 DEF Deleted
    <3>2. CASE i \notin batch
      BY <1>1, <1>4, <3>2 DEF Dated, Kept, Deleted
    <3> QED
      BY <3>1, <3>2
  <2> QED
    BY <2>1 DEF Dated
<1>6. Baselines' = Baselines
  <2>1. Begin(h) /\ h \in Handler
    BY DEF LayItems, Handler
  <2>2. \A k \in Handler : handler'[k].new.synced = handler[k].new.synced
    BY <2>1, BeginType
  <2> QED
    BY <1>3, <2>1, <2>2, BeginType DEF Baselines
<1>7. ASSUME NEW v \in Baselines PROVE Seen(v)'
  <2>1. Seen(v) /\ v \in Nat
    BY <1>1, BaselinesType
  <2> QED
    BY <1>2, <1>3, <1>4, <2>1 DEF Seen, Informed, Kept, Deleted
<1> QED
  BY <1>5, <1>6, <1>7

\* A delta from a baseline the agent has seen informs it of everything.
LEMMA HearSeen ==
  ASSUME TypeOK, First, \A v \in Baselines : Seen(v), NEW since \in Nat, Seen(since),
         Hear(since), UNCHANGED goalVars, NEW v \in Nat, v <= version
  PROVE  Seen(v)'
<1>1. version \in Nat /\ version' = version /\ item' = item
  BY DEF TypeOK, Version, goalVars
<1>2. \A i \in ItemId : item[i].at \in Nat /\ item[i].gone \in Nat
  BY DEF TypeOK
<1>3. \A i \in ItemId : Kept(i) => known'[i] = item[i].at
  BY <1>2 DEF Hear, Seen, Informed
<1>4. \A i \in ItemId : Deleted(i) => i \in told'
  BY <1>2 DEF Hear, Seen, Informed
<1> QED
  BY <1>1, <1>2, <1>3, <1>4 DEF Seen, Informed, Kept, Deleted

\* Such a step, when a delta was heard in it.
LEMMA HeardSeen ==
  ASSUME TypeOK, OnlySeen, NEW since \in Nat, Hear(since), UNCHANGED goalVars,
         First => since \in Baselines \/ \E w \in Baselines : since <= w,
         Baselines' \subseteq Baselines \cup {version}
  PROVE  OnlySeen'
<1> SUFFICES ASSUME First' PROVE Dated' /\ \A v \in Baselines' : Seen(v)'
  BY PartsSeen
<1>1. First /\ Dated /\ \A v \in Baselines : Seen(v)
  BY SeenParts DEF First, goalVars
<1>2. Dated'
  BY <1>1 DEF Dated, Kept, Deleted, goalVars
<1>3. Seen(since)
  BY <1>1, BaselinesType, SeenBelow
<1>4. ASSUME NEW v \in Baselines' PROVE v \in Nat /\ v <= version
  BY <1>1, BaselinesType DEF Seen, TypeOK, Version
<1> QED
  BY <1>1, <1>2, <1>3, <1>4, HearSeen

LEMMA HumanSeen == TypeOK /\ OnlySeen /\ Human => OnlySeen'
<1> SUFFICES ASSUME TypeOK, OnlySeen, Human PROVE OnlySeen'
  OBVIOUS
<1>1. ASSUME NEW i \in ItemId, AddItem(i) PROVE OnlySeen'
  BY <1>1, BumpSeen DEF AddItem, agentVars
<1>2. ASSUME NEW i \in ItemId, EditItem(i) PROVE OnlySeen'
  BY <1>2, BumpSeen DEF EditItem, agentVars
<1>3. ASSUME NEW i \in ItemId, DeleteItem(i) PROVE OnlySeen'
  BY <1>3, BumpSeen DEF DeleteItem, agentVars
<1>4. CASE DeleteGoal
  BY <1>4, PartsSeen DEF DeleteGoal, First
<1> QED
  BY <1>1, <1>2, <1>3, <1>4 DEF Human

LEMMA AgentSeen == TypeOK /\ OnlySeen /\ Agent => OnlySeen'
<1> SUFFICES ASSUME TypeOK, OnlySeen, Agent PROVE OnlySeen'
  OBVIOUS
<1>0. Baselines \subseteq Nat
  BY BaselinesType
<1>1. ASSUME NEW h \in Http, AutoGoal(h) PROVE OnlySeen'
  <2>1. goal' # 1
    BY <1>1 DEF AutoGoal, TypeOK
  <2> QED
    BY <2>1, PartsSeen DEF First
<1>2. ASSUME NEW h \in Http, Touch(h) PROVE OnlySeen'
  <2>1. Begin(h) /\ h \in Handler
    BY <1>2 DEF Touch, Handler
  <2>2. Baselines' = Baselines
    BY <1>2, <2>1, BeginType DEF Touch, goalVars, agentVars, Baselines
  <2>3. UNCHANGED <<goal, exists, version, item, known, told>>
    BY <1>2 DEF Touch, goalVars, agentVars
  <2> QED
    BY <1>0, <2>2, <2>3, CalmSeen
<1>3. ASSUME NEW h \in Http, NEW n \in 1 .. MaxVersion, NEW batch \in SUBSET ItemId,
             NEW place \in Bijection(batch, 1 .. n), LayItems(h, n, batch, place)
      PROVE  OnlySeen'
  BY <1>3, LaySeen
<1>4. ASSUME NEW h \in Http, NEW to \in Version, Reconcile(h, to) PROVE OnlySeen'
  <2>1. Begin(h) /\ h \in Handler /\ to \in Nat /\ shown \in Nat /\ to <= shown
    BY <1>4 DEF Reconcile, Handler, Version, TypeOK
  <2>2. synced' = to /\ shown' = shown
    BY <1>4 DEF Reconcile, agentVars
  <2>3. \A k \in Handler : handler'[k].new.synced = handler[k].new.synced
    BY <2>1, BeginType
  <2>4. Baselines' \subseteq Baselines \cup {to}
    BY <2>1, <2>2, <2>3, BeginType DEF Baselines
  <2>5. UNCHANGED <<goal, exists, version, item, known, told>>
    BY <1>4 DEF Reconcile, agentVars
  <2>6. shown \in Baselines
    BY DEF Baselines
  <2>7. \A v \in Baselines' : v \in Nat /\ \E w \in Baselines : v <= w
    BY <1>0, <2>1, <2>4, <2>6
  <2> QED
    BY <2>5, <2>7, CalmSeen
<1>5. CASE ShowContract
  <2>1. PICK since \in 0 .. synced : Hear(since)
    BY <1>5 DEF ShowContract
  <2>2. since \in Nat /\ since <= synced /\ synced \in Baselines
    BY <2>1 DEF TypeOK, Baselines
  <2>3. shown' = version /\ UNCHANGED goalVars
    BY <1>5, <2>1 DEF ShowContract, Hear
  <2>4. Baselines' \subseteq Baselines \cup {version}
    BY <1>5, <2>3 DEF ShowContract, Baselines, goalVars, hookVars
  <2> QED
    BY <2>1, <2>2, <2>3, <2>4, HeardSeen
<1> QED
  BY <1>1, <1>2, <1>3, <1>4, <1>5 DEF Agent

LEMMA ResyncSeen ==
  ASSUME TypeOK, OnlySeen, NEW h \in Handler, ReadGoals(h) \/ Publish(h)
  PROVE  OnlySeen'
<1>0. Baselines \subseteq Nat
  BY BaselinesType
<1>1. \A k \in Handler : handler'[k].new.synced \in Baselines
  BY DEF ReadGoals, Publish, Served, NoEntry, TypeOK, Baselines
<1>2. entry'.synced \in Baselines
  BY DEF ReadGoals, Publish, Baselines
<1>3. UNCHANGED <<goalVars, book, hook, other, known, told, shown>>
  BY DEF ReadGoals, Publish, hookVars, agentVars
<1>4. Baselines' \subseteq Baselines
  BY <1>1, <1>2, <1>3 DEF Baselines, goalVars
<1> QED
  BY <1>0, <1>3, <1>4, CalmSeen DEF goalVars

LEMMA HookSeen ==
  ASSUME TypeOK, OnlySeen, NEW h \in Hook, HookStep(h)
  PROVE  OnlySeen'
<1>0. Baselines \subseteq Nat /\ 0 \in Baselines
  BY BaselinesType DEF Baselines
<1>1. hook \in [Hook -> HookState] /\ book \in Nat
  BY DEF TypeOK, HookState, Version
<1>2. CASE Deliver(h)
  <2>1. hook[h].since \in Nat /\ hook[h].since \in Baselines
    BY <1>0, <1>1 DEF Baselines
  <2>2. \A k \in Hook : /\ hook'[k].since \in {0, hook[k].since}
                        /\ hook'[k].step = "note" =>
                             \/ hook'[k].version = version
                             \/ hook[k].step = "note" /\ hook'[k].version = hook[k].version
    BY <1>1, <1>2 DEF Deliver, HookState
  <2>3. Hear(hook[h].since) /\ shown' = version
        /\ UNCHANGED <<goalVars, handler, entry, book, other>>
    BY <1>2 DEF Deliver, Hear
  <2>4. Baselines' \subseteq Baselines \cup {version}
    BY <2>2, <2>3 DEF Baselines, goalVars
  <2> QED
    BY <2>1, <2>3, <2>4, HeardSeen
<1>3. CASE ~Deliver(h)
  <2>1. /\ UNCHANGED <<goalVars, handler, entry, other, agentVars>>
        /\ \A k \in Hook \ {h} : hook'[k] = hook[k]
    BY <1>1, <1>3 DEF HookStep, ReadMarker, ReadBook, Note, NotFound, Fail
  <2>2. hook'[h].since \in Baselines
    <3>1. hook[h].since \in Baselines /\ entry.synced \in Baselines /\ book \in Baselines
      BY DEF Baselines
    <3>2. Larger(book, hook[h].since) \in Baselines
      BY <3>1 DEF Larger
    <3> QED
      BY <1>0, <1>1, <1>3, <3>1, <3>2
         DEF HookStep, ReadMarker, ReadBook, Note, NotFound, Fail, Idle, HookState
  <2>3. hook'[h].step # "note"
    BY <1>1, <1>3 DEF HookStep, ReadMarker, ReadBook, Note, NotFound, Fail, Idle, HookState
  <2>4. book' \in Baselines
    <3>1. CASE Note(h)
      BY <1>0, <3>1 DEF Note, Landed, NoteIn, Baselines
    <3>2. CASE ~Note(h)
      BY <1>3, <3>2 DEF HookStep, ReadMarker, ReadBook, NotFound, Fail, Baselines
    <3> QED
      BY <3>1, <3>2
  <2>5. \A k \in Hook : /\ hook'[k].since \in Baselines
                        /\ hook'[k].step = "note" => hook'[k].version \in Baselines
    BY <2>1, <2>2, <2>3 DEF Baselines
  <2>6. Baselines' \subseteq Baselines
    BY <2>1, <2>4, <2>5 DEF Baselines, goalVars, agentVars
  <2>7. UNCHANGED <<goal, exists, version, item, known, told>>
    BY <2>1 DEF goalVars, agentVars
  <2>8. \A v \in Baselines' : v \in Nat /\ \E w \in Baselines : v <= w
    BY <1>0, <2>6
  <2> QED
    BY <2>7, <2>8, CalmSeen
<1> QED
  BY <1>2, <1>3

LEMMA OtherSeen ==
  ASSUME TypeOK, OnlySeen, NEW o \in Other, OtherReads(o) \/ OtherNotes(o)
  PROVE  OnlySeen'
<1>0. Baselines \subseteq Nat
  BY BaselinesType
<1>1. other \in [Other -> OtherState]
  BY DEF TypeOK, OtherState
<1>2. \A p \in Other : other'[p].copy \in Baselines
  BY <1>1 DEF OtherReads, OtherNotes, OtherState, Baselines
<1>3. book' \in Baselines
  BY DEF OtherReads, OtherNotes, Landed, Baselines
<1>4. UNCHANGED <<goalVars, handler, entry, hook, agentVars>>
  BY DEF OtherReads, OtherNotes
<1>5. Baselines' \subseteq Baselines
  BY <1>2, <1>3, <1>4 DEF Baselines, goalVars, agentVars
<1> QED
  BY <1>0, <1>4, <1>5, CalmSeen DEF goalVars, agentVars

LEMMA StepSeen == TypeOK /\ OnlySeen /\ [Next]_vars => OnlySeen'
<1> SUFFICES ASSUME TypeOK, OnlySeen, [Next]_vars PROVE OnlySeen'
  OBVIOUS
<1>1. CASE Next
  BY <1>1, HumanSeen, AgentSeen, ResyncSeen, HookSeen, OtherSeen DEF Next
<1>2. CASE UNCHANGED vars
  <2>1. Baselines' = Baselines
    BY <1>2 DEF vars, goalVars, hookVars, agentVars, Baselines
  <2> QED
    BY <1>2, <2>1, BaselinesType, CalmSeen DEF vars, goalVars, agentVars
<1> QED
  BY <1>1, <1>2

\* Whatever the hooks of this and of other sessions do to delivered.json, and in
\* whatever order resyncs publish, the next delta of a session with its first goal
\* starts from a version the agent has seen all of.
THEOREM BaselineIsHonest == Spec => []BaselineHonest
<1>1. TypeOK /\ OnlySeen => BaselineHonest
  BY DEF OnlySeen, Baselines, BaselineHonest, Larger
<1>2. Init => TypeOK /\ OnlySeen
  BY InitType, InitSeen
<1>3. TypeOK /\ OnlySeen /\ [Next]_vars => TypeOK' /\ OnlySeen'
  BY StepType, StepSeen
<1> QED
  BY <1>1, <1>2, <1>3, PTL DEF Spec

-----------------------------------------------------------------------------
(* The marker *)

Busy(h) == handler[h] # Served
Mirror == IF exists THEN [goal |-> goal, version |-> version, synced |-> synced] ELSE NoEntry

\* While resyncs do not overlap there is one under way at most; what it is to publish, and
\* what the marker says when there is none, is how the contract stands.
Mirrored ==
    alone => /\ \A h, k \in Handler : Busy(h) /\ Busy(k) => h = k
             /\ \A h \in Handler : handler[h].step = "publish" => handler[h].new = Mirror
             /\ AtRest => entry = Mirror

\* Whatever changes the contract leaves a resync to be done.
LEMMA BeginMirrored ==
  ASSUME TypeOK, NEW h \in Handler, Begin(h)
  PROVE  Mirrored'
<1>1. handler' = [handler EXCEPT ![h] = [handler[h] EXCEPT !.step = "read"]] /\ alone' = AtRest
  BY DEF Begin, AtRest
<1>2. handler'[h].step = "read" /\ Served.step = "idle"
  BY <1>1 DEF TypeOK, Served
<1>3. alone' => \A k \in Handler \ {h} : handler'[k] = Served
  BY <1>1 DEF AtRest, TypeOK
<1> QED
  BY <1>2, <1>3 DEF Mirrored, Busy, AtRest

LEMMA ResyncMirrored ==
  ASSUME TypeOK, Mirrored, NEW h \in Handler, ReadGoals(h) \/ Publish(h)
  PROVE  Mirrored'
<1>0. Served.step = "idle" /\ Mirror' = Mirror /\ alone' = alone
  BY DEF Served, Mirror, ReadGoals, Publish, goalVars
<1>1. handler[h].step # "idle"
  BY DEF ReadGoals, Publish
<1> SUFFICES ASSUME alone
             PROVE  /\ \A j, k \in Handler : Busy(j)' /\ Busy(k)' => j = k
                    /\ \A k \in Handler : handler'[k].step = "publish" => handler'[k].new = Mirror
                    /\ AtRest' => entry' = Mirror
  BY <1>0 DEF Mirrored
<1>2. \A k \in Handler \ {h} : handler[k] = Served /\ handler'[k] = Served
  BY <1>0, <1>1 DEF Mirrored, Busy, ReadGoals, Publish, TypeOK
<1>3. CASE ReadGoals(h)
  <2>1. handler'[h] = [step |-> "publish", new |-> Mirror]
    BY <1>3 DEF ReadGoals, Mirror, TypeOK
  <2> QED
    BY <1>0, <1>2, <2>1 DEF Busy, AtRest
<1>4. CASE Publish(h)
  <2>1. handler'[h] = Served /\ entry' = Mirror
    BY <1>4 DEF Publish, Mirrored, TypeOK
  <2> QED
    BY <1>0, <1>2, <2>1 DEF Busy, AtRest
<1> QED
  BY <1>3, <1>4

LEMMA StepMirrored == TypeOK /\ Mirrored /\ [Next]_vars => Mirrored'
<1> SUFFICES ASSUME TypeOK, Mirrored, [Next]_vars PROVE Mirrored'
  OBVIOUS
<1>1. CASE \E h \in Handler : Begin(h)
  BY <1>1, BeginMirrored
<1>2. CASE \E h \in Handler : ReadGoals(h) \/ Publish(h)
  BY <1>2, ResyncMirrored
<1>3. CASE UNCHANGED <<goalVars, handler, entry, alone>>
  BY <1>3 DEF Mirrored, Busy, Mirror, AtRest, goalVars
<1>4. CASE Human
  <2>1. "main" \in Handler
    BY DEF Handler
  <2> QED
    BY <1>1, <1>4, <2>1 DEF Human, AddItem, EditItem, DeleteItem, DeleteGoal
<1>5. CASE Agent
  <2>1. \A h \in Http : h \in Handler
    BY DEF Handler
  <2> QED
    BY <1>1, <1>3, <1>5, <2>1 DEF Agent, AutoGoal, Touch, LayItems, Reconcile, ShowContract
<1>6. CASE \E h \in Hook : HookStep(h)
  BY <1>3, <1>6 DEF HookStep, ReadMarker, ReadBook, Deliver, Note, NotFound, Fail
<1>7. CASE \E o \in Other : OtherReads(o) \/ OtherNotes(o)
  BY <1>3, <1>7 DEF OtherReads, OtherNotes
<1>8. CASE UNCHANGED vars
  BY <1>3, <1>8 DEF vars
<1> QED
  BY <1>2, <1>4, <1>5, <1>6, <1>7, <1>8 DEF Next

\* What has been seen at a baseline has been seen at all before it.
LEMMA InformedBelow ==
  ASSUME TypeOK, NEW v \in Nat, NEW w \in Nat, v <= w, Informed(w)
  PROVE  Informed(v)
<1> SUFFICES ASSUME NEW i \in ItemId
             PROVE  /\ Kept(i) /\ item[i].at <= v => known[i] = item[i].at
                    /\ Deleted(i) /\ item[i].gone <= v => i \in told
  BY DEF Informed
<1>1. item[i].at \in Nat /\ item[i].gone \in Nat
  BY DEF TypeOK, Version
<1> QED
  BY <1>1 DEF Informed

\* Unless resyncs have overlapped, the marker announces whatever the agent has not heard of
\* to the next hook, whose baseline lies below it: the hook will ask (hook_post.rs:53-62).
THEOREM HooksAsk == Spec => []NextHookAsks
<1>1. Init => Mirrored
  BY DEF Init, Mirrored, Busy, Mirror, Served
<1>2. TypeOK /\ Mirrored /\ BaselineHonest => NextHookAsks
  <2> SUFFICES ASSUME TypeOK, Mirrored, BaselineHonest, alone, AtRest, exists, goal = 1,
                      ~Informed(version)
               PROVE  entry.goal = goal /\ entry.version > Larger(book, entry.synced)
    BY DEF NextHookAsks
  <2> DEFINE b == Larger(book, synced)
  <2>1. entry.goal = goal /\ entry.version = version /\ entry.synced = synced
    BY DEF Mirrored, Mirror
  <2>2. version \in Nat /\ b \in Nat /\ Informed(b)
    BY DEF TypeOK, Version, Larger, BaselineHonest
  <2> HIDE DEF b
  <2>3. ~(version <= b)
    BY <2>2, InformedBelow
  <2>4. version > b
    BY <2>2, <2>3
  <2> QED
    BY <2>1, <2>4 DEF b
<1> QED
  BY <1>1, <1>2, StepMirrored, TypeCorrect, BaselineIsHonest, PTL DEF Spec
=============================================================================
