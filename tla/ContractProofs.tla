--------------------------- MODULE ContractProofs ---------------------------
(***************************************************************************)
(* Proofs about Contract, for every set of items, sessions and panes, any  *)
(* number of waived items in the loaded file, and any bound on versions.   *)
(***************************************************************************)
EXTENDS Contract, TLAPS

(***************************************************************************)
(* Type correctness.  The part that is not about domains, that nothing is  *)
(* ahead of the contract version, is what every later proof rests on.      *)
(***************************************************************************)
LEMMA InitType == Init => TypeOK
<1>1. ASSUME Init, NewGoal PROVE TypeOK
  BY <1>1, ContractAssumption
  DEF Init, NewGoal, TypeOK, Item, NoItem, Live, ItemStatus, GoalStatus, Idle
<1>2. ASSUME Init, LoadedGoal PROVE TypeOK
  <2>1. /\ NoItem \in Item
        /\ \A x \in WaivedItem : x \in Item /\ x.lastEdited \in 1 .. LoadedVersion
    BY ContractAssumption DEF Item, NoItem, WaivedItem, ItemStatus
  <2>2. item \in [ItemId -> WaivedItem \cup {NoItem}] /\ version = LoadedVersion
    BY <1>2 DEF LoadedGoal
  <2>3. item \in [ItemId -> Item]
    BY <2>1, <2>2
  <2>4. \A i \in ItemId : item[i].lastEdited <= version
    BY <2>1, <2>2, ContractAssumption DEF NoItem
  <2>5. \A i \in Live : item[i].lastEdited > 0
    BY <2>1, <2>2, ContractAssumption DEF NoItem, Live, ItemStatus
  <2> QED
    BY <1>2, <2>3, <2>4, <2>5, ContractAssumption
    DEF Init, LoadedGoal, TypeOK, GoalStatus, Idle
<1> QED
  BY <1>1, <1>2 DEF Init

\* What a new batch does to the items, in the terms the other proofs need.
LEMMA LaidItems ==
  ASSUME NEW actor \in Actor, LayItems(actor), TypeOK
  PROVE  /\ Exists
         /\ version' \in Nat /\ version' > version
         /\ humanEdit' \in Nat /\ humanEdit' <= version'
         /\ actor = "Agent" => humanEdit' = humanEdit
         /\ item' \in [ItemId -> Item]
         /\ \A i \in ItemId \ Unused : item'[i] = item[i]
         /\ \A i \in Unused : \/ item'[i] = item[i]
                              \/ /\ item'[i].status = "Open"
                                 /\ item'[i].lastEdited \in version + 1 .. version'
                                 /\ actor = "Agent" => ~item'[i].byUser
         /\ \E i \in Unused : item'[i].status = "Open"
         /\ UNCHANGED <<status, synced, evidence, sessions, gate>>
<1>0. PICK n \in 1 .. MaxVersion - version :
        \E batch \in Injection(1 .. n, Unused), new \in [1 .. n -> NewItem] :
          LayBatch(actor, n, batch, new)
  BY DEF LayItems
<1>1. PICK batch \in Injection(1 .. n, Unused), new \in [1 .. n -> NewItem] :
        LayBatch(actor, n, batch, new)
  BY <1>0
<1>2. n \in Nat \ {0} /\ version \in Nat /\ humanEdit \in Nat /\ humanEdit <= version
  BY ContractAssumption DEF TypeOK
<1>3. \A k \in 1 .. n : batch[k] \in Unused /\ batch[k] \in ItemId
  BY DEF Injection, Unused
<1>4. \A k \in 1 .. n : /\ new[k].class \in Class
                        /\ new[k].byUser \in BOOLEAN
                        /\ new[k].interpreted \in BOOLEAN
  BY DEF NewItem
<1>5. ASSUME NEW i \in ItemId, \A k \in 1 .. n : batch[k] # i
      PROVE  item'[i] = item[i]
  BY <1>1, <1>5 DEF LayBatch
<1>6. ASSUME NEW i \in ItemId, \E k \in 1 .. n : batch[k] = i
      PROVE  /\ item'[i] \in Item
             /\ item'[i].status = "Open"
             /\ item'[i].lastEdited \in version + 1 .. version + n
             /\ actor = "Agent" => ~item'[i].byUser
  <2> DEFINE j == CHOOSE k \in 1 .. n : batch[k] = i
  <2>1. j \in 1 .. n
    BY <1>6
  <2>2. item'[i] = [status |-> "Open", class |-> new[j].class, byUser |-> new[j].byUser,
                    interpreted |-> new[j].interpreted, lastEdited |-> version + j]
    BY <1>1, <1>6 DEF LayBatch
  <2> HIDE DEF j
  <2>3. version + j \in version + 1 .. version + n /\ version + j \in Nat
    BY <1>2, <2>1
  <2>4. actor = "Agent" => ~new[j].byUser
    BY <1>1, <2>1 DEF LayBatch
  <2> QED
    BY <1>4, <2>1, <2>2, <2>3, <2>4 DEF Item, ItemStatus
<1>7. /\ Exists
      /\ version' = version + n
      /\ humanEdit' = IF actor = "Human" THEN version + n ELSE humanEdit
      /\ UNCHANGED <<status, synced, evidence, sessions, gate>>
  BY <1>1 DEF LayBatch
<1>8. item' \in [ItemId -> Item]
  <2>1. item' = [i \in ItemId |-> item'[i]]
    BY <1>1 DEF LayBatch
  <2>2. \A i \in ItemId : item'[i] \in Item
    BY <1>5, <1>6 DEF TypeOK
  <2> QED
    BY <2>1, <2>2
<1>9. \E i \in Unused : item'[i].status = "Open"
  <2>1. 1 \in 1 .. n
    BY <1>2
  <2> QED
    BY <1>3, <1>6, <2>1
<1>10. Unused \subseteq ItemId
  BY DEF Unused
<1> QED
  BY <1>2, <1>3, <1>5, <1>6, <1>7, <1>8, <1>9, <1>10

\* The numbers are numbers, for the provers' arithmetic.
LEMMA Numbers ==
  TypeOK => /\ version \in Nat /\ synced \in Nat /\ humanEdit \in Nat
            /\ \A i \in ItemId : item[i].lastEdited \in Nat /\ evidence[i] \in Nat
            /\ \A s \in Session : gate[s].at \in Nat
BY DEF TypeOK, Item

LEMMA StepType == TypeOK /\ [Next]_vars => TypeOK'
<1> SUFFICES ASSUME TypeOK, [Next]_vars PROVE TypeOK'
  OBVIOUS
<1>1. ASSUME NEW actor \in Actor, LayItems(actor) PROVE TypeOK'
  <2>1. /\ version' \in Nat /\ version' > version
        /\ humanEdit' \in Nat /\ humanEdit' <= version'
        /\ item' \in [ItemId -> Item]
        /\ UNCHANGED <<status, synced, evidence, sessions, gate>>
    BY <1>1, LaidItems
  <2>2. ASSUME NEW i \in ItemId
        PROVE  item'[i].lastEdited <= version' /\ (i \in Live' => item'[i].lastEdited > 0)
    <3>1. CASE item'[i] = item[i]
      BY <2>1, <3>1, Numbers DEF TypeOK, Live
    <3>2. CASE item'[i].lastEdited \in version + 1 .. version'
      BY <2>1, <3>2, Numbers
    <3> QED
      BY <1>1, <3>1, <3>2, LaidItems
  <2> QED
    BY <2>1, <2>2 DEF TypeOK, Live
<1> USE DEF TypeOK
<1>2. ASSUME NEW actor \in Actor, NEW i \in ItemId, NEW c \in Class, EditItem(actor, i, c)
      PROVE  TypeOK'
  <2>1. item[i] \in Item /\ version + 1 \in Nat
    OBVIOUS
  <2>2. Reopened(i, c) \in Item /\ Reopened(i, c).lastEdited = version + 1
    BY <2>1 DEF Reopened, Item, ItemStatus
  <2>3. /\ item' = [item EXCEPT ![i] = Reopened(i, c)]
        /\ version' = version + 1
        /\ humanEdit' \in {humanEdit, version + 1}
        /\ UNCHANGED <<status, synced, evidence, sessions, gate>>
    BY <1>2 DEF EditItem
  <2>4. item' \in [ItemId -> Item]
    BY <2>2, <2>3
  <2>5. \A k \in ItemId : /\ item'[k].lastEdited <= version'
                          /\ k \in Live' => item'[k].lastEdited > 0
    BY <2>2, <2>3, Numbers DEF Live
  <2> QED
    BY <2>3, <2>4, <2>5, Numbers DEF Live
<1>3. ASSUME NEW i \in ItemId, DeleteItem(i) PROVE TypeOK'
  <2>1. [NoItem EXCEPT !.status = "Deleted"] \in Item
    BY ContractAssumption DEF NoItem, Item, ItemStatus
  <2>2. /\ item' = [item EXCEPT ![i] = [NoItem EXCEPT !.status = "Deleted"]]
        /\ evidence' = [evidence EXCEPT ![i] = 0]
        /\ version' = version + 1 /\ humanEdit' = version + 1
        /\ UNCHANGED <<status, synced, sessions, gate>>
    BY <1>3 DEF DeleteItem
  <2>3. item' \in [ItemId -> Item]
    BY <2>1, <2>2
  <2>4. \A k \in ItemId : /\ item'[k].lastEdited <= version'
                          /\ k \in Live' => item'[k].lastEdited > 0
    BY <2>2, Numbers DEF Live, NoItem, ItemStatus
  <2> QED
    BY <2>2, <2>3, <2>4, Numbers DEF Live
<1>4. ASSUME NEW i \in ItemId, SetInterpretation(i) PROVE TypeOK'
  BY <1>4 DEF SetInterpretation, Live, Item
<1>5. ASSUME NEW i \in ItemId, AddEvidence(i) PROVE TypeOK'
  BY <1>5 DEF AddEvidence, StatusWithEvidence, Live, Item, ItemStatus
<1>6. ASSUME NEW i \in ItemId, NEW passed \in BOOLEAN, ReportOracle(i, passed) PROVE TypeOK'
  BY <1>6 DEF ReportOracle, Live, Item, ItemStatus
<1>7. ASSUME NEW to \in 0 .. MaxVersion, Reconcile(to) PROVE TypeOK'
  BY <1>7 DEF Reconcile, MayReconcile, Live
<1>8. ASSUME NEW s \in Session, NEW pane \in Pane \cup {"NoPane"}, BindSession(s, pane)
      PROVE  TypeOK'
  BY <1>8 DEF BindSession, Bound, Live
<1>9. ASSUME EndTurn PROVE TypeOK'
  BY <1>9 DEF EndTurn, Live, GoalStatus
<1>10. ASSUME NEW surviving \in SUBSET Pane, Restart(surviving) PROVE TypeOK'
  BY <1>10 DEF Restart, Live, GoalStatus, Idle
<1>11. CASE CloseGoal
  BY <1>11 DEF CloseGoal, Live, GoalStatus
<1>12. CASE DeleteGoal
  <2>1. [NoItem EXCEPT !.status = "Deleted"] \in Item
    BY ContractAssumption DEF NoItem, Item, ItemStatus
  <2> QED
    BY <1>12, <2>1 DEF DeleteGoal, Live, NoItem, ItemStatus
<1>13. ASSUME NEW s \in Session, GateRead(s) PROVE TypeOK'
  BY <1>13 DEF GateRead, goalVars, Live, Releasable
<1>14. ASSUME NEW s \in Session, GateBind(s) PROVE TypeOK'
  BY <1>14 DEF GateBind, Bound, Live
<1>15. ASSUME NEW s \in Session, GateRecord(s) PROVE TypeOK'
  BY <1>15 DEF GateRecord, Live, GoalStatus, Idle, Exists
<1>16. CASE UNCHANGED vars
  BY <1>16 DEF vars, goalVars, Live
<1> QED
  BY <1>1, <1>2, <1>3, <1>4, <1>5, <1>6, <1>7, <1>8, <1>9, <1>10, <1>11, <1>12,
     <1>13, <1>14, <1>15, <1>16
  DEF Next, HumanNext, AgentNext, HookNext, Actor

\* Every variable keeps its type in every reachable state, and nothing is ever
\* ahead of the contract version.
THEOREM TypeCorrect == Spec => []TypeOK
<1>1. Init => TypeOK
  BY InitType
<1>2. TypeOK /\ [Next]_vars => TypeOK'
  BY StepType
<1> QED
  BY <1>1, <1>2, PTL DEF Spec

-----------------------------------------------------------------------------
(***************************************************************************)
(* A status is backed.  Backed(i) is StatusIsBacked for one item: a step   *)
(* that touches one item needs an argument for that item only.             *)
(***************************************************************************)
Backed(i) ==
    /\ item[i].status = "Passed" => Objective(i)
    /\ item[i].status = "Laid" => ~Objective(i) /\ item[i].interpreted /\ Fresh(i)
    /\ i \notin Live => evidence[i] = 0
    /\ item[i].status = "Waived" => i \in Legacy

LEMMA BackedEach == StatusIsBacked <=> \A i \in ItemId : Backed(i)
BY DEF StatusIsBacked, Backed

LEMMA BackedFrame ==
  ASSUME NEW i \in ItemId, Backed(i), item'[i] = item[i], evidence'[i] = evidence[i]
  PROVE  Backed(i)'
BY DEF Backed, Objective, Fresh, Live

LEMMA InitBacked == Init => StatusIsBacked
<1> SUFFICES ASSUME Init, NEW i \in ItemId PROVE Backed(i)
  BY BackedEach
<1>1. evidence[i] = 0
  BY DEF Init
<1>2. item[i].status = "Unused" \/ (item[i].status = "Waived" /\ i \in Legacy)
  BY DEF Init, NewGoal, LoadedGoal, WaivedItem, NoItem
<1> QED
  BY <1>1, <1>2 DEF Backed, Live, ItemStatus

LEMMA StepBacked == TypeOK /\ StatusIsBacked /\ [Next]_vars => StatusIsBacked'
<1> SUFFICES ASSUME TypeOK, StatusIsBacked, [Next]_vars, NEW k \in ItemId PROVE Backed(k)'
  BY DEF StatusIsBacked, Backed
<1>0. Backed(k)
  BY BackedEach
<1>1. ASSUME NEW actor \in Actor, LayItems(actor) PROVE Backed(k)'
  <2>1. evidence' = evidence
    BY <1>1, LaidItems
  <2>2. CASE item'[k] = item[k]
    BY <1>0, <2>1, <2>2, BackedFrame
  <2>3. CASE item'[k].status = "Open"
    BY <2>3 DEF Backed, Live, ItemStatus
  <2> QED
    BY <1>1, <2>2, <2>3, LaidItems
<1>2. ASSUME NEW actor \in Actor, NEW i \in ItemId, NEW c \in Class, EditItem(actor, i, c)
      PROVE  Backed(k)'
  <2>1. item' = [item EXCEPT ![i] = Reopened(i, c)] /\ evidence' = evidence
    BY <1>2 DEF EditItem
  <2>2. CASE k = i
    <3>1. Reopened(i, c).status = "Open"
      BY DEF Reopened, TypeOK, Item
    <3> QED
      BY <2>1, <2>2, <3>1 DEF Backed, Live, ItemStatus, TypeOK
  <2> QED
    BY <1>0, <2>1, <2>2, BackedFrame DEF TypeOK
<1>3. ASSUME NEW i \in ItemId, DeleteItem(i) PROVE Backed(k)'
  <2>1. CASE k = i
    BY <1>3, <2>1 DEF DeleteItem, NoItem, Backed, Live, ItemStatus, TypeOK
  <2> QED
    BY <1>0, <1>3, <2>1, BackedFrame DEF DeleteItem, TypeOK
<1>4. ASSUME NEW i \in ItemId, SetInterpretation(i) PROVE Backed(k)'
  <2>1. CASE k = i
    <3>1. item'[i] = [item[i] EXCEPT !.interpreted = TRUE] /\ evidence' = evidence
      BY <1>4 DEF SetInterpretation, TypeOK
    <3> QED
      BY <1>0, <2>1, <3>1 DEF Backed, Objective, Fresh, Live, TypeOK, Item
  <2> QED
    BY <1>0, <1>4, <2>1, BackedFrame DEF SetInterpretation, TypeOK
<1>5. ASSUME NEW i \in ItemId, AddEvidence(i) PROVE Backed(k)'
  <2>1. CASE k = i
    <3>1. evidence'[i] = version /\ i \in Live'
      BY <1>5 DEF AddEvidence, StatusWithEvidence, TypeOK, Live, ItemStatus, Item
    <3>2. item'[i] = [item[i] EXCEPT !.status = StatusWithEvidence(i)]
      BY <1>5 DEF AddEvidence, TypeOK
    <3>3. Fresh(i)'
      BY <1>5, <3>1, <3>2, Numbers DEF AddEvidence, Fresh, TypeOK, Item
    <3> QED
      BY <1>0, <2>1, <3>1, <3>2, <3>3
      DEF Backed, StatusWithEvidence, Objective, Fresh, TypeOK, Item
  <2> QED
    BY <1>0, <1>5, <2>1, BackedFrame DEF AddEvidence, TypeOK
<1>6. ASSUME NEW i \in ItemId, NEW passed \in BOOLEAN, ReportOracle(i, passed) PROVE Backed(k)'
  <2>1. CASE k = i
    BY <1>6, <2>1 DEF ReportOracle, Backed, Objective, Live, ItemStatus, TypeOK, Item
  <2> QED
    BY <1>0, <1>6, <2>1, BackedFrame DEF ReportOracle, TypeOK
<1>7. CASE DeleteGoal
  BY <1>7 DEF DeleteGoal, NoItem, Backed, Live, ItemStatus
<1>8. CASE UNCHANGED <<item, evidence>>
  BY <1>0, <1>8, BackedFrame
<1> QED
  BY <1>1, <1>2, <1>3, <1>4, <1>5, <1>6, <1>7, <1>8
  DEF Next, HumanNext, AgentNext, HookNext, Actor, vars, goalVars, CloseGoal, Reconcile,
      BindSession, EndTurn, Restart, GateRead, GateBind, GateRecord

\* Nothing subjective is ever passed, nothing is laid on stale evidence, and no
\* evidence outlives its item: whatever the order of the calls.
THEOREM StatusBacked == Spec => []StatusIsBacked
<1>1. Init => TypeOK /\ StatusIsBacked
  BY InitType, InitBacked
<1>2. TypeOK /\ StatusIsBacked /\ [Next]_vars => (TypeOK /\ StatusIsBacked)'
  BY StepType, StepBacked
<1> QED
  BY <1>1, <1>2, PTL DEF Spec

-----------------------------------------------------------------------------
(***************************************************************************)
(* The gate's window.  Stands(i) is what a pending release still claims of *)
(* item i.  A step either moves the version, and then no pending release   *)
(* is about the contract any more, or it touches one item, for which       *)
(* Stands is preserved.  That needs the two earlier invariants: a live     *)
(* item was laid at version 1 or later, and only legacy items are waived.  *)
(***************************************************************************)
Stands(i) ==
    \/ Settled(i)
    \/ /\ Objective(i)
       /\ (item[i].status = "Open" /\ Fresh(i)) \/ i \in Legacy

Pending(s) == Exists /\ gate[s].release /\ gate[s].at = version

LEMMA VerdictEach ==
  VerdictStands <=> \A s \in Session : Pending(s) =>
                      Live # {} /\ synced = version /\ \A i \in Live : Stands(i)
BY DEF VerdictStands, Pending, Stands

\* One item at a time: the agent's reports keep what a release claims.
LEMMA StandsKept ==
  ASSUME TypeOK, StatusIsBacked, NEW i \in ItemId,
         \/ SetInterpretation(i)
         \/ AddEvidence(i)
         \/ \E passed \in BOOLEAN : ReportOracle(i, passed)
  PROVE  /\ Live' = Live /\ version' = version /\ synced' = synced
         /\ status' = status /\ gate' = gate
         /\ \A k \in Live : Stands(k) => Stands(k)'
<1>1. CASE SetInterpretation(i)
  <2>1. \A k \in ItemId : /\ item'[k] = IF k = i THEN [item[i] EXCEPT !.interpreted = TRUE]
                                                ELSE item[k]
                          /\ evidence'[k] = evidence[k]
    BY <1>1 DEF SetInterpretation, TypeOK
  <2>2. Live' = Live
    BY <2>1 DEF Live, TypeOK, Item
  <2>3. \A k \in Live : Stands(k) => Stands(k)'
    BY <2>1 DEF Live, Stands, Settled, Objective, Fresh, TypeOK, Item
  <2> QED
    BY <1>1, <2>2, <2>3 DEF SetInterpretation
<1>2. CASE AddEvidence(i)
  <2>1. \A k \in ItemId : /\ item'[k] = IF k = i
                                        THEN [item[i] EXCEPT !.status = StatusWithEvidence(i)]
                                        ELSE item[k]
                          /\ evidence'[k] = IF k = i THEN version ELSE evidence[k]
    BY <1>2 DEF AddEvidence, TypeOK
  <2>2. Live' = Live
    BY <1>2, <2>1 DEF AddEvidence, StatusWithEvidence, Live, TypeOK, Item, ItemStatus
  <2>3. ASSUME NEW k \in Live, Stands(k) PROVE Stands(k)'
    <3>1. CASE k # i
      BY <2>1, <2>3, <3>1 DEF Live, Stands, Settled, Objective, Fresh
    <3>2. CASE k = i
      <4>1. Fresh(i)'
        BY <1>2, <2>1, Numbers DEF AddEvidence, Fresh, Live, TypeOK, Item
      <4>2. item'[i] = [item[i] EXCEPT !.status = StatusWithEvidence(i)] /\ item[i] \in Item
        BY <2>1 DEF TypeOK
      <4> QED
        BY <2>3, <3>2, <4>1, <4>2
        DEF Stands, Settled, StatusWithEvidence, Objective, Item
    <3> QED
      BY <3>1, <3>2
  <2> QED
    BY <1>2, <2>2, <2>3 DEF AddEvidence
<1>3. ASSUME NEW passed \in BOOLEAN, ReportOracle(i, passed)
      PROVE  /\ Live' = Live /\ version' = version /\ synced' = synced
             /\ status' = status /\ gate' = gate
             /\ \A k \in Live : Stands(k) => Stands(k)'
  <2> DEFINE st == IF passed THEN "Passed" ELSE "Open"
  <2>1. \A k \in ItemId : /\ item'[k] = IF k = i THEN [item[i] EXCEPT !.status = st] ELSE item[k]
                          /\ evidence'[k] = evidence[k]
    BY <1>3 DEF ReportOracle, TypeOK
  <2>2. Live' = Live
    BY <1>3, <2>1 DEF ReportOracle, Live, TypeOK, Item, ItemStatus
  <2>3. ASSUME NEW k \in Live, Stands(k) PROVE Stands(k)'
    <3>1. CASE k # i
      BY <2>1, <2>3, <3>1 DEF Live, Stands, Settled, Objective, Fresh
    <3>2. CASE k = i
      <4>1. /\ item'[i].status = st /\ item'[i].class = item[i].class
            /\ item'[i].lastEdited = item[i].lastEdited /\ evidence'[i] = evidence[i]
        BY <2>1 DEF TypeOK, Item
      <4>2. Objective(i) /\ Objective(i)'
        BY <1>3, <4>1 DEF ReportOracle, Objective
      <4>3. Fresh(i) \/ i \in Legacy
        BY <2>3, <3>2, <4>2 DEF Stands, Settled, StatusIsBacked
      <4>4. Fresh(i) => Fresh(i)'
        BY <4>1 DEF Fresh
      <4> QED
        BY <3>2, <4>1, <4>2, <4>3, <4>4 DEF Stands, Settled
    <3> QED
      BY <3>1, <3>2
  <2> QED
    BY <1>3, <2>2, <2>3 DEF ReportOracle
<1> QED
  BY <1>1, <1>2, <1>3

LEMMA StepVerdict ==
  TypeOK /\ StatusIsBacked /\ VerdictStands /\ [Next]_vars => VerdictStands'
<1> SUFFICES ASSUME TypeOK, StatusIsBacked, VerdictStands, [Next]_vars,
                    NEW s \in Session, Pending(s)'
             PROVE  (Live # {} /\ synced = version /\ \A i \in Live : Stands(i))'
  BY DEF VerdictStands, Pending, Stands
<1>0. Pending(s) => Live # {} /\ synced = version /\ \A i \in Live : Stands(i)
  BY VerdictEach
\* A step that moves the version leaves no release pending.
<1>1. ~(gate' = gate /\ version' \in Nat /\ version' > version)
  BY Numbers DEF Pending, TypeOK
<1>2. ASSUME NEW actor \in Actor PROVE ~LayItems(actor)
  BY <1>1, LaidItems
<1>3. ASSUME NEW actor \in Actor, NEW i \in ItemId, NEW c \in Class
      PROVE  ~EditItem(actor, i, c)
  BY <1>1, Numbers DEF EditItem
<1>4. ASSUME NEW i \in ItemId PROVE ~DeleteItem(i)
  BY <1>1, Numbers DEF DeleteItem
<1>5. ASSUME NEW i \in ItemId,
             \/ SetInterpretation(i)
             \/ AddEvidence(i)
             \/ \E passed \in BOOLEAN : ReportOracle(i, passed)
      PROVE  (Live # {} /\ synced = version /\ \A k \in Live : Stands(k))'
  <2>1. /\ Live' = Live /\ version' = version /\ synced' = synced
        /\ status' = status /\ gate' = gate
        /\ \A k \in Live : Stands(k) => Stands(k)'
    BY <1>5, StandsKept
  <2>2. Pending(s)
    BY <2>1 DEF Pending, Exists
  <2> QED
    BY <1>0, <2>1, <2>2
\* Other steps leave the items and the version alone, and an agent that is
\* synced to the latest version cannot reconcile away from it.
<1>6. ASSUME Pending(s), UNCHANGED <<version, item, evidence>>,
             synced' = synced \/ \E to \in 0 .. MaxVersion : Reconcile(to)
      PROVE  (Live # {} /\ synced = version /\ \A i \in Live : Stands(i))'
  <2>1. synced' = version
    BY <1>0, <1>6, Numbers DEF Reconcile, MayReconcile
  <2> QED
    BY <1>0, <1>6, <2>1 DEF Live, Stands, Settled, Objective, Fresh
<1>7. ASSUME NEW to \in 0 .. MaxVersion, Reconcile(to)
      PROVE  Pending(s) /\ UNCHANGED <<version, item, evidence>>
  BY <1>7 DEF Reconcile, Pending, Exists
<1>8. ASSUME NEW r \in Session, GateRead(r)
      PROVE  (Live # {} /\ synced = version /\ \A i \in Live : Stands(i))'
  <2>1. UNCHANGED <<status, version, synced, item, evidence>>
    BY <1>8 DEF GateRead, goalVars
  <2>2. CASE r = s
    <3>1. Releasable
      BY <1>8, <2>2 DEF GateRead, Pending, TypeOK
    <3> QED
      BY <2>1, <3>1 DEF Releasable, Live, Stands, Settled, Objective, Fresh
  <2>3. CASE r # s
    BY <1>6, <1>8, <2>1, <2>3 DEF GateRead, Pending, Exists, TypeOK
  <2> QED
    BY <2>2, <2>3
<1>9. ASSUME NEW r \in Session, GateBind(r) \/ GateRecord(r)
      PROVE  Pending(s) /\ UNCHANGED <<version, synced, item, evidence>>
  BY <1>9 DEF GateBind, GateRecord, Pending, Exists, TypeOK, Idle
<1>10. ASSUME NEW surviving \in SUBSET Pane PROVE ~Restart(surviving)
  BY DEF Restart, Pending, Idle
<1>11. ~DeleteGoal
  BY DEF DeleteGoal, Pending, Exists
<1>12. ASSUME \/ CloseGoal \/ EndTurn \/ UNCHANGED vars
              \/ \E r \in Session, pane \in Pane \cup {"NoPane"} : BindSession(r, pane)
       PROVE  Pending(s) /\ UNCHANGED <<version, synced, item, evidence>>
  BY <1>12 DEF CloseGoal, EndTurn, BindSession, vars, goalVars, Pending, Exists
<1> QED
  BY <1>2, <1>3, <1>4, <1>5, <1>6, <1>7, <1>8, <1>9, <1>10, <1>11, <1>12
  DEF Next, HumanNext, AgentNext, HookNext, Actor

\* A release on its way to the agent is still deserved, unless the version has
\* moved under it or an oracle report came in.
THEOREM VerdictHolds == Spec => []VerdictStands
<1>1. Init => TypeOK /\ StatusIsBacked /\ VerdictStands
  BY InitType, InitBacked DEF Init, VerdictStands, Idle
<1>2. TypeOK /\ StatusIsBacked /\ VerdictStands /\ [Next]_vars
        => (TypeOK /\ StatusIsBacked /\ VerdictStands)'
  BY StepType, StepBacked, StepVerdict
<1> QED
  BY <1>1, <1>2, PTL DEF Spec

-----------------------------------------------------------------------------
(***************************************************************************)
(* Steps.  An edit makes stale; the human's items are the human's.         *)
(***************************************************************************)
LEMMA StaleStep ==
  ASSUME TypeOK, StatusIsBacked, [Next]_vars, NEW i \in ItemId,
         i \in Live', item'[i].lastEdited # item[i].lastEdited
  PROVE  ~Fresh(i)' /\ synced' < version' /\ item'[i].status = "Open"
<1>1. ASSUME NEW actor \in Actor, LayItems(actor)
      PROVE  ~Fresh(i)' /\ synced' < version' /\ item'[i].status = "Open"
  <2>1. i \in Unused /\ item'[i].status = "Open"
    BY <1>1, LaidItems
  <2>2. evidence'[i] = 0
    <3>1. i \notin Live
      BY <2>1 DEF Unused, Live, ItemStatus
    <3>2. evidence' = evidence
      BY <1>1, LaidItems
    <3> QED
      BY <3>1, <3>2 DEF StatusIsBacked
  <2>3. version' > version /\ version' \in Nat /\ synced' = synced
    BY <1>1, LaidItems
  <2> QED
    BY <2>1, <2>2, <2>3, Numbers DEF Fresh, TypeOK
<1>2. ASSUME NEW actor \in Actor, NEW k \in ItemId, NEW c \in Class, EditItem(actor, k, c)
      PROVE  ~Fresh(i)' /\ synced' < version' /\ item'[i].status = "Open"
  <2>1. /\ item' = [item EXCEPT ![k] = Reopened(k, c)] /\ evidence' = evidence
        /\ version' = version + 1 /\ synced' = synced
    BY <1>2 DEF EditItem
  <2>2. i = k
    BY <2>1 DEF TypeOK
  <2>3. item'[i].lastEdited = version + 1 /\ item'[i].status = "Open"
    BY <2>1, <2>2 DEF Reopened, TypeOK, Item
  <2> QED
    BY <2>1, <2>3, Numbers DEF Fresh, TypeOK
<1>3. ASSUME NEW k \in ItemId, DeleteItem(k) PROVE FALSE
  BY <1>3 DEF DeleteItem, Live, NoItem, ItemStatus, TypeOK
<1>4. ASSUME NEW k \in ItemId, SetInterpretation(k) PROVE FALSE
  BY <1>4 DEF SetInterpretation, TypeOK, Item
<1>5. ASSUME NEW k \in ItemId, AddEvidence(k) PROVE FALSE
  BY <1>5 DEF AddEvidence, TypeOK, Item
<1>6. ASSUME NEW k \in ItemId, NEW passed \in BOOLEAN, ReportOracle(k, passed) PROVE FALSE
  BY <1>6 DEF ReportOracle, TypeOK, Item
<1>7. ~DeleteGoal
  BY DEF DeleteGoal, Live, NoItem, ItemStatus
<1>8. ~UNCHANGED item
  OBVIOUS
<1> QED
  BY <1>1, <1>2, <1>3, <1>4, <1>5, <1>6, <1>7, <1>8
  DEF Next, HumanNext, AgentNext, HookNext, Actor, vars, goalVars, CloseGoal, Reconcile,
      BindSession, EndTurn, Restart, GateRead, GateBind, GateRecord

\* Moving a yardstick stales the evidence, reopens the item and leaves the agent
\* behind, in one step.
THEOREM EditsMakeStale == Spec => EditMakesStale
<1>1. TypeOK /\ StatusIsBacked /\ [Next]_vars =>
        [\A i \in ItemId : (i \in Live' /\ item'[i].lastEdited # item[i].lastEdited) =>
            ~Fresh(i)' /\ synced' < version' /\ item'[i].status = "Open"]_vars
  BY StaleStep
<1>2. Spec => [](TypeOK /\ StatusIsBacked)
  BY TypeCorrect, StatusBacked, PTL
<1> QED
  BY <1>1, <1>2, PTL DEF Spec, EditMakesStale

LEMMA HumanStep ==
  ASSUME TypeOK, AgentNext
  PROVE  /\ humanEdit' = humanEdit
         /\ Live \subseteq Live'
         /\ \A i \in Live : item[i].byUser =>
              /\ item'[i].byUser
              /\ item'[i].class = item[i].class
              /\ item'[i].lastEdited = item[i].lastEdited
<1> DEFINE Kept(i) == /\ i \in Live'
                      /\ item[i].byUser => /\ item'[i].byUser
                                           /\ item'[i].class = item[i].class
                                           /\ item'[i].lastEdited = item[i].lastEdited
<1> SUFFICES humanEdit' = humanEdit /\ \A i \in Live : Kept(i)
  OBVIOUS
<1>0. \A i \in Live : i \in ItemId /\ i \notin Unused
  BY DEF Live, Unused, ItemStatus
<1>1. CASE LayItems("Agent")
  <2>1. \A i \in Live : item'[i] = item[i]
    BY <1>0, <1>1, LaidItems DEF Actor
  <2>2. humanEdit' = humanEdit
    BY <1>1, LaidItems DEF Actor
  <2> QED
    BY <2>1, <2>2 DEF Live
<1>2. ASSUME NEW k \in ItemId, NEW c \in Class, EditItem("Agent", k, c)
      PROVE  humanEdit' = humanEdit /\ \A i \in Live : Kept(i)
  <2>1. /\ item' = [item EXCEPT ![k] = Reopened(k, c)]
        /\ humanEdit' = humanEdit /\ ~item[k].byUser
    BY <1>2 DEF EditItem, MayEdit
  <2>2. Reopened(k, c).status = "Open"
    BY DEF Reopened, TypeOK, Item
  <2> QED
    BY <2>1, <2>2 DEF Live, ItemStatus, TypeOK
<1>3. ASSUME NEW k \in ItemId, SetInterpretation(k)
      PROVE  humanEdit' = humanEdit /\ \A i \in Live : Kept(i)
  BY <1>3 DEF SetInterpretation, Live, TypeOK, Item
<1>4. ASSUME NEW k \in ItemId, AddEvidence(k)
      PROVE  humanEdit' = humanEdit /\ \A i \in Live : Kept(i)
  BY <1>4 DEF AddEvidence, StatusWithEvidence, Live, TypeOK, Item, ItemStatus
<1>5. ASSUME NEW k \in ItemId, NEW passed \in BOOLEAN, ReportOracle(k, passed)
      PROVE  humanEdit' = humanEdit /\ \A i \in Live : Kept(i)
  BY <1>5 DEF ReportOracle, Live, TypeOK, Item, ItemStatus
<1>6. ASSUME NEW to \in 0 .. MaxVersion, Reconcile(to)
      PROVE  humanEdit' = humanEdit /\ \A i \in Live : Kept(i)
  BY <1>6 DEF Reconcile, Live
<1> QED
  BY <1>1, <1>2, <1>3, <1>4, <1>5, <1>6 DEF AgentNext

\* No step of the agent touches what the human wrote.
THEOREM HumanItemsHold == Spec => HumanItemsStand
<1>1. TypeOK /\ [Next]_vars =>
        [AgentNext =>
           /\ humanEdit' = humanEdit
           /\ Live \subseteq Live'
           /\ \A i \in Live : item[i].byUser =>
                /\ item'[i].byUser
                /\ item'[i].class = item[i].class
                /\ item'[i].lastEdited = item[i].lastEdited]_vars
  BY HumanStep
<1> QED
  BY <1>1, TypeCorrect, PTL DEF Spec, HumanItemsStand

-----------------------------------------------------------------------------
(* The life of a goal and of its bindings *)

\* Only four steps look past the contract, at the goal's status or its sessions.
LEMMA ContractSteps ==
  ASSUME TypeOK, [Next]_vars
  PROVE  \/ UNCHANGED <<status, sessions>>
         \/ CloseGoal \/ DeleteGoal \/ EndTurn
         \/ \E s \in Session : GateBind(s) \/ GateRecord(s)
         \/ \E s \in Session, pane \in Pane \cup {"NoPane"} : BindSession(s, pane)
         \/ \E surviving \in SUBSET Pane : Restart(surviving)
<1>1. ASSUME NEW actor \in Actor, LayItems(actor) PROVE UNCHANGED <<status, sessions>>
  BY <1>1 DEF LayItems, LayBatch
<1>2. CASE HumanNext
  BY <1>1, <1>2 DEF HumanNext, EditItem, DeleteItem, Actor
<1>3. CASE AgentNext
  BY <1>1, <1>3 DEF AgentNext, EditItem, SetInterpretation, AddEvidence, ReportOracle,
                    Reconcile, Actor
<1>4. CASE HookNext
  BY <1>4 DEF HookNext, GateRead, goalVars
<1> QED
  BY <1>2, <1>3, <1>4 DEF Next, vars, goalVars

LEMMA PaneStep ==
  ASSUME TypeOK, [Next]_vars, NEW s \in Session, sessions[s] \in Pane
  PROVE  sessions'[s] \in Pane
<1>1. ASSUME NEW t \in Session, NEW pane \in Pane \cup {"NoPane"}
      PROVE  Bound(t, pane)[s] \in Pane
  BY ContractAssumption DEF Bound, TypeOK
<1>2. \/ sessions' = sessions
      \/ \E t \in Session, pane \in Pane \cup {"NoPane"} : sessions' = Bound(t, pane)
  BY ContractSteps DEF CloseGoal, DeleteGoal, EndTurn, GateBind, GateRecord, BindSession, Restart
<1> QED
  BY <1>1, <1>2

\* A pane once learned for a session is never forgotten, for any sessions and panes.
THEOREM PanesStay == Spec => PaneRemembered
<1>1. TypeOK /\ [Next]_vars =>
        [\A s \in Session : sessions[s] \in Pane => sessions'[s] \in Pane]_vars
  BY PaneStep
<1> QED
  BY <1>1, TypeCorrect, PTL DEF Spec, PaneRemembered

LEMMA StatusStep ==
  ASSUME TypeOK, [Next]_vars, status' # status
  PROVE  <<status, status'>> \in
           {<<"Running", "AwaitingRulings">>, <<"Running", "TurnEndedUnmet">>,
            <<"TurnEndedUnmet", "Running">>, <<"TurnEndedUnmet", "AwaitingRulings">>,
            <<"Closed", "AwaitingRulings">>}
           \cup (GoalStatus \X {"Closed", "Deleted"})
<1>1. CASE CloseGoal \/ DeleteGoal
  <2>1. status \in GoalStatus /\ status' \in {"Closed", "Deleted"}
    BY <1>1 DEF CloseGoal, DeleteGoal, Exists, TypeOK
  <2> QED
    BY <2>1
<1>2. CASE EndTurn \/ \E surviving \in SUBSET Pane : Restart(surviving)
  BY <1>2 DEF EndTurn, Restart
<1>3. CASE \E s \in Session : GateRecord(s)
  BY <1>3 DEF GateRecord, Exists, TypeOK, GoalStatus
<1> QED
  BY <1>1, <1>2, <1>3, ContractSteps DEF GateBind, BindSession

\* A goal's status takes only the paths of StatusPath, for any number of items, sessions
\* and gate calls at once.
THEOREM StatusPaths == Spec => StatusPath
<1>1. TypeOK /\ [Next]_vars =>
        [status' # status =>
           <<status, status'>> \in
             {<<"Running", "AwaitingRulings">>, <<"Running", "TurnEndedUnmet">>,
              <<"TurnEndedUnmet", "Running">>, <<"TurnEndedUnmet", "AwaitingRulings">>,
              <<"Closed", "AwaitingRulings">>}
             \cup (GoalStatus \X {"Closed", "Deleted"})]_vars
  BY StatusStep
<1> QED
  BY <1>1, TypeCorrect, PTL DEF Spec, StatusPath

-----------------------------------------------------------------------------
(***************************************************************************)
(* Refinement: every step of the contract is a step of ReleaseRule, or     *)
(* none that ReleaseRule can see.                                          *)
(***************************************************************************)
LEMMA InitRule == Init => Rule!Init
<1> SUFFICES ASSUME Init PROVE Rule!Init
  OBVIOUS
<1>1. Verdict = [s \in Session |-> "none"]
  BY DEF Init, Verdict, Idle
<1> QED
  BY <1>1 DEF Rule!Init, Live, Owed

\* An item that did not change is held and owed as before.
LEMMA SameItem ==
  ASSUME NEW i \in ItemId, item'[i] = item[i], evidence'[i] = evidence[i]
  PROVE  (i \in Live' <=> i \in Live) /\ (i \in Owed' <=> i \in Owed)
BY DEF Live, Owed, Settled, Objective, Fresh

\* A yardstick moved, or new ones laid.
LEMMA DemandStep ==
  ASSUME TypeOK, NEW S \in SUBSET ItemId, S # {},
         \A i \in S : item'[i].status = "Open",
         \A i \in ItemId \ S : item'[i] = item[i] /\ evidence'[i] = evidence[i],
         version' \in Nat, version' > version, UNCHANGED <<synced, gate>>
  PROVE  Rule!Demand(S)
<1>1. \A i \in S : i \in Live' /\ i \in Owed'
  BY DEF Live, Owed, Settled, ItemStatus
<1>2. Live' = Live \cup S /\ Owed' = Owed \cup S
  <2>1. \A i \in ItemId : i \in Live' <=> i \in Live \cup S
    BY <1>1, SameItem
  <2>2. \A i \in ItemId : i \in Owed' <=> i \in Owed \cup S
    BY <1>1, SameItem
  <2>3. Live \subseteq ItemId /\ Live' \subseteq ItemId /\ Owed \subseteq ItemId /\ Owed' \subseteq ItemId
    BY DEF Live, Owed
  <2> QED
    BY <2>1, <2>2, <2>3
<1>3. (synced = version)' = FALSE
  BY Numbers DEF TypeOK
<1>4. Verdict' = Verdict
  BY DEF Verdict
<1> QED
  BY <1>2, <1>3, <1>4 DEF Rule!Demand

\* One item reported on.
LEMMA ReportStep ==
  ASSUME NEW k \in Live, Live' = Live,
         \A i \in ItemId \ {k} : item'[i] = item[i] /\ evidence'[i] = evidence[i],
         UNCHANGED <<version, synced, gate>>
  PROVE  [Rule!Next]_(Rule!ruleVars)
<1>1. \A i \in ItemId \ {k} : i \in Owed' <=> i \in Owed
  BY SameItem
<1>2. k \in ItemId /\ Owed \subseteq ItemId /\ Owed' \subseteq ItemId /\ Owed \subseteq Live
  BY DEF Live, Owed
<1>3. Verdict' = Verdict /\ (synced = version)' = (synced = version)
  BY DEF Verdict
<1>4. CASE k \in Owed'
  <2>1. Owed' = Owed \cup {k}
    BY <1>1, <1>2, <1>4
  <2>2. Rule!Retract(k)
    BY <1>3, <2>1 DEF Rule!Retract
  <2> QED
    BY <1>2, <2>2 DEF Rule!Next
<1>5. CASE k \in Owed /\ k \notin Owed'
  <2>1. Owed' = Owed \ {k}
    BY <1>1, <1>2, <1>5
  <2>2. Rule!Answer(k)
    BY <1>3, <1>5, <2>1 DEF Rule!Answer
  <2> QED
    BY <1>2, <2>2 DEF Rule!Next
<1>6. CASE k \notin Owed /\ k \notin Owed'
  <2>1. Owed' = Owed
    BY <1>1, <1>2, <1>6
  <2> QED
    BY <1>3, <2>1 DEF Rule!ruleVars
<1> QED
  BY <1>4, <1>5, <1>6

LEMMA StepRule ==
  TypeOK /\ StatusIsBacked /\ [Next]_vars => [Rule!Next]_(Rule!ruleVars)
<1> SUFFICES ASSUME TypeOK, StatusIsBacked, [Next]_vars
             PROVE  [Rule!Next]_(Rule!ruleVars)
  OBVIOUS
<1> DEFINE Seen == <<Live, Owed, synced = version, Verdict>>
<1>0. Seen' = Seen => [Rule!Next]_(Rule!ruleVars)
  BY DEF Rule!ruleVars
<1>d. ASSUME NEW S \in SUBSET ItemId, Rule!Demand(S) PROVE [Rule!Next]_(Rule!ruleVars)
  BY <1>d DEF Rule!Next
\* What is held, owed and aligned depends on these variables only.
<1>f. UNCHANGED <<version, synced, item, evidence>> =>
        Live' = Live /\ Owed' = Owed /\ (synced = version)' = (synced = version)
  BY DEF Live, Owed, Settled, Objective, Fresh
<1>1. ASSUME NEW actor \in Actor, LayItems(actor) PROVE [Rule!Next]_(Rule!ruleVars)
  <2> DEFINE S == {i \in Unused : item'[i].status = "Open"}
  <2>1. S # {} /\ S \in SUBSET ItemId
    BY <1>1, LaidItems DEF Unused
  <2>2. ASSUME NEW i \in ItemId \ S PROVE item'[i] = item[i]
    BY <1>1, LaidItems
  <2>3. version' \in Nat /\ version' > version /\ UNCHANGED <<synced, gate, evidence>>
    BY <1>1, LaidItems
  <2>4. \A i \in S : item'[i].status = "Open"
    OBVIOUS
  <2>5. \A i \in ItemId \ S : item'[i] = item[i] /\ evidence'[i] = evidence[i]
    BY <2>2, <2>3
  <2> HIDE DEF S
  <2>6. Rule!Demand(S)
    BY <2>1, <2>3, <2>4, <2>5, DemandStep
  <2> QED
    BY <1>d, <2>1, <2>6
<1>2. ASSUME NEW actor \in Actor, NEW i \in ItemId, NEW c \in Class, EditItem(actor, i, c)
      PROVE  [Rule!Next]_(Rule!ruleVars)
  <2>1. /\ item' = [item EXCEPT ![i] = Reopened(i, c)]
        /\ version' = version + 1
        /\ UNCHANGED <<synced, evidence, gate>>
    BY <1>2 DEF EditItem
  <2>2. item'[i].status = "Open"
    BY <2>1 DEF Reopened, TypeOK, Item
  <2>3. \A k \in ItemId \ {i} : item'[k] = item[k] /\ evidence'[k] = evidence[k]
    BY <2>1 DEF TypeOK
  <2>4. version' \in Nat /\ version' > version
    BY <2>1, Numbers
  <2>5. Rule!Demand({i})
    BY <2>1, <2>2, <2>3, <2>4, DemandStep
  <2> QED
    BY <1>d, <2>5
<1>3. ASSUME NEW i \in ItemId, DeleteItem(i) PROVE [Rule!Next]_(Rule!ruleVars)
  <2>1. /\ i \in Live /\ i \notin Live'
        /\ version' = version + 1 /\ UNCHANGED <<synced, gate>>
    BY <1>3 DEF DeleteItem, Live, NoItem, ItemStatus, TypeOK
  <2>2. \A k \in ItemId \ {i} : (k \in Live' <=> k \in Live) /\ (k \in Owed' <=> k \in Owed)
    BY <1>3, SameItem DEF DeleteItem, TypeOK
  <2>3. Live \subseteq ItemId /\ Live' \subseteq ItemId /\ Owed \subseteq Live /\ Owed' \subseteq Live'
    BY DEF Live, Owed
  <2>4. Live' = Live \ {i} /\ Owed' = Owed \ {i}
    BY <2>1, <2>2, <2>3
  <2>5. (synced = version)' = FALSE
    BY <2>1, Numbers DEF TypeOK
  <2>6. Verdict' = Verdict
    BY <2>1 DEF Verdict
  <2>7. Rule!Withdraw(i)
    BY <2>1, <2>4, <2>5, <2>6 DEF Rule!Withdraw
  <2> QED
    BY <2>7 DEF Rule!Next
<1>4. ASSUME NEW i \in ItemId,
             \/ SetInterpretation(i)
             \/ AddEvidence(i)
             \/ \E passed \in BOOLEAN : ReportOracle(i, passed)
      PROVE  [Rule!Next]_(Rule!ruleVars)
  <2>1. i \in Live /\ Live' = Live /\ UNCHANGED <<version, synced, gate>>
    BY <1>4, StandsKept DEF SetInterpretation, AddEvidence, ReportOracle
  <2>2. \A k \in ItemId \ {i} : item'[k] = item[k] /\ evidence'[k] = evidence[k]
    BY <1>4 DEF SetInterpretation, AddEvidence, ReportOracle, TypeOK
  <2> QED
    BY <2>1, <2>2, ReportStep
<1>5. ASSUME NEW to \in 0 .. MaxVersion, Reconcile(to) PROVE [Rule!Next]_(Rule!ruleVars)
  <2>1. UNCHANGED <<version, item, evidence, gate>> /\ synced' = to /\ to <= version /\ to >= synced
    BY <1>5 DEF Reconcile, MayReconcile
  <2>2. Live' = Live /\ Owed' = Owed /\ Verdict' = Verdict
    BY <2>1 DEF Live, Owed, Settled, Objective, Fresh, Verdict
  <2>3. CASE to = version
    <3>1. Rule!Align
      BY <2>1, <2>2, <2>3 DEF Rule!Align
    <3> QED
      BY <3>1 DEF Rule!Next
  <2>4. CASE to # version
    <3>1. (synced = version)' = (synced = version)
      BY <2>1, <2>4, Numbers
    <3> QED
      BY <1>0, <2>2, <3>1
  <2> QED
    BY <2>3, <2>4
<1>6. ASSUME NEW surviving \in SUBSET Pane, Restart(surviving) PROVE [Rule!Next]_(Rule!ruleVars)
  <2>1. UNCHANGED <<version, synced, item, evidence>> /\ gate' = [s \in Session |-> Idle]
    BY <1>6 DEF Restart
  <2>2. Verdict' = [s \in Session |-> "none"]
    BY <2>1 DEF Verdict, Idle
  <2>3. Rule!Conclude(Session)
    BY <1>f, <2>1, <2>2 DEF Rule!Conclude
  <2> QED
    BY <2>3 DEF Rule!Next
<1>7. ASSUME NEW s \in Session, GateRead(s) PROVE [Rule!Next]_(Rule!ruleVars)
  <2>1. /\ UNCHANGED <<version, synced, item, evidence>>
        /\ gate[s].step = "idle"
        /\ gate' = [gate EXCEPT ![s] = [step |-> "bind", release |-> Releasable,
                                        at |-> IF Releasable THEN version ELSE 0]]
    BY <1>7 DEF GateRead, goalVars
  <2>2. Releasable <=> Live # {} /\ Owed = {} /\ synced = version
    BY DEF Releasable, Owed
  <2>3. \A r \in Session : gate'[r] = IF r = s THEN [step |-> "bind", release |-> Releasable,
                                                     at |-> IF Releasable THEN version ELSE 0]
                                               ELSE gate[r]
    BY <2>1 DEF TypeOK
  <2>4. Verdict' = [Verdict EXCEPT ![s] = IF Releasable THEN "release" ELSE "block"]
    <3>1. /\ gate'[s].step = "bind" /\ gate'[s].release = Releasable
          /\ \A r \in Session \ {s} : gate'[r] = gate[r]
      BY <2>3
    <3>2. CASE Releasable
      BY <3>1, <3>2 DEF Verdict
    <3>3. CASE ~Releasable
      <4>1. gate'[s].release = FALSE
        BY <3>1, <3>3 DEF Releasable
      <4> QED
        BY <3>1, <3>3, <4>1 DEF Verdict
    <3> QED
      BY <3>2, <3>3
  <2>5. Verdict[s] = "none"
    BY <2>1 DEF Verdict
  <2>6. Rule!Consult(s)
    BY <1>f, <2>1, <2>2, <2>4, <2>5 DEF Rule!Consult
  <2> QED
    BY <2>6 DEF Rule!Next
<1>8. ASSUME NEW s \in Session, GateBind(s) PROVE [Rule!Next]_(Rule!ruleVars)
  <2>1. /\ UNCHANGED <<version, synced, item, evidence>>
        /\ gate[s].step = "bind" /\ gate' = [gate EXCEPT ![s].step = "record"]
    BY <1>8 DEF GateBind
  <2>2. \A r \in Session : /\ gate'[r].release = gate[r].release
                           /\ gate'[r].step = "idle" <=> gate[r].step = "idle"
    BY <2>1 DEF TypeOK
  <2>3. Verdict' = Verdict
    BY <2>2 DEF Verdict
  <2> QED
    BY <1>0, <1>f, <2>1, <2>3
<1>9. ASSUME NEW s \in Session, GateRecord(s) PROVE [Rule!Next]_(Rule!ruleVars)
  <2>1. UNCHANGED <<version, synced, item, evidence>> /\ gate' = [gate EXCEPT ![s] = Idle]
    BY <1>9 DEF GateRecord
  <2>2. \A r \in Session : gate'[r] = IF r = s THEN Idle ELSE gate[r]
    BY <2>1 DEF TypeOK
  <2>3. Verdict' = [r \in Session |-> IF r \in {s} THEN "none" ELSE Verdict[r]]
    BY <2>2 DEF Verdict, Idle
  <2>4. Rule!Conclude({s})
    BY <1>f, <2>1, <2>3 DEF Rule!Conclude
  <2> QED
    BY <2>4 DEF Rule!Next
<1>10. CASE DeleteGoal
  <2>1. UNCHANGED <<version, synced, gate>> /\ Live' = {}
    BY <1>10 DEF DeleteGoal, Live, NoItem, ItemStatus
  <2>2. Owed' = {} /\ Verdict' = Verdict
    BY <2>1 DEF Owed, Verdict
  <2>3. Rule!Abandon
    BY <2>1, <2>2 DEF Rule!Abandon
  <2> QED
    BY <2>3 DEF Rule!Next
<1>11. ASSUME \/ CloseGoal \/ EndTurn \/ UNCHANGED vars
              \/ \E r \in Session, pane \in Pane \cup {"NoPane"} : BindSession(r, pane)
       PROVE  [Rule!Next]_(Rule!ruleVars)
  <2>1. UNCHANGED <<version, synced, item, evidence, gate>>
    BY <1>11 DEF CloseGoal, EndTurn, BindSession, vars, goalVars
  <2>2. Verdict' = Verdict
    BY <2>1 DEF Verdict
  <2> QED
    BY <1>0, <1>f, <2>1, <2>2
<1> QED
  BY <1>1, <1>2, <1>3, <1>4, <1>5, <1>6, <1>7, <1>8, <1>9, <1>10, <1>11
  DEF Next, HumanNext, AgentNext, HookNext, Actor

\* The contract, its evidence and the three-step gate handler implement the
\* release rule: whatever runs while a gate call is in flight, what the agent is
\* told is what the rule says of the moment the handler cloned the goal.
THEOREM Implements == Spec => ImplementsRule
<1>1. Init => Rule!Init
  BY InitRule
<1>2. TypeOK /\ StatusIsBacked /\ [Next]_vars => [Rule!Next]_(Rule!ruleVars)
  BY StepRule
<1>3. Spec => [](TypeOK /\ StatusIsBacked)
  BY TypeCorrect, StatusBacked, PTL
<1> QED
  BY <1>1, <1>2, <1>3, PTL DEF Spec, ImplementsRule, Rule!Spec
=============================================================================
