------------------------------ MODULE Contract ------------------------------
(***************************************************************************)
(* One goal of the Witnos store: the living contract (its items and the    *)
(* evidence laid against them), the three version counters, the goal's     *)
(* status, the sessions bound to it, and the Stop gate that decides when   *)
(* an agent is released.                                                   *)
(*                                                                         *)
(* Every store operation runs on a draft that replaces the goal only when  *)
(* it succeeded (Store::mutate, under one write lock), so each is one      *)
(* action and a refused call is no step at all.  The gate handler is NOT   *)
(* one operation: it takes a clone of the goal, then binds the session,    *)
(* then records the decision it made on the clone, each under a lock of    *)
(* its own.  Anything may run in between.                                  *)
(*                                                                         *)
(* A definition whose comment begins with "Slip" is not part of the model: *)
(* it is the definition that follows it with a plausible mistake, kept to  *)
(* show which property the mistake would break (see README.md).            *)
(***************************************************************************)
EXTENDS Naturals, Functions

CONSTANTS
    ItemId,         \* the uuids items can get; an id is never used twice
    Legacy,         \* the items of a goal file written before 2026-08-02 that are waived
    LoadedVersion,  \* contract version of that file
    Session,        \* agent sessions
    Pane,           \* panes of Witnos's own terminals
    Class,          \* the item classes callers send
    MaxVersion      \* bound on the contract version

ASSUME ContractAssumption ==
    /\ Legacy \subseteq ItemId
    /\ LoadedVersion \in Nat \ {0}
    /\ MaxVersion \in Nat
    /\ Pane \cap {"Unbound", "NoPane"} = {}
    /\ {"Subjective"} \subseteq Class
    /\ Class \subseteq {"Subjective", "ObjectiveByAgent", "ObjectiveByHuman"}

Actor      == {"Human", "Agent"}
ItemStatus == {"Open", "Laid", "Passed", "Waived"}
GoalStatus == {"Running", "AwaitingRulings", "TurnEndedUnmet", "Closed"}

\* An item as the store keeps it.  "Unused" and "Deleted" ids are not in the contract.
Item == [status      : ItemStatus \cup {"Unused", "Deleted"},
         class       : Class,
         byUser      : BOOLEAN,    \* origin.is_user_authored()
         interpreted : BOOLEAN,    \* interpretation.is_some()
         lastEdited  : Nat]

NoItem == [status |-> "Unused", class |-> "Subjective", byUser |-> FALSE,
           interpreted |-> FALSE, lastEdited |-> 0]

\* What a caller sends for a new item.
NewItem == [class : Class, byUser : BOOLEAN, interpreted : BOOLEAN]

VARIABLES
    status,      \* goal.status, or "Deleted" once the goal is gone
    version,     \* goal.contract_version
    synced,      \* goal.agent_synced_version
    humanEdit,   \* goal.last_human_edit_version
    item,        \* goal.items
    evidence,    \* goal.evidence: against_version of each item's latest, 0 for none
    sessions,    \* goal.sessions: the pane recorded for each session
    gate         \* the gate call each session's Stop hook has in flight

goalVars == <<status, version, synced, humanEdit, item, evidence, sessions>>
vars     == <<goalVars, gate>>

Idle == [step |-> "idle", release |-> FALSE, at |-> 0]

-----------------------------------------------------------------------------
(* Reading the contract *)

Exists == status # "Deleted"
Live   == {i \in ItemId : item[i].status \in ItemStatus}
Unused == {i \in ItemId : item[i].status = "Unused"}

Objective(i) == item[i].class # "Subjective"
\* Evidence is appended as the version grows, so some of it is recent enough
\* exactly when the latest is.  No item is laid at version 0.
Fresh(i)     == evidence[i] # 0 /\ evidence[i] >= item[i].lastEdited

\* The gate has nothing to say about item i.
Settled(i) ==
    \/ item[i].status = "Waived"
    \/ Objective(i) /\ item[i].status = "Passed" /\ Fresh(i)
    \/ ~Objective(i) /\ item[i].status = "Laid" /\ item[i].interpreted /\ Fresh(i)

\* Slip: an empty contract has nothing unmet.
ReleasableEmpty == (\A i \in Live : Settled(i)) /\ synced = version

\* The release condition.
Releasable ==
    /\ Live # {}
    /\ \A i \in Live : Settled(i)
    /\ synced = version

\* Who may give an item which class, and who may edit it at all.
ClassAllowed(actor, class) == actor = "Agent" => class # "ObjectiveByHuman"

AnyoneMayEdit(actor, i) == TRUE   \* slip: authorship is not looked at
MayEdit(actor, i)       == actor = "Agent" => ~item[i].byUser

-----------------------------------------------------------------------------
(* Changing the contract *)

\* A batch gets consecutive versions, one per item; one bad item refuses it all.
LayBatch(actor, n, batch, new) ==
    /\ Exists
    /\ \A k \in 1 .. n : /\ ClassAllowed(actor, new[k].class)
                         /\ actor = "Agent" => ~new[k].byUser
    /\ version' = version + n
    /\ humanEdit' = IF actor = "Human" THEN version + n ELSE humanEdit
    /\ item' = [i \in ItemId |->
                  IF \E k \in 1 .. n : batch[k] = i
                  THEN LET k == CHOOSE k \in 1 .. n : batch[k] = i
                       IN  [status      |-> "Open",
                            class       |-> new[k].class,
                            byUser      |-> new[k].byUser,
                            interpreted |-> new[k].interpreted,
                            lastEdited  |-> version + k]
                  ELSE item[i]]
    /\ UNCHANGED <<status, synced, evidence, sessions, gate>>

LayItems(actor) ==
    \E n \in 1 .. MaxVersion - version :
      \E batch \in Injection(1 .. n, Unused), new \in [1 .. n -> NewItem] :
        LayBatch(actor, n, batch, new)

\* Slips: a re-save that keeps the class keeps the status; the item gets the
\* version it had before the bump.
ReopenedIfReclassed(i, class) ==
    [item[i] EXCEPT !.class = class, !.lastEdited = version + 1,
                    !.status = IF class = item[i].class THEN @ ELSE "Open"]
ReopenedBeforeBump(i, class) ==
    [item[i] EXCEPT !.class = class, !.lastEdited = version, !.status = "Open"]

\* Any edit, a re-save with the same words included, reopens the item.
Reopened(i, class) ==
    [item[i] EXCEPT !.class = class, !.lastEdited = version + 1, !.status = "Open"]

EditItem(actor, i, class) ==
    /\ Exists /\ i \in Live /\ version < MaxVersion
    /\ MayEdit(actor, i)
    /\ class # item[i].class => ClassAllowed(actor, class)
    /\ version' = version + 1
    /\ humanEdit' = IF actor = "Human" THEN version + 1 ELSE humanEdit
    /\ item' = [item EXCEPT ![i] = Reopened(i, class)]
    /\ UNCHANGED <<status, synced, evidence, sessions, gate>>

\* Slip: only adds and edits bump the version.
DeleteItemQuietly(i) ==
    /\ Exists /\ i \in Live
    /\ item' = [item EXCEPT ![i] = [NoItem EXCEPT !.status = "Deleted"]]
    /\ evidence' = [evidence EXCEPT ![i] = 0]
    /\ UNCHANGED <<status, version, synced, humanEdit, sessions, gate>>

\* The human's opt-out: the item leaves the contract and takes its evidence along.
DeleteItem(i) ==
    /\ Exists /\ i \in Live /\ version < MaxVersion
    /\ version' = version + 1
    /\ humanEdit' = version + 1
    /\ item' = [item EXCEPT ![i] = [NoItem EXCEPT !.status = "Deleted"]]
    /\ evidence' = [evidence EXCEPT ![i] = 0]
    /\ UNCHANGED <<status, synced, sessions, gate>>

-----------------------------------------------------------------------------
(* The agent's reports *)

SetInterpretation(i) ==
    /\ Exists /\ i \in Live
    /\ item' = [item EXCEPT ![i].interpreted = TRUE]
    /\ UNCHANGED <<status, version, synced, humanEdit, evidence, sessions, gate>>

\* Slip: only the first evidence lays an item.
StatusWithFirstEvidence(i) ==
    IF ~Objective(i) /\ item[i].status = "Open" /\ item[i].interpreted /\ evidence[i] = 0
    THEN "Laid" ELSE item[i].status

\* Evidence lays an open subjective item that has an interpretation.
StatusWithEvidence(i) ==
    IF ~Objective(i) /\ item[i].status = "Open" /\ item[i].interpreted
    THEN "Laid" ELSE item[i].status

\* Evidence is stamped with the version of the moment it is posted.
AddEvidence(i) ==
    /\ Exists /\ i \in Live
    /\ evidence' = [evidence EXCEPT ![i] = version]
    /\ item' = [item EXCEPT ![i].status = StatusWithEvidence(i)]
    /\ UNCHANGED <<status, version, synced, humanEdit, sessions, gate>>

ReportOracle(i, passed) ==
    /\ Exists /\ i \in Live /\ Objective(i)
    /\ item' = [item EXCEPT ![i].status = IF passed THEN "Passed" ELSE "Open"]
    /\ UNCHANGED <<status, version, synced, humanEdit, evidence, sessions, gate>>

MayReconcileAhead(to)     == to >= synced    \* slip: no check against the latest version
MayReconcileBackwards(to) == to <= version   \* slip: an earlier version is no error
MayReconcile(to) == to <= version /\ to >= synced

Reconcile(to) ==
    /\ Exists /\ MayReconcile(to)
    /\ synced' = to
    /\ UNCHANGED <<status, version, humanEdit, item, evidence, sessions, gate>>

-----------------------------------------------------------------------------
(* Sessions and the end of a turn *)

\* Binding again without a pane keeps the pane already recorded.
Bound(s, pane) ==
    [sessions EXCEPT ![s] = IF pane = "NoPane" /\ @ # "Unbound" THEN @ ELSE pane]

\* The UserPromptSubmit hook binds its session, with its pane when it has one.
BindSession(s, pane) ==
    /\ Exists
    /\ sessions' = Bound(s, pane)
    /\ UNCHANGED <<status, version, synced, humanEdit, item, evidence, gate>>

\* Slip: whatever the goal's status, the session is over.
EndAnyTurn ==
    /\ Exists
    /\ status' = "TurnEndedUnmet"
    /\ UNCHANGED <<version, synced, humanEdit, item, evidence, sessions, gate>>

\* SessionEnd hook: only a running goal has a turn to account for.
EndTurn ==
    /\ status = "Running"
    /\ status' = "TurnEndedUnmet"
    /\ UNCHANGED <<version, synced, humanEdit, item, evidence, sessions, gate>>

\* The core restarts: gate calls in flight fail, the goal is read back from
\* its file, and the start-up census ends the turn of a goal that ran in
\* Witnos's own panes when none of them survived.  A census that could not be
\* taken is skipped: no turn ends, as when every pane survived.
Restart(surviving) ==
    /\ gate' = [s \in Session |-> Idle]
    /\ status' = IF /\ status = "Running"
                    /\ \E s \in Session : sessions[s] \in Pane
                    /\ \A s \in Session : sessions[s] \notin surviving
                 THEN "TurnEndedUnmet" ELSE status
    /\ UNCHANGED <<version, synced, humanEdit, item, evidence, sessions>>

-----------------------------------------------------------------------------
(* The human takes the goal away *)

CloseGoal ==
    /\ Exists
    /\ status' = "Closed"
    /\ UNCHANGED <<version, synced, humanEdit, item, evidence, sessions, gate>>

\* The goal's file goes, and everything in it.
DeleteGoal ==
    /\ Exists
    /\ status' = "Deleted"
    /\ item' = [i \in ItemId |-> [NoItem EXCEPT !.status = "Deleted"]]
    /\ evidence' = [i \in ItemId |-> 0]
    /\ UNCHANGED <<version, synced, humanEdit, sessions, gate>>

-----------------------------------------------------------------------------
(* The Stop gate *)

\* The handler clones the goal.  From here on it only knows that clone: what it
\* will decide is already fixed, and `at` is the version it decides about.
GateRead(s) ==
    /\ Exists /\ gate[s].step = "idle"
    /\ gate' = [gate EXCEPT ![s] = [step |-> "bind", release |-> Releasable,
                                    at |-> IF Releasable THEN version ELSE 0]]
    /\ UNCHANGED goalVars

\* It binds the session, without a pane; a goal deleted meanwhile is no error here.
GateBind(s) ==
    /\ gate[s].step = "bind"
    /\ gate' = [gate EXCEPT ![s].step = "record"]
    /\ sessions' = IF Exists THEN Bound(s, "NoPane") ELSE sessions
    /\ UNCHANGED <<status, version, synced, humanEdit, item, evidence>>

\* It records the decision on the goal as it is now, and answers.
GateRecord(s) ==
    /\ gate[s].step = "record"
    /\ gate' = [gate EXCEPT ![s] = Idle]
    /\ status' = CASE ~Exists -> status
                   [] Exists /\ gate[s].release -> "AwaitingRulings"
                   [] Exists /\ ~gate[s].release ->
                        IF status = "TurnEndedUnmet" THEN "Running" ELSE status
    /\ UNCHANGED <<version, synced, humanEdit, item, evidence, sessions>>

-----------------------------------------------------------------------------
(* The system *)

\* create_goal and create_auto_goal: an empty contract at version 0; an auto
\* goal is born bound to its session.
NewGoal ==
    /\ version = 0 /\ synced = 0 /\ humanEdit = 0
    /\ item = [i \in ItemId |-> NoItem]
    /\ sessions \in {f \in [Session -> Pane \cup {"Unbound", "NoPane"}] :
                       \A s, t \in Session : f[s] # "Unbound" /\ f[t] # "Unbound" => s = t}

WaivedItem == [status : {"Waived"}, class : Class, byUser : BOOLEAN,
               interpreted : BOOLEAN, lastEdited : 1 .. LoadedVersion]

\* A goal file from before 2026-08-02, whose items the human had all waived.
LoadedGoal ==
    /\ Legacy # {}
    /\ version = LoadedVersion /\ synced = LoadedVersion /\ humanEdit = LoadedVersion
    /\ item \in [ItemId -> WaivedItem \cup {NoItem}]
    /\ \A i \in ItemId : item[i] # NoItem <=> i \in Legacy
    /\ sessions = [s \in Session |-> "NoPane"]

Init ==
    /\ NewGoal \/ LoadedGoal
    /\ status = "Running"
    /\ evidence = [i \in ItemId |-> 0]
    /\ gate = [s \in Session |-> Idle]

HumanNext ==
    \/ LayItems("Human")
    \/ \E i \in ItemId, c \in Class : EditItem("Human", i, c)
    \/ \E i \in ItemId : DeleteItem(i)
    \/ CloseGoal
    \/ DeleteGoal

AgentNext ==
    \/ LayItems("Agent")
    \/ \E i \in ItemId, c \in Class : EditItem("Agent", i, c)
    \/ \E i \in ItemId : SetInterpretation(i) \/ AddEvidence(i)
    \/ \E i \in ItemId, passed \in BOOLEAN : ReportOracle(i, passed)
    \/ \E to \in 0 .. MaxVersion : Reconcile(to)

HookNext ==
    \/ \E s \in Session : GateRead(s) \/ GateBind(s) \/ GateRecord(s)
    \/ \E s \in Session, pane \in Pane \cup {"NoPane"} : BindSession(s, pane)
    \/ EndTurn

Next ==
    \/ HumanNext
    \/ AgentNext
    \/ HookNext
    \/ \E surviving \in SUBSET Pane : Restart(surviving)

Spec == Init /\ [][Next]_vars

\* What keeps a turn going.  While its goal is running the agent tries to stop
\* over and over, each time through the Stop hook; told to go on it does what
\* the block reasons name, item by item; and the core's handlers run to their
\* end.  Nothing is assumed of an agent whose turn ended or was released, of the
\* human, or of the agent's oracles, which may fail.
InTurn(action) == status = "Running" /\ action

Fairness ==
    /\ \A s \in Session : /\ WF_vars(InTurn(GateRead(s)))
                          /\ WF_vars(GateBind(s))
                          /\ WF_vars(GateRecord(s))
    /\ \A i \in ItemId : /\ WF_vars(InTurn(SetInterpretation(i)))
                         /\ WF_vars(InTurn(AddEvidence(i)))
                         /\ WF_vars(InTurn(ReportOracle(i, TRUE)))
    /\ WF_vars(InTurn(Reconcile(version)))

FairSpec == Spec /\ Fairness

-----------------------------------------------------------------------------
(* Invariants *)

\* Every variable stays in its domain, and nothing is ahead of the contract:
\* no reconciliation, human edit, item, evidence or gate call names a version
\* that does not exist yet (the guards of Store::reconcile and the bump that
\* precedes every use of the version in lay_items, edit_item and delete_item).
TypeOK ==
    /\ status \in GoalStatus \cup {"Deleted"}
    /\ {version, synced, humanEdit} \subseteq Nat
    /\ item \in [ItemId -> Item]
    /\ evidence \in [ItemId -> Nat]
    /\ sessions \in [Session -> Pane \cup {"Unbound", "NoPane"}]
    /\ gate \in [Session -> [step : {"idle", "bind", "record"}, release : BOOLEAN, at : Nat]]
    /\ synced <= version /\ humanEdit <= version
    /\ \A i \in ItemId : item[i].lastEdited <= version /\ evidence[i] <= version
    /\ \A i \in Live : item[i].lastEdited > 0
    /\ \A s \in Session : gate[s].at <= version

\* A status is never better than what backs it.  Only an objective item is ever
\* Passed: no order of calls gets a subjective one passed.  A Laid item has an
\* interpretation and evidence no older than its latest edit, so the "laid, but
\* its evidence predates the latest edit" branch of the gate only fires on goals
\* this code did not write.  An id outside the contract keeps no evidence.
StatusIsBacked ==
    \A i \in ItemId :
      /\ item[i].status = "Passed" => Objective(i)
      /\ item[i].status = "Laid" => ~Objective(i) /\ item[i].interpreted /\ Fresh(i)
      /\ i \notin Live => evidence[i] = 0
      /\ item[i].status = "Waived" => i \in Legacy

\* The window between the gate's clone and its answer.  A release the gate is
\* about to give is still deserved unless the version has moved since the clone,
\* or an oracle report came in: for an item that now fails it, or for one that
\* was waived and is back.  Whatever else the sessions, hooks and the human did
\* in the window cannot have made the release wrong.
VerdictStands ==
    \A s \in Session :
      (Exists /\ gate[s].release /\ gate[s].at = version) =>
        /\ Live # {}
        /\ synced = version
        /\ \A i \in Live : \/ Settled(i)
                           \/ /\ Objective(i)
                              /\ (item[i].status = "Open" /\ Fresh(i)) \/ i \in Legacy

-----------------------------------------------------------------------------
(* Properties of steps *)

\* Moving the yardstick of an item makes all its evidence stale and leaves the
\* agent behind, in the same step (edit_item's bump, add_evidence's stamp and the
\* gate's comparison agree on what "since the latest edit" means).
EditMakesStale ==
    [][\A i \in ItemId : (i \in Live' /\ item'[i].lastEdited # item[i].lastEdited) =>
          ~Fresh(i)' /\ synced' < version' /\ item'[i].status = "Open"]_vars

\* The human's items are the human's: no step of the agent takes one out of the
\* contract, moves its yardstick, reclassifies it, or passes for a human edit.
HumanItemsStand ==
    [][AgentNext =>
         /\ humanEdit' = humanEdit
         /\ Live \subseteq Live'
         /\ \A i \in Live : item[i].byUser =>
              /\ item'[i].byUser
              /\ item'[i].class = item[i].class
              /\ item'[i].lastEdited = item[i].lastEdited]_vars

\* A pane once learned for a session is never forgotten, though the gate binds
\* the same session without one (the start-up census depends on it).
PaneRemembered ==
    [][\A s \in Session : sessions[s] \in Pane => sessions'[s] \in Pane]_vars

\* The life of a goal.  An ended turn comes back only through the gate; a
\* released goal never runs again; nothing ends the turn of a goal that is not
\* running; a deleted goal stays deleted.
StatusPath ==
    [][status' # status =>
         <<status, status'>> \in
           {<<"Running", "AwaitingRulings">>, <<"Running", "TurnEndedUnmet">>,
            <<"TurnEndedUnmet", "Running">>, <<"TurnEndedUnmet", "AwaitingRulings">>,
            <<"Closed", "AwaitingRulings">>}
           \cup (GoalStatus \X {"Closed", "Deleted"})]_vars

\* The gate holds no agent for ever.  As long as the contract is not empty and
\* the turn goes on, the agent can do alone everything the gate asks for, and is
\* released; what can keep a goal running is an oracle that keeps failing or a
\* core that keeps being restarted under the gate.
Setback == \/ \E i \in ItemId : ReportOracle(i, FALSE)
           \/ \E surviving \in SUBSET Pane : Restart(surviving)

NeverStuck ==
    <>[](status = "Running" /\ Live # {}) => []<><<Setback>>_vars

\* What ReleaseRule sees of the contract: the items the gate would name, and
\* what each gate call in flight has decided.
Owed    == {i \in Live : ~Settled(i)}
Verdict == [s \in Session |-> IF gate[s].step = "idle" THEN "none"
                              ELSE IF gate[s].release THEN "release" ELSE "block"]

Rule == INSTANCE ReleaseRule WITH
    Item <- ItemId, held <- Live, owed <- Owed, aligned <- (synced = version),
    verdict <- Verdict

\* The contract implements the rule of ReleaseRule: the gate's clone is the
\* moment its answer is about, whatever happens before the answer is given.
ImplementsRule == Rule!Spec

-----------------------------------------------------------------------------
(* A claim of the repository that the code does not keep *)

\* types.rs:34: "No agent reads this anymore; to change the outcome, re-issue the
\* goal."  A closed goal stays closed until it is deleted.  Recording a release looks
\* at no status, be the gate call one in flight at the close or one begun after it.
ClosedStays ==
    [][status = "Closed" => status' \in {"Closed", "Deleted"}]_vars
=============================================================================
