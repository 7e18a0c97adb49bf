------------------------------ MODULE Delivery ------------------------------
(***************************************************************************)
(* How a change of the contract reaches an agent that is still working.    *)
(* After every tool call the harness runs a PostToolUse hook: it compares  *)
(* the version mirrored in the marker with the newest one its session has  *)
(* seen (delivered.json, or the last reconciliation), asks the core for    *)
(* what came after, prints it, and notes the version it printed.           *)
(*                                                                         *)
(* The module follows one session and its goal.  Beside it run the human,  *)
(* whose edits bump the version and end in a resync of the marker, the     *)
(* hooks of parallel tool calls, which share delivered.json without a      *)
(* lock, and the hooks of the project's other sessions, of which only what *)
(* they do to that file counts.  The agent is an honest one: it reconciles *)
(* to versions it was shown, never to one it merely heard named.           *)
(***************************************************************************)
EXTENDS Naturals, Functions

CONSTANTS
    ItemId,       \* the uuids items can get; an id is used once in a goal
    Hook,         \* this session's PostToolUse hooks that may run at once
    Other,        \* those of other sessions of the project
    Http,         \* requests the core serves at once
    MaxVersion,   \* bound on the contract version
    MaxEvents     \* bound on hooks that are killed or find no core, and on goals deleted

ASSUME DeliveryAssumption ==
    /\ MaxVersion \in Nat /\ MaxEvents \in Nat
    /\ "main" \notin Http

Handler == Http \cup {"main"}    \* "main": the app's thread, where the human's commands run
Version == 0 .. MaxVersion

VARIABLES
    goal,      \* the session's goal, the first, the second ...
    exists,    \* it has not been deleted
    version,   \* goal.contract_version
    synced,    \* goal.agent_synced_version
    item,      \* goal.items, and the deletions in goal.events
    handler,   \* the resync each handler owes
    entry,     \* the marker's entry for the session
    book,      \* the session's version in delivered.json, 0 for none
    hook,      \* the session's hooks
    other,     \* the other sessions' hooks: what their copy of the book says of this one
    known,     \* the wording of each item the agent has seen: its last_edited_version
    told,      \* the items the agent was told are removed
    shown,     \* the newest version a delta showed the agent
    alone,     \* history: the last resync to begin found no other
    left       \* events left of MaxEvents

goalVars  == <<goal, exists, version, synced, item>>
agentVars == <<known, told, shown>>
hookVars  == <<book, hook, other>>
vars == <<goalVars, handler, entry, alone, hookVars, agentVars, left>>

\* A marker entry; goal 0 for a marker that has none for the session.
Entry   == [goal : Nat, version : Version, synced : Version]

Idle    == [step |-> "idle", goal |-> 0, version |-> 0, since |-> 0]
NoEntry == [goal |-> 0, version |-> 0, synced |-> 0]
Served  == [step |-> "idle", new |-> NoEntry]
NoItem  == [is |-> "unused", at |-> 0, gone |-> 0]

Kept(i)    == item[i].is = "kept"
Deleted(i) == item[i].is = "deleted"

Larger(m, n) == IF m >= n THEN m ELSE n

-----------------------------------------------------------------------------
(* Resyncs: the version and the baseline are mirrored to the marker. *)

Begin(h) ==
    /\ handler[h] = Served
    /\ handler' = [handler EXCEPT ![h].step = "read"]
    /\ alone' = \A k \in Handler : handler[k] = Served
    /\ UNCHANGED <<entry, hookVars>>

\* Something changed another goal of the directory.
Touch(h) == Begin(h) /\ UNCHANGED <<goalVars, agentVars, left>>

ReadGoals(h) ==
    /\ handler[h].step = "read"
    /\ handler' = [handler EXCEPT
                     ![h] = [step |-> "publish",
                             new  |-> IF exists
                                      THEN [goal |-> goal, version |-> version,
                                            synced |-> synced]
                                      ELSE NoEntry]]
    /\ UNCHANGED <<goalVars, entry, alone, hookVars, agentVars, left>>

Publish(h) ==
    /\ handler[h].step = "publish"
    /\ entry' = handler[h].new
    /\ handler' = [handler EXCEPT ![h] = Served]
    /\ UNCHANGED <<goalVars, alone, hookVars, agentVars, left>>

-----------------------------------------------------------------------------
(* The human *)

Bump(n) ==
    /\ exists /\ version + n <= MaxVersion
    /\ version' = version + n
    /\ UNCHANGED <<goal, exists, synced, left>>

\* Slip: stamped with the version the next change will have.
AddItemAhead(i) ==
    /\ Bump(1)
    /\ item[i] = NoItem
    /\ item' = [item EXCEPT ![i] = [is |-> "kept", at |-> version + 2, gone |-> 0]]
    /\ Begin("main") /\ UNCHANGED agentVars

AddItem(i) ==
    /\ Bump(1)
    /\ item[i] = NoItem
    /\ item' = [item EXCEPT ![i] = [is |-> "kept", at |-> version + 1, gone |-> 0]]
    /\ Begin("main") /\ UNCHANGED agentVars

\* Slip: an edit the marker does not mirror.
EditItemUnmirrored(i) ==
    /\ Bump(1)
    /\ Kept(i) /\ handler["main"] = Served
    /\ item' = [item EXCEPT ![i].at = version + 1]
    /\ UNCHANGED <<handler, alone, entry, hookVars, agentVars>>

EditItem(i) ==
    /\ Bump(1)
    /\ Kept(i)
    /\ item' = [item EXCEPT ![i].at = version + 1]
    /\ Begin("main") /\ UNCHANGED agentVars

DeleteItem(i) ==
    /\ Bump(1)
    /\ Kept(i)
    /\ item' = [item EXCEPT ![i] = [is |-> "deleted", at |-> item[i].at,
                                      gone |-> version + 1]]
    /\ Begin("main") /\ UNCHANGED agentVars

DeleteGoal ==
    /\ exists /\ exists' = FALSE
    /\ left > 0 /\ left' = left - 1
    /\ Begin("main")
    /\ UNCHANGED <<goal, version, synced, item, agentVars>>

-----------------------------------------------------------------------------
(* The agent and its session *)

\* The next prompt of a session whose goal is gone gets it another.
AutoGoal(h) ==
    /\ ~exists /\ entry.goal = 0
    /\ goal' = goal + 1 /\ exists' = TRUE
    /\ version' = 0 /\ synced' = 0 /\ shown' = 0
    /\ item' = [i \in ItemId |-> NoItem]
    /\ known' = [i \in ItemId |-> 0] /\ told' = {}
    /\ Begin(h) /\ UNCHANGED left

\* A batch of n new items; each bumps the version, in the order the agent gave.
\* The agent knows the wording of what it lays itself.
LayItems(h, n, batch, place) ==
    /\ Bump(n)
    /\ \A i \in batch : item[i] = NoItem
    /\ item' = [i \in ItemId |->
                  IF i \in batch THEN [is |-> "kept", at |-> version + place[i], gone |-> 0]
                  ELSE item[i]]
    /\ known' = [i \in ItemId |-> IF i \in batch THEN version + place[i] ELSE known[i]]
    /\ Begin(h) /\ UNCHANGED <<told, shown>>

\* Slip: a delta of the rows that are there, which a removed item has left.
HearRows(since) ==
    /\ known' = [i \in ItemId |-> IF Kept(i) /\ item[i].at > since THEN item[i].at
                                  ELSE known[i]]
    /\ told' = told
    /\ shown' = version

\* The delta since a version: items added or edited after it, and removals.
Hear(since) ==
    /\ known' = [i \in ItemId |-> IF Kept(i) /\ item[i].at > since THEN item[i].at
                                  ELSE known[i]]
    /\ told' = told \cup {i \in ItemId : Deleted(i) /\ item[i].gone > since}
    /\ shown' = version

\* `witnos contract show`, since the baseline the gate's block reason or the
\* human's note named, which is synced at some moment until now.
ShowContract ==
    /\ exists
    /\ \E since \in 0 .. synced : Hear(since)
    /\ UNCHANGED <<goalVars, handler, entry, alone, hookVars, left>>

MayReconcile(to) == to <= version /\ to >= synced

Reconcile(h, to) ==
    /\ exists /\ MayReconcile(to)
    /\ to <= shown                      \* an honest agent
    /\ synced' = to
    /\ Begin(h)
    /\ UNCHANGED <<goal, exists, version, item, agentVars, left>>

-----------------------------------------------------------------------------
(* The PostToolUse hook *)

\* A marker that names no goal for the session has nothing to deliver.
ReadMarker(h) ==
    /\ hook[h] = Idle
    /\ entry.goal # 0
    /\ hook' = [hook EXCEPT ![h] = [step |-> "book", goal |-> entry.goal,
                                    version |-> entry.version, since |-> entry.synced]]
    /\ UNCHANGED <<goalVars, handler, entry, alone, book, other, left, agentVars>>

\* The baseline: what was noted, or what the agent reconciled to.  Nothing newer
\* on the marker: the hook is done, without a word to the core.
ReadBook(h) ==
    LET since == Larger(book, hook[h].since)
    IN  /\ hook[h].step = "book"
        /\ hook' = [hook EXCEPT
                      ![h] = IF since >= hook[h].version THEN Idle
                             ELSE [step |-> "ask", goal |-> hook[h].goal, version |-> 0,
                                   since |-> since]]
        /\ UNCHANGED <<goalVars, handler, entry, alone, book, other, left, agentVars>>

\* The core's answer, printed.
Deliver(h) ==
    /\ hook[h].step = "ask"
    /\ exists /\ goal = hook[h].goal
    /\ Hear(hook[h].since)
    /\ hook' = [hook EXCEPT ![h].step = "note", ![h].version = version, ![h].since = 0]
    /\ UNCHANGED <<goalVars, handler, entry, alone, book, other, left>>

\* What writing the book leaves for this session when other writers hold copies
\* that say `rivals` of it: delivered.json.tmp is shared, so a rename may publish
\* another's text, or a garbled one that reads as an empty book.
Landed(own, rivals) == IF rivals = {} THEN {own} ELSE {own, 0} \cup rivals

NoteIn(h) ==
    {hook[k].version : k \in {k \in Hook \ {h} : hook[k].step = "note"}}
        \cup {other[o].copy : o \in {o \in Other : other[o].busy}}

\* Slip: noted is the version the contract has by then.
NoteLatest(h) ==
    /\ hook[h].step = "note"
    /\ book' \in Landed(version, NoteIn(h))
    /\ hook' = [hook EXCEPT ![h] = Idle]
    /\ UNCHANGED <<goalVars, handler, entry, alone, other, left, agentVars>>

Note(h) ==
    /\ hook[h].step = "note"
    /\ book' \in Landed(hook[h].version, NoteIn(h))
    /\ hook' = [hook EXCEPT ![h] = Idle]
    /\ UNCHANGED <<goalVars, handler, entry, alone, other, left, agentVars>>

\* The goal is gone: the core answers 404 and the hook is silent.
NotFound(h) ==
    /\ hook[h].step = "ask"
    /\ ~exists \/ goal # hook[h].goal
    /\ hook' = [hook EXCEPT ![h] = Idle]
    /\ UNCHANGED <<goalVars, handler, entry, alone, book, other, left, agentVars>>

\* No core, no answer in time, or killed before the note is written.
Fail(h) ==
    /\ hook[h].step \in {"ask", "note"}
    /\ left > 0 /\ left' = left - 1
    /\ hook' = [hook EXCEPT ![h] = Idle]
    /\ UNCHANGED <<goalVars, handler, entry, alone, book, other, agentVars>>

\* A hook of another session copies the book, and later writes it with its own
\* session's version changed.
OtherReads(o) ==
    /\ ~other[o].busy
    /\ other' = [other EXCEPT ![o] = [busy |-> TRUE, copy |-> book]]
    /\ UNCHANGED <<goalVars, handler, entry, alone, book, hook, left, agentVars>>

OtherNotes(o) ==
    /\ other[o].busy
    /\ LET rivals == {hook[k].version : k \in {k \in Hook : hook[k].step = "note"}}
                       \cup {other[p].copy : p \in {p \in Other \ {o} : other[p].busy}}
       IN  book' \in Landed(other[o].copy, rivals)
    /\ other' = [other EXCEPT ![o] = [busy |-> FALSE, copy |-> 0]]
    /\ UNCHANGED <<goalVars, handler, entry, alone, hook, left, agentVars>>

-----------------------------------------------------------------------------
Init ==
    /\ goal = 1 /\ exists = TRUE
    /\ version = 0 /\ synced = 0
    /\ item = [i \in ItemId |-> NoItem]
    /\ handler = [h \in Handler |-> Served]
    /\ entry = [goal |-> 1, version |-> 0, synced |-> 0]
    /\ book = 0 /\ hook = [h \in Hook |-> Idle]
    /\ other = [o \in Other |-> [busy |-> FALSE, copy |-> 0]]
    /\ known = [i \in ItemId |-> 0] /\ told = {} /\ shown = 0
    /\ alone = TRUE /\ left = MaxEvents

Human ==
    \/ \E i \in ItemId : AddItem(i) \/ EditItem(i) \/ DeleteItem(i)
    \/ DeleteGoal

Agent ==
    \/ \E h \in Http : AutoGoal(h) \/ Touch(h)
    \/ \E h \in Http, n \in 1 .. MaxVersion, batch \in SUBSET ItemId :
         \E place \in Bijection(batch, 1 .. n) : LayItems(h, n, batch, place)
    \/ \E h \in Http, to \in Version : Reconcile(h, to)
    \/ ShowContract

HookStep(h) ==
    \/ ReadMarker(h) \/ ReadBook(h) \/ Deliver(h) \/ Note(h) \/ NotFound(h) \/ Fail(h)

Next ==
    \/ Human
    \/ Agent
    \/ \E h \in Handler : ReadGoals(h) \/ Publish(h)
    \/ \E h \in Hook : HookStep(h)
    \/ \E o \in Other : OtherReads(o) \/ OtherNotes(o)

Spec == Init /\ [][Next]_vars

\* Resyncs run to their end.  Tool calls, each followed by its hook, go on.
Fairness ==
    /\ \A h \in Handler : WF_vars(ReadGoals(h)) /\ WF_vars(Publish(h))
    /\ \A h \in Hook : WF_vars(ReadMarker(h) \/ ReadBook(h) \/ Deliver(h)
                                  \/ Note(h) \/ NotFound(h))

FairSpec == Spec /\ Fairness

-----------------------------------------------------------------------------
(* Properties *)

\* Type correctness; and no stamp, reconciliation or wording the agent knows is
\* ahead of the contract.
TypeOK ==
    /\ goal \in Nat \ {0} /\ exists \in BOOLEAN
    /\ version \in Version /\ synced \in 0 .. version /\ shown \in 0 .. version
    /\ item \in [ItemId -> [is : {"unused", "kept", "deleted"}, at : 0 .. version,
                            gone : 0 .. version]]
    /\ handler \in [Handler -> [step : {"idle", "read", "publish"}, new : Entry]]
    /\ entry \in Entry
    /\ book \in Version
    /\ hook \in [Hook -> [step : {"idle", "book", "ask", "note"}, goal : Nat,
                          version : Version, since : Version]]
    /\ other \in [Other -> [busy : BOOLEAN, copy : Version]]
    /\ known \in [ItemId -> 0 .. version] /\ told \subseteq ItemId
    /\ alone \in BOOLEAN /\ left \in 0 .. MaxEvents

\* The agent has seen the contract as of version v: every item last changed by
\* then, in its present wording, and every removal up to then, of an item it had
\* never heard of or not in its last wording too.
Informed(v) ==
    \A i \in ItemId :
      /\ Kept(i) /\ item[i].at <= v => known[i] = item[i].at
      /\ Deleted(i) /\ item[i].gone <= v => i \in told

\* The baseline from which the next delta starts is the newest version the agent
\* has provably seen (hook_post.rs:53), for a session with its first goal: whatever
\* hooks of this and of other sessions do to the book, nothing last changed at or
\* below the baseline is news to the agent.
BaselineHonest == exists /\ goal = 1 => Informed(Larger(book, synced))

\* What the marker tells a hook: unless resyncs have overlapped, a change the agent has
\* not heard of lies above the baseline the next hook starts from and is announced by
\* the marker, so that hook asks.
AtRest == \A h \in Handler : handler[h] = Served

NextHookAsks ==
    alone /\ AtRest /\ exists /\ goal = 1 /\ ~Informed(version) =>
      entry.goal = goal /\ entry.version > Larger(book, entry.synced)

\* The same, for a session that may have had a goal before.
BaselineSeen == exists => Informed(Larger(book, synced))

\* Tool calls go on, resyncs end up not overlapping, the goal stays: then the
\* agent hears of every change, the human's last edit and every removal included,
\* while it works and not only at the gate.
EditsHeard ==
    <>[](alone /\ exists /\ goal = 1) => <>[]Informed(version)
=============================================================================
