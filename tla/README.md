# Witnos in TLA+

Witnos keeps a *living contract* between a human and a coding agent: a goal with
items the agent owes, each answered by an interpretation, evidence or an
oracle's result. Hooks in the agent's harness deliver the human's changes to the
agent and hold it at the end of its turn until the contract is met. This
directory holds TLA+ modules of that machinery, the TLC configurations that
check them on small instances, and TLAPS proofs of their main results.

Paths below are relative to the repository's root; `core/`, `server/`, `cli/`
and `app/` stand for `crates/witnos-core/src/` and so on.

## 1. The system

| Component | State it keeps | Operations | Talks to |
|---|---|---|---|
| Goal store (`core/store.rs`, `core/types.rs`) | one JSON file per goal: items, evidence, `contract_version`, `agent_synced_version`, `last_human_edit_version`, `status`, `watching`, `sessions`; append-only event log | create, lay, edit, delete, interpret, add evidence, report oracle, reconcile, record gate decision, bind session, end turn, census, watch, status, delete goal | called in process by the API and by the app's commands |
| Stop gate (`core/gate.rs`, `server/api.rs:60-133`) | none of its own | `evaluate`; the handler clones, binds, records | store; asked by the Stop hook |
| Core HTTP API (`server/api.rs`, `server/lib.rs`) | bearer token, port, list of registered projects | one route per store operation; contract delta; start, graceful stop | CLI and hooks over loopback HTTP |
| Armed marker, registry (`core/marker.rs`, `core/registry.rs`, `server/marker.rs`) | `armed.json` per project directory; `projects.json` | `compute`, `resolve`, `sync_dir`, `remove_for_dir`, register, unregister | written by the core, read by every hook |
| Delivery hook (`cli/hook_post.rs`) | `delivered.json` per project | after each tool call: fetch the delta, show it, remember how far | API, marker |
| Stop, UserPromptSubmit, SessionEnd hooks (`cli/hook_*.rs`) | `instructed.json` per project | ask the gate; create or find a goal and bind; end the turn | API, marker |
| Agent CLI (`cli/cmds.rs`, `cli/client.rs`, `cli/main.rs`) | none | lay, evidence, oracle, reconcile, arm, disarm | API, marker |
| App commands (`app/main.rs`) | none of their own | the human's side: add, edit, delete, close, delete goal, projects, send to agent | store, API's helpers, terminals |
| PTY session (`cli/pty_session.rs`) | child process, output ring, listeners with backlogs | open, push, attach, detach, hang up, reap | PTY daemon |
| PTY daemon (`cli/pty_serve.rs`) | sessions by id, next id on disk, lock and socket, counts | open, list, kill, attach, idle exit | PTY sessions, app |
| Terminal client (`app/terminal.rs`, `app/terminal/daemon.rs`) | attachments by pane, control connection | spawn, attach, detach, write, list, start the daemon, type a prompt | PTY daemon |
| In-process terminals (`app/terminal/local.rs`) | panes | Windows variant of the two above | - |
| User interface (`ui/src`) | view state, polled every 1.5 s | what the human clicks | app commands |

What is hard in it:

* **Handlers take the store's lock several times.** The gate reads a clone of the
  goal, then binds the session, then records what it decided about the clone.
  Everything else may run in between (the app's commands run on another thread).
* **Several processes share files.** Hooks, the CLI and the core read and write
  `armed.json`, `delivered.json` and `instructed.json` with no lock between them.
* **Versions decide what counts.** Evidence is stamped with a version, an edit
  with another, the agent's reconciliation with a third; a gate that compared
  them wrongly would release an agent on evidence for other words.
* **The core, the app, the panes and the PTY daemon die separately**, and
  what is left has to be accounted for at the next start.

What makes each part correct:

* store: a status is backed by what it claims; an edit always re-opens; the
  human's items are not the agent's to move; nothing is ahead of the contract.
* gate: releases exactly when nothing is owed at one moment between question and
  answer; an honest agent can always get itself released; statuses follow their
  life cycle.
* marker: names every watched goal a session should be held to, and only those.
* delivery: what the agent was shown is what the contract says, once each.
* PTY session: each byte reaches each client once, in order; a cut-off client
  gets what it was promised. Daemon: no id twice, one daemon, no session lost to
  idle exit. Client: one attachment per pane, no request performed twice.

## 2. Plan

1. `Contract`, `ReleaseRule`, `ContractProofs`: the goal store and the gate.
2. `Marker`, `Hooks`, `HooksProofs`, `MarkerProofs`: registry, `compute`/`resolve`, the resync as
   two reads and three file operations by concurrent handlers, register,
   unregister, graceful stop, crash, and the hooks that read the file.
3. `Delivery`, `DeliveryProofs`: the agent's view, the delta, `delivered.json`.
4. `PtySession`, `Stream`, `PtySessionProofs`: ring, backlogs and listeners, implementing an
   abstract stream.
5. `PtyDaemon`, `TerminalClient`, `SessionService`, `TerminalProofs`, `CallProofs`: lock, socket, id allocation, open,
   kill, idle exit; the control connection, its retry, the start of a daemon, the census.
6. `PaneViews`, `PaneViewsProofs`: the app's side of a pane, with its tokens.

All are written, checked and proved about. The store and the gate came
first because everything else exists to feed them. The abstract specifications are
the release rule, the output stream a viewer sees and the service of sessions the app
relies on, all three shown to be implemented by proof. The
theorems are these modules' safety properties for any number of items, sessions,
processes, connections, viewers and views.

What is left: a composition of `PaneViews` with `TerminalClient`, whose restart of a
daemon takes the panes with it.

## 3. Modules

### Contract

One goal. The variables are the fields of `Goal` (`core/types.rs:273-311`) the
properties can tell apart, and `gate`, the calls of the gate's handler in flight.

| Variable | Code |
|---|---|
| `status` | `goal.status`; `"Deleted"` once the file is gone |
| `version`, `synced`, `humanEdit` | `contract_version`, `agent_synced_version`, `last_human_edit_version` |
| `item[i]` | status, class, author, `interpretation.is_some()`, `last_edited_version` |
| `evidence[i]` | `against_version` of the latest evidence of the item, 0 for none |
| `sessions[s]` | the pane recorded for a bound session, `"NoPane"`, or `"Unbound"` |
| `gate[s]` | a handler between its clone, its binding and its record |

Each store operation runs on a draft inside `Store::mutate` under one write lock
and replaces the goal only on success, so each is one action, and a call it
refuses is no step. Abstractions:

* evidence keeps only its latest stamp. Evidence is appended, stamped with the
  current version, so *some* evidence is recent enough exactly when the latest is.
* texts, paths, timestamps, block reasons and the event log are left out.
* `watching` is not in the model: a gate call that names its goal does not look
  at it; one by session that finds no watched goal releases without touching it.
* `Restart` is a restart of the core: gate calls in flight fail, then the census
  (`account_ended_panes`). The census that fails is skipped by the app, which is
  the same step as every pane having survived.
* `LoadedGoal` is a goal file from before 2026-08-02, the only source of waived
  items (`core/types.rs:75-98`); no code path waives one any more.

Definitions whose comment begins with *Slip* are not part of the model: each is
the definition after it with one plausible mistake, kept to show that the named
property would notice (section 5).

### ReleaseRule

What the gate promises: a set of items held, a subset of them owed, an agent
aligned or not, and verdicts given. `Contract` implements it under the mapping
`held <- Live`, `owed <- {i \in Live : ~Settled(i)}`, `aligned <- synced = version`,
`verdict <-` what the calls in flight have decided. The linearization point of a
gate call is its clone. The mapping also binds every other operation: moving a
yardstick must make the item owed *and* un-align the agent in one step, and no
step of the agent answers two items or removes one.

### ContractProofs

Theorems about `Contract`, section 4.

### Marker

The armed marker of one directory and the core's side of it.

| Variable | Code |
|---|---|
| `registered` | is the directory in `projects.json` (`core/registry.rs`) |
| `goal[g]` | a goal of the directory: never made, kept or deleted; `watching`; `auto_session` (`owner`); the ids in `sessions` (`bound`). Goals are numbered in the order of `created_at` |
| `core` | the app: up, past its exit handler, or down |
| `handler[h]` | what each of the core's threads is in the middle of: its snapshot of the registry, the marker it computed, the file it has open |
| `armed`, `tmp` | the two files of `sync_dir` |
| `alone` | history, for `Derived` only |

| Action | Code |
|---|---|
| `Watch`, `Touch`, `CreateAutoGoal`, `Register`, `CloseGoal`, `DeleteGoal`, `Unregister` | the store or registry operation of a request; the handler then owes a resync |
| `ListGoals`, `UnwatchNext` | the loop of `unregister_project`, `server/lib.rs:54-63` |
| `ReadRegistry`, `ReadGoals` | the two arguments of `sync_dir` in `resync_dir`, each under its own lock |
| `OpenTmp`, `Fill`, `Rename`, `RemoveMarker` | `server/marker.rs:13-29`; `fs::write` opens (creates or truncates), then writes |
| `GracefulStop`, `End`, `Start`, `Disarm` | `server/lib.rs:129-174`, `app/main.rs:557-561`, `cli/main.rs:136-162` |

Handler `"main"` is the app's thread, which runs one synchronous command at a
time; `Http` are requests on the server's runtime, with `add_auto_project`, an
asynchronous command, among them. Abstractions: a marker names goals and leaves
out the versions it mirrors; a file that does not parse is `"empty"` or
`"garbled"`; a write over another's longer text may leave a tail. A file opened
and then renamed or removed is followed by `handler[h].file`, as the operating
system follows it by descriptor.

### Hooks

The sessions' hooks over `Marker`, and the specification of both. `instructed`
is `instructed.json`; `hook[s]` is the hook a session is running, with the goal
and the copy of the book it read. The harness runs one hook of a session at a
time. `UserPromptSubmit` is `PromptRead`, then `PromptBind` or `PromptCreate`,
`PromptAnswered`, or `PromptGivesUp` (the client's 2 s), then `PromptNote`;
`Stop` is `StopRead`, then `StopGate` (the marker named a goal) or `StopAsk` (it
named none). `SessionEnd` is `EndRead`, which takes only an entry of the session's own
and never the default goal, then `EndTold`. What the gate answers about a goal is `Contract`'s matter; here
only what it does to bindings and to the marker counts. A hook that reads a
marker which does not parse changes nothing: `UserPromptSubmit` and `SessionEnd`
are silent and `Stop` blocks. A session that a hook bound to a manual goal has an
entry of its own for it after the next resync, so its end does end the turn of a
goal that other sessions may be bound to as well: `EndsOwnTurn` says "bound to" and
could not say "alone". Nothing but a resync gives it that entry, and the binding
does not cause one (`server/api.rs:311`): until some other call does, `EndRead` finds
none and the goal stays running, which `cli/hook_session_end.rs:7-8` accepts.

### HooksProofs, MarkerProofs

Theorems about `Hooks`, section 4; the second has those on the marker as a whole.

### Delivery

How a change reaches an agent that is still working (`cli/hook_post.rs`), for one
session and its goal.

| Variable | Code |
|---|---|
| `goal`, `exists` | which of the session's goals this is, and whether its file is there |
| `version`, `synced` | `contract_version`, `agent_synced_version` |
| `item[i]` | `last_edited_version`, and `version_after` of the `ItemDeleted` event |
| `handler[h]`, `entry` | resyncs under way with the `GoalRef` they computed; the marker's `GoalRef` for the session |
| `book`, `hook[h]` | the session's number in `delivered.json`; its PostToolUse hooks between their steps |
| `other[o]` | a hook of another session, from its reading the book to its rewriting it: what its copy says of this session |
| `known`, `told`, `shown` | the agent: the wording (`last_edited_version`) of each item it was shown, the removals, the version of its newest delta |

A hook is `ReadMarker`, `ReadBook` (where it may find nothing new and end),
`Deliver` (the core answers, the hook prints), `Note`. Parallel tool calls run several
at once, and hooks of other sessions rewrite the same file. Two writers share
`delivered.json.tmp`, so what a rename publishes may be the other's text, or a
mix that does not parse and is read as an empty book (`Landed`); that is more than the
file system can produce and less than it would be worth to model (`Marker` does,
for its file). Abstractions:

* the agent is honest: it reconciles to versions it was *shown*, and asks
  `contract show` from a baseline some message named, which is at most `synced`;
* a resync is a read and a publication (its files are `Marker`'s matter), and
  the core does not crash;
* of what changes the contract, the agent's side has `lay_items` alone. The edit route
  takes an actor and would let an agent re-word an item of its own
  (`server/api.rs:449-470`), which is in `Contract`; no command of the CLI calls it;
* the marker has no default goal besides the session's own, for which goals and
  which sessions is `Hooks`' matter;
* what the agent prints to itself, and what it laid, it knows.

### DeliveryProofs

Theorems about `Delivery`, section 4.

### PtySession

One session of the PTY daemon and the viewers attached to it. Output is counted,
not stored: byte *n* is the *n*-th the shell printed, which of them are newlines is
fixed but unknown, and a chunk is a run of bytes.

| Variable | Code |
|---|---|
| `held`, `registered`, `finisher[f]` | a process has the slave side open; the session is in `Daemon.sessions`; the threads that call `Daemon::finish`: the output pump and the kills |
| `read`, `oldest` | the ring: it holds the bytes from `oldest` to `read`; `truncated` is `oldest > 1` |
| `listeners`, `backlog[v]` | `OutState.listeners`, `BacklogState` |
| `serving[v]`, `writer[v]`, `hand[v]` | the connection's thread (`attach`), its writer thread, and what that is about to write |
| `got[v]`, `away[v]`, `down[v]` | the viewer's socket: what was put on it, the far end, shut down |
| `run[v]` | history: from the replay's first byte to the last byte pushed to the viewer |

`Read` is `Out::push`: ring and all backlogs under one lock, as `Attach` is. The lock
of a single backlog is taken besides by its writer (`Take`) and by `Detach`, each a
step. A writer waiting on the condition variable moves only when notified
(`OnPush`, `OnClose`). `Daemon::finish` is `Unregister` and `CloseAll`. Abstractions: a
write to a socket is whole or fails; spawning, resizing, the input a PTY takes and the
reaping of the child are left out.

### Stream

What a viewer is promised: one contiguous run of the output, from the oldest byte
kept or, when that is not the first ever, from just after the first newline of what is
kept; to the last byte printed while it was counted in; and not to be counted out
unless it left, fell more than `Lag` behind, or the session was closed.
`PtySession` implements it under the mapping of `S`.

### PtyDaemon

The daemon's processes and the threads of the one that serves (`cli/pty_serve.rs`). A
process is a slot of `Proc`, so that several can be on their way up, and one dead
while the next one starts.

| Variable | Code |
|---|---|
| `place[p]` | how far `run` has come: `"started"`, `"locked"`, `"cleared"` (of a stale socket), `"bound"`, `"serving"` |
| `lock`, `socket`, `ids` | who holds `pty.lock`; whose listener `pty.sock` leads to, `"dead"` if it is a corpse; `pty-ids.json` |
| `next[p]`, `table[p]` | `Daemon.next_id`, `Daemon.sessions` |
| `monitor[p]`, `quiet[p]` | where the idle monitor is in its round; `idle_for() >= grace` |
| `shell[i]`, `pump[i]` | the child of a session and the thread that reads its output |
| `thread[c]`, `server[c]`, `job[c]` | the thread of a control connection, by the step it is before; the process it is of; the request in hand, with the id it was given |
| `in[c]`, `out[c]`, `far[c]` | lines waiting at either end; the client's end |
| `born`, `taken` | history: shells given an id; times a request was carried out |

| Action | Code (`cli/pty_serve.rs`) |
|---|---|
| `TakeLock`, `RemoveStale`, `Bind`, `Load` | `run`, `take_lock`, `Daemon::new` |
| `Accept`, `Greet`, `Acked`, `NoHello`, `EndOfLines` | `serve`, `control`; `Closes` is `ClientGuard::drop` |
| `TakeRequest`, `Look`, `Allocate`, `SpawnShell`, `Insert`, `Opened` | `handle`, `alloc_id`, `open` |
| `HangUp`, `Remove`, `Reap`, `PumpEnds` | `kill`, and the two threads that call `finish` |
| `LookAtSessions`, `LookAtClients`, `LookAtClock`, `RemoveSocket`, `IdleExit` | one round of `spawn_idle_monitor`, a step for each thing it reads |

`Ends(p)` is what the kernel does when a process is gone: its lock is free, its
listener dead, its connections closed, its sessions lost. A start that fails is a
process that ends. Abstractions: time is `quiet`: the 20 s of grace pass only between
the monitor's rounds, a hundred of which fit in, and only while nothing touches the
process (the tests' `WITNOS_PTY_IDLE_SECS=0` is outside the model); the drop of a
guard decrements and touches in one step, where the increment and its touch are
two; `Look` is `list`, and `resize` and `foreground` are left out, which find a session
or refuse as `kill` does, and change nothing kept here but the idle clock, as every
request does; a data connection counts as a client like any other and is not drawn,
its life being `PtySession`'s.

### TerminalClient

The app's control connection (`app/terminal/daemon.rs`) over `PtyDaemon`, and the
specification of both. `call` is the request under way, by the step it is before;
`control` is `Inner.control`; `app` is `"new"` until the census is over. Calls come one
after another, for the mutex around `control` is held for all of one.

| Action | Code (`app/terminal/daemon.rs`) |
|---|---|
| `BeginCensus`, `NotRunning` | `surviving`, `connect_or_start` |
| `Begin`, `Send`, `Heard`, `Unanswered` | `request`, `round_trip` |
| `Dial`, `Acknowledged`, `Unacknowledged` | `Control::connect`; two hellos without an answer take all of `START_TIMEOUT` |
| `StartDaemon`, `DeadlinePasses`, `CannotStart` | `start_daemon`, the polling loop |
| `Quit`, `Dies`, `Rival`, `StrangerConnects`, `Refused` | the app's exit; kill -9; a daemon started by hand; a client that says nothing; a disk or a PTY that fails |

What may excuse a failed call is kept in `mishap`. A reply that is late counts as a
fault, unless its thread waits for a shell to die, which the code does itself. The
deadline of the polling loop passes only when no process is on its way up or out:
both take a moment, the deadline is 10 s. An app that starts anew is the second
disjunct of `DaemonInit`: a daemon that serves, and a session in it.

### SessionService

What the app may rely on, with processes, lock, socket, connections and threads left
out: a set of sessions, ids that have been used, and one call after another, whose
request is carried out once at most, in one step, after it was asked. That step decides
the reply: an open brings one session under an id never used, a kill succeeds on a session
there is (and is refused on one there is not), a look finds all there are. `ImplementsService` of
`TerminalClient` says that module implements it, under this mapping:

| Abstract | Concrete |
|---|---|
| `live`, `doomed` | the tables of processes whose monitor has not, or has, decided to exit: what is opened in the latter goes down with it |
| `used` | ids whose session is or was in a table, and those a dying daemon took along |
| `current`, `stage`, `outcome` | `call.n`; whether `call` is idle, waits for its answer, or is before that; `last` |
| `sent`, `doing` | requests in `in`; the jobs of threads up to the step that carries them out |
| `replies` | replies in `out`, and those of threads past that step that have still to write them |

A request takes effect where the table changes: an open with `Insert`, a kill with
`Remove`, a look and whatever is refused with the answer itself. A kill is the close one: it
looks the session up, hangs it up and only then takes it from the table, by when the pump
may have; `Finished` is `finish`'s answer to who was first. A crash may use ids up and a
closed connection lose requests and replies, and nothing else happens to either.

### PaneViews

One pane in the app, at the level below: `Terminals::attach` and `detach`
(`app/terminal/daemon.rs`), the pump of an attachment, and the views of
`ui/src/TerminalPanel.tsx` that mount one after the other. A view attaches once, so
it stands for its token.

| Variable | Code |
|---|---|
| `mounted`, `asked[v]` | the view on the screen; its `term_attach`: asked, answered with `token` or an error, taken note of |
| `queue`, `main` | synchronous commands, which run one at a time on the main thread; where that is in `attach`, `detach` or `release` |
| `pane`, `released`, `reader[v]` | `Inner.panes[id]`; the attachments' flags; `Pump::run` |
| `told` | views that called `onExit` |
| `session`, `link[v]`, `cut`, `left` | the daemon's end: the session, the connection of each attachment, backlogs closed; connections the app has shut down |

The daemon's end is `PtySession`'s `attach`, `finish`, `Backlog::push` and writer, reduced to
whether a connection is fed. Output itself, keystrokes and resizing are left out, as is
which session a pane is of (`shellFor`): the pane's id is known when a view mounts.
`term:exit` names the pane and not the attachment, so any view of it takes it.

### PtySessionProofs, PaneViewsProofs, TerminalProofs, CallProofs

Theorems about `PtySession` and its refinement of `Stream`, about `PaneViews`, and about
`TerminalClient` with `PtyDaemon` and their refinement of `SessionService`, section 4.

### MCContract, MCHooks, MCDelivery, MCPtySession, MCTerminal, MCPaneViews

The instances for TLC.

## 4. Checks and proofs

| Run | Instance | Shows |
|---|---|---|
| `contract_items` | 2 items, 1 of them possibly waived by an old file, versions up to 3, no session | `TypeOK`, `StatusIsBacked`, `EditMakesStale`, `HumanItemsStand` under all orders of the human's and the agent's calls |
| `contract_gate` | 1 item, 2 sessions, 1 pane, versions up to 2, fairness | `VerdictStands`, `StatusPath`, `ImplementsRule`, `NeverStuck` with overlapping gate calls |
| `closed_stays` | 1 item, 1 session | violated, see below |
| `marker_sessions` | 2 sessions inside Witnos, 1 request slot and the app's thread, 3 goals, 1 event | `TypeOK`, `OwnGoals`, `EndsOwnTurn`, `NamedWhileWatched` |
| `marker_heals` | 1 session, otherwise the same but 2 goals, 2 events, and fairness | `Derived`, `EntryComesBack` |
| `delivery` | 1 item, a hook of the session, one of another session, 1 request slot and the app's thread, versions up to 2, 1 event, fairness | `TypeOK`, `BaselineHonest`, `NextHookAsks`, `EditsHeard` |
| `baseline_seen` | the same | violated, see below |
| `pty_session` | 1 viewer, 1 kill, ring and cap of 2 bytes, reads of 1 or 2, 3 bytes in all, every choice of newlines, fairness | `TypeOK`, `ImplementsStream`, `NobodyWaitsInVain`, `SeesItThrough` |
| `terminal_client` | 2 processes, 2 connections, 3 ids, the census and 2 calls, 1 fault, fairness | `TypeOK`, `NeverReused`, `Reachable`, `AnswersMatch`, `OnceOnly`, `Heals`, `SurvivorsListed`, `ExitsEmpty`, `EmptyGoes`, `CallsEnd`, `ImplementsService` |
| `pane_views` | 2 views, 1 ack that times out, fairness | `TypeOK`, `OneFeed`, `NotCutOff`, `LetGoIsNotEnd`, `SeenTo`, `LearnsEnd`, `LetsItGo` |
| `ended_lies` | 1 view | violated, see below |
| `lost_entry` | 1 session | violated, see below |

**Bounds.** `MaxVersion` stops the operations that bump the version. Three
versions are a lay, an edit and one more edit or a delete: the longest chain in
which a stamp, an edit and a reconciliation can all differ. Two items are
enough for a batch of two and for one item's change to be mistaken for
another's; the gate's instance has one item because there the interleavings
come from two sessions. The class of items the human promises to check by hand
(`ObjectiveByHuman`) is accepted by the model but left out of the instances: it
differs from `ObjectiveByAgent` only in who may set it. `CHECK_DEADLOCK FALSE`
since a deleted goal has no steps left but a binding's.

For the marker, `MaxEvents` bounds what people and mishaps do (commands,
requests not made by a hook, stops, crashes, disarms); hooks are not bounded,
and a graceful stop's exit and a start are free. Two events are an unregister or
a close in flight against a crash, a stop or a second command, beside any
number of hooks; one goal made by hand may be there from the start, so three
goals are that one and one of each session's own. `MaxGoal` disables the making
of more. The hooks of a session in another terminal take some of the steps of
those inside, so the instances have none. Two writers are enough for a lost update and for a torn file.
`CHECK_DEADLOCK FALSE`: with its events spent and nothing armed, the system may
rest.

For delivery, `MaxEvents` bounds hooks that are killed or find no core, and
deletions of the goal: one is enough to lose a note after its delta was printed,
or to bring in a second goal. With versions up to 2 an item is made and then
edited or deleted while the hook is at any of its steps, and two resyncs can be
published in either order; an item edited and then removed before the agent heard of
the edit takes a third version, checked aside for the invariants (2.1 million states). A second hook of the session, and a third writer of
the book, were checked aside (4.7 million states) and are covered by the proof.
`CHECK_DEADLOCK FALSE`: at `MaxVersion`, with all delivered and no goal to come,
the system rests.

For a session, 3 bytes let the ring evict before or after a viewer joins, and a
chunk of two followed by one overflow the cap of a viewer that has not begun to
read. Viewers meet only in the two lists `Read` and `CloseAll` go through; two
viewers of a session with two bytes were checked aside for `TypeOK` and
`ImplementsStream` (1.4 million states). `CHECK_DEADLOCK FALSE`: a session ends.

For the daemon, `MaxFaults` bounds kills, rivals, strangers, system calls that fail and
replies that are late. With two processes one can be killed, or be about to exit, while
the other comes up, or two race for the lock; two connections are the one the app keeps
or has given up and the one it dials, or a stranger's. Three ids let a successor open a
session beside one that was there, or use the last id up. The third call (the census
is the first) is one after a call that failed. `CHECK_DEADLOCK FALSE`: calls are bounded.

Two views of a pane are a remount; a third only repeats it, and the safety
properties are proved for any number. `CHECK_DEADLOCK FALSE`: every view mounts once.

**Fairness of `Contract`** (`FairSpec`, used by `NeverStuck` alone). While its goal is
`Running`, an agent keeps trying to stop and each attempt goes through the Stop
hook; told to go on, it does what the block reasons name, item by item
(`SetInterpretation`, `AddEvidence`, `ReportOracle(i, TRUE)`, `Reconcile(version)`
each weakly fair per item); the handlers of the core run to their end. Nothing
is assumed of a turn that ended, of the human, or of the oracles, which may fail
for ever (a `Setback`, as is a restart under the gate).

**Fairness of `Hooks`** (used by `EntryComesBack` alone). The core's handlers run to
their end and so do hooks (weak). Prompts go on coming to every session inside
Witnos, and a hook's post finds a free request slot again and again (strong:
another hook of the session, or another request, may be in the way each time).
Nothing is assumed of the human, of stops and crashes, or of hooks' patience:
`EntryComesBack` speaks of runs in which the core ends up staying and the
directory armed.

**Fairness of `Delivery`** (used by `EditsHeard` alone). The core's handlers run to
their end; the agent goes on calling tools, each call is followed by a hook, and
a hook that is not killed runs to its end (weak). Nothing is assumed of the
human, the agent's own reconciliations, or other sessions. `EditsHeard` speaks of
runs in which the session keeps its first goal and, from some time on, no two
resyncs overlap: a stale snapshot published last hides an edit until the next
resync, and the gate is what catches it then.

**Fairness of `PtySession`** (used by `SeesItThrough`, which is `BytesArrive` and `StreamsEnd`). The daemon's
threads run on, and a viewer that has not left goes on reading (weak, per thread).
Nothing is assumed of the shell, of kills, of viewers' joining, leaving or typing.

**Fairness of `TerminalClient`** (used by `EmptyGoes` and `CallsEnd`). Processes on their
way up, each connection's thread and the pumps run on (weak, one condition for all: each
takes boundedly many steps and none but a death disables another's, so that a step that
waits is taken in the end), and so do the monitor, whose rounds are unbounded, and the
call in hand (weak, one each); the grace passes if it again and again could (strong: a round of the monitor
only hides it for a moment). Nothing is assumed of shells, which may run or
ignore a hangup for ever, of the human, or of faults. `EmptyGoes` speaks of runs in
which the app is gone for good and so are all shells.

**Fairness of `PaneViews`** (used by `LearnsEnd` and `LetsItGo`). The main thread, each
connection's threads in the daemon, each view's answer and each reader run on (weak).
Nothing is assumed of the shell's end, of kills, or of mounting.

**Proved** for every set of items, sessions and panes, every loaded file and
every bound on versions, from `ContractAssumption` alone:

* `TypeCorrect`: `Spec => []TypeOK`. Its non-typing half, that no stamp, edit,
  reconciliation or clone is ahead of `version`, is what all else rests on.
* `StatusBacked`: `Spec => []StatusIsBacked`; inductive together with `TypeOK`.
* `VerdictHolds`: `Spec => []VerdictStands`; inductive with the two above: that
  a settled item stays settled until a bump needs that its status is backed.
* `EditsMakeStale`, `HumanItemsHold`: the action properties, from `TypeOK`.
* `Implements`: `Spec => ImplementsRule`, one lemma per kind of step.
* `PanesStay`, `StatusPaths`: two more action properties, from `TypeOK`; `PaneRemembered`, that a
  pane once recorded stays recorded, is stated by its theorem and no run. All but four kinds
  of steps leave the goal's status and its sessions alone (`ContractSteps`).

and for every set of sessions and request slots and all bounds, from
`MarkerAssumption` and `HooksAssumption`:

* `HooksProofs!TypeCorrect`: `Spec => []TypeOK`, one lemma per kind of step.
* `GoalsStayOwn`: `Spec => []OwnGoals`. `OwnGoals` is inductive with `TypeOK`, for it
  speaks of every place a goal's name can wait to be used: both files, every
  handler's snapshot, the book and the copies of it in hooks' hands. The argument
  is that owners never change and deleted goals stay deleted (`OwnStays`), that a
  step takes names only from places already covered or from `Compute`
  (`TextSources`, `HooksFrom`), and that the goals a step may rewrite are of six
  kinds (`GoalChanges`).
* `MarkerProofs!AlwaysDerived`: `Spec => []Derived`. The invariant beside `TypeOK` and
  `OwnGoals`: `InHand`, what a request that is alone has in its hands (the registry as
  it is, a marker computed from it and from the goals as they are, the temporary file
  just truncated, then holding that marker); `IdleOK`, what an idle handler holds;
  `OwnersIn`, that a session's own goal has it bound; and `Settled`, that with nothing in
  hand the marker is current, or the core is on its way down and has taken it away, which
  `Start` makes good. A hook may bind in the middle of a resync (`BindingKeeps`): that
  moves what `compute` would say only to the goal just bound, which `Mirrors` allows and
  which the argument gets from `OwnGoals` and from a set of goals having a newest (`LatestSome`).
* `MarkerProofs!NeverLost`: `Spec => []NamedWhileWatched`, from the same invariant: a session's own
  goal is the only one it owns (`OneGoalEach`) and has it bound (`OwnersIn`), so it is its entry
  (`ComputeOwn`); a goal it was told of and does not own is nobody's (`OwnGoals`), so there is
  a default (`ComputeDefault`). This is the sentence of `cli/hook_stop.rs:105-108` that
  `lost_entry` refutes, with the condition under which it is true.
* `MarkerProofs!EndsOwn`: `Spec => []EndsOwnTurn`. The invariant adds to `OwnGoals` that no
  text anywhere (`Texts`: both files and every handler's snapshot) has an entry of a goal
  its session is not bound to (`PartTexts`), by the same `TextSources`; bindings last
  until the goal is deleted (`PartStays`), and only `EndRead` makes a hook that ends a turn
  (`EndsFrom`).

and for every set of items, hooks, other sessions' hooks and request slots and all
bounds, from `DeliveryAssumption`:

* `DeliveryProofs!TypeCorrect`: `Spec => []TypeOK`.
* `BaselineIsHonest`: `Spec => []BaselineHonest`. `BaselineHonest` is not inductive,
  for a baseline comes from somewhere: the invariant `OnlySeen` says the same of
  every version that may become one (`Baselines`: the book, copies of it, versions
  hooks hold, the marker's and the snapshots' mirrored `synced`, the newest delta).
  A bump is later than all of them (`BumpSeen`, `LaySeen`); a delta that starts at
  one of them informs the agent up to the present (`HearSeen`); every other step
  only moves such numbers about (`CalmSeen`).
* `HooksAsk`: `Spec => []NextHookAsks`. `Mirrored` says that while resyncs do not overlap, one is
  under way at most, what it is to publish is the contract as it stands, and so is the
  marker when there is none: whatever changes the contract leaves a resync to be done
  (`BeginMirrored`). By `BaselineIsHonest` a change the agent has not heard of is above
  the baseline (`InformedBelow`), and what the marker mirrors shows it.

and for every set of viewers and kill requests and all sizes of ring, backlog and
reads, from `PtyAssumption`:

* `PtySessionProofs!TypeCorrect`: `Spec => []TypeOK`, whose bounds on the ring and the
  backlogs, and the count of a backlog's bytes, are not inductive alone.
* `PtySessionProofs!Implements`: `Spec => ImplementsStream`, under the mapping of `S`. The
  invariant is `Seamless`, that what a writer has in hand ends where the backlog begins
  and the backlog's chunks join up to where the viewer is counted out; `Attached`, that
  a viewer in the listeners whose backlog is open is counted up to the last byte read,
  which holds across `attach` because it takes the snapshot under the pump's lock; and
  `Served`, that a writer shuts the socket only with the closed backlog drained.
  `SessionOK` says that the ring is full or has lost nothing, which `Join` of `Stream` asks
  for, and that one thread at most closes the session. That a set of newlines has a
  first one (`LeastOf`) is proved from the library's well-foundedness of inclusion. One
  lemma per action for the invariant (`ReadSafe`, ...) and one for its mapping (`ReadMaps`, ...).
* `NobodyWaits`: `Spec => []NobodyWaitsInVain`. `AllAwake` adds that a writer asleep has an empty
  and open backlog: whoever touches a backlog with a writer asleep on it has told it in
  the same step (`TellsAll`). That such a writer has sent all it owes follows from `Seamless`.

and for every set of processes and connections and all bounds, from `DaemonAssumption`
and `ClientAssumption`:

* `TerminalProofs!TypeCorrect`, `IdsNeverReused`, `AlwaysReachable`, `OnlyEmptyExits`:
  `Spec => []TypeOK`, `[]NeverReused`, `[]Reachable` and `ExitsEmpty`, from one inductive
  invariant. Its parts: `LockOK`, who is past the lock holds it and the socket is its
  own until it takes it away, whence one process serves at most; `ServedOK`, a
  thread past the accept queue is of a process that serves; `IdsOK`, what serves
  agrees with the file on the next id, and ids born or about to be are below it and
  different; `QuietOK`, what the monitor has read is still so unless somebody touched
  the process since, which the clock then shows. `NeverReused` is not inductive since
  a thread may hold an id while its process dies; `ExitsEmpty` needs `QuietOK`, since
  the counts themselves may be stale. One lemma per kind of step and part
  (`ThreadSafe`, `EndsSafe`, `StartSafe`, `MonitorSafe`, `SessionSafe`, `CallSafe`, ...).
* `CallProofs!NothingTwice`, `OwnAnswers`: `Spec => []OnceOnly` and `[]AnswersMatch`. The first rests
  on `SentOnce`: what has been taken up, or waits in one daemon's connection and no other, was
  sent, and a call that is to be written has not been (`Early`). That a resend cannot meet its
  own earlier copy needs more, namely what is on the one connection the app holds (`HeldOK`):
  nothing when a request may be written to it, the hello or its acknowledgement on a new
  one, and the call in hand, in one of four places, on one it waits at. The second is that
  last case. What a thread may do to its connection is put in six cases once (`ThreadTalks`).
* `CallProofs!HealsAlways`: `Spec => []Heals`, from the invariants above and three facts. Whoever
  holds the lock is past it with no socket in its way, so that it never gives up while it
  starts (`LockedOK`); a poll has somebody to wait for (`Coming`), and when it has nobody and no
  socket, something died (`NobodyComes`); and a thread hangs up only on a client that is gone or says
  nothing, which a call's connection by `HeldOK` never looks like (`ThreadStays`).
* `CallProofs!CensusWhole`: `Spec => []SurvivorsListed`. Until its census is over the app asks for
  nothing else (`LooksOnly`), so sessions only become fewer (`Shrinks`), what is answered stays
  whole (`WholeStays`), and what one daemon answers with is all there is, since only the holder
  of the lock has sessions (`OneTable`). A missing socket then means there are none.
* `CallProofs!ServesSessions`: `Spec => ImplementsService`, which is what the theorems above are for
  taken together. Beyond their invariants it needs that what waits or is worked at is a
  request of some call, at its thread's kind of work and no other thread's (`TasksOK`: else a reply
  could appear in the service that nobody asked for), and that an id on its way to the table
  has no pump yet (`FreshOK`: else `Insert` would open a session under a used id). Then one lemma
  for each action says which step of the service, or that none, it is (`LookMaps`, `RemoveMaps`,
  `EndsMaps`, ...); most need only that what the mapping reads is unchanged or, when a
  connection closes, shrinks (`LoosensMaps`). That a thread's table is all the sessions
  there are is `OneTable` once more, in another form (`OnlyTable`).

and for every set of views, from `ViewsAssumption`:

* `PaneViewsProofs!TypeCorrect`, `FedOnce`, `StaysAttached`, `EndsAreEnds`: `Spec => []TypeOK`,
  `[]OneFeed`, `[]NotCutOff`, `[]LetGoIsNotEnd`, again from one invariant. It says which view's
  attachment the main thread and the pane may hold given what each has been
  answered (`MainOK`, `PaneOK`, `ViewOK`), and that commands in the queue are in the
  order of mounting, a view's attach before its detach (`QueueOK`, `OrderOK`).
* `AllSeenTo`: `Spec => []SeenTo`, which is `OnItsWayOut` and `NotForgotten`, by `Cared`, one
  lemma per kind of step. A view's detach can be relied on because it stays in the queue
  until it is the head (`WaitsOn`, `HeadTaken`) and fits whatever the pane has by then
  (`TakingCares`); a reader that reports takes the pane with it only if it is the pane's own.

**Only model-checked**: `NeverStuck`, `EntryComesBack`, `EditsHeard`, `SeesItThrough`,
`EmptyGoes`, `CallsEnd`, `LearnsEnd` and `LetsItGo`, the liveness properties: `ENABLED` is
out of the prover's reach. Five of them have their safe half proved, the part a bug
would break, that what each waits for is there to come: `NamedWhileWatched` is that of
`EntryComesBack`, `NextHookAsks` of `EditsHeard`, `NobodyWaitsInVain` of `SeesItThrough`,
`NotForgotten` of `LearnsEnd` and `OnItsWayOut` of `LetsItGo`. That threads, once able
to, go on is left to TLC and fairness. Every other property of a passing run has its theorem.

**Where the code does not do what the repository says** (violation runs):

* `closed_stays`: `core/types.rs:34` says no agent reads a closed goal any more.
  `record_gate_decision` sets `AwaitingRulings` whatever the status is
  (`core/store.rs:602-603`), and a gate call that names its goal does not look at it
  either, so a call that releases takes a closed goal out of `Closed`, whether it was
  in flight at the close or begins after it. In the run's trace it begins after:
  the goal is closed with an item open, then the agent lays evidence, reconciles,
  asks the gate, and the release is recorded.
* `lost_entry`: `cli/hook_stop.rs:105-108` lets a session go unasked because a
  marker "can only have lost the entry because a human deleted that goal or
  stopped watching it". A resync may also publish goals it read before that
  session's goal was made, over the marker that names it.
* `baseline_seen`: `cli/hook_post.rs:53` calls the baseline "the newest version the agent
  has provably seen". The book is keyed by session and never cleared, so after
  the human deletes a goal, the session's next goal starts from the old one's
  version, and what is put in it below that number is never delivered.
* `ended_lies`: `app/terminal.rs:63` reports `Ended` "only when the SESSION finished", and
  `cli/pty_serve.rs:69` says "End-of-stream on the socket means the session ended".
  A viewer more than `CLIENT_BACKLOG_BYTES` behind is cut off as well
  (`cli/pty_session.rs:171-175`), and the pump cannot tell: the pane is shown as
  ended, and offers a restart, which kills the shell that still runs.

Three more are steps of the models, and no run is spent on them. `server/marker.rs:4` says
that hooks never read a torn file, but two resyncs of a directory share
`armed.json.tmp`, and one may rename it just after the other has truncated it (`OpenTmp`,
`Rename`). `server/lib.rs:52-53` unwatches a directory's auto goals "so a restart cannot
re-arm them", but a hook that read the marker before may make one afterwards, since
`create_auto_goal` does not look at the registry (`ListGoals`, `CreateAutoGoal`).
`cli/pty_serve.rs:401` says a dropped session gives its listeners "their last bytes and
then end-of-stream", but `attach` finds the session (670) and joins its listeners later
(674); one that joins after `close_all` is told nothing (`Find`, `Attach` of `PtySession`,
`Find`, `Listen` of `PaneViews`; `StreamsEnd` and `LearnsEnd` speak of closed backlogs).
And between the monitor's decision to exit and the exit itself, a client that waits may
be accepted and even open a session, though `cli/pty_serve.rs:78` says "never while a
session is alive"; `ExitsEmpty` speaks of the decision.

Not counted among these: the gate evaluates a clone and records the release later
(`server/api.rs:61-97`), so an edit in between is not seen; the answer is still right
for a moment between question and answer, which is what `ReleaseRule` promises. And
`report_oracle` assigns Passed or Open to a waived item too (`core/store.rs:470-474`),
though `core/store.rs:424` leaves it to the human; only old files have such items.

## 5. Slips

| Property | Definition | Slip | The mistake |
|---|---|---|---|
| `TypeOK` | `MayReconcile` | `MayReconcileAhead` | no check against the latest version |
| `StatusIsBacked` | `Reopened` | `ReopenedIfReclassed` | a re-save with the same class keeps the status |
| `EditMakesStale` | `Reopened` | `ReopenedBeforeBump` | stamped with the version before the bump |
| `HumanItemsStand` | `MayEdit` | `AnyoneMayEdit` | authorship not looked at |
| `VerdictStands` | `DeleteItem` | `DeleteItemQuietly` | a delete does not bump the version |
| `VerdictStands` | `MayReconcile` | `MayReconcileBackwards` | an earlier version than the last is accepted |
| `EditMakesStale` | `MayReconcile` | `MayReconcileAhead` | no check against the latest version |
| `StatusPath` | `EndTurn` | `EndAnyTurn` | the status is not looked at |
| `ImplementsRule` | `Releasable` | `ReleasableEmpty` | an empty contract is releasable |
| `NeverStuck` | `StatusWithEvidence` | `StatusWithFirstEvidence` | only the first evidence lays an item |
| `Hooks!TypeOK` | `Deleted` | `DeletedWatched` | a deleted goal stays watched |
| `OwnGoals` | `DefaultOf` | `DefaultOfAll` | a session's goal serves as the directory's default |
| `NamedWhileWatched` | `NewGoal` | `NewGoalUnbound` | the goal's session is not bound to it |
| `EndsOwnTurn` | `OwnEntry` | `AnyEntry` | the default goal qualifies, too |
| `Derived` | `Start` | `StartRegistered` | a start re-arms registered projects only |
| `EntryComesBack` | `CreateAutoGoal` | `CreateOnce` | a goal that is found needs no resync |
| `Delivery!TypeOK` | `AddItem` | `AddItemAhead` | stamped with the version after the bump's |
| `BaselineHonest` | `Note` | `NoteLatest` | the version noted is not that of the delta printed |
| `BaselineHonest` | `Hear` | `HearRows` | a delta has no removals |
| `NextHookAsks` | `EditItem` | `EditItemUnmirrored` | an edit without a resync |
| `EditsHeard` | `EditItem` | `EditItemUnmirrored` | an edit without a resync |
| `PtySession!TypeOK` | `Evicted` | `Uncut` | the ring is never cut |
| `ImplementsStream` | `Pushed` | `PushedSkipping` | a viewer past its cap misses a chunk and is kept |
| `NobodyWaitsInVain` | `OnClose` | `Silently` | a close does not notify |
| `SeesItThrough` | `OnPush` | `Silently` | a push does not notify |
| `SeesItThrough` | `OnClose` | `Silently` | a close does not notify |
| `TerminalClient!TypeOK` | `HasIds` | `Unchecked` | the next id overflows |
| `NeverReused` | `Persisted` | `LastGiven` | the id handed out is persisted, not the one after |
| `Reachable` | `MayLock` | `IgnoringLock` | whoever comes may serve |
| `ExitsEmpty` | `Touched` | `Untouched` | the idle clock is not reset |
| `Heals` | `Removed` | `LeftLying` | a stale socket is left lying |
| `EmptyGoes` | `HelloTimesOut` | `NeverTimesOut` | no deadline for the hello |
| `SurvivorsListed` | `Unknown` | `AssumedDead` | a census that fails is an empty one |
| `OnceOnly` | `GivesUp` | `Resends` | a request sent and not answered is sent again |
| `AnswersMatch` | `GivesUp` | `Keeps` | a connection that owes a reply is kept |
| `CallsEnd` | `TimesOut` | `NoDeadline` | no deadline for replies |
| `ImplementsService` | `Finished` | `Anyway` | what `finish` returns is not looked at |
| `PaneViews!TypeOK` | `Forgets` | `Remembers` | an attachment that ended stays registered |
| `OneFeed` | `Replaced` | `Nobody` | attaching does not release the old attachment |
| `NotCutOff` | `TokenFits` | `Whatever` | a detach does not look at its token |
| `LetGoIsNotEnd` | `FlagStep` | `AfterShutdown` | the flag is set after the socket is shut |
| `SeenTo` | `LetsGo` | `JustDrops` | a token that comes after the unmount is dropped |
| `SeenTo` | `Hears` | `AttachedOnly` | the exit event counts only once the token is there |
| `LearnsEnd` | `Hears` | `AttachedOnly` | the exit event counts only once the token is there |
| `LetsItGo` | `LetsGo` | `JustDrops` | a token that comes after the unmount is dropped |

## 6. Not modelled

Of the terminals: keystrokes and the two questions that guard them (`try_cd`,
`prompt_pane`: a pane is asked what it runs and then typed into, two calls of the system's
with nothing of the code's in between), `foreground` and `resize` themselves, which shell
a pane of the panel opens or adopts (`shellFor`, `killShell`), and the in-process
variant for Windows (`app/terminal/local.rs`), a map under one mutex that survives
nothing. `PtySession`, `PaneViews` and `PtyDaemon` meet in the session's life and in nothing
else, so each has it at the grain it needs and they are not composed. Of delivery:
evidence captured before an edit and posted after it (the code stamps it at
posting time, by design), and a batch laid twice because its client timed out.
Of the marker: the v1 shape, goals moved to
another directory, a goal watched again (no caller in the repository), `arm`,
and the `.tmp` file of `instructed.json`, which hooks share as the core's
handlers share theirs (`cli/paths.rs:48-51` accepts it). Steps the model has
and no property speaks of, for nothing promises otherwise: a resync that ends
after a graceful stop arms the directory again, and so does any resync after a
disarm. The rest of the user interface, `init`, opening files and URLs and the wording of
messages keep no state of the system's and are left out for good.
