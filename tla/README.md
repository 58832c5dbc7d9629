# A TLA+ model of the rubberdux agent runtime

rubberdux runs agents.  Each *app* has a worker process, each worker holds one *session*, and a session
is a pure reducer over a value called the World: every user message, model response, tool result,
approval and control click is an input, folded by `tick` into the next World and a list of commands for
the shell to execute.  Around it stand a driver that logs and replays, a host that starts and evicts
workers, a broker between apps, a client that draws the World's surfaces, and an older agent loop that is
still in use.  The paths below are relative to the repository root (`src/agent/world/...`).

This directory models these parts, checks them with TLC on small instances, and proves with TLAPS, for every
value of the parameters, the safety properties section 5 lists.  The sections are: the inventory of the
system, the modules and how they correspond to the code, the runs and what they show, where documents and code
disagree, the proofs, what is left out, and the plan.

## 1. Inventory

### The World reducer (`src/agent/world`: world, gates, budget, history, inputs, effects, systems/*)

*State.* The World: per entity (the primary agent and its sub-agents) a history, an activity
(`Idle`, `Thinking`, `ResolvingToolUses` with one slot per tool use, `Compacting`, `Cancelling`), a gate,
a budget, an inbox, counters and a lineage; world-wide a gate, the approval policy, the requests raised
to the operator, the peer envelopes already applied, and the id allocators.

*Operations.* Sixteen Systems run in the order of `PHASE_ORDER` on each input.  Lifecycle: gates,
cancellation, refusal guardrail.  Intake: park a message or start a turn.  SettleResults: close a turn or
open its slots.  BudgetCompaction: fold usage, halt at the spend limit, compact the history.
TurnAdvance: approval policy, local tools, human actions, approvals, sub-agents, supervision, peers.
Surfaces come last and touch none of the above.

*Interaction.* Systems share the World and run one after another; the shell answers commands with
inputs that carry the command's id.

*Hard behaviour.* Answers come in any order, after cancels, pauses and policy changes; a late answer
must not be taken for another's; a turn must continue when its last slot settles, whichever System
settles it; ids come from an allocator each System must store back.

*Correct means:* an entity waits exactly for the answers it is owed; each answer settles only what asked
for it and once; a closed gate starts nothing; a held tool runs only by its approval; messages enter the
history once and in order; spawns stay below their caps; every turn and every cancellation ends.

### World driver, log, snapshots, replay (`driver.rs`, `event_log.rs`, `snapshot.rs`, `replay.rs`, `resume.rs`)

*State.* A World, the event log (appended before an input is folded), dispatch records, an optional
snapshot, and the logical clock.  *Operations.* `submit`, `drive_to_quiescence`, `open` (restore the
snapshot, fold the events after it, reconcile commands without an answer), `maybe_snapshot`, replay.
*Hard behaviour.* Crashes between an append and the fold, between a dispatch record and its result, or in
the middle of a batch whose results share one tick.  *Correct means:* after `open` the World is the one the
log determines, no command is executed twice and none is forgotten.

### Segments, blobs, branches, reclaim (`segment.rs`, `blob.rs`, `branch.rs`, `retention.rs`, `reclaim.rs`)

*State.* Log segments in a hot and a cold tier with a manifest, content-addressed blobs, branches that
share a prefix of their parent's log.  *Hard behaviour.* A crash between the steps of a roll or a move; a
sweep that takes what a restart or another branch is resolved through.  *Correct means:* what is loaded is
what was written, and nothing reachable is deleted.

### Surfaces (`surface.rs`, `systems/surface.rs`, `src/gateway/surface_session.rs`, the client's drive
controller)

*State.* The versions of one surface in the World and at the client, queues of edits, drives, echoes and
observations between them, the sink of the newest connection.  *Hard behaviour.* A person and the model
write at once; queues that are full drop; connections end late.  *Correct means:* each accepted write is
recorded once, and the World knows what is on the screen unless something was dropped on the way.

### Legacy agent loop (`src/agent/runtime`)

*State.* A conversation, running background tasks, queued user input, groups of tool calls that wait for
their tasks.  *Operations.* a `select!` over cancellation, user input, turn events and finished tasks.
*Hard behaviour.* Input that arrives while a turn is running; tasks that finish after their turn; a
compaction or a crash between a request and its results.  *Correct means:* messages keep their order,
each call has its result, each reply goes to the channel that asked, and the loop comes to rest.

### External agents (`src/agent/external`, `src/tool/agent.rs`, the VM's accept loop in `src/host.rs`)

*State.* A process of another coding agent, beside the host or in a VM, an interaction queue with one
waiter per question, a bridge between them.  *Hard behaviour.* Ids that coincide, sockets accepted by
another agent's task, answers that have nowhere to go.  *Correct means:* a question is neither dropped nor
answered twice, an answer reaches the agent that asked, and its task ends.

### App supervisor and worker lifecycle (`src/app/supervisor.rs`, `src/app/runtime`)

*State.* Per app a handle, a lifecycle (`Live`, `Tombstoned`, ...), an inbox and a resume record.
*Operations.* start, restore on demand, crash and restart with a budget, suspend, sweep.  *Hard
behaviour.* The sweeper collects the apps it may evict under the lifecycle lock and tombstones them after
releasing it, so a message, a peer envelope or an answer may be on its way; restores race tombstones.
*Correct means:* an accepted message is delivered or the caller told; at most one worker per app.

### Peer broker, directory, mailbox (`src/host.rs`, `src/app/peer`)

*State.* The directory of peers, a durable inbox per app with its acknowledged prefix.  *Hard behaviour.*
Redelivery after a crash of either side, acknowledgements that are late or lost, two processes that
rewrite one file.  *Correct means:* each envelope is applied at most once and not lost once accepted.

### The rest

Registry, identity and merge (`src/app/registry`, `src/app/identity`, `src/app/merge`): file-backed
records and a clustering heuristic.  Gateway (`src/gateway`): HTTP and websocket routes over the
supervisor.  Channels, providers, tools (`src/channel`, `src/provider`, `src/tool`): calls to external
services.  Guardrails, mindset, trajectory, workspace: prompts, text checks, records.  VM, child
process, protocol: process control and message formats.  The macOS app, md-testing and xtask: a client
and developer tools.

`PROJECT.json` lists every component with its status, and under `hazards` the places of the code where
something can go wrong that a test would hardly reach.

## 2. The modules

| module | models | kind |
|---|---|---|
| `World` | the World value, what Systems read of it and the ways they change it | constants, types, `Put`, `Mint`, `Emit`, `Dispatch`, `Settle`, `Think` |
| `Systems` | one operator per System, the phases, `Tick` | pure operators |
| `TurnMachine` | the reducer under its whole input alphabet: one action per `LogicalInput` | state machine |
| `Replay` | the content-addressed replay of a log through `Tick` | recursive operators, used by the session's runs only |
| `Session` | the worker session: log, fold, dispatch, results, snapshots, crash, open; it calls `Tick` | state machine over the reducer |
| `AppendLog` | an append-only log that keeps its contents | abstract specification |
| `Segments` | hot and cold segments, manifest, blobs, crash between any two steps; implements `AppendLog` | state machine with a refinement |
| `Branches` | fork, persist, load, drop, pin, the sweep with its grace | state machine |
| `Supervisor` | one App: concurrent calls, supervision task, pump, accept router, workers that crash | state machine with program counters |
| `PeerDelivery` | queued and live delivery to one App by concurrent relays and drains | state machine with program counters |
| `AgentLoop` | the legacy loop with its queues, groups, background tasks, eviction, crash and reload | state machine |
| `Surfaces` | one surface between client, host router and World | state machine |
| `ExternalAgents` | sessions beside the host and in VMs, the interaction queue, the accept loop | state machine |
| `TurnMachineProofs` | types, id freshness, gates, approvals, and who waits for whom in the reducer, for all parameters | proofs |
| `SegmentsProofs`, `BranchesProofs`, `SupervisorProofs`, `PeerDeliveryProofs`, `SurfacesProofs`, `ExternalAgentsProofs`, `AgentLoopProofs` | the safety properties of these machines, and the refinement of `AppendLog` | proofs |
| `MCTurnMachine`, `MCSession`, `MCBranches` | the tool plans, scripts and branch plans the runs use | model checking |

`Session` composes `World`, `Systems` and `Replay`; the other machines stand alone and meet at an interface
each models as its environment: `Supervisor` sees a worker as a process that dials, works and dies,
`PeerDelivery` sees a worker as a log of envelopes, what it applied of them, and an acknowledgement in flight,
`Surfaces` sees the World as the versions it has folded.

### World, Systems, TurnMachine

**Correspondence.**  A System maps a run `r = [w, out]` (the World so far, the commands so far) and the
one input of the tick to the run after it; `Tick` composes them in `PHASE_ORDER`.  `Tick` returns a
singleton set: a set is what lets TLC evaluate each System once instead of once for each use.  An entity is
a record with the fields of `Components` that some modelled System reads, its activity flattened into
`act`, `awaits` (the command or commands waited for), `turn` and `slots`.  `SlotState::Pending{cmd: None}`
is `"fresh"`, `Pending{HELD_CMD}` is `"held"`, `Pending{Some(c)}` is `"sent"`.

**Abstractions.**
- A message is its role and the id of what produced it.  Its text never decides anything in the reducer.
- A tool_use id is the pair of the model call that asked for it (`turn`) and its ordinal: providers give
  each tool use an id of its own, and the code looks slots up by that id.
- A drive_peer call whose arguments do not parse is the slot kind `BadPeer`: the only thing the reducer
  does differently is to settle it at once.
- Ids are natural numbers.  `CmdId` and `EntityId` are 32 bits wide; 2^32 commands of one session are out
  of reach, so wrapping is not modelled.
- The per-entity pause holds of `EntityGate` are written by no code, so an entity's gate is its `halt`.
- Limits other than 0 belong to the primary entity only, as in `genesis_world` and `Budget::default()`;
  the genesis of a production session sets all of them to 0 (unbounded) but the depth cap.
- `RaiseInteraction` and cancels are commands the live shell ignores; a cancel command marks the command
  it cancels (`stop`), because only such a command may be answered by `ToolAborted`.

**The environment.**  The shell owes an answer to every work command and gives each one answer, of any
outcome the code of the shell or of `replay.rs` produces, at any time and in any order.  Users, peers
and control inputs come at any time.  `WorldDriver` holds `&mut self` while it drives a batch to
quiescence, so its worker delivers control inputs between batches; inputs that interleave with answers are
the contract of the reducer (`docs/agent/world/ecs-runtime.md`), which its Systems and tests are written
for, and `TurnMachine` checks that contract.  `drive_live` answers no `RunTool` but `set_value`, and no
`RequestHumanAction`; in the model every command is answered sooner or later, and a turn that waits for
such a tool in production waits for ever.

### Session and Replay

The state is the log (inputs, dispatch records, results, each with its tick), the snapshot, the World in
memory, the commands of the batch at hand and the worker's place in it.  Each write is an action, so a
crash falls between any two; `Tears` lets it cut a line, `MayFail` lets an append fail.  `open` restores
the newest snapshot, folds what follows, reconciles the commands without a result and issues what may be
issued again; when it fails the host gives the session up and starts another, as `worker.rs` does.
`RunTool` stands for `set_value`, the one tool the live driver performs.  `SnapshotSpoils` stands for a
snapshot whose digest does not validate and for one that was pruned.  `ReplayIsFold` leaves
out logs with peer sends, which `replay_world` cannot replay beside tools.  The passing run's plans have
one slot, because a snapshot between two results of one batch loses the second (`SnapshotSplit`).

### AppendLog, Segments, Branches

`Segments` models `segment.rs` and `blob.rs`: append with a blob before the line that names it, roll, move to
cold in the steps copy, manifest, delete, and the sweep of blobs.  The refinement maps the segments the
manifest lists, sorted by their first ticks, to one sequence.  A sweep is taken to run while no result is
being logged, and `PersistFails = FALSE` in the run, because a manifest write that fails leaves memory ahead
of the disk (section 4).  `Branches` models forks of the main line and of forks, persisted line by line, and
the sweep of `reclaim.rs` with its grace; times are ticks of a bounded clock.  Its properties speak of a
branch that was forked once under its name: to persist a branch again duplicates its tail.  A branch whose own
tail was swept is still described and loads as its bare prefix, so `LoadNeverLies` says of it only that what
loads is a prefix of what was forked.

### Supervisor

Every call (a message or an answer through `ensure_active`, a suspend, a sweep) is a small process with a
program counter that stops wherever the code awaits or releases a lock; so are the supervision task, the pump
of a worker's frames and the accept router.  What is one step: the route, the sink and the task of
`start_worker`; unregister and persist of a tombstone; the two locks of `capture_interaction`.  The backoff is
part of the time before `SpawnChild`, and `CONNECT_READY_TIMEOUT` of `Clear`.  A child that ends before its
Hello was accepted is taken not to have dialed.  A half-read frame is lost, and its connection is dead. Calls
take the lowest free slot, which only removes symmetric copies.  The ghost `overlapped` marks that a start ran
while another start or stop of the same App was under way; `OneWorker` and the records' half of it exclude
that case, which section 4 describes.

### PeerDelivery

Two processes, each a relay of a live drive or a drain of the inbox, enqueue, send, wait for the
acknowledgement with a timeout and rewrite the file without what was delivered.  Reading the file and
checking the cap are one step with the decision taken on them; the write is another, so two processes may
overlap (ghost `raced`), and the rewrite truncates before it writes, so a crash may tear it (ghost `torn`).
Envelopes are numbered in the order they are first sent; `Left` of them are in the inbox when the host starts.

Frames go into the channel of the worker (`OUTBOUND_CAPACITY` is `FrameCap`), and who finds it full waits: a
relay with nothing held, a drain with `runtimes` locked (`Locked`).  The pump empties the channel, and takes
the same lock to record a question of the worker (`Captured`).  The receiver appends *each* envelope to its
World log, redelivered ones too (`log` counts the entries), and drops a repeated one only when it is folded
(`Applied`), by the envelopes already applied; a World opened again folds the whole log (`Replayed`).  Append
and fold are one step, because a crash between them ends as one after both.

What the model makes simpler: the start of a worker is one step, though the sink is registered before the
handle; a stop waits for room in the channel with the handle still there, though the code has removed it and
the senders of the old channel wait on; the envelopes are authorised.  A question counts as a fault
(`MaxFault`), only to bound it.  The relay of plain messages, the self-address gate and the directory's listing
are left out.

### AgentLoop

One action per arm of the `select!`, in its biased order, and one per step of the turn driver, the tool wave
and the task coordinator.  Two tasks may have one id, made of a millisecond clock (ghost `clash`); an entry
may be persisted without those that follow it (ghost `gap`).  The tasks of one turn may be of both kinds.  A
reply that ends its turn may hold tool calls: they are pushed with it and never run (`Answer`), as for a
finish reason "stop" with calls.  An entry and its newline are two writes: `tail` says how the file ends, and
what is appended to a line without its newline, or to a part of a line, is glued to it and dropped by the
reload with it (`WriteLine`, `WriteCut`).  A newline that a write still buffers when the process dies is the
tail "whole" too.  A group is named by the call that opened it; a reload numbers the entries anew.  The
queues' capacity of 32, `UpdateEntryContent`, `UpdateSystemPrompt`, channel processors, trajectory records and
the exit of `run_to_completion` are left out.  A sub-agent's task may die without an answer, which also stands
for an external agent that waits for an answer it will not get.  Cancellations and crashes share the bound
`MaxFault`.

### Surfaces

The relay stages between the gateway, the host and the client are merged into first-in first-out queues that
may drop.  The client is external and modelled from how the gateway uses it and from
`SurfaceDriveController.swift`.  A `set_value` call carries a list of ops: all of them are driven, the client
takes them one by one, and one stale op rejects the call whole (`Accepts`); `refused` remembers the ops of
rejected calls.  The calls of one response are judged against the version it began with and their answers
folded together, with no input of the World between them (`answers`), because inputs wait for the driver.  A
crash of the worker is modelled in `Session`.

### ExternalAgents

The queue, its waiters, the sessions, the tasks of VMs with the sockets they accept, and the agents.
Resolving a question and waking its waiter are one step, and so are accepting a socket and reading its first
frame. A Codex agent beside the host goes on after its Completed or Failed event (`"reported"`), and what it
sends then meets a closed channel (ghost `late`).  A VM may never connect (`"absent"`), and its task then
accepts for ever. A socket may break (`Breaks`); the half frame that the `select!` at `child.rs:200` may drop
mostly ends the agent so, and that it swallows one answer and goes on is not modelled.  Bytes sent before a VM
is destroyed are delivered.  An answer by button and one by `interaction_respond` are one action.  Nothing
cancels these agents in production, so no action does.  The agents are external: one asks, waits, and ends in
the end when it waits for nothing.  The ghosts `clash`, `swapped` and `lost` mark two open questions with one
id, two tasks that accepted each other's socket, and an answer without a receiver.

## 3. The runs

Passing runs, each at the bounds of its `.cfg`:

| run | question | bounds, and why they are enough |
|---|---|---|
| `Gates` | Cancels, pauses, refusal and budget halts, compactions and a changing approval policy around a turn with two tools | inbox of 1 with 3 messages overflows; spend limit 3 with usages 1 and 2, loop cap 2 and context limit 2: halts fall in every phase; 3 controls of five kinds; six commands: two turns and what halts them; the second plan's child is denied by the depth cap; no child is born, so a birth behind a closed gate is left to the theorem |
| `Children` | Nested fan-out below the cap, failing and late children, malformed and redelivered drives | depth 2, fan-out 2, plans of two spawns: the fan-out cap denies in some behaviour (the depth cap needs more commands, and denies in `Gates`); one envelope delivered again; no compaction and no bound on the inbox here |
| `Session` | The driver over the reducer: crash at any write, torn lines, failed appends, snapshots, open, replay | 2 inputs, 4 commands, 2 faults, a snapshot after 2 records: a fault during the recovery from a fault, with and without a snapshot; the context limit is 0, as in production, so nothing is compacted |
| `Segments` | Roll, tiering, blobs and sweeps with crashes | 4 events and 2 crashes: two rolls, and a crash in the recovery of the first |
| `Branches` | Forks of forks while the main line grows and sweeps pass | a chain of two forks, from the second event of the line, so a prefix is not empty; grace 1 with a clock of 1: a branch within its grace and after it |
| `Supervisor` | Two calls, the tasks of several generations of a worker, a full queue | 2 calls, 1 question, queue of 1, 2 supervision tasks, 3 calls or crashes in all: a start, its crash and what overlaps the restart |
| `PeerDelivery` | Two relays or drains of one inbox, lost and late acknowledgements, crashes | 3 envelopes over a cap of 2: the inbox overflows; one is there from an earlier run and the channel holds one: a drain meets a full channel; 2 operations, which overlap, and 2 faults: a question under a full channel, or a crash after a redelivery |
| `AgentLoop` | Input, tasks, turns, eviction, cancel, crash and reload | token budget 3: each turn may evict; 2 messages, 2 calls, 2 tasks of any kinds, 1 context update, 1 fault: a crash cuts a line; a second one after a glued line is left to the theorem |
| `Surfaces` | A person, the model and a client that comes and goes | 2 edits, 2 ops in one call or two, each on the version the model has or on none, 2 connections, 1 foreign write: a late disconnection after a reconnect; a call of which one op is stale and the other lands |
| `ExternalAgents` | Two agents in VMs, one beside the host, ids that coincide | 2 ids for 2 questions: two clash; two isolated agents: their sockets may swap; a question before and one after a reported end |

The last column names the constants of the cfg: each bounds a counter in a guard (`MaxCmd`, `MaxMsg`,
`MaxControl`, `MaxInput`, `MaxFault`, `MaxOps`, `MaxTask`, `MaxEnv`, `MaxEdits`, `MaxAsks`,
`MaxConn`, `MaxOther`, `MaxAsk`, `MaxEvents`, `MaxCrash`, `MaxMain`, `MaxFork`, `MaxNow`, `MaxMutate`,
`MaxContext`, `MaxCalls`) and nothing else.  Each action fires in some passing run.
`CHECK_DEADLOCK FALSE` in all of them: a system with nothing owed and no input left is at rest.

The properties (`TypeOK` apart):

- *Reducer.*  `WaitsMatchOwed`: an entity's awaited commands are exactly those the shell owes it ("no waiting
  state is a sink" and "no answer lacks a taker").  `HeldIsRaised`, `ApprovedBeforeRun`: a held slot and its
  request live and die together, and under a policy a tool runs only in the step that takes back the request
  of its own slot. `ClosedGateStartsNoWork`: with two exceptions the code makes (the continuation of a
  compaction, a tool the operator accepts) a closed gate emits no command, for an entity or for a child of it
  that is born.  `IdsAreMinted`: every id in use is behind its allocator. `WorkingChildIsAwaited`,
  `ToolResultsFollow`, `MessagesKeepOrder`: no orphan while nothing is cancelled, results follow their
  request, messages are taken once and in order.  `CancelSettles`, `TurnSettles`: cancellations and the root's
  turns end.
- *Session.*  `WorldIsFoldOfLog`: at rest the World is the fold of the log from genesis, also when it was
  restored from a snapshot.  `EffectsAreOnce`, `EffectsAreAccountedFor`: no effect but a compaction is
  performed twice, and a performed one has its result in the log once the session is at rest.
  `ReplayIsFold`: a replay of the log, which reuses recorded results by content, ends in the same World.
  `ComesBack`: a session that is down or at work comes to rest.
- *Log.*  `LoggedBlobsAreStored`; `ImplementsLog`: segments, tiers and crashes implement an append-only log.
- *Branches.*  `LoadNeverLies`: what loads under a branch's name is the line that was forked, or the bare prefix
  of it once the branch itself was swept.
  `RootsAreKept`: the sweep takes nothing that a pinned or open branch is resolved through.
- *Supervisor.*  `RouteIsNewest`: the newest worker's connection stays routed to its task
  whatever older tasks still do.
  `InteractionsAreKept`: a question survives the suspend and restore of its App.  `OneWorker`: one worker, and
  truthful records, unless a start overlaps another call.  `StoppedIsGone`: a stopped worker's process ends.
- *Peers.*  `DeliveredMeansFolded`: a message is put into the agent's inbox once, however often it is
  delivered, logged and replayed, and one whose sender was told Delivered is in the receiver's log and World.
  `AcceptedIsKept`: the inbox stays within its cap without duplicates, and an accepted envelope is in the
  file, in the log or about to be written back, but for the two races named.  `RelaysEnd`: relays and drains
  end, unless the channel is stalled for ever: full, and no worker connects or its pump waits for the lock of
  the drain that waits for room.
- *Agent loop.*  `MessagesKeepOrder`, `ReplyGoesToAsker`, `CallsAreAnswered` (a call the loop ran stays next
  to its results through evictions, crashes and reloads; the calls of a reply that ended its turn have none,
  section 4), `SuspendedForTasks` (the loop waits for tasks exactly while a group is open),
  `MessagesAreHeard`.
- *Surfaces.*  `OneFactPerWrite`: each accepted write is one fact of the World, in order.  `ScreenIsKnown`:
  where the screen and the World's record of the writes without a base version differ, the write is on its
  way, a queue dropped it, or the model was told that its call failed.
- *External agents.*  `RequestIsKept`: a question stays pending until it is answered, but for one asked beside
  the host after the end was reported.  `QuestionsAreReleased`: an agent in a VM gets its answer in the end.
  `TasksEnd`: the task of a VM that connects ends.

Several of them carry an exception, a ghost variable set by the one race the code leaves open; section 4
lists the races.  A property with an exception says that nothing else breaks it.

**Fairness**, and what in the code justifies it:
- `TurnMachine`: the shell answers (`drive_to_quiescence` loops while commands are left), children return
  (`settle_returned_children` in the same loop), the operator answers a raised request.  Each is one
  disjunction, fair to answering something; the number of commands is bounded, so each is answered.
- `Session`: the worker keeps taking steps, and the host opens a session that is down.
- `Supervisor`: each call, the supervision task or pump of each generation and the accept router, all
  tasks of a runtime, take the next step when they can.
- `PeerDelivery`: each of the two processes takes its next step, the pump gets the lock when it is free, and a
  connected worker's bridge reads (a pump that can write again and again does); a worker need neither connect
  nor answer.
- `AgentLoop`: the loop steps, the model answers each request (the client has a timeout), and a task ends.
  The last is an assumption about the environment: a background command has no timeout.
- `ExternalAgents`: the handlers, accept loops and queue take their steps, and a child connects or returns;
  and, of the environment, every pending question is answered in the end and an agent that waits for nothing
  ends.

Nothing is assumed of users, controls, edits or faults.

For each property `PROJECT.json` names a change of the model, in the way a plausible bug would change the
code, under which the run finds it violated.

## 4. Where the code and its documents disagree

Two runs check one property each and find it violated by what the code does; `PROJECT.json` quotes the lines.

| run | a document or comment says | the code does |
|---|---|---|
| `SnapshotSplit` | restore is byte-identical to a full replay from genesis (`replay.rs:308`) | the results of a batch share a tick; after a snapshot between two of them restore skips the second, and the turn waits for it |
| `AnswersLost` | an answer by button is forwarded to the bridge (`external/mod.rs:441`) | for an agent beside the host the sender of its answers is dropped at once (`tool/agent.rs:408`, `:464`), and the task is given one whose receiver is dropped (`builder.rs:270`) |

The rest was met while modelling.  What the models take from it is said with "model".

*Reducer.*
- `cancel.rs` does not match `PeerSendOutcome`, though a comment there says that a cancellation always
  empties `awaiting`: the entity stays `Cancelling`.  (Model: `Gates` sends no peer drives.)
- Nothing looks at a turn suspended by a gate when the gate opens, and an idle entity's message behind a
  closed gate is in no inbox, though the documents say that the continuation and the message wait.
- A cancelled child is returned to its parent as a success; a cancelled turn leaves tool uses without
  results in the history; cancelling a parent neither cancels its children nor waits for them.
- Only a new user message looks at the loop cap.  A compaction may cut between a request and its results.
- `compaction.rs` continues a suspended turn whatever the gates say, and the compaction of a history of one
  message summarises all of it.  `ClosedGateStartsNoWork` names the first.
- An entity halted at its spend limit has all slots settled and stays `ResolvingToolUses`.
- `turn.rs:44`: a response that stops for tool use without a tool use opens a turn with no slots, which
  nothing advances.  (Model: `stop = "ToolUse"` needs a plan.)

*Session, log and replay.*
- A crash between the log of an input and its dispatch records leaves a command that is neither: `open`
  fails and the session is replaced, though `event_log.rs` calls that crash recoverable.
- A torn last line makes the whole log unreadable.  A `SendPeer` cut by a crash is never issued again.
- An error in `drive_live` after some results were logged returns before they are folded.
- `history_emitted` is an index into a history that a compaction shortens.  Compaction itself never starts
  under the live driver.
- `replay_world` cannot replay a log that mixes peer sends and tools; `boundary_index` ignores `SendPeer`.
- The worker's queue, when full, drops messages silently.

*Segments and branches.*
- A manifest that cannot be written leaves memory ahead of the disk; a move to cold cut by a crash fails for
  ever after; `reclaim_blobs` ignores the tails of branches and may run between the put of a blob and the
  line that names it; retention counts snapshots it cannot read as kept.
- `reclaim.rs` says the parent of any retained branch is retained, but a dead parent of a branch kept for
  its grace is swept.  The branch is still in the index and loads silently as its prefix.  (Model:
  `LoadNeverLies` excepts its tail.)
- Persisting a branch again duplicates its tail and resets its pin and tombstone; a fork's id always uses
  the main line as parent; `Replace` drops every event that shares the tick.

*Supervisor.*
- Two concurrent restores start two workers; a tombstone that waited out its grace overwrites the record
  of a restored App and may remove the restore's sink; the resume file is loaded and cleared without a
  lock; the sweeper's list is stale when used.
- `turn_in_flight` is a boolean, and the end of one turn clears the mark of a message queued behind it: the
  App may be evicted at work, which `lifecycle.rs:73` excludes.
- `send_frame` is awaited under the lock on the runtimes; with a full queue the pump waits for that lock.
- `read_message` is not safe to drop in a `select!`: half a frame is lost.  The accept router waits on one
  full inbox or silent socket, and a dead stream of an earlier run may end the next.
- A failed write of a tombstone leaves a zombie record; a suspend waits for room for ever; a question raised
  without a handle is dropped; a crash of the host loses pending questions; dropping a handle does not
  end its task, which the comment at `local_supervisor.rs:801-804` says it does.

*Peers.*
- `mailbox.rs:203` says the inbox is never truncated up front; the rewrite at `mailbox.rs:241` truncates and
  then writes, so a crash loses the remainder, and an envelope enqueued meanwhile is lost.
- A drain sends into the bounded channel with `runtimes` locked, though the comment at
  `local_supervisor.rs:516-518` has the lock released before the wait "so the pump is never blocked": with a
  full channel and a question to record, drain and pump wait for each other for ever, and a worker that never
  connects stalls the drain as well.  (Model: `Stalled`.)
- A relay that finds its channel closed removes the App's sink, which may be that of a newer worker.  (Model:
  `Closed`.)
- The cap is checked before the enqueue; a second waiter for one envelope replaces the first; an envelope
  queued for a live worker stays until the next restore; a live relay may overtake a queued one.
- The acknowledgement follows the whole `submit`, so a turn of more than five seconds is reported Queued;
  `WorkerPeerSender` reports Queued though its channel was full; equal content has equal fingerprints and is
  dropped as a duplicate; ids of older envelopes may collide; `touch` admits a stopped peer again.

*Agent loop.*
- Task ids are a clock in milliseconds (`tool/mod.rs:148`): with two tasks of one id a group never completes.
  A task that dies leaves the loop `Processing` for ever.
- An eviction may take the message being answered; a crash between the entry with calls and the entries of
  their results makes the session unusable; a rejected reply is not persisted; an updated entry is
  duplicated on reload; the continuation of a group neither compacts nor counts tokens; a result without a group
  starts no turn; a cancel is not looked at before the pending input is taken.
- A reply with a finish reason "stop" is pushed with the calls it holds and ends its turn
  (`turn_driver.rs:172`), so the next request has calls without results.  A crash between an entry and its
  newline (`history_store.rs:55-61`) glues the next entry to it, and a reload drops both.  (Model: `Answer`,
  `WriteCut`.)

*External agents.*
- `with_input_port` is called by nothing, so a question never enters the conversation, which
  `external/mod.rs:367` says it does; those of agents in VMs are not announced at all; the drive loop of an
  agent beside the host spins on its closed channel.
- Two agents started together may be accepted by each other's task (`host.rs:1412`), which then reports the
  other's result and destroys a VM at work; `docs/app/runtime/worker-lifecycle.md:89` asks for accepts by
  identity.
- Codex's Completed and Failed do not end its session (`codex.rs:334-365`), but the task drops the receiver of
  its events at the first of them: a later question is remembered by the driver and told to nobody.  (Model:
  `late`.)
- `run_child` may return before it connects, and `run_child_vm` accepts without a timeout: the task waits for
  ever, and the comment at `host.rs:1388-1389` already speaks of an accept that hangs.  (Model: `"absent"`.)
- Request ids coincide across sessions; the questions of an agent that ended stay pending for ever, and the
  guardrail then asks for a retry of each reply.

*Surfaces and gateway.*
- Two calls of one batch on the same base are both answered as successes, and the fold rejects the second; a
  call of an accepted and a stale operation is rejected whole though the client applied the first, while the
  comment of `surface_tool_result` (`surface.rs:550-552`) says that the surface is left unchanged (model:
  `refused`); a dropped drive is answered as a success; a based write may land over an edit the World had not
  heard of.
- The client's counter of versions counts only accepted drives, the World's also edits, and the reporter has
  a third, though `SurfaceDriveController.swift:135` says they advance together; the version may go back.
- The end of an old connection removes the sink of a newer one; `unregister_worker` is called by nothing;
  a peer's operations on a surface never reach the screen.
- The board's badge count goes to 0 on any resolution; a lagged receiver drops events.

## 5. What is proved

TLAPS checks eight modules of proofs.  Each proves an invariant of its machine for every value of the
constants: any number of events, calls, processes, branches, agents and faults, and any bounds.

| module | theorems | assumes |
|---|---|---|
| `TurnMachineProofs` | `TypeCorrect`, `IdsMinted`, `HeldAreRaised`, `WaitsAreOwed`, `GatesHold`, `RunsAreApproved` | `LimitsAssumption`, `AlphabetAssumption`; `WaitsAreOwed` also `~ PeersCancelled` |
| `SegmentsProofs` | `BlobsAreKept`, `EventsAreKept`, `LogIsImplemented` | `SegmentsAssumption`, and `~ PersistFails` |
| `BranchesProofs` | `ForkIsLoaded`, `SweepKeepsRoots` | `BranchesAssumption` |
| `SupervisorProofs` | `TypesAreKept`, `NewestIsRouted`, `InteractionsSurvive`, `WorkerIsOne` | `SupervisorAssumption`, `QuestionsAssumption` |
| `PeerDeliveryProofs` | `TypesAreKept`, `DeliveryIsFolded`, `AcceptanceIsKept` | `PeerAssumption`, `ProcsAssumption` |
| `SurfacesProofs` | `WritesAreOneFact`, `ScreenIsAccountedFor` | `SurfacesAssumption` |
| `ExternalAgentsProofs` | `QuestionsAreKept` | `IsolatedAssumption`, `NoAgentAssumption` |
| `AgentLoopProofs` | `TypesAreKept`, `MessagesStayInOrder`, `RepliesGoToAsker`, `CallsKeepResults`, `SuspensionIsForTasks` | `AgentLoopAssumption` |

The assumptions say that bounds are naturals, that the names of processes, questions and agents are no word
the machine uses for something else, and that the branches are closed under their prefixes: a branch is
forked from one that may exist.  Two theorems have a condition on the code.  `~ PersistFails`: after a manifest
write that failed, `seal_and_roll` goes on in memory with a segment no manifest names, and a crash then
loses the events in it (section 4).  `~ PeersCancelled` says that no plan drives a peer or that
no control cancels: the outcome of a cancelled peer drive is matched by no System, so without it
`WaitsMatchOwed` is false of the code (section 4).  Both reducer runs satisfy it: `Gates` cancels and drives no
peer, `Children` drives peers and cancels nothing.  A deployment that does both is outside `WaitsAreOwed`, and
inside the five other theorems.

None of the invariants is inductive by itself.  Each module states its inductive invariant `IInv` as a
conjunction of named parts, proves one lemma for each action, and combines them.  TLC found `IInv` to hold at
the bounds of the machine's run (Surfaces has 9,796,177 distinct states there, AgentLoop 2,895,068, Branches
1,920,138, PeerDelivery 1,007,752, Supervisor 688,616, the reducer 268,552 under `Gates` and 162,227 under
`Children`, with `Waits` and `Clean` under both, ExternalAgents 106,194, Segments 16,737), so a failed proof
step pointed at the proof or at a missing part of the invariant.

- **`TurnMachine`.**  To know that a dispatched command is typed one must know that the entity it is for
  exists, that the child id in a slot was minted and that a parent is in the World; to know that an owed
  command's id stays behind the allocator one must know that no System moves the allocator back.  `GoodRun`
  says so of a run.  There is a lemma for each way a System changes a run (`PutGood`, `MintGood`,
  `DispatchGood`, `SettleGood`, ...), one for each System (`...SystemGood`: from a good run it `Leads` to
  a good run that forgets no entity and no minted id), one for each phase, and `TickGood` for their
  composition.  `RankType` is the arithmetic core: the ids minted for a set of slots are exactly the next
  `Cardinality` ones.

  `HeldAreRaised` and `WaitsAreOwed` rest on a second invariant, `Waits`, proved beside `IInv`.  `Sound` says
  that every owed command is one its entity waits for, by the rule of the state it is in (`WaitsFor`: the call
  of a thinking entity, the summary of a compacting one, the command of a sent slot by its kind, anything in
  flight for a cancelled one), that no two commands share an id, and that held slots and raised requests match
  (`HeldFor`); `Served` says the converse, that what is awaited is owed.  Neither is inductive alone: an
  answer is taken because its entity waits for that *kind* of command, and it changes nothing of what the
  others wait for only because ids are distinct.  The proof follows a tick through the chain of Systems: the
  input's first System to match takes the answer (`Takes`) and every later one finds it gone; Systems that
  dispatch add to both sides at once (`Linked`); a cancel turns waits for slots into waits in flight and takes
  the held requests back (`CancelFields`).  The invariant holds of every behaviour, peers cancelled or not:
  what a cancelled entity owes is then left open (`Heeds`), and it is only the last step to `WaitsMatchOwed`
  that needs `~ PeersCancelled`.

  `GatesHold` and `RunsAreApproved` are action properties, proved of each tick.  For the gates each System
  `Minds` them: it moves no gate, and what it emits is for an entity whose gates are open, or is exempt.  The
  Systems that do close a gate (the refusal, the spend limit) run before any that emits, so a System late in
  the tick never relies on a gate that an earlier one read open.  `RunsAreApproved` needs a third invariant,
  `Clean`: a turn that still has an undispatched tool is *untouched*, that is, none of its slots was
  dispatched, held or settled and none of its children was born.  Such a turn was planned behind a closed
  gate.  Tools of it would run without approval if a policy came later and anything advanced the turn; `Clean`
  says that nothing can, because every input that advances a turn answers something of that turn.  It holds on
  the strength of a flaw, that nothing looks at a suspended turn when its gate opens (section 4): code that
  resumes such turns has to hold their tools first, or this proof fails.
- **`Segments`.**  The open segment is the only one that grows (`ActiveIsLast`); what is recorded as cold has
  nothing hot (`ColdIsMoved`); the segments hold consecutive stretches of the log (`Consecutive`) in the order
  of their first ticks (`FirstsGrow`); the manifest in memory and the one a process would open name the same
  segments at the same tiers (`SameNames`).  A move in progress is of a sealed segment with its bytes in a
  tier at every step (`MoveIsSafe`).  So no event leaves the segments (`EventsAreKept`), every blob of an
  event is reachable when a sweep scans, and `load`, which sorts the segments by first tick and joins their
  files, returns the events in order: `LogIsLoaded`, from which the refinement `Spec => ImplementsLog`
  follows, because only `AppendEvent` changes the log and every other step is a stutter of `AppendLog`.
  `FirstsGrow` is needed for that alone: without it the sort might reorder what `Consecutive` tiles.
- **`Branches`.**  What a branch was forked with is its prefix digest, the tail on disk and what its writer
  still has to write, until the descriptor makes it known, and then the tail stays or is swept
  (`TailsAreForked`); nothing is on disk of a branch never forked.  `LoadIsForked` follows the recursion of
  `load` along the parents.  `SweepKeepsRoots` is an action property, proved of each step from the same
  invariant.
- **`Supervisor`.**  Tasks are started in order, and the newest is routed (`Routed`).  Unless `overlapped`,
  one call at most is starting or stopping the App, and `Stage` says, for each point where a call may be
  suspended, what the handle, the sink, the resume file and the pending interactions owe each other;
  `Live` tasks are the handle's or the call's.
- **`PeerDelivery`.**  What is acknowledged, or about to be, is in the log, and the World in memory has
  applied an envelope exactly if its log has it (`Folds`), which a replay preserves because `Applied` repeated
  is at most one; a waiter waits for what it is registered for (`WaitersWait`); unless `raced`, one process at
  most is going to write the inbox, which still is as that process read it (`OneWriter`).
- **`Surfaces`.**  A connection carries its own edits in order, the World's edits of a connection precede
  those it still carries (`InOrder`); a write of the agent is recorded or refused when it is driven, and one
  without a base is then on the screen, on its way or lost; an edit on the screen is recorded, on its way or
  lost (`ScreenIsTracked`).
- **`ExternalAgents`.**  The property itself with the types, and that nothing follows the end of an agent on its
  wire but late questions (`EndComesLast`).
- **`AgentLoop`.**  The four properties speak of the conversation in memory, and a crash replaces it by what
  the file holds, so the invariant must say the same of the file.  `KnownInOrder` holds of the messages heard,
  parked and queued at every point and not only between events; `FileInOrder` says that the messages in the
  file, or about to be appended to it, are among those heard and in their order, so a reload is a
  subsequence.  `Asker` carries the origin through the states in which no turn runs: a suspended loop and
  each open group still have the origin of the message heard last.  `WaitsForTasks` counts the tasks of a
  group exactly (unless two shared an id): it is what makes the last result, and no earlier one, continue the
  turn.  `Blocks` pairs calls with results in the history and in the file followed by what is unsaved (unless
  the file lost entries in its middle).  The lemma that carries it is `PairedCompacted`: an eviction cuts where
  a turn starts, and a turn never starts within a call's results.  `CompactedIs` reduces the eviction's
  arithmetic to that one fact, so the theorem holds for any estimate and any budget.

Where the definitions recurse over data (`Replayed` in `PeerDelivery`, `During` in `Branches`, `Loaded` in
`Segments`, `Within` in `AgentLoop`) they are recursive functions and not the operators of the community
modules: the provers can unfold the first and neither `SelectSeq` nor `SetToSortSeq`.  Facts about them go by
the least counterexample (`NatMin`) instead of an induction theorem; that the function `Within` names exists
at all is `RecursionExists`, proved the same way.

The ghosts of section 2 are in the statements: `RequestIsKept` speaks of questions without a clash of ids,
`AcceptedIsKept` of inboxes no two writers raced for, `CallsAreAnswered` of files without a hole, `OneWorker` of
starts that did not overlap.  Those
races are in the code, and in the behaviours the theorems quantify over; what is proved is that nothing else
breaks the property.

**What only TLC checks.**  Liveness under fairness (`CancelSettles`, `TurnSettles`, `ComesBack`, `RelaysEnd`,
`StoppedIsGone`, `MessagesAreHeard`, `QuestionsAreReleased`, `TasksEnd`), which the prover has no rules for.
Of the reducer, the three invariants named below.  The session: its properties depend on what the reducer does
with a log, through the recursive operators of `Replay`.  So `TypeOK`, `WorldIsFoldOfLog`, `EffectsAreOnce`,
`EffectsAreAccountedFor` and `ReplayIsFold` of the session, and `ToolResultsFollow`, `MessagesKeepOrder` and
`WorkingChildIsAwaited` of the reducer, stay with the runs.

## 6. What is not modelled

- Of the reducer: edges, timers and the clock; the models and policies an entity may override; the text of
  messages, summaries and prompts; trajectory and display projections.  They decide no property above.
- Registry, identity and merge: file-backed records with one writer, and a heuristic over text.
- Gateway: routes without state but their subscriptions; its surface sessions are in `Surfaces`.
- Channels, providers, tools, guardrails, mindset, trajectory, workspace: calls to services, texts and
  records.  What the modelled parts see of them is an answer, a failure or a delay.
- VM control, child process and message formats; the macOS app but for what `Surfaces` needs; the developer
  tools.

These, with the tests inside the source files, are more than half of the lines of the repository, which is why
the definitions here stand for about a sixth of them although most of the stateful runtime is covered.
Components are listed as *partly* modelled where some operation that changes state has no action; the note
of each names it.

## 7. Plan

Done: reducer, session, segments, branches, supervisor, peers, agent loop, surfaces, external agents.

Proved: types, ids, gates, approvals and waits of the reducer; segments with the refinement of `AppendLog`;
branches; supervisor; peers; surfaces; external agents; agent loop.

Theorems worth proving next, in this order:

1. Reducer: `ToolResultsFollow` and `WorkingChildIsAwaited` where nothing is cancelled, from `Waits`.
2. `Session`: `EffectsAreOnce`; that the World is the fold of its log, for a reducer given as a constant.

Models worth adding: a composition of `Supervisor` with `PeerDelivery` (the drain that a restore starts
while a tombstone is under way), promotion of branches, the gateway's subscriptions.
