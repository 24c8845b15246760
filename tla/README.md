# Formal model of theway's orchestration core

theway is a coding-agent daemon. Two parts of it carry its own concurrent logic, and both are
modelled here.

*Graph engineering mode* executes a graph of subagents: clients plan a DAG, the engine starts each
node when its dependencies are done, the nodes' jobs report back, operators retry, skip or cancel,
and a background writer keeps a state file per session from which the next process resumes.

*Agents and their conversation*: a run loop alternates model calls and tools while other tasks steer,
interrupt or abort it; `run_agent` runs a subagent under a watchdog and reports to a registry; the
daemon's event loop queues turns, retries and compacts, while triggers put messages into the same
conversation and everything ends up in an append-only session log.

Nearly everything that is hard about either is concurrency: a mutex protects pieces of calls and not
calls, state is read before an await and used after it, jobs report from their own tasks, and the
process may stop between any two steps.

This directory holds the TLA+ modules of these parts, their TLC configurations and the TLAPS
proofs. `PROJECT.json` is the machine-readable index: runs, mutants, the map from definitions to
source lines, findings, hazards and theorems. Paths below are relative to `crates/`.

## 1. Inventory

### Modelled

| Component | State | Operations | Hard behaviour | What makes it correct |
|---|---|---|---|---|
| Graph algorithms, `theway-core/src/multiagent/graph/model.rs` | none (pure) | `validate_graph`, `downstream_closure`, `reconcile` | in-place sweeps whose result depends on declaration order | cycles found exactly; closure = reachability; reconcile justified and, on ordered definitions, complete |
| Engine and scheduler, `graph/engine.rs`, `graph/scheduler.rs` | runs with node statuses, `launch_gen`, job table of tokens | `plan`, `tick`, `start_node`, `on_node_completed`, `after_node_terminal`, `maybe_complete`, `cancel_run`, `retry`, `skip`, `restore` | one call = several lock sections; nested calls; late reports | dependency order, the concurrency budget, done is final, closed runs are settled, job table exact, nothing stuck |
| Node launcher, `graph/node_launcher.rs` | spawned tasks, cancellation tokens | `launch`, `run_node` | synchronous failure re-enters the scheduler; one cancellation check, then a report | a report ends the launch that produced it |
| Retention, `graph/engine/retention.rs` | the run map | `evict`, `clear_run`, `clear_session_runs` | runs in a lock section after the one that closed a run | running runs stay |
| Persistence, `theway-daemon/src/dag_persist.rs`, `graph/persist.rs`, `theway-storage/src/sqlite_dag.rs` | a `Notify` permit, the writer task, one file per session | `notify_dirty`, `run_loop`, `save_all`, `flush`, load, `to_persisted`, `hydrate` | coalescing; copies written session by session; flush beside the writer; failing stores | no change is lost; a file is a sound cut; a restart repeats no saved success |
| Run loop, `theway-core/src/agent.rs`, `agent/run_loop/` | the run permit, two tokens (abort, interrupt), steering and follow-up queues, the transcript | `prompt`, `continue_`, `abort`, `interrupt`, enqueueing; `drive_loop`, `call_llm` | biased select; queues drained at turn boundaries while others fill them; the future may be dropped | steering arrives in order and once; the iteration budget holds |
| Subagent runner, `multiagent/runner.rs` | the prompt's task, watcher, watchdog, the cancellation | `run_agent` | watchdog, cancellation and completion race; abort makes a run return `Ok` | the report tells how the run ended; nothing is left running; a watched run that falls silent returns |
| Job registry, `multiagent/jobs.rs` | the list of records, control handles | `register`, `set_control`, `steer`, `interrupt`, `finish`, `evict` | `finish` is three lock sections; eviction by any job | bounded by finished jobs only; oldest finished first; what is listed as finished was announced |
| Turn host, `theway-daemon/src/turn/`, `agent_session.rs`, `theway-core/src/agent/assembly/run.rs` | queue of turns, the turn's future, retry attempt, the model | submit, interrupt, slash turns, select model, abort, finish; retry and fallback; turn-end hook | handlers await the log while the turn stands at an await; triggers run on other threads | each message is written once; a queued turn is run; what reaches the conversation is answered, and what a busy turn was handed reaches it |
| Compaction, `agent/compaction/triggers.rs` | a branch read before the summary is awaited | `do_compact` | what is appended meanwhile; index arithmetic between log and memory | memory equals what the log loads |
| Session log, `agent/session/session.rs`, `theway-storage/src/sqlite_storage.rs`, `agent/context/assembly.rs` | rows with parents | append, branch, `build_session_context` | leaf read and row written in two awaits without a lock | a restart loses nothing |
| Trigger injection, `trigger_engine/execution/action.rs` | one trigger task | inject, audit, request a main run | looks whether a run streams, acts later | the injected message reaches the conversation and is answered |
| Shutdown and activation, as far as runs are concerned (`orchestration/startup/process_state.rs`, `orchestration/session/activation_build.rs`) | installed sessions, activations in progress | shutdown, load, install | load and install are separated by awaits; ids restart in each process | what was running is restored |

Interactions: `tick` calls `start_node`, which calls the launcher, which may call
`on_node_completed` on the same stack or spawn a task that calls it later on another thread;
`on_node_completed` calls `after_node_terminal`, which reconciles, ticks and completes, or cancels
the run. Every change ends in `notify_persist`, which sets the writer's permit. The writer reads the
registry through `list_runs`. Activation feeds loaded runs to `restore`, which reconciles and ticks.

In the second part, the turn is a future the event loop polls: it stands still while a command handler
runs, and handlers are never interleaved with one another. Within a turn, retry policy, compaction,
run loop, session listener and turn-end hook call each other in sequence. Subagent tasks and trigger
tasks are on other threads and reach an agent only through its tokens, its two queues, its list of
messages and the log.

### Not modelled

- *Goals* (`multiagent/goal.rs`, goal runs in the engine): the turn-end hook is a free choice in
  `TurnHost`. What it reads and writes back around the evaluator is stateful and the first candidate
  for a further module.
- *Parked sessions* of the turn host: the same queue without steering; moving a session in and out of
  the active place is not modelled.
- *Branches, forks, rewinding*: moving the leaf of the log.
- *Rules and cron* of the triggers, and promotion, which injects like the modelled action.
- *Remote persistence sink* (the debounce of `DagPersist` over RPC) and *file locks* of the
  executors: small, worth a module each.
- *Session storage beyond the log, MCP, transport, LLM providers, TUI, tgrep, the TypeScript extension
  host*: I/O, data structures on disk, presentation, or bound to external engines. They are most of
  the source by lines, and little of it is protocol.

`PROJECT.json` lists each with its reason.

## 2. Modules and how they correspond to the code

| Module | What it is |
|---|---|
| `DagModel` | the pure operations of `model.rs` as operators and recursive functions |
| `DagRun` | abstract specification of one run: no threads, no tokens, no jobs, no file |
| `DagEngine` | one run under many threads, tasks, interventions, saves, crashes |
| `DagReference` | reference definitions for `DagModel`, over every graph with `N` nodes and every status assignment |
| `MCDagEngine` | instances of `DagEngine` and `DagReference` for TLC |
| `DagPersist` | the registry of runs of all sessions, the writer, activation, shutdown, crash |
| `MCDagPersist` | instances of `DagPersist` for TLC |
| `AgentLoop` | one agent: permit, tokens, queues, one run; composed by the two modules below |
| `Mailbox` | abstract specification of steering: what its senders are promised |
| `JobRegistry` | the records of subagent jobs, one action per lock section |
| `SubagentRun` | `run_agent` = `AgentLoop` + `JobRegistry` + watcher, watchdog, clients |
| `SessionLog` | the log of a session: append in two steps, branch, context, compaction |
| `TurnHost` | the active session = `AgentLoop` + `SessionLog` + queue, turn, retries, triggers, crash |
| `MCTurnHost` | the instance of `TurnHost` for TLC |
| `SeqFilter` | the elements of a sequence and what a filter leaves of it: registry, log and steering share it |
| `SeqFilterProofs` | facts about `SeqFilter`, and the induction and recursion rules the other proofs use |
| `DagModelProofs` | the sweeps, rounds and passes of `DagModel` unfolded; what `reconcile` does to each node |
| `DagReferenceProofs` | theorems: the four properties of `DagReference` for every graph |
| `DagEngineProofs` | theorems about `DagEngine`: safety, refinement, launches, nothing forgotten |
| `DagPersistProofs` | theorems about `DagPersist` |
| `AgentLoopProofs` | the types of `AgentLoop`, whoever composes it |
| `SubagentRunProofs` | theorems about `JobRegistry` and `SubagentRun` |
| `TurnHostProofs` | theorems about `TurnHost` and `SessionLog` |

**DagModel.** A node is its position in the definition, because `reconcile` and `tick` walk a `Vec`
and the order is part of the behaviour. Id 0 is an id that names no node. `reconcile` updates a live
status map in one pass; what a later node can see of earlier ones is only their cancellation, and
`Cascaded` is exactly that.

**DagReference.** What cycles, reachability and a justified pass are, without sweeps. Each property says
that a set of exceptions is empty: graphs whose cycles are misjudged, graphs with a wrong closure, pairs of a
graph and statuses with an unjustified or an unfinished pass. The sets depend on no variable; the properties
are put as state predicates of the engine before its run is planned, so that a run of the engine checks them.

**DagEngine.** An action is one section of code between acquiring and releasing the engine mutex. A
thread's remaining work is a stack of frames; a frame is the next section and the local variables the
code carries into it (the node `tick` picked, the token `start_node` made, the node ids `cancel_run`
collected). `tick` leaves itself on the stack below `start`, as the loop does. `gen` is
`launch_gen`; the token of a launch is named by its generation, which is how the model can tell which
launch a report came from although the code's report does not say. `tasks` are the spawned `run_node`
futures, `running` until the one look at the cancellation token and `reporting` after it.
`saved` is what the state file records. Save and crash appear here in the small, for one run; the
whole path of a notification is in `DagPersist`.
The outcome of a subagent, and whether a launch is refused, are free choices. Timestamps, outputs,
token counts, events and observation spans are left out.

**DagPersist.** A run is its id (`kind`, `n`), its session, whether it is running (`live`), and `ver`,
a count of changes inside it. `uid` distinguishes runs that get the same id in different processes;
the code has nothing like it, and only the properties use it. A call that changes the registry
*owes* a notification, which is a later step (`NotifyDirty`). `writer` is the position in
`run_loop`; `copied` and `flushed` are what the writer's and the shutdown's `save_all` still have to
write. The session written next is arbitrary, as the iteration order of the code's hash map is. A
failing store ends `save_all`, and may have been discarded. A file that cannot be loaded restores
nothing. `mixed` (the sessions whose file could not be loaded, or
that took over another session's runs) and `inFlight` (what ran when the process was asked to stop) are
history variables.

**AgentLoop.** `loop` is the position in `run_agent_loop` and `drive_loop`. The transcript holds user
messages; replies and tool results appear only through `unanswered`, which says whether the transcript
has a message that no request carried or whose request brought no reply. Time inside a model call is
the state `call`; `CallLive` is the order of the biased select. A run found cancelled at the head of the
loop returns `Ok(())`, as in the code; the model calls this outcome *stopped* to tell it from *done*,
and only properties use the difference. `DropRun` is the drop of the future: the permit's destructor
clears the tokens.

**JobRegistry, SubagentRun.** The runner is a sequence of named positions; the prompt's task, the
watcher and the watchdog are variables with a few states each, since they are tasks of their own. Time is
abstracted to what puts the watchdog off: `active` says that the agent emitted an event since the watchdog
last looked. Every step of the run sets it, and so does `Streams`, a reply or a tool that goes on without
the run getting further. The watchdog clears it and sleeps on (`WatchdogWaits`), or finds it clear and aborts
(`WatchdogAborts`), so it fires only when nothing has happened since it last looked; how long that is, and
how long the grace period lasts, is open, which covers every timing. The other jobs are runs of the same code, reduced to what they do to the
registry. A client clones the control handle under the lock and calls it later, also when the job is
over.

**SessionLog.** A row is its place in the log; `leafRead` is the leaf a writer has read and not used
yet, so an append is `ReadLeaf` and `WriteRow`, with anybody in between. `Branch` follows parents from
the last row; `Context` is what `build_session_context` makes of it.

**TurnHost.** `turn` is the future the event loop polls, with the stage it stands at; `host` is the
command handler that awaits the log; `trig` a trigger task. A step of the turn needs `host = NoOp`,
because the loop polls the turn only between handlers. The record written beside each user message
stands with it. `toLog` is a message appended to memory whose listener has not written it yet.
`NothingToContinue` is `continue_` of an agent without messages, which fails the turn. After a run the turn
asks its hook: without one, or if it decides nothing, the turn ends (`HookPasses`); to stop, to pause, or at
the continuation cap, it first writes a row (`HookStops`, `StopNoted`), and to continue it writes one and goes
on with a message of its own (`HookContinues`, `NoteWrites`). `forfeit`,
`well` and `raced` are history variables: messages given up on purpose or by a
documented fault, whether the last run ended with a last reply, and whether two writers have
overlapped.

Definitions under a comment starting with *Slip* are not part of the model: each is a plausible
mistake in the code it stands next to. `PROJECT.json` pairs every checked property with a slip that
must break it, so no property is checked that cannot fail.

## 3. Runs

| Run | Instance | Shows |
|---|---|---|
| `dag_engine_ops` | 3 nodes in all topologically declared graphs, 2 threads, budget 1, one retry, skip, clear or wait; for the algorithms all 4096 graphs, with self-loops and unknown ids, and all 343 status assignments of the accepted ones | the job table is exact, failures cascade, reports are current, the overshoot of the budget is bounded, nothing is stuck, the run settles; cycle check, closure and reconcile agree with definitions that do not sweep |
| `dag_engine_faults` | every 2-node definition, fail-fast on and off, 2 interventions out of retry, skip, cancel, clear, crash; saves at any time | type, dependency order, settlement, finality of done nodes; the file is a sound cut; saved successes are not repeated; everything, restarts included, refines `DagRun` |
| `dag_persist_writer` | 2 sessions, 2 runs, 1 change in each, 1 client operation or store failure, 2 activations | no change is lost between notification, window, copy and write; every change is written |
| `dag_persist_restart` | 2 sessions, 2 runs, 1 operation or failure, 4 loads, 1 shutdown or crash | running dags stay; restore leaves out only ids that a run of another session has, except in a session that took over another one's runs |
| `subagent_run` | one subagent and one other job, `MaxJobs = 1`, 2 steering messages, 2 iterations | honest report, no orphan, return of a watched run that does not stream for ever; registry bounded, evicted in order and announced; steering refines `Mailbox` |
| `turn_host` | 2 messages from any source, 1 retry and a fallback, 1 compaction, 1 crash; starts without a model | each message written once; memory mirrors the log; a restart loses nothing; what reaches the conversation is answered; the queue is served |
| `dag_engine_cascade`, `dag_engine_stale`, `dag_engine_budget`, `dag_persist_shutdown`, `dag_persist_collision`, `turn_host_queues` | small; the last one is `turn_host` without retries, compaction and crash | the disagreements of section 5 |

*Why the bounds are enough to be interesting.* Three nodes give a chain, a fork, a join and an
independent branch; two suffice for every order of declaration. Two threads are enough for every
race between two calls; each may be inside a call while tasks wait to report. Two interventions allow
cancel-then-retry, the shortest way to two launches of one node, and crash-then-crash. The constraint
`Explored` of `dag_engine_faults` follows a run with fail-fast, or with two nodes that do not depend on one
another, only up to its first save, to keep the run short: saves and restarts meet `cancel_run` through the
client's call and are explored where there is an order to lose, and all else is in the theorems. In
`DagPersist` two runs are the least that collide, evict one another (`MaxTerminal = 1` stands for 50)
or share a save. `MaxCalls = 1` lets one call at a time be between its change and its notification;
every interleaving of one such call with the writer, a flush and an activation is covered, two
overlapping calls are not. With `MaxCalls = 2` the same run also passes (1.46 million states, four
minutes), and is kept out of the configuration for its length only. Sessions and threads are permuted by symmetry only
in runs without liveness.

`MaxJobs = 1` with two jobs is the smallest registry that must evict, and stands for 64. Two
iterations allow a run that continues after tools, after steering and into its budget; two steering
messages can be swapped or split over a boundary. In `turn_host` two messages are the least that can
overtake one another: one may be queued, steered, injected or continued while the other is in any
stage of its attempt. One retry before the fallback reaches every stage of the retry policy twice. One
compaction can meet any append. `MaxRows = 4` bounds the log to which a hook that ends the turn adds its row,
since it may do so at the end of every turn; the other writers are bounded by the messages, retries and
compactions. The constraint `Explored` of `turn_host` leaves out the retries of a turn after the restart, of
which the restart itself knows nothing. The run has 2.1 million states; a third message takes it far beyond the time a run should
have, and so does liveness over this state space, which is why `QueueIsServed` is stated of the states in
which nothing runs, and `ConversationAnswered` and `AnsweredAtRest` of those in which the host rests.

*Deadlock checking* is off everywhere: a run that is closed and a client that does nothing more is
the normal end.

*Fairness.* In `DagEngine`: a thread inside a call takes its next section (it waits only for a mutex
held briefly and never across an await); a subagent ends (`run_agent` bounds its iterations and an
idle watchdog aborts a silent one; one that streams a single reply for ever is aborted by nobody, and
`RunSettles` does not speak of it); a task with a result gets to report. Clients, saves, crashes and
restarts owe nothing. In `DagPersist`: the writer task runs, and a call that changed the registry
reaches its notification. Changes are finite by the bounds: `EventuallySaved` therefore says that
a change is written once changes stop coming, because each notification restarts the 500 ms window.

In `SubagentRun`: tasks are scheduled, timers expire unless an event puts them off, an aborted task is
dropped. Model and tools owe nothing, so `RunReturns` is about a hung provider or tool: a run whose
watchdog is armed returns, provided that it does not stream for ever (`<>[][~Streams]_vars`), since the
idle timeout is not a cap on the run's length and the code sets none. `TurnHost` states no fairness.

*Scope of the properties of `turn_host`.* `ExactlyOnce` excepts the messages in `forfeit`: prompts that
an interrupt dropped from the queue before they were written, prompts in hand when an attempt fails
before its run starts and is retried, a prompt the fallback model is given a second time, and what a crash took
before it was logged. `MemoryMirrorsLog` holds up to the first overlap of two writers (`raced`) and the
second compaction (`Compacted < 2`); `RestartLosesNothing` holds while the log is `Linear`. None of
these clauses is idle: without any one of them TLC finds a violation within a few steps, described in
section 5. `ConversationAnswered` is about messages that have reached memory; of those still in the
agent's steering and follow-up queues it says nothing, and with them (`AnsweredAtRest`) it is false
(finding 6). `ExactlyOnce` shows that such a message is kept in its queue.

*Scope of the liveness and job-table properties.* `dag_engine_ops` has no whole-run cancellation and
no crash, since with them `JobTableExact` and `NeverStuck` do not hold:
`cancel_run` takes tokens in a second lock section (`engine.rs:520`), where a retry and a tick may
have put the token of a new launch, which is then cancelled silently while the node stays Running;
and `restore` does not call `maybe_complete`, so a run saved with only terminal nodes stays Running
until somebody waits for it. No document promises otherwise, so these are hazards and not findings.
Nor do these properties hold for definitions that declare a dependent before its dependency (finding
1).

## 4. Proofs

Each theorem says `Spec => []P` for an invariant P and `Spec => P` for an action property or a
refinement, for every value of the constants. Those of `DagReferenceProofs` also say, without any
specification, that the set of exceptions is empty.

| Module | Theorem | Property | Instead of the instance |
|---|---|---|---|
| `DagReferenceProofs` | `CyclesAreFound` | `KahnFindsCycles` | any number of nodes, any graph |
| | `ClosureIsExact` | `ClosureIsReachability` | the same |
| | `ReconcileIsSound` | `ReconcileSound` | the same, any statuses |
| | `ReconcileIsComplete` | `ReconcileComplete` | the same, chains of any length |
| `DagEngineProofs` | `TypeCorrect`, `Safety` | `TypeOK`, `SafetyInv` | any nodes, threads, definitions, budget, interventions |
| | `DepsRespected` | `StartedAfterDeps` | the same |
| | `ClosedSettled` | `ClosedRunIsSettled` | the same |
| | `SnapshotIsSound` | `SnapshotSound` | the same |
| | `EngineImplementsRun` | `ImplementsRun` | the same |
| | `DoneNodesStay` | `DoneIsFinal` | the same |
| | `DoneNodesAreDurable` | `DurableDone` | the same |
| | `ConcurrencyBounded` | `OvershootBounded` | the same |
| | `FailuresCascade` | `BlockedCascades` | the same, under `DeclaredInOrder` |
| | `JobTableIsExact` | `JobTableExact` | the same, under `NoCancellation` |
| | `ReportsAreCurrent` | `ReportIsCurrent` | the same, under `NoCancellation` |
| | `EngineNeverStuck` | `NeverStuck` | the same, under both, without crashes |
| `DagPersistProofs` | `PersistTypeCorrect` | `TypeOK` | any sessions, plans, operations, failures, loads, stops |
| | `NoChangeIsLost` | `SavedWhenQuiet` | the same |
| | `RunningDagsStay` | `LiveRunsStay` | the same |
| | `RestoreIsComplete` | `RestoreSkipsOnlyTaken` | the same |
| `SubagentRunProofs` | `RunTypeCorrect` | `TypeOK` | any jobs, limit, steering, budget, queue mode |
| | `RunReportHonest` | `ReportIsHonest` | the same |
| | `RunLeavesNoOrphan` | `NoOrphanRun` | the same |
| | `JobListBounded` | `RegistryBounded` | the same |
| | `JobFinishedSettled` | `FinishedIsSettled` | the same |
| | `JobEvictionOrdered` | `EvictionOrder` | the same |
| | `SteeringRefinesMailbox` | `SteeringIsMailbox` | the same |
| `TurnHostProofs` | `HostTypeCorrect` | `TypeOK` | any messages, retries, compactions, crashes, rows |
| | `QueuedTurnsRun` | `QueueIsServed` | the same |
| | `NothingLeftUnanswered` | `ConversationAnswered` | the same |
| | `MessagesLandOnce` | `ExactlyOnce` | the same |
| | `RestartKeepsMessages` | `RestartLosesNothing` | the same |
| | `MemoryFollowsLog` | `MemoryMirrorsLog` | the same |

*Assumptions.* The theorems rest on the named assumptions of the modules and nothing else
(`NAssumption`, `EngineAssumption`, `PersistAssumption`, `AgentLoopAssumption`,
`RegistryAssumption`, `RunAssumption`, `HostAssumption`): what the constants are and that sets of
threads, sessions and jobs are finite. TLC evaluates each in the runs of its module. Four theorems
have a hypothesis of their own, and the runs of section 5 or the scope note above show why:
`DeclaredInOrder` (every accepted definition declares dependencies before dependents; without it,
finding 1), `NoCancellation` (nobody cancels the run as a whole, neither a client nor fail-fast;
without it, finding 2 and the two sections of `cancel_run`), and the absence of crashes
(`restore` does not look whether the run is over). `dag_engine_ops` checks the four properties
under exactly these hypotheses.

**Graph algorithms.** Sweep, rounds and pass are recursive functions. Each proof first shows that
the recursion has a value at every step (`RecursionExists`, `PassExists`) and so gets its list of
steps; induction over the list does the rest. A sweep removes every node that waits for none of the
remaining ones, so a round that removes nothing has reached the largest set whose members wait for one
another, and N rounds get there because each earlier one removes a node (`RemainingWaits`). In the
same way `seen` is closed after N rounds (`ClosureIsLeast`). What a pass cancels is described by
`CascadedSteps`: a waiting node, behind one that is blocked or that the pass has cancelled before it.
A least such node is behind a blocked one (`CascadeStartsBehind`), and with dependencies declared
first none is missed (`ReconcileCascades`).

**Engine: safety and refinement.** `SafetyInv` is `TypeOK /\ StartedAfterDeps /\
ClosedRunIsSettled /\ SnapshotSound`. No part is inductive alone:

- `start_node` looks at the node's status and not at the run's, so a tick that read a Running run can
  start a node of a run closed since. That it does not is because a closed run has no ready node
  (`ClosedRunIsSettled`), and that a ready node's dependencies are still done is
  `StartedAfterDeps`, which in turn needs that no step undoes a done node.
- A restart assigns all statuses from the file, so the invariant must hold of the file too:
  `SnapshotSound`. Its second conjunct, that a loaded run is never behind its file, is what
  `DurableDone` needs.

`ThreadEffect` sums up what any lock section does to the graph, the statuses and the file, in six
cases; both preservation proofs and the refinement argue from it, so the twelve kinds of section are
opened once. `QuietSteps` collects the steps that touch none of it. The refinement maps the variables
of the same name; `Classify` answers reconcile, `Reopen` retry and skip, `Recover` restore.

**Engine: launches.** A start, launch, report or token section is only ever at the top of a stack
(`TopsOnTop`); a thread therefore has at most one start it picked while there was budget, which bounds
the overshoot. For the job table the invariant (`JobInv`) says where a launch may be: in the thread that
launches it, in its task, or in the thread that reports it, in one of them only; a registered token is
carried and not revoked; one that is carried without being registered was revoked, or is about to be, by
the skip that took it from the table.

**Engine: nothing forgotten.** A section that leaves work behind relies on another one, possibly of
another thread, to do it. `AwakeInv` says who: a waiting node behind a blocked one, or a pending node
whose dependencies are done, means that a reconcile (or what leads to one) is in some stack; a ready
node in a Running run that runs nothing means that a tick is. It needs that every reconcile in a stack is
followed by a tick (`PairedTicks`), because a pass makes nodes ready. `ClosingInv` adds that a run all of
whose nodes have ended has a `maybe_complete` ahead; what makes it inductive is that a pass which
cancels the last waiting nodes found one behind a blocked node, for which a reconcile with a
`maybe_complete` two sections later (`Closing`) was already due. When every stack is empty nothing is
ahead, so nothing is left behind; the first unfinished node in declaration order must then be running,
and its job is in flight because the job table is exact.

**Registry of runs.** `PersistInv` follows a change from the registry through notification, window,
copy and write: while nothing is owed, the writer holds no permit and is not in its window, each file is
current or a current copy of it is still to be written (`SaveInv`). Running dags stay because the counter
is past the id of every registered dag (`CounterInv`), so a new run never takes a used id. Attempting
`RestoreIsComplete` showed that the property was false just beyond the bound TLC had checked: with a
fourth load, a session restored without a displaced dag takes over another session's runs, is activated
again before the writer ran, and then skips the dag in its file because of a run of its own. The
property now excepts the sessions that took over runs (`mixed`), the run loads four times, and the
invariant (`AgreeInv`) says that in other sessions an id means one dag wherever it is recorded.

**Subagents.** `RegistryInv` ties each record to the section of `finish` it is in; how long the list is
after `evict` comes down to counting places (`SeqFilterProofs`). `TaskInv` and `VerdictInv` say how
runner, prompt, watcher and watchdog stand to each other: a cancelled run has somebody who cancelled it,
and the watchdog's flag is final when the runner reads the result. The refinement of `Mailbox` maps what
is delivered to the user messages of the transcript and what is on its way to the loop's batch followed
by the queue.

**The session.** `HostShape` says what the stage of a turn allows in hand and queue. Of the five
properties: that the queue is served needs that a handler which holds a prompt holds it because a turn is
busy (`ServedInv`). Nothing in the conversation is left unanswered because an unanswered message is behind a request, a
queued prompt or a turn that still has a call ahead (`AnswerInv`: `Carried \/ WillCall`). That messages
land once is counted (`OnceInv`): each step moves a message between two of the places or gives it up, and
`Copies` is the sum over the places. That a restart loses nothing needs that a compaction keeps from a row
of the branch (`KeptKnown`) and that an unforked log is its own branch (`LinearBranch`). The mirror of log
and memory is the longest: until two writers overlap, a leaf that was read is still the last row, a
compaction that was planned still fits the branch, and memory differs from what the log loads by at most
the message one writer has under way (`Mirror`, `Reflects`); the summary step then computes the same list
on both sides.

*Only model-checked*: the liveness properties `RunSettles`, `EventuallySaved` and `RunReturns`, since
liveness under fairness is out of the prover's reach. Every invariant and action property the passing
runs check is also proved, `ImplementsRun` and `SteeringIsMailbox` included.
The library's induction theorems take an operator as a parameter and cannot be instantiated by the
installed provers; `SeqFilterProofs` restates induction and recursion over sets and functions
(`UpTo`, `FiniteInduction`, `SeqInduction`, `RecursionExists`), which they can.

## 5. Where the code and its documentation disagree

1. **Cascade** (`model.rs:271`, run `dag_engine_cascade`). The comment at `model.rs:263` says a
   cancelled dependency cascades within one pass. It does so only to nodes declared later. With
   `a -> b -> c` declared in the order a, b, c and c failing, b is cancelled, a stays pending, no
   job is left and nothing reconciles again: the run stays Running.
2. **Stale report** (`scheduler.rs:138`, run `dag_engine_stale`). `types.rs:90` says callbacks of
   earlier launches are dropped by their generation. `on_node_completed` carries none and looks only
   at `status == Running`: a task that passed its cancellation check just before `cancel_run` ends
   the node's next launch after a retry.
3. **Shutdown** (`process_state.rs:191`, run `dag_persist_shutdown`). `dag_persist.rs:15` says
   flushing before aborting lets in-flight runs survive a clean exit. The abort notifies the writer,
   which is neither stopped nor drained, and telemetry shutdown is awaited before the exit: a window
   closing in that time replaces the flushed snapshot by an empty one.
4. **Id collision** (`scheduler.rs:318`, run `dag_persist_collision`).
   `docs/graph-engineering-mode.md:95` says the next session start restores the runs. Ids count from
   `dag-1` in each process and sessions are activated one by one, so a run planned by another session
   first makes `restore` skip the persisted `dag-1`, and the next save drops it.
5. **Budget** (`scheduler.rs:37`, run `dag_engine_budget`). `types.rs:52` calls `max_concurrency` the
   "max concurrently running nodes", `scheduler.rs:21` says `tick` launches "within the concurrency
   budget", and so does `docs/graph-engineering-mode.md:35`. `tick` counts in one lock section and
   `start_node` starts in the next, looking only at the node: two threads that tick while one slot is free
   can each pick a node and start it. `OvershootBounded` says how far this goes: fewer than the number of
   threads inside the engine, whatever happens.
6. **Steering after the last drain** (`turn/daemon/input.rs:134`, run `turn_host_queues`).
   `input.rs:129` says a busy turn sees a user's message on its next request, or at the latest at the turn
   boundary, and `action.rs:161` says the same of a trigger's follow-up. A turn takes such messages whatever
   stage it is in, but its run drains the queues only at boundaries it may go on from. In the trace the
   message arrives after the last drain, while the turn awaits those who observe the end of the run
   (`assembly/run.rs:229`); the same happens in the turn-end hook, while the last row is written, and during
   tools that all terminate (`run_loop/mod.rs:345` returns above the drain). The host rests with the message
   in the queue. Nothing starts a run for it; it waits for a run that somebody else asks for.

Met on the way, promised by no document and listed as hazards: `goal_counter` is not advanced by
`restore`, so a new goal run replaces a restored one; the file of a session whose last run was cleared or
rehomed is not rewritten, so a later activation revives a finished run.

Found in the second part by taking a clause out of a property, or by checking a definition that no run
checks:

- `triggers.rs:288` says `state.messages` is the in-memory mirror of the log's message entries, and
  derives the index of the first kept message from it. Two overlapping appends break the mirror (a
  trigger writes its row, a handler writes and pushes a prompt, the trigger pushes: memory and log have
  the two in opposite orders), and after a first compaction the index is counted from the root of the
  branch while memory begins with the summary, so a second compaction drops messages it keeps in the
  log (`MemoryMirrorsLog` without `raced`, or without `Compacted < 2` and with `MaxCompactions = 2`).
- `agent_session.rs:155` says the record and the user message are written on the first attempt only.
  The fallback model starts again from attempt 0 and writes both a second time; and an attempt that
  fails in the compaction before its run is retried without the prompt (`ExactlyOnce` without
  `forfeit` in `Retry`).
- `runner.rs:337` says the caller's abort cascades to the subagent. The watcher aborts once: if it runs
  before the spawned prompt has published its token, the abort finds none and the run goes on
  (`CancelCascades`).
- `job_events.rs:10` says the registry broadcasts completions. A record evicted between the first and
  the second lock section of its `finish` is never announced, and its operation scope stays open
  (`EveryFinishSettles`).

## 6. Plan

Done: graph mode (`DagModel`, `DagRun`, `DagEngine`, `DagPersist`) and agents with their conversation
(`AgentLoop`, `Mailbox`, `JobRegistry`, `SubagentRun`, `SessionLog`, `TurnHost`), model-checked, and
every safety property of both proved.

Models worth adding next, each with its invariant proved:

1. The goal stop hook (`goal.rs`): it reads the goal state, awaits the evaluator and writes back what it
   computed from the old one.
2. The waiter of `wait_for_run` and goal runs in `DagEngine`: a run that completes between the look and
   the `Notify`; a late verdict that completes a cancelled run.
3. Parked sessions in `TurnHost`; the remote persistence sink, as a second implementation of what
   `DagPersist` promises.

Theorems worth stating next: `JobTableExact` weakened to what holds with whole-run cancellation (a
node may run whose launch was revoked by a `cancel_run` still under way, and by nothing else); `NeverStuck`
after a restore that closes the runs it finds finished.
