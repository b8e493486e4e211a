# PaciNet: specification and proofs

PaciNet is a controller for a fleet of packet-filter nodes. Operators send it
policies over gRPC or REST; it stores them, sends them to the agent of each
node, watches heartbeats and rule counters, and rolls policies out through
state machines ("FSMs") that deploy in stages and roll back. This directory
holds TLA+ models of that behaviour, the TLC configurations that check them,
and TLAPS proofs of the central results. `PROJECT.json` lists the components,
the runs, the source lines behind each definition, the hazards and the
findings.

## 1. Inventory

| Component (source) | State | Operations | What makes it correct |
|---|---|---|---|
| Node lifecycle (`pacinet-core/src/model.rs`) | one of six states per node | `can_transition_to` | states move along the table; a dead agent ends Offline; no node stays Deploying |
| Storage (`pacinet-server/src/storage`) | nodes, policies, versions, deployment records, FSM definitions and instances, lease row; in process: the deploy guard | one method per operation; SQLite under one mutex with foreign keys and cascades, memory with a lock per table | versions are numbered without gaps and never rewritten; a record names a version that exists |
| Deployment (`deploy.rs`, deploy and rollback handlers of `service.rs` and `rest.rs`) | the locals of a handler across its awaits | guard, capability and no-op checks, store, state updates, agent call with timeout, audit record | one deploy at a time per node; the newest successful version is what runs |
| Agent (`pacinet-agent`) | active policy, registration | `deploy_rules`, `heartbeat_loop` | applies what it acknowledged |
| Compile options (`deploy.rs`, `sqlite.rs`, `pacgate.rs`) | none: fourteen fields copied by hand from request to policy, row, version, request and compiler arguments | `normalize_options`, `policy_matches_request`, `ensure_node_capabilities`, `row_to_policy`, `apply_compile_flags` | a rollback deploys what was deployed; the no-op test is equality; the node can compile what passed the check |
| Reaper (`main.rs`) | none | `mark_stale_nodes`, `evict_expired`, `prune_events` | silent nodes go Offline and stay so; only old events are pruned |
| FSM engine (`fsm_engine.rs`, `pacinet-core/src/fsm`) | definitions, instances (state, status, history, context) | start, advance, cancel, the evaluation loop, deploy / rollback / alert actions | statuses are final, the history is kept, the context knows what was deployed, batches of one label neither skip nor repeat, instances make progress |
| Counters (`counter_cache.rs`, `counter_rate.rs`) | ring buffer per node, `counter_condition_first_true` | `record`, `evict_expired`, `evaluate_counter_condition` | a condition fires exactly when it has been true for its duration; a rate is that of a counter that grew |
| Leader election (`leader.rs`, `try_acquire_lease`) | lease row, `is_leader` flags | renew every half lease | at most one lease runs; a leader is found and kept |
| Event bus and log (`events.rs`, persistence task of `main.rs`, `store_event`, `query_events`) | three broadcast channels that retain 256 events each; positions of the receivers; the events table or a capped `Vec` | `emit_*`, the `select!` loop, `prune_events`, event history, gRPC watch and SSE streams | what the task takes is logged, in order with the memory backend; a stream has no gap but a lag; the task keeps up |
| Webhooks (`webhook.rs`, `execute_alert`) | deliveries under way, their attempts and records | spawn, attempt, back off, record | an alert goes out once per entry; nothing follows a success; every attempt has one record, unless the record could not be stored; deliveries end |
| Audit, templates, annotations, metrics, TLS, REST authentication, CLI, simulator, web console | logs and views | | not modelled, see section 7 |

How they interact: handlers, the engine and the reaper are tokio tasks of one
process that share nothing but the storage object; every storage call runs on
a blocking thread and every call to an agent is a remote call, so each is a
point where all other tasks run. Two controllers share a SQLite file. The hard
behaviours are therefore the interleavings of read-modify-write sequences,
handlers dropped when their client disconnects, restarts, late agents and late
heartbeats.

## 2. Modules

| Module | Models | Used by |
|---|---|---|
| `NodeLifecycle` | `NodeState`, `valid_transitions` | `Deploy` |
| `Deploy` | node, policy, version, record and guard tables of both backends; deploy, batch, rollback and FSM-rollback handlers; registration, heartbeats, removal, reaper; agents | `DeployProperties` |
| `SerialDeploy` | abstract: an owner at a time appends to a node's version log | refinement in `DeployProperties` |
| `DeployProperties` | properties, inductive invariant, refinement mapping | `MCDeploy`, `Deploy_proofs` |
| `LeaderLease` | lease row, renewal loop, the two flags | `MCLeaderLease`, `LeaderLease_proofs` |
| `FsmEngine` | definitions, instances, the engine and the request handlers | `MCFsmEngine`, `FsmEngine_proofs` |
| `Webhook` | one delivery's attempts, answers, retries and records | `FsmAlerts` |
| `FsmAlerts` | `FsmEngine` composed with `Webhook`: alert actions start deliveries, a restart ends them | `MCFsmAlerts`, `FsmAlerts_proofs` |
| `EventLog` | event bus, persistence task, event log of both backends, streams | `MCEventLog`, `EventLog_proofs` |
| `CompileOptions` | the options of a request through controller, database and agent, as operators | `CompileOptions_proofs` |
| `CounterCondition` | counter cache, rates, conditions with `for_duration`; a reference definition of "sustained" | `MCCounterCondition`, `CounterCondition_proofs` |
| `Deploy_proofs`, then `DeployTables_proofs` | theorems on types and the guard; on the tables, the refinement and what agents run | |
| `LeaderLease_proofs`, `EventLog_proofs`, `CompileOptions_proofs`, `CounterCondition_proofs` | theorems on the component named | |
| `FsmEngine_proofs`, then `FsmAlerts_proofs` | theorems on the engine; on the engine with its webhooks | |

A definition named "Variant" in its comment is a plausible mistake in the code
it stands next to; nothing uses it. Replacing the original by it makes the
property named in `PROJECT.json` fail.

### Deploy

A *task* is one execution of a handler. Its control point `pc` names the next
storage or remote call: `history`, `find`, `guard`, `check`, `version`,
`store`, `mark`, `wait`, `settle`, `record`, `release` are the awaits of
`rollback_policy`, `execute_rollback`, `begin_deploy`, `deploy_to_node` and
`end_deploy` in order. `snap`, `want`, `ver` and `result` are the handler's
locals. `Disconnect` drops a handler where it stands, `Restart` all of them
together with the guard, `StorageFails` makes a call return an error, which
ends the deploy or is ignored as the code has it. `StoreTorn` is the failure
between the two statements of SQLite's `store_policy`, which has no
transaction: the version is stored, the current policy is not. A node id is a UUID: once
removed it never comes back. A policy stands for rules plus normalised
options, and `Unsupported` for what `ensure_node_capabilities` refuses
(`CompileOptions` justifies both). The
agent compiles under a read lock and applies under a write lock, so these are
two steps, and a call the controller gave up on may still be applied.
A node stands for one agent: that an agent started again registers as another
node, while the row it left keeps its address, is not modelled. `Disconnect`
also drops an FSM rollback, as happens to one that runs from `advance_fsm`; the
engine's own are not told apart.
Heartbeats carry the state fixed when the request was built and may be
delivered twice or never.

### LeaderLease

Times are relative to the present so that the state space is finite: `left` is
how long the lease still runs, `age[c]` how long ago controller `c` read the
clock for its attempt (`try_acquire_lease` reads it before `BEGIN IMMEDIATE`
waits for the database). `mine[c]` is a history variable: how long the lease
last granted to `c` still runs.

### FsmEngine

A *worker* is the engine's loop or a request handler. Each reads a row into
`copy`, moves it, runs the action of the state entered node by node
(`DoNode`), and writes the whole row. `todo` holds the rows the engine listed
at the start of its pass. An action has the set of nodes its `select.label`
matches, and `Matching` picks them from the fleet in list order. Deploying to a
node succeeds, fails, or is given up (`GiveUp`); how is the subject of `Deploy`.
A call that was given up stays in `open`, and the agent may act on it at any
later time (`LateAct`), after other calls too; which agents do is the constant
`Slow`. `applied` are the nodes that run
what the instance deployed and that were not rolled back; `unanswered`, a
history variable, those whose deploy by the instance was ever given up.

### Webhook and FsmAlerts

`execute_alert` spawns a delivery and does not wait. A delivery is `sending`,
`sleeping` before a retry, or ended; an attempt is answered with success, refused, or
unanswered, and in the last case the receiver may have acted on it all the same
(`accepted` counts what it acted on). Records are written by a task nobody
awaits: `storing` holds the ones on their way, and one that cannot be stored is
lost without anyone hearing of it (`unstored`, a history variable). `FsmAlerts` adds to every
engine step that executes a hooked alert the spawn of a delivery, and to a
restart the loss of all deliveries under way; `alert[d]` remembers which entry
of which instance a delivery is about.

### EventLog

What was sent on a channel is a sequence and a receiver is a position in it;
`Oldest` is the first position the channel still retains. The persistence task
is one `select!` loop: `Receive` takes an event of an enabled branch and awaits
its store, `Lag` is the error a lagging receiver returns, which disables the
branch until the next round (`off`), and when no branch is left the `else`
branch ends the task (`alive`). The `setup` of a process is chosen at the
start: backend, leadership (which nothing changes in a running process, see
`lease_v_sync`), `--persist-counter-events`. The sources of events are the
modules that emit them; here any event may be emitted at any time.
`aged` are the events whose timestamp is older than the maximum age: time makes
all of them so, and a counter event, which has the time its agent reported, may
be so when it is sent. `behind` and
`failed` are history variables: receivers that lagged, channels with a failed
store.

### CompileOptions

No state: the conversions between the proto message, the policy, the row, the
version, the FSM context and the compiler's arguments, field by field, with the
integer types of the columns. It has no run: its results are theorems about all
values of `u32`, most of which TLC's integers cannot hold.

### CounterCondition

One transition of one instance: reports, eviction, time and evaluations
interleave. A report lists
counters, not all of them each time; a `Counter` is a rule's matches or its
bytes. Rates are exact fractions. `Visited[k]` is what the first `k`
conditions come to, and the timestamp they leave behind. `held` is a history variable that
records, per condition, since when every evaluation found its thresholds met;
`Expected` is the reference: and, or, not of "held for `for_duration`". `Met`,
whether the thresholds are met, is part of both, so the comparison is about the
timestamp. `Grew` speaks about the snapshots themselves and is the reference
for rates.

## 3. Runs

| Run | Shows |
|---|---|
| `deploy_serial` | three handlers of any kind, two policies: the guard excludes; every record names the version it stored; the newest version deployed with success, or skipped as already active, is the one the agent runs unless some call was abandoned |
| `deploy_faults` | with removal, disconnects, restarts, storage errors and torn stores, guarded deploys and rollbacks implement `SerialDeploy`, and records still name stored versions |
| `deploy_memory` | the lock-by-lock removal of the memory backend next to deploys and FSM rollbacks: the inductive invariant `IndInv`, and that a guard is left set only by a dropped handler |
| `deploy_live` | handlers end, Deploying is transient, the node of a dead agent goes Offline and only a heartbeat brings a node back |
| `lease` | any timing, stops and storage errors: one lease at a time, a deposed leader steps down, a leader is found again; as long as renewals are on time (`timely`) a leader stays leader |
| `fsm_race` | start, advance and cancel against the engine, with disconnects, restarts and storage errors: instances stay in defined states, and the targets of a batched rollout of one label, three nodes of four, are exactly the prefix up to the cursor |
| `fsm_engine` | the engine on its own, with its webhooks, late agents and a restart, loses nothing: statuses final, context complete until the restart (what runs without an answer is known as failed); one alert per entry and restart; a success is the last attempt, every attempt has its record or lost it to a failing store, deliveries end |
| `fsm_canary` | the canary rollout of `examples/` and a rollout in batches of two labels complete only if earned, with a changing fleet; an instance that can move is moved once requests and restarts cease |
| `counter_sustained` | the timestamp of a condition agrees with the reference definition of "sustained", in both directions; a rate above a bound is seen only where a counter grew, whatever resets, late reports and missing rules |
| `events` | full channels, lag, failing stores, pruning and restarts on both backends: the log holds what the task took and, with the memory backend, a history query returns what was sent last of it in order; a stream yields what matches, in order, without a gap unless it lagged; the task is served on every channel and lives unless it lagged on all three |

Two runs show the code departing from its documents (findings in
`PROJECT.json`), and TLC's counterexample is the expected result:

| Run | Departure |
|---|---|
| `lease_v_sync` | the comment in `main.rs` says the election's flag is copied to the configuration; it is not, so an elected controller's components stay on standby |
| `fsm_v_status` | the engine's write of a stale row undoes a cancel |

### Bounds, and why they are enough

- `Deploy`: nodes do not interact (every table and the guard are keyed by
  node), so one node is enough; two tasks conflict, the third in
  `deploy_serial` is needed for "store, fail, skip"; two policies distinguish
  a redeploy from a change. `HistoryLimit` is 2 instead of 10 so that the limit
  is met by few deploys. Tasks are finitely many, so behaviours end: the deploy
  runs do not check deadlock. Tasks are symmetric, and the runs with liveness
  or refinement do not use the symmetry.
- `LeaderLease`: two controllers compete; a lease of four ticks is renewed
  after two and an attempt may wait one; times below `Floor` cannot be told
  apart by any attempt.
- `FsmEngine`: one instance (rows are independent), one engine, one handler at
  a time next to it. `fsm_race` has four nodes of which three have the label
  that batches select, so that batches of two, a short last one and an empty
  one occur, with a node between them that is passed over; "regions" has two
  labels. One of the four may act on a call given up (`Slow`): the context is
  not what this run asks about, and another only adds states. `fsm_canary` starts with two nodes, one of them with the canary's
  label, which may leave, and a third with the label may join.
- `FsmAlerts`: as `FsmEngine` with two nodes, of which one is deployed to
  first, then both, so that a call given up in the first state may be acted on
  in the second or after the rollback, on both nodes; three deliveries are one per
  hooked entry and one more after a restart; one retry distinguishes the first,
  a middle-or-last and no further attempt; one restart.
- `EventLog`: a channel retains one event, so the second unread one makes its
  receiver lag; two or three events per channel; a memory cap of two, less than
  the events sent (one event a channel is enough for the rows of sqlite, whose
  order nothing looks at); one fault, which may be any of the four. Leaders are
  examined for their log, standbys for their streams (three streams of a kind
  differ in the channel and the filter only). Events are finitely many: the run
  does not check deadlock.
- `CounterCondition`: buffers of two snapshots, the least that gives a rate;
  retention of one tick and reports up to one tick late; four ticks are longer
  than the durations tried plus a gap; the condition is one of five, chosen at
  the start; one counter with the values zero, one and missing. Nodes are
  symmetric: both are targets and no condition names one. Time ends at `MaxTime`, so the run does not check deadlock.

### Fairness

Tokio runs every task that is ready, and each wait for an agent is bounded by
the deploy timeout: weak fairness of `TaskStep`, of `WorkerStep` and of the
engine's loop. Interval timers tick for ever: weak fairness of the reaper, the
renewal loop, the sending of heartbeats and of time. `LeaderLease` also has
strong fairness of `TryAcquireLease`: the loop makes an attempt at every
interval, and a database that failed every one of them for ever would leave no
cluster to speak of. `EventLog` has strong fairness of each branch of the
`select!`: tokio polls the branches from a random start, so a branch that is
ready again and again is taken. Steps of a webhook delivery are weakly fair:
the HTTP client has a timeout and the back-off is a timer. Nothing makes a heartbeat arrive: only "arrives or is
lost" is fair. Clients need not send anything, controllers need not stop or
restart.

## 4. Proofs

A theorem named here states a property some run checks, unless the text says
otherwise; the run shows it on a small instance, the theorem for every value of
the constants. Almost no invariant is inductive by itself; the text names the
strengthening and why it is needed.

### Deployment

For every set of nodes, policies and tasks, both backends, any rollback targets
and any faults:

| Theorem | States |
|---|---|
| `Inductive`, `TypeCorrect` | `Spec => []IndInv`, `Spec => []TypeOK` |
| `DeployGuardExcludes` | `Spec => []GuardedExclusion` |
| `OnlyDropsLeak` | `Spec => []LeakedOnlyByDrop` |
| `RecordsNameVersions` | `Spec => []RecordedVersionExists` |
| `HeartbeatsRevive` | `Spec => OnlyHeartbeatRevives`, an action property |
| `ImplementsSerialDeploy` | `Spec => RefinesSerialDeploy`, where no FSM rolls nodes back |
| `SuccessRuns` | `Spec => []LatestSuccessIsRunning` |

Exclusion is not inductive by itself. A node id that is registered while a
handler already works on it would become live without its guard, so
`ClaimedIds` says that a guarded handler under way works on an id that is no
longer fresh, which holds because `get_node` found it (the variant of
`ReadNode` that does not look breaks it). Types are not inductive by
themselves either: `TaskLocals` says that a handler has a policy by the time it
stores one, a result by the time it records one, and that only guarded
handlers reach `end_deploy`. `IndInv` is the conjunction of the four; one lemma
per conjunct shows that each action preserves it, with lemmas for what moves a
handler, drops a guard, and adds or removes a node. The reason behind
exclusion is then short: only `begin_deploy` enters the section, on a guard
that is clear; only the holder's `end_deploy`, a restart that drops every
handler, or a removal after which the node is not live, clears it.
`OnlyDropsLeak` adds `GuardSeekers`, that only handlers which will call
`end_deploy` wait for the guard (`execute_rollback` does not pass
`begin_deploy`): `GuardTaken` and `HolderStays` then account for every guard
that is set by the handler that set it.

`TablesInv` says what the tables have to do with each other and with the
handlers' locals: the current policy of a registered node is its newest
version, a record names a version that holds its policy, a fresh id has no
rows, and the version a handler knows on its way to the agent holds the policy
it wants. A version is stored only by the handler in the section, so the one
that `latest_version` found in the no-op case is still the newest when it is recorded;
this is where exclusion enters. The refinement maps the owner of a node to the
handler in its section and the log to the version history: `begin_deploy` is
the abstract acquire, `store_policy` the commit, `end_deploy`, a drop or a
restart the release, registration and removal join and leave, and one lemma
shows that each other action is a stutter. Its assumption excludes FSM
rollbacks, which skip the guard (section 6).

`RunInv` relates the agent to the tables: the call of a handler is open only
while it waits, a call that was applied left the agent with the handler's policy,
and the newest version runs, or is on its way, or was rejected. It is claimed of
nodes all of whose calls were answered and none of whose stores was cut in two;
`EarlyInv` and `AuditInv` say which handlers can have a result and that a
record repeats its handler's. The attempt to prove `LatestSuccessIsRunning`
without the condition `Whole` failed for a reason: after a torn store the
current policy may be an older one that was rejected, a heartbeat makes the
node Active, and a retry is skipped as a no-op and recorded under the newest
version, which the agent does not run. TLC finds that behaviour with four
handlers and 35 states, beyond the three of `deploy_serial`. The definition now
has the condition.

### Leader election

For any number of controllers with distinct identifiers, any lease duration and
any delay below half of it:

| Theorem | States |
|---|---|
| `LeaseInvariant` | `Spec => []LeaseInv` |
| `LeaseIsExclusive` | `Spec => []LeaseExclusion` |
| `LeaderStaysLeader` | `Spec => []LeaderIsStable` |

`RowIsNewestGrant` is the strengthening for exclusion: the row runs exactly as
long as the grant of the controller it names, and every other grant is over. A
takeover needs `left + age < 0`, so the old lease is past even if the new
holder's clock is behind. For stability `LeaderHolds` says that, while renewals
are on time, the row names the controller that leads and runs for the duration
less the time since its last renewal; `HalfDuration`, that two intervals fit
into a lease, then leaves the next attempt no way to fail. Distinct identifiers
are an assumption of the theorems and not of the module: `main.rs:208` passes
`--cluster-id` as the identifier, and controllers given the same one are all
granted the lease, since `try_acquire_lease` renews whenever the row names the
caller.

### Events

For any buffer size, cap, streams, filters, processes and faults:

| Theorem | States |
|---|---|
| `EventTypes` | `Spec => []TypeOK` |
| `TaskStaysAlive` | `Spec => []TaskSurvives` |
| `StreamsAreFaithful` | `Spec => []StreamIsFaithful` |
| `LogStaysComplete` | `Spec => []LogIsComplete` |
| `HistoryIsNewestFirst` | the event history of the memory backend for every limit; no run states it |
| `HistoryStaysNewest` | `Spec => []HistoryIsNewest`, the same for the limits of the run |

`PositionInv` bounds the position of every receiver by what was sent and says
that one more than a buffer behind is in `behind`; a branch is disabled by a
lag only, so three disabled branches mean three receivers behind. `StreamInv`
keeps, besides the events yielded, that they are below the next position.
`LogInv` says that the event being stored is newer than what its channel has in
the log, so the `Vec` is in order per channel; `RoomInv` that it holds no more
than the task has taken, so that nothing is drained before the cap is
exceeded. What a query returns
is stated through `Nth`, the j-th of a set of numbers, with lemmas that it
exists and is increasing.

### FSM engine

For any nodes, states, definitions, instances, engines, clients and faults
other than those a condition excludes:

| Theorem | States | Conditions |
|---|---|---|
| `EngineTypes` | `Spec => []TypeOK` | none |
| `StatesAreDefined` | `Spec => []StateIsDefined` | `Settles` |
| `BatchesStayInOrder` | `Spec => []BatchesArePrefix` | `Settles`, `Rollout` |
| `StatusStaysFinal` | `AlertSpec => StatusIsFinal` | `Alone` |
| `HistoryStaysKept` | `AlertSpec => HistoryKept`, which no run states: an engine that writes alone | `Alone` |
| `ContextTracks` | `AlertSpec => []ContextTracksUntilRestart` | `Alone`, `Steadfast` |
| `CompletionsAreEarned` | `Spec => []CompletionIsEarned` | `Unforced` |

The conditions are on the requests and faults of an instance of the module, and
each is needed: `Settles`, definitions are not replaced or deleted; `Rollout`,
the fleet does not change and no instance is started with targets
(`BatchesArePrefix` itself is about definitions whose batches have one label); `Alone`, one
engine and no advance and cancel requests; `Steadfast`, no handler is dropped
and no write fails; `Unforced`, no advance requests and no adaptive starts
(either reaches a completion that was not earned: TLC finds both). Without `Alone` the last three properties are false
(`fsm_v_status` and section 6). The runs that check these properties satisfy their conditions.

`TypeInv` adds to the types that a worker with something to do holds a row and,
in an action, a definition, and that the fleet lists no node twice, which
bounds the batch cursor. `StateInv` says of the copies and the listed rows what
`StateIsDefined` says of stored ones: rows are overwritten by whoever writes
last, so any copy may become the row. `OwnInv` is why nothing is overwritten
under `Alone` although nothing locks an instance: a client is alone with the
instance it starts until the row is stored, the engine with the rows it listed
until its pass is over, hence what it holds extends the row. `TracksInv` says that
the copy of a worker at work, with the nodes of the deploy it is at, covers the
nodes that run what was deployed, and that the row does when nobody works; a
node that runs it and is not among the deployed ones was given up on, and is
among the failed ones, which never shrink.

`CompletionIsEarned` is stated for any definitions through sets of states that
no failed deploy leads to (`Gated`): a definition begins in such a set, enters
its states from one another only, and leaves a deploying one for another of
them through `all_succeeded` only. The states of the set that do not deploy and
are entered through `all_succeeded` alone have to be earned; for the canary of
`examples/` these are "validate" and "complete". `GateInv` follows a row, and every
copy of it, through the set: between actions nothing failed and all targets are
deployed to if the last result says so, and during a deploy the targets are
what is deployed, done and left to do. No condition on faults is needed. An action
that ends without a result of its own (`list_nodes` failed) leaves the last one
in place, and that one was earned by the same instance: an attempt to exclude
the fault turned out to be unnecessary.

### Counter conditions

For any nodes, conditions, reports, delays, buffer sizes and retention:

| Theorem | States | Conditions |
|---|---|---|
| `CounterTypes` | `Spec => []TypeOK` | none |
| `SustainedConditionFires` | `Spec => []SustainedFires` | the instance has targets |
| `FiredWasSustained` | `Spec => []FiresOnlyWhenSustained` | it has targets; at most one condition of a transition has a duration |
| `RatesNeedGrowth` | `Spec => []RateNeedsGrowth` | no sum of rates has a lower bound |

Without its conditions `FiresOnlyWhenSustained` is false (section 6). `SinceInv` says which condition the timestamp may be
about: it is not earlier than the `held` of the one timed condition, whatever
the others did to it in the last visit; `SingleInv` that for one condition the two
agree. How an evaluation visits the conditions is a function defined by
recursion on the number of conditions, so the proof needs that the function
exists. The library's induction theorems cannot be used here (they take an
operator as parameter), so `NatSets` proves induction for sets of numbers from
the well-foundedness of `<`, `RecursionExists` builds the function from it, and
`VisitedUnfolds` gives its equations; `VisitEarns` is then an induction over the
conditions visited. `RatesNeedGrowth` needs none of this history: conditions
joined by and are all met when the visit comes to true (`AndMeetsAll`), and a
rate above a natural number is that of a counter that grew (`RateIsGrowth`). A sum of rates is a
fold over a set, which is induction over data; the run has one.

### Webhooks

For any deliveries, retries and restarts:

| Theorem | States | Conditions |
|---|---|---|
| `SuccessStaysLast` | `AlertSpec => []SuccessIsLast` | none |
| `AttemptsStayAccounted` | `AlertSpec => []AttemptsAccounted` | none |
| `EntriesAlertOnce` | `AlertSpec => []AlertedOnce` | `Alone`, `Steadfast` |

`DeliveryInv` counts the attempts made: a record names one of them, no two name
the same, each has one, stored, on its way or lost to a failing store, unless a restart
came between, and a successful one is the last. The number of records is then a bijection with the attempts.
`OnceInv` says that no two alerts of one life of the controller are about the
same entry, and that all of them are about entries the worker's copy has, or
the row if nobody works on the instance; the entry a worker is at in `act` is
beyond them. That leaves one alert of an entry per life of the controller, and
`restarts + 1` in all.

### Compile options

`CompileOptions_proofs` proves, for every request over the full range of `u32`:

- `MatchIsEquality`: `policy_matches_request` compares sixteen fields; together
  they say that the rules and the normalised options are equal. This is the
  abstraction of `Deploy`, whose policies are compared with `=`.
- `RollbackRepeatsDeploy`: a version read back from its row gives the request
  it was stored for, which a second `normalize_options` leaves alone, and which
  the no-op test recognises. It rests on `NormalizeIsIdempotent`,
  `ColumnsKeepValues` and `RowKeepsPolicy`.
- `FlagsAreAdvertised`: for a request that passed `ensure_node_capabilities`
  the agent gives the compiler no argument that the node does not advertise,
  but for these: `--counters`, `--rate-limit` and `--conntrack`, which are never
  checked, a `--width` of at most 8, and the standalone `--target`. For `--rss`
  and `--int` the theorem says "the feature or its parameter": the agent adds
  `--rss` for any queue count but 4 and `--int` for any switch id but 0, and
  the controller then asks for `compile.rss_queues` or `compile.int_switch_id`
  only.
- `GapsAreReal`: the exceptions occur. For a node that advertises nothing,
  requests with the three unchecked options and any width up to 8 pass; with
  the two parameter capabilities alone, `--rss` and `--int` are given.
- `DefaultsAgree`: no options over gRPC and no fields over REST are the same
  deployment, and it is normalisation that makes it so.

### Assumptions

The assumptions on constants are `DeployAssumption`, `LeaseAssumption`,
`EventAssumption`, `FsmAssumption`, `NoInstAssumption` and `AlertAssumption`:
sizes, disjointness, and that the values standing for "none" are none of the
others. TLC evaluates them in every run of these modules. Further hypotheses
are in the theorems and listed above.

## 5. Only model-checked

- Liveness, that is `TasksEnd`, `DeployingIsTransient`, `DeadAgentGoesOffline`,
  `DeposedStepsDown`, `SettledFindLeader`, `SettledKeepLeader`,
  `EvaluationProgresses`, `DeliveryEnds`, `TaskCatchesUp` and
  `RecoversFromLag`: fairness is beyond the prover, as is `ENABLED`.
- `lease_v_sync` and `fsm_v_status`: counterexamples.

- `RateNeedsGrowth` for conditions that sum rates over nodes.

Every safety invariant and safety action property of a passing run is a theorem
under the conditions listed in section 4. `CompileOptions` is the other way round: proved only, because its values exceed
TLC's integers.

## 6. Conditions on the results

The properties hold under the conditions their definitions state. Where a
condition is there because the code departs from a document, the document is
named.

Deployment:

- `RecordedVersionExists`, `LatestSuccessIsRunning` and the refinement are
  about nodes no FSM rollback touched. `execute_rollback`
  (`fsm_engine.rs:961`) calls `deploy_to_node` without `begin_deploy`, whereas
  `REQUIREMENTS.md:35` says "only one deploy at a time per node".
- The guard is released by a call after the await, so a handler dropped with
  its client's connection leaves it set (`service.rs:1704`) until a restart or
  the removal of the node. `LeakedOnlyByDrop` says this is the only way.
- The no-op test (`deploy.rs:59`) compares with the policy stored last, which
  was stored before the agent accepted it. A policy the agent rejected is
  current all the same, and the next heartbeat makes the node Active, so a
  retry is answered "identical policy and options already active" while the
  agent runs the policy before. `LatestSuccessIsRunning` excludes exactly this
  (`Denied`) and holds for every other skip.
- After a `store_policy` cut in two (`Whole` says there was none) the newest
  version is not the current policy, and a skipped request is recorded under a
  version that holds another policy. `RecordedVersionExists` then promises
  the version only, and `LatestSuccessIsRunning` nothing.
- A heartbeat sets the state without asking `can_transition_to`;
  `REQUIREMENTS.md:19` says transitions are enforced by the storage layer.
- A deploy refused before the agent call leaves no record;
  `REQUIREMENTS.md:51` says every attempt creates one.
- A rollback looks at the ten newest versions; `REQUIREMENTS.md:56` says any
  previous version.
- The gRPC handler does not read `dry_run` (`REQUIREMENTS.md:547`).

FSM engine:

- `ContextTracksUntilRestart` and `StatusIsFinal` (`fsm_engine`) and `HistoryKept` (a theorem) hold for the
  engine alone, the first until a restart. With advance or cancel next to it the engine's
  write of a stale row breaks all three: `fsm_v_status` shows it for the
  status; the history (`REQUIREMENTS.md:90`) and the context
  (`REQUIREMENTS.md:89`) go the same way. They also fail when `start_instance`
  is interrupted between its first action and its row.
- `ContextTracksUntilRestart` knows a node as failed, not as deployed, when its
  deploy was given up (`deploy.rs:157`) and the agent acted on it later.
  `execute_rollback` visits `deployed_nodes` only (`fsm_engine.rs:891`), so a
  rollback misses such a node, and it goes on running what the others no longer
  run.
- `BatchesArePrefix` is for a fleet that has not changed: the cursor is an
  index into the current list of nodes. It is also for definitions whose
  batches all have one label: `batch_cursor` belongs to the instance and is
  never reset (`fsm_engine.rs:804`), so a batch with another label begins where
  the one before has ended, and skips nodes of its own list or finds all its
  batches done. "regions" in `MCFsmEngine` is such a definition.
- `CompletionIsEarned` is about all nodes an instance targeted, not about each
  action: when `list_nodes` fails, the result of the previous action stays and
  counts for this one. An operator's advance passes over a failure, and an
  adaptive instance targets nodes it may never deploy to.
- `EvaluationProgresses` says nothing of an instance in a state that a
  replaced definition no longer has: the engine skips it at every pass. While
  requests keep coming, their writes can undo the engine's each time.

- `AlertedOnce` allows one more alert per restart: the alert is sent before the
  row is written, and the engine enters the state again. `AttemptsAccounted` is
  about deliveries of the running process, and counts as an attempt's record one
  that could not be stored: `record_delivery` does not look at the result of
  `store_webhook_delivery` (`webhook.rs:178`), so the table may lack attempts.

Events:

- `LogIsComplete` is about channels that never lagged and stores that did not
  fail; what a lag or a restart leaves in a channel is not logged, and neither
  sender nor reader is told.
- `HistoryIsNewest` is about the memory backend, which answers in the order the
  events were stored. The sqlite backend sorts by timestamp, and a counter event
  has the `collected_at` of its agent, cut to seconds (`service.rs:166`,
  `events.rs:166`): a report that comes late, or several within a second, are
  in one place in one backend and in another in the other. What such a query
  returns is one `ORDER BY` and not modelled.
- The `else` branch of the persistence task ends it when all three receivers
  lag in one round (`main.rs:284`), and nothing starts it again:
  `TaskSurvives` and `TaskCatchesUp` say so.

Leader election:

- `LeaderIsStable` and `SettledKeepLeader` are for renewals on time (`timely`).
- `REQUIREMENTS.md:359` lists "gRPC write ops" among the leader guards; only
  REST handlers call `require_leader`.

Counter conditions:

- Conditions of one transition share one timestamp, so two of them with a
  duration count each other's time: joined by or, one can fire early
  and one can be started over for ever, whereas
  `REQUIREMENTS.md:111` says a condition must remain true for the specified
  duration. `FiresOnlyWhenSustained` is for at most one timed condition,
  `SustainedFires` for one condition.
- `FiresOnlyWhenSustained` and `SustainedFires` compare the timestamp logic with a
  reference that shares `Met`; wrong totals or rates are the subject of
  `RateNeedsGrowth`, and totals have no property of their own. Durations,
  delays and gaps are whole ticks, thresholds natural numbers.
- An instance without targets is judged by the nodes that have snapshots.
  While none has, evaluation answers false and keeps the timestamp, so the
  gap counts as time the condition has lasted; the theorems are for instances with targets.

## 7. Not modelled

- Two controllers that deploy over one database: the guard is a set of the
  process and a standby's gRPC handlers work like the leader's, so the
  exclusion theorem is about one process.
- REST authentication and the leader test of REST writes; metrics and TLS:
  configuration without state the rest depends on.
- Annotations, audit entries, templates, counter queries and the event queries
  of sqlite: single statements on tables nothing else reads.
- YAML parsing and `parse_duration`: text. `parse_duration` sums products in
  `u64` without a check, beyond TLC's integers; no state depends on the text.
- The command line, the simulator and the web console: clients of the
  interfaces modelled here (the simulated agents register, send heartbeats and
  accept rules as `Deploy`'s agents do). Protobuf code is generated.
- What `pacgate` computes.

## 8. Plan

Done: deployment, compile options, lease, FSM engine, webhooks, event log,
counter conditions; their runs; a theorem, under the conditions of section 4,
for every safety invariant and safety action property the passing runs check; the refinement of `SerialDeploy`.

1. `HaDeploy`: two controllers over one database, each with a guard of its own,
   the statements of `store_policy` apart and versions as rows: what they leave
   in the tables, and which of `TablesInv` remains.
2. `FsmEngine` with the and, or and not of conditions.
