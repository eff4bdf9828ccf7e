# Verification of the Autonomous Tactical Convoy Commander

TLA+ modules, TLC configurations and TLAPS proofs for the two programs of this
repository: the convoy simulator (`src/convoy_commander`) and the governance
service that watches it (`src/ai_governance`).

## 1. Inventory

### The simulator, `convoy_commander`

One thread runs `SimRunner.run` (`sim/runner.py`). A step of its loop goes through
fixed phases: scenario events, the electronic-warfare tick, weather, rebuilding of the spatial
grids, position fixes, delivery of radio messages, elections, broadcast of states, safe-mode
check, supervisor, driving, fuel check, collision detection. Concurrency is between *vehicles*:
they talk over a radio that loses and delays messages, and within a step each phase visits
all of them in order, so what one phase decided may be stale in the next.

| part | state | operations | what makes it correct | module |
|---|---|---|---|---|
| leader election (`coordination/leader_election.py`) | election in progress, best bid seen, last heartbeat, `is_leader`, `leader_id` of each vehicle | `on_heartbeat`, `on_election_message`, `check_and_elect`, `reset` | the memory of bids is sound, a winner beats all it heard, no early takeover, a leaderless convoy elects | LeaderElection |
| step and vehicle lifecycle (`sim/runner.py`, `vehicles/vehicle.py`) | status, fuel, last contact, comms-loss flags, spatial grids, clock | the phases above | statuses never come back, a loss of contact means safe mode, arrivals counted once, nobody drives dry, lookups find what they look up | ConvoyStep |
| state broadcasts and relays (`comms/network.py`) | packets in flight, relay paths, neighbour tables | `send_broadcast`, `relay_broadcast`, `tick`, pruning | relays die out, none comes back, who stopped vanishes | Radio |
| collision avoidance (`runner.py` 1241-1440) | windows, partner counts, hold and replan times | `_detect_collisions`, `_check_collision_replan` | holds are not circular, a brake gives way | Collisions |
| routes and supervisor (`planning/global_planner.py`, `supervisor/supervisor.py`) | waypoints, index, stuck timers, cooldown | advancing, skipping, replanning, `observe` | the goal is visited, the stuck are helped | Routes |
| commands (`vehicle.py`, `core/physics.py`, `planning/local_planner.py`) | command buffer, applied command, speed | overlays, `Vehicle.step`, safety envelope | an emergency brake reaches the wheels | Driving |
| multi-convoy (`sim/multi_runner.py`, `coordination/right_of_way.py`, `merge_split.py`) | groups, elections per group, yields | merge, split, messages, right of way | every vehicle in one group and led from it, nobody starves, crossings are settled | MultiConvoy |
| formation and CBBA (`coordination/cbba.py`, `formation.py`) | bundles, beliefs, slots, the leader | auction rounds, consensus, fallback | no place twice | Formation |
| position estimate (`vehicles/estimator.py`) | estimate, uncertainty, gate | propagation, GPS and landmark fixes, drift spike | a lock-out by the gate ends while the gate widens faster than the vehicle drifts | Estimate |
| electronic warfare (`ew/`) | readings, reports, location | sensing, reporting, triangulation | located from what was sensed, where and when it was | Jamming |
| weather, world, geometry | continuous quantities | | arithmetic, an input of the models | |
| event log, metrics, plots, scenarios, CLI | | | recording and presentation | |

### The governance service, `ai_governance`

A FastAPI process: handlers run in a pool of threads, a `DriftScheduler` thread runs
cycles, `WebhookDispatcher` workers deliver alerts. All share one sqlite connection
(`storage.py`), whose transactions belong to the connection and not to a thread.

| part | state | operations | what makes it correct | module |
|---|---|---|---|---|
| policy store (`policy_store.py`) | table `policy_versions`, one active | `commit`, `rollback_to`, `_ensure_table` | the active version is the latest one, none is lost | PolicyStore |
| audit log (`audit.py`) | table `audit_log`, the last hash cached per object | `append`, `verify_chain` | the chain verifies, returned entries are kept, rows never change | AuditLog |
| webhook dispatcher (`webhooks.py`) | queue, workers, targets, delivery log | `add_target`, `dispatch_async`, worker loop, `shutdown` | an accepted payload is settled once per target, shutdown drains and stops the workers | Webhooks, Notification |
| database (`storage.py`) | connection, lock, tables | `_tx`, inserts and queries | atomic transactions | SqliteConnection and the tables' users |
| alert engine, escalation (`alerts.py`, `escalation.py`) | alerts, rollbacks, cooldowns | `evaluate`, `escalate`, purge | cooldown holds, a rollback alert has a rollback, open alerts are kept | AlertEngine |
| drift scheduler (`scheduler.py`) | thread, stop event, statistics | `start`, `stop`, cycle | one loop at a time, a stopped loop ends | DriftScheduler |
| drift detection (`drift.py`) | decisions, baselines, windows | ingestion, `compute_baseline`, `detect`, purge | drift that is there is found and none invented | Drift |
| trend and forecast (`trend.py`, `forecast.py`) | snapshots of metrics, last announcement | regression, trend, `forecast` | a forecast lies on the line, a steady breach of a category's own rule is announced | Forecast |
| ground truth, accuracy guard (`feedback.py`, `accuracy_guard.py`) | labels, alerts, rollbacks | `apply_labels`, `check` | a breach closes the gate | Feedback |
| handlers of the API (`api.py`, `ingestion.py`, `retention.py`, `readiness.py`) | tables, audit trail, requests under way | ingestion, batches, acknowledgement, resolution, purge, readiness check | the trail is true, a verdict is founded | Handlers |
| services behind the API (`api.py`) | the global `_svc` and its attributes | first request, policy rollback, reload | one configuration and one database | Services |
| replay (`replay.py`) | the stored decisions, baseline and cooldown beside two sandboxes | replay | its live column is what the live service would report | Replay |
| snapshots (`snapshots.py`) | the last snapshot | difference of two stored records | pure comparison | |
| authentication (`auth.py`) | token buckets | `consume` | burst and refill bound what gets through | Auth |
| migrations (`migrations.py`) | schema, version table | `apply_migrations` | a recorded migration is complete | Migrations |
| reports, dashboards, CLI, expressions | | | presentation, pure evaluation | |

The hard behaviours are therefore: messages lost, late and overtaken (election); state
cached in one phase and used in a later one (step); statements of several threads
interleaved on one connection, failing and killed (policy store, audit log); queues at
their limit, retries and shutdown (webhooks); evaluations, escalations and requests of several
threads between the transactions of each other (alert engine); start and stop requests that
read and replace one global scheduler (drift scheduler). `PROJECT.json` lists each hazard at its
line with the properties that cover it.

## 2. The modules

### LeaderElection

`Init` is the convoy the runner builds: vehicle 0 leads, full tanks. `phase` separates
the delivery of messages from the rest of a step. `OnHeartbeat`, `OnElectionMessage`
are the two handlers of `_process_messages`; `RunElections` is the pass of
`check_and_elect` over all operational vehicles (nobody hears in the same step what is
sent in it: every packet takes at least 1 ms and `tick` runs before the pass), `Move` the
rest of the step as far as an election can see it (fuel, arrivals, breakdowns, clock),
`LeaderFailure` the scenario event with its `reset` of every vehicle. `Lose` and
`Straggle` are the radio: a message is dropped, or outlasts the step and is then
delivered before the newer ones, as `_in_flight` keeps its order. A priority is
`fuel * FuelWeight + (N - id)`, the shape of `compute_priority` with fuel in levels; `heard`
is a history variable: whose bids a vehicle has taken in since its last reset.

### ConvoyStep

The phases of `SimRunner.run` as one action each over the whole fleet, in the order of
the code, for statuses, fuel, silence (`gap`), the `_comms_lost_flags` (`lost`), the grids and the record of
arrivals. Who hears a message, is uncertain of its position, arrives, uses how much fuel or
is near whom is chosen freely. `query_radius` raises for an id without a position:
`Lookup` models that, and `phase = "raised"` is the end of the run by `KeyError`.

### PolicyStore, AuditLog on SqliteConnection

`SqliteConnection` is the shared connection: `working` is what statements see, `durable`
what survives a kill; `Commit` and `Rollback` end the transaction whoever opened it.
`PolicyStore` has one action per SQL statement of a request (`EnsureTable`, `Select`,
`Deactivate`, `Activate`, `CommitRequest`), because each request has a lock of its own
and so nothing orders the statements of two. `OtherCommit` and `OtherRollback` are
`GovernanceDB._tx` of the rest of the service. `AuditLog` has one action per step of
`append` (`Begin`, `ReadPrev`, `Insert`, `CommitAppend`, and the failures) for any number
of `AuditLog` objects, of which the `ShortLived` ones are dropped after an append, as the
test runner does; here transactions are serialised by `holder`, `GovernanceDB._lock`, and
`ForeignEnd` is `PolicyStore._tx`, which does not take it. `Restart` kills the process in any state. History variables
(`alone`, `smooth`, `appenders`, `cut`) remember which of these have happened, so that one
run and one theorem say what holds as long as which of them has not.

### Webhooks and Notification

`Webhooks` is the dispatcher: the bounded queue, workers that go through the targets one
by one, attempt after attempt, targets added meanwhile, payloads on which `json.dumps`
raises, the sentinels of `shutdown`. `Notification` is what it promises: a payload is
accepted or refused once, and each of its targets settled at most once before it is done.
The property `ImplementsNotification` is `Notification!Spec` under a mapping of
`results` to `outcome`.

### AlertEngine

The tables `alerts` and `rollbacks` and all that touches them. An evaluation is a thread in
`AlertEngine.evaluate`: the scheduler's loop or a handler of `GET /drift`. `Begin` takes the
report, `FireThresholdAlert`, `CheckCondition`, `FireRollback` and `RecordRollback` are one
database transaction each, in the order of the code; `Fail` is an exception of one of them,
`Restart` the end of the process. Which rules a report violates is chosen freely.
`BeginEscalation`, `ReadOverdue`, `RaiseEscalated` are `AlertEscalator.run` with the time it has
read at its beginning; `Acknowledge`, `Resolve`, `Purge` the requests. The history variables
`overlapped` and `forgot` say whether two evaluations have been under way at once and whether a purge
has removed alerts younger than the cooldown: the cooldown is read from the table, in a
transaction before the one that inserts.

### DriftScheduler

The global scheduler of `api.py` and the loop threads it has ever started. A request thread goes through
`start_scheduler` or `stop_scheduler` statement by statement, a loop thread through
`CheckEvent`, `FinishCycle` (whatever a cycle does, which is `AlertEngine`'s part) and `WakeUp`.
`JoinThread` may time out and forgets the thread all the same. The history variable
`serial` remembers whether the requests have so far come one at a time.

### The parts of MCSimulation and MCGovernance

The remaining modules are parts that meet through inputs only: a collision that
replans a route is a choice in `Routes`, a route that ends is one in `Collisions`. Each is
written as a specification of its own, and `MCSimulation` and `MCGovernance` check them side
by side: in a behaviour one part (`part`) moves and the others wait in an initial state of theirs.
Both extend the parts, so that a run checks, and `PartsProofs` and `DriftProofs` prove, one and the same definition.

* `MultiConvoy`: the groups of `MultiConvoyRunner`. `Split`, `CheckMerge` and `Absorb` rewrite
  the lists, the elections and `convoy_id`; `Coordinate` is messages and elections over all groups
  with the heartbeats still in the `air`; `CheckRightOfWay` visits one pair after the other, as
  the code does, because a pair sees what an earlier one decided: `pairs` are those still to be
  visited. `Moving` says when the groups are at the end of a step.
* `Radio`: the states of one vehicle on their way through the tables of the others. A relayed
  message is made anew and has no path, so hops are counted in the table entry only. `_in_flight` is
  a set of copies; `Precedes` is the order of the list, which decides what a table keeps of several
  states that arrive in one step.
* `Collisions`: the two passes of `_check_collision_replan`; the first chooses for every vehicle, the
  second carries out in the order of the list, and what one does to its partner's replan time
  the later one overwrites. `CarryOut` says in closed form what is left when the list is through.
* `Routes`: the index into the waypoints, moved by `_advance_waypoint`, by the skipping of a stuck
  vehicle and by every replan, with the supervisor's counters beside it.
* `Driving`: one vehicle and what its neighbours ask of it. `Overlaid` is the loop over the
  neighbours, `Step` the buffer of the actuator lag; a command is as old as its place from the end.
* `Formation`: `cbba_allocate` round by round with beliefs that differ, one award after the other
  for the vehicles left over, and the use of the slots while vehicles stop between two auctions.
* `Estimate`: error and uncertainty on a line. `Move` is `propagate`: the noise of the odometry, the bias of the position,
  which decays and which a fix shrinks, and the heading bias, a walk that nothing corrects, all add to the
  error, which nothing limits but the bound of a run; the drift rate may be zero. `refused` counts the
  unspoofed GPS fixes refused in the present lock-out, which is over when a fix gets in or when a step drifts faster than
  the gate widens (`Covered`); `reach` is the error it began with.
* `Jamming`: readings with their place and time, late reports of them, and those a location was computed
  from; `sensed` remembers every bearing that was really taken.
* `Drift`: `compute_baseline` and `detect` query by query, while decisions are ingested, sent
  again and purged; a window of decisions is the set of their places in the table, the upserts and
  judgements still to do are sets, done in the order of the code.
* `Forecast`: one metric of one category, with exact fractions for the regression. Detections of requests and of cycles store snapshots
  and judge by every rule, own ones against the category's baseline, those for "*" against that of "*"; a cycle
  then forecasts (`ForecastStep`), or fails before or in doing so (`ForecastFails`). `setup` is the configuration: the rules on
  the metric, and whether any rule, of this metric or another, names the category, without which there is no trend.
* `Feedback`: labels, and a check of the accuracy guard insert by insert, any of which may fail.
* `Handlers`: requests that store or delete in several transactions and audit last, the readiness
  check reading one condition after the other, a failure or kill between any two of them.
* `Services`: the attributes of `_svc` set one by one by the first request, a policy rollback and a
  reload, while other threads read them.
* `Migrations`: several processes on one file, statement by statement, with kills.
* `Replay`: the table as it was classified, the baseline once frozen and the cooldown of the engine are the live side
  (`LiveReport`); `ReplayWith` ingests, takes a baseline, detects and evaluates anew in sandboxes (`SandboxReport`).
  Decisions come with a timestamp, in any order, and may be sent again.
* `Auth`: the token buckets.

## 3. What the runs show

| run | instance | question |
|---|---|---|
| election_safety | 3 vehicles, 2 fuel levels, the first leader may depart and loses messages, one late message at a time | safety of the election |
| election_liveness | 3 vehicles, every message may be lost, nobody departs | a leaderless convoy elects; everybody settles on an operational leader |
| election_split_brain | as above | finding: several leaders after the leader failure |
| convoy_step | 3 vehicles, 2 units of fuel, timeout and warm-up of 1 step, with and without jammers | a loss of contact means safe mode, lookups resolve |
| policy_and_alerts | 3 versions, 2 requests; beside them 2 evaluations, 1 threshold ("warn"), 1 rollback condition, 3 alerts, time 0..3, cooldown 2 | safety of the policy table; cooldown, rollback records, escalation |
| policy_two_active | 3 versions, 2 requests | finding: two active versions |
| audit_log | 3 logs, one short-lived, 4 appends | safety of the chain |
| background | 3 payloads (two that raise), 2 workers, queue of 2, 2 targets, 2 attempts; beside them 2 request threads, 3 schedulers and 3 loop threads ever | refinement, settling; loops neither leak nor outlive their stop |
| simulation | the parts of the simulator, side by side | one or two properties of each part |
| governance | the parts of the service, side by side | one or two properties of each part |
| jammer_positions | 2 vehicles, 2 places, 3 steps | finding: a jammer located from one place |
| forecast_wildcard | one rule for "*", 4 values, 4 hours | finding: a breach nothing announced |

`policy_and_alerts` and `background` are, like `simulation` and `governance`, two parts side by side
of which one moves in a behaviour; `MCPolicyAndAlerts` and `MCBackground` extend the modules, so that the properties checked are those proved.

Each property that a run checks has a mutant, a wrong version of a definition that stands
before it in its module ("Wrong version: ...") and under which the property fails.
`TypeOK` and the properties `NoEarlyTakeover`, `ArrivalsCounted`, `NobodyDrivesDry`, `StoppedForGood`,
`NeverErased` and `RowsNeverChange` are not in a run: they are proved.

**Bounds.** Three vehicles give a leader that fails, a winner and a loser, or two
simultaneous winners and one that follows; a timeout of one step is the
shortest that lets a silence be shorter than, equal to and longer than it; two fuel
levels let two priorities change order, and `FuelWeight = 1` lets them tie. `clock`,
`silence` and `gap` stop one past the last value a guard distinguishes. One overdue
message at a time is a bound of the model. A step uses up at most 2 units of fuel. Two
requests suffice for every pairwise interleaving, and three ids for an old, a present and
a new version. Four appends let one log fork the chain of
another twice. More raising payloads than waiting workers is the case the liveness of
webhooks is about. In `policy_and_alerts` three alerts and three units of time are what it takes for an escalation
run to find overdue alerts on two rungs: a warning, its copy of an earlier run, and the copy made
in this one; two evaluations give every pairwise interleaving. Symmetry is used only in runs without liveness and over sets the
modules treat alike. In `simulation` three convoys cross or
merge for every pair of ranks; four vehicles are a chain of relays with a way round; three
vehicles are the smallest circle of holds; auctions run over every table of two bids for three
vehicles; the lag is one step, because the rounding of the clock makes it one or two; the error
goes to 4, while the narrowest gate lets in 2 and a spoofed fix moves the estimate by 3, and
the drift rate is 0 or 1. In `governance` the limits on rows read lie below what the
table holds, so that they bite; in four hours four snapshots are what a straight line and its breach take, under a rule of the category's own, two of them, or one for "*"; a replay
reads three of up to four decisions; three requests in all, by two clients, give every interleaving of the
transactions of two and leave one for what they left behind.

**Fairness.** `election_liveness` assumes that the loop goes on (`WF_vars(Next)`: it is a
`for` loop over the steps, `runner.py:292`, taken as long enough) and that of infinitely many heartbeats on a link some arrive
(`HeartbeatsGetThrough`, strong fairness: the loss probability on a link in range is below 1); nothing is assumed of bids. `background` assumes that a runnable thread is scheduled and that a POST ends
(it has a timeout): weak fairness of each worker and of `shutdown`. Callers owe nothing. The
deadlock check is off there, as an idle dispatcher waits for callers for ever and the scheduler may be idle or
have used up its bounds, and in `simulation` and `governance`, whose parts end (all vehicles stopped, all requests served).
Of the scheduler it assumes weak fairness of each loop thread only: it waits on its
event with a timeout, and a cycle catches its exceptions; requests owe nothing.

**Findings.** Four disagreements between the code and what its docs, comments or tests say have a run
and an entry in `PROJECT.json`: several leaders after a leader failure; two active policies; a jammer located
from a single place although `ew/detection.py:103` requires distinct ones; and no forecast for a category that only "*" thresholds
watch (`trend.py:198`), though `forecast.py:3-4` promises one for each metric.
Others met while modelling are facts of the code that the models contain:

* Election: if the vehicles that bid best depart, nobody left beats the remembered bid and nobody is ever
  elected (`leader_election.py:76`; the module's comment promises a leader, lines 18-19).
  `ARCHITECTURE.md:216` promises that the highest id wins ties, the lowest does
  (`leader_election.py:34`); `_check_fuel` (`runner.py:649`) leaves `is_leader` set on a vehicle in
  BREAKDOWN. With jammers the lookups of `runner.py:1118` read the grid of the previous step:
  `run` ends by `KeyError` after a vehicle stopped.
* Radio: `max_relay_hops` bounds nothing (`ARCHITECTURE.md:186`), because a relayed message is
  made anew (`runner.py:972`); the delivery ratio may exceed 1. The broadcast timer fires every 11th
  step at `dt` 0.1.
* Collisions: the comment at `runner.py:170` speaks of counts within a window, the counts never expire.
* Commands: vehicles on hold have no emergency braking (`runner.py:361`); the critical overlay
  replaces a harder planned brake; with `dt` greater than the lag and half a second, which the
  configuration allows, commands are thrown away before they mature and none is ever applied
  (`vehicle.py:175`); safe mode cuts the speed at once, beyond `max_decel`.
* Convoys: "lower priority yields" does not hold when the higher one already yields to a third; every
  expiry leaves one step without a yield; a convoy that is split always leaves its second half with id 1;
  the metrics of an absorbed convoy are dropped, and a collision across convoys is
  counted more than once.
* Formation: the consensus gives the best bid to the first agent that believes it, so the highest
  bidder may lose its slot although `cbba.py:12-14` says otherwise; the branch for ties is never taken.
* Supervisor and jamming: a vehicle that is stuck and isolated never gets "rescue" advice;
  vehicles that sense nothing never prune what they were told.
* Estimate: the gate can lock a vehicle out for ever. A vehicle that drifts as fast as its gate widens is refused
  every fix, and so may be one at rest with `drift_rate` 0 (`config.py:69` allows it) whose estimate a spoofed fix has moved;
  `PLAN.md:27` plans to count consecutive rejections, the code does not. `LockoutEnds` speaks of
  vehicles that drift more slowly.
* A rollback of `GovernanceDB._tx` in the middle of a policy commit makes `commit`
  return a version that is not stored, and a failing policy request does the same to an
  `append` of the audit log (this is why `VersionsRetained` and `ReturnedEntriesKept` have
  their `smooth`, `alone` and `cut`).
* The audit chain forks when an `AuditLog` object other than the service's own appends, as the test
  runner's does (`audit.py:77`, `test_runner.py:164`): each caches the last hash. `ChainIntactOfOne` says what is left.
* `shutdown` of the dispatcher gives up on a sentinel when the queue is full
  (`webhooks.py:130-133`), so a worker may never stop; `EarlyPayloadsSettle` holds all the same.
* An alert escalated to "rollback" gets no rollback record (`escalation.py:108`), so the agent stays
  safe; overlapping evaluations fire a condition twice within its cooldown, and so does one after a
  purge with a short retention. `acknowledged_alerts_only` of the retention policy is never read.
* Overlapping requests to start the scheduler may leave a loop that no stop reaches; a running
  scheduler keeps its configuration after a policy rollback or a reload.
* Overlapping first requests may mix databases among the services, a first request that fails leaves
  them broken for good, and a reload during the first build raises after it has replaced the
  configuration alone.
* Drift: a baseline over some categories overwrites the one of "*"; baselines of accuracy that become
  None stay as they were; the limits on rows starve rare categories.
* Trend: of three snapshots the first half is a single one, so every steep rise is called accelerating;
  a steady fall is called stable, also of a metric whose threshold watches for a fall; "either" forecasts
  a breach for a metric that returns to its baseline. A forecast for a "*" threshold measures from the category's own baseline
  (`trend.py:142`), detection from that of "*" (`drift.py:262`); of several own thresholds for a metric only the last is forecast.
  So `BreachAnnounced` speaks of the last own rule.
* Feedback: an event that is sent again loses its label; the guard reads the oldest 10000 decisions.
* Handlers: a batch that is refused halfway has stored its first part without an audit entry. A missing
  baseline is no blocker of readiness. A replay reads the oldest decisions up to its limit,
  and its live column differs from the live report when the baseline was taken earlier, from other rows, or when rows were classified
  under another configuration: `LiveColumnIsLive` says when it does not; it always fires what cools down.

## 4. What is proved

Each theorem holds for every value of the constants that satisfies the assumptions of the module:
`ASSUME`s in the modules that are checked one by one, and in the parts a definition such as
`RadioAssumption`, which the theorem has as a hypothesis and `MCSimulation` or `MCGovernance`
assumes. All theorems have the same shape: an inductive invariant, a lemma for
each action that it is kept, and a last lemma that it implies the property.

* `LeaderElectionProofs`: `TypeOK`; `MemoryNeverUnderestimates`, by an invariant that
  also speaks of the bids under way (fuel only falls, so a bid in flight is
  at least what its sender could bid now); `LeaderlessElects`; from these the action properties
  `VictoryIsJustified` and `NoEarlyTakeover`.
* `ConvoyStepProofs`: all six properties of the module. The invariant says phase by phase which vehicles may
  be in which state: between the fuel check and the drive no operational vehicle has an
  empty tank; the grid holds every operational vehicle from its rebuilding on, and only vehicles
  operational at the send phase; a flagged silence is never below the timeout.
* `PolicyStoreProofs`: all five properties of the module that hold. The strengthening says, statement by
  statement, what `working` must look like while a lone request is between its UPDATE and its
  commit, and that a deactivated table always has a request on its way to activate a version.
* `AuditLogProofs`: all five properties of the module. The strengthening orders the hashes on disk, ties every cached
  hash to a row and says that `working` exceeds `durable` by at most the entry of the holder of the lock.
* `WebhooksProofs`: the queue and the hands of the workers share the accepted payloads out
  (`AcceptedIsInOnePlace`); a worker takes a sentinel only behind everything accepted before it
  (`ShutdownDrains`: in the queue those lie in front of every sentinel); a target is
  logged only for a payload that is done or whose worker is past it. With these each step of the
  dispatcher is a step of `Notification` or changes nothing there
  (`DispatcherImplementsNotification`, the safety of the refinement that `background` checks).
* `AlertEngineProofs`: an evaluation that fired a rollback has its record, or is still at the step that
  makes it (`RollbacksRecorded`); whatever fired is remembered by the table for a
  cooldown, as long as evaluations do not overlap and no purge keeps less (`CooldownKept`);
  what the escalation run has read was overdue when it read it and stays so (`EscalationWaits`),
  and is not what was acknowledged before (`QuietNotEscalated`); an open alert stays.
* `DriftProofs`: the scheduler and what a cycle of it does.
  * `DriftScheduler`, `OneLoopAtATime`: as long as requests are serial, each scheduler but the
    current one is stopping and the current one is in one of five states (not launched, launched
    without a thread, with one, going on, told to stop), and a request in progress is at the statement
    where it expects the one it finds.
  * `Drift`: what is stored for a category, and what an upsert under way will store, is the rate of a set of its
    decisions that no earlier one of it is missing from (`BaselinesHold`); such a set stays the first of its category when
    decisions are appended. An expected category is found already, or its judgement is pending (`Expecting`); while
    nothing bad was ever ingested all rates are one (`NothingBad`).
  * `Forecast`: the sums of the regression are written as values along the sequence, so that what holds of them holds
    because no shortest one fails (`SumsOf`); the divisor of the slope is positive, since the times differ, and snapshots on a line
    give the line's slope. The invariant (`Forecasting`) says that a forecast step which has seen all snapshots, or all but the last,
    has told what follows from those it saw, and that an announcement is no older than it may be, although the
    scheduler's own memory of it ends with a restart.
* `PartsProofs`, part by part:
  * `MultiConvoy`: lists, convoy ids and elections describe the same partition (`Grouped`), which joins
    and cuts of lists keep; who yields is outranked by a group with vehicles, so that the
    highest never does (`Outranked`); in the pass over the pairs each crossing visited has one that yields (`Settled`).
  * `Collisions`: who holds gives way to a vehicle of a smaller number (`WaitsDownwards`), so no circle
    closes; the same invariant says that nobody has replanned before the second pass, which leaves the partner of a brake free.
  * `Routes`: the index never passes a destination not reached (`OnRoute`); the timers of a vehicle
    that stands still and of the supervisor run together (`Waiting`).
  * `Driving`: the demands in the buffer and those matured belong together, place by place (`Braking`).
  * `Radio`: a copy that has hopped h times is at least h broadcast periods old and no older than the window of
    relaying plus what it still has to fly (`CopiesAgeing`); a table entry exceeds that
    by the time since the last broadcast (`TableAgeing`).
  * `Formation`: a vehicle holds a slot in an auction only as its winner, two never the same
    (`Auctioning`); there are as many slots as vehicles, so that everyone left over finds one
    (`SlotsTaken`, by counting).
  * `Estimate`: as long as a lock-out lasts, the error and the refusals together exceed those of its beginning by no more than the gate
    lets through, because each move widens the gate by more than the drift (`Unsure`); an unspoofed fix beyond
    that is let in, whatever the error was. No bound on the error is assumed. `Jamming`: what a vehicle knows, or a report
    under way tells, somebody has sensed (`SensedOnly`).
  * `Feedback`: while breaches are enforced the one of the high-risk decisions is enforced or ahead (`Enforcing`).
  * `Migrations`: a version is recorded by a process that has run all its statements, in order
    (`Migrating`); tables that exist stay.
  * `Services`: as long as nothing overlaps and nothing fails, the published object is complete, or built or
    replaced as far as the one request under way has come (`Serving`).
  * `Handlers`: what is missing in the trail is a batch's, in the hands of a request, or a failed one's
    (`Truthful`); each condition a check has passed held, or was named, at a moment of it (`AllFounded`).
  * `Auth`: over every stretch of time, what a key got through in it and the tokens it has left never exceed the
    burst and the refill of that stretch (`RateKept`).
  * `Replay`: while one configuration has classified all rows the table is what a sandbox holds, and while nothing came
    before or among the rows of the baseline, the stored baseline is what a sandbox computes (`Replayable`).

Counting and induction rest on the library: `LeastNatural` (a set of naturals has a least element, from
the well-foundedness of finite sets under inclusion) takes the place of induction, and finite sets are counted by
`FiniteSetTheorems`.

Only model-checked: liveness (`LeaderEventually`, `FollowersSettle`, `EarlyPayloadsSettle`, `StoppedLoopEnds`: no
ENABLED or fairness reasoning in the prover). Of the refinement in `background` the safety is proved, its
fairness checked. Every invariant and action property a passing run checks is stated by a theorem.

## 5. Not modelled, and the plan

Not modelled: floating-point geometry (trajectories, the road graph search, bearings, signal
levels), weather and terrain data; road-point scouting; listings, dashboards, reports and file
formats; the evaluation of expressions. Where they bear on a protocol, their outcome is a
nondeterministic choice in a model. The covariance of the estimator is reduced to one dimension
and whole units. Of the snapshots of the dashboard, the comparison of two (`snapshots.py`) is arithmetic on two
records and not modelled, nor is the list of decisions that a replay reclassifies.

Plan: the composition of `Collisions` with `Routes`.
