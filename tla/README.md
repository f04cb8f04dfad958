# Verification of execution-aware-scanner in TLA+

TLA+ modules of the scanner agent, its eBPF programs and its cluster
aggregator, the TLC runs that check them on small instances, and TLAPS proofs
of what matters most. Paths are relative to the repository; `main.rs` alone is
`scanner-agent/src/main.rs`.

## 1. Inventory

| Part | State it keeps | Operations | What is hard | Modules |
|---|---|---|---|---|
| eBPF programs (`scanner-ebpf/`) | ring, counters per kind, tables per thread | tracepoints, kprobes, uprobes, `emit_event` | full rings and maps, counters shared by CPUs | `KernelProbes` |
| Event consumer (`event_consumer.rs`, `bpf_loader.rs`) | three batches, counters, time of the last flush | a tick drains the ring(s) and may flush; shutdown flush | four loops that must agree, a flush that blocks on the bus, regrouping by kind | `EventPipeline`, `OrderedDelivery` |
| State store (`state.rs`) | evidence per cgroup, finding ring | `apply_*`, `snapshot`, `clear`, `push` | shared by consumer and analysis; caps | `EventPipeline`, `WorkloadEvidence`, `FindingBoard` |
| Analysis pipeline (`main.rs`) | its snapshot, the findings of a round | wait, snapshot, scan, export, clear | minutes of work on a copy of shared state | `EventPipeline`, `FindingPath` |
| Agent lifecycle (`main.rs`) | tasks, channels | start, stop | three outcomes of eBPF, order of shutdown | `AgentLifecycle` |
| Streaming engine and alert sender (`streaming_engine.rs`, `webhook_sender.rs`) | risk and confidence of each path, last alerts, dedup cache | one handler per event, send with retries | alerts on crossings, cooldown, limits, retries | `AlertDelivery` |
| Attack graphs (`runtime_attack_graph_v2.rs`, `attack_graph.rs` and an older one) | graph, edge aggregates, paths | ingest, correlate, build paths | order of events, parallel edges, aggregation | `AttackGraph`, `AttackChains`, `RuntimeGraph` |
| Aggregator (`scanner-aggregator/`) | paths, correlations, heartbeats, peers, each under a lock | six handlers | several locks per request, cancelled handlers | `Aggregator` |
| Reliability (`reliability.rs`) | circuit breaker, metrics, watchdogs, verdict | call, record, beat, check | races on separate atomics and locks | `CircuitBreaker`, `HealthMonitor` |
| Enforcement (`tc_enforcer.rs`, `safe_enforcement.rs`, `enforcement.rs`, `remediator.rs`) | blocked addresses, quarantines, timers, rollback records, baselines | block, quarantine, release, enforce, roll back, respond | partial failure between maps, timers, a record that is replaced | `TrafficEnforcer`, `SafeEnforcement`, `SeccompResponse` |
| Scoring and score cache (`risk_engine.rs`) | cache and history per CVE | score, evaluate, cached score | thresholds and caps, a read lock dropped before the write | `RiskScoring`, `ScoreCache` |
| Finding path and export (`main.rs`, `vuln_detector.rs`, `sbom.rs`, `runtime_correlation.rs`, `intel.rs`, `webhook.rs`) | intel, findings under way, batches | refresh, scan, judge, export, flush | a guard held for a scan, lost answers, retries | `FindingPath`, `BatchExport` |
| Finding store and REST API (`state.rs`, `api/`, `slack_commands.rs`) | finding ring | pages, acknowledge | eviction between two pages | `FindingBoard` |
| Policy engine (`policy_engine.rs`) | list of policies | reload, evaluate | files that change while OPA runs | `PolicyEngine` |
| Cgroup resolver and pod cache (`cgroup.rs`, `k8s.rs`) | container per cgroup, pods | resolve, refresh, lookup | ids used again, a guess on cgroup v2 | `NameCaches` |
| Runtime mapper (`runtime_mapper.rs`) | libraries and vulnerabilities per process | batches of events, scans | events handled out of order, a cache | `ProcessEvidence` |
| Audit trail (`audit_trail.rs`) | a file per day | log, clean up | two writes per event, crashes | `AuditTrail` |
| Detectors (`anomaly_detector.rs`, `predictive_risk.rs`) | samples, histories | baseline, z-score, trend | short histories | `Detectors` |
| Execution proof (`execution_proof.rs`) | evidence per CVE | register, three kinds of events | order of registration and events | `ExecutionProof` |
| SLA tracker, validation, experiments, rendering, cloud importers, configuration, generated code | - | - | I/O and formatting | none, see section 8 |

The agent is one process: tasks on the tokio runtime that share the store
(mutex), the attack graph and the intel (rwlocks) and a bounded bus (mpsc). The
aggregator is another; agents post paths to it over HTTP. The eBPF programs run
in the kernel, on all CPUs at once, and reach the agent by the rings alone.

### What makes each part correct

- **eBPF programs.** Counters tell what was emitted and lost. An exec is
  kept back only within a second of one that passed the limiter, and if the
  event of that one was lost, the counter of losses shows it. A thread is
  judged by what its calls asked to move, and no large upload passes unseen.
- **Consumer, bus, store, analysis.** Memory is bounded whatever the order of
  events, ticks and slow flushes. No event leaves the pipeline uncounted. The
  messages of each kind reach the bus once, in order and in the end, although
  a flush blocks on a full bus and the engine may die in the middle. With the
  unified ring a process is announced before what it does. Evidence is scanned
  in at most one round. A stop request ends the consumer.
- **Lifecycle.** Once `main` waits for signals, a shutdown never cuts a round
  of the analysis short, drops no task at an await, keeps the health endpoint
  up until everything has drained, and ends.
- **Attack graph.** Transfers collapse into connections without being lost,
  in whatever order they come, and the updates tell a streaming reader what
  the graph holds. Enforcement asks for a whole chain of evidence, and
  evidence ranks before none.
- **Alerts.** No path becomes high in silence, no path is sent twice within
  the ttl unless the cache was too small, nothing is suppressed that was not
  sent, and an endpoint that never answers does not stop the engine.
- **Aggregator.** Every request is answered; the correlations that are stored
  belong to the paths that are stored, also after a handler was cancelled.
- **Reliability.** A closed circuit has fewer failures than the threshold
  unless a caller is between two of its writes; an open one is tried again.
  The table of the metrics catches up with the totals; the verdict follows the
  components.
- **Enforcement.** An address that is listed as blocked is dropped by both
  maps, and what is dropped without being listed was reported as a failure; no
  quarantine ends before its own time or its release; an action can be undone
  unless a later one replaced it; responses are on record and no profile
  forbids what a workload was known to do.
- **Findings.** A scan is judged by one state of the intel, and by a scale on
  which worse is never lower; what is exported is accounted for; caches catch
  up; a listing skips only what eviction moved; a container is misnamed only in
  the two ways the caches allow; a process is charged with what it runs;
  policies are those reported; a lost end of line costs the audit trail one
  event besides its own; steady workloads are quiet; chains follow the requests
  in the order they came, and proofs the events.

`PROJECT.json` lists the hazards behind these, each at its line, with the
properties that cover it.

## 2. Plan

Written, in the order of their importance:

1. `EventPipeline` and its abstract specification `OrderedDelivery`
2. `AgentLifecycle`
3. `Aggregator`
4. `AlertDelivery`
5. `AttackGraph`
6. `KernelProbes`
7. the guards: `CircuitBreaker`, `HealthMonitor`, `TrafficEnforcer`,
   `SafeEnforcement`, `SeccompResponse`, instantiated together by `MCGuards`
8. what becomes of a finding: `RiskScoring`, `FindingPath` (which EXTENDS it),
   `BatchExport` (which EXTENDS that), `ScoreCache`, `WorkloadEvidence`,
   `FindingBoard`, `NameCaches`, `ProcessEvidence`, `PolicyEngine`,
   `AuditTrail`, `Detectors`, `AttackChains`, `RuntimeGraph`,
   `ExecutionProof`, instantiated together by `MCFindings`; `RuntimeState`
   (`FindingBoard` and `WorkloadEvidence`, the two stores of `state.rs`) and
   `ObservedGraphs` (`AttackChains` and `RuntimeGraph`) state what two of them
   have in common

The theorems are in `EventPipeline_proofs`, `Aggregator_proofs`,
`AlertDelivery_proofs`, `KernelProbes_proofs`, `AttackGraph_proofs` (of
`AttackGraph` and `ObservedGraphs`), `Guards_proofs` (of `AgentLifecycle` and
the guards) and `Findings_proofs` (of the other parts of `MCFindings`), with the
lemmas about folds they share in `InductionFacts`.

`EventPipeline` instantiates `OrderedDelivery` once for each kind of event.
The consumer's end as `AgentLifecycle` sees it (a task that stops when it is
told, and is never told) is what `EventPipeline`'s `RequestStop` leaves to its
environment. The rings of `EventPipeline` are those that `KernelProbes` fills;
`KernelEmit` there is one `Reserve` and `WriteCount` here.

Still open, in this order:

1. An abstract specification of the evidence store that `EventPipeline` and
   `WorkloadEvidence` both implement.
2. `BackpressureController` (`reliability.rs:175`) once something passes it a
   queue length, and the SLA tracker once something calls it.

## 3. The modules and the code

Each variable and action names its code in a comment; `map` in `PROJECT.json`
gives the lines. An action is the code from one point at which another task
can see a difference to the next.

### `EventPipeline` (with `OrderedDelivery`)

| Model | Code |
|---|---|
| `ring`, `KernelEmit` | ring buffers; `emit_event` reserves a slot or counts a drop |
| `mode` | `EventSources::Legacy` (three rings) or `Unified` (one) |
| `pc`, `Tick`, `DrainOne`, `DrainEnd` | one tick of `EventConsumer::run`: the loops of `consume_exec_batch`, `_file_`, `_net_` and `consume_security_batch`, with their different `continue` and `break` |
| `batch`, `stats`, `store` | the three batches, `events_*` and `metrics`, `StateStore::apply_*` |
| `due`, `CheckFlush`, `CheckSkip` | `last_flush.elapsed() >= batch_timeout` or a full batch |
| `outbox`, `part`, `FlushSend`, `FlushNext`, `FlushDone` | `flush_all`: exec, file, net, each event with the messages it emits, `clear` at the end |
| `bus`, `engineUp` | the mpsc channel and the task that owns its receiver |
| `phase`, `snapshot`, `todo` | `run_analysis_pipeline`: snapshot under the mutex, scans without it, `clear` |
| `ConsumerStop`, `stop` | `shutdown.changed()`, the last `flush_all`, `break` |

An event is its id, its cgroup and a shape: kind, whether it parses and passes
the filters, and the traits that decide what a flush emits. `sent` and
`analysed` are history.

`OrderedDelivery` is the promise: what is accepted is handed over once, in
order, in the end. `Pending(k)` is the refinement mapping: the batch of the
kind, or, while a flush runs, what is left of it in the outbox. Its `Safety` is
proved of the consumer; the liveness is checked by TLC.

### `AgentLifecycle`

`main` is the place in `main.rs`' `main`, one step per task it spawns or
awaits. `StartAnalysis` spawns the analysis task, whose first tick comes at
once, and `InstallHandlers` is the first poll of `wait_for_shutdown`: between
the two a signal still kills the process (`EarlySignal`), perhaps in a round.
`task` is what became of the server, the intel refresh, the engine,
the consumer and the analysis. `StartConsumer`, `EbpfFails`, `Degraded` and
`NoEbpf` are the outcomes of `load_and_run_ebpf`. The two watch channels that
`main` creates are one variable, `told`, for the second: nobody ever writes the
first. Tasks may panic, the server may fail to bind, signals come when they
like.

### `AttackGraph`

`Begin`, `LoadLibrary`, `Transfer` and `Report` are the parts of
`build_attack_paths` in `main.rs` with the functions of
`runtime_attack_graph_v2.rs` they call. The graph is shared by all workloads
and rounds, and `main.rs` passes pid 0, load time 0, the endpoint 0.0.0.0:443
and 1024 bytes for everything; so there is one process node and one network
node, and what varies is how many parallel edges there are: `loads`,
`vulnerable`, `attempts`, and the connections in the order they were opened
(petgraph's `find_edge` returns the newest). `Depth` and `Confidence`
compute over these counts what `build_path_for_finding` collects
on its walk; confidences are in hundredths. `Rankings` allows ties to fall
either way. `told` is what a reader who replays the drained updates knows.
`EvidenceRanksFirst` compares scores only: a CVE that nothing supports stays
behind one with network activity even when others exploit it.

### `AlertDelivery`

`PathDetected`, `ConfidenceChanged`, `OtherEvent` and `Shutdown` are
`process_event`; a broadcast then goes through the senders (`FilterOut`,
`Refuse`, `Accept`, attempts, `Retry`), and the engine takes the next event
only when the last sender is through, as in the code. `cache` is the dedup
cache; when it is full one of the entries with the earliest time goes (a
`HashMap` in no order, so any of them). `Tick` may happen between any two
steps. Confidences are in tenths, severities their rank. `alerted` and `log`
are history.

### `Aggregator`

A request is always at one of the awaits of its handler (`Await` gives the
lock and the mode); an action takes the lock, does what the handler does up to
its next await, and keeps the guards that live on: `kept` is read off the
scopes and the one `drop`. A tokio `RwLock` is fair, hence the queues.
`HangUp` drops a handler at its await, as axum does when the client is gone.

### `KernelProbes`

A CPU runs one program at a time (`cpu`); the program itself is one step, but
what it shares with the other CPUs is not: reserving a place in the ring
and reading the counter (`Reserve`) is one step, writing the counter back and
submitting (`WriteCount`, `WriteDrop`) another, and the programs of other CPUs
come between the two. `lastEvent`, `seen`, `libraries` and `network` are
the maps of the exec limit, of the libraries and of the transfers, each with
its number of entries: an insert into a full map fails and is ignored, as in
the code. Programs of one thread do not overlap, since a thread is on one CPU.
`outcomes`, `raced`, `execs`, `lost`, `mapped`, `asked` and `uploaded` are
history, to hold against the maps: `execs` has every exec and whether the
limiter let it pass, `lost` those of them that found the ring full, `asked` the
bytes that calls asked to move at their entry, which is what the code adds up,
and `uploaded` what was really sent. `EventPipeline`'s ring is this one seen
from its reader, who is `Consume` here.

### The guards, composed by `MCGuards`

| Module | Model and code |
|---|---|
| `CircuitBreaker` | `circuit`, `failures` and `age` are the lock, the atomic and the lock that `CircuitBreaker` keeps; a caller (`at`) reads or writes one of them in a step, in the order of `should_proceed`, `record_success` and `record_failure`. `healthy` is the service behind it |
| `HealthMonitor` | `Record` adds to the totals and spawns the update of the table (`late`, `UpdateTable`); `HeartbeatTime` and `HeartbeatErrors` are the two writes of a heartbeat; `Check` reads one watchdog after the other into `check` |
| `TrafficEnforcer` | `rules` holds the kernel maps next to the sets of user space, each map with a size of its own (`Slots`); `Block`, `Unblock`, `Quarantine`, `Release`, `Flush` and `BlockIndicators` write both in the order of the code and stop where it does, when a map is missing or full; `failed` remembers the addresses whose last caller was told so. `TimerFires` is the task a quarantine spawns, which opens the object anew and so changes no map that is loaded |
| `SafeEnforcement` | `Enforce` with its gate, cooldown and command, `Rollback`; `applied` is keyed by the cleaned name |
| `SeccompResponse` | a response to a finding is a task (`response`); its steps are the awaits of `process_finding` and `apply_seccomp`: profile, file, status |

### Findings, composed by `MCFindings`

| Module | Model and code |
|---|---|
| `RiskScoring` | `calculate_exf_score`, `evaluate` and the thresholds in whole hundredths; a signal changes in any way between two evaluations |
| `FindingPath` | one workload of a round: `BeginScan` takes the read guard on the intel, `Report` or `ScanFails` ends the scan and judges what it found, `Handle` exports; the refresher fetches without the lock and writes under it. Tokio's lock is fair: a writer that waits keeps readers out |
| `BatchExport` | `Push`, `StartFlush` and `SendBatch` of the exporter that collects |
| `ScoreCache` | `Hit`, `Miss` and `Insert`: `get_cached_score` drops the read lock, computes, takes the write lock; `ClearExpired` |
| `WorkloadEvidence` | `WithEvent` is `apply_exec`, `apply_file` and `apply_net` with `capped_insert` and `push_signal`: what is kept of a workload's events when its sets, its signals and its bytes are full; `ClearEvidence` is the end of a round |
| `FindingBoard` | the ring with its cap, a client that lists page by page, acknowledging from the API and from Slack |
| `NameCaches` | pids with their cgroup and container, the walk over `/proc` one process at a time (`search`), the resolver's cache, the pod cache that is filled once. A process that starts ahead of the walk is met by it; the code may miss one it has listed past |
| `ProcessEvidence` | batches of events (any sequences, `Batches`), handled by three loops, one per kind; two tables and a cache; `mapped` and `mixed` are the history of what really happened, in order |
| `PolicyEngine` | files that are edited, a directory that is moved, `Reload`, an evaluation that asks OPA policy by policy |
| `AuditTrail` | two writes per event, a file per day, several loggers, crashes, writes that fail with nothing or a part of the event in the file, `Cleanup` under tasks that have the file open. `crossed`, `ragged` and `behind` record the causes that can spoil a line, not the spoiled lines |
| `Detectors` | samples with their z-score, scores with their trend, as fractions of whole numbers |
| `AttackChains` | `attack_graph.rs`: nodes and edges in insertion order, cheapest routes, strongly connected zones. `requested` is the sequence of all requests, those without effect too |
| `RuntimeGraph` | `runtime_attack_graph.rs`: edges in the order they are added, the paths of findings and the signals attached to them |
| `ExecutionProof` | registrations and three kinds of events, with their levels |

The parts of `MCGuards` and of `MCFindings` share no variable in the code and
none in the model: no interleaving of two of them can show what each alone does
not. So a behaviour of these modules picks one part (`subject`) and leaves the
others at their start; the properties are checked for all of them in one run,
and the number of states is the sum and not the product.

## 4. Runs

| Run | What it asks | Distinct states |
|---|---|---|
| `pipeline_safety` | `QueuesBounded`, `EveryEventAccounted`, `AnalysedAtMostOnce`, `ExecPrecedesLaterActivity` | 1 581 612 |
| `pipeline_delivery` | `ImplementsOrderedDelivery`, `ConsumerStops` | 188 718 |
| `lifecycle` | `ShutdownKeepsWork`, `BatchShutdownCompletes` | 1 092 |
| `attack_graph` | `BurstsCollapse`, `TransfersConserved`, `EnforceableIsEvident`, `EvidenceRanksFirst` | 1 025 641 |
| `alerts` | `HighMeansAlerted`, `RepeatsOnlyWhenCrowdedOut`, `SuppressedOnlyIfSent`, `EngineReturns` | 1 035 613 |
| `aggregator` | `ReportsAreRight`, `CalmRequestsAreAnswered` | 9 252 |
| `kernel_probes` | `CountersTrueUnlessRaced`, `ExecsAreLimited`, `ThreadsJudgedRightly` | 1 346 996 |
| `guards` | one or two properties of each of the five guards | 611 098 |
| `findings` | one property of each part, and that refreshes and rounds end | 553 619 |
| `pipeline_clear`, `lifecycle_shutdown`, `aggregator_two_paths` | one claim each that the code does not keep, see section 7 | - |

Some properties have two parts, each with its name in its module:

- `ShutdownKeepsWork`: no round is cut short but by a signal that comes before
  there is a handler, and no task is dropped at an await by a `main` that
  returns (`RoundsAreWhole`, `NothingCutShort`).
- `ReportsAreRight`: correlations belong to stored paths, and cover those
  whose request was answered (`StoredReportsAreCurrent`,
  `AnsweredPathsAreCorrelated`).
- `TransfersConserved`: edges account for the transfers, and the updates tell
  a reader the same.
- `ThreadsJudgedRightly`: the tables of a thread are exact as far as there was
  room (`ThreadTablesExact`), and an alarm comes for what it asked to move, and
  whenever it really sent too much (`AlarmsMatchTransfers`).
- `BlocksHold`: what is listed is dropped, and what is dropped unlisted was
  reported as a failure (`DroppedAsListed`); a cgroup is denied while a
  quarantine's timer waits, and only if it was quarantined
  (`DeniedWhileQuarantined`).
- `BreakerConverges`: the breaker settles with its service (`BreakerSettles`).
- `MonitorConverges`: the verdict settles with the components
  (`VerdictFollows`), the table of the metrics with the totals
  (`TableCatchesUp`).
- `StateLostOnlyToLimits`: a listing passes over no more findings than the ring
  evicted (`PagesLoseOnlyToEviction`), and the evidence of a workload is lost
  only to full sets and lists (`EvidenceLostOnlyToLimits`).
- `GraphsTellWhatWasSeen`: chains and zones are those of the requests that found
  their nodes known when they came (`ChainsFollowWhatWasSeen`), and a finding is told of the vulnerable libraries
  known when its CVE was associated (`FindingsToldOfSightings`).

What the other properties say is in the comment before each.

Bounds, and why they are enough to meet the interesting cases:

- `MCEventPipeline`: three events of five shapes (two messages, one message,
  filtered, unparsable, in no batch), one workload, batches of two, rings of
  two, a bus of one. A batch fills with an event left over, a ring overruns, a
  flush blocks in the middle of an event, and both ring layouts are initial
  states. For liveness two events, one ring place and one shape for each of the
  three flushes.
- `AgentLifecycle` is finite as it stands.
- `MCAttackGraph`: two libraries, two CVEs, two workloads, and five transfers,
  one to open an edge and four to boost it to a strong 0.9; times 1 to 3 with a
  window of 2; a report of one path, so that the rank decides what is
  reported. One CVE has a library the graph's own matcher does not know.
- `MCAlertDelivery`: three paths over a cache of two, so that it evicts; two
  senders that differ in filter, limit and retries; confidences below, at and
  above the threshold; the ttl longer than the cooldown; time past the ttl, so
  that an entry expires.
- `MCAggregator`: four mixes of four requests, so that two reports, a sync, a
  registration and every query meet; up to two clients hang up at any await.
- `MCKernelProbes`: two CPUs and two threads, four program runs, a ring and
  maps of one entry each, so that the second thread finds every map full; a
  clock that goes past the second of the exec limit; an upload of 21 and a
  download of 2, whose sums make ratios below ten, between ten and eleven and
  above, and lie on both sides of the threshold for large transfers; a send
  moves all it asks for or nothing. CPUs and threads are interchangeable, hence
  the symmetry (no liveness is checked there).
- `MCGuards`: three callers with a threshold of two, so that one is late when
  two have opened the circuit; two components and three records, so that
  several updates wait at once; three addresses, two slots in the XDP map and
  one each in the others, so that a block fails in the second map next to one
  that succeeded; two cgroups with two timers; two CVE names that cleaning
  makes equal, actions at and beyond the cooldown; three findings of two
  workloads.
- `MCFindings`: two CVEs, two retries, a threshold the endpoint filters by; two
  readers of the score cache and a life of two; a ring of three with four
  inserts, pages of one to three with a cap of two; three pids, two containers
  and two cgroups over a cache of one; two policy files; two loggers, three
  events and three days with a retention of one; a trend window of two; five
  nodes and eleven requests, findings and connections before their services
  among them; sets of one entry, one signal and a cap on bytes that two
  transfers pass, with three events; two libraries, three advisories of two
  CVEs and four calls of the first graph; three calls of the proof collector,
  which is a registration before, between or after two events.

Other bounds (`MaxTime`, `MaxCalls`, `MaxActions` and their like) stop counters
and stand in the guards of the actions that count; each is named in its module.

`CHECK_DEADLOCK FALSE` stands where every instance comes to an end: events,
time and requests are bounded, and the agent may stop. `guards` and `findings`
check for deadlock: their parts always have something to do, if only to look.

Every property of a passing run has a mutant in `PROJECT.json`: a variant of
one action or helper (commented `Faulty:` in the module) that the run refutes
the property for.

## 5. Fairness

- `EventPipeline`: weak fairness of the consumer, the engine and the analysis,
  since tokio polls a task whose await is ready, and of `BatchTimeout`, since
  time passes. Strong fairness of `ConsumerStop`: the branch of `select!` is
  ready again and again between ticks, and `select!` picks among ready branches
  at random. The kernel, `RequestStop` and the end of the engine have none.
- `AgentLifecycle`: weak fairness of `main`, of the end of a round and of the
  forwarder, strong fairness of `AnalysisStops` for the reason above. Signals,
  panics and new rounds have none.
- `AlertDelivery`: weak fairness of `Send`, since a reqwest client has a timeout
  and the backoff sleeps are finite. Events need not come.
- `Aggregator`: weak fairness of each handler whose lock is granted. Clients
  need not come and need not hang up.
- `OrderedDelivery`: weak fairness of `Deliver`, the promise "in the end".
- `CircuitBreaker`: weak fairness of time and of each caller, who comes again
  and goes on; the service has none. `HealthMonitor`: weak fairness of `Check`
  (a loop on an interval) and of the spawned `UpdateTable`; nobody need beat.
- `FindingPath`: weak fairness of `Refresh` (a loop), of the end of a scan and
  of `Handle`: requests end by an answer or by their timeout. New rounds have
  none.
- The rest: none; everything said of it is safety.

## 6. Proofs

Assumptions: the named `ASSUME` of each module, which TLC evaluates in each
run. `AgentLifecycle` has no constants. The theorems hold for every value of
the constants that meets them.

- **`EventPipeline_proofs`.** `TypeOK` says of a batch that it holds accepted
  events of its own kind only; with that it is inductive. `QueuesBounded` is
  not: a batch stays within its limit because of where the consumer is. The
  invariant `Bounds` adds `RoomByStage` (which batches have room at the start
  of which loop) and `RingsByKind` (a legacy ring never feeds another batch,
  so the filtered event that skips the test for a full batch did not fill
  one). `EveryEventAccounted` is inductive given the types.
  `AnalysedAtMostOnce` needs to know where an event is: `RingIds` (in a ring
  the ids rise, no id is in two rings and none is larger than what was
  produced) and `Whereabouts` (an event still in a ring or not yet produced is
  in no store, no round and not analysed; none is in the store of two
  workloads; a round holds part of the store; and what is in the store is
  analysed only if the round that is on has come past its workload).
  `ExecPrecedesLaterActivity` needs the order across a flush: `Ordered` says
  that whatever left the ring (`Passed`) is older than all that is in it, that
  in the outbox execs come first, and that an exec in a batch or in the outbox
  is younger than every event of another kind sent (`YoungerThanSent`).
  `DeliveryInOrder` is the refinement of `OrderedDelivery`, for each kind of
  event: initial states map to initial states, and each step appends to what is
  pending of the kind, hands over the first of it, or changes neither
  (`Moves`). It needs `Flushing` (outside a flush the outbox is empty, and an
  empty outbox has no part handed over) and lemmas on the messages left of a
  sequence of events. Regrouping by kind changes no stream: the execs of a
  flush are the batch of execs.
- **`Guards_proofs`, the lifecycle.** The invariant `Progress` says at each step of
  `main` what it knows of its tasks: nothing is cancelled while `main` lives,
  the analysis comes last, each await has passed only when its task was over.
  `ShutdownKeepsWork`, with the signal before the handlers as the only thing
  that cuts a round, and `ServedUntilDrained` follow.
- **`AlertDelivery_proofs`.** The cache forgets, so the property about repeats
  needs an invariant about what it still knows: `Logged` (nothing in it that was
  not broadcast), `Past`, and `Remembered` (every broadcast within the ttl is
  still in the cache, or `MaxDedup` other paths were broadcast since).
  Evicting the earliest entry of a full cache keeps it: the entries that stay
  are at least as young and of different paths. `SuppressedOnlyIfSent` is an
  action property and follows from `Logged`. `HighMeansAlerted` rests on the
  assumption that the alert threshold is not above the crossing.
- **`AttackGraph_proofs`.** `Newest` (the window is measured from the newest
  edge, not from the latest time) makes `BurstsCollapse` inductive.
  `EnforcementNeedsEvidence` is arithmetic over the score: without network
  activity, or without a CVE that is known or likely to be exploited, no depth
  reaches 80. `NoTransferIsLost` compares sums: aggregation changes one term of
  the sums of counts and bytes (`SumsOfOneChanged`), and replaying one update
  more (`HearOneMore`) makes of the totals before the totals after.
  `EvidenceAlwaysRanksFirst` shows that network activity adds more to a
  confidence than all that a path without evidence can have, and that the cut
  to the first entries keeps the order of a ranking. For `attack_graph.rs`,
  `ChainsInv` says that nodes have distinct ids, that edges join nodes that
  exist, and two things about the requests made so far: the nodes are the ids
  they brought, in the order in which they first did (`NamesFollow`), and the
  edges join exactly the pairs that they draw (`Observed`). `Seen` tells these
  pairs from the requests alone, without the graph: a finding counts if its
  service was named by then (`Known`), a connection if both its addresses have
  an owner by then (`Owns`), which is the first node in the graph that holds
  the address (`OwnerIsFirst`). A request brings at most one id, and its edge
  joins what its pair says (`RequestHandled`); a call of `build_from_k8s` is a
  sequence of them (`AllHandled`). Leading
  from one id to another is defined by closed sets: that no closed set parts
  two nodes gives a way between them, made injective by taking a shortest one
  (`LeadsByWay`), and a way cannot leave a closed set (`WayLeads`); among
  finitely many costs there is a least (`CheapestWay`). For
  `runtime_attack_graph.rs`, `RuntimeInv` says that the edges of a CVE are as
  many as its sightings (`SameCount`): an association adds an edge for each
  library known by then, and those are the ones loaded before
  (`KnownLibraries`), so it adds as many as there are new sightings
  (`FreshCounted`, a bijection).
- **`Aggregator_proofs`.** `OnTrack` says that a request waits only at the
  awaits of its own handler. With it `StillTrue` is inductive: what a request
  has computed from the paths is true of them until it has stored it, because
  it keeps its read guard on the paths over the wait for the report, so nobody
  writes them. `PathKept` says that a
  path that was added stays. `ReportsStayRight` needs besides that `correlate`
  over two clusters or more yields an entry for each CVE they share.
- **`KernelProbes_proofs`.** `Tallied` is what holds between reading a counter
  and writing it back: what a program has read leaves room for all that wait,
  itself included, and while nobody has raced, at most one waits and has read
  what the counter says. `LimiterInv` says that the entry of a thread tells its
  last exec past the limiter, and that a thread which let one pass and has no entry found
  the map full; a full map stays so. `LossesShow` says of each exec past the
  limiter that found the ring full that it waits at the counter of losses, or
  that the counter has left zero. `AccountsInv` says that a thread is on one
  CPU at most, and that what it asked to move is in its account but for the
  transfer on which its program is (`Turn` shows it once for every step of a
  program); `UploadsWithinAsked`, that it did not really send more than it
  asked to. A lemma on quotients gives the two sides of the alarm: over ten to
  one if there is one, eleven to one and there is one.
  `LibrariesInv` says that `LIBRARY_SEEN` holds all that was mapped as long as
  there is room for it.
- **`Guards_proofs`.** `BreakerTyped` adds to the types that a circuit
  that is not closed has a last failure, without which it would never be tried
  again. In the step that would leave a closed circuit at its threshold, the
  caller that counted the failure, or the one that closed the circuit, is the
  witness, and only it can leave that place. For `ActionsCanBeUndone` the
  cooldown that remains and the time since the last action add up to the
  cooldown, so an action is never taken too early. For
  `EveryApplicationRecorded`, `Paired` says that in what a response still has to
  do an `Apply` is followed by its `Profile` and none stands alone, and
  `StatusesCount` that a status more than applications is a response between
  the two; `FloorsHold` that a baseline never loses what a response began with.
  For `KernelBlocksAsListed`, `Matched` says what the two maps, the list and the
  failures have to do with one another, and is kept by each indicator of a
  feed, so by all of them (`AfterIndicators`); `Timed` says that only a
  quarantine has timers, and with the equality of what is denied and what was
  quarantined and not released, no timer that fires ends anything. `TotalsMatchTheTable` is about sums over components
  and over updates that wait: recording adds one term to the second, running an
  update moves its amount from the second to the first.
- **`Findings_proofs`.** The score is a clamped sum of terms that do not
  fall when a signal worsens; the thresholds and the KEV rules then keep the
  order, case by case. `OneIntelStatePerScan` and `NothingExportedUnseen` are
  about `ExportSpec`, the path and the batches together. A scan reads one state of the
  intel because a refresher that got to its write waits until no scan holds the
  guard. `ExportsAccounted` follows from what an export in progress has used
  up, and from the sequence of findings being the concatenation of those
  flushed, those in the flush and those collected. In the cache, an entry whose score is not the current one, or an
  insert that waits with another score, is older than the calm, so none of them
  survives a calm as long as the life of an entry. What an evaluation still has
  to ask is never empty and a rest of the list it began with (`PolicyInv`).
  `OthersAreKnown` says of every process whose container is not the one cached
  or just found for its cgroup that a history has the cgroup. `AuditInv` says
  that an event without a cause to spoil it stands behind an end of line and at
  the end of its file from its first write on (`LinesBegun`), that a file which
  does not end in an end of line has a task that is to write it, or has lost it
  (`LinesEnd`), and that two tasks which hold a file have crossed. That a
  set of pids has a least and a file's ends a last element follows from the
  well-foundedness of inclusion on finite sets (`SmallestOf`), without induction
  over numbers. `SteadyStaysQuiet` is arithmetic over the sums of equal numbers.
  `ProofInv` says that the pieces of evidence of a CVE are as many as the
  events that spoke for it and of the same processes, with a high one exactly
  if a connection did (`AsHappened`), and that what is registered was
  registered by a call; Log4Shell needs no registration for connections and
  execs (`Speaks`). For `ChargesAreTheImages`, what a batch leaves of a
  process is followed through the three loops: after the execs it is as the
  last exec left it, after the files it lists what its events mapped, and the
  connections change nothing of it. `PagesMissOnlyEvicted` rests on `BoardInv`:
  whatever was shown stands at a place already read (`ReadPlaces`) or has left
  the ring, and no more has left than was evicted. `LossesAreLimits` adds
  `StoreInv`, which says of each workload what its events so far have left of it
  (`Tells`): a full set keeps the first values, the signals are the last ones
  of all that were due, the bytes are the sum up to their cap.
- **`InductionFacts`.** Induction over numbers is said of sets: a subset of
  `0 .. n` that holds 0 and is closed under the successor is all of it
  (`UpTo`). From it: a step relation that can always be taken has a function
  that takes it n times (`StepwiseExists`), which is what a recursive function
  over the positions of a sequence is; sums over a changed or an enlarged
  domain; and `FlattenSeq` of an appended, concatenated or empty sequence.

Theorems that state no property of a run by name: `PipelineTyped`, `GraphTyped`,
`AlertsTyped`, `AggregatorTyped`, `BreakerTyped` (types and what makes them
inductive), `ServerGoesLast`, `ScoreInRange`, `TotalsMatchTheTable`; `DeliveryInOrder`, which is the
safety part of `ImplementsOrderedDelivery`; and `PagesMissOnlyEvicted`,
`ChainsTellTheGraph` and `FindingsHearOfSightings`, the parts of
`StateLostOnlyToLimits` and `GraphsTellWhatWasSeen`. Where a property joins two
modules that share no state, its theorem has both specifications as its
hypothesis.

Model-checked only: all liveness (`ConsumerStops`, `BatchShutdownCompletes`,
`EngineReturns`, `CalmRequestsAreAnswered`, `BreakerConverges`,
`MonitorConverges`, `RefreshesAndRoundsEnd`, and that what is pending of `OrderedDelivery` is handed
over in the end), which needs `ENABLED`. Every invariant that a passing run
checks is a theorem.

## 7. What the code does not keep

Three runs check what a comment says, and TLC shows a behaviour of the code
that breaks it. The texts with their lines are in `PROJECT.json` under
`findings`.

| Run | Claim | What happens |
|---|---|---|
| `pipeline_clear` | "Clear processed state" | evidence that arrives between snapshot and clear is cleared unseen |
| `lifecycle_shutdown` | a signal ends the agent | with a consumer, or in stream mode, `main` waits for a task nobody told |
| `aggregator_two_paths` | a received path is answered | two `add_path` hold what the other waits for |

Also met while modelling; the models do what the code does, and no run is spent
on these:

- The loader is dropped when `load_and_run_ebpf` returns, which detaches the
  programs it loaded (`main.rs:513`).
- `event_count` of a webhook's "events per minute" is never reset: a limit per
  process lifetime (`webhook_sender.rs:216`).
- `total_bytes` of a path counts parallel edges again
  (`runtime_attack_graph_v2.rs:734`), and all workloads are fed to the graph as
  process 0 (`main.rs:649`).
- The readiness handler asks a `ConsumerStats` that no task updates
  (`main.rs:853`).
- The struct for Trivy's report expects `results` and `vulnerabilities` in lower
  case, so a real report parses to an empty one, and an empty one is no reason
  to fall back to the SBOM. A CVE without CVSS scores 0.
- Slack's "Recent findings" are the five oldest.
- On cgroup v2 the resolver takes the first container it meets, whatever the
  id; `MisnamedOnlyWhenCrowded` says what can still be relied on.
- `has_execution_proof(min_confidence)` compares by the order of the enum, in
  which `High` is the least: low evidence is enough for a minimum of high, and
  high evidence alone is not for a minimum of low, against the comments at
  `execution_proof.rs:34-38`. `ProofIsWhatHappened` demands neither. No path of
  a log4j-core jar yields the package name `log4j-core`.
- The alarm for a "high outbound ratio (>10:1)" (`network.rs:135`) needs eleven
  bytes out for one in, and it counts what calls ask for, not what they move.
- A full ring loses the event of an exec, and the limiter then keeps the next
  ones of the thread back for a second all the same (`tracepoints.rs:90`).
- A signal before `wait_for_shutdown` is first polled kills the agent, perhaps
  in its first round (`main.rs:422`, 442).
- An error that is recorded between the two writes of a heartbeat is forgotten
  (`reliability.rs:324`).
- `flush_all` logs that all rules are flushed (`tc_enforcer.rs:314`), but an
  address whose block failed in the second map stays in the first.
- The audit trail promises "tamper-evident checksums" (`audit_trail.rs:4`); there
  are none. An end of line that could not be written is not reported, and spoils
  the next event.
- A finding or a connection that `attack_graph.rs` is told before its services
  leaves no trace.
- A trend takes an older window that is not there for scores of 0.
- A quarantine's task is to remove the denylist entry when its time is over
  (`tc_enforcer.rs:216`); it opens the object again and writes to maps of its
  own, so the entry stays.
- `reload` of a missing directory answers 0 and keeps the old policies;
  `evaluate_policy` never writes its input to OPA, and OPA reads the files at
  the time of the evaluation.
- `attack_graph.rs`: `build` adds no entry points or assets and no edge leads
  into a vulnerability, so `total_cvss` of a chain is 0; between parallel edges
  a chain may show the dearer one.
- `runtime_attack_graph.rs` promises chains of processes, libraries and
  connections; its paths hold a CVE and libraries only, a library loaded after
  the CVE was associated is missing, and one associated twice counts twice.
- A batch whose attempts are spent is given up, not collected again.

## 8. Not modelled

- `consume_with_timeout`, `read_kernel_metrics`, `prepare_federation_sync`,
  `RateLimiter::should_send`, `paths()` and `get_enforceable_paths` have no
  caller.
- The aggregator is not a member of the Cargo workspace, and `main.rs` of it
  uses `clusters` after a move (228, 241), so it does not compile as it stands;
  the model takes the evident meaning, a clone.
- In the shipped binary nobody sends `PathDetected`, `ConfidenceChanged` or
  `Shutdown` to the engine, and no webhook manager is attached to it; circuit
  breaker, production runner, score cache, batch exporter, the two older graphs,
  runtime mapper, execution proof collector and most of the enforcement have no
  caller in `main` either. Their modules say what they do when they are called.
- In `EventPipeline` the store has no limits (`WorkloadEvidence` has them, by
  itself); the texts and metrics of a round; findings without a library (the
  SBOM fallback) and a CVE found in two packages, in `AttackGraph`.
- Contents of kernel events, arguments read from user memory, and maps that
  are only written.
- `BackpressureController` (one lock and a queue length nobody passes in) and
  the SLA tracker (one owner, no caller, a gauge that is never reset).
- The queue of triggered scans (`api/scans.rs:13`): nobody reads it, so that
  after 32 requests each waits; there is nothing else to it.
- Validation, experiments and the simulator: demonstration data and reports.
- Rendering, exports to vendors, cloud importers, Slack's formats, the client
  of the remediator: text, or one stateless call.
- How Trivy, Grype, the feeds and OPA are called and their answers parsed,
  matching of names and versions, cgroup v1, OCI layers (no caller),
  configuration, generated code, the stubs of builds without eBPF.
- Linear regression and isolation scores of the detectors (floating point over
  short histories).

`PROJECT.json` gives, per component, what its modules leave out.
