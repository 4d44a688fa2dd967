# TLA+ models of the RAMA experiment artifact

RAMA ("resilient adaptive middleware") is a Go backend in front of three AI
workers (vision, OCR, speech) together with the Python programs that run
fault-injection experiments against it and turn their logs into results. This
directory models the parts in which something can go wrong over time or by
combination: the circuit breakers, the request path that uses them, the
health-check cycle, the response contract, the worker processes, the fault
scheduler, the campaign runner, and the way from the logs of a run to a row of
results and a conclusion. TLC checks each on a small instance; TLAPS proves
every safety property that TLC finds true, for every instance.

All paths below are relative to `src/`.

## 1. Inventory of the system

| Part | Code | State it keeps | Operations | Talks to |
|---|---|---|---|---|
| Circuit breaker | `backend/services/circuit_breaker.go` | state, failures, trials, lastFailure (under `cb.mu`) | `Allow`, `RecordSuccess`, `RecordFailure` | called by the request path and the orchestrator |
| Orchestrator | `backend/services/orchestrator.go` | started, cancel, done (under `startMu`), three breakers, the system state in Redis | `Start`, `Stop`, `HealthCheckCycle`, `evaluateAndUpdateState`, `IsWorkerAvailable`, `RecordWorker*`, `GetCurrentState` | workers (gRPC health), Redis |
| AI request path | `backend/services/ai_service.go` | singleflight group, cache entries | `DetectObjects`, `ExtractText`, `TranscribeAudio` | breakers, cache, workers |
| Fallback engine, classifier | `fallback_service.go`, `response_classifier.go` | none | `Build`, `Classify` | called for a combined request |
| Experiment mode | `backend/config/config.go` | the switches, fixed at startup | `validateExperimentMode` | read by every service |
| Workers | `workers/{vision,ocr,speech}/` | main process, subprocess, `_model_ready`, thread pool, semaphore | gRPC inference and health, HTTP probes, shutdown | Docker, the backend |
| Experiment runner | `automation/experimentctl/runner.py`, `state_machine.py` | run records, the state file, k6 process, the backend's record of the run | `run_full`, `run_one` | k6, fault scheduler, backend API |
| k6 runner | `k6_runner.py` | the k6 process | `start_k6`, `wait`, `terminate` | runner |
| Fault scheduler | `fault_scheduler.py` | events recorded, success flags | `run_fault` | Docker over SSH, backend API |
| Invalidator | `invalidator.py` | none; reads logs and exports of a run | `validate_all`, `_validate_run` | runner, run directories |
| Validator and pairing | `validator.py` | none; reads `final_summary.csv` and run directories | `validate_all`, `check_pairing` | files |
| Summary build, metric scripts | `experiments/postprocess/build_summary.py`, `export_requests.py`, `compute_*.py` | the exports and summaries in `processed/`, one file for each step | `main` and one script for each step | database, run directories, files |
| Stabilization search | `postprocess_utils.py`, `compute_tfs.py`, `compute_ttr.py` | the locals of a loop | `find_stabilization_point` | exports |
| Statistical analyzer | `automation/experimentctl/statistical_analyzer.py` | lists of paired numbers, tests and p-values | `analyze`, `_holm_bonferroni`, `_write_paired_summary` | `final_summary.csv` |
| Scripts, load profiles, screenshots, protos, compose files | `experiments/`, `proto/`, `deployments/` | none | | |

Where the difficulty is:

* **Interleaving.** Any number of requests share a breaker with the 15-second
  health checks. A request is admitted in one state of the breaker and reports
  in another. Requests for one key meet in a singleflight group.
* **Lifecycle.** `Start` and `Stop` race with the goroutine they control; the
  goroutine closes "the" done channel, which need not be its own.
* **Failure.** Workers hang, die, answer late or overload. Commands raise in
  the middle of a fault. The operator interrupts; the runner is killed; saves
  fail; events and replies are lost.
* **Limits.** Failure threshold, half-open trials, semaphore permits, thread
  pool, retry attempts; windows and ranks that are off by one.
* **Stale and partial data.** A build of the results is a chain of programs that
  each replace a file: it may fail or be killed half way, be filtered to one run,
  or find the database gone, while runs are repeated under the same name and
  run directories are deleted. A number may be missing on one side of a pair.

What makes each part correct:

* *breaker*: opens with the failure that reaches its threshold, keeps quiet for the reset
  timeout, lets a bounded number of probes through, is closed only by traffic,
  and always gives way in the end;
* *request path*: uses each breaker lawfully, charges it once per request, calls
  a worker once per key at a time, and always returns;
* *orchestrator*: one live cycle, whole states, silence after `Stop`;
* *response contract*: the table of ADR-004, a coherent answer, no spurious
  invalidation flag;
* *worker*: permits conserved, honest `/ready`, health checks not starved, no
  container without its subprocess;
* *fault scheduler*: one verdict per injection, and a true one;
* *runner*: nothing left running, no success unearned, every run accounted for;
  a resume passes over what its experiment has completed according to the file,
  and nothing else;
* *summary build*: a row is of one generation of data; a run that counts has been
  measured; the two validators agree;
* *stabilization search*: the first stable window, no other;
* *statistics*: a test sees whole pairs, Holm's correction is Holm's.

`PROJECT.json` lists the hazards of the code one by one, each at its line, with
the properties that cover it or the reason why none does.

## 2. Modules

```
BreakerRules                 the breaker as a value and its operations
 |- CircuitBreaker           one breaker and what its clients may do (abstract)
 |   `- CircuitBreakerHistory   ... with history variables and the promises of ADR-003
 |        `- CircuitBreakerProofs
 |- AIService                request path; refines CircuitBreaker, one instance per worker
 |   |- AIServiceProofs
 |   `- MCAIService          configurations for TLC
 `- Orchestrator             health-check cycle, start/stop, published state
     `- OrchestratorProofs
ExperimentMode               validateExperimentMode and the switches derived from it
 |- ResponseContract         Build and Classify under every accepted configuration
 `- MCAIService              its configurations must be accepted ones
InferenceWorker              one worker container
 `- InferenceWorkerProofs
ExperimentRunner             run_full / run_one / k6 / state file / --resume
 `- ExperimentRunnerProofs
FaultScheduler               run_fault; its events against the invalidator's rules
 `- FaultSchedulerProofs
RunValidity                  the rules of invalidator, validator and pairing
 `- DataPipeline             database, run directories, builds, final_summary.csv
     |- DataPipelineProofs
     `- MCDataPipeline       runs and outcomes for TLC
Stabilization                find_stabilization_point for TFS and TTR
Analysis                     analyze: pairs, tests, Holm; paired_summary.csv
MCNumbers                    ResponseContract, Stabilization and Analysis for TLC
 `- NumbersProofs            proofs about the three
```

### BreakerRules, CircuitBreaker, CircuitBreakerHistory

Every method of the Go breaker runs under its mutex, so each is a function from
breaker values to breaker values in `BreakerRules`: `Allows`/`Allow`,
`RecordSuccess`, `RecordFailure`, and `UpdateCircuitBreaker` for a health
result. Time is the one test the code makes: `elapsed` stands for
`time.Since(lastFailure) > ResetTimeout`; it becomes FALSE wherever the code
assigns `lastFailure` and TRUE when `ResetElapses`. `lastFailure` starts as the
zero time, so `elapsed` starts TRUE.

`CircuitBreaker` is the abstract specification of a breaker in use: a request
is admitted, is charged at most once, succeeds at most once, or ends without a
record. `CircuitBreakerHistory` adds `streak` (failures since the last
success), `granted` (requests admitted since the breaker last opened or closed)
and `cooled` (the reset timeout has passed since the last opening). These watch
and never constrain.

### AIService

The three service methods have the same control and differ in the worker they
call. A request is a job (worker, content) with a program counter: `Submit` or
`Refuse` at the breaker gate, `Lookup` in the cache, `JoinFlight` in
`requestGroup.Do`, `WorkerSucceeds`/`WorkerFails`, `Retry` or `AbandonRetry`,
`Land` (the leader leaves the group and wakes the waiters), `Collect`. Each
step is one access to shared state. `blamed` is the code's
`workerFailureRecorded`, `expired` the deadline inherited from the route.
`conf` holds the switches of the process and never changes: cache, retry,
breaker, what workers answer and what health checks find. `HandleError` maps
gRPC codes to the code's errors. The cache service, singleflight and the
workers are external: a write may be lost (its context is cancelled when
the request returns), an entry may expire, a worker answers anything in
`conf.codes`.

`Breaker(w) == INSTANCE CircuitBreaker WITH cb <- cbs[w], phase <- PhaseOf(w)`
is the refinement mapping, and `BreakerDiscipline` the claim that every step of
`AIService` is a step of it or a stutter. With the breaker switched off
(baseline) requests skip `Allow` but their outcome is still recorded, as in the
code; the claim is limited to processes with the breaker on.

### Orchestrator

`Start` and `Stop` are one step each, as they hold `startMu`; `Stop`'s wait is
separate (`StopReturns`), as it has released it. A cycle goroutine selects
(`Tick` or `SeeCancel`; both may be ready), collects the three concurrent checks
in any order (`CheckWorker`), applies them one by one in order of arrival
(`ApplyResult`), saves (`SaveState`, which may fail) and, once cancelled,
closes the channel the service holds at that moment (`Leave`). `Traffic` is
what requests and the clock do to the breakers meanwhile. The Redis key may
expire.

### ExperimentMode, ResponseContract

`ValidateExperimentMode` is translated for every combination of the switches;
`Settings` says what the services read from them. The handler that calls the
fallback engine is not in the repository; `FallbackEnabled` takes it to pass on
`ENABLE_CONTEXT_AWARE_FALLBACK`, as `fallback_service.go:58` ("true = treatment")
and the validation suggest. `Build` and `Classify` are
pure operators over the requested services and the worker results (`result`,
`error`, or neither); a process starts with any accepted configuration and
answers any request.

### InferenceWorker

Main process, subprocess, thread pool with its queue, semaphore and the
lifetime of every call. The subprocess serves calls once it has loaded its model
(`LoadModel`) and says so afterwards (`AnnounceReady`), by which time it may
already be draining. Inferences may hang for ever. A call whose caller has
given up still runs, as the code looks at the deadline before the semaphore and
after the inference only. Crashes lose calls; Docker starts the container again.

### FaultScheduler

`run_fault` for the three shapes a fault has, commands in order, parallel
commands and stages, and for a type it does not know (`NoBranch`). `asked` is the
sequence of events handed to `_record_event`,
`delivered` those the backend stored. A command may fail or raise; the operator
may interrupt anywhere; the `finally` block gives the verdict.

### ExperimentRunner

`Launch(e)` begins a campaign of experiment `e`: it takes the one state file up if
the file is that experiment's, and starts from nothing otherwise; the first save
then replaces what the file holds. All experiments have the same planned runs in
the model. `Select` walks the plan (`Skips` is
`_is_completed` under `--resume`), the phases of `run_one` follow with every
early return, `Record` updates the record, `Save` writes the file or fails. k6
exits when it likes or never. A launch ends by `Exit`, `Interrupt` or `Kill`;
`Abandon` is what a launch that ends early leaves behind. `earned` is a history
variable: which experiment has completed which run, whatever became of the file.

### RunValidity, DataPipeline

`RunValidity` is the rules as pure operators. A *sign* is something the files of
a run show (an OOM kill, a cache hit, a wrong number of users, ...); `FileCode`
and `RowCode` give the invalidator's code for it, `EventCodes` the codes for
missing fault events, which depend on the kind of scenario. `Status` is the
validator's, which has its own copy of these rules (`EventsMissing`) and stops
at the first objection; `PairStatus` is `check_pairing`.

`DataPipeline` composes them with the files they read. `db` holds all attempts
of a run, which share its scenario, condition and number; `raw` the files of
the last attempt, and how many attempts its export covers; `requests`
and `faults` the two CSV exports; `table` the summary of each step, as the
generation of the export it was computed from; `final` the joined summary.
`StartBuild` begins a build, of all runs or filtered to one; `ExportRequests`,
`ExportFaultEvents` or `KeepFaultEvents` (the database does not answer and the
old file stays), `Compute` for each metric script, `MergeFinal`; `StopBuild` is
a failing step, or a kill that cuts off the file being written. `Attempt` and
`DeleteRaw` happen meanwhile. `fresh` is a history variable: the last build
covered everything and nothing has changed since.

### Stabilization

`Read(r)` is one turn of the loop of `find_stabilization_point`, for TFS and TTR
at once (they share no variable): `streak`, `last_success_ts` and `found` are the
loop's locals and its result. `Init` is what the two scripts start from: the
first `fault_injected`, and the first `recovery_started`, where events for
target `all` are preferred (`RecoveryTimes`). `log` is what has been read.

### Analysis

`ReadScenario` and `ReadMetric` are the two loops of `analyze`; the cells of a
metric, missing ones included, are inputs. `PairRun` is one turn of the pairing
loop: its `try` appends to one list, then to the other, and the second `float()`
may raise after the first append (`AppendPair`). `TestMetric` chooses Wilcoxon or
Mann-Whitney and takes a p-value, an input, or none when the test cannot run.
`CorrectTests` is `_holm_bonferroni`; `WritePair` a row of `_write_paired_summary`.

`MCNumbers` puts this module, `Stabilization` and `ResponseContract` side by side
for one run of TLC: they compute and keep nothing between them.

## 3. Runs

| Run | Question | Instance and bounds | Distinct states |
|---|---|---|---|
| `breaker_safety` | Is the breaker right under concurrency? | 4 requests, the deployed thresholds 5 and 3 | 1,694 |
| `ai` | Is the request path right, and a lawful client, in each condition of the experiment? | 3 requests, one worker and content, 2 retries, thresholds 2 and 1, 6 configurations, all health results | 30,937 |
| `numbers` | Do contract, stabilization search and analysis compute what they should? | all accepted configurations, up to 3 of 4 service names; window 3, gap 1, 5 rows, times 1..4; 3 run numbers, 3 metrics, 2 pairs at least, p-values 2, 3, 6, 7 of 20 with level 6 | 2,650,332 |
| `pipeline` | Does a row of results mean what it says? | a cascade pair, one run repeated, 5 outcomes of its first attempt, 2 builds | 1,728,619 |
| `orchestrator` | Do start, stop and the cycle work together? | 2 workers, 2 cycles, one caller | 78,516 |
| `fault_scheduler` | Is the verdict on a fault single and true? | 2 commands or stages, all shapes and an unknown type, interrupts | 4,073 |
| `runner` | Does a campaign survive whatever ends a launch? | 2 runs, one with a fault, 2 experiments, 3 launches | 333,319 |
| `worker` | Does a worker survive hangs and crashes? | 3 calls, 2 threads, 1 permit | 37,312 |
| `breaker_direct_close` | violation, see section 6 | 3 requests | |
| `ai_probe_wedged` | violation, see section 6 | 2 requests | |
| `paired_summary` | violation, see section 6 | 3 run numbers, 1 metric | |
| `runner_orphan_k6` | violation, see section 6 | 2 runs, 2 experiments | |

Why the bounds are enough for the cases that matter:

* Four requests exceed the three trials, so a half-open period can be used up,
  and late reports of earlier requests can arrive in it. Five failures must come
  from several requests and health checks, so the threshold is met in every
  combination; the proofs remove this bound altogether.
* Three requests on one key give a leader and two waiters, or a leader, a
  waiter and a request that finds the flight just landed. Requests for other
  keys meet only at the breaker, which `breaker_safety` covers; breakers of
  different workers share nothing, and the proofs are for any number of them.
  The limit of two retries makes a first, a middle and a last attempt.
* Two cycles are the least in which a channel can be confused with its
  successor. One caller: see below.
* Three services, one unknown name and requests of length 0 to 3 cover
  duplicates and empty requests.
* A window of three has a first, a middle and a last row; five rows leave room
  for a failure or a long gap before, in and after a window, and times 1 to 4
  with a gap of 1 for equal, close and distant rows.
* Three metrics are three hypotheses: the least in which Holm's multipliers
  differ for a middle one, ties meet, and a test without a p-value counts. The
  p-values meet the level exactly at each rank (2 times 3, 3 times 2, 6 times 1,
  level 6), lie just above it (7), and are cut off at one (3 times 7). Three
  runs with a minimum of two pairs let one number be missing and a Wilcoxon
  test run nevertheless.
* One repeated run beside its partner, and two builds: stop one anywhere, repeat
  the run, finish the other, filtered or not. A cascade run is the kind to which
  all event rules apply.
* Three launches give: die, resume and die again, resume; or one experiment, the
  other, and the first again, which finds its file gone. Two runs give a run
  before and after the one that fails.
* Three calls on two threads and one permit: one inference hangs with the
  permit, another waits on the semaphore, and a health check queues.

Deadlock is checked except where the system stops by itself: in
`fault_scheduler` the call returns, in `numbers` and `paired_summary` the
computation ends, in `runner` and `runner_orphan_k6` the launches run out, and in
`pipeline` the attempts and builds.

`orchestrator` assumes one controlling goroutine whose `Stop` is not cut off by
its 10-second timeout (`Callers`, `StopTimesOut`); the program that calls `Start`
and `Stop` is not in the repository. Without that assumption a new
`Start` can put its channel in place before the old cycle leaves, and the
old cycle then closes it; `ClosesOwnChannel` and `QuietAfterStop` are promises
under the assumption only, in the run as in the proofs (`OneCaller`). The timeout
itself (`orchestrator.go:137`) is thus not exercised by a run; the mutant of the
two properties, a `Stop` that does not wait, shows what it would do. Nor does any
property speak of what a cancelled cycle charges before `Stop` returns.

### Properties

* Breaker: `ProbeBudget` (at most MaxTrials + 1 requests per period that is not
  CLOSED), `TripsAtThreshold` (a CLOSED breaker opens in the very step that makes
  its failures in a row the threshold, and in no other), `QuarantineHolds`, `OnlyTrafficCloses`,
  `OpenGivesWay` (liveness).
* Request path: `FlightSound` (the singleflight group mirrors the calls),
  `RetriesAreCharged`, `BadInputIsHarmless`, `BreakerDiscipline` (refinement),
  `EveryRequestReturns` and `RecordedProbesDecide` (liveness).
* Response contract: `ContractTable`, `FlagMeansMislabelled`,
  `ResponseCoherent`.
* Stabilization: `FindsFirstWindow` (the loop against the definition in its
  docstring), `RecoveredMeansStabilized` (TTR and TFS of a run never contradict
  each other).
* Analysis: `PairsMatched` (no shifted pairs), `HolmIsStepDown` (the loop over
  adjusted values against the step-down procedure, which rejects at the level
  itself, as the code does).
* Pipeline: `OneGeneration` (a row never mixes attempts), `PairedIsMeasured` (a
  pair that is reported paired has its numbers), `ValidatorsAgree`,
  `DeletionNeverCondemns`.
* Orchestrator: `NoLeakedCycle`, `ClosesOwnChannel`, `QuietAfterStop`,
  `StopTerminates` (liveness).
* Fault scheduler: `OneVerdict`, `VerdictIsTrue`, `StagesBracketed`,
  `CarriedThroughIsAccepted` (against the invalidator's fault rules, provided the
  events arrive).
* Runner: `ReturnsClean`, `SuccessIsEarned`, `ResumeIsSound` (with `--resume` no run
  is under way that the file lists as completed by this experiment, and none is
  listed, or passed over, that this experiment has not completed), `AllAccounted`,
  `FileOnlyGrows` (what is recorded of an experiment is lost only to a save by
  another experiment's launch), `CampaignEnds` (liveness). That a run is completed
  once only is not a property of this code: see section 6.
* Worker: `PermitsConserved`, `ReadyMeansServing` (ready implies serving; calls are
  served a moment before `/ready` says so), `HealthOutlivesHang`,
  `DeadIsNoticed` (liveness).

Each has a mutant in `PROJECT.json`: a plausible slip in the code that makes
TLC report that property. The mutated definitions stand beside the originals
and are marked "Mutation". Type invariants are not among them: they are proved,
as parts of the inductive invariants of section 5.

## 4. Fairness

* *Breaker*: the clock advances (`TimerExpires`); clients keep sending, as k6's
  load is constant during a run; an admitted request returns, as its worker
  call carries the route's deadline (`inheritDeadline`).
* *Request path*: a request in service takes its next step (goroutines are
  scheduled, calls have deadlines, the backoff is a timer). `BusySpec` adds
  clients that never stop sending each job. Strong fairness, as a breaker that
  opens now and then disables `Submit` now and then. Nothing is assumed of
  health checks, of the cache or of which answer a worker gives.
* *Orchestrator*: cycle goroutines are scheduled and each check ends in its
  5-second timeout. Strong fairness for `SeeCancel`: Go's `select` picks among
  ready cases at random, so a cancelled context is not passed over for ever.
* *Runner*: the process is scheduled and each call has a timeout, `wait` for k6
  (1800 s) included. k6 need never end.
* *Worker*: threads are scheduled and the semaphore wait times out; the monitor
  runs. No inference need ever end, and no crash need ever happen.

Fault scheduler, pipeline, stabilization and analysis have safety properties
only, and no fairness.

## 5. Proofs

The theorems hold for every value of the constants that the named assumptions
allow: any requests and positive thresholds (`BreakerConfigAssumption`:
`NewOrchestratorService` replaces a threshold that is not positive by a default),
any workers and configurations (`AIServiceAssumption`, `NamesAssumption`: no
worker is named by the empty string, which stands for "no job"), any workers
and cycles (`OrchestratorAssumption`), calls and permits (`WorkerAssumption`),
planned runs, experiments and launches (`RunnerAssumption`: `NoExperiment`, which
stands for a missing file, is no experiment's name), commands of a fault
(`FaultSchedulerAssumption`), windows, gaps and logs (`StabilizationAssumption`), runs, metrics, p-values and
a significance level below one (`AnalysisAssumption`; the code uses 0.05), runs,
outcomes and builds (`DataPipelineAssumption`). The response contract needs no
assumption on the services a client may name.

| Module | Theorem | States |
|---|---|---|
| `CircuitBreakerProofs` | `TypeCorrect`, `HistoryInvariant` | `Spec => []TypeOK`, `HSpec => []HistoryInv` |
| | `ProbesBounded` | `HSpec => []ProbeBudget` |
| | `QuarantineIsKept` | `HSpec => QuarantineHolds` |
| | `TripsExactly` | `HSpec => TripsAtThreshold` |
| | `ClosedByTrafficOnly` | `HSpec => OnlyTrafficCloses` |
| | `ClosedMeansBelowThreshold`, `TimerIsNotRestarted` | a CLOSED breaker is below its threshold; reports never restart the timer |
| | `HistoryOnlyWatches` | `HSpec => Spec` |
| `AIServiceProofs` | `FlightsAreSound` | `Spec => []FlightSound` |
| | `RetriesAreAccounted` | `Spec => []RetriesAreCharged` |
| | `BadInputNeverHarms` | `Spec => []BadInputIsHarmless` |
| | `RequestPathIsDisciplined` | `Spec => BreakerDiscipline` (refinement of `CircuitBreaker`) |
| | `BreakersAreSound`, `OpenBreakersCool` | counters, state and timer of every breaker agree, in a baseline process too |
| | `WedgeIsForever` | a wedged breaker stays wedged while no health check fails |
| | `RequestsRunDown` | a request in service runs out of steps |
| `OrchestratorProofs` | `StatesArePublishedWhole` | every published state has all workers |
| | `NoCycleLeaks` | `Spec => []NoLeakedCycle` |
| | `ChannelsAreTheirOwn` | `Spec => []ClosesOwnChannel`, for one caller |
| | `StoppedIsSilent` | `Spec => []QuietAfterStop`, for one caller |
| | `StopsAreAnswered` | a waiting `Stop` has a cycle that will close its channel, for one caller |
| `InferenceWorkerProofs` | `WorkerInvariant` | `Spec => []WorkerInv`, types included |
| | `PermitsAreConserved` | `Spec => []PermitsConserved` |
| | `ReadyIsHonest` | `Spec => []ReadyMeansServing` |
| | `CallsMoveUp` | the queue for threads is complete and never overtaken in |
| | `PoolIsNotExhausted` | hung inferences cannot fill a pool with more threads than permits |
| `ExperimentRunnerProofs` | `RunnerInvariant` | `Spec => []RunnerInv`, types included |
| | `RunsReturnClean` | `Spec => []ReturnsClean` |
| | `SuccessesAreEarned` | `Spec => []SuccessIsEarned` |
| | `ResumesAreSound` | `Spec => []ResumeIsSound` |
| | `RunsAreAccounted` | `Spec => []AllAccounted` |
| | `FileNeverShrinks` | `Spec => FileOnlyGrows` |
| | `LaunchesRunDown` | a launch runs out of steps |
| `FaultSchedulerProofs` | `FaultInvariant` | `Spec => []FaultInv`, types included |
| | `OneVerdictOnly` | `Spec => []OneVerdict` |
| | `VerdictsAreTrue` | `Spec => []VerdictIsTrue` |
| | `CarriedThroughAccepted` | `Spec => []CarriedThroughIsAccepted` |
| | `StagesAreBracketed` | `Spec => []StagesBracketed` |
| `NumbersProofs` | `LoopInvariant` | `Spec => []LoopInv` |
| | `FirstWindowFound` | `Spec => []FindsFirstWindow` |
| | `RecoveryImpliesStability` | `Spec => []RecoveredMeansStabilized` |
| | `PairsAreMatched` | `AnalysisSpec => []PairsMatched` |
| | `CorrectionIsHolm` | `AnalysisSpec => []HolmIsStepDown` |
| | `ContractIsKept` | `Response!Spec => []ContractTable` |
| | `FlaggedMeansMislabelled` | `Response!Spec => []FlagMeansMislabelled` |
| | `ResponsesAreCoherent` | `Response!Spec => []ResponseCoherent` |
| `DataPipelineProofs` | `RowsAreOfOneGeneration` | `Spec => []OneGeneration` |
| | `ValidatorsNeverDisagree` | `Spec => []ValidatorsAgree` |
| | `PairedRunsAreMeasured` | `Spec => []PairedIsMeasured` |
| | `DeletionIsHarmless` | `Spec => DeletionNeverCondemns` |

Along which argument:

* *Breaker.* `ProbeBudget` is not inductive: that a HALF_OPEN breaker has granted
  at most MaxTrials + 1 requests depends on `trials` counting them. `HistoryInv`
  ties each field to the history it summarises: CLOSED has `failures = streak <
  MaxFailures` and no trials; OPEN has granted nothing, and `elapsed` means
  exactly that the timeout since the opening has passed; HALF_OPEN has granted
  `trials + 1` and has cooled. `OperationsTyped` is the lemma on the operations,
  `FailureKeepsHistory` the case that requests and health checks share.
* *Request path.* `FlightInv` says where in its life a request may be with which
  attempt, blame and deadline, and strengthens `FlightSound` by what the
  leader and its waiters have in common; `RetriesAreCharged` follows from it.
  `HarmlessInv` adds that with bad input as the only failure every breaker stays
  in a set (`Unharmed`) closed under all that can happen to it. The refinement
  needs `PathInv`, that is `FlightInv` and one breaker for each worker: a
  request is, for the breaker of its own worker, admitted exactly while it may
  still report (`MayAct`), and nobody for the others. Each action of `AIService`
  is then a step of `CircuitBreaker` or a stutter, worker by worker. With it the
  breaker's safety theorems about its own variables hold of the request path,
  but only where requests ask the breaker. `BreakersSound` needs neither the
  mapping nor that: whatever its clients do, a breaker only moves by its own
  operations (`BreakerMoves`), and they keep it `Sound`. `Wedged` is stable
  because a breaker that refuses everybody and owes nobody an answer can be moved
  by a failing health check alone: it is the finding of section 6 for every
  instance.
* *Orchestrator.* A state is whole because a cycle counts no worker twice while it
  checks, loses none while it applies, and saves after the last (`WholeInv`). No
  cycle leaks because the cycle that is not cancelled is the one whose cancel
  function the service holds (`LeakInv`). With one caller whose `Stop` waits, only
  the latest cycle is ever alive (`LatestInv`), so the channel it closes is its
  own, and nothing is applied after `Stop` returns. `Answering` adds that a cycle
  is gone only with its channel closed.
* *Worker.* Conservation of permits needs that a call is in the queue once only and
  does not infer there (`QueuedOnce`). `AllQueued` is the converse, that every call
  waiting for a thread is in the queue, and `PoolKept` that threads are not
  overdrawn. `ReadyMeansServing` needs `DrainsToStop`: the event may be set while
  the server drains, but then the main process is on its way out.
* *Runner.* What runs in which phase (`NothingLeft`), what a RUNNING status has
  been through (`Earned`). Memory is the launch's own (`Owned`) and, where the file
  is of the same experiment, ahead of it (`Ahead`); the run at hand (`AtHand`) is
  not completed there (`Fresh`), so it is not in the file either; whatever either
  lists has been earned by the experiment named beside it (`Credited`); the runs
  before the one at hand are recorded (`Behind`).
* *Fault scheduler.* `FaultInv` says for each place in `run_fault` what has been
  recorded, run and flagged by then: `Flagged` what the three flags are worth,
  `Progressed` how far the commands are, `Counted` how many verdicts there are.
  Verdicts are counted only while the operator has not interrupted the call,
  since an interrupt takes the way through `finally` with `success` still true.
  For the stage events each has a place among all of them, odd for a start and
  even for a finish, and `Bracketed` says up to which place they are recorded
  without a gap at each place of `run_fault`; `StagesBracketed` is stated by the
  same places. Of a fault of an unknown type nothing is recorded (`Unheard`).
* *Response contract.* `BuildTells` reduces what `Build` and `Classify` count by
  position, where a service may be named twice or be unknown, to the sets of
  services named and obtained. With the switches that `validateExperimentMode`
  accepts (`AcceptedSettings`) the three properties follow by cases.
* *Stabilization.* `LoopInv` says what the counters mean: the last `streak` rows
  are successes without a long gap, the row before does not belong to them, and
  no stable window has been passed. `RecoveryImpliesStability` follows without a
  further induction, since a success for TTR is one for TFS.
* *Analysis.* The lists cannot agree in length by accident: a missing treatment
  number leaves the static list longer for good, and while the lists are as long
  as each other they hold the same runs (`PairInv`). Holm's correction is proved
  against its definition by way of the ranks: they are a bijection on the valid
  tests that follows the p-values (`RankOrders`, `RankOnto`); the adjusted value of a
  test is the maximum over the ranks up to its own, so it is below the level just
  when each of those is (`AdjustedSmall`); and in a tie the first carries the larger
  multiplier (`FirstOfTie`). The loop over adjusted values is a recursive function,
  used only after `LoopExists` has shown that there is one, and each induction is
  by the least rank that would be an exception (`SetInduction`). A level of one is
  excluded: `min(1.0, ...)` is then not below it where Holm's procedure rejects.
* *Pipeline.* The steps of a build that are over have worked on the export the
  build began with, which nothing replaces before its end (`PipelineInv`).
  `PairedIsMeasured` and `DeletionNeverCondemns` speak of a build that has seen
  all there is; `BuildInv` says that while nothing has happened since a full
  build began, its exports hold all that the database knows of every run, and
  each step that is over has dropped nobody. `ValidatorsAgree` needs no
  invariant: it compares the two copies of the rules.

* *Running down.* Four liveness properties have a theorem for the half of them
  that is safety. `Remaining` (of a request) and `StepsLeft` (of a launch) are
  natural numbers that each step of the actor lowers and no step of anybody else
  raises; for `StopTerminates` and `HealthOutlivesHang` the theorems say that whoever waits has
  something to wait for. What is left to fairness is that the actor is scheduled.

Only model-checked: the liveness properties themselves (`OpenGivesWay`,
`EveryRequestReturns`, `RecordedProbesDecide`, `StopTerminates`, `CampaignEnds`,
`HealthOutlivesHang`, `DeadIsNoticed`), since fairness and ENABLED are beyond the
prover, and the four violations of section 6, of which `WedgeIsForever` proves
the core of one.

## 6. Where code and documents differ

Four differences have a run that shows them:

* `breaker_direct_close`: `RecordSuccess` closes the breaker from any state, so a
  slow request admitted while CLOSED closes an OPEN breaker at once.
  `orchestrator.go:314-315` describes recovery as OPEN, HALF_OPEN, CLOSED.
* `ai_probe_wedged`: a probe answered `InvalidArgument` uses a trial up and
  records nothing. After MaxTrials + 1 of them the breaker stays HALF_OPEN and
  refuses all requests; no timer leads out. Cache hits do the same, since the
  breaker is asked before the cache. Only a late report of a request already
  under way, or a failing health check, gets it out.
* `paired_summary`: `_flt(a) or _flt(b)` at `statistical_analyzer.py:483` takes a
  score of 0.0 for a missing one, so the best result a run can have becomes an
  empty cell, and its difference too; `data_dictionary.md:84` calls the column the
  score of the static condition. In the published `paired_summary.csv`, 33 of 90
  rows have no `static_slo_score`.
* `runner_orphan_k6`: k6 runs from `runner.py:206` but the `try/finally` that
  stops it begins at line 261; an interrupt in the fault or recovery phase
  leaves it running, against the comment at lines 259-260.

Smaller ones met while modelling, without a run:

* `Allow` does not count the request that moves OPEN to HALF_OPEN, so a half-open
  period admits `HALF_OPEN_MAX_REQUESTS + 1` (`ProbeBudget` states the true bound).
* ADR-003:33 says the breaker is asked before each gRPC call; a retry does not
  ask (`Retry` has no such guard).
* `ai_service.go:74` says that static retry is active under SRB only;
  `validateExperimentMode` accepts a treatment with both switches set.
* `GetCurrentState` without a key reads every status UNHEALTHY but every level
  `LevelFull`, against the comment at `orchestrator.go:286`.
* `experimentctl/README.md:6` says `fault_finished` is always recorded; after
  an exception it is `fault_failed`. A `KeyboardInterrupt` passes `except
  Exception`, and `fault_finished` is recorded for a fault that was cut short
  (`VerdictIsTrue` makes the exception).
* A `fault.type` that `run_fault` does not know runs nothing, records nothing and
  returns True (`fault_scheduler.py:131-132` and no `else` at 165-240), which the
  runner takes for an injection that succeeded. The manifests have no such type,
  and the invalidator would miss `fault_injected` (`CarriedThroughIsAccepted`).
* There is one state file for all experiments (`runner.py:80`). A launch ignores a
  file of another one (97-102) and its first save replaces it (105-120): after
  `vps-pilot.yaml` between two launches of `vps-main-180.yaml`, which have different
  names, the second resumes from nothing.
* A failed save (`runner.py:394-400`) or a kill between the end of a run and its
  save makes `--resume` run it again; the runner warns of the former only.
* `data_dictionary.md:55` calls a test significant when `p_adj_holm < 0.05`;
  `statistical_analyzer.py:216` has `<=`. As p-values are rounded to six digits
  (162, 182), a value of exactly 0.05 can occur, and then counts as significant.
* ADR-004:29 says that `invalidator.py` marks `INVALID_STATIC_BASELINE_PARTIAL`; it
  has no such rule. `validator.py:150-157` has one, on a column `partial_count` that
  `final_summary.csv` does not have (its column is `partial`), so it never applies.
* One missing treatment number leaves lists of different lengths and costs the
  metric its Wilcoxon test, though the remaining pairs would do.
* `data_dictionary.md:44-45` gives `wilcoxon` as the test and 10 as the number of
  pairs; `analyze` falls back to Mann-Whitney and counts what it has. Nor does
  `analyze` read the verdict of the invalidator.
* Deleting `raw/` acquits runs whose logs were the evidence against them
  (`DeletionNeverCondemns` states the direction that holds).

## 7. Plan

Order of work so far: breaker, its client `AIService`, the orchestrator, the
response contract, worker, fault scheduler, runner; then stabilization, the rules
of validity and the summary build, the analysis; then the proofs of section 5.
Left, in this order:

1. A composition of `InferenceWorker` and `Orchestrator`: health checks that
   queue behind inferences longer than 5 seconds and are charged to the breaker
   of a healthy worker. It needs a notion of time that neither module has.
2. The files of a repeated run that outlive its attempt (`db_precheck.json`), as
   state of `DataPipeline`.

## 8. Not modelled

* Arithmetic within a row or a list: percentiles, means and medians, effect
  sizes, SciPy's p-values, throughput, scores (`compute_*.py` and the rest of
  `statistical_analyzer.py`). Which rows and numbers go in is modelled.
* Screenshots, shell scripts, k6 load profiles, protos and compose files: I/O,
  straight-line scripts and configuration.
* `LoadConfig`'s parsing and `Validate`'s range checks; metrics and logging; dry
  runs; `run_pilot`, which is `run_one` in a loop without the state file.
* Durations. Timeouts may fire at any time, so claims such as "within 5 seconds"
  are out of scope.
* Two runner processes on one state file: the code has no lock for it.
* `ctx.access_token()`, in a module that is not in the repository, is taken to
  answer; if it raised, it would do so in front of every post.
