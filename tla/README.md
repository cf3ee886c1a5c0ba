# TLA+ verification of ALAS

ALAS sizes and optimises aircraft: a Rust workspace that runs a pipeline of
analyses, searches a design space with a screening stage and a differential
evolution, and supervises external solvers (NASTRAN, MSES, AVL, OpenFOAM, ...).
Most of its 600 000 lines are floating-point numerics. What this directory
models is the part where numbers do not decide: who runs what, when it stops,
what is counted, and what is left when something is cancelled, times out or
never ends.

- [Inventory](#inventory) · [Modules](#modules-and-the-code) · [Runs](#runs-and-bounds)
- [Fairness](#fairness) · [Proofs](#proofs) · [Findings](#findings)
- [Not modelled](#not-modelled) · [What remains](#what-remains)

Run everything from this directory: `tlc -config <X>.cfg MC<Module>.tla`,
`tlapm <Module>_proofs.tla`. `PROJECT.json` lists the components, the runs,
the source lines of each definition, the hazards and the theorems.

## Inventory

Paths are below `src/crates/`.

| Component | Source | State it keeps | What is hard |
|---|---|---|---|
| Native evaluation pool | `alas-opt/.../optimizer/native_pool.rs` | shared work index, forwarded token, answers, history rows | lanes steal work; deadline and request at any step; reports out of order |
| Screening stage | `alas-opt/src/search/screening.rs` | sample position, counts, last batch | three limits and a clock on one loop; replay of a cut run |
| L-SHADE kernel, restoration | `alas-opt/src/search_methods/` | population, archive, counts | deadline inside a generation; replay by count |
| Product search | `alas-opt/.../product_search.rs`, `search_methods/product_de.rs` | evaluator, counts of each stage | stages share one budget and one clock |
| Batch evaluator and cache | `alas-opt/.../optimizer/{batch,evaluation_cache}.rs` | exact-reuse cache, counters | partial answers |
| Cancellation watch | `alas-opt/src/cancellation.rs` | flag, record of the request, phase, counters, stop reason | relaxed atomics of two threads |
| Reporting ladder | `alas-pipeline/src/dual_solver/verification.rs` | jobs done | waves of lanes, required jobs, reserve, request |
| Wall-clock guard | `alas-acceptance/src/bin/optimization_preset_audit.rs` | timeout, worker handle | timeout against a late answer |
| Supervised process | `alas-exec/src/process.rs` | child, two pipes, reader threads, live buffers | full pipes, surviving descendants, deadlines |
| NASTRAN and PATRAN adapters | `alas-struct/src/nastran*/`, `alas-pipeline/src/patran.rs` | child and text | the order of the supervised calls |
| OpenFOAM runner | `alas-exec/src/openfoam/process_runner.rs` | child, bounded channel, cancel flag | cancel, timeout and exit race; a pipe that outlives the tool |
| CFD study | `alas-cfd/src/{runner,stage,results,convergence}.rs` | stage of the study, evidence | cancel between tools; failure at each |
| Tool-result cache | `alas-exec/src/tool_cache.rs` and its callers | entries on disk, staging directories, a working directory per run | several writers of a key; crashes; partial restore |
| Downloads, launch ledger | `alas-exec/src/{download,supervise}.rs` | part files; launch records | cancel against completion; spawn window |
| Pipeline, snapshots | `alas-pipeline/src/pipeline.rs`, `pipeline/snapshots.rs` | stage results, the merged snapshot | downstream threads, publication under a lock |
| MSES section polars | `alas-pipeline/src/pipeline/mses_polars.rs` | shared counter, solved sections | holes left by a cancel |
| Desktop: CFD window | `alas-gui/src/cfd/` | run id, input revision, cancel flag, sweep table | messages of a run or of inputs that are over |
| Desktop: pipeline window, sandbox | `alas-gui/src/{run.rs,sandbox/}` | run id, result and its completeness, the case on view | a result under another case |
| Command line, add-ons, configuration | `alas-app`, `alas-addons`, `alas-config*`, `alas-i18n` | none across calls | - |
| Physics, geometry, reports, UAV data | `alas-aero`, `-geom`, `-mass`, `-struct`, `-prop`, `-mission`, `-report`, `-uav*`, ... | none | numerics |

How they interact. The guard (or the interface) starts the pipeline on a worker
thread and hands it a borrowed `AtomicBool`. Search stages poll the flag through
a `CancelScope`, which finds the guard's watch behind the flag and reports to
it. A stage sends batches to the batch evaluator, which passes the points that
the cache does not know to the pool. The pool's lanes cannot borrow the flag:
they poll an owned token into which the coordinator forwards it. After the
search the ladder re-evaluates the finalists on threads of its own. Downstream,
the analyses run on scoped threads (or one after the other); each that returns a
result merges it into the snapshot under the publisher's lock and sends a clone
to the window, which drains its queue once per frame. The MSES analysis spreads
its sections over workers. External tools run as supervised processes, and the
adapters may ask the tool cache before and after. The CFD window has a worker of
its own, which runs one study or a sweep; a study is a chain of OpenFOAM and
Gmsh tools that share one cancel flag.

What makes the components correct:

- *pool*: a batch is answered like one sequential loop would answer it, whatever
  the lanes do; a request costs one candidate per lane and ends the batch;
- *screening*: the scored points are a prefix of the seeded sample, limits are
  exact, a run stopped by its clock can be replayed, the counts agree;
- *watch, ladder, guard*: the record of the request is complete before anyone
  reacts to it, the drain has a bound, the row names who stopped the run, and
  the run is always collected;
- *process*: nobody waits for a full pipe, the text is whole or says that it is
  not, a stopped run leaves no process behind, and the call returns;
- *refinement*: kernel and restoration share one budget, one rejection cap and
  one clock, and the recorded counts reproduce a run its clock cut;
- *tool cache*: the files an entry names are published all together or not at
  all, a hit gives what a run would have given, but for a deletion that failed,
  and a failed restore is the only thing that can spoil a run;
- *CFD*: nothing is shown for inputs that have changed, a request costs at most
  one more tool, and a busy window becomes free, whatever the tools do;
- *pipeline window*: a snapshot never lacks what an earlier one had, parallel
  downstream analyses leave what serial ones leave, a result is shown under the
  case it was computed for, and every run is collected.

## Modules and the code

| Module | Models | State and actions |
|---|---|---|
| `BatchContract` | what the module documentation of `native_pool.rs` promises | an open batch, the token, the rows; `Open`, `Request`, `Deliver` in one step |
| `NativePool` | `NativeObjective`: `evaluate_batch`, `receive`, `forward_cancellation`, `run_lane` | coordinator `OpenBatch`, `Forward`, `ReceiveNothing`, `ReceiveReport`, `Collect`; each lane `Poll`, `Take` (`fetch_add`), `Report`; environment `CallerRequests`, `DeadlinePasses` |
| `ScreeningStage` | `screening::run`, `fitted_room`, and the accounting of `evaluate_block` | one action per test and per statement group of the loop; the clock and the flag change between any two |
| `CancelWatch` | `CancelWatch`, `CancelScope`, `evaluate_ordered`, `run_with_timeout`, and the kernel's phases | every load and store that the other thread can get between is a step of its own |
| `SolverRun` | `drain`, `wait_with_timeout`, `stop_process_tree`, `drained_text`, as `supervise` calls them | the supervisor, one reader thread per stream, the tool and its descendant, two pipes |
| `ToolCache` | `begin`, `restore`, `store` and what `avl.rs`, `vspaero.rs`, `mses/exec.rs` and the NASTRAN adapters do around them | per thread: the lookup, each line of a restore, the tool, each copy of a store, the rename; every step may fail, the removals whose result the code ignores included, and a process may end at any step |
| `RefinementStage` | `run_with_admission`, the restoration polls, `stage_limits`; the run and its replay | one action per test and batch of each phase, then the same with the recorded counts |
| `OpenFoamRun` | `run_command_with_callback` | the worker's loop (`drain`, look at cancel, timeout, exit), the tool, its descendant, the clock |
| `CfdStudy` | `run_study`, `execute_resolved_stage`, `persist_failed_results` | extends `OpenFoamRun` with the chain of tools and the evidence |
| `CfdLifecycle` | `start_run`, `start_sweep`, `cancel_run`, `load_result_json`, `mark_inputs_changed`, `poll` | extends `CfdStudy` with the window, the channel, and the worker between studies |
| `PolarPool` | `run_polars` | workers claim sections off a counter |
| `Downstream` | stage 5 of `pipeline.rs`, `snapshots.rs` | extends `PolarPool` with the analyses, the publisher's lock and the queue |
| `RunWindow` | `start_pipeline`, `poll_worker`, `request_pipeline_cancel`, the sandbox's `take_case`, `restore_case`, promote and discard | extends `Downstream` with the window and the worker |
| `MC*` | instances for TLC | bounds in the `.cfg` files |
| `*_proofs` | theorems about the module of that name | - |

`NativePool` implements `BatchContract` (`ImplementsContract`) under the mapping
*open batch* = the coordinator's batch while it is not idle. `ScreeningStage`
uses that contract: its `Evaluate` lets the objective answer any prefix the
contract allows. `CancelWatch` takes from `NativePool` that a batch adds at most
one late candidate per lane. `RefinementStage` cuts its
batches as `BatchContract` and `ScreeningStage` do.
`OpenFoamRun` ⊂ `CfdStudy` ⊂ `CfdLifecycle` and `PolarPool` ⊂ `Downstream` ⊂
`RunWindow` are compositions by `EXTENDS`: each adds its variables and frames
those below, and only the outermost has an `Init`, a `Next` and a configuration.

Abstractions worth knowing:

- *NativePool* identifies an answer with its index. The channel is a set: a
  report goes to the slot of its index, and reception order is not observable.
  A lane that is still leaving the loop of an earlier batch holds that batch's
  own exhausted queue, so opening a batch starts all lanes afresh.
- *ScreeningStage*: a point is its position in the sample. Points are taken to
  be different from each other, so the cache answers nothing across batches.
  Which points pass the pre-gate is chosen once, in `Init`, because the sample
  is a function of the seed. The pace of the last batch is not kept: any number
  of whole waves may fit.
- *CancelWatch*: the run is the initial population, generations, the return of
  the search and the ladder. Screening and restoration enter and poll exactly
  like generations. Loads and stores happen in program order. A property that
  fails so also fails under the code's relaxed ordering; `RecordIsFinal` rests
  on the flag's release store and acquire load, which the code has. Panics abort
  the release build, so `recv` never sees a disconnected channel. The guard
  without a limit has no race and is left out.
- *SolverRun* counts output in chunks. A kill reaches the process group, and a
  read of an open pipe does not fail. `Poll` may fail at any time.
- *ToolCache* has one key: another key has an entry and staging directories of
  its own. What a file holds is named (`input`, `result`, `stale`, `cut`,
  `drifted`, `broken`), and there are three files: one the tool writes, one it
  reads and writes, one it deletes. `setting.shared` says whether the two
  threads belong to one process, and so share a staging path. A manifest
  is a set of lines, for each names another file.
- *RefinementStage*: a point is its position in its phase, and whether it passes
  the pre-gate and finds something feasible is chosen when it is first drawn;
  the replay draws the same. A log entry is a batch: where it starts, what it drew,
  scored and analysed. The pilot prefix, `population_initial` = 0, the
  poll radius, and all that decides what a trial is (epsilon, archive,
  generator) are left out.
- *OpenFoamRun*: the two pipes are one stream. The loop drains the output before
  it looks at the flag and the timeout (`process_runner.rs:135`), so a tool that
  never pauses can keep it from both; `MaxOutput` bounds what a tool writes. A
  drain that its bound cut short is not marked in the result.
- *CfdStudy*: the probe is one step, blind to the flag. A cancel during
  `checkMesh` may be reported as a failed mesh (`convergence.rs` looks at the
  quality first), and a log that cannot be written turns a cancel into a failed
  launch (`stage.rs:207-221`): both are in the model. So is the override of
  `results.rs:112-116`: a study whose mesh does not qualify is recorded as failed
  whatever its tools did, so one that is cancelled before `checkMesh` has reported
  is always "Failed", and one that completed, or was cancelled later, may be
  (`Classified`). No property depends on the label.
- *CfdLifecycle*: the window outlives its workers, and a panic aborts the
  release build (`Cargo.toml`), so a worker always sends its last message. A
  sweep point whose directory cannot be made ends the sweep and leaves the later
  points pending; `IdleIsQuiet` therefore asks for settled points only after a
  request.
- *Downstream*: `run_mses_stage` returns before its pool where MSES is disabled,
  not installed, or the aircraft has no root section (`pipeline.rs:2059-2061`,
  `2093-2104`), and the branch publishes all the same. Whether it is `available`
  is chosen when a run starts; the pool is started only then, and the polars that
  `StageIsSerial` speaks of exist only then.
- *RunWindow*: the stages before and after the downstream analyses are one step
  each, with the looks at the flag around them. Log, figures and edits are left
  out.

Wrong variants for mutation stand next to the definition they replace, named
`<Definition>_<What is wrong>`.

## Runs and bounds

| Run | Bounds | States | Shows |
|---|---|---|---|
| `NativePool.cfg` | 2 lanes, up to 3 designs, 2 batches | 186 484 | all pool properties and the refinement |
| `NativePoolRequest.cfg` | 2 lanes, 3 designs, 1 batch | violation | `AfterRequestIsReported` |
| `ScreeningStage.cfg` | budget 4, 2 rejections, batches of 3, up to 2 lanes | 69 820 | prefix, exact limits, replay, accounting, termination |
| `ScreeningReplay.cfg` | the same | violation | `ReplayScoresTheSame` |
| `CancelWatch.cfg` | up to 3 lanes, 2 generations of 2, 5 jobs, 2 required | 93 648 | drain bound, record, classification, collection |
| `CancelWatchPlace.cfg` | 1 lane, 2 generations of 1, 3 jobs, 1 required | violation | `RecordedPlaceWasEntered` |
| `SolverRun.cfg` | 2 streams, pipes of 1 chunk, 2 chunks per process and stream | 264 482 | no pipe deadlock, whole text, dead tree, return |
| `SolverRunCapture.cfg` | 1 stream, 1 chunk | violation | `CapturedBytesAreReturned` |
| `ToolCache.cfg` | 2 threads, 3 invocations, 3 files | 782 155 | whole entries, faithful hits, what a half restore can do |
| `RefinementStage.cfg` | budgets 1 and 8, 5 rejections, population 3 down to 2, schedules of 3 and 4, 2 polls of 1 free variable | 3 601 600 | limits across phases, replay |
| `CfdLifecycle.cfg` | 2 runs, 2 plans, sweeps of 2 points, 1 chunk of output, 1 revision | 574 450 | nothing stale shown, one more tool, rest, return |
| `RunWindow.cfg` | 2 runs, 2 cases, 3 analyses, 3 sections on up to 2 workers | 964 628 | snapshots, serial outcome, what is shown, collection |

Why these are enough to meet the interesting cases:

- *pool*: three designs on two lanes make a lane return for a second candidate
  and a `fetch_add` run past the end; a batch of one leaves a lane idle; the
  second batch starts on a token the first one set.
- *screening*: four passed points in batches of three give a calibration wave, a
  full batch and one the budget shortens; two rejections end a stage inside a
  batch and on its edge. All gate patterns of the longest sample (six points)
  are enumerated.
- *watch*: five jobs, two required, on up to three lanes give two or three
  waves, a wave wider than the required jobs and one cut to the jobs left; with
  one lane the required jobs widen the wave. The guard may give up in each state.
- *process*: each pipe holds less than one process writes, so both block their
  writer; the descendant can survive, hang, or end before the launcher.
- *tool cache*: the third invocation reads an entry while the other thread
  writes one, or comes after a store, a crash, or both; with three files a copy
  can be cut before, in and behind the one that matters. Symmetry exchanges the
  two threads, which nothing tells apart.
- *refinement*: budget eight and population three give several generations of a
  shrinking population and a restoration of more than one poll, each of which
  budget, cap, clock, stagnation or request can end; a budget of one leaves a
  population below what the operators need.
- *CFD*: a second run needs the flag and the channel of the first; one plan has
  the shortest chain of tools and the other the longest, and a sweep of two
  points has one before and one after the point a request hits.
- *window*: three analyses are the one that may fail the run, the one with the
  pool, and another; three sections let a worker leave a hole between solved
  ones; the second case is the one a late message could be installed in.

`CHECK_DEADLOCK FALSE` is set where the program ends: after the last batch, the
stage's return, the collected run, the supervisor's return, the last invocation,
and the window at rest after the bounded number of runs.

Properties, by module (the invariant `TypeOK` of each is not repeated):

- `NativePool`: `EachStartedOnce` (work stealing partitions the indices handed
  out), `NothingOwedAtCollect`, `OneLateCandidatePerLane`, `ImplementsContract`
  (refinement), `RequestEndsBatch` (liveness).
- `ScreeningStage`: `ScoredIsSamplePrefix`, `UntimedRunIsSequential` (against a
  reference definition of the sequential loop), `ReplayAnalysesTheSame`,
  `StageCountsAgree`, `StageEnds` (liveness).
- `CancelWatch`: `DrainCostBounded`, `CountedAtMostTwice`,
  `ReportNamesTheRequester`, `RecordIsFinal` (action property), `RunIsCollected`
  (liveness).
- `SolverRun`: `TextWithoutNoteIsWhole`, `StoppedRunIsDead`, `EveryRunReturns`
  and `ToolIsNeverStalled` (liveness).
- `ToolCache`: `EntryIsComplete`, `HitIsTheRun`,
  `OnlyAHalfRestoreChangesARun`. The first two are stated for threads of
  different processes, or in the weaker form that still holds when two threads
  share the staging path.
- `RefinementStage`: `LimitsHold`, `ReplayIsTheRun` (the replay sends the same
  batches and finds the same winner).
- `CfdLifecycle`: `ShownIsForTheInputs`, `OneMoreToolAtMost`, `IdleIsQuiet`,
  `BusyEnds` (liveness).
- `RunWindow`: `SnapshotsAreCumulative`, `StageIsSerial`, `ShownIsWhatItClaims`,
  `RunEnds` (liveness).

## Fairness

- *NativePool*: the coordinator's loop and each lane's loop are operating-system
  threads and go on. A coupled evaluation may last for ever while nobody asks it
  to stop, so a lane is promised to report only once its token is set: this is
  what makes `RequestEndsBatch` say something about forwarding.
- *ScreeningStage*: the loop goes on (its evaluator returns). Neither the clock
  nor a request is promised.
- *CancelWatch*: both threads go on and every analysis ends. The guard's timeout
  may come at any time, and the lanes of a wave progress with the run.
- *SolverRun*: supervisor and readers are threads and go on; a process that can
  write or exit does, unless it is one of those that hang; time passes. Hanging
  tools are part of the initial states, so the liveness properties hold with a
  process that never exits where the code handles one.
- *CfdLifecycle*: the worker thread goes on, a frame polls (a busy window asks
  for a repaint, `alas-gui/src/app.rs`), and the clock reaches the timeout.
  Nothing makes a tool exit and nothing closes a pipe a descendant holds.
- *RunWindow*: while the worker, an analysis or a pool thread can step, one of
  them does, and a frame polls. This is weaker than fairness to each thread, and
  enough because none of them waits in a loop. Nobody is promised to cancel.
- *ToolCache* and *RefinementStage* state no liveness and have no fairness. That
  the steps of *RefinementStage* are bounded needs none and is proved
  (`EndTheorem`).

## Proofs

All theorems hold for every value of the constants under the assumption the
module names (`PoolAssumption`, `ScreeningAssumption`, ...): sizes are natural
numbers, positive where the code makes them so. `BranchAssumption` also keeps the
value of the free lock, `"free"`, from being the name of an analysis.

Every invariant and every action property of the passing runs is a theorem, and
so is the refinement; what stays with TLC are the liveness properties.

| Module | Theorem | States |
|---|---|---|
| `NativePool` | `Invariance` | `Spec => []IInv` |
| | `TypeCorrect` | `Spec => []TypeOK` |
| | `NothingLostOrDoubled` | `Spec => []EachStartedOnce` |
| | `CollectIsLast` | `Spec => []NothingOwedAtCollect` |
| | `RequestCostsOnePerLane` | `Spec => []OneLateCandidatePerLane` |
| | `Refinement` | `Spec => ImplementsContract` |
| `ScreeningStage` | `TypeTheorem` | `Spec => []TypeOK` |
| | `PrefixTheorem` | `Spec => []ScoredIsSamplePrefix` |
| | `CountsTheorem` | `Spec => []StageCountsAgree` |
| | `SequentialTheorem` | `Spec => []UntimedRunIsSequential` |
| | `ReplayTheorem` | `Spec => []ReplayAnalysesTheSame` |
| | `EndTheorem` | `Spec => [](StepsLeft \in Nat) /\ EveryStepCounts` |
| `RefinementStage` | `TypeTheorem` | `Spec => []TypeOK` |
| | `LimitsTheorem` | `Spec => []LimitsHold` |
| | `ReplayTheorem` | `Spec => []ReplayIsTheRun` |
| | `EndTheorem` | `Spec => [](StepsLeft \in Nat) /\ EveryStepCounts` |
| `CancelWatch` | `SafeWatch` | `Spec => []WatchInv` |
| | `TypeTheorem` | `Spec => []TypeOK` |
| | `DrainTheorem` | `Spec => []DrainCostBounded` |
| | `CountTheorem` | `Spec => []CountedAtMostTwice` |
| | `ReportTheorem` | `Spec => []ReportNamesTheRequester` |
| | `RecordTheorem` | `Spec => RecordIsFinal` |
| `SolverRun` | `SafeRun` | `Spec => []RunInv` |
| | `TypeTheorem` | `Spec => []TypeOK` |
| | `TextTheorem` | `Spec => []TextWithoutNoteIsWhole` |
| | `StoppedTheorem` | `Spec => []StoppedRunIsDead` |
| `ToolCache` | `TypeTheorem` | `Spec => []TypeOK` |
| | `EntryTheorem` | `Spec => []EntryIsComplete` |
| | `HitTheorem` | `Spec => []HitIsTheRun` |
| | `HalfRestoreTheorem` | `Spec => []OnlyAHalfRestoreChangesARun` |
| `CfdLifecycle` | `TypeTheorem` | `Spec => []TypeOK` |
| | `ShownTheorem` | `Spec => []ShownIsForTheInputs` |
| | `StopTheorem` | `Spec => []OneMoreToolAtMost` |
| | `QuietTheorem` | `Spec => []IdleIsQuiet` |
| `RunWindow` | `TypeTheorem` | `Spec => []TypeOK` |
| | `ClaimTheorem` | `Spec => []ShownIsWhatItClaims` |
| | `SerialTheorem` | `Spec => []StageIsSerial` |
| | `SnapshotTheorem` | `Spec => []SnapshotsAreCumulative` |

The arguments. Few of the invariants are inductive alone; each proof has one
lemma per part of the strengthening and splits it by action.

*NativePool*, `IInv`:

- `EachStartedOnce` needs the received count to be the number of answered slots,
  and the facts of `TypeOK` about claimed indices;
- `LateInv`: a lane that has ended a late candidate is at its poll, or gone, and
  the token is still set: it cannot take another, for any number of batches;
- `DrainInv`: while results are collected the channel is empty, no lane
  evaluates, and either every lane has left or the queue is exhausted. When the
  loop ends by its count this is a counting argument over finite sets: as many
  reports as designs leave no index in flight;
- `OpenInv`: a batch opened on a set token has started nothing, and a spawned
  lane leaves only because of the token, the deadline or the end of the queue.
  The refinement needs it: a cut prefix is one the contract allows.

For the refinement, `OpenBatch` is the contract's `Open`, the forward that first
sets the token is its `Request`, `Collect` is its `Deliver`, and every other
step leaves the contract's variables unchanged.

*ScreeningStage*, `StageInv == SampleInv /\ CountInv`: between the steps of an
iteration the batch under construction is the piece of the sample behind the
scored prefix, and the three counts differ by what the batch adds. The answered
points are the longest prefix the contract allows. `LimitInv` adds the limits:
what was drawn is a run of the sequential loop, for at no earlier point of the
sample had a limit been met (`DrawnInv`); a batch under construction passes at
most what the stage has room for (`BatchInv`); and a stage that nobody stops ends
with all it drew scored, at the limit its termination names (`EndInv`). For the
replay: the scored points that passed are those before the point where the clock
cut the stage, and a sequential loop that stops at their number passes the same.

`EndTheorem` bounds the steps of the loop. `StepsLeft` counts six for each point
that may still be drawn, of which there are at most `MaxEvaluations + MaxRejects`
(`LimitInv`), and a few for the place in the iteration. Only an iteration that
draws nothing could go on for nothing, and `EmptyInv` says that it was emptied by
the deadline or a request, so that the look that follows ends the stage. This is
the half of `StageEnds` that needs no fairness; the other, that a loop which has
not ended can step, is checked by TLC.

*RefinementStage*, first `StageInv == FieldsInv /\ BatchInv /\ CountInv /\ LogInv`:
the batches of a phase follow one another up to its counters, and the counters
stay within the stop of each phase and the rejection cap both phases share. One
lemma, `WaveLeaves`, says what a batch does whatever cuts it; only the last batch
of a phase may be cut (`LogInv`). `LimitsHold` and `TypeOK` follow.

`ReplayIsTheRun` compares two runs, and needs `ReplayInv`, which adds three parts.
`RunInv`: the logs alone tell where a run stands (its population, generation and
polls, and whether it may go on), because every guard it passed is a function of
the points scored before. `RecordInv`: the counts a replay stops at are those of
such logs. `FollowInv`: the replay has sent the first of the recorded batches,
and no phase ends before its count. The step is then: a phase that has not
analysed its count has a recorded batch before it (`FollowFacts`), the recorded
run passed at that place the guards that the replay now meets (`KernelGoesOn`,
`RestorationGoesOn`), and the count stops the batch at the point where the
recorded one stopped, be it the budget or the clock that cut it (`ReplayWave`).

`EndTheorem` bounds the steps of both runs from `StageInv` alone. A generation
that scored all it drew scored a point, and the points of the kernel are at most
`Budget + MaxRejects + Initial`; one cut short ends the kernel. A wave of the
restoration counts as a poll or ends the stage.

*CancelWatch*, `WatchInv == TypeOK /\ GuardInv /\ ReportInv /\ CostInv`:
`GuardInv` ties the record to the step of `request_cancellation` the guard is
at; `ReportInv` ties stop reason and termination to the place of the search and
the guard; `CostInv` bounds what is counted after the flag together with what
the lanes still hold by the width of a wave, and lets no wave start after a late
completion once the required jobs are done.

*SolverRun*, `RunInv == TypeOK /\ FamilyInv /\ ReaderInv /\ TextInv`: which
processes hold which pipe, what a reader at each step has moved where, and so
that a text without the note is taken after end-of-stream. `SolverAssumption`
says that there are at most two streams, one of which is collected first.

*ToolCache*, `DirInv`: until the tool has run, a directory that no half restore
touched is one the caller starts from; afterwards it holds the tool's outcome.
`DiskInv` adds what is on the disk: a file open in a directory keeps it there
(`OpenInv`); nothing a failed or drifted run left gets into an entry, because only
a restore makes a run drift, and a restore has found an entry, which then stays
(`ContentInv`). For threads of different processes `AloneInv` follows a store and
a restore file by file: the staging directory holds what was copied so far, then
the sidecar, then the manifest, and beside them perhaps what an ignored removal
left, of which nothing is asked (`StagedInv`); the manifest of the entry names what
one run changed in a directory a caller prepared, and those files are that run's
(`EntryInv`); and the lines of the manifest that are no longer on the list have
been replayed, or are deletions recorded in `kept` (`ReplayedInv`). Four lemmas say
what a removal that fails half way, a cut copy and a failing store leave
(`RemainsTree`, `CutTree`, `ClearLeaves`, `FailureLeaves`). With a shared staging
path none of this holds, and the theorems say as little as the properties do.

*CfdLifecycle*: `ShownIsForTheInputs` is inductive, because every message
carries the revision it was computed for and only the gate installs one.
`StopInv` says where the worker can be once it has launched a tool after a
request: inside that tool, or on the way out, never back at the head of a loop.
`QuietInv` adds the types, that every message is of the one worker and its end of
the run the last (`MessageInv`, `BusyInv`), and `PointsInv`: a point that will
show as running, once the messages on their way are read, is the one whose study
the worker is in. With the last message read no point can therefore be left
running, and after a request the end of the sweep settles the pending ones.

*RunWindow*: `WindowInv` ties the case of a result, a message and the run to each
other. `SerialInv` says that every section claimed is with a worker, solved, or
skipped under a cancel, and that a worker is out of the pool only when the
counter is past the last section; when all have left, the sections up to the
first skipped one form an interval that starts at the root (a lemma by
well-founded minimum). `CumulativeInv` says that the snapshots in the queue grow,
that the latest of them, or the one last shown, is all that was merged while the
lock is free, and that an analysis which holds the lock has copied all there is:
a copy taken under the lock and sent after it could fall behind, this one cannot.

Only model-checked: the liveness properties, `RequestEndsBatch`, `StageEnds`,
`RunIsCollected`, `EveryRunReturns`, `ToolIsNeverStalled`, `BusyEnds` and
`RunEnds`. Liveness under fairness and `ENABLED` are out of the prover's reach.
What the four runs of [Findings](#findings) refute has of course no theorem.

## Findings

Four statements of the documentation that the code does not keep, each with a
run that shows it.

1. `AfterRequestIsReported`: `native_pool.rs:211` marks a candidate by the
   forwarded token, not by the caller's flag; one that ends before the next
   forward is reported as finished before the request.
2. `ReplayScoresTheSame`: a screening batch the deadline cuts scores pre-gate
   rejects behind the last analysed point, and its replay does not
   (`screening.rs:30-33`). The analysed points agree.
3. `RecordedPlaceWasEntered`: `request_cancellation` can record a phase with the
   index of another (`cancellation.rs:408-411`).
4. `CapturedBytesAreReturned`: `drained_text` can return an empty prefix after
   its reader moved the buffer away (`process.rs:347-350`).

Further differences, each listed as a hazard. Where the code does not keep the
stronger statement, the property beside it is weakened by exactly that case:

- `run.rs:305-306` calls a result final by `pipeline_result_complete`, which the
  sandbox's `take_case` and `restore_case` do not keep with the result: a guided
  run that failed after a snapshot, a sandbox run, and a discard leave the
  partial result marked complete. `ShownIsWhatItClaims` excepts what follows a
  restored case (`restored`).
- `tool_cache.rs:198`: the staging path holds the process id only, so two
  threads of a process that store one key share it. `EntryIsComplete` and
  `HitIsTheRun` say less for such threads (`setting.shared`).
- `tool_cache.rs:13-17` promises the files the tool wrote; `store` keeps only
  those that differ from the directory at `begin` (lines 220-222), so an output
  identical to a stale one is in no entry.
- `run.rs:214`: a worker thread that cannot be created leaves `is_running` set.
  `StartPipeline` starts both: a run whose thread was created, and one whose
  thread was not (`pc` stays "none" and the window busy). `RunEnds` has `pc #
  "none"` as its precondition and says nothing about the second.
- `tool_cache.rs:178`: a file the tool deletes is removed by a restore with `let
  _ =`. Where that fails the restore goes on and reports a hit, with the file
  still there. `RestoreLine` has that step, `kept` records the file, and
  `HitIsTheRun` says that such a file is one the tool deletes, holds what it held
  before, and is the only difference to the run.
- `tool_cache.rs:199` and `202`: the staging directory is removed with `let _ =`
  before and after a store. Where that fails, whatever a crashed process with the
  same number or a failed store left there stays (`Remains`: any part of it), and
  `write_entry` writes over it. The published entry may then hold files that its
  manifest does not name. `EntryIsComplete` therefore speaks of the named files
  only, and `HitIsTheRun` shows that the others are never replayed.

## Not modelled

- Numerics, geometry, performance, reports, configuration, catalogues: no
  control worth a state machine, and floating point is out of TLC's reach. They
  are by far most of the source lines, which is why the share of the lines that
  `PROJECT.json` maps is small: the models cover the concurrent and the
  fault-handling code, not the volume.
- What a candidate scores, and so the selection, archive and epsilon schedule of
  L-SHADE.
- The pilot prefix of the product search, which plans the stages from a measured
  throughput before the screening starts.
- Durations, event log and wording of the watch; `block`, which only the
  sequential objective uses; the second request, which no caller makes.
- The launch wrappers of `process.rs` and the Windows fallback of the tree kill;
  the process-wide map of live buffers, whose entries a timed-out call leaves
  behind without an effect on any answer.
- Cross-batch hits of the exact-reuse cache.
- The PATRAN adapter: reader and wait are those of `SolverRun`, with joins that
  have no bound, so that `EveryRunReturns` does not hold for it when a descendant
  survives (`patran.rs:215`).
- Downloads (one sequential transfer, a part file and a rename) and the launch
  ledger (each operation is one critical section).
- Of the CFD study, the content of case files, live events, residuals and
  coefficients; the separate restart and post-processing entries.
- Of the pipeline, the control inside stages 1 to 4 and the final exports; of the
  desktop, drawing, panels, undo and the other dialogs.

## What remains

In order of use: a variant of `SolverRun` for the PATRAN adapter; the pilot
prefix in front of `RefinementStage`; downloads; and, as for the two stages
(`EndTheorem`), measures that decrease with every step of a lane, a reader or a
worker, which is the part of the other liveness arguments that can be proved.
