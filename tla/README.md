# Formal models of trade-proposer-app

TLA+ models of the parts of this repository whose correctness depends on
order: who enqueues, claims, executes, recovers and deletes runs, and what the
services those runs execute do to batches, orders, positions, outcomes and the
active configuration. Each module is translated from the Python source;
`PROJECT.json` gives, for every definition, the file and lines it stands for.

Paths below are relative to `src/trade_proposer_app/` unless they begin with
`docs/` or `tests/`.

## 1. Inventory

| part | state it keeps | operations | hard behaviour | what makes it correct |
|---|---|---|---|---|
| run queue (`repositories/runs.py`) | `runs`, `worker_heartbeats` | create, claim, update status, recover stale, delete | several processes, guarded and unguarded updates, late heartbeats, leases nobody renews | a run is executed by one process; a verdict is final; nothing stays running for ever |
| job execution (`services/job_execution.py`) | the row of the run it executes | enqueue, dispatch by job type, finalize | look-then-insert in two transactions, two kinds of exception | one active run per job, one tuning body at a time, every failure recorded |
| scheduler (`services/runs.py`, `scheduler.py`, `services/scheduling.py`) | none of its own | a pass a minute: recover, then enqueue what is due this minute | a pass longer than a minute, a crash in mid-pass, local time that jumps | a (job, minute) is enqueued once; every scheduled time gets its run |
| worker (`workers/tasks.py`) | `WorkerRuntimeState.active_run_id` | claim, execute, heartbeat thread | crash, restart under a new id | it leaves no run behind |
| runtime supervision (`services/runtime_supervision.py`) | `runtime_processes` | register, heartbeat, shutdown | stale rows of dead processes | reporting only |
| historical replay (`services/historical_replay.py`, `repositories/historical_replay.py`) | batches and slices, each slice with a run | create, enqueue, execute slice by slice, summarize | enqueue, attach and execute in separate transactions against workers and recovery | a batch's status agrees with its slices; a slice with its run |
| order submission (`services/multi_broker_execution.py`) | `broker_order_executions`, account breakers, halts | candidates, gates, submit, outcomes | ambiguous answers, crash between broker and database, state read once before a long loop | one order per plan and account; no order on a halted or broken account |
| order actions (`services/order_execution.py`) | the same rows and `broker_positions` | refresh, cancel, amend, close, resubmit | the copy read before the broker answers is written after it | rows say what became of the order |
| reconciliation (`services/broker_reconciliation.py`) | the same | sync of Alpaca orders, of the eToro portfolio and its history | three answers read at three moments, two syncs at once | a booked win or loss is the deal's |
| risk (`services/risk_management.py`, `broker_account_safety.py`) | halt flag and events, breakers | assess, halt, resume | two flags with one meaning | no order while halted |
| steering (`services/broker_position_steering*.py`) | decisions | sync, list states, decide, act | decisions on stale positions | exits only tighten |
| plan outcomes (`services/plan_resolution_engine.py`, `recommendation_plan_evaluations.py`) | one outcome row per plan | load histories, resolve, record | stores that lag or have gaps, bars in progress, evaluations that overlap, the bar that hits both levels | a recorded win or loss is what the market did, and stays |
| tuning workflow (`services/tuning_workflow.py`) | experiment metadata, replay batches | shortlist, replay, holdout, propose, promote, roll back | batches committed before the metadata that names them | what is shown complete was replayed; the autonomous run gets to a proposal |
| plan generation tuning (`services/plan_generation_tuning.py`) | configuration versions, the active id, events | seed a baseline, search, promote | three commits per activation, every look may seed | one active configuration, which the newest event names |
| signal gating tuning, calibration, quality reports | reports | calculations over stored outcomes | none | not modelled |
| watchlists, proposals, context, news, taxonomy, market data, settings, API, frontend, migrations | recommendations and context snapshots | request handlers and calculations | mostly single transactions or pure I/O | not modelled |

Parts interact through the database only. The scheduler and the API insert
`runs`; workers (any number, `docker compose up --scale worker=N`) and the
run-now handlers claim and execute them; a run's body calls the service of its
job type, which may insert further runs (replay batches, tuning candidates) or
call a broker. The API is one uvicorn process whose handlers are `async def`
and await nothing, so one request at a time runs in it; the scheduler must not
be scaled (`docs/specs/docker-deployment-spec.md:87`).

## 2. Plan

Done, in this order:

1. `RunQueue` with its abstract specification `RunLifecycle`: the core,
   because every other part runs inside a run.
2. `ReplayBatch`: batches, slices and runs of historical replay, with
   `RunLifecycle` as the abstract specification of a slice's run.
3. `BrokerOrders` with its abstract specification `OrderOnce`: order
   submission to several accounts, breakers and halts.
4. `BrokerBook`: an order after its submission, against the operator and the
   worker; `SteeringRules`: what steering decides, a module without state.
5. `EtoroBook`: positions of an eToro demo account.
6. `PlanResolution` and `Schedule`: the pure algorithms together with the
   stores and clocks that feed them.
7. `TuningWorkflow` and `ActiveConfig`: experiments, promotion.

8. Theorems: every invariant and every action property that a run checks is
   the statement of one (section 5).

Left: several accounts that hold the same plan in `BrokerBook`; `execute_plans` for
a single broker, which production does not call.

## 3. Modules

| module | what it is |
|---|---|
| `RunLifecycle` | what the queue promises of a run: queued once, taken once, settled after that |
| `RunQueue` | the `runs` table and every process that touches it |
| `RunQueueProofs` | theorems about `RunQueue`, the last ones under `ClocksBehave` |
| `ReplayBatch`, `ReplayBatchProofs` | one replay batch, its slices and their runs; theorems |
| `OrderOnce` | what submission promises of a candidate: one submission, one row |
| `BrokerOrders`, `BrokerOrdersProofs` | submission passes over plans and accounts; theorems |
| `SteeringRules` | the steering engine as operators over a state |
| `BrokerBook`, `BrokerBookProofs` | one plan's rows and positions beside what Alpaca holds; theorems |
| `EtoroBook`, `EtoroBookProofs` | order rows and positions beside what eToro reports; theorems |
| `PlanResolution`, `PlanResolutionProofs` | a plan's outcome from bars; theorems |
| `TuningWorkflow` | one tuning experiment from pool to promotion |
| `Schedule` | cron times across a change of the clock |
| `ServiceProofs` | theorems about `TuningWorkflow` and `Schedule` |
| `ActiveConfig`, `ActiveConfigProofs` | configuration versions and the active one; theorems |
| `MC...` | definitions for TLC: symmetry, evidence, bars, databases |
| `MCServices` | five of the modules in one run, one service at a time |

An action is one database transaction, or one call of a broker, of one
process: between two commits any other process may run. Operators whose
comment begins with "Mutant of" are not part of a specification. Each is a
plausible mistake in the definition it follows, and shows that a property
notices that mistake.

### 3.1 RunQueue

State: the columns of `runs` that guards read (`status`, `jobOf`, `slotOf`,
`owner`, `lease`), whether another table refers to the row (`logged`), the id
sequence (`created`), which heartbeats are recent (`fresh`), the minute
(`now`), and per process its program counter and locals.

| code | actions |
|---|---|
| `enqueue_enabled_jobs` (`services/runs.py`) | `BeginPass`, `RecoverRead`, `RecoverCommit`, `PickDue`, `Check`, `Insert`, `EndPass` |
| `enqueue_job`, look and insert | `RecoverRead`, `RecoverCommit`, `Check`, `Insert` |
| run-now and delete handlers | `Request`, `RequestDelete`, `Delete`, `Claim`, `Dispatch`, `Finish`, `EscapeBody` |
| `process_once` (`workers/tasks.py`) | `Select`, `Claim`, `Dispatch`, `Finish`, `EscapeBody` |
| heartbeat thread, crashes, time | `Start`, `Heartbeat`, `Lapse`, `LeaseLapse`, `Crash`, `Tick` |

Abstractions. Clocks are what the code compares them for: a heartbeat is inside
its window or not, a lease is past or not. `completed` stands for
`completed_with_warnings`, too, which no guard tells apart. Ids are ordered as
`created_at` is. Any scheduled job may be due in any minute, and a pass may
look at one again. The third query of the recovery, for rows with neither
worker nor lease, finds nothing: every claim sets a lease.

What holds only under a switch, which is how the code fares without it:

- `Postgres`: on SQLite the id of a deleted row may be given again, foreign
  keys are not enforced, and a forced deletion under an executor lets two
  processes hold one id (`ClaimExclusive` fails).
- `~MayLapse`, `~LeasesLapse`: a recovery that takes a live worker for dead
  fails its run, and the worker then writes `completed` over it
  (`VerdictIsFinal` fails). A run-now handler that lasts 1200 s is treated so
  in any case, because nothing renews its lease.
- `Raising`, `Tuning`: where some job's body raises outside its `try`, as that
  of scheduled broker steering may, or two tuning runs meet at dispatch, a
  live worker leaves its run running and no recovery ever judges it
  (`NoneStranded` fails). `OnlyRaisersStrand` says that nothing else does.
- One enqueuer: `enqueue_job` looks and inserts in two transactions, so two
  enqueuers give a job two active runs, and two tuning jobs two active tuning
  runs (`OneActivePerJob` fails). `TuningSerial` still holds, because the
  check at dispatch is repeated.

### 3.2 ReplayBatch

State: the rows of a batch and its slices, each slice's run, which slices are
attached to their run and which runs have an artifact (`described`), and per
process the slice in hand, the slices listed and the summary counted but not
yet written. `outdated` and `wrong` are history: which processes' counts are
older than another's change of a slice, and whether the row was last written,
or left, other than by a true count.

| code | actions |
|---|---|
| `create_batch`, `create_daily_slices` | `Create`, `CreateSlices` |
| `enqueue_batch`, one commit after the other | `Request`, `MarkQueued`, `InsertRun`, `Describe`, `Attach` |
| `refresh_batch_status`, `update_batch_status` | `Count`, `Store` |
| `_execute_historical_replay_run` | `Claim`, `MarkRunning`, `EndSlice`, `Count`, `Store`, `Finalize` |
| `recover_stale_running_runs` and what it does to slices | `RecoverRead`, `RecoverCount`, `RecoverCommit` |

Abstractions. The unique pair (job, scheduled_for) gives a slice at most one
run, so the slice names it. Any queued run may be claimed, because `RunQueue`
says which one is. Deletion of runs, the trading calendar and what a slice
computes are left out. `refresh_batch_status` reads twice in one transaction
with nothing between; here it reads once.

Switches. `MayOvertake` lets a worker have a run before the request attaches
it; `MayOverlap` lets counts of two processes overlap, or be cut short by a
crash; `MayLapse` as above. Runs with a switch off say what the code would guarantee
without that flaw, and their names say so. The recovery counts as the sessions
of `db.py` make it count, with its own failures not yet in the database; there
is no switch for that.

`AgreesUnlessUpset` says how far the status can be trusted, with every switch
on. Counts that overlap, repeated requests, crashes and recoveries may leave a
status that is not the summary of the slices, but only in the three ways it
names (`wrong`): a count stored after another process changed a slice, a
recovery that failed a slice, a process that died or was refused between its
change and its refresh. Any later refresh undoes that. `BatchAgrees`, without
the exceptions, is what `replay_recovery` refutes.

### 3.3 BrokerOrders

State: the rows (`row`, and `ledger`, their order of creation), active circuit
breakers, halts in force, which orders the adapter was given (`sent`) and the
broker accepted (`broker`), and per run the pass that submits its plans: the
orders it listed (`listed`), the halts it read (`seen`), the candidates left,
the one in hand and the status it is about to record. `aware`, `cleared`,
`broken` and `under` are history and are read by properties only.

| code | actions |
|---|---|
| `execute_plans`, before its loop | `Begin` |
| the duplicate check | `Duplicate` |
| `_evaluate_and_execute`: gates | `Decide` (`Allowed`, `Counted`) |
| `adapter.submit_order` | `Send`, which ends at the broker, and `Answer`, which comes back |
| `activate_circuit_breaker` | in `Answer`: committed before the row |
| `create_candidate_once` | `Record` |
| operators, dying workers | `ClearBreaker`, `Halt`, `Resume`, `Crash` |

Abstractions. The caps that count an account's active orders (open positions,
same ticker, orders today, open notional) are one count, `Cap`. The caps over
all live accounts are left out: live submission of eToro rejects every order,
and Alpaca is a paper account. The symbol lists and the price checks are one
reason to skip, which may apply to any candidate. Candidates are taken in any
order. A row that was written stays as it is: what becomes of it afterwards is
`BrokerBook`. The queue executes a run once; a pass that is repeated after its
end is what the duplicate check is there for. A row of two passes of one run
at once is not modelled: `RunQueue` excludes them, and `EachOrderOnce` rests
on that.

### 3.4 BrokerBook and SteeringRules

State: the order rows of a plan (the order and its resubmissions) and the
position derived from each (`row`, `pos`), what the broker has for each
(`broker`), and per process the operation it is in (`call`): the copy of the
row it read, and the broker's answer, and the steering pass it is in (`pass`).
`astray` and `torn` are history: rows hit by a lost update of the levels or
amended by two passes at a time, and rows whose two writes were separated by
another operation or a crash.

| code | actions |
|---|---|
| `refresh_execution`, `sync_open_executions` | `RequestRefresh`, `SyncNext`, `AskRefresh`, `WriteRow`, `WritePosition` |
| `cancel_execution`, `amend_execution` | `RequestCancel`, `Act`, `AskCancel`, `AskAmend`, `WriteRow`, `WritePosition` |
| `close_position` | `RequestClose`, `Act`, `AskClose` |
| `resubmit_execution` and its risk check | `RequestResubmit`, `AskSubmit`, `WriteRow`, `WritePosition` |
| the steering workflow: sync, states, decisions, mutations, in the worker and, by `run_steering_now`, in the API process | `BeginPass`, `SyncNext`, `ListStates`, `Act` |
| the broker's own moves, dying processes | `FillPart`, `Fill`, `Exit`, `CloseFills`, `BrokerEnds`, `Crash` |

`SteeringRules` holds the engine: signals as sets of reasons, the levels a
rule may propose, and `Evaluate`, the first rule that applies. `ListStates`
hands it the state that the builder makes of the rows (`Choices`).

Two passes may overlap: the scheduler and a request can make two active
steering runs (section 3.1), and a lease may run out under a live worker.
Nothing keeps a pass from sending what it decided on before the other's
amendment was recorded, which may loosen that one. `NeverLoosened` excepts
exactly these: rows for which a pass decides on an amendment while the other
has one in hand, decided on and not recorded (`Amending`). A pass that decides
after the other has recorded only tightens further.

Abstractions. Quantities are none, some or all. The latest price and the
evidence are any of a small set at every listing. Steering takes one row and
one position to stand for the plan, the oldest of each; one account. The
broker's order group is one record: state, stop, take-profit. `AskClose`
includes the write of the position it marks, since nothing but the answer
comes between. An error of the broker, before or after it acted, gives the
operation up.

### 3.5 EtoroBook

State: the orders and deals at eToro, the order row and position row of each,
and per pass what it has read: the portfolio, the booked positions, the
history. Two passes, of the worker's steering and of an operator's sync.

| code | actions |
|---|---|
| `sync_open_orders`: order look-ups, order row, position row | `Begin`, `LookUp`, `LookUpFails`, `SaveOrder`, `SavePosition` |
| portfolio, booked positions, history | `ReadPortfolio`, `PortfolioFails`, `ReadPositions`, `ReadHistory`, `NothingBooked` |
| what becomes of each booked position | `Visit` |
| a close that marks a position, dying processes | `MarkClose`, `Dies` |

A status `open` stands for `submitted`, too. Amounts are left out; a deal's
profit is above, below or at zero, because zero is falsy where the code asks
for it.

### 3.6 PlanResolution

State: the bars of the market so far, the last one still in progress, the
plan's outcome row, and what each of two evaluations makes of the history it
has read. `doubtful` is history: the recorded outcome came from a history that
was not whole. A bar is which of the plan's levels its range touches.

| code | actions and definitions |
|---|---|
| reading a history: the store, or a download | `LoadPriceHistory`, in `Prepare` |
| the engine's walk over the bars | `Crossing`, `RowsOnOrAfter` |
| intraday before daily bars, expiry | `Precedence`, `Finalize` |
| recording, failing | `Record`, `Abandon` |

A history is a set of cells, each standing for some bars of the market that
follow each other (`Layouts`, `Span`), and shows what these had touched when
the cell was stored, or less (`Readable`). So it may be of a coarse timeframe,
begin late, have gaps, be out of date, and end with a bar that is still in
progress. The engine's walk is stated as a first deciding bar. The first bar
that counts closes after the plan was computed; it may have begun before, and
counts as a whole, as in the code.

`DecidedIsTrue` therefore says two things: whatever was missing, a recorded win
or loss is of a level that the market did reach after the entry, as exactly as
the bars read can tell (`Touches`); and one from a whole history is what the
market's own bars say, also later. `Whole` is the precise condition: the
market's bars since the plan, one by one, as they are now, up to some bar. A
win that only the bar in progress tells is not whole, because that bar may
still reach the stop, and a bar that hits both levels is a loss. `DecidedStays`
excepts outcomes from and overwritten by histories that are not whole, and
those overwritten by one that ends before the level was hit: the code does
overwrite them.

External is only that no source reports, and so no store holds, prices that
the market did not show. Left open is which days are read (`Prepare` takes any
outcome that days alone may give). Left out are evaluations as of an earlier
day, which a replay asks for and which require full coverage.

### 3.7 TuningWorkflow

State: the slices of every batch the experiment may make, the experiment's
metadata, and the operation that has begun and not recorded its result. An
operation is a list of steps (`CreateBatch`, `EnqueueSlice`, `CopyBaseline`,
`WriteMetadata`), one commit each, where "make" is to create a batch and then to
enqueue it; lists of candidates are in the order of the pool (`Lists`). `Stage` is what the code derives from the
metadata and the slices, and `Autonomous` does what the code does at that
stage.

`BatchStatus` counts the slices, as every answer of the service does; where
some are degraded and none waits or failed, it believes the batch's own row
(`warned`), which a count may have left behind (section 3.2). `CopyBaseline`
fails where the baseline's slices have left no record to be copied (`frozen`).
A slice whose worker has died may wait for good (`stranded`). In each of these cases the autonomous run may never get to a proposal, and
`AutonomousProposes` names them (`ExperimentProposes` in `MCServices`). Left
out: discovery jobs, manual candidates, replays bound from elsewhere, audits,
extended trials, archiving.

### 3.8 Schedule

State: the clock, the job's cron expression as times of the day, the zone's
change, the minute a pass has read, the runs enqueued. `LatestDueAt` walks back
over wall times as the code does, and `UtcOf` converts with fold 0. The zone's offset changes once (`ScheduleAssumption`), to either
side or not at all. Days, months, weekdays and the market hours for steering are left out.

### 3.9 ActiveConfig

State: the versions, the active id, the version the newest event names, and
per actor (a worker with a tuning run, the API) what is left of its operation.
`ListVersions`, `Judge`, `CreateVersion`, `SetActive` and `RecordEvent` are the
separate reads and commits of `ensure_baseline_config_version` and of the
promotions. Deleting versions, the workflow's paper candidates and an active id
that names nothing are left out.

### 3.10 MCServices

`PlanResolution`, `EtoroBook`, `TuningWorkflow`, `Schedule` and `ActiveConfig`
share no state: each reads and writes tables of its own. `MCServices` chooses
one of them at the start and lets only that one act, so that one run checks
all five and no interleaving is explored that changes nothing. Fairness is
required of the chosen service.

## 4. Runs

Bounds are the constants of each `.cfg`. Every run explores all reachable
states of its instance.

| run | instance | what it shows |
|---|---|---|
| `scheduler` | scheduler and two workers that may all crash; two jobs, one of them with a body that may raise outside its `try`, two minutes, three rows; SQLite ids, late heartbeats | one active run per job, no run that nobody will recover but of that job, and the table implements `RunLifecycle` |
| `tuning` | two tuning jobs, scheduler and API, forced deletions, two workers that may crash; three rows | no run has two executors, one tuning body at a time, verdicts are final, with the two auxiliary invariants that make it so |
| `liveness` | one worker and the API crash, leases run out, fairness | abandoned runs are failed, queued ones are taken |
| `stranded` | two tuning jobs | violation, see section 6 |
| `replay_orders` | two requests that crash, one executor whose heartbeat is late, two slices, counts that overlap | a slice follows its run and has one run; no batch ends before its slices, and its status is their summary unless it was upset in a named way |
| `replay_agreement` | counts do not overlap, heartbeats in time, workers and the scheduler crash | a completed run's slice stays ended, a batch ends |
| `replay_recovery` | the session of `db.py`, a worker that crashes | violation, see section 6 |
| `replay_overtaken` | a worker takes a run before it is attached | violation, see section 6 |
| `broker_orders` | two runs, one account, three candidates, cap 1, three passes, one run's worker may die, an operator may halt the account | one submission and one row per candidate, no order lost but to a crash, unknown outcomes close the account, a halted account gets no order from a later pass, a cap is exceeded by overlapping passes only |
| `broker_halt` | one pass under the manual halt | violation, see section 6 |
| `book` | an order and a resubmission, one request of the operator, which may be a pass in the API process, the worker, both of which may die; one price and four kinds of evidence | what the book says of an ended trade is true, the broker never has two orders of the plan, exits only tighten unless passes overlap on them or a write is lost, exits are recorded |
| `services` | section 3.10 | outcomes, positions, experiments, schedules and configurations: the eleven properties of five modules |

Why the bounds are enough. In the queue the interesting interferences are
between two processes and one row (claim against claim, recovery against
finish, delete against claim); two rows are needed for order, for a job's
second run and for an id to be given again, and three for a tuning run beside
an active one and a deleted one. Two minutes let a slot be enqueued again in a
later pass. In a batch two slices are the least with a last one and one
before, and two requests the least that overlap. In submission, run `r1` has
two candidates on one account, so that the pass meets its own earlier order
and its own breaker, and `r2` has one there, so that passes meet. A cap of one
is met by the second order, `ListLimit` holds all three rows (past it
`CapNeedsOverlap` promises nothing), and three passes are enough for two runs
at once and one run twice. In `book` two rows are the order and a
resubmission, and one request beside a worker that passes again and again lets
each operation meet each other one, a pass in the API process, which counts as
that request, the worker's passes among them; at the price of 7 a profit is
locked in and, with weak evidence, a stop tightened, a take-profit lowered or
the position closed. In `services`, two bars of the market lie before the
plan, and touch every level, so that an outcome from them shows; one closes
after it and one is in progress, and cells of one and two bars make histories
that are coarse, late, stale or full of gaps, on both sides of the plan's
horizon; two faults are a slice that ends badly and a death or a stranded
slice beside it; two deals are the least with a newer and an older one; two
candidates are one that replays and one from frozen inputs; a day of six
minutes that loses or repeats two, with one time or two in it, gives a
skipped, a repeated and an unharmed time; a list of two versions leaves one
out as soon as a third is made. What none of these bounds can show, the
theorems show for every value.

Only `RunQueue`'s runs check for deadlock: in the other modules the
requests, passes, bars or crashes are bounded and a behaviour comes to its end.

Fairness. `RunQueue`: loops of the scheduler and the workers go on
(`WF` of their steps; none of them waits for another), a handler that has a
request finishes it, a job's body ends, a live worker's heartbeat is renewed
and a dead one's grows old, and leases run out where the run lets them. New
requests, crashes and late heartbeats are never forced. `ReplayBatch`: the
same, of the steps an enqueuer takes after its request. `BrokerBook`: the
worker's steering job is due again and again, and its calls of the broker
succeed now and then (`SF` of the look-up and of the steps that a crash may
repeatedly undo); an operator, the market and crashes are never forced.
`EtoroBook`: steering's passes go on, and each of the three answers comes
again and again. `TuningWorkflow`: the autonomous run is asked for again and
again, an operation that has begun goes on unless it dies, and slices end
whose worker lives.
`BrokerOrders` has no liveness property: a pass is a loop over finite lists,
with no wait in it.

## 5. Proofs

Every theorem holds for all values of the constants that meet the named
assumptions of the modules (bounds are naturals, kinds of processes are
disjoint, "none" values are not members).

| theorem | from | along |
|---|---|---|
| `TypeCorrect` | | `TypeOK` is inductive |
| `OneExecutor`, `ExecutorRecorded`, `TakenRunsStayTaken` | `Postgres` | `TypeOK /\ Guarded` |
| `QueueImplementsLifecycle` | `Postgres` | the same; each step is classified by what it does to rows (`RowStep`), and each class maps to a step of `RunLifecycle` |
| `TimelyHolds`, `VerdictsAreFinal`, `TuningIsSerial` | `ClocksBehave` | `TypeOK /\ Guarded /\ Timely` |
| `OneActiveUnlessLooksOverlap` | `[]LooksDoNotOverlap` | `LookInv` |
| `OneActiveOfOneEnqueuer` | no API process | the same |
| `OnlyRaisersStrandRuns` | | `TypeOK /\ Kept` |
| `ReplayTypeCorrect` | | `TypeOK` |
| `SlicesFollowRuns`, `SlicesRunOnce` | | `Ordered` |
| `VerdictsNotEarly` | `~MayOvertake` | `Steady` |
| `CompletedRunsEndSlices` | `~MayOvertake`, `~MayLapse` | `Punctual` |
| `StatusIsSummary` | | `Agreeing` |
| `OrdersTypeCorrect` | | `TypeOK` |
| `NoOrderIsSilent`, `PassesLeaveRows`, `EachOrderOnce` | | `Accounted` |
| `UnknownOutcomesClose`, `PassesStopAtUnknown` | | `Contained` |
| `HaltsAreHeeded` | | `Heeded` |
| `AcceptedOrdersAreKnown` | | `Known` |
| `CapsNeedOverlap` | | `Capped` |
| `BookTypeCorrect`, `OutcomesAreTrue`, `RowsAndPositionsSettle`, `NeverTwoLive`, `ExitsNeverLoosen` | | `IInv` |
| `PlanTypeCorrect` | | `PlanTypeOK` |
| `CrossingIsFinal` | | on the definition of `Crossing` |
| `DecidedOutcomesAreTrue`, `DecidedOutcomesStay` | | `Founded`, with `CrossingIsFinal` |
| `EtoroTypeCorrect` | | `EtoroTypeOK` |
| `EtoroOutcomesAreTrue`, `VerdictsStayAlone` | | `Answered` and `HistoryIsTrue`; `Alone` |
| `ActiveInvariant` | | `ActiveInv` |
| `NewestEventIsActive`, `SeedingDisplacesNone` | | `ActiveInv` |
| `ScheduledTimesRun` | | `DueLeavesTrace`, and lemmas about the clock |
| `TuningTypeCorrect`, `NamedReplaysAreQueued`, `ValidationIsComplete` | | `TuningInv` |

- `Guarded`. `ClaimExclusive` alone is not inductive: an insert could give a
  held id to a new row, and a claim could take a row that somebody holds.
  `TakenForGood` excludes the first (ids in hand were given) and, with
  `HolderIsRecorded`, the second (a held row is not queued).
- `Timely`. A verdict is replaced only if a recovery holds, in its snapshot, a
  row that some live process still executes. `Timely` says that such rows
  belong to dead workers, which needs that a live worker's heartbeat is fresh
  and that a row in execution names its executor. `TuningSerial` then follows
  because a body's row stays running and cannot be deleted, so a later
  dispatch sees it.
- `LookInv`. While nobody else is between a job's look and its insert, what a
  process saw, no active run, is still so when it inserts (`NoneSeenIsNone`).
  `LooksDoNotOverlap` is a condition on behaviours and not on the code: two
  enqueuers break it, and then `OneActivePerJob` fails (section 3.1). Where the
  scheduler alone enqueues it always holds.
- `Kept`. A running row has its executor, or a dead worker or a lease by which
  a recovery will judge it, or it is a raiser's. Only a step of the executor
  itself can let go of a row that stays running, and there are two that do: a
  dispatch that meets an active tuning run, and an exception that leaves the
  body. So the violation of `stranded`, and a broker steering body that raises,
  are all there is: crashes, recoveries and deletions strand nothing.
- `Ordered`. Between the four commits that enqueue a slice anything may
  happen, so the slice in hand carries how far it came (`InHand`), and before
  the slices exist there is nothing else (`SlicesCreated`).
- `Steady`. A count is read, and written later. The batch's verdict is right
  at the write if all slices had ended at the read and ended slices stay ended
  (`TrueCounts`), which needs that a slice is entered once (`EnteredOnce`,
  `OneExecutor`) and that an attach finds its run queued (`AttachesQueued`).
- `Punctual`. Nobody takes a live worker for dead (`Attentive`), so a recovery
  has only runs of dead workers in hand (`Doomed`) and a slice in execution is
  where its executor left it (`Delivered`).
- `Agreeing`. A count that no other process's change has outdated is what the
  slices add up to (`TrueCount`), because summing up again what was summed up
  changes nothing (`VerdictStable`); and the row agrees, or was upset, or a
  process has its refresh to come (`StatusKept`). No switch is assumed off.
- `Accounted`. A second submission is excluded because the candidate in hand
  has no row and was sent exactly when the pass says so (`InHandOK`); a pass
  ends with all rows because of the candidates it took only the one in hand
  has none (`TakenRecorded`).
- `Contained`. The breaker is committed before the row, so an outcome that is
  about to be recorded for review has closed its account (`ReviewOK`); a pass
  that then passes the gates has seen no breaker, so an operator cleared it.
- `Heeded` and `Known`. The halts in force since before the pass are among
  those it read; a verdict in hand agrees with what the broker did unless the
  connection broke.
- `Capped`. There was room for the order in hand by what its pass was aware of,
  and there still is, because rows that it knew of do not change (`Room`,
  `Kept`). So an order that exceeds the cap has an active one beside it that its
  pass was unaware of; that one is another run's, because a pass is aware of its
  own run's orders, those of an earlier pass included, as long as the list it
  reads is complete (`AwareOfOwn`); and the other run was unaware of this one,
  which had no row.
- `IInv` of `BrokerBook`. An outcome in a row is true because the answer that
  was written is, however old the copy it was written over (`AnswersAreTrue`).
  A row that is not `torn` has one answer in hand at a time, and after it has
  settled all say the same (`OneAnswer`), so row and position agree when
  nothing is in hand. A resubmission asks the broker with nothing of the plan
  alive there, because its row's order had failed or was canceled
  (`SubmitsAlone`). Of rows that are not `astray` the levels are the broker's,
  or will be when the amendment in hand is written (`LevelsAgree`); of those, one
  process at most has an amendment in hand (`AmendsAlone`), so that what a pass
  decided is still safer than the levels when it is sent (`DecisionsSafer`),
  whatever pass the other process is in. That a decision is safer than what it
  was made on rests on lemmas about `SteeringRules`.
- `CrossingIsFinal`. The first deciding bar of the market's bars is that of
  every longer row of them. So what closed bars decide, and a loss of the bar in
  progress, is final; a win of the bar in progress is not, and `Whole` leaves it
  out. `Founded` says what a result in hand rests on: a win or loss on cells that
  the market touched (`Readable`, hence `Touches`), and if the history was whole,
  on the market's own crossing. Both survive every move of the market. Two
  evaluations that both decided from whole histories therefore agree.
- `Answered` says what an answer in hand may hold, `HistoryIsTrue` that a
  history in hand names only deals that eToro has listed. `Alone`: while no
  two passes have overlapped, at most one is under way, an order that is
  still looked up has no position, and the pass's copies are the book's.
- `ActiveInv`. `TargetsExist`: versions in hand exist. `BaselineFirst`:
  nothing is promoted before there is a baseline, so a look that lists every
  version finds one. `SeedsOverNone`: a seeder that saw a promoted version
  active had a look that left versions out. `OneToNote`: unless `torn` says
  otherwise, who still has to record an activation is alone and will name the
  active version.

- `DueLeavesTrace`. `EveryTimeRuns` speaks of times that a cron names,
  `DueLeavesTrace` of minutes: each due minute that has gone by was queued for,
  refused, missed, or is in hand. Between the two are lemmas about the change
  of the clock: every time has a minute that stands for it, and that minute is
  due.
- `TuningInv`. An operation writes its metadata last, and then all it names was
  created and enqueued: while it is under way each batch that it will name is
  queued already or will be by a later step of its list (`AimsQueued`), and no
  batch is enqueued before it is made (`EnqueuesMade`). A copy of the baseline
  counts as compared if the baseline was complete when it was copied
  (`AimsCopied`); `early` names the others.

Induction over data is out of the proof system's reach. Where a proof needs the
least element of a set of naturals (`LeastOf`), it takes the elements
of the set up to each of its members, and the library's theorem that inclusion of
finite sets is well founded, instead.

Only model-checked: the liveness properties `AbandonedIsRecovered`,
`QueuedIsTaken`, `BatchEnds`, `ExitIsRecorded`, `EtoroSettles` and
`ExperimentProposes`. They rest on fairness, and ENABLED is out of the proof
system's reach. The violations of section 6 are TLC's, too.

## 6. Where the code disagrees with what it says

Shown by a run:

- `stranded`: a tuning run that meets another active one at dispatch raises a
  plain `RuntimeError`, which `execute_claimed_run`
  (`services/job_execution.py:1616`) does not catch. The row stays `running`
  under a live worker, with no error, and no recovery matches it. Two claimed
  at once refuse each other and strand both, against "every failure persists a
  human-readable error" (`docs/specs/plan-generation-tuning-spec.md:378`).
- `replay_recovery`: the recovery counts slices before its session has flushed
  the failures it is writing (`repositories/runs.py:252`); the batch stays
  `running`. `tests/test_repositories.py:3624` expects `failed`, with a
  session that does flush.
- `replay_overtaken`: `attach_slice_run` writes `queued` over what a fast
  worker has made of the slice (`repositories/historical_replay.py:221`),
  against `docs/specs/tuning-workflow-ux-spec.md:424`.
- `broker_halt`: the manual halt of the risk page (`risk_halt_enabled`) is not
  read by the pass over several accounts, which reads
  `broker_global_halt_enabled`, and no operation writes that
  (`docs/specs/broker-risk-management-spec.md:55`,
  `docs/specs/etoro-live-trading-integration-spec.md:80`).

Met while modelling, and either stated as an exception in a property or left
to the text here:

- Queue. `docs/specs/plan-generation-tuning-spec.md:370` asks to "prevent
  concurrent active scheduled runs"; the scheduler beside a handler that
  enqueues the same job makes two (section 3.1). The recovery of
  `docs/architecture.md:218` never reaches a run whose body raised: its worker
  lives, and only the heartbeat is looked at, never the lease.
- Unknown outcomes. Only a timeout of eToro's client counts as one
  (`services/brokers/etoro.py:211`, `:817`). A connection that breaks after
  the request was sent, a 5xx answer, and any failure of Alpaca's, a timeout
  included, are recorded as failed with no breaker, against
  `docs/specs/multi-broker-execution-risk-spec.md:256`. `OpenIsKnown` excepts
  them (`broken`).
- Stop levels. An operation writes back the whole row it read before it asked
  the broker (`services/order_execution.py:1178`), so an older copy may undo
  levels that the broker has, and a steering pass sends the stop it decided on
  (`services/broker_position_steering_workflow.py:934`) though another pass has
  recorded a tighter one since; `NeverLoosened` excepts those rows (`astray`).
- Row and position are committed apart (`:693`), and a settled row is not
  refreshed again; `SettledTogether` excepts those rows (`torn`).
- Refresh and amend leave the account out of the row they write, so that it
  gets the default one, "etoro-demo-main" (`domain/models.py:364`).
- A partly filled order that is canceled or expires leaves shares that no row
  describes (`:444`).
- A close never settles: nothing looks up its order, a refresh opens the
  position again, and steering may close it a second time (`:539`), against
  `docs/specs/broker-position-lifecycle-spec.md:25` and
  `docs/specs/broker-position-steering-spec.md:60`. A close marks the newest
  position of the ticker at any broker, and only Alpaca's ids become
  `exit_order_id`, so the branch that books a closed eToro order
  (`services/broker_reconciliation.py:401`) is not reached.
- A status that `list_active` leaves out, such as `pending_new`, takes a row
  out of the sync for good (`repositories/broker_order_executions.py:150`);
  `ExitIsRecorded` says so.
- A profit of exactly zero at eToro is falsy and stays in review.
- Plan resolution. `docs/specs/recommendation-plan-resolution-spec.md:44` and
  `:257` describe batch limits; the query has none, and the flag that reports
  a limited batch is always false.
- Tuning workflow. A proposal is not blocked by the candidate's own replays
  (`docs/specs/tuning-workflow-ux-spec.md:579`), a degraded replay stays
  queued (`:463`), "Rerun" cannot succeed because the names of batches are
  taken, ids of manual candidates are given again after the pool is made anew,
  an old recommendation can be executed, and a rollback changes the status
  only.
- Active configuration. "Promotion must atomically switch the active
  reference" (`docs/specs/plan-generation-tuning-spec.md:299`) is three
  commits; a run that dies after the second has activated its configuration
  and failed (`:375`). Versions keep the status "active"; the active id and
  its configuration are read by two queries; a winner displaces what an
  operator promoted during the run; a baseline older than the newest 200
  versions is seeded again and made active by any look.
- Schedule. A skipped 02:30 runs at 03:30; of several skipped times only the
  last runs; a repeated time in autumn is due twice; a minute that no pass
  reads is lost.

## 7. Not modelled

`PROJECT.json` lists every part. Fetching and scoring (news, context, market
data, proposals, fundamentals, calibration, quality reports, signal gating
search) is numerical and textual work in one process: no state to interleave,
and nothing that a small instance could show about the numbers. Records that
are written in one transaction each (settings, watchlists, jobs, plans),
runtime supervision, dashboards and other read-only routes have nothing
between two steps. `services/multi_broker_reconciliation.py` has no caller.
The frontend polls; migrations run once; scripts are operators' tools.
