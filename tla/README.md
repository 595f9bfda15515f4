# csm-set, specified and checked

TLA+ modules for the parts of csm-set that have control worth checking: the job
registry of the API, the simulated execution loop, the daily refresh with its
scheduler, calendar, hook and store, the fetching inside it, the adapters and the hooks
that write through them, the period loop of the backtest, and the portfolio pipeline
from overlays to paired trades. TLC checks each on a small instance; TLAPS proves
every safety property of the passing runs, and the steps of both refinements, for every
value of the constants that meets the modules' assumptions. Liveness stays with TLC.
Paths below are relative to the repository root.

## 1. Inventory

| part | code | state it keeps | operations | talks to |
|---|---|---|---|---|
| Job registry | `api/jobs.py`, `api/main.py` (lifespan) | `_jobs`, one queue and one worker task per kind, a JSON file per job | `submit`, `cancel`, `_kind_worker`, `shutdown`, `load_all` | HTTP routers, file system |
| Sim execution loop | `src/csm/execution/sim_loop.py`, `engine_adapter.py`, `models.py` | trackers per order, book, seq watermark, handshake and degraded events | submit, consume the stream, await or reconcile, retry | Execution engine (external) by POST, GET, SSE |
| Daily refresh and scheduler | `api/scheduler/jobs.py`, `api/routers/scheduler.py` | `last_refresh.json`; locals of the coroutine | `daily_refresh`, `bounded_daily_refresh`, `_fetch_batch_with_retry`, cron job, manual trigger | vendor, calendar, store, pipeline, hook |
| Holiday calendar | `src/csm/data/calendar.py` | banked calendar per year, committed fallback table | poll, lookup | SET endpoint, the refresh |
| Adapter hooks | `src/csm/adapters/hooks.py` | none; rows in three databases | post-refresh, post-backtest, post-rebalance | store, adapters |
| Live portfolio | `src/csm/live/portfolio.py` | none (YAML file) | collapse bars, drop unpriced days, value the book | hook |
| Parquet store | `src/csm/data/store.py` | one file per key | `save`, `load` | pipeline, refresh, backtest thread |
| Feature pipeline | `src/csm/features/` | `features_latest` | `build` | store |
| Database adapters | `src/csm/adapters/{__init__,postgres,mongo,gateway}.py` | pools, slots that are None when a database is down | connect, upserts, ping, close | lifespan, hooks |
| HTTP clients | `src/csm/adapters/{gateway_client,market_data_engine_client}.py`, `api/retry.py` | none | POST with retries | gateway, market data engine |
| Data loading, universe | `src/csm/data/{loader,engine_loader,cleaner,symbol_filter,universe}.py` | `universe_latest` | fetch, clean, filter, snapshot | vendor, store |
| Backtest, walk-forward | `src/csm/research/backtest.py`, `walk_forward.py`, `src/csm/portfolio/construction.py`, `rebalance.py` | holdings, weights, mode and nav over the period loop | `run`, selection with buffer, sector cap, regime | store |
| Overlays | `src/csm/portfolio/{drawdown_circuit_breaker,vol_scaler,liquidity_overlay,walkforward_gate,quality_filter,sector_regime_constraint_engine}.py` | the breaker's state and counters | `apply` | library callers (notebooks, tests); nothing in the package runs them |
| Trade pairing, simulator | `src/csm/execution/{trade_pairing,simulator,trade_list,slippage}.py` | FIFO lots | pair, simulate | reports |
| Numerics, reports | `src/csm/risk/`, `research/{ic_analysis,ranking,strategy_report}.py`, `portfolio/optimizer.py` | none | statistics | reports |
| HTTP surface | `api/routers/`, `api/main.py`, `api/security.py` | adapters, registry, scheduler in `app.state` | request handlers, lifespan | everything above |
| Settings; scripts, UI, examples | `src/csm/config/`, `scripts/`, `ui/` | none | | |

How the parts interact: the cron job and the HTTP trigger both call
`bounded_daily_refresh`, the first directly from the scheduler, the second as a runner
inside the job registry. A refresh asks the calendar, fetches, replaces
`prices_latest` and then `features_latest`, and ends with the hook, which writes to
Postgres and the gateway. The backtest runner of the registry reads the two files from
a thread. At shutdown the lifespan stops the scheduler, then the registry, then the
adapters. The overlays, the simulator and the pairing are libraries: the design orders
them, and their callers keep what state they have.

### What is hard here, and what correct means

* **Job registry.** A crash of a worker (an `OSError` of `_persist`) between any two
  transitions, its replacement by a later submit, cancel against start, the end of the
  process between a record and its file, a file the next start cannot read. Correct: one job of a kind at a time, FIFO, no
  runner entered twice, acknowledged cancels and settled files final, nothing listed as
  pending with nothing behind it, shutdown that ends and leaves no worker.
* **Sim loop.** Two tasks share trackers over a stream that drops, replays, gaps and
  resets, with a timeout racing a late event and a POST that may have been applied when
  it fails. Correct: the book says what the engine filled, and the loop ends.
* **Daily refresh.** Two runs interleaved at every await, partial fetches, bars that
  come late, intraday or with two stamps for a day, a table and a capture of the calendar
  that may both be wrong, databases it is not connected to, POSTs applied after they were
  given up, midnight in the middle, a 45-minute cut-off, a crash in the middle of a
  write, a reader that does not wait. Correct: no phantom and no partial row, the latest
  word of the endpoint decides which days are skipped, the two files agree, rows move
  forward only.
* **Backtest.** Selection depends on the order of the holdings and on what the last
  rebalance left; periods are skipped for five reasons at different points of the loop
  body. Correct: holdings, weights and reports belong together, turnover has a reason,
  the gate holds for entries and the cap for sectors.
* **Overlays and breaker.** Five stateless classes whose limits a later one may undo, and
  a breaker whose caller keeps its counters across rebalances and the sessions between
  them. Correct: the traded book keeps every limit at once; safe mode ends when recovery
  is confirmed, and only then.
* **Execution and pairing.** Lots are rounded, closed in parts and flipped. Correct: trades
  approach the target and never pass it; no share and no fee is lost.
* **Adapters.** Databases that fail alone, a POST that may be stored though it was given
  up, hooks that run while the adapters under them close. Correct: one failure stops no
  other write, an older report replaces a newer one only for a named cause, shutdown
  leaves nothing open.
* **Fetching.** Tasks over a semaphore, three layers of retries and time limits, a vendor
  that may never answer, a cut-off at any await. Correct: what came is taken over, nothing
  else is, and the phase ends.

`PROJECT.json` lists each hazard at its line, with the properties that cover it or the
reason none does yet.

## 2. Modules

| module | models | how |
|---|---|---|
| `JobService` | what a client is promised | phase of each job: new, queued, executing, over |
| `JobRegistry` | `api/jobs.py` and the life of its process | one action per handler and per step of `_kind_worker` between awaits |
| `JobRegistryProofs` | | theorems about `JobRegistry`: exclusion, cancellation, types |
| `JobServiceProofs` | | theorems about its history: order, disk, shutdown, the refinement of `JobService` |
| `SimLoop` | `sim_loop.py` and `engine_adapter.py` | main task, stream task, and the engine as its client sees it |
| `SimLoopProofs` | | theorems about `SimLoop` |
| `DailyRefresh` | refresh, calendar, hook, store, backtest's loads | one action per stretch between awaits; writes of files in two halves |
| `DailyRefreshProofs` | | theorems about `DailyRefresh` |
| `Rebalance` | `MomentumBacktest.run`, `PortfolioConstructor.select` | one action per way an iteration of the loop ends |
| `RebalanceProofs` | | theorems about `Rebalance` and the operators of its selection |
| `CircuitBreaker` | `drawdown_circuit_breaker.py` | one call of `apply` as a function of state and reading |
| `Overlays` | the quality filter, the sector and regime engine, the volatility scaler, the liquidity overlay | functions of a book and the market |
| `Execution` | `simulator.py` | the trade list of a book |
| `TradePairing` | `trade_pairing.py` | recursive functions over the fills and the lots of a symbol |
| `Pipeline` | the four above, composed over the rebalances of a fund | one action per overlay |
| `PipelineProofs` | | theorems about `Pipeline` and the modules it composes |
| `Adapters` | `adapters/__init__.py`, the write paths of hooks and gateway client, the lifespan | one action per await |
| `AdaptersProofs` | | theorems about `Adapters` |
| `FetchPhase` | what a refresh relies on when it fetches | symbols delivered and taken over |
| `BatchFetch` | the batch retry, `fetch_batch` of both sources, the reads of the market data client | one action per await of a task |
| `BatchFetchProofs` | | theorems about `BatchFetch` |
| `MC*` | | the instances TLC checks |

### JobRegistry

`record` is `self._jobs`, `file` the JSON file of each job, `queue` and `worker`
are `self._queues` and `self._workers`; `worker[k]` keeps every task ever made for a
kind so that a replaced task is still there to be wrong. Handlers run on one event
loop: the code between two awaits is one action, and each `_persist` in it either
replaces the file or raises and leaves the record changed, as the code does.
`submit`, `cancel`, the four steps of the worker loop (`Skip`, `Start`, `Finish`,
`Unwind`), the two loops of `shutdown`, the end of the process at any moment (`Die`)
and `load_all` are actions. A start may find files it cannot read or parse (`Unreadable`,
a fault like a failing write): it leaves them where they are, orphans included, and their
jobs have no record until a later start reads them. `starts`, `submitted`, `epoch`,
`cancelAcked`, `skipped` are history.

`JobRegistry` implements `JobService` (`ImplementsService`): `phase` is the mapping.
The service says what no single handler says: an executing job excludes others of its
kind, and every interruption is final.

No HTTP route calls `cancel()`; it is modelled as the method it is, for its callers in
the tests and the library.

### SimLoop

`Main` is the control flow of `run_sim_loop`, one action per await; `Connect`,
`Deliver` and the four `Stream*` faults are `_consume_stream` over `stream_updates`.
`log`, `state`, `filled` are the engine, external, and read off the client: it may
fill or expire a working order at any moment, answers a known `client_order_id` without
effect, replays from at or before `Last-Event-ID`, and serves a connection without one
live only. `Immediate` says whether it executes while it answers the POST.

The residual is computed when the answer is used, after the stream task may have run
(`GetAnswered`, `Reconcile`). Of the prices only this is modelled: an answer may come
without an average price (`priced`, a fault), and then the order is settled and its
residual is not booked (`unpriced`). That a sell is no larger than the holding is an
assumption on the instructions; the code does not check it before it submits. An oversell in the
stream task leaves the `TaskGroup` as an `ExceptionGroup`; the model only says that the
run is given up. A cancelled engine order is the same to the loop as an expired one.

### DailyRefresh

A price is a version: 0 no bar, 1 a bar of the session in progress, 2 the settled bar.
A run (`pc[r]`) goes `held`, `universe`, then without an await through `saving`,
`writing`, `building`, `storing`, and then through the hook's awaits `snapshot`,
`equity`, `checking`, `gateway`, `answer`. `busy` names the run that holds the event
loop inside the stretch without awaits: other coroutines wait, but the backtest's
thread and a restart do not, which is why the two files are written in two halves each.

The holiday calendar has three sources and none is assumed right: `Listed` is the
committed table, `published` what the endpoint lists, which `Revise` may change, and
`banked` the last capture of it. `slots` are the databases this start of the process is
connected to: with none of them the hook writes nothing, and the marker follows. `wire`
holds the requests of a POST that its client has given up, or whose run was cut off or
died, and `DeliverLate` applies them at any later time; `Retry` is the client's next
attempt. `CutOff` stands for every exception that ends a run at an await, that of a fetch
included (`BatchFetch` has `Raise`).

The environment and the databases also wait for `busy = Nobody`: nothing in that
stretch reads the bars, the date, the calendar or the rows, so their steps commute with
it and no interleaving is lost. `BuildRaises` is one of the frames refused by
`_validate_prices`. `frames` first holds what was fetched, then what the hook loaded
from the store. A fetch phase counts one fault however many of its attempts fail.

### Rebalance

One step is one iteration of the period loop, and the actions are its exits: a hold
period accounted (`Hold`) or not (`HoldSkipped`), an empty cross-section
(`NothingRanked`), a rebalance given up after the regime was assessed
(`RebalanceSkipped`), and one carried out (`Reselect`). A cross-section is any sequence
of symbols, best first: the ranking is all that the selection reads of the factors, and
composites are distinct. Whether a window has two rows, and what the index shows, is
free. The selection, buffer and cap are operators on sequences, composed by `Chosen` as
`run` composes them; ranks are compared as integers times the size of the
cross-section, which is exact where the code compares floats.

The top-up of `select` to `n_holdings_min` is modelled (`short`), and never has
anything to add: by then every candidate is in the list (`SelectOf` proves it). `decided` and `skipped` are
history.

### Pipeline

`Pipeline` INSTANCEs `CircuitBreaker`, `Overlays`, `Execution` and `TradePairing` and
runs them over time. A rebalance goes through the overlays in the order the design
gives them: `Select` (quality filter, equal weights over what it passes), `Constrain`,
`ScaleByVolatility`, `CapByLiquidity`, `Break`, then `Trade` and `Fill`. Between
rebalances only the breaker is read (`Session`); its state is threaded by the caller,
as the class demands. A weight is the amount it stands for, rounded down, so that every
limit is a comparison of integers.

What the overlays estimate from prices (volatilities, turnover, moving averages, the
drawdown) is input, missing values included: `NaN`, a symbol without a column, turnover
zero, price zero. The caller may list its exits at weight zero or leave them out: the
simulator trades only the symbols of its target book, so what is left out stays held.
Fills are at the latest prices. A fund may start with shares bought before its log.

The relaxation of the sector cap when it empties positions (`Relaxed`) is modelled and
cannot happen: scaling leaves no weight at zero (`SectorCapKeeps` proves it). The
code scales floats; that rounding down to money does not empty a position either is the
assumption `SectorMax >= Cardinality(Symbol)`: the cap is worth at least a unit of money
for each name.

A commission is `Fee` for each share, so that the parts of it that go with parts of a lot
are whole. The code divides floats; what their rounding loses is not modelled. Slippage, turnover, the capacity flag
and `min_trade_weight` decide nothing in `simulator.py` and are left out.

### Adapters

`slot` holds the attributes of `AdapterManager`, `pool` the client inside each adapter;
`close` clears the inner one before it awaits and the slot after, so a hook can find a
slot whose adapter is no longer usable (`Skip` after `_require_pool` raises). A hook is
the list of slots it writes to. The tasks that run hooks are the scheduler's job and the
registry's workers for refreshes and for backtests; `Stop` asks all to end, and
`JobsStopped` waits for the workers only. `CutOff` is the time limit of a refresh that
expires in its hook. A write that is made (`Written`) and one that raises (`WriteRaises`)
leave the hook in the same place: what they change is in `DailyRefresh`.

A POST is a copy on the `wire`. It may be stored, and answered or not; refused for good
or for now; or given up while it is still under way and stored later. A cancellation
arrives whenever the event loop delivers it, and what the task was waiting for may
still take effect. `applied`, `waived` and `overlapped` are history.

### BatchFetch and FetchPhase

`BatchFetch` is one phase of `_fetch_batch_with_retry`: attempts, and in each a task per
missing symbol, with a place of the semaphore, its requests and their retries. The
parquet source limits the time of a symbol (`GivenUp`), the other relies on the timeout
of the HTTP client (`TransientFailure`). `CutOff` is `REFRESH_TIMEOUT_SECS`: `gather`
cancels its tasks and its own cancellation waits for them. An exception that no task
catches, of an answer no frame can be built of (`Raise`), goes through `gather` instead
and leaves the other tasks running (`LeftBehind`), which nobody awaits.

It implements `FetchPhase` (`ImplementsPhase`), whose attempts are the steps in which
`DailyRefresh` fetches: that module starts from what this one shows.

## 3. Runs

Passing runs:

* **JobRegistry** (two refreshes and a backtest, 2 faults, 2 ends of the process; 711,537
  states). A fault is a failing write or a start that skips files it cannot read. Two jobs of one kind are needed for FIFO and replacement, a
  second kind for the two loops of `shutdown`; two failing writes crash a worker and
  then its replacement; two ends of the process reload a directory that a reload wrote.
  Three jobs of a kind add only longer queues.
* **SimLoop** (a buy of 2 shares and a sell of the 1 share held, 2 attempts, 2 faults;
  365,249 states). Two shares give a partial fill between any two steps; the
  sell makes a double booking an oversell; two orders let one be awaited while an event
  of the other arrives; two faults give a retry after a drop, or exhaust the attempts.
* **daily_refresh** (two callers, interchangeable, two holdings of which one is in the
  universe and carries the later stamp, the index, two sessions and a closure, two runs,
  2 attempts of a POST, 2 faults; 3,728,316 states with symmetry, the longest run). Two
  runs are the least that overlap, and the second is also the one after a failed first;
  day 1 is settled history, day 2 the session in progress, day 3 the closure; two attempts
  in the held phase give a retry that recovers only part, and of a POST a copy behind its
  own retry. The committed table is wrong both ways (it lists day 2 and not day 3), the
  endpoint starts out right and a change of it is a fault. A start is connected to
  everything, to the databases or to the gateway alone; anything less than everything
  counts as a fault, so that a full process meets two faults and a partial one meets one.
  A change of the calendar is bounded to days and runs still to come, new bars to runs
  that may still fetch them, and the date to runs under way or to come.
* **rebalance** (four stocks, three of one sector, one of these without prices, at most
  2 held, every second of 4 periods a rebalance; buffer 50, floor 35, cap 50 in percent;
  2,116 states). The invariants of the selection quantify in every reachable book over
  all rankings of up to four stocks and all gates. Four stocks and two places are the
  least where a holding is no candidate and is beaten, kept or below the floor; a third
  stock of a sector makes the cap bind; two rebalances make a skipped second one leave
  an older book.
* **pipeline** (three names, two of one sector, lots of 2, four markets, four sets of
  fundamentals, readings of -12, -7, -2 and missing against thresholds of -10 and -5, 3
  confirmations, two opening positions with an odd lot each, 2 rebalances; 115,643
  states). Each row of the market meets another branch: every
  regime, a missing volatility on either side and on both, no turnover, no price. Two
  rebalances close a lot in part and then flip it; three confirmations let a relapse
  come in the middle of the count, on a rebalance or between two.
* **adapters** (2 hooks, 2 attempts of a POST; 579,479 states). Two hooks on three tasks are
  the least that overlap or follow each other; two attempts leave a late copy behind a
  newer report.
* **batch_fetch** (three symbols, two places, 3 attempts of 2 requests; 26,292 states). One
  symbol always waits; two requests give a retry, three attempts a symbol that comes
  last.

| property | what it says |
|---|---|
| `OneJobPerKind`, `RunnerEnteredOnce`, `FifoPerKind` | the queue's promises, across worker crashes and restarts |
| `AckedCancelIsFinal`, `SettledIsFinal` | a cancel that returned True, and a settled file, are never undone |
| `DiskLagsByOneStep` | memory and disk differ by the one transition whose write failed, or by a file the last start could not read |
| `NoJobForgotten` | RUNNING and ACCEPTED have a worker or a queue entry behind them, or one of the two named gaps |
| `ShutdownLeavesNoWorker`, `ShutdownEnds`, `QueuedJobsSettle` | see below on fairness |
| `ImplementsService` | refinement of `JobService` |
| `AheadOnlyAfterTimeout`, `SettledIsComplete` | the book against the engine, with the causes that may part them: a timeout (ahead), a skipped event or a GET without a price (short) |
| `LoopEnds` | the sim loop ends whatever the engine and the stream do |
| `RowsAreReal` | every row is of a session, of that day's bar, with every holding |
| `FreshCaptureDecides` | once the endpoint has served, a refresh is skipped on the days it lists and on no other, whatever the table and earlier captures say |
| `FeaturesFollowPrices`, `BacktestNeverLooksAhead` | the two files, and the thread that reads them while they change |
| `CompletedRunReported` | no silent gap, in what it is connected to, after a refresh that wrote its marker |
| `OnlyOverlapRegresses` | a row goes back to an older bar only by overlap, by a run that fetched nothing and revalued the stored prices, or by a POST given up that arrives late |
| `BookIsConsistent` | the holdings the buffer starts from are the ones the weights and the last report are of |
| `HoldingKept` | a holding is given up only below the floor, for a candidate ahead by the buffer, or to the cap |
| `BestEntrants` | an entry passes the gate, and nothing that could have entered ranks better |
| `BookWithinLimits` | after all overlays the book keeps the fund, sector, turnover and safe-mode limits together |
| `ReleaseIsConfirmed`, `BreakerReleases` | safe mode ends only after consecutive confirmations, and does end |
| `TradesApproachTarget` | whole lots toward the target, never past it, to within a lot; with `TypeOK`, no trade sells more than is held |
| `PairingReconciles`, `FirstInFirstOut` | lots, profits, fees and cash add up, and lots close in their order |
| `OnlyLateCopiesRegress` | the gateway goes back to an older report only by a copy that was given up, or by overlap |
| `HookRunsThrough` | a write that fails, or an adapter that closes, does not end a hook |
| `TeardownCompletes` | shutdown closes every adapter, unless a registry worker had crashed |
| `ImplementsPhase` | refinement of `FetchPhase`; with `TypeOK`, the semaphore's bound |

`NoJobForgotten` and `QueuedJobsSettle` carry exceptions that describe the code: a
submit whose write failed leaves an ACCEPTED record in no queue; an ACCEPTED file comes
back after a restart into no queue; a worker ended by an `OSError` leaves its queue
waiting for the next submit of the kind. So does `TeardownCompletes`: awaiting a crashed
worker raises in `lifespan` before `adapters.close()`.

Violation runs, each a disagreement of the code with what it says of itself
(`findings` quotes the lines):

* **JobRegistry_stop**: `shutdown()` awaits a crashed worker, its `OSError` escapes,
  and the workers of later kinds, and the adapters, are left behind.
* **SimLoop_replay**: an event that arrives after its order was reconciled by GET is
  booked again; single-source fills do not hold.
* **SimLoop_handshake**: with only a handshake timeout, an order whose first partial
  fill went by before the stream opened is returned as filled and short.
* **refresh_resultsdir**: the poll banks the calendar under `results_dir`, the refresh
  reads it at its default path; elsewhere than `results/` a banked closure is fetched.
* **pipeline_flip**: a sell larger than the open lots should be refused and opens a short
  lot; a fund that holds shares from before its log meets it at its first full exit.

`CHECK_DEADLOCK FALSE` in the runs of the registry, the sim loop, the refresh, the
backtest, the adapters and the fetch phase: a registry may be stopped for good, a loop,
a teardown or a phase ends, and the bounds of the refresh run out. The pipeline's runs
check deadlock: a session can always follow.

### Seen while modelling, without a run of their own

* A manual trigger and the cron job can overlap: `max_instances=1` counts only the
  scheduler's own. `OnlyOverlapRegresses` has the overlap as its exception.
* `src/csm/research/backtest.py:406`: the sector cap takes its allowance from the size
  before pruning; what is left of a sector can exceed the cap of what is left.
* `src/csm/portfolio/construction.py:155`: a holding is evicted for a candidate ahead of
  it by the buffer though that candidate is itself held and nothing takes the place.
* `src/csm/execution/simulator.py:252-257`: a comment has sells rounded away from zero;
  they are rounded toward it. Line 108: a symbol held and absent from the target book is
  never sold. `min_trade_weight` has no effect on a trade.
* The breaker reads a missing drawdown as none, which counts as recovery;
  `recovery_confirm_days=1` still takes two sessions. A missing return in the volatility
  window makes the estimate NaN, and the scale factor its cap.
* `src/csm/adapters/__init__.py:144-148`: an empty gateway API key makes the start raise
  with the pools that are already open left open (`StartFails`).
* `tvkit_concurrency` bounds one loader; two refreshes that overlap have two.
* `src/csm/research/walk_forward.py`: adjacent test windows share their boundary date.
* `src/csm/data/universe.py`: a torn file of one symbol ends the snapshot build, which
  the plan under `docs/` treats as an exclusion.

## 4. Fairness

* `JobRegistry`: weak fairness of each kind's worker, of `shutdown`'s own steps and of
  `load_all`. The event loop runs what is ready; the runners end, since the refresh is
  bounded by `REFRESH_TIMEOUT_SECS` and a backtest is finite. Nothing obliges a client
  to submit or the process to die.
* `SimLoop`: weak fairness of the main task only. Each of its awaits has a timeout or a
  bounded number of retries. Nothing is assumed of the stream or the engine, so
  `LoopEnds` is a statement about the loop's own timeouts.
* `Pipeline`: weak fairness of the sessions (a trading day follows a trading day), and of
  a rebalance once it is begun (its calls are synchronous). Nothing obliges the fund to
  rebalance or the drawdown to recover.
* `Adapters`: weak fairness of the lifespan's shutdown steps and of the delivery of each
  cancellation. This assumes that the `close` of a database returns, as the code does: it
  sets no limit. The network need not deliver, nor a database answer a hook.
* `BatchFetch`: weak fairness of what the event loop has ready (an attempt, a free place,
  the end of `gather`) and of the timer each source has: the time limit of a symbol, or
  the timeout of the HTTP client. Nothing obliges the vendor to answer.
* `DailyRefresh`, `Rebalance`: none; they have no liveness property.

## 5. Proofs

Every invariant and action property of the passing runs is a theorem of its module's
`Spec`, for any sets, limits, fault bounds and numbers of runs that meet the module's
named assumption; TLC evaluates each assumption in that module's runs. Each component has
one inductive invariant, `IInv`, made of named parts, with one lemma per action that
preserves it; the properties follow from it.

| module | theorems | what `IInv` adds to the properties, and why |
|---|---|---|
| `JobRegistryProofs` | `TypeOK`, `OneJobPerKind`, `RunnerEnteredOnce`, `AckedCancelIsFinal` | which jobs a queue can hold, which workers are done, what a started job can be on disk |
| `JobServiceProofs` | `FifoPerKind`, `DiskLagsByOneStep`, `NoJobForgotten`, `ShutdownLeavesNoWorker`, `SettledIsFinal`, `ImplementsService` | `HInv`: the queues follow the log of submits, an executing job is RUNNING in memory and on disk, nothing runs during a shutdown |
| `AdaptersProofs` | `TypeOK`, `OnlyLateCopiesRegress`, `HookRunsThrough`; a closed process has no open pool | every copy on the wire is one somebody waits for, or given up, or of an overlap |
| `BatchFetchProofs` | `TypeOK` with the semaphore's bound; every step is one of `FetchPhase` or a stutter | what was delivered is merged or in a task `gather` has not returned |
| `DailyRefreshProofs` | all seven of the run; `BankedClosureIsSkipped` when the two calendar paths agree | where every stored price came from, and what each run knows of the files and rows |
| `SimLoopProofs` | `TypeOK`, `AheadOnlyAfterTimeout`, `SettledIsComplete` | a tally of the shares published up to each event, against which the book is balanced |
| `RebalanceProofs` | `TypeOK`, `BookIsConsistent`, `HoldingKept`, `BestEntrants`, `SelectOf` | the mode is the one decided, or the rebalance was skipped |
| `PipelineProofs` | `TypeOK`, `BookWithinLimits`, `TradesApproachTarget`, `ReleaseIsConfirmed`, `PairingReconciles`, `FirstInFirstOut` | the limits set so far, the count the breaker may not run ahead of, and (`LogIsTimed`) the order of the log |

**Registry.** `OneJobPerKind` needs `OldWorkersDone`: every worker but the last of its
kind is done, which is what `submit` looks at before it makes a new one.
`RunnerEnteredOnce` needs `QueueHoldsUnstarted` (a queue holds no job twice, none that was
started, and only ACCEPTED or CANCELLED ones) and `DownIsEmpty`; that a started job cannot
be submitted again is `StartedIsPastAccepted`. `AckedCancelIsFinal` needs the same two,
`BusyWasStarted`, so that no runner that ends can settle a cancelled job, and
`AckedHasNoOtherRecord`, which outlasts the starts that could not read its file.

None of this speaks of order. `HInv` does: `QueueIsOrdered` relates positions in a queue
to positions in the log of submits that returned; `ExecutingRuns` and `RunningIsHeld` tie
the RUNNING records to the tasks behind them, which is what `NoJobForgotten` and the
one-transition lag of the disk come down to; `StoppingIsQuiet` counts the kinds the
second loop of `shutdown` has awaited. `RegistryImplementsService` maps every action to
an action of `JobService` or a stutter; `JobService` has no fairness, so this is the
whole refinement.

**Adapters.** `OnlyLateCopiesRegress` looks at the gateway, but whether it can
regress is settled earlier, when a copy is sent. `NothingOvertakes` says it of each copy
on the wire and of each hook that may still send one; it holds up because a copy that
nobody has given up belongs to a hook that is still running (`CopiesAccounted`) and two
hooks that run together are noted at once (`OverlapNoted`).

**Fetching.** `ImplementsPhaseSteps` is the safety part of `ImplementsPhase`: the initial
states are initial, and each step delivers, ends an attempt, is cut off, or changes nothing
a refresh can see. The fairness of `FetchPhase` is left to TLC.

**Refresh.** Thirteen conjuncts, of which two are properties of the run. `Served` is where
`RowsAreReal` and the settling of rows come from: every price stored or held anywhere was
served, for a session begun. `OneWorks` is the event loop: one run between two awaits.
`PanelFollows` follows the two files through a save, a crash in the middle and a rebuild;
`NoOlder` says, of a run beside which no other wrote, that its frames are at least as
settled as the rows; `LateCopies` says the same of a request that was given up, until
something overtakes it; `Reported` carries a run's writes to its last await.
`FreshCaptureDecides` is `PolledIsBanked`: since a capture nothing but another capture
changes what the lookup reads. The day a book
is valued at is the last day priced: that it exists is a well-founded minimum, not an
induction. The assumption `Nobody \notin Runner` is that `None` is no task.
`BankedClosureIsSkipped` has the hypothesis `SamePath`, and the run `refresh_resultsdir`
shows what happens without it.

**Sim loop.** The watermark counts events and the book counts shares. What joins them is the
number of shares of an order published up to each event, a sum over the log; instead of
defining it by recursion the invariant says that such a tally exists (`Accounted`), and
carries with it that it is monotone and rises only at events of its order. `Balance` is
then the loop's promise at every step: applied shares against the tally at the watermark,
up to events that were skipped (less) or a wait that timed out (more).

**Backtest.** The loops of the selection are recursive functions. What they return is
proved by induction over the set of turns for which it holds (`Induction`, from the
well-foundedness of `<`), once for any loop (`Iteration`, `OnlyLoop`) and then for the
ranks, the buffer and the cap (`RetainedLoop`, `BufferedOf`, `SectorCapOf`). `HoldingKept`
and `BestEntrants` follow from these for every ranking, gate and book. `SelectOf` is what
they need of `select`: its result is the buffered list cut at the maximum, so that the
two fills below its minimum never add a stock.

**Pipeline.** Sums over books are the library's folds; `SumSplit`, `SumAdd` and the bounds
on sums are proved from their definition by induction over subsets. Each overlay only
lowers weights, and `LoweringKeeps` says that lowering keeps every limit set before; only
the sector cap needs more, that weights are equal when it comes. `CountIsConfirmed` is the
breaker's part: it never counts more confirmations than there were readings.

The pairing is proved a turn, a fill and a log at a time. `TurnBalances` and
`TurnKeepsOrder` say what one turn of the closing loop keeps: the shares and money the fill
has put so far, and that nothing is open that is older than what is closed. `MatchBooks`
follows for one fill, whether it opens, closes in part or flips, and `PairedBook` for all
of a symbol's, in the order of their times. That they have one order is `LogIsTimed`, an
invariant of its own that needs `IInv`: the log holds at most one fill of a symbol at a
time, none from a rebalance that has not filled yet.

Where an induction is needed it is over a set of numbers or of sets. The library's
induction theorems take an operator, which the provers cannot instantiate.

**Only model-checked.** All liveness: `QueuedJobsSettle`, `ShutdownEnds`, `LoopEnds`,
`BreakerReleases`, `TeardownCompletes`, and the fairness in `ImplementsPhase`. The prover
handles neither `ENABLED` nor weak fairness. The five violations are shown by runs.

## 6. Not modelled

* Numbers: prices and average costs of the sim loop; nav, costs, turnover and the
  proportions of the weights in the backtest (so also what their estimation window
  reads); the estimates the overlays read; metrics, features, statistics, slippage. Ties
  of composites.
* Walk-forward, which runs the period loop over slices of the dates, and the gate over
  its report: a verdict on numbers.
* Cleaning, the symbol filter and the universe snapshot: transformations of frames.
* The post-rebalance hook, which nothing calls; the signal snapshot. The payloads of all
  writes. Reads, pings and the health check of the adapters, and `api/retry.py`, which
  wraps them: they change nothing.
* Validation of the calendar's cache file, several years, the drift report; the
  translation of crontabs; APScheduler's misfire handling.
* Request handling, the public-mode guard and authentication: stateless.
* Settings, scripts, user interface, examples and notebooks: values, batch programs run
  by their owner, and displays over the parts above. The notebooks alone are more than a
  third of the implementation's lines.

## 7. Plan

1. Walk-forward's folds and its gate, over the period loop: what a fold may train on and
   what it is tested on.
2. `scripts/fetch_history.py` and `build_universe.py` with a crash between two files and
   a resume.
3. The four hazards without a property: the estimation window of the weights, a GET answer
   used after the stream has delivered a later one, the days the breaker should count, and
   the base of a sector's allowance.
