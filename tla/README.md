# A verification project for MLCryptoEngine

TLA+ models of the program under `src/`, checked with TLC on small instances and,
for the results that matter most, proved with TLAPS for every value of their
constants. `PROJECT.json` lists the components, runs, mutants, findings,
hazards, theorems, and the source lines every definition stands for.

    tlc -workers 2 -config MCCapture.cfg MCCapture
    tlapm Capture_proof.tla

## 1. The system

MLCryptoEngine records public market data for days on end, reconstructs order
books from it, and measures whether what it finds could pay. It is a pipeline
of processes that share nothing but files.

| Part | State it keeps | Operations | Hard because |
|---|---|---|---|
| **Capture loop** `data/recorder/base.py` (one asyncio task per venue) | backoff attempt, start of the outage in progress, heartbeat | connect, subscribe, read, reconnect, back off, stop | every await can fail or be cancelled; an outage spans many failures; wall clock |
| **Raw files** `writer.py`, `reader.py` | hour key, open zstd frame; append-only hour files | write, rotate, close; read across frames | rotation fails half-way; a dead process leaves a frame unfinished |
| **Sidecars** `gaps.py`, `sessions.py` | `gaps.jsonl`, `sessions.jsonl` | append; read and merge | two processes append during a restart; what is not written there is unknown for ever |
| **Recorder service** `service.py`, `diskguard.py` | stop event, tasks, markers written | start marks, gather, heartbeat, shutdown | order of a fallible shutdown; one task's failure and the others |
| **Downtime derivation** `data/validate/downtime.py` | none | markers + activity to gaps | line order is a race; crashes must not pass as planned stops |
| **Order book** `data/book/builder.py`, `parsers.py` | last sequence number, validity, levels, counters | observe, apply, invalidate | one numbering per connection, one book per symbol |
| **Row emitter and part writer** `data/book/emit.py`, `data/store/parquet_writer.py` | boundary cursor; buffer, in-progress file | on_event; append, flush, close | catch-up over quiet stretches, runs that die |
| **Day validation** `data/validate/` | span, credited time, anomaly ledgers, cadence; report and summary | replay a day, account for gaps, judge, report | judged before the span is known; one notion of "gap" on both sides of a ratio; days appear while the run goes on |
| **Warm start** `data/validate/warmup.py` | books at midnight | find the last snapshots, replay yesterday's tail | what belongs to which day |
| **Trade extraction** `data/trades` | dedup set, part files | parse, drop repeats, write | venues repeat recent trades at each subscription |
| **Public archives** `data/archive`, `research/cross/acquire.py` | pages, monthly files, manifest | fetch with retries, load, splice | truncated bodies, crash between file and manifest, pages that grow |
| **Vendor data** `data/databento` | spending ledger, bought files, day partitions | quote, commit, download, ingest, score | two buyers and one budget; sessions in local time |
| **Telemetry** `ops/telemetry` | day buffers and files | probe, add, flush, seed | files rewritten in place; midnight; restarts |
| **Status** `ops/status.py` | none: log lines, markers, disk | collect, judge | lines of earlier processes; who beats for whom |
| **Desktop shell** `desktop/src-tauri` | child processes, log tail | start, stop, poll, window close; tail a rotating log | stop grace against a slow shutdown; stale status; one mutex |
| **Research stream** `research/stream`, `features`, `labels`, `sampling`, `pipeline.py` | rolling windows, pending labels and rows | merge, update, sample, resolve, flush | leakage across time, ties, gaps |
| **Validation splits** `research/validation` | none | k-fold and walk-forward with purge and embargo | a label window across a fold's border |
| **Fill replay** `research/microstructure` | orders, queue position, net, costs | quote, requote, fill, mark, fund | latency: fills of orders that are already being cancelled |
| **Quote census** `research/microstructure` | one-pass accumulators | on record; verdict over many tests | each record scored at a deadline that a later record reveals |
| **Portfolio studies** `research/carry`, `cross`, `pairs` | holdings, entries, accrued funding | rebalance, fund, unwind, scan | holes and delistings; membership by day; trades at the edges |
| **Panel and launch studies** `research/medium`, `research/detection` | publication lags; a launch's first minutes | gate, train, predict; cut off, label | what was known when |

How they meet: `service.py` runs one capture loop per venue, all sharing one
`stop` event; each loop writes through its own `RawFileWriter` and `GapLogger`. The
desktop shell starts and stops the service as a child process and reads its log
and markers. Validation, much later and in another process, reads the hour files and both
sidecars, derives the downtime, replays the messages through a
`SequenceTracker` per connection and a `BookBuilder` per symbol, credits the time
over which a book was valid, and divides it by the day without its gaps. Research
reads the rows that validation writes and the trades extracted from the same
recordings, excludes the same gap windows, and beside them uses histories
that were downloaded or bought.

What makes the whole correct are two statements no single file can make: **every
moment without capture is in a gap, no data lies inside one, and the quality
numbers count exactly that**; and **no number of a study uses what was not known
at its time, and every account adds up through holes**. The first is the
chain the modules from `VenueRecorder` to `DayRows` follow, the second that of the
research modules.

## 2. Modules

Read in this order. "Code" names the functions whose behaviour a module has.

### Recording

| Module | Code | State and actions |
|---|---|---|
| `TimeWindows` | `merge_windows`, `overlaps_ns`, `_clip`, `derive_downtime_gaps` | half-open windows and the fold over session markers; pure |
| `VenueRecorder` | `VenueRecorder.run` with `_rotate`/`write` and `log_gap` | `pc` is the await at which `run()` is suspended; `disconnect`, `attempt`, the writer's `fileHour`/`fileOpen`; one action per way each await can end |
| `SessionMarkers` | `run_service` of several processes | a marker is stamped, then appended: two actions, so lines race; `Die` anywhere |
| `MCCapture`, first half | both of the above over several lives of the process | composes `VenueRecorder` with the derivation; `Shutdown`, `Crash`, `Restart` around the capture loop |
| `RawFiles` | `RawFileWriter`, `iter_raw_records`, `iter_day_records` | hour files as sequences of frames, each with its lines and whether it was finished |
| `RecorderService` | `run_service`, `_emit_heartbeats`, `DryRunLimiter` | `main` is where `run_service` is; its loops visit venues one by one and can fail or die at each; capture tasks run only while it is suspended |
| `RecorderHealth` | heartbeats, `DiskGuard`, the verdict of `ops/status.py` | the log that survives restarts, and what status makes of it |

### Validation

| Module | Code | State and actions |
|---|---|---|
| `BookReplay` | `SequenceTracker.observe`, `BookBuilder.apply` | a numbered connection that loses messages and reconnects; the tracker and each symbol's book |
| `AnomalyVerdict` | the promise in the docstring of `_AnomalyLedger` | abstract: remember every anomaly, judge at the end |
| `AnomalyLedger` | `_AnomalyLedger` | detailed: implements `AnomalyVerdict` |
| `DayVerdict` | `credit_outside_gaps`, `account_gaps`, snapshot cadence, `day_verdict` | credit while replaying; accounts from the final span; what silence explains |
| `WarmStart` | `warmup.py` and the replay it prepares | the day before, the search for snapshots, the tail, midnight |
| `DayRows` | `SnapshotEmitter.on_event`, `StreamingPartWriter` | rows, buffer, in-progress and final file; processing runs that die |
| `ValidationRun` | `validate/__main__.py`, scope, report sections, summary | days that appear during a run, sections, the summary file |

### Other data

| Module | Code | State and actions |
|---|---|---|
| `FundingPages` | `archive/hyperliquid.py`, `cross/acquire.py`: page cache and manifest of the funding histories | a history that grows at the venue; pages left by killed runs |
| `MonthFiles` | `archive/http.py`, `binance.py`, `series.py`, `universe.py`: thread pool, loading and splicing of monthly klines | partial and final files, manifest, retries, dead runs, universe selection |
| `VendorPurchase` | `budget.py`, `ingest.py` up to the rename | two buyers over one ledger |
| `VendorDays` | `session.py`, ingest by day, scoring and exclusions | a file in arrival order cut into trading days |
| `TradeExtraction` | `data/trades` | a venue that repeats trades; the extraction over the recording |

### Operations

| Module | Code | State and actions |
|---|---|---|
| `TelemetryStore` | `ops/telemetry` | probe cycles, buffers by day, files rewritten in place, seeding |
| `DesktopProcesses` | `process.rs`, `lib.rs`, the buttons; `logs.rs` against the rotating handler | children, grace period, mutex between commands, window close; the tailed file, position, what is emitted |

### Research

| Module | Code | State and actions |
|---|---|---|
| `SampleStream` | `features/engine.py`; `fixed_horizon.py`, `triple_barrier.py`; `stream/reader.py`, `sampling`, `pipeline.py` | rolling windows and pending labels as operators on records; the merged day, sampler, pending rows, part files |
| `Splits` | `purged_kfold.py`, `walk_forward.py`, evaluation | folds and the model that is fitted per fold |
| `FillReplay` | `fill_replay.py` | orders in flight, queue, fills, hourly marks |
| `ReferenceReplay`, `InventorySim` | `reference_replay.py`; the inventory simulator | abstract counterparts of `FillReplay` |
| `QuoteCensus` | adverse selection, spread and funding accumulators; the multiple-testing verdict | one pass over the log against the whole log |
| `Portfolios` | cross-sectional, momentum and carry desks; leverage sweep | tape of daily prices with holes; holdings and accounts |
| `PairsBacktest`, `FundingStudy` | pairs backtest; funding runs, panels, membership | positions over bars; funding records as they arrive |
| `MediumPanel`, `LaunchWindow` | publication lags and training window; launch features, creator history | what is known on each day; transactions after a launch |

### Composition

The theorems are in `Capture_proof`, `Validation_proof`, `Operations_proof`,
`Acquisition_proof`, `Feeds_proof`, `Studies_proof` and `Trading_proof`, each of which extends the `MC` module of that name, so that a
theorem and a run speak of the same definitions; `DataLemmas` has the facts about sequences, sums and folds they share.
`MC*` are the instances for TLC. Where components act on the same state they are composed in one specification (`TimelineSpec` of `MCCapture`, `SampleStream`, `FillReplay` with its two
abstractions). Components that meet only through finished files are checked
side by side: an `MC` module has a variable `part`, chosen once; the part
named by it runs, the others keep an initial state, and a property says of
which part it speaks. A behaviour of such a module is a behaviour of one of its parts, so
nothing is lost but the repetition of runs. A property named there is a
conjunction of one or two definitions of the part's module, where its comment is.

Some variables are not in the code and are marked *history*: what really
happened (`missed`, `observed`, `since`, `died`, `dead`, `stale`, `holes`,
`trusted`, `written`, `broken`, `marks`, `late`, `steady`, `killed`, `raced`, `cutByNet`
and others). No guard of an action of the code reads one, with two exceptions that
stand for facts of the outside world: `since` says whether a socket is silently
dead, and `seen` of `BookReplay` keeps the first message of a connection from being lost.
Operators commented as a slip or a mutant are not part of any specification;
each is the plausible mistake that shows the property named with it in
`PROJECT.json` to be able to fail.

## 3. What is checked

### Runs that pass

| Run | Properties | What it shows |
|---|---|---|
| `recorder_losses` | `MissedAccounted` `NoCaptureInsideGap` `StopEndsRun` (liveness) | under all five faults, and until a clean close or a step of the clock, no lost time escapes `gaps.jsonl` and gaps never contradict data; a stop ends the loop from wherever it is |
| `capture` | `PastLossesOnTimeline` `DataOutsideAllGaps` | both sidecars together account for the past over several lives, but for outages that a shutdown cut short |
| | `DowntimeIsTrue` `CausesApart` | derived downtime covers the dead time, names its cause and swallows no data, though marker lines race |
| | `FilesReadBack` `ClosedFramesImmutable` (action property) | hour files read back what they were given, in order; finished frames never change |
| `validation` | `ImplementsVerdict` (refinement) | bounded memory changes no anomaly count |
| | `DayAccountsExact` `LongSilenceIsLogged` | the two sides of the coverage ratio are exact to the tick and agree; a passing day has no long silence without a gap record that touches it |
| | `WarmStartInvisible` `RowsAreTheDay` | the day's books and rows are those of a replay from the beginning, and no part of a day reaches the final path |
| | `ReportsAnswerForAll` | a report accounts for every venue and day it was asked for, whatever arrived while it ran |
| `feeds` | `StalenessLeavesTrace` | every stale book has a counted gap behind it |
| | `LabelsMatchStream` `FeaturesMatchHistory` `RowsAreSound` | labels and features, kept incrementally, are what the whole stream gives; rows come once, in order, and clear of gaps |
| `trading` | `RestatementsHold` (two refinements) `InventoryAddsUp` | the fill replay is its restated policy, and in generous mode the inventory simulator; its accounts add up |
| | `DeskAccountsExact` `RebalancesBalance` (action property) | daily desks' P&L through holes and delistings; what a rebalance leaves; breaches against margin |
| `studies` | `NothingUnpublished` `FoldsAreApart` `PastIsClosed` (action property) | no leakage: publication lags, purged folds, launch window |
| | `TradesAddUp` `CensusReadsTheLog` `FundingIsWhole` | one-pass accounts against the whole record |
| `acquisition` | `PagesAreTheVenues` `HistoriesAreTheArchives` `PurchasesAreAccounted` `VendorDaysExact` `TradesOnceInOrder` | downloaded, bought, ingested and extracted data is the source's, under kills, refusals, short bodies and a second buyer |
| `operations` | `EndMarkerMeansClosed` `FailureEndsService` (liveness) | an end marker anywhere means finished frames everywhere; a signal or one venue's failure ends the process |
| | `ServicesAreOwned` `CommandsAnswered` (liveness) | the shell knows every service that writes, and answers every command |
| | `DayFilesGrow` (action property) `OperatorSeesTruth` | telemetry files only grow and the chart is behind them; absence and shortage show; the log view emits each piece once |

The type invariants and the inductive invariants of the proofs were run with TLC
before they were proved; they stay in the modules as definitions (`TypeOK`,
`IInv`, `LedgerInv`, `ReplayInv`) or in the proof modules, and the runs spend their time on the rest.

### Runs that find a disagreement

Each checks one statement of a docstring, comment or document that the code
does not keep; `PROJECT.json` has the quotation.

| Run | What happens |
|---|---|
| `recorder_close` | a venue's clean close (1000/1001) leaves no gap record for the outage after it |
| `files_crash` | after SIGKILL and a restart within the hour, the hour file cannot be decoded past the cut |
| `book_shared` | a gap revealed by another symbol's message leaves a stale book valid |
| `study_universe` | later funding history adds an instrument to the universe of past days |

### Other statements the code does not keep

The models contain the behaviour, the passing properties except it by name, and
the modules keep the unexcepted statement as a definition. To see a
counterexample, define a name in the `MC` module for the statement about its part, for
example `Statement == part = "score" => Score!NoSilenceOutsideGaps`, and give it
as the only property of that module's configuration; for the first three use
`VenueRecorder_close.cfg` with the change of constants named.

| Definition | Run in | What the source says, and what happens |
|---|---|---|
| `VenueRecorder!CaptureUntilStop` | `Faults = {"drop"}` | after about a thousand failed attempts `2**attempt` no longer fits a float and `OverflowError` ends the service (`ExpLimit` is 2 instead of 1023) |
| the same | `Faults = {"disk"}`, `ExpLimit = 20` | a failed open at the hour boundary leaves the hour key set; the next frame raises `RuntimeError` |
| the same | `Faults = {"drop", "clock_step"}`, `ExpLimit = 20` | a wall clock stepped back over an outage makes `log_gap` raise an uncaught `NegativeGapError` |
| `TimelineComplete` | MCCapture | a stop during an outage forgets its start; downtime begins only at the end marker |
| `SessionMarkers!DeathNeverClean` | MCCapture, `Overlap <- TRUE` | with overlapping processes, one's end marker relabels the other's crash as a planned stop |
| `RecorderService!ExitFinishesFrames` | MCOperations | a failing disk probe keeps the shutdown from closing any writer |
| `RecorderService!GracefulShutdownMarks` | MCOperations | one writer's failing `close` leaves every venue without an end marker |
| `RecorderService!NothingAfterEndMarker` | MCOperations | a venue whose task outlives the gather may store a frame after its end marker |
| `RecorderHealth!SilenceShows` | MCOperations | `ops/status.py:8-10`: a socket that receives nothing shows as an aging heartbeat; but the heartbeat lines come from a timer (`service.py:62-90`), which beats for every venue |
| `DesktopProcesses!NoOrphans` | MCOperations | `lib.rs:138-139`, `process.rs:141-143`: closing the window ends the services; the kill after the grace period reaches the `uv` wrapper only, and its service lives on |
| `TelemetryStore!RestartsLoseNothing` | MCOperations | `store.py:3-7`; a crash inside the in-place rewrite (`:80`) loses the day, and the next start cannot seed from it |
| `DayRows!AsOfBoundary` | MCValidation | an interval row carries the book of an event from after its boundary (`emit.py:3-6` and `102-112`) |
| `DayVerdict!NoSilenceOutsideGaps` | MCValidation | `replay.py:86-90`: a silence outside logged gaps fails the day; one that a gap of any length touches counts as explained (`:636`) |
| `ValidationRun!DatesAnswered` | MCValidation, two dates | `scope.py:225-226`: what produces no work is skipped with a reason; a date named on the command line without data is dropped without one |
| `SampleStream!PointInTime` | MCFeeds | `engine.py:3-7`: only events strictly before the sample; events of the sample's own instant that the merge puts before it are read too |
| `SampleStream!NothingRetainedBeyondWindow` | MCFeeds | `engine.py:9-11`: nothing is retained beyond the longest window; the windows are pruned only when a sample reads them |
| `Portfolios!FundingOnCarriedNotional` for the carry desk | MCTrading | `carry/trade.py:210-211`: funding applies to the notional carried into the interval; it is computed at the price of the interval's end (`:237`, `:242`) |
| `PairsBacktest!EveryTradePaysBothSides` | MCStudies | `pairs/backtest.py:16-18`; a trade open at the first or last scored bar pays one side |
| `LaunchWindow!NoLaterRugInforms` | MCStudies | `creator.py:46-47`; the creator's earlier launches carry the labels they have today |
| `FundingPages!FailuresAreTheVenues` | MCAcquisition | `acquire.py:23-25`: the whole job is resumable; a page cut by a kill fails its coin in every later run |
| `MonthFiles!NoHalfFileUnderFinalName` | MCAcquisition | `http.py:8-10`; a body that ends early without an error is renamed into place |
| `VendorPurchase!CapIsReal` | MCAcquisition | `budget.py:10-13`; two buyers both pass the check before either commits |
| `VendorDays!VerdictsAgree` | MCAcquisition | `databento/validate.py:328-329`; on a day the exchange is closed throughout, the day scorer and the range scorer disagree |

Further observations made while reading, of which the models show some only indirectly:
labels resolve on crossed-book mids that features reject (`pipeline.py:265`,
`engine.py:201`), and those of a top-of-book venue enter on its best quotes and exit
on depth mids; a label resolves at the first mid at or after its deadline, so
over a quiet stretch its true exit can be later than the purge window; an invalid row may be
written ahead of older pending ones; one malformed JSON record ends trade
extraction for the day (`extract.py:36`), and a trades file extracted while
its day was still recorded is reused (`research/__main__.py:141-153`); a day's
file and a range file over the same day are both bought; `leverage_sweep`'s "the two
move in opposite directions" fails for a band wider than the smaller margin's
threshold; better evidence at one horizon can change which horizon is a
census's worst; the disk guard logs a recovery at the first look at a healthy disk
(`diskguard.py:109-112`); a configured symbol without messages has no builder
and so no line in a report; `validation_summary.json` keeps the recorder days
of the last run only; the latest telemetry JSON drops a venue for a cycle after
midnight; a line that the log tailer meets half-written is emitted as two entries.

### Bounds, and why they are enough

- **Clock** (`MaxTime` 3 to 5, `Horizon` 6, `LastTick`, `LastHour`, `LastDay` 3 to 7). Losses,
  gaps and markers relate at most three instants (start, reconnect, next start)
  plus one before and one after. `HourLen = 2`, `DayTicks = 2`, `Interval = 2`
  and `HourNs = 2` put a boundary inside every run; the timeline of `MCCapture` leaves rotation out
  (`HourLen = 10`) because `RawFiles` and `VenueRecorder` have it.
- **Failures** (`MaxGaps`, `MaxConns`, `MaxLives`, `MaxRuns`, `MaxStops`, `MaxFaults`,
  `MaxFailures`). A second outage, connection or life is needed for state left
  over from the first to do harm; a third for a start, a death and a start.
- **Timeouts** (`PingBound`, `CloseBound`) are 1 or 2 ticks, so that time does pass
  inside a keepalive or a closing handshake.
- **Messages, records, rows** (`MaxSeq` 6, `MaxLines` 3, `MaxEvents` 4, `MaxRows` 5,
  `MaxTrades` 3, `MaxRecords` 3 to 5, `max` of a sampled day 3 to 5): enough for a snapshot, an
  update, a loss, the message that reveals it and one more; for a row group
  boundary inside, before and after a catch-up; for a window to fill, slide and
  expire, and for a label to pend behind another.
- **Gaps of a day**: windows before, across and after the day's bounds,
  touching, nested, repeated and empty; all subsets (ledger) or pairs (score).
- **Prices and quantities** are small integers chosen so that mids, costs and
  hedges are whole, and so that spreads can widen, lock and cross.
- **Actors**: three interchangeable processes (symmetry), two venues, two
  symbols, two buyers, two download threads, five asset classes: every property is
  about at most two of them, or about all of a fixed list the code has.

`CHECK_DEADLOCK FALSE` is set where runs end by design: a clock at its bound, a
terminated `run()`, a service that has exited, a study that is over.

### Fairness

- `VenueRecorder.Spec` assumes weak fairness of `Loop` alone: whatever of the
  recorder's own code is ready is run by the event loop, and its awaits have timeouts
  (`open_timeout`, the ping timeout, the close timeout, `wait_for` in the backoff).
  Nothing is assumed of the venue, the disk, the clock or the signal.
- `MCOperations.Spec` assumes, of the service, weak fairness of `run_service`'s own
  steps, of the heartbeat's end, and that a capture task returns once `stop` is set,
  which is what `StopEndsRun` shows of it.
- Of the desktop shell it assumes weak fairness of what `stop` waits for (the child exits or
  `STOP_GRACE` expires; `stop` polls in a bounded loop), of `stop_all`'s next
  child and of the exit, and strong fairness of a command's answer: the mutex
  may be taken by another command between any two moments at which it is free, and the
  operating system does not pass over a waiter for ever.
- All other specifications are safety only.

### Refinements

| Detailed | Abstract | Where |
|---|---|---|
| `AnomalyLedger` | `AnomalyVerdict` | `ImplementsVerdict`, checked and proved |
| `FillReplay` | `ReferenceReplay` | `ImplementsPolicy`, checked and proved for every variant of the policy |
| `FillReplay`, generous variant | `InventorySim` | `ImplementsInventory`, checked and proved |

## 4. Abstractions and assumptions

- Nanoseconds are ticks; floors to milliseconds and float rounding are dropped.
  (`recv_ns / 1e9` puts a message within about 200 ns of an hour boundary into either
  file; nothing depends on which.)
- `VenueRecorder`: subscribing takes no time; a reconnect of a socket that
  already lost frames counts the silence before the keepalive fails (`Grace`) as
  part of the gap that follows, because the code cannot know better.
- `SessionMarkers`, `MCCapture`: a session lasts at least a tick and no two
  markers of one life have the same timestamp (they are nanoseconds apart).
- `RawFiles`: the zstd decoder is external: it reads finished frames one after
  the other, accepts an unfinished frame at the end of a file, and fails on bytes
  behind one. The clock does not step back.
- `RecorderService`: a capture task is reduced to storing, returning, raising.
- `BookReplay`, `WarmStart`: a book is the messages it is made of, or whether it agrees
  with the venue's; it does not heal by itself when later updates overwrite the
  level that was missed; the first message of a connection is not lost (the tracker
  cannot see that loss).
- `DayVerdict`, `DayRows`: receive times do not decrease within a day. A clock
  that steps back credits the same stretch twice (`replay.py:594`).
- `AnomalyLedger`: anomalies have numbers, so that equal timestamps stay distinct.
- `FundingPages`, `MonthFiles`, `VendorPurchase`: the network and the vendor are
  external: a request is refused, answered whole, or cut short with or without an
  error; a kill may come between any two file operations. A rename is atomic.
- `VendorDays`: hours instead of nanoseconds, and two offsets of the exchange's time;
  the change of offset within a file is left out.
- `TradeExtraction`: a trade is its number in the order of execution; the resend at
  a subscription is what the venue's parser knows as a snapshot.
- `DesktopProcesses`: the tree is window, wrapper, service; a signal to the
  wrapper reaches its service (as `uv` forwards SIGTERM), a kill does not.
- `DesktopProcesses`: the tailed lines are written in at most two pieces, read in one.
- `SampleStream`: returns, volatilities and weights are left out; counts, sums, signed flow, imbalance
  numerators and ages are exact. Mids are doubled so that they are whole. A quoted touch may
  be crossed or have one side (`events.py` checks only books), and maker and taker fees differ;
  a crossed touch makes the taker's cost less than the maker's, so the third conjunct of
  `LabelsMatchStream` asks for one that is not.
- `FillReplay`: prices are even ticks; fees and funding are integers per unit.
- `QuoteCensus`, `Portfolios`, `PairsBacktest`, `FundingStudy`:
  scores, p-values and confidence bounds are inputs; the accounts are integers.
- `MediumPanel`: a source's publication is its lag in days; the model is the set of days
  it was fitted on.

## 5. What is proved

The provers were SMT (Z3), Zenon and LS4. Assumptions are the named `ASSUME` of
each module and the `...Assumption` definitions of the modules that are instanced,
which the `PartsAssumption` of the `MC` modules collect; TLC evaluates them on every
run. Each is what the code's own types and checks give: counts and clocks are
naturals, names are distinct, a latency is not negative. `FillBounds` says more,
that the prices of the feed are whole ticks on one grid and half a tick is a whole
number: it is what makes `eps = tick / 2` of the code an exact comparison.

The theorems are about the composed specifications that the runs check
(`CaptureSpec`, `ValidationSpec`, `TradingSpec`, ...), so each names the very property
of its run. A step of a composition is a step of one part that leaves the other
parts' variables alone, hence `[CaptureNext]_captureVars => [Files!Next]_(Files!vars)`
and so for every part; the parts' invariants are then proved apart, and the
conjunction of all of them holds always.

**`DataLemmas`** is about data, not about the system: what the proofs below need to
know of sums over functions, folds, flattened sequences, suffixes, least and greatest
elements and rankings. Induction over naturals is done through the set of
counterexamples and its least element, induction over finite sets through
`FS_Induction` on a set of subsets, because an induction rule with an operator
parameter cannot be instantiated here.

**`Capture_proof`, the capture loop.** `TypeCorrect`: `TypeOK` always, under all faults.
`InvCorrect`, and from it `LossesAccounted` and `DataAgreesWithGaps`, also hold under
all faults, but promise something only while the history variable `steady` is true:
no clean close and no clock step so far (the run `recorder_close` and
`NegativeGap` are what happens after one). `MissedAccounted` is not inductive: that a
lost tick is accounted for by the *pending* outage must survive the reconnect that
turns it into a window, which needs that outside a connection an outage is pending
and inside one none is (`OutagePending`), that an unnoticed loss exists only while a
socket is held and is no older than a timeout (`SinceRecent`), and that
nothing on disk is later than the clock or the pending outage (`DiskInPast`).
`IInv` is their conjunction.

*The timeline over several lives.* A lost tick of the past is in one of four places:
in a feed gap, between two neighbouring markers from which a gap will be derived
(`Covered`), in the running recorder's pending outage (`Pending`), or after the last
marker, where the next start will leave a pair behind (`TimeInv` is this disjunction for
every tick). `LifeInv` ties the capture loop's state to whether the process lives,
`MarkersGrow` orders the markers, and `StopsAreSilent` says that nothing is stored
between an end marker and the next start. `PastLossesAreOnRecord` and
`DataIsOutsideAllGaps` follow by reading `DeriveGaps` off neighbouring markers.
Both promise nothing once `steady` is false.

*The markers of racing processes.* Lines of the marker file may be out of order,
so the derivation works on the file sorted by time. `SessInv` says for each session
what must be on record: every end, message and death is of a session whose start is
in the file or stamped, every start is of a process that is up, ended or died, and
between a death and the next start nothing of that session follows. It has a named part
for each. What the proof must know of the sort is that neighbours in it have no line
between them (`NextToEachOther`, `GapBetween`).

*The hour files.* `FilesInv`: the frame a writer extends is one it opened itself and
nobody has finished. `ReadInv`: until a crash cuts it, an hour's lines are what was
written in that hour, in order, all frames but the last finished. `FilesReadBackAlways`
and `FinishedFramesStay` follow for every number of processes.

**`Validation_proof`.** *The ledger:* `near` is exactly the marks some gap explains, and
`definite` the number of the others (`LedgerInv`). `LedgerImplementsVerdict` has its point
in `Report`: the gaps in scope are a subset of all gaps, the kept and the discarded marks are
disjoint and finite, so their cardinalities add.
*The warm start:* two replays are compared, of everything and of the day warmed by yesterday's
tail, and the first one's counters at midnight are taken off. `Played` is a book as a function of the messages behind it;
`TailJoins` says that a replay which begins at a snapshot agrees from that snapshot on
with one that began earlier, and `WarmInv` that from midnight on both see each
message in the same state (`Alike`), whence the same counters.
*The run:* `WholeInv` says of every section in the report that it answers (`Answers`)
for what it was asked, with an entry certified by a mechanism that compared something,
and that the summary is of a reported section.
*The rows:* `RowsInv`: what is on disk and what is buffered, one after the other, carry the
stamps of the cadence of the events applied, and the cursor stands on the first boundary after the
last of them (`CursorAfter`). `DueIsPassed` is the arithmetic: stepping from there up to an
event's time gives the multiples of the interval between the two events
(`MultiplesAscend`), so each event adds its piece of the cadence (`EmitsChunk`,
`CadenceGrows`) and a flush at any moment neither loses nor repeats one.
*The score:* `DataLemmas` shows of windows in general that `MergeWindows` leaves them apart with
the same ticks (`MergedWindows`), that clipping keeps the ticks inside (`ClippedWindows`, and
`MiddleWindows` for the windows a binary search selects) and that the lengths of windows
apart add up to their ticks (`TotalIsTicks`). So every number of the account is the
cardinality of a set of ticks (`RecordTotals`, `CreditIsTicks`), and `ScoreInv` is short: `covered` counts
the trusted ticks no record covers, all before the last event, and the span is in the day.
What is credited, what is excluded and any other ticks of the day share it
(`DayIsShared`), whence coverage is at most full. `StreamInv` adds that every trusted tick lies between
two snapshots and that a long interval between consecutive ones is noted: a stretch between
snapshots is the cadence's, one at an edge is missing from the numerator, and
`ShortfallBounds` says how much of the day may be missing.

**`Feeds_proof`.** *The books:* `TrackerKeepsInv`: unless a loss is pending, the tracker is
level with the connection (`TrackerLevel`), and every stale book that neither
awaits its snapshot nor a pending loss has a gap counted since its loss (`LossDated`).
From it `TrackerCountsHoles` and `StalenessIsTraced`.
*The samples:* `QueueInv` says what the rows in flight are (the order from its next place on,
rising, each a valid row under its own index) and `FileInv` what the file owes them: every index
so far is written or waits, once, and the valid ones written are below every one that waits.
Taking labels moves no row (`TakingKeepsQueue`), flushing takes the head of the order (`FlushTakesHead`),
whatever the labels say is ready, and letting the oldest go makes room for the one that joined
(`AddedRowWaits`); one event is the three in sequence (`EventMovesRows`), the end of the day a
flush of what is left. With the gaps of the day (`ClearOf`) that is `RowsAreStoredOnce`.
*The labels:* `LabelInv` says, of every row in flight, that each horizon either carries the return
the stream so far settles (`Settled`) or none of its events is late enough and the queue of that
horizon owes it exactly one deadline (`Owed`); that its barriers are armed exactly while nothing has
closed them (`Armed`, `Ended`); and that a taker's win is a maker's (`NetSound`, from
`CostsAreOrdered`). It needs the queues to be in the order of their deadlines (`DueQueue`: whence
what leaves the head is all that is due, `DueSplit`), the labelers' mid to be the last the stream
showed (`MidUpTo`) and the engine's shape (`EngineInv`, which gives a sample a whole volatility and a
positive entry). An event grows the stream by one place (`Grown`): what it settles, nothing later
unsettles (`ReturnMoves`, `BarrierMoves`), and what it settles is what it tells
(`ReturnsTaken`, `BarriersTaken`). A row written keeps what it had (`WrittenOk`), whether it was
complete, let go or censored. `KeptLabelsMatch` turns that into the forward-looking definition, and
`LabelsAreTheStreams` is the theorem.
*The features:* the engine keeps no history, so the invariant says what it remembers of one
(`Remembers`: its book, mid, price and sign are the last the stream showed) and what a window holds
(`HoldsSince`: in their order exactly the events that entered its column after some
cut no later than the window's edge, its total their sum). Between samples the cut may
lag, for windows are pruned only when a sample reads them; pruning brings it to the edge
(`HeldPrunes`, `PruningIsExact`), so a sample's columns are exact in the stream that ends at its event
(`TotalIsExact`). Each event enters its columns with what the history gives it
(`EventIsKnown`), and an earlier event's share never changes (`ColumnStays`).
`PlacesTell` shows that the specification reads the stream the same way, and the theorem is
`FeaturesAreTheHistorys`. It assumes of the days (`StreamBounds`) that touch rows occur only at a venue
whose mids are its touch's: in the repository only Hyperliquid's replay parses a touch channel, and
`REQUIRED_CHANNELS` lists it for that venue alone. At a venue with touch rows and mids of its books the engine
would take its returns from both.

**`Operations_proof`.** *The service:* `ServiceInv` says where each of the two shutdown loops
stands: during the first a writer that is still open is one the loop has yet to visit,
during the second none is open, and no end marker exists before the second.
*The shell:* every wrapper that is up is the child `procs` names for its kind or the
one `stop()` waits for (`OwnerInv`).
*Telemetry:* `StoreInv` relates the places of a row: what a file last held whole begins the
buffer of its day, a file is that or torn, and outside a flush no buffer is ahead of its file;
`DayFilesOnlyGrow` is then an action property of one step.
*Health:* a beat is never newer than the last moment its venue was recorded, and while a
shortage lasts its last report is less than a repeat interval older than the turn
waited for (`HealthInv`). *The log view:* what was emitted, joined, is the log up to the position
(`TailInv`), across rotations.

**`Acquisition_proof`.** *Funding pages:* while a coin is fetched, what was gathered is exactly
what was published before the cursor, a page under a key is an answer to that key without a hole, and a page
shorter than the limit was asked for after the fetch began (`FetchInv`, `DiskInv`); an
answer stays one because the venue publishes behind it. A page of one row would always look
like the last one, so the limit is assumed above one (it is 500). *Months:* jobs of a phase are at work only in that phase and a
phase ends when all of its jobs have, so no two jobs write one file (`VouchedInv`);
`HistoryInv` adds that a job ends "have" only where the archive has the month and "nothing"
only where it has not, and that the members are those the first month ranks.
*Purchases:* the charges of a file are at least its requests *plus* the
buyers that have committed and not yet asked (`ChargeInv`); unless two buyers raced,
what lies under a `.partial` name is the download of the one buyer at work on that file
(`FilesInv`); and each commit of a lone buyer was checked against what is spent now
(`CapInv`, a sum over the ledger).
*Vendor days:* a day's halts and weekends, cut to the day, are apart and hold
exactly the hours the calendar is closed (`ClosedIsShut`: the halts that can reach
a day are those of the three days before it), so a pair of records covers its ticks less those
hours; `DayGood` says the score is that of the records so far, and what is excluded from labels
is a merge of windows that contains each of its four causes (`ExclusionsAreWindows`).
*Trade files:* no trade is reported live twice, for a connection goes on where it began, and
messages report trades in the order of execution (`RecordInv`); what was extracted up to a
position rises and holds exactly the readable trades reported live before it (`DatasetInv`).
That concatenating and flattening keep the order is `FlattenRising` of `DataLemmas`.

**`Studies_proof`.** *Panel:* every feature is a chain of transforms, each of which only
looks back (`LooksBack`), applied to what had been published; labels of training dates
have resolved before the embargo. *Pairs:* the turns charged are a sum over bars, which a new bar extends by what it adds to the
trades' own sides, and the open position's age bounds the run of open bars that ends now (`PairsInv`).
*Folds:* contiguous blocks cover the rows by a quotient argument, purge and embargo keep
training rows away from the test block on both sides, and a prediction is of one fold that has
run, on that fold's test rows (`FoldsInv`).
*Launches:* everything a feature reads is a filter of records by time, and a filter
by a closed window ignores what arrives later (`LaunchInv`).
*Funding:* `ScannedTo` follows the scan row by row: the closed runs are apart, all their rows
are negative, each ends at a row that is not, every negative row is in one or in the
open stretch, and hours and costs are differences of prefix sums
(`SumTo`), so they add up and a part of a stretch is never worse than the run
around it (`StretchIsReported`). All it needs of a history is that its rows are in time
(`CarryInv`). The lowest of a cross-section sum to no more than any
others of their number (`BottomIsLeast`), whence the sign of the spread.

**`Trading_proof`.** *The accounts of the fill replay:* `LedgerOk` is: every change of the
net is in one hour (a sum over the hour table), cash and position at the mark equal
edge plus drift, the position is within the cap, and the drawdown has seen the
peak. Each of `Credit`, `Drift`, `Settle`, `Charge` and `Book` preserves it with the
mark it leaves (`InventoryIsAccounted`). The cap survives stale fills of both
sides in one print because every fill is cut to the headroom at its own moment.
*The refinements* (`RestatementsAreMet`): each event of the streaming engine is shown to be
one event of `ReferenceReplay`. The orders of the two sides are a set of
records there; the blotter's mark is read back from the edge that was booked; stale
cancels are counted through a bijection between sides and orders; fills are matched
one by one, bid first. The invariant it needs is `PricedAtTheTouch`: every resting order was
priced at a face of some quote the feed showed, so that a price and a print that
differ by less than half a tick are equal. Variants of the policy that the
restatement does not describe stand still in it, as the refinement mapping says;
in generous mode the ledger is `InventorySim`'s, step by step.

Two forms recur because of what the provers can see. `SortSeq` and `SelectSeq` are
recursive in the library and opaque to them: where the order matters, a definition
sorts by rank (how many elements come before) or states which sequence it means
and TLC checks that there is one. And a recursive function is known through its
table (`FoldTable`, `FlattenTable`), which exists by the lemma of that name.

### What is only model-checked

- Liveness (`StopEndsRun`, `FailureEndsService`, `CommandsAnswered`): temporal reasoning
  under fairness needs ENABLED, which TLAPS does not reach.
- `DeskAccountsExact`, `RebalancesBalance`: long-short books are sums over sorted
  holdings; the leverage sweep compares two scans step by step.
- `CensusReadsTheLog`: one-pass accumulators against a filter of the log.
- The statements the runs refute are refuted by their counterexample, not proved false.

### What could be taken further

The plan, in order: the refinement-like equality of one-pass accumulators and whole
records (`CensusReadsTheLog`), for which
`DataLemmas` has the fold lemmas; then the desks.

## 6. What is not modelled, and why

- **Venue subscriptions, entry point, configuration**: constants, parsing and
  validation of arguments; no state over time.
- **Book contents**: levels, depth truncation, checksums, crossed and locked
  detection. The proofs and runs above are about which messages make a book, and
  hold for whatever the messages contain. What truncation loses after
  deletions inside the depth (`builder.py:179`) is visible in the code and shows only
  in a model of prices.
- **Distribution statistics and report layout** of validation, **status layout**,
  **DuckDB helpers**: no guard depends on them.
- **`binance_futures`** repeats the monthly pattern of `MonthFiles`; **`store_dbn`** is a
  copy in place that refuses an existing destination: a crash in it leaves a file
  that has to be removed by hand; the **roll calendar's volume rule** is a maximum over
  a table.
- **Helius gate**: a one-shot probe of an external service; the **probes' protocol
  exchanges** of telemetry likewise.
- **Numerical studies**: regression, networks, bootstrap, clustering, the lead-lag
  correlation, ratios and summary statistics are real arithmetic, outside TLC's reach; what they are
  given, and when it was known, is what `MediumPanel`, `LaunchWindow`, `Splits` and `SampleStream` model.
- **Experiment log**: one appended line per experiment.
- **Dataset listing, settings and rendering** of the desktop, the **backtest report
  schema** and the **audit probes**: no state over time, or one-off scripts.

What could be taken further: a book of prices for depth truncation; a
file that spans a change of the exchange's offset.
