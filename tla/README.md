# A formal model of A-Stock Lens

TLA+ modules, TLC runs and TLAPS proofs about A-Stock Lens: several processes
over one set of files, crashes and reruns, slow or silent sources, decisions
taken over incomplete data, and readers beside writers. Everything is
translated from `src/astock_lens`, `scripts/migrate_storage.py`, `web/src` and
the configurations; paths below are relative to the repository.

## 1. The system

A-Stock Lens screens the Chinese A-share market once per trading day. Data goes
one way:

    provider -> raw CSV -> normalize -> quality gate -> universe -> factors
      -> strategies -> regime -> market validation -> signals -> candidates
      -> watchlist / research -> CLI, API, web          (trade gate: beside it)

There is no server that owns the data. Every command of `astock` is a process
that reads files, computes and writes files; what happens when two commands
meet, or one dies, is decided by how each store looks, opens and fills.

| Component | State it keeps | Operations | Talks to |
| --- | --- | --- | --- |
| bootstrap scheduler `data/bootstrap_scheduler.py` | calls in flight, deadlines, counters | submit, poll, time out, drain, give up | one worker (process or thread) and one queue per symbol |
| bootstrap history and checkpoint `data/bootstrap.py`, `bootstrap_checkpoint.py` | part file per symbol, manifest, market file | open, land a chunk, record, flush, compact, adopt, widen | the scheduler, a batch source, `data/sync.py` |
| raw landing `data/sync.py` | one CSV per dataset, all days in it | land the listing and the bars of whoever lacks a day, skip who has it, merge by key | providers, calendar, the bootstrap's `compact_bootstrap_run` |
| gap filling `cli/data_commands.py`, `data/sync.py` | one file per fetch day of valuations and of dividends | rounds over what is missing, merge by block, swap | the content source; scans read the newest file |
| providers `data/providers` | none | fetch in batches, retry, ask again for what is missing | external services; syncs and the cold start |
| normalize, quality gates `data/normalize`, `data/quality` | none | parse, reject rows | raw files |
| universe, factors, strategies `universe`, `factors`, `strategies` | none | exclude, compute, rank | the repository of normalized data |
| qualification, candidate policy `qualifications`, `candidates` | none | floors, percentiles, reserve, fill | strategies, snapshots |
| market validation, regime, signals `market`, `signals` | none | decisions over five pieces of evidence | bars, benchmark, industry map |
| daily pipeline `pipelines/daily.py` | job manifest of the day | eleven stages, blocked, skipped, failed | all of the above, snapshot and job store |
| snapshot store `data/snapshots` | one immutable file, or row, per kind and day | write, load | the pipeline, CLI, API |
| watchlist `watchlist`, `cli/lifecycle_commands.py` | one entry per symbol with its timeline | start, edit, transition | candidates, research |
| trade gate verdict `trade_gate/engine.py`, `scoring.py`, `veto.py`, `replay.py` | none | score, veto, decide, replay | snapshots, AI audit |
| trade gate ledger `trade_gate/service.py`, `store.py` | append-only records of six kinds | evaluate, plan, override, execute, review | verdict, AI audit |
| DuckDB stores, `scripts/migrate_storage.py` | the same as the JSON stores, in tables | look and insert; the migration recreates, inserts and verifies | selected by a setting |
| discovery, queries `discovery`, `cli/discovery_commands.py` | none | lists and counts from stored snapshots | snapshot store |
| API and web `api/app.py`, `web/src` | the page's day, tab, data and error | routes; select a day, hear an answer, retry | snapshot store; the network |
| calibration, research, AI, calendar | none | read | stores, language models |

What is hard, and what makes each part correct:

* **Scheduler.** Answers race deadlines, threads cannot be stopped, a poll
  deletes from the table it visits. Correct when no symbol is lost or reported
  twice, the width holds, and it returns whatever its workers do.
* **Cold start.** Three kinds of files are updated one after the other and a
  crash may fall between any two; a rerun trusts what it finds. Correct when
  no file claims what another does not hold, nothing is lost or invented, and
  nothing is fetched twice.
* **Raw landing.** The market files are rewritten in place by every sync, and
  what to fetch is decided by what an earlier, maybe killed, one left there.
  Correct when a row has one version and none is lost but to a killed write.
* **Gap filling.** A source answers about one or two symbols of a batch, and a
  new day's file shadows the last. Correct when rounds add up, nothing covered
  is asked for again, and no reader sees an answer before its day.
* **Providers.** Batches fail, answers leave symbols out, tokens expire. Correct
  when an answer accounts for every symbol it was asked about and a fetch ends.
* **Point in time.** Files hold rows of all days in the order they were landed.
  Correct when what lands about later days changes nothing about a day, and the
  order of landings does not matter.
* **Screening.** Ranks, qualifications, validation and selection are computed
  by separate modules from one market, and again by the reports and queries.
  Correct when better never ranks lower, the two entrances agree, the selection
  accounts for everybody, and what a query says is what the run decided.
* **Daily pipeline.** Raw inputs change while and between runs of the same
  day; snapshots are written once. Correct when all the snapshots of a day
  come from the same inputs and the manifest is true of them.
* **Trade verdict.** Vetoes, missing data and thresholds compete. Correct when
  PASS is earned by complete knowledge, and rules outrank the AI.
* **Trade ledger.** Several processes write records that name one another.
  Correct when records are never changed and every execution can be traced to
  a PASS or to an override with a smaller position.
* **Watchlist.** The whole entry is read, changed and written back. Correct
  when a state change is never lost and the timeline tells the state.

* **Stores and migration.** Every store looks and then writes without a lock,
  over files or over a database that a script makes from the files. Correct
  when only a race loses anything and "clean" means a copy.
* **Readers.** A route reads several snapshots while a run writes them; a page's
  requests are answered in any order. Correct when no answer is half a day, a
  page tells what is selected and never waits for ever.

The hazards that matter most are listed at their lines in `PROJECT.json`, each
with the properties that would notice it. Three more have no property, because
nothing in the repository promises otherwise: a review is written without a look
at the execution it names (`trade_gate/service.py:185`); a second migration drops
what a DuckDB backend has written since the first
(`scripts/migrate_storage.py:366`); and a day published without a candidate is
answered like one that was not published (`api/app.py:436`). The models show all
three as they are.

## 2. The modules

| Module | Models | Abstract specification, or what it builds on |
| --- | --- | --- |
| `BootstrapScheduler` | `fetch_symbols_bounded`, its workers and queues | `FetchRound`: each symbol gets at most one verdict, and the round closes with symbols unreported only after a silent width |
| `BootstrapHistory` | `_extend_history`, `land_bar_chunks`, the checkpoint directory | uses `FetchRound` for the scheduler |
| `Providers` | `fetch` of the four providers | |
| `RawLanding` | `land_raw` and its merge, beside the bootstrap's merge into the same bars | `RawBook`: rows are renewed or added, and lost only by a killed sync |
| `GapFilling` | the rounds of `sync-valuation` and `sync-dividends`, `sync --valuation` | |
| `Factors`, `PastFiles`, `PointInTime` | normalization and gates with every factor, and both over files landed in any order | |
| `CrossSection`, `MarketView`, `Discovery` | universe, ranks, qualification and the candidate policy; evidence, validation, signals; the queries: pure operators | the next one |
| `Screening` | the stages of a run over one market, as steps that compute with those operators | |
| `DailyPipeline` | `run_daily`, the JSON snapshot store and the JSON job store | `DayRecord`: each kind published once, in order, all from the same inputs |
| `Stores` | look and put of every store over files and rows, and the migration | |
| `Reading` | the routes, the queries and the pages beside a run that publishes | |
| `TradeVerdict` | scoring, vetoes, engine, replay and the profiles, over the facts and rules of `TradeFacts` | |
| `TradeLedger` | the service's commands over the JSON ledger | `TradeRecords`: lawful records are appended and nothing else happens |
| `Watchlist` | `astock watch` over the JSON watchlist and the state machine, with entries of `WatchEntry` | |

Nine modules are in two files, so that the runs and the proofs speak of the
same definitions: the state, and what is asked of it, is in a module of its own,
the actions are in the module of the table.

| State and properties | Actions |
| --- | --- |
| `FetchCall` | `BootstrapScheduler` |
| `FetchReport` | `Providers` |
| `RawFiles` | `RawLanding` |
| `BlockFiles` | `GapFilling` |
| `StorePlaces` | `Stores` |
| `PageState` | `Reading` |
| `PastFiles` (with what a run computes from the files) | `PointInTime` |
| `TradeFacts` (with the rules that score) | `TradeVerdict` |
| `WatchEntry` | `Watchlist` |

`SetLemmas` holds the lemmas about the operators of the library that several
proofs need: sums over a function, also added up group by group, least and
greatest members, members numbered by their places, sets turned into lists, and
the one list of a set in an order.

`MC<Name>` holds the definitions an instance needs for TLC, `<Module>_proofs`
the theorems. A definition named `Something_Slip` is a plausible bug in the
definition `Something` that follows it (a dropped guard, a swapped order). No
action uses it. Replacing the body of `Something` with it must make TLC report
the property that `PROJECT.json` names for it under "mutants": this is how we
know that each property can fail.

The system is one process after another over shared files, so four modules
compose the others for checking: `MCProgress`, `MCDay`, `MCRecords` and
`MCData`. Their parts have no file in common within a run, or meet only in
files of which each part is checked on all the contents it may find. A frozen
variable `scene` says which part moves, so that the state spaces are added and
not multiplied. A property of one part is about that part's scene.

### How state and actions correspond to the code

**BootstrapScheduler.** The variables are the locals of
`fetch_symbols_bounded` (`pending`, `active`, `draining`, `exhausted`, the
counters) and of one poll (`unpolled`, `looking`, `roundCompleted`,
`roundTimedOut`). Reading a queue and checking the deadline are two steps, so
an answer may come between them. Workers run beside the loop; a process worker
that timed out is terminated, a thread goes on and may still answer. Time is
the set of calls whose deadline has passed; a deadline may pass at any moment.

**BootstrapHistory.** `disk` (parts, manifest, market file) survives a
`Crash`, `memory` does not. Every file write of this component is atomic
(`os.replace`), so each is one step; between the write of a part and its
record, and between a record and the flush, there are states of their own. A
bar is its distance from the end date and a file is a set of bars. The frozen
variable `troubled` says whether calls may fail and answers be partial in this
behaviour, so that one specification covers both and `Steady` names the
behaviours in which the source answers everything it has.

**RawLanding.** `step` is the command's place in `land_raw`; a merge is worked
out when the answer arrives (`draft`), then the file is truncated and filled in
two steps, and a `Crash` while it is filled keeps any part of the draft. The
request for bars names no dates, so an answer is a history of each symbol, on
any days (`History`), and it comes as often as the symbol was named: a row of
the model is a version of a bar and how many `times` it is in the file. The
bootstrap's merge swaps the file in one step. In the refinement a truncated
file already is what it is being filled with, so that the refinement is about
rows and not about bytes.

**GapFilling.** A file is the set of symbols it covers. `Covered` is what a
round counts: the newest file for valuations, the file of the day for
dividends, as the two commands do. `void` are symbols asked for by name whose
new block has no values and replaces one that had.

**Providers.** `queue` holds the calls still to be made, each the symbols it
names; `heard` collects the symbols the source told of and `refused` those of
a call given up, so that an answer can be compared with what happened. The
second pass is the same queue with `again`.

**Factors, PastFiles, PointInTime.** A row has cells that are numbers,
blank or garbled; a file is a list of rows, and a filter or a sort of the code
is the list of the rows it keeps (`Kept`, `Ordered`). `Factors` calls its days
`Date` and the absence of a value `NoValue`, since `Day` and `None` belong to
modules it is checked beside. `PointInTime` lands bars, statements, valuations
or dividends about one instrument in any order. `NoLookAhead` is an action
property: a landing about later days leaves the factors of a day as they were.
It is silent about a restatement, which takes the place of the row that was out
before; what that does is the finding `restated_past`.

**CrossSection to Screening.** A market is a listing, bars, measures, an
industry map, a benchmark and a breadth. Percentiles are integer parts of a
`Whole` that the populations divide. Each stage is one step that stores its
result; a stage that raises makes the run FAILED. Sorting and slicing appear as
what they select.

**DailyPipeline.** A stage's verdict is reached in one step for the stages
that only compute, and in check, open and fill for those that write a
snapshot; then the manifest is read, truncated and written. The content of a
snapshot is the function from the inputs it depends on to the versions that
were read. `Land` changes a raw input at any moment, as `astock fetch` does;
`Crash` may fall between any two steps.

**Stores.** A process reads a place (`Look`) and later writes what that became
(`Put`); a place is a file or a row, its content a set of labelled entries, so
that one operator covers a manifest, a raw file, a snapshot and a watch entry.
`raced` remembers the places that were replaced by who had looked too early.
The migration holds the database's lock and advances statement by statement in
its three modes.

**Reading.** `Script` lists what each route and query reads, in order; `Serve`
does one read. The run publishes kind after kind in two steps and may be
killed. A page has the states of its React component: days, selected day, tab,
what is shown, waiting, error; `id` numbers requests as `requestSequence` does
on the pages that have it.

**TradeVerdict.** One intent with its facts is evaluated and replayed.
Ratios are quarters and scores are compared with four times the threshold. A
revision of a profile is any set of weights the loader accepts (`Revisions`). The
weights, vetoes and thresholds are those of `configs/trade_gate`.

**TradeLedger.** `look`, `create` and `fill` are the three file operations of
`store.py`; ids of intents and reviews may meet because callers choose them.
The audit is a step of its own between the intent and the evaluation and may
fail.

**Watchlist.** One command notes the time, reads, makes its version,
truncates and fills. The frozen variable `single` tells whether commands are
given one at a time or at once; properties that need the former say so. An edit and a transition may come in one command, in the
order of the code.

## 3. The runs

| Run | What it asks | Bounds |
| --- | --- | --- |
| `progress` | Cold start, providers and readers: does everything that begins end (`RunsEnd`, `FetchReturns`, `PageSettles`)? Do books, files, manifest, reports and answers tell the truth (`BooksBalance`, `DiskTellsTruth`, `RunTellsTruth`, `ReportIsTrue`, `AnswersAreWhole`)? Does a rerun resume (`RunResumes`), do only rows come in (`CanonicalOnlyGrows`), does a guarded page tell what is selected (`GuardedTellSelection`)? | scheduler: 3 symbols, width 2, processes and threads, so that draining, recovery and giving up all occur; cold start: 2 symbols, flush every 2 records, windows of 4, 8 and 12 days; 2 starts with every failure and partial answers (`troubled`), or 3 without, over sources that are steady, patchy, dead or without values; providers: 3 symbols in batches of 2, one without a suffix, 2 attempts; readers: 2 days (for a page the older one has rows), 3 requests, any of 11 pages and queries |
| `day` | Do the day's snapshots agree and is the manifest true, over crashes, reruns and new inputs (`DayAgrees`, `SuccessHasSnapshot`, `ImplementsDayRecord`)? Does a store lose anything but to a race (`OnlyARaceLoses`), and is what the migration calls clean a copy (`CleanMeansCopied`)? Is what passes earned, and a score out of a hundred (`VerdictIsEarned`)? | pipeline: one process, 2 starts, 2 versions of each input; stores: 2 processes, 2 store operations, 2 migrations in 3 modes, both backends; verdict: combinations of every fact each profile looks at (listed in `MCDay`), replayed under the same profile, under other weights and under one that drops dimensions |
| `records` | Is every execution accountable, every "written" true, the ledger append-only (`Accountable`, `ToldIsWritten`, `ImplementsTradeRecords`)? Does a timeline tell its state, does a wreck stay, is no change lost one at a time (`TimelineTellsState`, `WreckStays`, `ChangesAreKept`)? | 2 processes, 2 contents under one id, 2 evaluations; times 0..3, one command at a time or at once; kills anywhere |
| `data` | Does no file say two things of one key or lose a row but to a killed write (`OneAnswerPerKey`, `ImplementsRawBook`), do rounds add up (`LandingKeepsItsPlace`), does no factor look ahead, depend on order or forget (`NoLookAhead`, `OrderIsForgotten`, `BlankHidesNothing`)? Do ranks, entrances, selection, validation and queries agree (`BetterRanksNoLower`, `EntrancesAgree`, `SelectionAccounts`, `ReserveKept`, `ConfirmedIsSound`, `QueriesAgree`)? | landing: 2 symbols, each named up to twice, 2 versions of each row, 3 days with 2 trading days; gaps: 3 fetch days, 2 rounds; history: 1 instrument, 3 days, windows of 2; screening: every market of 3 instruments out of 13 kinds in 5 moods, 2 strategies, capacity 2 |

Two of everything is enough where the hazard is a pair (two processes over one
file, two records under one id, two symbols of which one fails, two answers of
which one is late); the width, the rounds and the number of starts are chosen
so that the rare branch (a full width of timeouts, a rerun, a round beyond the
last, a batch asked again) is reached. The thirteen kinds of stock in
`MCData` are picked so that every exclusion, every missing measure, every
verdict and every signal occurs. Symmetry is used over interchangeable rows,
instruments, processes and contents, and nowhere liveness is checked. Deadlock
is not checked where the system stops: a call that returned, a run that is
over, an intent evaluated once. Every bound on a counter (`MaxStarts`,
`MaxAsks`, `MaxWrites`, `MaxMigrations`, `MaxClock`) is a guard of the action
that counts and is declared with the word "bound".

### Findings

Runs expected to fail show where the code does not do what it, or its
documentation, says. `PROJECT.json` quotes the lines.

| Run | What it shows |
| --- | --- |
| `history_rerun` | On a rerun the widening loop stops at its first window, because a round that fetched nothing is taken for an exhausted source. |
| `restated_past` | A restatement replaces the row of its period: a run about a day before it loses the value that was known then. |
| `gaps_shadowed` | The first round on a new day makes a new newest file with what it brought; the second asks again for valuations that yesterday's file covers, and a scan of the day no longer finds them. |
| `daily_torn` | A snapshot truncated and not filled makes every rerun of the day fail. |
| `verdict_replay` | The replay asks for the score before the missing data and answers differently under the same profile. |
| `breadth_ahead` | The market breadth of an earlier day is counted from the last rows of the file, later days included. |
| `migrated_store` | In a database the migration made, every new snapshot is refused. |
| `stale_day` | The candidates page shows an older day's answer under the selected date when that answer comes last. |

Seen while modelling, and part of the modelled behaviour without a run of its
own:

* A part staged after its symbol's failure was flushed is fetched again after
  a crash, since the flushed failure outlives the evidence of the part
  (`data/bootstrap.py`). `RunResumes` speaks of `Steady` sources
  only: no call fails, and there is a bar in every step back.
* Of two daily runs at once that both found no snapshot, the second replaces
  the first's (`data/snapshots/store.py`), and so it is with manifests and raw
  files. `OnlyARaceLoses` says that nothing else does; the theorems about a day
  assume one process.
* A symbol named twice to `astock sync` is fetched twice and landed twice, as
  incoming rows are compared with those of the file and not with one another
  (`data/sync.py:783`), where `data/sync.py:18` says that replaying a payload
  cannot double-count. The quality gate then drops both copies
  (`data/quality/gate.py:127`), and the next sync takes the symbol for landed.
  `OneAnswerPerKey` is what holds: all copies say the same.
* A sync of one day lands and renews bars of other days: the request names no
  dates (`data/sync.py:613`), and AkShare then asks for all there are
  (`data/providers/akshare_provider.py:305`), where `data/sync.py:502` speaks of
  one date of daily bars. `RawBook` promises no more than the code does.
* A dimension that a revised profile drops keeps its weight in a replay
  (`trade_gate/replay.py:17`), and as `model_copy` does not validate, the score
  may pass the 100 of `trade_gate/models.py:226`. `VerdictIsEarned` bounds the
  score of a replay as long as no stored dimension was dropped.
* The benchmark's 20-day return is taken from the first of all valid bars up to
  the day (`pipelines/daily.py:656`), so with more than twenty of them the
  excess of an industry compares two windows; `MarketView` computes it so.
* Of two `astock watch` commands at once the second may drop the first's state
  change, and an edit sets `updated_at` before the move is checked against it.
  `ChangesAreKept` is about commands given one at a time.
* A fetch of valuations that fails does not make `astock sync` exit with 1, and
  on a day the exchange is closed its bars count as "already landed"
  (`cli/data_commands.py`).
* A day whose close is missing fails the quality gate and is dropped before any
  window is cut (`data/quality/gate.py:149`), so a trailing return is computed
  across the hole that `factors/builtin.py:79` means to answer with NULL.
* When the first pass of a fetch brings nothing at all, no second pass is made
  (`data/providers/westock.py:273`): a source that was busy for a moment reads
  like one that has nothing. What a second pass fails at is not mentioned.
* A day published with no candidate is answered with 404 like one that was not
  published (`api/app.py:436`), where
  `docs/superpowers/plans/2026-09-21-candidate-today-query-experience.md:24`
  speaks of a valid empty publication.
* When the list of dates cannot be fetched, the pages of a day show that there
  is no snapshot and offer no retry (`web/src/app/DateContext.tsx`); on a page
  that does not number its requests the error of an old one stays on screen
  though the new answer has arrived.
* The migration drops rows a DuckDB backend has written since the last one,
  of which there is no file (`scripts/migrate_storage.py:366`).

### Fairness

Fairness is stated on the system's own steps and never on its environment.

* `BootstrapScheduler`: weak fairness of the loop, and of deadlines passing,
  since the loop blocks only in a poll with a timeout and wall-clock time
  passes. Workers get none: they may hang for ever.
* `BootstrapHistory`: weak fairness of the steps of an uninterrupted run; what
  a source answers stays open.
* `Providers`: weak fairness of what fetch does by itself and of calls whose
  runner or transport carries a timeout (`Timed`: `westock` passes one to
  `subprocess.run`, neodata to `urlopen`); which outcome stays open. An AkShare
  call has no timeout and may hang (`Untimed`), and `FetchReturns` does not
  speak of it. The cold start is not hurt, since it waits for a deadline and
  not for the worker; `astock sync` may wait for ever.
* `Reading`: weak fairness of answers and of the list of dates. `fetch()` has
  no timeout of its own; that the network answers or fails in the end is the
  one assumption about an environment here.

Everything else is checked for safety only.

## 4. The proofs

TLC checks the small instances above; these theorems hold for every value of
the constants under their `ASSUME`s.

| Module | Theorems | Argument |
| --- | --- | --- |
| `BootstrapScheduler_proofs` | `TypeCorrect`, `NothingLost`, `SilenceBeforeGivingUp`, `BooksAlwaysBalance`, `KeepsPromise` | `SchedulerInv`: width, the partition of symbols, and two accounts of how many timeouts passed since the last answer. Giving up needs the account: `draining` alone does not say how many calls were silent. `StatsInv`: each counter is the size of a set of symbols. |
| the same, about `Providers` | `FetchTypeCorrect`, `ReportsAreTrue` | `FetchInv`: what was collected is what the source told, and as long as no failure is to be told every requested symbol was named by a call or is in the queue; in the second pass every missing one was named twice, or once and is in the queue. For any boards, batch size and number of attempts. |
| `BootstrapHistory_proofs` | `TypeCorrect`, `SuccessIsBacked`, `NothingIsInvented`, `MarketFileGrows`, `ReportIsHonest`, `DiskIsTrue`, `RunIsTrue`, `RunsResume` | `DiskInv`: entries in memory and the symbol being recorded have their parts too, since a flush copies memory to disk. `ReportInv`: between a compaction and the next fetch all landed parts are in the market file, so the measurement before the last compaction is still right after it. `LedgerInv`: a staged or failed symbol has its entry in memory, and what is not flushed is counted. `ResumeInv`, under `Steady`: a failure is named only of a symbol the source has nothing of, so every staged part counts as landed, and no part covers a gap of the round. `FirstInv`: in a first run that was not interrupted every round leaves each short symbol with exactly the rows within its steps, so a round that adds no row has met the end of the source. |
| `RawLanding_proofs` | `TypeCorrect`, `KeysSayOneThing`, `LandingKeepsPromise` | `LandingInv`: what the draft keeps of the file it will replace, by where the command is. That a sync leaves alone whoever has its day needs the symbols it asks for to be disjoint from those landed, from the question to the answer; the days of the answer do not matter. For any history of each symbol and any number of times it is named. |
| the same, about `GapFilling` | `RoundsTypeCorrect`, `EveryLandingKeepsItsPlace` | `GapInv`: what a round asks for is missing from the file of its day until it lands, so a new block replaces none of a round before. |
| the same, about `PointInTime` | `FilesAreWellTyped`, `FilesKeepTheirRows`, `FactorsKeepToTheirDay`, `FactorsForgetTheOrder`, `BlanksNeverHide` | `PastInv`: a file is a list of rows and a period has one statement, because a merge drops the rows of the key that arrives. The bars a factor of day d may use are a function of a set: the sound bars up to d that are alone on their day (`SoleBars`), in the order of their days; a set has one list in a strict order (`ListsAreUnique`), so a row that is added or permuted without touching that set changes nothing. A landing appends one row and keeps the others but those of its key (`LaterBarsUnseen`, `LaterStatementsUnseen`), and one of a later day takes nothing from that set. Statements are told by their periods, the other files by the latest up to d (`LaterFilesUnseen`). Restatements are the exception named in the statement. Blank reports add no observation with a value, and the latest one with a value is what counts. |
| `Screening_proofs` | `TypeCorrect`, `EveryStrategyHeard`, `BetterNeverRanksLower`, `EveryoneIsAccountedFor`, `ConfirmedHasTheAmount`, `ResearchSeesTheUniverse`, `EntrancesMeet`, `QueriesTellTheRun` | `IInv`: by the stage, what the variables are functions of. The best of a strategy has nobody ahead of it, so it is among the first of its reserve whatever its size. A rank counts those behind, and those behind a worse one are a subset of those behind a better one; a composite is a sum over the weights, and sums are monotone (`SumMonotone`). Whoever is left out was behind everyone who filled the capacity, because a place in the order is a number of predecessors (`PlacesAreNumbered`). A query lists a set in an order that has one list, its limit is never below what there is to list, it judges again whom the run judged, and counting candidates group by group counts them all (`GroupsAddUp`). |
| `Stores_proofs`, about `Stores` | `StoresTypeCorrect`, `OnlyRacesLose`, `CleanIsACopy` | `StoresInv`: who is about to write a place that is written once has seen nothing there; in a table the script made, a row is a copy of its file but for races (`CopiesOnly`); while the script verifies, all rows there are have been counted (`LoadedIsCounted`). The verdict `clean` stands (`VerdictStands`) because nothing is inserted in such a table after it, which is what `migrated_store` finds, seen from the other side. |
| the same, about `Reading` | `ReadingTypeCorrect`, `GuardedPagesTell`, `NoAnswerIsPartial` | `ReadingInv`: on a guarded page the latest request is the one of the selected day and tab (`LatestInv`), and what a request has seen implies that what stands before it in the publishing order is there with rows (`SnapshotsInv`, `SoFar`). |
| `DailyPipeline_proofs` | `TypeCorrect`, `DayIsOneDay`, `NothingOverwritten`, `SuccessIsOnDisk`, `PipelineKeepsPromise` | `DayInv`: a run that has reached a stage owns, with its own content, every snapshot of an earlier stage, because a differing one would have failed it. All but the first assume `OneProcess`: two runs at once may replace each other's snapshots. |
| `TradeLedger_proofs` | `TypeCorrect`, `RecordsAreAppended`, `NobodyIsDeceived`, `ExecutionsAreAccountable`, `LedgerKeepsPromise` | `LedgerInv`: whoever is about to fill owns a torn file alone, and what it will fill in is lawful and stays so, because the records it stands on never change. For any number of processes. |
| the same, about `Watchlist` | `WatchTypeCorrect`, `TimelinesAreTrue`, `WrecksStay`, `NoChangeIsLost` | `PathInv`: drafts follow the path as well as files do. `KeepInv`: with one command at a time (`single`) a draft extends the file it was read from. |
| the same, about `TradeVerdict` | `VerdictsAreEarned` | `VerdictInv`: an evaluation is the engine's on the intent, and a replay that passes had nothing against it whatever the weights. A profile's weights add up to 100, and so do those of a revision, so a score over some of its dimensions, each at most one, stays within it (`SumOfPart`); a replay's does while the revision knows every stored dimension, and may pass it else. That an intent with every fact known misses nothing is shown dimension by dimension. |

The runs check the same definitions the theorems name, on the composed
modules; where a run has a name of its own for a property (`Typed`,
`RunsEnd`), the theorem is about the part.

What the theorems assume of the constants, beyond the kind of value each is
and that markers are none of the values they stand beside:

* `ConfirmedHasTheAmount`: the universe asks for an average amount of at least
  150 million, as `configs/universe.yaml:21` does. Neither the validation nor
  the signals ask for the amount again, so it is the universe that sees to it.
* `EntrancesMeet` and `ResearchSeesTheUniverse`: valid market data is required
  (`configs/universe.yaml:24`). Research builds the universe again from the
  measures of its members; without the requirement an instrument dropped for
  its amount would come back, as its amount is not known the second time.
* Those about `PointInTime`: what a bootstrap left is a list of dated rows, and
  a report period is a date (`PastAssumption`).
* `VerdictsAreEarned`: the stop is below the entry (`trade_gate/models.py:43`
  refuses another) and a FOMO score is within 0..10
  (`trade_gate/veto.py:67` raises otherwise); a revision's weights are not
  negative and add up to 100 (`trade_gate/profiles.py:25-36` refuses others).
* All about `DailyPipeline` but its types: `OneProcess`. `NoChangeIsLost`: one
  command at a time, which is part of the property.

Only model-checked:

* Liveness (`RunsEnd`, `FetchReturns`, `PageSettles`), which is beyond TLAPS,
  as is ENABLED. `FetchRound` is a safety specification.
* The composition by `scene` itself: a theorem is about the specification of a
  part, which is what moves in its scene.

Two ways around induction over data are worth knowing before adding to the
model. What a fold over a finite set is worth follows from the well-foundedness
of inclusion (`SubsetInduction`), which is how the sums were done. And nothing
is proved about the library's `SelectSeq` and `SortSeq`, which are recursive in
the length of a sequence: where it matters the model states what they select,
as the list whose k-th row has k rows up to it (`Kept`, `Ordered`, `Listing`),
which is a plain function and has the same value.

## 5. What is left out

* Rounding for display: the best percentile a query shows is rounded to four
  places (`discovery/candidates.py:67`) and exact in `Discovery`.
* Floating point. Measures are small integers in percent; a comparison at the
  precision of a double is not modelled.
* Texts: evidence, reasons, notes, messages, layout, parsing of announcements.
* `fsync` and the loss of written data with the machine: a crash is the death
  of a process, at any point between two file operations.
* Partial writes of a file show up as one torn value; how much of it was
  written does not matter to a reader that cannot parse it. In raw files, where
  it does matter, any part of the rows may be what was written.
* Two syncs of one raw file at once are a race of `Stores`, where the file is a
  set of labelled entries; `RawLanding` has one command at a time.
* Calibration reports, which read one day and write a page nobody reads back;
  the language-model adapters, whose answers and failures are inputs of
  `TradeVerdict` and `TradeLedger`; the calendar, a table.
* The watchlist and research pages, the filters of a page and the rendering of
  the command line.

### Not modelled

What remains in `src/astock_lens` without a module is argument parsing,
rendering, configuration loading, report writing, model declarations and the
parsing of tables and texts: conversions without a state and without an order
of events that could go wrong. `PROJECT.json` lists every component with its
status.

## 6. Plan

The parts with state are modelled. What is left of the plan is depth:

1. Two syncs at once in `RawLanding` itself, where `RawBook` would have to
   allow the loss of rows to a race.
2. `BootstrapScheduler` under `BootstrapHistory`: the refinement is proved; the
   composition over batches is by `FetchRound` only.
3. Several instruments in `PointInTime`. Every record is keyed by its
   instrument, so they never meet there; the market of `Screening` has several.
4. Pages with a watchlist, and the filters over a shown list.
