# market-hacker: a verification project

TLA+ models of the opening-range trading assistant in this repository, the TLC
instances that check them, and TLAPS proofs of their safety properties.
Paths below are relative to `src/`; `api.go`, `sse.go`, `http.go` and `web/app.js` are
those of `internal/server`, `engine.go` and `historic.go` those of
`internal/engine`, `store.go` that of `internal/store`.

## 1. The system

One Go process and one browser page.

```
 main.go -> engine.Run (realtime)             -> store <- handleState  <- poll (page)
         -> historicRunLoop (historic mode)   ->   |
              one RunHistoricForDate at a time     +---- eventPump -> SSE hub -> page
```

| Component | State | Operations | Who it meets |
|---|---|---|---|
| run queue (`api.go:252-348`) | one-slot channel `histReqC`; the loop's `running`, `cancel`, `doneCh` | `QueueHistoricRun`, `historicRunLoop`, `startRun` | HTTP handlers, the run's goroutine, the server's context |
| tracked phase (`engine.go`, `historic.go:466-569`) | tickers in the store: VWAP sums, cross, position; `closed11am` | `buildTrackedStates`, `processTrade`, `openPosition`, `closePosition`, `onElevenAM`, the select loop | the trade feed, the 11:00 goroutine, speech, the store |
| historic session (`historic.go:340-894`) | date, session, phase, candidates, report | `RunHistoricForDate`, `runHistoricLiveToday`, `collectOpen5mViaREST`, `correctCandidates...`, `buildHistoricReport` | the run queue, REST, the collector and closer of this and of older runs |
| collection, selection (`engine.go:25-304`) | 5-minute bars of each ticker | `onMinuteAgg`, `selectCandidatesAt0935` | minute feed, timers, runtime filters |
| worker pools (`engine.go:306-420`, `historic.go:65-254, 259-338, 829-894`) | `jobs`, `results`, a WaitGroup | feeder, workers, closer | REST, cancellation |
| historic report, sold-off scan (`historic.go:65-254, 928-1150`) | the tables and totals under way | `scanSoldOff`, `buildHistoricReport` | the worker pools, the store, the page |
| store | session, phase, times, filters, tickers, events, audio, report | setters and snapshots under one lock | everyone |
| event delivery (`store.go:495-510`, `api.go:215-250`, `sse.go`, `web/app.js:400-450, 1640-1730`) | bounded list; the pump's cursor; the hub's clients; the page's `seenEventIDs` | `AddEvent`, `eventPump`, `Add`/`Remove`/`Broadcast`, `syncEvents`, SSE handler | engine, page, network |
| runtime filters, configuration (`store.go:286-386`, `config.go`, `api.go:94-175`, `web/app.js:166-324, 1627-1650`) | filters in force; each page's form, staged edits and focus | `UpdateFilters`, `validateRuntimeFilters`, `applyDefaults`, `applyFilters`, `syncInput` | page, selection, entry |
| chart slideshow (`web/app.js:82-160, 440-920, 1424-1495, 1790-1860`) | the list, index and key of the chart wanted; payload and bars of the one painted; cached and awaited responses | `showChartAt`, `fetchChartBars`, `paintCurrentChart`, `resetChartsState`, `renderHistoric`, buttons | the poll, the user, the charts API |
| rest of the page | tables, controls | rendering | the poll |
| REST shim, Massive client, TTS, NATO, watchlist | none of their own (configuration) | request/response, one-time reading | external services |

`PROJECT.json` lists each of them with its status.

**What is hard here.** There are few locks and many copies: `GetTicker` returns a
copy, the caller decides on it, and `UpsertTicker` writes under a lock of its own,
so every read-decide-write of a ticker is three steps, and two goroutines do it to
one ticker. Speech (up to 15 s) sits between a change and its alert. Trades come
late and out of order. Cancelling a run does not wait for the goroutines the run
has started. Events travel by two routes that race, one of them lossy and one a
cursor into a list that shifts. The hazards are listed line by line in
`PROJECT.json`; each names the properties that would catch it, or says why none does.

**What makes each part correct.**

* Run queue: one run at a time; the newest request wins whatever the interleaving;
  every request is served or superseded; shutdown leaves no run behind.
* Tracked phase: entries only in their window after a cross in its window; a ticker
  entered once; no exit missed, none forgotten when the feed is lost; a session
  closed by its timer is flat; a BUY is heard before its exit.
* Historic session: the report on screen is that of the session on screen, rests on
  the whole watchlist, shows no open position, and stays true; a cancelled run
  returns from wherever it waits; the page's controls come back.
* Realtime day: the selection rests on metrics no goroutine changes any more; a session
  with candidates closes after its force exit and not before; `Run` returns on every path.
* Worker pools: every item answered once, unless cancelled, and the range over the
  answers ends, whatever fails.
* Sold-off scan and report: the list and the totals do not depend on the order of
  answers or of a map, and agree with the data they came from.
* Runtime filters: what is in force changes only to valid combinations; every form
  ends up showing it, except for what is being edited.
* Event delivery: nothing pushed twice or out of order, nothing skipped while the
  list has room, no send on a closed channel, nothing spoken twice, everything in
  the list shown in the end.
* Chart slideshow: no bar shown before the user asks for it; polls leave a loaded
  chart alone; once all is quiet the page shows the chart its controls name.

## 2. The modules

A module's operators bear the names of the functions they model, or of the branch
of a select. A step is what the code does between two points where another
goroutine can get in: an unlock, a channel operation, a call that blocks.
Operators marked "Variant:" are plausible bugs (a dropped guard, a forgotten
reset); no specification uses them. Each stands for one way the code could break a
property, and TLC finds the property violated once the variant takes the place of
the operator it is a variant of (`PROJECT.json`, "mutants").

**HistoricRunQueue.** `histReqC` is the channel; `pc[r]` is where a handler is in
the three selects of `QueueHistoricRun` (`Post`, `SendNow`/`SendFull`, `DropOld`,
`Resend`); `loop`, `running`, `day`, `current` are the loop's locals, and
`LoopTake`, `LoopAwait`, `LoopDrainMore`, `LoopDrainEmpty`, `LoopStart`, `LoopStop`,
`LoopExit` its steps. A run is active until `RunFinish` or `RunFail`. The history
variable `before[r]` holds the requests that had been answered when `r` was posted:
it is what "newest" means between concurrent handlers. Two requests may carry one
date, so requests are told apart, not dates.

**LatestRequest.** What the queue promises, without its channel, selects and loop:
requests are asked and answered; one at a time is started, never one that had been
answered when an already started one was asked; nothing runs once it has stopped.
`HistoricRunQueue` implements it: `asked` and `answered` are read off `pc`, `run` is the
run itself, `stopped` the loop's return. All the steps of the selects, the drain and
the cancellation are stutters.

**TradeEngine.** A ticker is `tape` (VWAP sums and last price), `cross` and `pos`.
`Receive`, `ReadBack`, `Enter`/`TakeProfitOrStop`/`Ignore`, `Announce` are the parts of
`processTrade`: the tape is updated; the ticker is copied and a cross recorded; the
decision is made on the copy `cur` and written; the alert is spoken and emitted. The
closer may come in between any two of them. During the catch-up nobody else runs, so
`CatchUpTrade` is the first two in one step. `TimerFires` ...
`ScanEnd` are the 11:00 goroutine, `ScanRead` and `ScanClose` being the two halves
of `onElevenAM`'s body. `SeedTrade` and `CatchUpTrade` are `buildTrackedStates` and
the historic-live catch-up. `Finish`, `LoopCancelled`, `WSClosed`, `WSFail` are the
other branches of the select. `Tick` is the clock.
Abstractions: the runtime filters are an oracle (`pass`), since the user may change
them between any two trades; the VWAP is an exact quotient of sums where the code
uses float64, so a tie that rounding would break one way or the other is a tie;
`ExitT + Grace` stands for the five minutes after which trades are ignored.

**HistoricSession.** One store and a sequence of runs. `main` is where the run's
goroutine is in `RunHistoricForDate` or `runHistoricLiveToday`; `collector[r]` and
`closer[r]` are the goroutines a live run starts and does not wait for; `ticker`
keeps the position and, as history, the set of runs that wrote it (`by`). `Build` and
`SetTracked` are the two ends of `buildTrackedStates`: the candidates are copied (`copy`),
and written back after the histories and the seed, over whatever another goroutine has
written in between (the copies are taken together, where the code takes one after
another). Prices,
times and trades are `TradeEngine`'s: here a live trade opens or closes, and a
replayed symbol ends in any position its trades can lead to. REST answers and
errors, the filters' verdicts and the market are nondeterministic. The queue is
reduced to what `HistoricRunQueue` establishes (one run at a time, cancel before
the next). Left out: the server's shutdown, after which nobody reads the store;
`closeAllOpenPositionsAt` in the replay, which `historic.go:707-711` calls only where
`onElevenAM` has nothing left to close, and in `historic.go:613-617`, a branch that
the date's resolution makes unreachable.

**RealtimeRun.** `Engine.Run` from start to return. `Tick` is the wall clock: when a minute
ends, a bar for each symbol that traded is sent (`flight`), reaches the open feed's
buffer (`Arrive`, in order), and is taken by the collector goroutine (`Collect`, which
is `onMinuteAgg` with its window). `StartRun`, `MarketOpens`, `ConnectBars`,
`SelectionTime`, `Select`, `BuildTracked`, `StartTracking`, `ConnectTrades`, `CloseSession`
are the stretches of `Run` between its waits; `Return` carries its deferred `Close`.
`CollectorEnds` has the three ways in which the collector's select ends, `CloserWakes`
and `ForceExit` are the 11:00 goroutine. The program may be started at any minute.
A ticker's metrics are the sequence of its bars and the open-5m filters a predicate
`Passes` over it, so that a lost, doubled or late bar shows without the arithmetic.
Not in it: trades (TradeEngine) and REST corrections (HistoricSession).

**ParallelMap, WorkerPool.** `ParallelMap` is what the caller of a pool relies on: the
items of a batch are answered in any order, each at most once, with a value or an
error, and the range ends, early only for a cancelled context. `WorkerPool` has the
goroutines: the feeder (`Feed`, `FeederEnds`), the workers (`Deliver`, `WorkerEnds`), the
closer (`CloseResults`), the caller's range (`RangeEnds`). A send on an unbuffered channel
is one step of both ends. The five pools in the code are copies of this one.

**HistoricReport.** `scanSoldOff` is two pools of `WorkerPool` one after the other
(`ScanLows`, `TakeLow`, `LowsEnd`, `TakeHistory`, `HistoryEnd`), their answers REST data that
`MinLowAndLastClose` and `avgPrevSessionsOpen5mVol` (`PrevSessions`, `TodayPasses`) reduce, each
a fold over what the loop of the function adds for one bar or one day (`Lowest`, `Session`);
`buildHistoricReport` visits a map of tickers in any order (`ReportTrade`, `ReportNoEntry`,
`Tally`) and sorts. `sort.Slice` may leave equal elements in any order: `Reordered` is the set of
the orders of a list, and the action takes one in which no element is less than one before it.
Prices are whole numbers and every ticker opens at one price, so that percentages and drops
compare exactly; the columns that only copy a ticker's prices (hold, MFE, MAE), the quotients
of the totals and the wording of the no-entry reasons are left out. The scan and the report share no state, so their order in one
behaviour (`historic.go:648, 715`) is not material.

**RuntimeFilters.** The store's `filters`; for each page, what its fields hold (`form`), the
staged edits (`dirty`), the focus, and its posts and poll under way. `HandlePost` is
`UpdateFilters` with the handler's patch: patch, validate, assign, under one lock.
`PollAnswered` is `syncInput`; `SaveAnswered` the end of `applyFilters`. Three fields stand
for thirteen: a pair whose order only the store checks (as
`open_5m_today_pct_min/max`), and a fraction with a default. The replay that Apply
requests in historic mode is a post to the run queue and left to it.

**EventDelivery.** `events` is the store's list, with the drop of its oldest entry;
`lastSession`, `lastLen`, `outq` are `eventPump`'s cursor and the slice it is
broadcasting; `registered`, `chan` the hub's entry of one client, `client` the
handler that owns it; `seen`, `rows`, `played` the page's. An event has an `id` as
in `engine.go:735` and, as history, a number `n` that tells apart events the code
cannot. `Delete` and `Close` are the two steps of a client's removal. One page is
modelled: the hub serves pages independently of each other.

**ChartSlideshow.** `showChartAt` sets what is wanted (`index`, `key`), awaits the
bars, and sets what is painted (`chart`, `payload`, `shownN`); `ShowChartAt` is the
part before the await, `Respond` and `RespondError` the part after it, which runs
whatever the page shows by then. `Poll` is `renderHistoric`: it replaces the list,
moves the index to the painted symbol (`Follow`) and loads what is missing
(`NeedsLoad`). `PollNewSession` is a poll that finds another session id. `pending`
counts the requests under way for each chart; `stepped` is history: the charts of
which the user asked for more. Left out: the separator line, the "Performance"
switch, a charts library that fails to load, and a date that changes within a
session. The visibility of the panel (`web/app.js:488, 866`) is not a variable: a late
answer paints a chart into a hidden panel, and the module counts it as shown, which is why
`Settled` wants it gone once the charts are closed. Only with the "Performance" switch
does a panel stay hidden beside a chart that the controls name. The sold-off widget (`web/app.js:920-1330`) is the same code under other
names.

How they compose: `HistoricRunQueue` implements `LatestRequest`, which is what
`HistoricSession` takes for granted of its queue; `HistoricSession` and `RealtimeRun` take
from `TradeEngine` that entries end before the closer fires (`EntryContract`), and both
take their pools as what `ParallelMap` promises (in `RealtimeRun` an INSTANCE of it; in
`HistoricSession` single answers in any order), which `HistoricReport` shows `WorkerPool`
to implement. `RuntimeFilters` is the oracle of all of them. They write the events and the session
that `EventDelivery` delivers; `ChartSlideshow` sees of them a session and a list that
change. They are separate because their product is out of TLC's reach and each
property lives in one.

## 3. The runs

| Run | Instance | What it shows |
|---|---|---|
| `queue` | 3 requests | One run at a time, newest wins, and `LatestRequest` implemented; with fairness every request is served and a shutdown completes. Two requests race for the slot while a third is the running one, or drained: all the roles there are. |
| `trade` | 1 ticker, prices 8, 10, 12, volume 5, minutes 0..6 | Entry window, exits, heard order, and every position closed in the end. Three trades make a cross and an entry, the fourth an exit, the fifth could enter again. The clock passes every boundary (cross start 1, selection 2, cutoff 4, exit 5) and one beyond. The proofs are for any number of tickers. |
| `session` | 2 symbols, 2 runs | A cancelled run's leftovers meet the next session. Two runs suffice for any property about one run's goroutines and another's session; two symbols for a scan or a collection that is half done. |
| `events` | list of 2, channel of 1, 3 events, 2 sessions, `seen` of 1 | The list overflows, the channel overflows, the page forgets, the session changes, the client goes and comes: each cap is one below what the run can produce. |
| `engine` | 2 symbols, open 1, selection 3, exit 4, clock to 5 | A day started at any minute, with late, lost and rejected bars, a feed that fails, errors of both connections, failing histories, cancellation anywhere. A window of two minutes and filters that want both bars make one bar more or less decide; a second symbol makes a selection of some. |
| `report` | 2 symbols, 2 workers, 2 tickers, 3 answers and 3 histories | Pools with a worker idle, both busy, or an item waiting; answers without data, with a hole, at the bound of the drop and beyond; histories of which exactly the first two days with a volume count. Days of two gains, two losses, one of each, one trade, none. |
| `filters` | 2 pages, 3 numbers, 2 edits, 2 saves, 1 lost answer | Two posts that race from one page or from two, each valid alone or only with the other; a configuration that the store would refuse; one that needs the default. |
| `charts` | 2 tickers, 3 lists, 2 dates, 2 bars, 2 requests for one chart, 2 clicks | Late, doubled and failed answers among clicks, polls, changing lists and new sessions. A second date for an answer to an old session; a second ticker for one to an old click; a list that shrinks, moves its symbol and empties. |

`CHECK_DEADLOCK FALSE` is stated in all of them because each instance does come to
rest: all requests served and the server stopped, the clock at its bound, the runs
or events used up. That nothing rests too early is what the liveness properties
say (`EventuallyServed`, `ShutdownCompletes`, `EveryPositionCloses`, `CancelledRunEnds`,
`RunEnds`, `StoredIsShown`, `Settles`, `FormsSettle`, and the liveness in `PoolIsParallelMap`).
Bounds that are not in the code: `MaxVol`, `MaxNow`, `MaxRuns`, `MaxAdded`, `MaxSession`, `MaxFetch`,
`MaxClicks`, `MaxEdits`, `MaxSaves`, `MaxLost`; each is a guard of the action that would exceed it.

Four more runs check a sentence of the repository that the code does not keep:

| Run | The sentence | What happens |
|---|---|---|
| `exit_once` | "close any open positions" (`engine.go:715`) | The closer reads an open ticker, the loop takes its profit, the closer overwrites the exit with a TIME_EXIT: two exits are announced. |
| `every_event_is_pushed` | "Push events to SSE hub" (`http.go:61`) | With the list full, the cursor stands at its end for ever, and nothing more is broadcast. |
| `controls_come_back` | "re-enable is controlled by renderState() based on phase" (`web/app.js:376`) | A live run that loses its feed returns without closing the phase; the date controls stay disabled. |
| `whole_window` | "Collecting 09:30-09:34 minute bars" (`engine.go:90`) | The bar of the last minute is sent when the minute is over, which is when `Run` closes the feed: the selection may miss it. |

Four further sentences are stated as formulas of the modules and are false of the code;
added to the cfg of the run that is named, TLC shows the behaviour. They are in no run;
the hazards they speak of have a note in `PROJECT.json` (that of `BarsStay` has `NoSpoiler`,
which holds in spite of the second answer).

| Formula | The sentence | What happens |
|---|---|---|
| `CleanSession` (`session`) | "Reset store for a clean replay" (`historic.go:590`), "cancel current run, wait for it to exit" (`api.go:271-272`) | The collector of a cancelled live run has a bar in hand, and writes it after the next run has reset the store; the 11:00 goroutine may do the same with an exit. |
| `ShownIsSpoken` (`events`) | "Audio fires on BUY/PROFIT/STOP/11AM if ... mode is realtime" (`web/app.js:1725`) | The poll brings an alert first, silently, and the pushed copy is a duplicate whose audio is not played. |
| `BarsStay` (`charts`) | "Do NOT call showChartAt() every 1s poll" (`web/app.js:1481`) | While a chart loads, the next poll requests it again, and the second answer takes away the bars the user has asked for in between. |
| `StagedUntilPosted` (`filters`) | "Mark filter fields dirty on edit so the 1s poll doesn't overwrite staged changes" (`web/app.js:1732`) | "Saved." answers an earlier click and clears the mark of an edit made since. |

One more disagreement has no formula: the rows "Selected but no entry" and the report's
count of candidates include tickers that were never selected (`historic.go:1050, 1127`: both
read every ticker that has bars).

**Fairness.** Weak fairness of the goroutines (Go schedules a runnable goroutine;
each wait of the code is a guard) and of calls that have timeouts or return errors.
None for what the environment need not do: posting, cancelling, trading, losing a
connection, reconnecting. In `HistoricRunQueue` a run is only obliged to end once
its context is cancelled: a live run lasts all morning. That it then does end is
`HistoricSession`'s `CancelledRunEnds`. There, no fairness for the waits for the
open, 09:35 and 11:00, so that the property shows cancellation at work and not the
clock. In `TradeEngine` the clock ticks; whether a trade arrives is left open, so
`EveryPositionCloses` rests on the closer alone. In `EventDelivery` the pump's and the
page's timers never stop; the SSE connection may be lost at any time, so
`StoredIsShown` rests on the poll. In `ChartSlideshow` requests are answered and the poll
goes on; `Settles` speaks of the behaviours in which the user and the list come to
rest, and a late chart whose symbol has left the list is its one exception: the
code has nothing that would remove it. In `RealtimeRun` goroutines run, and timers fire once
the clock has reached them, but the clock itself may stop: `RunEnds` speaks of the
days that come to their end or are cancelled. The feed owes nothing. In `HistoricReport`
REST calls return, with data or an error, as the client's timeouts see to. In
`RuntimeFilters` the poll's timer runs and requests are answered or fail; users may do
anything or nothing. No specification assumes strong fairness.

## 4. The proofs

Proved with TLAPS for every value of the constants that satisfies the modules'
assumptions. Each `_proofs` module has the same layout: an inductive invariant
`IInv` whose conjuncts are named for what they say, the initial states, one lemma for each part
(or action) of the step, and the theorems.

* **HistoricRunQueue_proofs** (assumes only `NoReq \notin Requests`; any number of
  requests): `TypeOK`, `OneRunAtATime`, `LatestWins`, `IdleRunIsWanted`,
  `ExitLeavesNoRun`, the action property `NeverGoesBack`, and `QueueImplementsLatest`, the
  refinement of `LatestRequest` (its `Start` is enabled by what `HeldIsFresh` says). `LatestWins` is not
  inductive: one has to know where a request can be (`Places`: queued and held ones
  are answered and have no run), that what is queued is never older than a request
  whose handler is past its drop (`QueuedIsFresh`), and that what the loop holds is
  never older than one that has been started (`HeldIsFresh`, which is
  `NeverGoesBack` one step ahead). `LoopInv` and `RunInv` tie the loop's locals to
  the goroutine it started.
* **TradeEngine_proofs** (assumes naturals for clock, prices and percentages and
  `LagAssumption`: the entry cutoff lies at least `MaxLag` before the time exit):
  `TypeOK`, `ClosedMeansFlat`, `EntryContract`, `NoMissedExit`, `BuyHeardFirst`, and
  `OneEntryPerSession`. The argument: the loop is the only writer of `has` and of the
  entry, so its copy can only be stale about `exited` (`CopyInv`); a trade in work is
  never older than `MaxLag` (`WorkInv`), so by `LagAssumption` none enters once the
  timer has fired (lemma `NoLateEntry`); so what the closer has passed stays closed
  (`ScanInv`), and at its end the session is flat. `HeardInv` and `PriceInv` carry the
  other two. `LagAssumption` is a fact about deployment, not code: cutoff
  and exit are 77 minutes apart in `config.yaml` (09:43 and 11:00), and a trade's
  delay is the feed's plus at most 15 s of speech for each alert before it.
* **HistoricSession_proofs** (assumes only that `NoSymbol` is no symbol; any
  watchlist, any number of runs): `TypeOK`, `ReportOfSession`, `ReportIsWhole`,
  `ReportIsFinal`, `OwnIsTradable`, `ReplayEndsClosed`. `MainInv` ties the goroutine's
  place to the session, the kind of run and what has been asked for; `CloserInv` says
  that a closer belongs to this or to an older session and is at its end when the
  report is written; `FlatInv` says which tickers may still be open during the scan, and
`CopyInv` what the copies of the candidates can hold while they are worked on.

* **RealtimeRun_proofs** (assumes only that the times are ordered naturals; any
  watchlist and any filters): `TypeOK`, `JudgedOnFinalMetrics`, `ClosedAfterForceExit`. There
  are no candidates before the selection (`BeforeSelection`), only a returned run has
  closed the phase (`ClosedIsReturned`), and `CloserInv` says what the 11:00 goroutine has
  done at each of its places.
* **HistoricReport_proofs** (assumes that there is a worker, `workerN < 1` being corrected,
  that `NoItem` is no item, the types of the answers and of the filters, finitely many tickers
  and positive entry prices; any number of items, workers and tickers, any answers):
  `PoolsKeepTheirPromise`, the safety of `PoolIsParallelMap`; `TypeOK`; `SoldOffIsRight`;
  `ReportAddsUp`. `PoolInv` is the pools: each item of the batch is with the feeder, with
  exactly one worker, or answered (`Account`), and jobs is closed before a worker ends, all
  workers end before results is closed (`Shutdown`). So when the range ends, either
  everything has been answered or the context is done, which is what the last conjunct of
  `SoldOffIsRight` rests on (lemma `AllAnswered`). `ScanInv`: `pre` holds exactly the symbols
  whose answer says that they fell, with their drop (`AnswersInv`); the list holds each busy
  one of them once (`ListInv`), so that no two of its elements are equal for the sort and
  its order is strict; and what has been asked for at each stage (`StageInv`). `ReportInv`:
  each ticker is unread or in one table, and the accumulators are the totals of the rows so
  far (`AddsUp`), which one more row (`TallyAddsUp`) and a permutation (`SortedAddsUp`) keep.
  The three loops over data are folds of the community modules, defined with `CHOOSE` of a
  recursive function. That this function exists, and that it takes one element after
  the other, is proved once (`FoldExists`, `LowestFold`, `SessionFold`, `SumFold`), by an
  induction over a set of numbers (`NatInd`) that follows from the least element of a
  well-founded order and takes no predicate as a parameter. On it rest `MinLowIsRight` (the
  least positive low, of any bars), `SessionsAreCounted` (the first days with a volume, of
  any history) and `SumPermuted` (a sum does not depend on the order).
* **RuntimeFilters_proofs** (assumes the constants' types; any values, pages, bounds):
  `TypeOK` and `PostsAreJudgedWhole`, by an invariant that puts every post under way into
  a set of posts that were not refused without reason.
* **EventDelivery_proofs** (assumes that list and channel hold at least one event each;
  any ids, caps, number of events and sessions): `TypeOK`, `BroadcastInOrder`,
  `NothingSkipped`, `NoSendOnClosed`, `SpokenOnce`. `StoreInv`: the list is the youngest events
  of the session, numbered without gaps. `PumpInv`: the pump's cursor stands for a number,
  `Frontier`, and what has been broadcast lies at or below it and below the rest of the slice
  that is being broadcast; it holds across the drop of an old entry and a new session,
  where the cursor alone would not tell. `PageInv`: channel and audio carry what was
  broadcast, in its order.
* **ChartSlideshow_proofs** (assumes that there is a first bar, and that lists are of tickers):
  `TypeOK`, `NoSpoiler`, and the action property `PollKeepsChart`. Beyond the types the
  invariant needs only that a list comes with a date (`DateKnown`): a bar more than the
  first is shown only by a click, which marks the painted chart, or by a repaint of it.

TLC checked each `IInv` on the instances above before it was proved.

Only model-checked: the liveness properties (`EventuallyServed`, `ShutdownCompletes`,
`EveryPositionCloses`, `CancelledRunEnds`, `RunEnds`, `StoredIsShown`, `Settles`,
`FormsSettle`, the liveness half of `PoolIsParallelMap`), which need fairness
and ENABLED and are beyond this prover. Every safety property of the passing runs is a
theorem.

## 5. Not modelled, and why

* Formatting, the DOM, styles, NATO spelling, the watchlist file: no behaviour that
  a property here would distinguish.
* The Massive client, speech and REST: external; modelled by their answers, errors
  and delays.
* `handleState`'s first `SetTimes` (`api.go:26`), which can race the engine's for another day:
  only the minutes column of a trade and the clock line rest on it. `handleAudio` and
  `handleChartBars` are request and response.
* The rest of the configuration: read once at start. REST aggregation over five bars
  (`restshim.go:20-91`): taken as its answer.
* The hard-coded hours `09:30`..`09:34` in `onMinuteAgg` (`engine.go:244-247`) next to the
  configurable times: the models have one window. The branch `avg <= 0` of the sold-off
  scan (`historic.go:199`) is dead: an average without a positive volume is an error.
* Two SYSTEM events of one instant share an id, so that the page drops the second
  (`engine.go:735`); `EventDelivery` has such ids, and each property tells events apart as
  the page can.
* Floating point: see TradeEngine above. The chart panel's visibility and the
  "Performance" switch: see ChartSlideshow.
* Hazards without a property have a note in `PROJECT.json`: above all a trade that is handled
  later than `LagAssumption` allows, the values of the filters at each trade, and the partial
  report of a cancelled run.

## 6. Plan

Done: every component that has behaviour of its own is modelled, and the safety
properties of all eight are proved. Left:

1. `handleState`'s times, as a part of `HistoricSession` (the race with the engine's own
   `SetTimes`), and a property of the minutes column that rests on them.
2. REST aggregation over five bars (`Open5mVolume`, `Open5mMetrics`) as folds, with lemmas in
   the manner of `MinLowIsRight`.
