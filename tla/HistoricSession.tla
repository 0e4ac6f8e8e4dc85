--------------------------- MODULE HistoricSession ---------------------------
(***************************************************************************)
(* What a historic run does to the store (internal/engine/historic.go):     *)
(* RunHistoricForDate resolves the date, opens a new session, collects the   *)
(* opening bars, selects, then replays the trades of a past day, or tracks   *)
(* today's live until 11:00, and publishes a report.  historicRunLoop        *)
(* (HistoricRunQueue) starts the runs one after another; what it does not    *)
(* wait for are the goroutines that a live run leaves behind, its collector *)
(* of minute bars and its 11:00 closer, which know only their own context.   *)
(*                                                                         *)
(* Runs are numbered, and a session has the number of the run that opened    *)
(* it.  Of a ticker the module keeps its position and, as history, the runs *)
(* that have written it.  Prices and times are TradeEngine's.               *)
(***************************************************************************)
EXTENDS Naturals, FiniteSets

CONSTANTS
  Symbols,   \* the watchlist
  NoSymbol,
  MaxRuns    \* bound: runs ever started

ASSUME NoSymbolAssumption == NoSymbol \notin Symbols
ASSUME MaxRunsAssumption == MaxRuns \in Nat

VARIABLES
  \* the run queue
  want,       \* a request waits
  run,        \* the latest run started, 0 before the first
  cancelled,  \* the runs whose context is cancelled
  \* RunHistoricForDate, in the goroutine of run
  main,       \* where it is
  kind,       \* "replay" or "live" (runHistoricLiveToday)
  asked,      \* the symbols whose opening bars it has asked for
  cand,       \* its candidates
  copy,       \* the tickers that buildTrackedStates works on
  todo, at,   \* the symbols still to replay, and the one being replayed
  \* the goroutines of live runs
  collector,  \* of minute bars: off, on, end
  closer,     \* the 11:00 goroutine, and where onElevenAM is in its scan
  \* the store
  session, phase, ticker, report

queueVars == <<want, run, cancelled>>
mainVars == <<main, kind, asked, cand, copy, todo, at>>
sideVars == <<collector, closer>>
storeVars == <<session, phase, ticker, report>>
vars == <<queueVars, mainVars, sideVars, storeVars>>

Runs == 1 .. MaxRuns
\* "barred": marked exited without ever having been entered
Positions == {"none", "open", "exited", "barred"}
Ticker == [present : BOOLEAN, pos : Positions, by : SUBSET Runs]
Absent == [present |-> FALSE, pos |-> "none", by |-> {}]
NoCopy == [s \in Symbols |-> Absent]
Closer == [pc : {"off", "wait", "scan", "close", "end"},
           toScan : SUBSET Symbols, target : Symbols \cup {NoSymbol}]
NoCloser == [pc |-> "off", toScan |-> {}, target |-> NoSymbol]
NoReport == [run |-> 0, asked |-> {}, pos |-> [s \in Symbols |-> "none"]]

TypeOK ==
  /\ want \in BOOLEAN /\ run \in 0 .. MaxRuns /\ cancelled \subseteq 1 .. run
  /\ main \in {"idle", "resolve", "open", "waiting", "bars", "collect", "select",
               "correct", "nothing", "build", "seed", "replay", "catchup", "live", "report"}
  /\ kind \in {"replay", "live"}
  /\ asked \subseteq Symbols /\ cand \subseteq Symbols /\ todo \subseteq Symbols
  /\ at \in Symbols \cup {NoSymbol} /\ copy \in [Symbols -> Ticker]
  /\ collector \in [Runs -> {"off", "on", "end"}]
  /\ closer \in [Runs -> Closer]
  /\ session \in 0 .. run
  /\ phase \in {"waiting_open", "collecting_open_5m", "selecting_0935",
                "tracking_ticks", "closed"}
  /\ ticker \in [Symbols -> Ticker]
  /\ report \in [run : 0 .. MaxRuns, asked : SUBSET Symbols, pos : [Symbols -> Positions]]

Init ==
  /\ want = FALSE /\ run = 0 /\ cancelled = {}
  /\ main = "idle" /\ kind = "replay" /\ asked = {} /\ cand = {} /\ todo = {}
  /\ at = NoSymbol /\ copy = NoCopy
  /\ collector = [r \in Runs |-> "off"]
  /\ closer = [r \in Runs |-> NoCloser]
  /\ session = 0 /\ phase = "waiting_open"
  /\ ticker = [s \in Symbols |-> Absent]
  /\ report = NoReport

Cancelled == run \in cancelled

\* UpsertTicker by a goroutine of run r, which leaves the ticker in position p:
\* an absent ticker is created.
Upsert(s, r, p) == [present |-> TRUE, pos |-> p, by |-> ticker[s].by \cup {r}]
Touch(s, r) == Upsert(s, r, ticker[s].pos)

\* closePosition marks the ticker as exited, whatever it is by now.
Exit(p) == IF p \in {"open", "exited"} THEN "exited" ELSE "barred"

-----------------------------------------------------------------------------
(* The run queue, as HistoricRunQueue has it                                *)

Request ==
  /\ ~want
  /\ run < MaxRuns
  /\ want' = TRUE
  /\ UNCHANGED <<run, cancelled, mainVars, sideVars, storeVars>>

\* Variant: cancel is called although no run has been started.
Cancel_NoGuard ==
  /\ want
  /\ ~Cancelled
  /\ cancelled' = cancelled \cup {run}
  /\ UNCHANGED <<want, run, mainVars, sideVars, storeVars>>

\* cancel() is called whether or not the run is still going on.
Cancel ==
  /\ want
  /\ run # 0
  /\ ~Cancelled
  /\ cancelled' = cancelled \cup {run}
  /\ UNCHANGED <<want, run, mainVars, sideVars, storeVars>>

\* <-doneCh, and startRun.
StartRun ==
  /\ want
  /\ main = "idle"
  /\ run = 0 \/ Cancelled
  /\ want' = FALSE
  /\ run' = run + 1
  /\ main' = "resolve"
  /\ UNCHANGED <<cancelled, kind, asked, cand, copy, todo, at, sideVars, storeVars>>

-----------------------------------------------------------------------------
(* RunHistoricForDate: the date and the new session                         *)

\* A future date, no data, a REST error or a cancellation: the old session
\* stays in the store, with its report.
ResolveFail ==
  /\ main = "resolve"
  /\ main' = "idle"
  /\ phase' = "closed"
  /\ UNCHANGED <<queueVars, kind, asked, cand, copy, todo, at, sideVars, session, ticker, report>>

\* Variant: the reset keeps the report.
Resolve_KeepReport(k) ==
  /\ main = "resolve"
  /\ main' = IF k = "live" THEN "open" ELSE "collect"
  /\ kind' = k
  /\ asked' = {} /\ cand' = {} /\ todo' = {}
  /\ session' = run
  /\ phase' = "collecting_open_5m"
  /\ ticker' = [s \in Symbols |-> Absent]
  /\ UNCHANGED <<queueVars, copy, at, sideVars, report>>

\* ResetForHistoricRun, SetTimes and SetPhase.
Resolve(k) ==
  /\ main = "resolve"
  /\ main' = IF k = "live" THEN "open" ELSE "collect"
  /\ kind' = k
  /\ asked' = {} /\ cand' = {} /\ todo' = {}
  /\ session' = run
  /\ phase' = "collecting_open_5m"
  /\ ticker' = [s \in Symbols |-> Absent]
  /\ report' = NoReport
  /\ UNCHANGED <<queueVars, copy, at, sideVars>>

-----------------------------------------------------------------------------
(* The opening bars                                                         *)

\* runHistoricLiveToday, started before the open
WaitForOpen ==
  /\ main = "open"
  /\ main' = "waiting"
  /\ phase' = "waiting_open"
  /\ UNCHANGED <<queueVars, kind, asked, cand, copy, todo, at, sideVars, session, ticker, report>>

\* Variant: the wait for the open is a sleep that no cancellation ends.
WaitCancelled_Deaf == FALSE /\ UNCHANGED vars

WaitCancelled ==
  /\ main = "waiting"
  /\ Cancelled
  /\ main' = "idle"
  /\ UNCHANGED <<queueVars, kind, asked, cand, copy, todo, at, sideVars, storeVars>>

\* Before 09:35: a collector of minute bars for the whole watchlist.
CollectLive ==
  /\ main \in {"open", "waiting"}
  /\ main' = "bars"
  /\ phase' = "collecting_open_5m"
  /\ asked' = Symbols
  /\ collector' = [collector EXCEPT ![run] = "on"]
  /\ UNCHANGED <<queueVars, kind, cand, copy, todo, at, closer, session, ticker, report>>

\* After 09:35, when the run started late or its timer woke late: the bars come
\* from REST, as in a replay.
CollectLate ==
  /\ main \in {"open", "waiting"}
  /\ main' = "collect"
  /\ phase' = "collecting_open_5m"
  /\ UNCHANGED <<queueVars, kind, asked, cand, copy, todo, at, sideVars, session, ticker, report>>

\* The collector of run r: onMinuteAgg.  Go may pick its Output although its
\* context is cancelled.
Bar(r, s) ==
  /\ collector[r] = "on"
  /\ ticker' = [ticker EXCEPT ![s] = Touch(s, r)]
  /\ UNCHANGED <<queueVars, mainVars, sideVars, session, phase, report>>

\* Its context is cancelled, or the feed closes or fails.
CollectorEnd(r) ==
  /\ collector[r] = "on"
  /\ collector' = [collector EXCEPT ![r] = "end"]
  /\ UNCHANGED <<queueVars, mainVars, closer, storeVars>>

\* The timer of 09:35, wsAgg.Close() and <-done0935
BarsDone ==
  /\ main = "bars"
  /\ collector[run] = "end"
  /\ main' = "select"
  /\ UNCHANGED <<queueVars, kind, asked, cand, copy, todo, at, sideVars, storeVars>>

BarsCancelled ==
  /\ main = "bars"
  /\ Cancelled
  /\ main' = "idle"
  /\ UNCHANGED <<queueVars, kind, asked, cand, copy, todo, at, sideVars, storeVars>>

\* collectOpen5mViaREST: a worker's answer for s, or its error, which is
\* skipped.
CollectSymbol(s, ok) ==
  /\ main = "collect"
  /\ s \notin asked
  /\ asked' = asked \cup {s}
  /\ ticker' = IF ok THEN [ticker EXCEPT ![s] = Touch(s, run)] ELSE ticker
  /\ UNCHANGED <<queueVars, main, kind, cand, copy, todo, at, sideVars, session, phase, report>>

\* Variant: the results are taken for complete after the first one.
CollectEnd_Early ==
  /\ main = "collect"
  /\ asked # {}
  /\ main' = "select"
  /\ UNCHANGED <<queueVars, kind, asked, cand, copy, todo, at, sideVars, storeVars>>

\* The results are exhausted; the feeder of a cancelled run stops early, and
\* the function returns nil all the same.
CollectEnd ==
  /\ main = "collect"
  /\ asked = Symbols \/ Cancelled
  /\ main' = "select"
  /\ UNCHANGED <<queueVars, kind, asked, cand, copy, todo, at, sideVars, storeVars>>

-----------------------------------------------------------------------------
(* Selection                                                                *)

Present == {s \in Symbols : ticker[s].present}

\* selectCandidatesAt0935 with whatever filters, and its UpsertTicker
Select(c) ==
  /\ main = "select"
  /\ c \subseteq Present
  /\ cand' = c
  /\ ticker' = [s \in Symbols |-> IF s \in c THEN Touch(s, run) ELSE ticker[s]]
  /\ phase' = "selecting_0935"
  /\ main' = IF c = {} THEN "nothing" ELSE IF kind = "live" THEN "correct" ELSE "build"
  /\ UNCHANGED <<queueVars, kind, asked, copy, todo, at, sideVars, session, report>>

\* correctCandidatesOpen5mViaREST: those whose bars came from REST, of which
\* the ones in c pass the filters again
Correct(c, came) ==
  /\ main = "correct"
  /\ c \subseteq came /\ came \subseteq cand
  /\ cand' = c
  /\ ticker' = [s \in Symbols |-> IF s \in came THEN Touch(s, run) ELSE ticker[s]]
  /\ main' = IF c = {} THEN "nothing" ELSE "build"
  /\ UNCHANGED <<queueVars, kind, asked, copy, todo, at, sideVars, session, phase, report>>

\* Variant: a day without candidates does not close the phase.
Nothing_KeepPhase ==
  /\ main = "nothing"
  /\ main' = "report"
  /\ UNCHANGED <<queueVars, kind, asked, cand, copy, todo, at, sideVars, storeVars>>

\* No candidate: the phase is closed, and the report is written.
Nothing ==
  /\ main = "nothing"
  /\ main' = "report"
  /\ phase' = "closed"
  /\ UNCHANGED <<queueVars, kind, asked, cand, copy, todo, at, sideVars, session, ticker, report>>

\* buildTrackedStates takes a copy of each candidate ...
Build ==
  /\ main = "build"
  /\ copy' = [s \in Symbols |-> IF s \in cand THEN ticker[s] ELSE Absent]
  /\ main' = "seed"
  /\ UNCHANGED <<queueVars, kind, asked, cand, todo, at, sideVars, storeVars>>

\* ... works on it through histories and REST trades, and writes it back;
\* SetTrackedTickers drops the others.  What another goroutine has written in
\* between is lost.
SetTracked ==
  /\ main = "seed"
  /\ ticker' = [s \in Symbols |-> IF s \in cand
                                   THEN [copy[s] EXCEPT !.by = @ \cup {run}]
                                   ELSE Absent]
  /\ copy' = NoCopy
  /\ phase' = "tracking_ticks"
  /\ todo' = cand
  /\ main' = IF kind = "live" THEN "catchup" ELSE "replay"
  /\ UNCHANGED <<queueVars, kind, asked, cand, at, sideVars, session, report>>

-----------------------------------------------------------------------------
(* The replay of a past day                                                 *)

ReplayBegin(s) ==
  /\ main = "replay" /\ at = NoSymbol
  /\ s \in todo
  /\ ~Cancelled
  /\ at' = s
  /\ todo' = todo \ {s}
  /\ UNCHANGED <<queueVars, main, kind, asked, cand, copy, sideVars, storeVars>>

\* The trades of one symbol, up to the last one or to an error, which is
\* logged.  processTrade touches no ticker that is gone or has been exited.
ReplayTrades(p) ==
  /\ main = "replay" /\ at # NoSymbol
  /\ IF ticker[at].pos = "none" THEN p \in {"none", "open", "exited"} ELSE p = ticker[at].pos
  /\ ticker' = [ticker EXCEPT ![at] = Upsert(at, run, p)]
  /\ at' = NoSymbol
  /\ UNCHANGED <<queueVars, main, kind, asked, cand, copy, todo, sideVars, session, phase, report>>

\* ctx.Done() before a symbol or between two of its trades
ReplayCancelled ==
  /\ main = "replay"
  /\ Cancelled
  /\ at # NoSymbol \/ todo # {}
  /\ main' = "idle"
  /\ at' = NoSymbol
  /\ UNCHANGED <<queueVars, kind, asked, cand, copy, todo, sideVars, storeVars>>

\* After the last symbol nobody looks at the context: onElevenAM, in this very
\* goroutine, closes what is open, and the report is written.
ReplayEnd ==
  /\ main = "replay" /\ at = NoSymbol /\ todo = {}
  /\ ticker' = [s \in Symbols |->
                  IF ticker[s].pos = "open" THEN Upsert(s, run, "exited")
                  ELSE ticker[s]]
  /\ phase' = "closed"
  /\ main' = "report"
  /\ UNCHANGED <<queueVars, kind, asked, cand, copy, todo, at, sideVars, session, report>>

-----------------------------------------------------------------------------
(* The live rest of today                                                   *)

\* The catch-up ends, the WebSocket connects, the closer starts.
GoLive ==
  /\ main = "catchup"
  /\ main' = "live"
  /\ closer' = [closer EXCEPT ![run].pc = "wait"]
  /\ UNCHANGED <<queueVars, kind, asked, cand, copy, todo, at, collector, storeVars>>

\* Entries end well before the closer fires (TradeEngine's EntryContract).
LiveTrade(s) ==
  /\ main = "live"
  /\ s \in cand
  /\ \/ ticker[s].pos = "none" /\ closer[run].pc = "wait"
     \/ ticker[s].pos = "open"
  /\ ticker' = [ticker EXCEPT ![s] =
                  Upsert(s, run, IF ticker[s].pos = "none" THEN "open" ELSE "exited")]
  /\ UNCHANGED <<queueVars, mainVars, sideVars, session, phase, report>>

\* ctx.Done() in the catch-up or in the loop
LiveCancelled ==
  /\ main \in {"catchup", "live"}
  /\ Cancelled
  /\ main' = "idle"
  /\ UNCHANGED <<queueVars, kind, asked, cand, copy, todo, at, sideVars, storeVars>>

\* A WebSocket that does not connect, fails or closes: the function returns
\* and leaves the phase, which it sets before it connects for the bars.
LiveFail ==
  /\ main \in {"open", "waiting", "catchup", "live"}
  /\ main' = "idle"
  /\ phase' = IF main \in {"open", "waiting"} THEN "collecting_open_5m" ELSE phase
  /\ UNCHANGED <<queueVars, kind, asked, cand, copy, todo, at, sideVars, session, ticker, report>>

\* Variant: closed11am is not waited for.
LiveEnd_NoWait ==
  /\ main = "live"
  /\ closer[run].pc # "wait"
  /\ phase' = "closed"
  /\ main' = "report"
  /\ UNCHANGED <<queueVars, kind, asked, cand, copy, todo, at, sideVars, session, ticker, report>>

\* <-closed11am, which a cancelled closer closes as well
LiveEnd ==
  /\ main = "live"
  /\ closer[run].pc = "end"
  /\ phase' = "closed"
  /\ main' = "report"
  /\ UNCHANGED <<queueVars, kind, asked, cand, copy, todo, at, sideVars, session, ticker, report>>

\* 11:00, and the announcement
CloserFires(r) ==
  /\ closer[r].pc = "wait"
  /\ closer' = [closer EXCEPT ![r] =
                  [pc |-> "scan", toScan |-> Symbols, target |-> NoSymbol]]
  /\ UNCHANGED <<queueVars, mainVars, collector, storeVars>>

CloserCancelled(r) ==
  /\ closer[r].pc = "wait"
  /\ r \in cancelled
  /\ closer' = [closer EXCEPT ![r].pc = "end"]
  /\ UNCHANGED <<queueVars, mainVars, collector, storeVars>>

\* Variant: the closer does not ask whether the position is open.
ScanRead_NoCheck(r, s) ==
  /\ closer[r].pc = "scan"
  /\ s \in closer[r].toScan
  /\ closer' = [closer EXCEPT ![r] =
                  [pc |-> "close", toScan |-> @.toScan \ {s}, target |-> s]]
  /\ UNCHANGED <<queueVars, mainVars, collector, storeVars>>

\* onElevenAM reads the store as it is now, whoever's session that is.
ScanRead(r, s) ==
  /\ closer[r].pc = "scan"
  /\ s \in closer[r].toScan
  /\ closer' = [closer EXCEPT ![r] =
                  [pc |-> IF ticker[s].pos = "open" THEN "close" ELSE "scan",
                   toScan |-> @.toScan \ {s},
                   target |-> IF ticker[s].pos = "open" THEN s ELSE NoSymbol]]
  /\ UNCHANGED <<queueVars, mainVars, collector, storeVars>>

ScanClose(r) ==
  /\ closer[r].pc = "close"
  /\ LET s == closer[r].target
     IN ticker' = [ticker EXCEPT ![s] = Upsert(s, r, Exit(ticker[s].pos))]
  /\ closer' = [closer EXCEPT ![r] =
                  [pc |-> "scan", toScan |-> @.toScan, target |-> NoSymbol]]
  /\ UNCHANGED <<queueVars, mainVars, collector, session, phase, report>>

ScanEnd(r) ==
  /\ closer[r].pc = "scan"
  /\ closer[r].toScan = {}
  /\ closer' = [closer EXCEPT ![r].pc = "end"]
  /\ UNCHANGED <<queueVars, mainVars, collector, storeVars>>

-----------------------------------------------------------------------------
(* buildHistoricReport and SetHistoricReport                                *)

Report ==
  /\ main = "report"
  /\ report' = [run |-> run, asked |-> asked, pos |-> [s \in Symbols |-> ticker[s].pos]]
  /\ main' = "idle"
  /\ UNCHANGED <<queueVars, kind, asked, cand, copy, todo, at, sideVars, session, phase, ticker>>

\* The goroutine of the run, where it neither waits for a time of day nor for
\* the market.
MainStep ==
  \/ \E k \in {"replay", "live"} : Resolve(k)
  \/ ResolveFail
  \/ WaitCancelled \/ BarsCancelled
  \/ \E s \in Symbols, ok \in BOOLEAN : CollectSymbol(s, ok)
  \/ CollectEnd
  \/ \E c \in SUBSET Symbols : Select(c)
  \/ \E c, came \in SUBSET Symbols : Correct(c, came)
  \/ Nothing \/ Build \/ SetTracked
  \/ \E s \in Symbols : ReplayBegin(s)
  \/ \E p \in Positions : ReplayTrades(p)
  \/ ReplayCancelled \/ ReplayEnd
  \/ GoLive \/ LiveCancelled \/ LiveEnd
  \/ Report

Side(r) ==
  \/ CollectorEnd(r) \/ CloserCancelled(r)
  \/ \E s \in Symbols : ScanRead(r, s)
  \/ ScanClose(r) \/ ScanEnd(r)

Next ==
  \/ Request \/ Cancel \/ StartRun
  \/ MainStep
  \/ WaitForOpen \/ CollectLive \/ CollectLate \/ BarsDone \/ LiveFail
  \/ \E r \in Runs : Side(r) \/ CloserFires(r) \/ \E s \in Symbols : Bar(r, s)
  \/ \E s \in Symbols : LiveTrade(s)

\* REST calls return.  The open, 09:35 and 11:00 may be hours away: no
\* fairness for the steps that wait for them.
Fairness ==
  /\ WF_vars(Cancel) /\ WF_vars(StartRun)
  /\ WF_vars(MainStep)
  /\ WF_vars(main = "open" /\ (WaitForOpen \/ CollectLive \/ CollectLate))
  /\ \A r \in Runs : WF_vars(Side(r))

Spec == Init /\ [][Next]_vars
FairSpec == Spec /\ Fairness

-----------------------------------------------------------------------------
(* Properties *)

\* No other run has written this ticker.
Own(s) == ticker[s].by \subseteq {session}

\* A report is about the session it is shown with, never about the one that
\* a newer request has replaced (historic.go:590-591, store.go:406).
ReportOfSession == report # NoReport => report.run = session

\* The report of a run that was not cancelled rests on the whole watchlist,
\* although cancelled collections report no error (historic.go:660, 893).
ReportIsWhole ==
  report # NoReport /\ report.run \notin cancelled => report.asked = Symbols

\* It shows no open position, and what it shows stays true: nobody trades
\* after it, unless a goroutine of another run does (historic.go:542-552, 708).
ReportIsFinal ==
  report # NoReport /\ report.run \notin cancelled =>
    \A s \in Symbols : Own(s) =>
      report.pos[s] # "open" /\ report.pos[s] = ticker[s].pos

\* Between the closer's GetTicker and its UpsertTicker the ticker may have been
\* replaced; that never bars one that only its own session has written
\* (engine.go:718-727, historic.go:591).
OwnIsTradable == \A s \in Symbols : Own(s) => ticker[s].pos # "barred"

\* A replay that ends by itself, or a run without a session, leaves the phase
\* closed, whichever of its ways out it took: the page's controls wait for that
\* (app.js:376, 1378).
ReplayEndsClosed ==
  main = "idle" /\ run # 0 /\ ~Cancelled /\ (kind = "replay" \/ run # session)
    => phase = "closed"

\* "cancel current run, wait for it to exit" (api.go:271-272): a cancelled
\* run returns from wherever it is, so the wait ends and the next one starts.
CancelledRunEnds == \A r \in Runs : r \in cancelled ~> (main = "idle" \/ run # r)

\* "re-enable is controlled by renderState() based on phase" (app.js:376):
\* when the run is over and none is wanted, the phase becomes closed.
ControlsComeBack == (main = "idle" /\ run # 0) ~> (phase = "closed" \/ want \/ main # "idle")

\* "Reset store for a clean replay" (historic.go:590), and "cancel current run,
\* wait for it to exit" (api.go:271-272): what a session's tickers hold was
\* written by its own run, not by a collector (historic.go:386) or a closer
\* (historic.go:533) that an older run has left behind.
CleanSession == \A s \in Symbols : Own(s)
=============================================================================
