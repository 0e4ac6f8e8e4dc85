----------------------------- MODULE RealtimeRun -----------------------------
(***************************************************************************)
(* The day of a realtime session: Engine.Run (internal/engine/engine.go)     *)
(* from the wait for the open to its return, as main.go starts and stops it. *)
(* Minute bars come over a feed that sends each bar once its minute is over; *)
(* a collector goroutine takes them off the feed's buffer; at SelT Run closes *)
(* the feed, waits for the collector, and selects; a pool of workers fetches  *)
(* the history of the candidates (ParallelMap); the tracked phase follows    *)
(* until 11:00.  What trades do in that phase is TradeEngine's.              *)
(*                                                                         *)
(* A bar is its symbol and its minute.  The metrics of a ticker are the bars  *)
(* it has been given, in order (the first is its open, marked as estimated   *)
(* unless it is OpenT's), and the filters a predicate over them.             *)
(***************************************************************************)
EXTENDS Integers, Sequences

CONSTANTS
  Symbols,             \* the watchlist
  OpenT, SelT, ExitT,  \* openNY, selNY and exitNY, in minutes
  MaxNow,              \* bound: the clock stops here
  Passes(_)            \* the open-5m filters, over the bars of a ticker

ASSUME ClockAssumption ==
  /\ {OpenT, SelT, ExitT, MaxNow} \subseteq Nat
  /\ OpenT <= SelT /\ SelT <= ExitT /\ ExitT <= MaxNow

VARIABLES
  now,       \* the wall clock
  pc,        \* where Run is
  outcome,   \* what it has returned
  phase,     \* the store's phase
  flight,    \* bars on their way to the feed
  market,    \* history: the bars of the window the market had, by symbol
  feed,      \* wsAgg: none, open or closed
  joined,    \* when it was opened
  feedErr,   \* there is an error on wsAgg.Error()
  output,    \* the bars in its buffer
  collector, \* the collector goroutine: off, on, or done (done0935 is closed)
  seen,      \* the tickers' metrics
  candidates,                           \* what the selection returned
  todo, answered, failed, ranging, ctxDone,   \* the pool and the context
  closer,    \* the 11:00 goroutine: off, wait, force, done (closed11am)
  forced     \* onElevenAM has run

vars == <<now, pc, outcome, phase, flight, market, feed, joined, feedErr, output, collector,
          seen, candidates, todo, answered, failed, ranging, ctxDone, closer, forced>>
poolVars == <<todo, answered, failed, ranging>>
feedVars == <<flight, market, feed, joined, feedErr, output>>
runVars == <<pc, outcome, phase, candidates>>
closerVars == <<closer, forced>>

History == INSTANCE ParallelMap WITH Items <- Symbols

Window == OpenT .. SelT - 1
Bar == Symbols \X (0 .. MaxNow)

TypeOK ==
  /\ now \in 0 .. MaxNow /\ joined \in 0 .. MaxNow
  /\ pc \in {"start", "open", "connect", "collect", "close", "select", "build", "trades",
             "track", "returned"}
  /\ outcome \in {"none", "nil", "error"}
  /\ phase \in {"waiting_open", "collecting_open_5m", "selecting_0935", "tracking_ticks",
                "closed"}
  /\ flight \subseteq Bar /\ output \subseteq Bar
  /\ market \in [Symbols -> SUBSET Window]
  /\ feed \in {"none", "open", "closed"} /\ collector \in {"off", "on", "done"}
  /\ seen \in [Symbols -> Seq(Window)]
  /\ candidates \subseteq Symbols /\ todo \subseteq candidates
  /\ answered \subseteq todo /\ failed \subseteq answered
  /\ closer \in {"off", "wait", "force", "done"}
  /\ {feedErr, ranging, ctxDone, forced} \subseteq BOOLEAN

\* The program may be started at any time of the day.
Init ==
  /\ now \in 0 .. MaxNow
  /\ pc = "start" /\ outcome = "none" /\ phase = "waiting_open"
  /\ flight = {} /\ market = [s \in Symbols |-> {}]
  /\ feed = "none" /\ joined = 0 /\ feedErr = FALSE /\ output = {} /\ collector = "off"
  /\ seen = [s \in Symbols |-> <<>>]
  /\ candidates = {}
  /\ History!Init
  /\ closer = "off" /\ forced = FALSE

-----------------------------------------------------------------------------
(* The market, the feed and the clock                                       *)

\* A minute ends and its bars are sent: one for each symbol that has traded.
\* Bars that no feed of Run can still take are left out.
Tick ==
  /\ now < MaxNow
  /\ now' = now + 1
  /\ \E traded \in SUBSET (IF feed = "closed" \/ pc = "returned" THEN {} ELSE Symbols) :
       /\ flight' = flight \cup (traded \X {now})
       /\ market' = [s \in Symbols |->
                       market[s] \cup (IF s \in traded THEN {now} \cap Window ELSE {})]
  /\ UNCHANGED <<runVars, feed, joined, feedErr, output, collector, seen, poolVars, ctxDone,
                 closerVars>>

Oldest(b, bars) == b \in bars /\ \A c \in bars : b[2] <= c[2]

\* A bar reaches the open feed, and its buffer; bars come in the order sent.
Arrive(b) ==
  /\ feed = "open"
  /\ Oldest(b, flight)
  /\ flight' = flight \ {b}
  /\ output' = output \cup {b}
  /\ UNCHANGED <<now, runVars, market, feed, joined, feedErr, collector, seen, poolVars,
                 ctxDone, closerVars>>

FeedFails ==
  /\ feed = "open"
  /\ ~feedErr
  /\ feedErr' = TRUE
  /\ UNCHANGED <<now, runVars, flight, market, feed, joined, output, collector, seen,
                 poolVars, ctxDone, closerVars>>

-----------------------------------------------------------------------------
(* The collector goroutine                                                  *)

\* Variant: every bar counts.
Collect_NoWindow(b) ==
  /\ collector = "on"
  /\ Oldest(b, output)
  /\ output' = output \ {b}
  /\ seen' = [seen EXCEPT ![b[1]] = Append(@, b[2])]
  /\ UNCHANGED <<now, runVars, flight, market, feed, joined, feedErr, collector, poolVars,
                 ctxDone, closerVars>>

\* onMinuteAgg: bars outside the window are ignored.
Collect(b) ==
  /\ collector = "on"
  /\ Oldest(b, output)
  /\ output' = output \ {b}
  /\ seen' = IF b[2] \in Window THEN [seen EXCEPT ![b[1]] = Append(@, b[2])] ELSE seen
  /\ UNCHANGED <<now, runVars, flight, market, feed, joined, feedErr, collector, poolVars,
                 ctxDone, closerVars>>

\* Variant: a closed buffer is skipped ("continue") like a message of another type.
CollectorEnds_SkipClosed ==
  /\ collector = "on"
  /\ ctxDone \/ feedErr
  /\ collector' = "done"
  /\ UNCHANGED <<now, runVars, feedVars, seen, poolVars, ctxDone, closerVars>>

\* The context is done, the feed has failed, or its buffer is closed and empty;
\* the select picks any case that is ready.
CollectorEnds ==
  /\ collector = "on"
  /\ ctxDone \/ feedErr \/ (feed = "closed" /\ output = {})
  /\ collector' = "done"
  /\ UNCHANGED <<now, runVars, feedVars, seen, poolVars, ctxDone, closerVars>>

-----------------------------------------------------------------------------
(* Run                                                                      *)

\* return, with the deferred wsAgg.Close() if there is a feed.
Return(result) ==
  /\ pc' = "returned"
  /\ outcome' = result
  /\ feed' = IF feed = "open" THEN "closed" ELSE feed

StartRun ==
  /\ pc = "start"
  /\ IF now < OpenT THEN pc' = "open" /\ phase' = "waiting_open"
                    ELSE pc' = "connect" /\ phase' = "collecting_open_5m"
  /\ UNCHANGED <<now, outcome, candidates, feedVars, collector, seen, poolVars, ctxDone,
                 closerVars>>

MarketOpens ==
  /\ pc = "open"
  /\ now >= OpenT
  /\ pc' = "connect"
  /\ phase' = "collecting_open_5m"
  /\ UNCHANGED <<now, outcome, candidates, feedVars, collector, seen, poolVars, ctxDone,
                 closerVars>>

\* Of the bars sent before, those of the minute that has just ended may still
\* come.
ConnectBars ==
  /\ pc = "connect"
  /\ pc' = IF now < SelT THEN "collect" ELSE "close"
  /\ feed' = "open"
  /\ joined' = now
  /\ \E late \in SUBSET {b \in flight : b[2] = now - 1} : flight' = late
  /\ collector' = "on"
  /\ UNCHANGED <<now, outcome, phase, candidates, market, feedErr, output, seen, poolVars,
                 ctxDone, closerVars>>

\* NewWS, Subscribe or Connect, of the bars or of the trades, has failed.
ConnectFails ==
  /\ pc \in {"connect", "trades"}
  /\ Return("error")
  /\ UNCHANGED <<now, phase, candidates, flight, market, joined, feedErr, output, collector,
                 seen, poolVars, ctxDone, closerVars>>

\* <-ctx.Done() in one of Run's selects.
Cancelled ==
  /\ pc \in {"open", "collect", "track"}
  /\ ctxDone
  /\ Return("nil")
  /\ UNCHANGED <<now, phase, candidates, flight, market, joined, feedErr, output, collector,
                 seen, poolVars, ctxDone, closerVars>>

\* 09:35: what is in flight is lost, what is in the buffer is still read.
SelectionTime ==
  /\ pc = "close" \/ (pc = "collect" /\ now >= SelT)
  /\ pc' = "select"
  /\ phase' = "selecting_0935"
  /\ feed' = "closed"
  /\ flight' = {}
  /\ UNCHANGED <<now, outcome, candidates, market, joined, feedErr, output, collector, seen,
                 poolVars, ctxDone, closerVars>>

Selection == {s \in Symbols : Passes(seen[s])}

\* Variant: without <-done0935.
Select_NoWait ==
  /\ pc = "select"
  /\ candidates' = Selection
  /\ IF candidates' = {}
     THEN Return("nil") /\ phase' = "closed" /\ UNCHANGED <<poolVars, ctxDone>>
     ELSE pc' = "build" /\ History!Begin(candidates') /\ UNCHANGED <<outcome, phase, feed>>
  /\ UNCHANGED <<now, flight, market, joined, feedErr, output, collector, seen, closerVars>>

\* <-done0935, selectCandidatesAt0935, and buildTrackedStates' pool.
Select ==
  /\ pc = "select"
  /\ collector = "done"
  /\ candidates' = Selection
  /\ IF candidates' = {}
     THEN Return("nil") /\ phase' = "closed" /\ UNCHANGED <<poolVars, ctxDone>>
     ELSE pc' = "build" /\ History!Begin(candidates') /\ UNCHANGED <<outcome, phase, feed>>
  /\ UNCHANGED <<now, flight, market, joined, feedErr, output, collector, seen, closerVars>>

\* The candidates' histories, in any order; one that fails is only reported.
BuildTracked ==
  /\ pc = "build"
  /\ History!End \/ \E s \in Symbols : History!Answer(s)
  /\ UNCHANGED <<now, runVars, feedVars, collector, seen, closerVars>>

\* The seeding of the VWAPs is over, failed or not; SetTrackedTickers.
StartTracking ==
  /\ pc = "build"
  /\ ~ranging
  /\ pc' = "trades"
  /\ phase' = "tracking_ticks"
  /\ UNCHANGED <<now, outcome, candidates, feedVars, collector, seen, poolVars, ctxDone,
                 closerVars>>

\* The trades are subscribed to, and the 11:00 goroutine starts.
ConnectTrades ==
  /\ pc = "trades"
  /\ pc' = "track"
  /\ closer' = IF now < ExitT THEN "wait" ELSE "force"
  /\ UNCHANGED <<now, outcome, phase, candidates, feedVars, collector, seen, poolVars,
                 ctxDone, forced>>

\* The feed of trades ends, with an error or closed.
TradesEnd(result) ==
  /\ pc = "track"
  /\ Return(result)
  /\ UNCHANGED <<now, phase, candidates, flight, market, joined, feedErr, output, collector,
                 seen, poolVars, ctxDone, closerVars>>

\* <-closed11am
CloseSession ==
  /\ pc = "track"
  /\ closer = "done"
  /\ phase' = "closed"
  /\ Return("nil")
  /\ UNCHANGED <<now, candidates, flight, market, joined, feedErr, output, collector, seen,
                 poolVars, ctxDone, closerVars>>

-----------------------------------------------------------------------------
(* The 11:00 goroutine, and main                                            *)

\* Variant: closed11am is closed when the timer fires, before onElevenAM.
CloserWakes_CloseFirst ==
  /\ closer = "wait"
  /\ ctxDone \/ now >= ExitT
  /\ closer' = "done"
  /\ UNCHANGED <<now, runVars, feedVars, collector, seen, poolVars, ctxDone, forced>>

\* The timer fires, or the context is done and closed11am is closed at once.
CloserWakes ==
  /\ closer = "wait"
  /\ \/ ctxDone /\ closer' = "done"
     \/ now >= ExitT /\ closer' = "force"
  /\ UNCHANGED <<now, runVars, feedVars, collector, seen, poolVars, ctxDone, forced>>

\* onElevenAM, and the deferred close(closed11am).
ForceExit ==
  /\ closer = "force"
  /\ forced' = TRUE
  /\ closer' = "done"
  /\ UNCHANGED <<now, runVars, feedVars, collector, seen, poolVars, ctxDone>>

\* A signal, or the HTTP server's or Run's own error: stop().
Stop ==
  /\ History!Cancel
  /\ UNCHANGED <<now, runVars, feedVars, collector, seen, closerVars>>

-----------------------------------------------------------------------------
Collector == CollectorEnds \/ \E b \in output : Collect(b)

Run ==
  \/ StartRun \/ MarketOpens \/ ConnectBars \/ ConnectFails \/ Cancelled \/ SelectionTime
  \/ Select \/ StartTracking \/ ConnectTrades \/ CloseSession

Closer == CloserWakes \/ ForceExit

Next ==
  \/ Tick \/ FeedFails \/ (\E b \in flight : Arrive(b))
  \/ Collector \/ Run \/ BuildTracked \/ Closer
  \/ TradesEnd("nil") \/ TradesEnd("error")
  \/ Stop

\* Goroutines that can run do, timers fire, and a call to the feed or the REST
\* API returns; the clock, the feed and main owe nothing, except that main does
\* not survive an error of Run.
Fairness ==
  /\ WF_vars(Run) /\ WF_vars(Collector) /\ WF_vars(BuildTracked) /\ WF_vars(Closer)
  /\ WF_vars(outcome = "error" /\ Stop)

Spec == Init /\ [][Next]_vars /\ Fairness

-----------------------------------------------------------------------------
(* Properties *)

Selected == pc \in {"build", "trades", "track"} \/ (pc = "returned" /\ candidates # {})

\* The selection and the history percentages rest on metrics that no goroutine
\* changes any more: whichever way the collector ends, by 09:35 the candidates are
\* the tickers that pass by what the store holds, for the rest of the day, and
\* the history is asked of exactly them (engine.go:134-137, 326-406).
JudgedOnFinalMetrics ==
  Selected => /\ candidates = Selection
              /\ todo = candidates
              /\ collector = "done"

\* Nobody but a cancelled context closes a session that has tickers to track
\* before 11:00 has come and onElevenAM has closed their positions, although
\* closed11am is also how a cancelled goroutine ends (engine.go:183-198).
ClosedAfterForceExit ==
  phase = "closed" /\ candidates # {} => ctxDone \/ (forced /\ now >= ExitT)

\* Run returns on every path: after 11:00 or a cancellation it hangs neither in
\* <-done0935, nor on the pool, nor in the last loop; and when it fails, the
\* program stops (engine.go:40-222, main.go:82-91).
RunEnds ==
  /\ ctxDone \/ now = MaxNow ~> pc = "returned"
  /\ outcome = "error" ~> ctxDone

\* "Collecting 09:30-09:34 minute bars for open-5m metrics" (engine.go:90): a run
\* that was connected at the open and whose feed has not failed selects on every
\* bar that the market had in those minutes.
SelectsOnWholeWindow ==
  Selected /\ joined = OpenT /\ ~feedErr /\ ~ctxDone =>
    \A s \in Symbols : {seen[s][i] : i \in DOMAIN seen[s]} = market[s]
=============================================================================
