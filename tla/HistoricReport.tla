--------------------------- MODULE HistoricReport ---------------------------
(***************************************************************************)
(* What closes a historic session (internal/engine/historic.go): the         *)
(* sold-off scan, two pools of workers one after the other whose answers      *)
(* come in any order, fail, or stop coming when the session is cancelled;    *)
(* then buildHistoricReport, one pass over a map of tickers, in any order.   *)
(* The two share no state: where the code builds the report before the scan  *)
(* (historic.go:648, 715), only SetHistoricReport, after both, shows it.     *)
(*                                                                         *)
(* Symbols are naturals, compared as strings are.  Every ticker opens at     *)
(* OpenPrice, so that a drop is compared as the difference; percentages are  *)
(* whole numbers, and the MC module chooses prices that make them exact.     *)
(***************************************************************************)
EXTENDS Integers, SequencesExt, FiniteSetsExt, WorkerPool

CONSTANTS
  Bars,      \* the answers of ListAggs: sequences of [low, close]
  Volumes,   \* open-5m volumes of the days before, latest first; 0: none
  OpenPrice, OpenVol,             \* of every ticker of the session
  DropMin, TodayMin, Sessions,    \* the sold-off filters; Open5mLookbackSessions
  Tickers,   \* the tickers in the store when the report is built
  Entries, ExitPrices             \* prices of their trades

ASSUME SymbolsAssumption == Items \subseteq Nat

ASSUME AnswersAssumption ==
  /\ Bars \subseteq Seq([low : Int, close : Int])
  /\ Volumes \subseteq Seq(Int)

ASSUME FiltersAssumption ==
  /\ {OpenPrice, OpenVol, DropMin, TodayMin} \subseteq Int
  /\ Sessions \in Nat

\* A position has a positive entry price; any ticker has some last price.
ASSUME TradesAssumption ==
  /\ IsFiniteSet(Tickers)
  /\ Entries \subseteq Nat \ {0} /\ ExitPrices \subseteq Int

VARIABLES
  stage,     \* where the end of the session is
  eligible,  \* syms: the symbols whose open-5m range passes
  bars, volumes,   \* history: the answers the workers got
  failed1,   \* history: the symbols that failed in the first pool; the second
             \* pool's are in failed
  pre,       \* preBySym: the drop of each symbol that fell enough
  soldOff,   \* out, and then the report's list
  cancelled, \* history: the context was done before the scan had ended
  unread,    \* the tickers the report's loop has still to visit
  trades, noEntries,   \* the records it has appended
  sums       \* its accumulators

scanVars == <<eligible, bars, volumes, failed1, pre, soldOff, cancelled>>
reportVars == <<unread, trades, noEntries, sums>>
vars == <<todo, answered, failed, ranging, ctxDone, unfed, jobsClosed, job, working,
          resultsClosed, stage, scanVars, reportVars>>

Stages == {"open", "lows", "history", "report", "done"}
NoSums == [pnl |-> 0, notional |-> 0, pct |-> 0, won |-> 0, lost |-> 0, wins |-> 0,
           losses |-> 0, timeExits |-> 0, best |-> 0, worst |-> 0, first |-> TRUE]
Trade == [sym : Tickers, entry : Entries, exit : ExitPrices, reason : {"TIME_EXIT", "other"}]

TypeOK ==
  /\ PoolTypeOK
  /\ stage \in Stages
  /\ eligible \subseteq Items
  /\ DOMAIN bars \subseteq eligible /\ DOMAIN volumes \subseteq DOMAIN pre
  /\ DOMAIN pre \subseteq DOMAIN bars /\ failed1 \subseteq eligible
  /\ soldOff \in Seq(DOMAIN volumes)
  /\ unread \subseteq Tickers
  /\ trades \in Seq(Trade)
  /\ noEntries \subseteq Tickers
  /\ {sums.wins, sums.losses, sums.timeExits} \subseteq 0 .. Cardinality(Tickers)

Init ==
  /\ PoolInit
  /\ stage = "open"
  /\ eligible = {} /\ bars = <<>> /\ volumes = <<>> /\ failed1 = {}
  /\ pre = <<>> /\ soldOff = <<>> /\ cancelled = FALSE
  /\ unread = Tickers /\ trades = <<>> /\ noEntries = {} /\ sums = NoSums

-----------------------------------------------------------------------------
(* The REST shim and the history, as the workers call them.                 *)

\* MinLowAndLastClose: the least positive low, the first if there are several,
\* and the last positive close; its bar's time is told by its index.
Lowest(acc, bar) ==
  [low  |-> IF bar.low > 0 /\ (acc.low = 0 \/ bar.low < acc.low) THEN bar.low ELSE acc.low,
   last |-> IF bar.close > 0 THEN bar.close ELSE acc.last]
MinLowAndLastClose(b) ==
  LET r == FoldLeft(Lowest, [low |-> 0, last |-> 0], b)
  IN  [low |-> r.low, last |-> r.last, ok |-> r.low > 0 /\ r.last > 0]

\* avgPrevSessionsOpen5mVol: days without an answer or a volume are skipped
\* until enough are found, n of them with this sum; none at all is an error.
Session(acc, vol) ==
  IF acc.n < Sessions /\ vol > 0 THEN [n |-> acc.n + 1, sum |-> acc.sum + vol] ELSE acc
PrevSessions(v) == FoldLeft(Session, [n |-> 0, sum |-> 0], v)

\* pct >= SoldOffOpen5mTodayPctMin, multiplied out.
TodayPasses(v) ==
  LET p == PrevSessions(v) IN OpenVol * 100 * p.n >= TodayMin * p.sum

\* What sort.Slice may make of q, one of its orders.  It is one in which no
\* element is less than one before it; equal ones come in any order.
Reordered(q) == {[i \in DOMAIN q |-> q[p[i]]] : p \in Bijection(DOMAIN q, DOMAIN q)}

-----------------------------------------------------------------------------
(* scanSoldOff                                                              *)

\* An entry in a map.
Put(f, x, v) == [y \in DOMAIN f \cup {x} |-> IF y = x THEN v ELSE f[y]]

\* Too early for a scan, or no ticker eligible: no list.
SkipScan ==
  /\ stage = "open"
  /\ stage' = "report"
  /\ UNCHANGED <<callerVars, ctxDone, poolVars, scanVars, reportVars>>

ScanLows ==
  /\ stage = "open"
  /\ \E syms \in (SUBSET Items) \ {{}} : eligible' = syms /\ Start(syms)
  /\ stage' = "lows"
  /\ UNCHANGED <<bars, volumes, failed1, pre, soldOff, cancelled, reportVars>>

\* Variant: an answer without data passes as a low of zero.
TakeLow_NotOk(w) ==
  /\ stage = "lows"
  /\ \E ok \in BOOLEAN, b \in Bars :
       LET s == job[w]
           r == MinLowAndLastClose(b)
       IN  /\ Deliver(w, ok)
           /\ IF ok THEN bars' = Put(bars, s, b) /\ UNCHANGED failed1
                    ELSE failed1' = failed1 \cup {s} /\ UNCHANGED bars
           /\ pre' = IF ok /\ OpenPrice - r.low >= DropMin
                     THEN Put(pre, s, OpenPrice - r.low) ELSE pre
  /\ UNCHANGED <<stage, eligible, volumes, soldOff, cancelled, reportVars>>

\* One round of "for r := range results".
TakeLow(w) ==
  /\ stage = "lows"
  /\ \E ok \in BOOLEAN, b \in Bars :
       LET s == job[w]
           r == MinLowAndLastClose(b)
       IN  /\ Deliver(w, ok)
           /\ IF ok THEN bars' = Put(bars, s, b) /\ UNCHANGED failed1
                    ELSE failed1' = failed1 \cup {s} /\ UNCHANGED bars
           /\ pre' = IF ok /\ r.ok /\ OpenPrice - r.low >= DropMin
                     THEN Put(pre, s, OpenPrice - r.low) ELSE pre
  /\ UNCHANGED <<stage, eligible, volumes, soldOff, cancelled, reportVars>>

\* Variant: the second pool is given every eligible symbol.
LowsEnd_AllEligible ==
  /\ stage = "lows"
  /\ ~ranging
  /\ cancelled' = ctxDone
  /\ stage' = "history"
  /\ Start(eligible)
  /\ UNCHANGED <<eligible, bars, volumes, failed1, pre, soldOff, reportVars>>

\* The first range has ended.  No symbol left: no list; else the second pool.
LowsEnd ==
  /\ stage = "lows"
  /\ ~ranging
  /\ cancelled' = ctxDone
  /\ IF pre = <<>>
     THEN stage' = "report" /\ UNCHANGED <<callerVars, ctxDone, poolVars>>
     ELSE stage' = "history" /\ Start(DOMAIN pre)
  /\ UNCHANGED <<eligible, bars, volumes, failed1, pre, soldOff, reportVars>>

TakeHistory(w) ==
  /\ stage = "history"
  /\ \E ok \in BOOLEAN, v \in Volumes :
       LET s == job[w]
       IN  /\ ok => PrevSessions(v).n > 0
           /\ Deliver(w, ok)
           /\ volumes' = IF ok THEN Put(volumes, s, v) ELSE volumes
           /\ soldOff' = IF ok /\ TodayPasses(v) THEN Append(soldOff, s) ELSE soldOff
  /\ UNCHANGED <<stage, eligible, bars, failed1, pre, cancelled, reportVars>>

\* Variant: the list keeps the order in which the answers came.
HistoryEnd_Unsorted ==
  /\ stage = "history"
  /\ ~ranging
  /\ cancelled' = ctxDone
  /\ stage' = "report"
  /\ UNCHANGED <<callerVars, ctxDone, poolVars, eligible, bars, volumes, failed1, pre,
                 soldOff, reportVars>>

Ahead(s, t) == pre[s] > pre[t] \/ (pre[s] = pre[t] /\ s < t)

\* The second range has ended: sort.Slice, by drop and then by symbol.
HistoryEnd ==
  /\ stage = "history"
  /\ ~ranging
  /\ cancelled' = ctxDone
  /\ soldOff' \in Reordered(soldOff)
  /\ \A i, j \in DOMAIN soldOff' : i < j => ~Ahead(soldOff'[j], soldOff'[i])
  /\ stage' = "report"
  /\ UNCHANGED <<callerVars, ctxDone, poolVars, eligible, bars, volumes, failed1, pre, reportVars>>

\* The pool's own steps, in either scan.
Pool ==
  /\ \/ \E w \in Workers : (\E i \in unfed : Feed(w, i)) \/ WorkerEnds(w)
     \/ FeederEnds \/ CloseResults \/ RangeEnds
  /\ UNCHANGED <<stage, scanVars, reportVars>>

CancelSession ==
  /\ stage \in {"lows", "history"}
  /\ Cancel
  /\ UNCHANGED <<stage, scanVars, reportVars>>

-----------------------------------------------------------------------------
(* buildHistoricReport                                                      *)

Pct(entry, exit) == ((exit - entry) * 100) \div entry

\* Variant: best and worst start from zero instead of the first trade.
Tally_BestFromZero(a, entry, exit, reason) ==
  LET amt == exit - entry
      pct == Pct(entry, exit)
      won == amt >= 0
  IN  [pnl |-> a.pnl + amt, notional |-> a.notional + entry, pct |-> a.pct + pct,
       won |-> IF won THEN a.won + amt ELSE a.won,
       lost |-> IF won THEN a.lost ELSE a.lost + amt,
       wins |-> IF won THEN a.wins + 1 ELSE a.wins,
       losses |-> IF won THEN a.losses ELSE a.losses + 1,
       timeExits |-> IF reason = "TIME_EXIT" THEN a.timeExits + 1 ELSE a.timeExits,
       best |-> IF pct > a.best THEN pct ELSE a.best,
       worst |-> IF pct < a.worst THEN pct ELSE a.worst,
       first |-> FALSE]

\* The accumulators after one more trade.
Tally(a, entry, exit, reason) ==
  LET amt == exit - entry
      pct == Pct(entry, exit)
      won == amt >= 0
  IN  [pnl |-> a.pnl + amt, notional |-> a.notional + entry, pct |-> a.pct + pct,
       won |-> IF won THEN a.won + amt ELSE a.won,
       lost |-> IF won THEN a.lost ELSE a.lost + amt,
       wins |-> IF won THEN a.wins + 1 ELSE a.wins,
       losses |-> IF won THEN a.losses ELSE a.losses + 1,
       timeExits |-> IF reason = "TIME_EXIT" THEN a.timeExits + 1 ELSE a.timeExits,
       best |-> IF a.first \/ pct > a.best THEN pct ELSE a.best,
       worst |-> IF a.first \/ pct < a.worst THEN pct ELSE a.worst,
       first |-> FALSE]

\* A ticker with a position: its exit, or its last price if it has none yet.
ReportTrade(t) ==
  /\ stage = "report"
  /\ t \in unread
  /\ \E entry \in Entries, exit \in ExitPrices, reason \in {"TIME_EXIT", "other"} :
       /\ trades' = Append(trades, [sym |-> t, entry |-> entry, exit |-> exit, reason |-> reason])
       /\ sums' = Tally(sums, entry, exit, reason)
  /\ unread' = unread \ {t}
  /\ UNCHANGED <<callerVars, ctxDone, poolVars, stage, scanVars, noEntries>>

ReportNoEntry(t) ==
  /\ stage = "report"
  /\ t \in unread
  /\ noEntries' = noEntries \cup {t}
  /\ unread' = unread \ {t}
  /\ UNCHANGED <<callerVars, ctxDone, poolVars, stage, scanVars, trades, sums>>

\* sort.Slice(trades): best first.
Better(a, b) == Pct(a.entry, a.exit) > Pct(b.entry, b.exit)
SortTrades ==
  /\ stage = "report"
  /\ unread = {}
  /\ trades' \in Reordered(trades)
  /\ \A i, j \in DOMAIN trades' : i < j => ~Better(trades'[j], trades'[i])
  /\ stage' = "done"
  /\ UNCHANGED <<callerVars, ctxDone, poolVars, scanVars, unread, noEntries, sums>>

BuildReport ==
  \/ \E t \in Tickers : ReportTrade(t) \/ ReportNoEntry(t)
  \/ SortTrades

Next ==
  \/ SkipScan \/ ScanLows \/ LowsEnd \/ HistoryEnd \/ CancelSession
  \/ \E w \in Workers : TakeLow(w) \/ TakeHistory(w)
  \/ Pool
  \/ BuildReport

\* A REST call returns, with an answer or an error, and goroutines run.
Fairness ==
  /\ WF_vars(Pool) /\ WF_vars(\E w \in Workers : TakeLow(w) \/ TakeHistory(w))

Spec == Init /\ [][Next]_vars
FairSpec == Spec /\ Fairness

-----------------------------------------------------------------------------
(* Properties *)

\* The five pools of engine.go and historic.go keep what their callers rely on:
\* no answer twice, none lost unless cancelled, and a range that ends, however
\* the feeder, the workers, the closer and the cancellation interleave.
Map == INSTANCE ParallelMap WITH Items <- Items

PoolIsParallelMap == Map!Spec

Lows(s) == {x \in {bars[s][k].low : k \in DOMAIN bars[s]} : x > 0}
Closes(s) == {x \in {bars[s][k].close : k \in DOMAIN bars[s]} : x > 0}
Drop(s) == OpenPrice - Min(Lows(s))
Fell(s) == s \in DOMAIN bars /\ Lows(s) # {} /\ Closes(s) # {} /\ Drop(s) >= DropMin

\* The days that count: those with a volume, up to the first Sessions of them.
Counted(v) ==
  {k \in DOMAIN v : v[k] > 0 /\ Cardinality({j \in 1 .. k : v[j] > 0}) <= Sessions}
Busy(s) ==
  s \in DOMAIN volumes /\
    LET v == volumes[s]
    IN  OpenVol * 100 * Cardinality(Counted(v)) >= TodayMin * SumFunctionOnSet(v, Counted(v))

\* The published list holds exactly the tickers that match the sold-off filters
\* by the answers that came, largest drop first and then by symbol (historic.go:
\* 245-250), in whatever order the workers answered; and unless the session was
\* cancelled, every eligible ticker has been asked about in both pools.
SoldOffIsRight ==
  stage \in {"report", "done"} =>
    /\ Range(soldOff) = {s \in eligible : Fell(s) /\ Busy(s)}
    /\ \A i, j \in DOMAIN soldOff : i < j =>
         LET s == soldOff[i]
             t == soldOff[j]
         IN  Drop(s) > Drop(t) \/ (Drop(s) = Drop(t) /\ s < t)
    /\ cancelled \/
         \A s \in eligible : /\ s \in failed1 \/ s \in DOMAIN bars
                            /\ Fell(s) => s \in failed \/ s \in DOMAIN volumes

\* The columns of a table of trades.
Gains(q) == [i \in DOMAIN q |-> q[i].exit - q[i].entry]
Returns(q) == [i \in DOMAIN q |-> Pct(q[i].entry, q[i].exit)]
Spent(q) == [i \in DOMAIN q |-> q[i].entry]
Negative(q) == {i \in DOMAIN q : Gains(q)[i] < 0}
TimedOut(q) == {i \in DOMAIN q : q[i].reason = "TIME_EXIT"}

\* The summary agrees with the tables under it, in whatever order the map of
\* tickers was visited: every ticker is in one table, wins and losses partition
\* the trades and their amounts, best and worst are those of the first and last
\* row (also when all trades lose).
ReportAddsUp ==
  stage = "done" =>
    /\ Cardinality(Tickers) = Len(trades) + Cardinality(noEntries)
    /\ sums.wins + sums.losses = Len(trades)
    /\ sums.losses = Cardinality(Negative(trades))
    /\ sums.timeExits = Cardinality(TimedOut(trades))
    /\ sums.pnl = SumFunction(Gains(trades))
    /\ sums.won + sums.lost = sums.pnl /\ sums.lost <= 0
    /\ sums.pct = SumFunction(Returns(trades))
    /\ sums.notional = SumFunction(Spent(trades))
    /\ trades # <<>> =>
         /\ sums.best = Max(Range(Returns(trades))) /\ sums.worst = Min(Range(Returns(trades)))
         /\ sums.best = Returns(trades)[1] /\ sums.worst = Returns(trades)[Len(trades)]
=============================================================================
