----------------------- MODULE HistoricSession_proofs -----------------------
(***************************************************************************)
(* Theorems about historic runs, for any watchlist and any number of runs.  *)
(*                                                                         *)
(* The inductive invariant ties the run's goroutine to the session it has   *)
(* opened (MainInv), says how far the closers of older runs and of this one  *)
(* can be (CloserInv), which tickers can still be open while this one scans  *)
(* them (FlatInv), and what the run will write back (CopyInv).              *)
(***************************************************************************)
EXTENDS HistoricSession, TLAPS

\* After the collection
Collected == {"select", "correct", "nothing", "build", "seed", "replay",
              "catchup", "live", "report"}

\* The goroutine of the run and the session it works on.
MainInv ==
  /\ want => run < MaxRuns
  /\ main # "idle" => run # 0
  /\ main = "resolve" => session < run
  /\ main \notin {"idle", "resolve"} => session = run /\ report = NoReport
  /\ main \in {"open", "waiting", "bars", "correct", "catchup", "live"}
       => kind = "live"
  /\ main \in Collected \cup {"bars"} /\ ~Cancelled => asked = Symbols
  /\ main = "report" => phase = "closed"
  /\ at # NoSymbol => main = "replay"

\* A closer belongs to this session or an older one, and it has come to its
\* end when the report is written.
CloserInv ==
  \A r \in Runs :
    /\ closer[r].pc # "off" =>
         /\ r <= session
         /\ r = run => main \in {"live", "report", "idle"}
    /\ closer[r].pc = "close" => closer[r].target \in Symbols
    /\ r = run /\ main = "report" => closer[r].pc \in {"off", "end"}
    /\ r = session /\ report # NoReport => closer[r].pc \in {"off", "end"}

\* What the session's own closer has passed stays closed, what it is about to
\* close has been entered, and before the first trade nothing is open.
FlatInv ==
  /\ main \in {"open", "waiting", "bars", "collect", "select", "correct",
               "nothing", "build", "seed", "catchup"}
       => \A s \in Symbols : ticker[s].pos # "open"
  /\ main = "report" /\ ~Cancelled => \A s \in Symbols : ticker[s].pos # "open"
  /\ \A r \in Runs : r = session =>
       /\ closer[r].pc = "close" =>
            ticker[closer[r].target].pos \in {"open", "exited"}
       /\ closer[r].pc \in {"scan", "close"} =>
            \A s \in Symbols :
              ticker[s].pos = "open" =>
                \/ s \in closer[r].toScan
                \/ closer[r].pc = "close" /\ s = closer[r].target
       /\ closer[r].pc = "end" /\ r \notin cancelled =>
            \A s \in Symbols : ticker[s].pos # "open"

\* What SetTracked will write back.
CopyInv ==
  main = "seed" => \A s \in Symbols :
    /\ copy[s].pos # "open"
    /\ copy[s].by \subseteq {session} => copy[s].pos # "barred"

IInv ==
  /\ TypeOK
  /\ MainInv
  /\ ReportOfSession
  /\ ReportIsWhole
  /\ ReplayEndsClosed
  /\ CloserInv
  /\ FlatInv
  /\ CopyInv
  /\ OwnIsTradable
  /\ ReportIsFinal

-----------------------------------------------------------------------------
(* The steps.  A step that leaves a part's variables alone is told apart     *)
(* first; then one step for each action that does not.                      *)

\* The initial states.
LEMMA InitInv == Init => IInv
<1> SUFFICES ASSUME Init PROVE IInv
  OBVIOUS
<1>1. /\ Absent \in Ticker /\ NoCloser \in Closer
      /\ NoReport \in [run : 0 .. MaxRuns, asked : SUBSET Symbols,
                      pos : [Symbols -> Positions]]
      /\ NoCopy \in [Symbols -> Ticker]
  BY MaxRunsAssumption DEF Absent, Ticker, NoCloser, Closer, NoReport, NoCopy, Positions
<1>2. TypeOK
  <2>1. /\ collector \in [Runs -> {"off", "on", "end"}]
        /\ closer \in [Runs -> Closer]
        /\ ticker \in [Symbols -> Ticker] /\ copy \in [Symbols -> Ticker]
    BY <1>1 DEF Init
  <2>2. report \in [run : 0 .. MaxRuns, asked : SUBSET Symbols,
                     pos : [Symbols -> Positions]]
    BY <1>1 DEF Init
  <2>3. run \in 0 .. MaxRuns /\ cancelled \subseteq 1 .. run /\ session \in 0 .. run
    BY MaxRunsAssumption DEF Init
  <2> QED
    BY <2>1, <2>2, <2>3 DEF Init, TypeOK
<1>3. MainInv /\ ReportOfSession /\ ReportIsWhole /\ ReplayEndsClosed
  BY DEF Init, MainInv, ReportOfSession, ReportIsWhole, ReplayEndsClosed, Collected
<1>4. CloserInv
  BY DEF Init, CloserInv, NoCloser
<1>5. FlatInv /\ CopyInv /\ OwnIsTradable /\ ReportIsFinal
  BY DEF Init, FlatInv, CopyInv, OwnIsTradable, ReportIsFinal, Absent, NoCloser, Runs
<1> QED
  BY <1>2, <1>3, <1>4, <1>5 DEF IInv

\* What UpsertTicker writes is a ticker.
LEMMA UpsertType ==
  ASSUME TypeOK, NEW s \in Symbols, NEW r \in Runs, NEW p \in Positions
  PROVE  Upsert(s, r, p) \in Ticker
BY DEF TypeOK, Upsert, Ticker

LEMMA TouchType ==
  ASSUME TypeOK, NEW s \in Symbols, NEW r \in Runs
  PROVE  Touch(s, r) \in Ticker
BY UpsertType DEF TypeOK, Touch, Ticker

LEMMA TypeStep ==
  ASSUME TypeOK, MainInv, CloserInv, [Next]_vars PROVE TypeOK'
<1>a. main # "idle" => run \in Runs
  BY MaxRunsAssumption DEF TypeOK, MainInv, Runs
<1>1. CASE Request
  BY <1>1 DEF Request, TypeOK, queueVars, mainVars, sideVars, storeVars
<1>2. CASE Cancel
  BY <1>2 DEF Cancel, TypeOK, queueVars, mainVars, sideVars, storeVars
<1>3. CASE StartRun
  <2>1. run' \in 0 .. MaxRuns /\ run' = run + 1 /\ run \in Nat
    BY <1>3, MaxRunsAssumption DEF StartRun, TypeOK, MainInv
  <2>2. cancelled' \subseteq 1 .. run' /\ session' \in 0 .. run'
    BY <1>3, <2>1 DEF StartRun, TypeOK, storeVars
  <2>3. /\ UNCHANGED <<kind, asked, cand, copy, todo, at, sideVars>>
        /\ UNCHANGED <<phase, ticker, report>>
        /\ want' = FALSE /\ main' = "resolve"
    BY <1>3 DEF StartRun, storeVars
  <2> QED
    BY <2>1, <2>2, <2>3 DEF TypeOK, sideVars
<1>4. CASE \E k \in {"replay", "live"} : Resolve(k)
  BY <1>4, <1>a, MaxRunsAssumption DEF Resolve, TypeOK, queueVars, mainVars,
     sideVars, storeVars, Ticker, Absent, NoReport, Positions
<1>5. CASE ResolveFail
  BY <1>5 DEF ResolveFail, TypeOK, queueVars, mainVars, sideVars, storeVars
<1>6. CASE WaitCancelled
  BY <1>6 DEF WaitCancelled, TypeOK, queueVars, mainVars, sideVars, storeVars
<1>7. CASE BarsCancelled
  BY <1>7 DEF BarsCancelled, TypeOK, queueVars, mainVars, sideVars, storeVars
<1>8. CASE \E s \in Symbols, ok \in BOOLEAN : CollectSymbol(s, ok)
  <2>1. ticker' \in [Symbols -> Ticker]
    BY <1>8, <1>a, UpsertType, TouchType DEF CollectSymbol, TypeOK, Positions
  <2> QED
    BY <1>8, <2>1 DEF CollectSymbol, TypeOK, queueVars, mainVars, sideVars,
       storeVars
<1>9. CASE CollectEnd
  BY <1>9 DEF CollectEnd, TypeOK, queueVars, mainVars, sideVars, storeVars
<1>10. CASE \E c \in SUBSET Symbols : Select(c)
  <2>1. ticker' \in [Symbols -> Ticker]
    BY <1>10, <1>a, UpsertType, TouchType DEF Select, TypeOK, Positions
  <2> QED
    BY <1>10, <2>1 DEF Select, TypeOK, queueVars, mainVars, sideVars, storeVars
<1>11. CASE \E c, came \in SUBSET Symbols : Correct(c, came)
  <2>1. ticker' \in [Symbols -> Ticker]
    BY <1>11, <1>a, UpsertType, TouchType DEF Correct, TypeOK, Positions
  <2> QED
    BY <1>11, <2>1 DEF Correct, TypeOK, queueVars, mainVars, sideVars,
       storeVars
<1>12. CASE Nothing
  BY <1>12 DEF Nothing, TypeOK, queueVars, mainVars, sideVars, storeVars
<1>13. CASE Build
  <2>1. copy' \in [Symbols -> Ticker]
    BY <1>13 DEF Build, TypeOK, Positions, Absent, Ticker
  <2> QED
    BY <1>13, <2>1 DEF Build, TypeOK, queueVars, mainVars, sideVars, storeVars
<1>14. CASE \E s \in Symbols : ReplayBegin(s)
  BY <1>14 DEF ReplayBegin, TypeOK, queueVars, mainVars, sideVars, storeVars
<1>15. CASE \E p \in Positions : ReplayTrades(p)
  <2>1. ticker' \in [Symbols -> Ticker]
    BY <1>15, <1>a, UpsertType, TouchType DEF ReplayTrades, TypeOK, Positions
  <2> QED
    BY <1>15, <2>1 DEF ReplayTrades, TypeOK, queueVars, mainVars, sideVars,
       storeVars
<1>16. CASE ReplayCancelled
  BY <1>16 DEF ReplayCancelled, TypeOK, queueVars, mainVars, sideVars,
     storeVars
<1>17. CASE ReplayEnd
  <2>1. ticker' \in [Symbols -> Ticker]
    BY <1>17, <1>a, UpsertType, TouchType DEF ReplayEnd, TypeOK, Positions
  <2> QED
    BY <1>17, <2>1 DEF ReplayEnd, TypeOK, queueVars, mainVars, sideVars,
       storeVars
<1>18. CASE GoLive
  <2>1. closer' \in [Runs -> Closer]
    BY <1>18, <1>a DEF GoLive, TypeOK, Closer
  <2> QED
    BY <1>18, <2>1, SMTT(30) DEF GoLive, TypeOK, queueVars, mainVars, sideVars, storeVars
<1>19. CASE LiveCancelled
  BY <1>19 DEF LiveCancelled, TypeOK, queueVars, mainVars, sideVars, storeVars
<1>20. CASE LiveEnd
  BY <1>20 DEF LiveEnd, TypeOK, queueVars, mainVars, sideVars, storeVars
<1>21. CASE Report
  BY <1>21, <1>a, MaxRunsAssumption DEF Report, TypeOK, queueVars, mainVars,
     sideVars, storeVars, Ticker, Runs
<1>22. CASE WaitForOpen
  BY <1>22 DEF WaitForOpen, TypeOK, queueVars, mainVars, sideVars, storeVars
<1>23. CASE CollectLive
  BY <1>23, <1>a, MaxRunsAssumption DEF CollectLive, TypeOK, queueVars,
     mainVars, sideVars, storeVars
<1>24. CASE CollectLate
  BY <1>24 DEF CollectLate, TypeOK, queueVars, mainVars, sideVars, storeVars
<1>25. CASE BarsDone
  BY <1>25 DEF BarsDone, TypeOK, queueVars, mainVars, sideVars, storeVars
<1>26. CASE LiveFail
  BY <1>26 DEF LiveFail, TypeOK, queueVars, mainVars, sideVars, storeVars
<1>27. CASE \E r \in Runs : CollectorEnd(r)
  BY <1>27 DEF CollectorEnd, TypeOK, queueVars, mainVars, sideVars, storeVars
<1>28. CASE \E r \in Runs : CloserCancelled(r)
  <2>1. PICK r \in Runs : CloserCancelled(r)
    BY <1>28
  <2>2. closer' \in [Runs -> Closer]
    BY <2>1, <1>a DEF CloserCancelled, TypeOK, Closer
  <2> QED
    BY <2>1, <2>2 DEF CloserCancelled, TypeOK, queueVars, mainVars, sideVars,
       storeVars
<1>29. CASE \E r \in Runs, s \in Symbols : ScanRead(r, s)
  BY <1>29 DEF ScanRead, TypeOK, queueVars, mainVars, sideVars, storeVars,
     Closer
<1>30. CASE \E r \in Runs : ScanClose(r)
  <2>1. PICK r \in Runs : ScanClose(r)
    BY <1>30
  <2> DEFINE s == closer[r].target
  <2>2. s \in Symbols
    BY <2>1 DEF ScanClose, CloserInv
  <2>3. Exit(ticker[s].pos) \in Positions
    BY DEF Exit, Positions
  <2>4. Upsert(s, r, Exit(ticker[s].pos)) \in Ticker
    BY <2>2, <2>3, UpsertType
  <2>5. ticker' \in [Symbols -> Ticker]
    BY <2>1, <2>4 DEF ScanClose, TypeOK
  <2>6. closer' \in [Runs -> Closer]
    BY <2>1 DEF ScanClose, TypeOK, Closer
  <2> QED
    BY <2>1, <2>5, <2>6 DEF ScanClose, TypeOK, queueVars, mainVars, storeVars
<1>31. CASE \E r \in Runs : ScanEnd(r)
  <2>1. PICK r \in Runs : ScanEnd(r)
    BY <1>31
  <2>2. closer' \in [Runs -> Closer]
    BY <2>1, <1>a DEF ScanEnd, TypeOK, Closer
  <2> QED
    BY <2>1, <2>2 DEF ScanEnd, TypeOK, queueVars, mainVars, sideVars, storeVars
<1>32. CASE \E r \in Runs : CloserFires(r)
  BY <1>32 DEF CloserFires, TypeOK, queueVars, mainVars, sideVars, storeVars,
     Closer
<1>33. CASE \E r \in Runs, s \in Symbols : Bar(r, s)
  <2>1. PICK r \in Runs, s \in Symbols : Bar(r, s)
    BY <1>33
  <2>2. ticker' \in [Symbols -> Ticker]
    BY <2>1, <1>a, UpsertType, TouchType DEF Bar, TypeOK, Positions
  <2> QED
    BY <2>1, <2>2 DEF Bar, TypeOK, queueVars, mainVars, sideVars, storeVars
<1>34. CASE \E s \in Symbols : LiveTrade(s)
  <2>1. ticker' \in [Symbols -> Ticker]
    BY <1>34, <1>a, UpsertType, TouchType DEF LiveTrade, TypeOK, Positions
  <2> QED
    BY <1>34, <2>1 DEF LiveTrade, TypeOK, queueVars, mainVars, sideVars,
       storeVars
<1>35. CASE SetTracked
  <2>1. ticker' \in [Symbols -> Ticker] /\ copy' \in [Symbols -> Ticker]
    BY <1>35, <1>a DEF SetTracked, TypeOK, Positions, Absent, NoCopy, Ticker
  <2> QED
    BY <1>35, <2>1 DEF SetTracked, TypeOK, queueVars, mainVars, sideVars, storeVars
<1>36. CASE UNCHANGED vars
  BY <1>36 DEF vars, TypeOK, queueVars, mainVars, sideVars, storeVars, vars
<1> QED
  BY [Next]_vars, <1>1, <1>2, <1>3, <1>4, <1>5, <1>6, <1>7, <1>8, <1>9, <1>10,
     <1>11, <1>12, <1>13, <1>14, <1>15, <1>16, <1>17, <1>18, <1>19, <1>20,
     <1>21, <1>22, <1>23, <1>24, <1>25, <1>26, <1>27, <1>28, <1>29, <1>30,
     <1>31, <1>32, <1>33, <1>34, <1>35, <1>36
     DEF Next, MainStep, Side

\* The run's goroutine, and what its report and its end rest on: the closers
\* and the collectors touch none of it.
LEMMA MainStepInv ==
  ASSUME TypeOK, MainInv, ReportOfSession, ReportIsWhole, ReplayEndsClosed,
         [Next]_vars
  PROVE  (MainInv /\ ReportOfSession /\ ReportIsWhole /\ ReplayEndsClosed)'
<1>1. CASE Request
  BY <1>1 DEF Request, MainInv, ReportOfSession, ReportIsWhole,
     ReplayEndsClosed, Cancelled, Collected, TypeOK, NoReport, queueVars,
     mainVars, sideVars, storeVars, vars
<1>2. CASE Cancel
  BY <1>2 DEF Cancel, MainInv, ReportOfSession, ReportIsWhole,
     ReplayEndsClosed, Cancelled, Collected, TypeOK, NoReport, queueVars,
     mainVars, sideVars, storeVars, vars
<1>3. CASE StartRun
  BY <1>3, MaxRunsAssumption DEF StartRun, MainInv, ReportOfSession,
     ReportIsWhole, ReplayEndsClosed, Cancelled, Collected, TypeOK, NoReport,
     queueVars, mainVars, sideVars, storeVars, vars
<1>4. CASE \E k \in {"replay", "live"} : Resolve(k)
  BY <1>4, MaxRunsAssumption DEF Resolve, MainInv, ReportOfSession,
     ReportIsWhole, ReplayEndsClosed, Cancelled, Collected, TypeOK, NoReport,
     queueVars, mainVars, sideVars, storeVars, vars
<1>5. CASE ResolveFail
  BY <1>5 DEF ResolveFail, MainInv, ReportOfSession, ReportIsWhole,
     ReplayEndsClosed, Cancelled, Collected, TypeOK, NoReport, queueVars,
     mainVars, sideVars, storeVars, vars
<1>6. CASE WaitCancelled
  BY <1>6 DEF WaitCancelled, MainInv, ReportOfSession, ReportIsWhole,
     ReplayEndsClosed, Cancelled, Collected, TypeOK, NoReport, queueVars,
     mainVars, sideVars, storeVars, vars
<1>7. CASE BarsCancelled
  BY <1>7 DEF BarsCancelled, MainInv, ReportOfSession, ReportIsWhole,
     ReplayEndsClosed, Cancelled, Collected, TypeOK, NoReport, queueVars,
     mainVars, sideVars, storeVars, vars
<1>8. CASE \E s \in Symbols, ok \in BOOLEAN : CollectSymbol(s, ok)
  BY <1>8 DEF CollectSymbol, MainInv, ReportOfSession, ReportIsWhole,
     ReplayEndsClosed, Cancelled, Collected, TypeOK, NoReport, queueVars,
     mainVars, sideVars, storeVars, vars
<1>9. CASE CollectEnd
  BY <1>9 DEF CollectEnd, MainInv, ReportOfSession, ReportIsWhole,
     ReplayEndsClosed, Cancelled, Collected, TypeOK, NoReport, queueVars,
     mainVars, sideVars, storeVars, vars
<1>10. CASE \E c \in SUBSET Symbols : Select(c)
  BY <1>10 DEF Select, MainInv, ReportOfSession, ReportIsWhole,
     ReplayEndsClosed, Cancelled, Collected, TypeOK, NoReport, queueVars,
     mainVars, sideVars, storeVars, vars
<1>11. CASE \E c, came \in SUBSET Symbols : Correct(c, came)
  BY <1>11 DEF Correct, MainInv, ReportOfSession, ReportIsWhole,
     ReplayEndsClosed, Cancelled, Collected, TypeOK, NoReport, queueVars,
     mainVars, sideVars, storeVars, vars
<1>12. CASE Nothing
  BY <1>12 DEF Nothing, MainInv, ReportOfSession, ReportIsWhole,
     ReplayEndsClosed, Cancelled, Collected, TypeOK, NoReport, queueVars,
     mainVars, sideVars, storeVars, vars
<1>13. CASE Build
  BY <1>13 DEF Build, MainInv, ReportOfSession, ReportIsWhole,
     ReplayEndsClosed, Cancelled, Collected, TypeOK, NoReport, queueVars,
     mainVars, sideVars, storeVars, vars
<1>14. CASE SetTracked
  BY <1>14 DEF SetTracked, MainInv, ReportOfSession, ReportIsWhole,
     ReplayEndsClosed, Cancelled, Collected, TypeOK, NoReport, queueVars,
     mainVars, sideVars, storeVars, vars
<1>15. CASE \E s \in Symbols : ReplayBegin(s)
  BY <1>15 DEF ReplayBegin, MainInv, ReportOfSession, ReportIsWhole,
     ReplayEndsClosed, Cancelled, Collected, TypeOK, NoReport, queueVars,
     mainVars, sideVars, storeVars, vars
<1>16. CASE \E p \in Positions : ReplayTrades(p)
  BY <1>16 DEF ReplayTrades, MainInv, ReportOfSession, ReportIsWhole,
     ReplayEndsClosed, Cancelled, Collected, TypeOK, NoReport, queueVars,
     mainVars, sideVars, storeVars, vars
<1>17. CASE ReplayCancelled
  BY <1>17 DEF ReplayCancelled, MainInv, ReportOfSession, ReportIsWhole,
     ReplayEndsClosed, Cancelled, Collected, TypeOK, NoReport, queueVars,
     mainVars, sideVars, storeVars, vars
<1>18. CASE ReplayEnd
  BY <1>18 DEF ReplayEnd, MainInv, ReportOfSession, ReportIsWhole,
     ReplayEndsClosed, Cancelled, Collected, TypeOK, NoReport, queueVars,
     mainVars, sideVars, storeVars, vars
<1>19. CASE GoLive
  BY <1>19, MaxRunsAssumption DEF GoLive, MainInv, ReportOfSession,
     ReportIsWhole, ReplayEndsClosed, Cancelled, Collected, TypeOK, NoReport,
     queueVars, mainVars, sideVars, storeVars, vars
<1>20. CASE LiveCancelled
  BY <1>20 DEF LiveCancelled, MainInv, ReportOfSession, ReportIsWhole,
     ReplayEndsClosed, Cancelled, Collected, TypeOK, NoReport, queueVars,
     mainVars, sideVars, storeVars, vars
<1>21. CASE LiveEnd
  BY <1>21, MaxRunsAssumption DEF LiveEnd, MainInv, ReportOfSession,
     ReportIsWhole, ReplayEndsClosed, Cancelled, Collected, TypeOK, NoReport,
     queueVars, mainVars, sideVars, storeVars, vars
<1>22. CASE Report
  BY <1>22, MaxRunsAssumption DEF Report, MainInv, ReportOfSession,
     ReportIsWhole, ReplayEndsClosed, Cancelled, Collected, TypeOK, NoReport,
     queueVars, mainVars, sideVars, storeVars, vars
<1>23. CASE WaitForOpen
  BY <1>23 DEF WaitForOpen, MainInv, ReportOfSession, ReportIsWhole,
     ReplayEndsClosed, Cancelled, Collected, TypeOK, NoReport, queueVars,
     mainVars, sideVars, storeVars, vars
<1>24. CASE CollectLive
  BY <1>24 DEF CollectLive, MainInv, ReportOfSession, ReportIsWhole,
     ReplayEndsClosed, Cancelled, Collected, TypeOK, NoReport, queueVars,
     mainVars, sideVars, storeVars, vars
<1>25. CASE CollectLate
  BY <1>25 DEF CollectLate, MainInv, ReportOfSession, ReportIsWhole,
     ReplayEndsClosed, Cancelled, Collected, TypeOK, NoReport, queueVars,
     mainVars, sideVars, storeVars, vars
<1>26. CASE BarsDone
  BY <1>26 DEF BarsDone, MainInv, ReportOfSession, ReportIsWhole,
     ReplayEndsClosed, Cancelled, Collected, TypeOK, NoReport, queueVars,
     mainVars, sideVars, storeVars, vars
<1>27. CASE LiveFail
  BY <1>27 DEF LiveFail, MainInv, ReportOfSession, ReportIsWhole,
     ReplayEndsClosed, Cancelled, Collected, TypeOK, NoReport, queueVars,
     mainVars, sideVars, storeVars, vars
<1>28. CASE UNCHANGED vars
  BY <1>28 DEF vars, MainInv, ReportOfSession, ReportIsWhole, ReplayEndsClosed,
     Cancelled, Collected, TypeOK, NoReport, queueVars, mainVars, sideVars,
     storeVars
<1>29. CASE \/ \E r \in Runs :
                Side(r) \/ CloserFires(r) \/ \E s \in Symbols : Bar(r, s)
           \/ \E s \in Symbols : LiveTrade(s)
  <2>1. UNCHANGED <<queueVars, mainVars, session, phase, report>>
    BY <1>29 DEF Side, CollectorEnd, CloserCancelled, ScanRead, ScanClose,
       ScanEnd, CloserFires, Bar, LiveTrade, queueVars, mainVars, storeVars,
       sideVars
  <2> QED
    BY <2>1 DEF MainInv, ReportOfSession, ReportIsWhole, ReplayEndsClosed,
       Cancelled, Collected, TypeOK, NoReport, queueVars, mainVars
<1> QED
  BY [Next]_vars, <1>1, <1>2, <1>3, <1>4, <1>5, <1>6, <1>7, <1>8, <1>9, <1>10,
     <1>11, <1>12, <1>13, <1>14, <1>15, <1>16, <1>17, <1>18, <1>19, <1>20,
     <1>21, <1>22, <1>23, <1>24, <1>25, <1>26, <1>27, <1>28, <1>29
     DEF Next, MainStep

\* How far the closers are.
LEMMA CloserStep ==
  ASSUME TypeOK, MainInv, ReportOfSession, CloserInv, [Next]_vars
  PROVE  CloserInv'
<1>1. CASE UNCHANGED <<run, main, closer, session, report>>
  BY <1>1 DEF CloserInv
<1>2. CASE StartRun
  BY <1>2, MaxRunsAssumption DEF StartRun, CloserInv, MainInv, TypeOK, Runs,
     queueVars, mainVars, sideVars, storeVars, vars
<1>3. CASE \E k \in {"replay", "live"} : Resolve(k)
  BY <1>3, MaxRunsAssumption DEF Resolve, CloserInv, MainInv, TypeOK, Runs,
     queueVars, mainVars, sideVars, storeVars, vars
<1>4. CASE ResolveFail
  BY <1>4 DEF ResolveFail, CloserInv, MainInv, TypeOK, Runs, queueVars,
     mainVars, sideVars, storeVars, vars
<1>5. CASE WaitCancelled
  BY <1>5 DEF WaitCancelled, CloserInv, MainInv, TypeOK, Runs, queueVars,
     mainVars, sideVars, storeVars, vars
<1>6. CASE BarsCancelled
  BY <1>6 DEF BarsCancelled, CloserInv, MainInv, TypeOK, Runs, queueVars,
     mainVars, sideVars, storeVars, vars
<1>7. CASE CollectEnd
  BY <1>7 DEF CollectEnd, CloserInv, MainInv, TypeOK, Runs, queueVars,
     mainVars, sideVars, storeVars, vars
<1>8. CASE \E c \in SUBSET Symbols : Select(c)
  BY <1>8 DEF Select, CloserInv, MainInv, TypeOK, Runs, queueVars, mainVars,
     sideVars, storeVars, vars
<1>9. CASE \E c, came \in SUBSET Symbols : Correct(c, came)
  BY <1>9 DEF Correct, CloserInv, MainInv, TypeOK, Runs, queueVars, mainVars,
     sideVars, storeVars, vars
<1>10. CASE Nothing
  BY <1>10 DEF Nothing, CloserInv, MainInv, TypeOK, Runs, queueVars, mainVars,
     sideVars, storeVars, vars
<1>11. CASE Build
  BY <1>11 DEF Build, CloserInv, MainInv, TypeOK, Runs, queueVars, mainVars,
     sideVars, storeVars, vars
<1>12. CASE SetTracked
  BY <1>12 DEF SetTracked, CloserInv, MainInv, TypeOK, Runs, queueVars, mainVars,
     sideVars, storeVars, vars
<1>13. CASE ReplayCancelled
  BY <1>13 DEF ReplayCancelled, CloserInv, MainInv, TypeOK, Runs, queueVars,
     mainVars, sideVars, storeVars, vars
<1>14. CASE ReplayEnd
  BY <1>14 DEF ReplayEnd, CloserInv, MainInv, TypeOK, Runs, queueVars,
     mainVars, sideVars, storeVars, vars
<1>15. CASE GoLive
  BY <1>15, MaxRunsAssumption DEF GoLive, CloserInv, MainInv, TypeOK, Runs,
     Closer, queueVars, mainVars, sideVars, storeVars, vars
<1>16. CASE LiveCancelled
  BY <1>16 DEF LiveCancelled, CloserInv, MainInv, TypeOK, Runs, queueVars,
     mainVars, sideVars, storeVars, vars
<1>17. CASE LiveEnd
  BY <1>17, MaxRunsAssumption DEF LiveEnd, CloserInv, MainInv, TypeOK, Runs,
     queueVars, mainVars, sideVars, storeVars, vars
<1>18. CASE Report
  BY <1>18, MaxRunsAssumption DEF Report, CloserInv, MainInv, TypeOK, Runs,
     queueVars, mainVars, sideVars, storeVars, vars
<1>19. CASE WaitForOpen
  BY <1>19 DEF WaitForOpen, CloserInv, MainInv, TypeOK, Runs, queueVars,
     mainVars, sideVars, storeVars, vars
<1>20. CASE CollectLive
  BY <1>20 DEF CollectLive, CloserInv, MainInv, TypeOK, Runs, queueVars,
     mainVars, sideVars, storeVars, vars
<1>21. CASE CollectLate
  BY <1>21 DEF CollectLate, CloserInv, MainInv, TypeOK, Runs, queueVars,
     mainVars, sideVars, storeVars, vars
<1>22. CASE BarsDone
  BY <1>22 DEF BarsDone, CloserInv, MainInv, TypeOK, Runs, queueVars, mainVars,
     sideVars, storeVars, vars
<1>23. CASE LiveFail
  BY <1>23 DEF LiveFail, CloserInv, MainInv, TypeOK, Runs, queueVars, mainVars,
     sideVars, storeVars, vars
<1>24. CASE \E r \in Runs : CloserCancelled(r)
  BY <1>24 DEF CloserCancelled, CloserInv, MainInv, TypeOK, Runs, Closer,
     queueVars, mainVars, sideVars, storeVars, vars
<1>25. CASE \E r \in Runs, s \in Symbols : ScanRead(r, s)
  BY <1>25 DEF ScanRead, CloserInv, MainInv, TypeOK, Runs, Closer, queueVars,
     mainVars, sideVars, storeVars, vars
<1>26. CASE \E r \in Runs : ScanClose(r)
  BY <1>26 DEF ScanClose, CloserInv, MainInv, TypeOK, Runs, Closer, queueVars,
     mainVars, sideVars, storeVars, vars
<1>27. CASE \E r \in Runs : ScanEnd(r)
  BY <1>27 DEF ScanEnd, CloserInv, MainInv, TypeOK, Runs, Closer, queueVars,
     mainVars, sideVars, storeVars, vars
<1>28. CASE \E r \in Runs : CloserFires(r)
  BY <1>28 DEF CloserFires, CloserInv, MainInv, TypeOK, Runs, Closer,
     queueVars, mainVars, sideVars, storeVars, vars
<1> QED
  BY [Next]_vars, <1>1, <1>2, <1>3, <1>4, <1>5, <1>6, <1>7, <1>8, <1>9, <1>10,
     <1>11, <1>12, <1>13, <1>14, <1>15, <1>16, <1>17, <1>18, <1>19, <1>20,
     <1>21, <1>22, <1>23, <1>24, <1>25, <1>26, <1>27, <1>28
     DEF Next, MainStep, Side, Request, Cancel, CollectSymbol, ReplayBegin,
        ReplayTrades, CollectorEnd, Bar, LiveTrade, vars, queueVars, mainVars,
        sideVars, storeVars

\* The closer's scan against the trades.
LEMMA FlatStep ==
  ASSUME TypeOK, MainInv, CloserInv, FlatInv, CopyInv, [Next]_vars
  PROVE  FlatInv'
<1>1. CASE UNCHANGED <<run, cancelled, main, closer, session, ticker>>
  BY <1>1 DEF FlatInv, Cancelled
<1>2. CASE Cancel
  BY <1>2 DEF Cancel, FlatInv, CloserInv, MainInv, TypeOK, Runs, Cancelled,
     queueVars, mainVars, sideVars, storeVars, vars
<1>3. CASE StartRun
  BY <1>3, MaxRunsAssumption DEF StartRun, FlatInv, CloserInv, MainInv, TypeOK,
     Runs, Cancelled, queueVars, mainVars, sideVars, storeVars, vars
<1>4. CASE \E k \in {"replay", "live"} : Resolve(k)
  BY <1>4, MaxRunsAssumption DEF Resolve, FlatInv, CloserInv, MainInv, TypeOK,
     Runs, Cancelled, Closer, Exit, Ticker, Absent, Positions, Upsert, Touch,
     queueVars, mainVars, sideVars, storeVars, vars
<1>5. CASE ResolveFail
  BY <1>5 DEF ResolveFail, FlatInv, CloserInv, MainInv, TypeOK, Runs,
     Cancelled, queueVars, mainVars, sideVars, storeVars, vars
<1>6. CASE WaitCancelled
  BY <1>6 DEF WaitCancelled, FlatInv, CloserInv, MainInv, TypeOK, Runs,
     Cancelled, queueVars, mainVars, sideVars, storeVars, vars
<1>7. CASE BarsCancelled
  BY <1>7 DEF BarsCancelled, FlatInv, CloserInv, MainInv, TypeOK, Runs,
     Cancelled, queueVars, mainVars, sideVars, storeVars, vars
<1>8. CASE \E s \in Symbols, ok \in BOOLEAN : CollectSymbol(s, ok)
  BY <1>8 DEF CollectSymbol, FlatInv, CloserInv, MainInv, TypeOK, Runs,
     Cancelled, Closer, Exit, Ticker, Absent, Positions, Upsert, Touch,
     queueVars, mainVars, sideVars, storeVars, vars
<1>9. CASE CollectEnd
  BY <1>9 DEF CollectEnd, FlatInv, CloserInv, MainInv, TypeOK, Runs, Cancelled,
     queueVars, mainVars, sideVars, storeVars, vars
<1>10. CASE \E c \in SUBSET Symbols : Select(c)
  BY <1>10 DEF Select, FlatInv, CloserInv, MainInv, TypeOK, Runs, Cancelled,
     Closer, Exit, Ticker, Absent, Positions, Upsert, Touch, queueVars,
     mainVars, sideVars, storeVars, vars
<1>11. CASE \E c, came \in SUBSET Symbols : Correct(c, came)
  BY <1>11 DEF Correct, FlatInv, CloserInv, MainInv, TypeOK, Runs, Cancelled,
     Closer, Exit, Ticker, Absent, Positions, Upsert, Touch, queueVars,
     mainVars, sideVars, storeVars, vars
<1>12. CASE Nothing
  BY <1>12 DEF Nothing, FlatInv, CloserInv, MainInv, TypeOK, Runs, Cancelled,
     queueVars, mainVars, sideVars, storeVars, vars
<1>13. CASE Build
  BY <1>13 DEF Build, FlatInv, CloserInv, MainInv, TypeOK, Runs, Cancelled,
     Closer, Exit, Ticker, Absent, Positions, Upsert, Touch, queueVars,
     mainVars, sideVars, storeVars, vars
<1>14. CASE SetTracked
  BY <1>14 DEF SetTracked, FlatInv, CopyInv, CloserInv, MainInv, TypeOK, Runs,
     Cancelled, Closer, Ticker, Absent, Positions, queueVars, mainVars, sideVars,
     storeVars, vars
<1>15. CASE \E p \in Positions : ReplayTrades(p)
  BY <1>15 DEF ReplayTrades, FlatInv, CloserInv, MainInv, TypeOK, Runs,
     Cancelled, Closer, Exit, Ticker, Absent, Positions, Upsert, Touch,
     queueVars, mainVars, sideVars, storeVars, vars
<1>16. CASE ReplayCancelled
  BY <1>16 DEF ReplayCancelled, FlatInv, CloserInv, MainInv, TypeOK, Runs,
     Cancelled, queueVars, mainVars, sideVars, storeVars, vars
<1>17. CASE ReplayEnd
  BY <1>17 DEF ReplayEnd, FlatInv, CloserInv, MainInv, TypeOK, Runs, Cancelled,
     Closer, Exit, Ticker, Absent, Positions, Upsert, Touch, queueVars,
     mainVars, sideVars, storeVars, vars
<1>18. CASE GoLive
  BY <1>18, MaxRunsAssumption DEF GoLive, FlatInv, CloserInv, MainInv, TypeOK,
     Runs, Cancelled, Closer, Exit, Ticker, Absent, Positions, Upsert, Touch,
     queueVars, mainVars, sideVars, storeVars, vars
<1>19. CASE LiveCancelled
  BY <1>19 DEF LiveCancelled, FlatInv, CloserInv, MainInv, TypeOK, Runs,
     Cancelled, queueVars, mainVars, sideVars, storeVars, vars
<1>20. CASE LiveEnd
  BY <1>20, MaxRunsAssumption DEF LiveEnd, FlatInv, CloserInv, MainInv, TypeOK,
     Runs, Cancelled, queueVars, mainVars, sideVars, storeVars, vars
<1>21. CASE Report
  BY <1>21, MaxRunsAssumption DEF Report, FlatInv, CloserInv, MainInv, TypeOK,
     Runs, Cancelled, queueVars, mainVars, sideVars, storeVars, vars
<1>22. CASE WaitForOpen
  BY <1>22 DEF WaitForOpen, FlatInv, CloserInv, MainInv, TypeOK, Runs,
     Cancelled, queueVars, mainVars, sideVars, storeVars, vars
<1>23. CASE CollectLive
  BY <1>23 DEF CollectLive, FlatInv, CloserInv, MainInv, TypeOK, Runs,
     Cancelled, queueVars, mainVars, sideVars, storeVars, vars
<1>24. CASE CollectLate
  BY <1>24 DEF CollectLate, FlatInv, CloserInv, MainInv, TypeOK, Runs,
     Cancelled, queueVars, mainVars, sideVars, storeVars, vars
<1>25. CASE BarsDone
  BY <1>25 DEF BarsDone, FlatInv, CloserInv, MainInv, TypeOK, Runs, Cancelled,
     queueVars, mainVars, sideVars, storeVars, vars
<1>26. CASE LiveFail
  BY <1>26 DEF LiveFail, FlatInv, CloserInv, MainInv, TypeOK, Runs, Cancelled,
     queueVars, mainVars, sideVars, storeVars, vars
<1>27. CASE \E r \in Runs : CloserCancelled(r)
  BY <1>27 DEF CloserCancelled, FlatInv, CloserInv, MainInv, TypeOK, Runs,
     Cancelled, Closer, Exit, Ticker, Absent, Positions, Upsert, Touch,
     queueVars, mainVars, sideVars, storeVars, vars
<1>28. CASE \E r \in Runs, s \in Symbols : ScanRead(r, s)
  BY <1>28 DEF ScanRead, FlatInv, CloserInv, MainInv, TypeOK, Runs, Cancelled,
     Closer, Exit, Ticker, Absent, Positions, Upsert, Touch, queueVars,
     mainVars, sideVars, storeVars, vars
<1>29. CASE \E r \in Runs : ScanClose(r)
  BY <1>29 DEF ScanClose, FlatInv, CloserInv, MainInv, TypeOK, Runs, Cancelled,
     Closer, Exit, Ticker, Absent, Positions, Upsert, Touch, queueVars,
     mainVars, sideVars, storeVars, vars
<1>30. CASE \E r \in Runs : ScanEnd(r)
  BY <1>30 DEF ScanEnd, FlatInv, CloserInv, MainInv, TypeOK, Runs, Cancelled,
     Closer, Exit, Ticker, Absent, Positions, Upsert, Touch, queueVars,
     mainVars, sideVars, storeVars, vars
<1>31. CASE \E r \in Runs : CloserFires(r)
  BY <1>31 DEF CloserFires, FlatInv, CloserInv, MainInv, TypeOK, Runs,
     Cancelled, Closer, Exit, Ticker, Absent, Positions, Upsert, Touch,
     queueVars, mainVars, sideVars, storeVars, vars
<1>32. CASE \E r \in Runs, s \in Symbols : Bar(r, s)
  BY <1>32 DEF Bar, FlatInv, CloserInv, MainInv, TypeOK, Runs, Cancelled,
     Closer, Exit, Ticker, Absent, Positions, Upsert, Touch, queueVars,
     mainVars, sideVars, storeVars, vars
<1>33. CASE \E s \in Symbols : LiveTrade(s)
  BY <1>33 DEF LiveTrade, FlatInv, CloserInv, MainInv, TypeOK, Runs, Cancelled,
     Closer, Exit, Ticker, Absent, Positions, Upsert, Touch, queueVars,
     mainVars, sideVars, storeVars, vars
<1> QED
  BY [Next]_vars, <1>1, <1>2, <1>3, <1>4, <1>5, <1>6, <1>7, <1>8, <1>9, <1>10,
     <1>11, <1>12, <1>13, <1>14, <1>15, <1>16, <1>17, <1>18, <1>19, <1>20,
     <1>21, <1>22, <1>23, <1>24, <1>25, <1>26, <1>27, <1>28, <1>29, <1>30,
     <1>31, <1>32, <1>33
     DEF Next, MainStep, Side, Request, ReplayBegin, CollectorEnd, vars,
        queueVars, mainVars, sideVars, storeVars

\* A closer that bars a ticker is of another session and leaves its mark on it.
LEMMA OwnStep ==
  ASSUME TypeOK, MainInv, CloserInv, FlatInv, CopyInv, OwnIsTradable, [Next]_vars
  PROVE  OwnIsTradable'
<1>1. CASE UNCHANGED <<session, ticker>>
  BY <1>1 DEF OwnIsTradable, Own
<1>2. CASE \E k \in {"replay", "live"} : Resolve(k)
  BY <1>2 DEF Resolve, OwnIsTradable, Own, TypeOK, Absent
<1>3. CASE \E s \in Symbols, ok \in BOOLEAN : CollectSymbol(s, ok)
  BY <1>3 DEF CollectSymbol, OwnIsTradable, Own, TypeOK, Touch, Upsert
<1>4. CASE \E c \in SUBSET Symbols : Select(c)
  BY <1>4 DEF Select, OwnIsTradable, Own, TypeOK, Touch, Upsert
<1>5. CASE \E c, came \in SUBSET Symbols : Correct(c, came)
  BY <1>5 DEF Correct, OwnIsTradable, Own, TypeOK, Touch, Upsert
<1>6. CASE SetTracked
  BY <1>6 DEF SetTracked, OwnIsTradable, CopyInv, MainInv, Own, TypeOK, Ticker, Absent
<1>7. CASE \E p \in Positions : ReplayTrades(p)
  BY <1>7 DEF ReplayTrades, OwnIsTradable, Own, TypeOK, Upsert
<1>8. CASE ReplayEnd
  BY <1>8 DEF ReplayEnd, OwnIsTradable, Own, TypeOK, Touch, Upsert
<1>9. CASE \E r \in Runs : ScanClose(r)
  <2>1. PICK r \in Runs : ScanClose(r)
    BY <1>9
  <2> DEFINE t == closer[r].target
  <2>2. t \in Symbols /\ closer[r].pc = "close"
    BY <2>1 DEF ScanClose, CloserInv
  <2>3. /\ ticker' = [ticker EXCEPT ![t] = Upsert(t, r, Exit(ticker[t].pos))]
        /\ session' = session /\ report' = report /\ cancelled' = cancelled
    BY <2>1 DEF ScanClose, queueVars
  <2>4. /\ ticker'[t].pos = Exit(ticker[t].pos)
        /\ ticker'[t].by = ticker[t].by \cup {r}
        /\ \A x \in Symbols \ {t} : ticker'[x] = ticker[x]
    BY <2>2, <2>3 DEF TypeOK, Upsert
  <2>5. ASSUME NEW x \in Symbols, Own(x)' PROVE ticker'[x].pos # "barred"
    <3>1. CASE x = t
      <4>1. r = session
        BY <2>3, <2>4, <2>5, <3>1 DEF Own
      <4> QED
        BY <2>2, <2>4, <3>1, <4>1 DEF FlatInv, Exit
    <3>2. CASE x # t
      BY <2>3, <2>4, <2>5, <3>2 DEF Own, OwnIsTradable
    <3> QED
      BY <3>1, <3>2
  <2> QED
    BY <2>5 DEF OwnIsTradable
<1>10. CASE \E r \in Runs, s \in Symbols : Bar(r, s)
  BY <1>10 DEF Bar, OwnIsTradable, Own, TypeOK, Touch, Upsert
<1>11. CASE \E s \in Symbols : LiveTrade(s)
  BY <1>11 DEF LiveTrade, OwnIsTradable, Own, TypeOK, Upsert, MainInv
<1> QED
  BY [Next]_vars, <1>1, <1>2, <1>3, <1>4, <1>5, <1>6, <1>7, <1>8, <1>9, <1>10,
     <1>11
     DEF Next, MainStep, Side, Request, Cancel, StartRun, ResolveFail,
        WaitCancelled, BarsCancelled, CollectEnd, Nothing, Build, ReplayBegin,
        ReplayCancelled, GoLive, LiveCancelled, LiveEnd, Report, WaitForOpen,
        CollectLive, CollectLate, BarsDone, LiveFail, CollectorEnd,
        CloserCancelled, ScanRead, ScanEnd, CloserFires, vars, queueVars,
        mainVars, sideVars, storeVars

\* The copies are taken while nothing is open.
LEMMA CopyStep ==
  ASSUME TypeOK, MainInv, FlatInv, OwnIsTradable, CopyInv, [Next]_vars
  PROVE  CopyInv'
<1>1. CASE UNCHANGED <<main, copy, session>>
  BY <1>1 DEF CopyInv
<1>2. CASE Build
  BY <1>2 DEF Build, CopyInv, FlatInv, OwnIsTradable, Own, Absent, TypeOK, storeVars
<1>3. CASE main' # "seed"
  BY <1>3 DEF CopyInv
<1> QED
  BY [Next]_vars, <1>1, <1>2, <1>3
     DEF Next, MainStep, Side, Request, Cancel, StartRun, Resolve, ResolveFail,
        WaitCancelled, BarsCancelled, CollectSymbol, CollectEnd, Select, Correct,
        Nothing, SetTracked, ReplayBegin, ReplayTrades, ReplayCancelled, ReplayEnd,
        GoLive, LiveTrade, LiveCancelled, LiveEnd, Report, WaitForOpen, CollectLive,
        CollectLate, BarsDone, LiveFail, Bar, CollectorEnd, CloserCancelled,
        ScanRead, ScanClose, ScanEnd, CloserFires, vars, queueVars, mainVars,
        sideVars, storeVars

\* After the report only goroutines of other runs still write.
LEMMA FinalStep ==
  ASSUME TypeOK, MainInv, ReportOfSession, CloserInv, FlatInv, ReportIsFinal,
         [Next]_vars
  PROVE  ReportIsFinal'
<1>1. CASE /\ UNCHANGED <<session, ticker, report>>
           /\ cancelled \subseteq cancelled'
  BY <1>1 DEF ReportIsFinal, Own
<1>2. CASE \E k \in {"replay", "live"} : Resolve(k)
  BY <1>2 DEF Resolve, ReportIsFinal, Own, TypeOK, NoReport
<1>3. CASE \E s \in Symbols, ok \in BOOLEAN : CollectSymbol(s, ok)
  BY <1>3 DEF CollectSymbol, ReportIsFinal, Own, TypeOK, MainInv
<1>4. CASE \E c \in SUBSET Symbols : Select(c)
  BY <1>4 DEF Select, ReportIsFinal, Own, TypeOK, MainInv
<1>5. CASE \E c, came \in SUBSET Symbols : Correct(c, came)
  BY <1>5 DEF Correct, ReportIsFinal, Own, TypeOK, MainInv
<1>6. CASE SetTracked
  BY <1>6 DEF SetTracked, ReportIsFinal, Own, TypeOK, MainInv
<1>7. CASE \E p \in Positions : ReplayTrades(p)
  BY <1>7 DEF ReplayTrades, ReportIsFinal, Own, TypeOK, MainInv
<1>8. CASE ReplayEnd
  BY <1>8 DEF ReplayEnd, ReportIsFinal, Own, TypeOK, MainInv
<1>9. CASE Report
  BY <1>9 DEF Report, ReportIsFinal, Own, TypeOK, MainInv, FlatInv, Cancelled,
     queueVars
<1>10. CASE \E r \in Runs : ScanClose(r)
  <2>1. PICK r \in Runs : ScanClose(r)
    BY <1>10
  <2> DEFINE t == closer[r].target
  <2>2. t \in Symbols /\ closer[r].pc = "close"
    BY <2>1 DEF ScanClose, CloserInv
  <2>3. /\ ticker' = [ticker EXCEPT ![t] = Upsert(t, r, Exit(ticker[t].pos))]
        /\ session' = session /\ report' = report /\ cancelled' = cancelled
    BY <2>1 DEF ScanClose, queueVars
  <2>4. /\ ticker'[t].pos = Exit(ticker[t].pos)
        /\ ticker'[t].by = ticker[t].by \cup {r}
        /\ \A x \in Symbols \ {t} : ticker'[x] = ticker[x]
    BY <2>2, <2>3 DEF TypeOK, Upsert
  <2>5. SUFFICES ASSUME (report # NoReport /\ report.run \notin cancelled)',
                        NEW x \in Symbols, Own(x)'
                 PROVE  (/\ report.pos[x] # "open"
                         /\ report.pos[x] = ticker[x].pos)'
    BY DEF ReportIsFinal
  <2>6. report # NoReport /\ report.run \notin cancelled
    BY <2>3, <2>5 DEF NoReport
  <2>7. x # t
    <3>1. r # session
      BY <2>2, <2>6 DEF CloserInv
    <3> QED
      BY <2>3, <2>4, <2>5, <3>1 DEF Own
  <2> QED
    BY <2>3, <2>4, <2>5, <2>6, <2>7 DEF ReportIsFinal, Own
<1>11. CASE \E r \in Runs, s \in Symbols : Bar(r, s)
  BY <1>11 DEF Bar, ReportIsFinal, Own, TypeOK, Touch, Upsert, queueVars
<1>12. CASE \E s \in Symbols : LiveTrade(s)
  BY <1>12 DEF LiveTrade, ReportIsFinal, Own, TypeOK, MainInv
<1> QED
  BY [Next]_vars, <1>1, <1>2, <1>3, <1>4, <1>5, <1>6, <1>7, <1>8, <1>9, <1>10,
     <1>11, <1>12
     DEF Next, MainStep, Side, Request, Cancel, StartRun, ResolveFail,
        WaitCancelled, BarsCancelled, CollectEnd, Nothing, Build, ReplayBegin,
        ReplayCancelled, GoLive, LiveCancelled, LiveEnd, WaitForOpen,
        CollectLive, CollectLate, BarsDone, LiveFail, CollectorEnd,
        CloserCancelled, ScanRead, ScanEnd, CloserFires, vars, queueVars,
        mainVars, sideVars, storeVars

-----------------------------------------------------------------------------
(* The theorems. *)

LEMMA StepInv == IInv /\ [Next]_vars => IInv'
BY TypeStep, MainStepInv, CloserStep, FlatStep, CopyStep, OwnStep, FinalStep
   DEF IInv

LEMMA Invariance == Spec => []IInv
BY InitInv, StepInv, PTL DEF Spec

\* Every variable keeps its type.
THEOREM TypeCorrect == Spec => []TypeOK
BY Invariance, PTL DEF IInv

\* The report in the store is that of the session in the store: the new one is
\* opened and the old report dropped in one step (store.go:406-430).
THEOREM ReportsMatchSession == Spec => []ReportOfSession
BY Invariance, PTL DEF IInv

\* A cut-short collection goes on as if it were whole (historic.go:893), but
\* only a cancelled run is cut short.
THEOREM ReportsAreWhole == Spec => []ReportIsWhole
BY Invariance, PTL DEF IInv

\* The report comes after the closer (historic.go:542), and nobody else of its
\* run trades after it.
THEOREM ReportsAreFinal == Spec => []ReportIsFinal
BY Invariance, PTL DEF IInv

\* A closer's stale copy (engine.go:718-727) bars no ticker that only its own
\* session has written.
THEOREM OwnStaysTradable == Spec => []OwnIsTradable
BY Invariance, PTL DEF IInv

\* Every way out of a replay closes the phase (historic.go:586, 619, 674, 712).
THEOREM ReplaysEndClosed == Spec => []ReplayEndsClosed
BY Invariance, PTL DEF IInv
=============================================================================
