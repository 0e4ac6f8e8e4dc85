------------------------- MODULE RealtimeRun_proofs -------------------------
(***************************************************************************)
(* Theorems about a realtime day, for any watchlist, any times and any      *)
(* filters.                                                                *)
(*                                                                         *)
(* The inductive invariant says that there are no candidates before the     *)
(* selection (BeforeSelection), that only a returned run has closed the      *)
(* phase (ClosedIsReturned), and what the 11:00 goroutine has done by the    *)
(* time it is at each of its places (CloserInv).                            *)
(***************************************************************************)
EXTENDS RealtimeRun, TLAPS

BeforeSelection ==
  pc \in {"start", "open", "connect", "collect", "close", "select"} => candidates = {}

ClosedIsReturned == phase = "closed" => pc = "returned"

CloserInv ==
  /\ closer = "force" => now >= ExitT
  /\ closer = "done" => ctxDone \/ (forced /\ now >= ExitT)

IInv ==
  /\ TypeOK
  /\ BeforeSelection
  /\ ClosedIsReturned
  /\ CloserInv
  /\ JudgedOnFinalMetrics
  /\ ClosedAfterForceExit

-----------------------------------------------------------------------------
\* The initial states.
LEMMA InitInv == Init => IInv
<1> SUFFICES ASSUME Init PROVE IInv
  OBVIOUS
<1>1. seen \in [Symbols -> Seq(Window)] /\ market \in [Symbols -> SUBSET Window]
  BY DEF Init
<1>2. now \in 0 .. MaxNow /\ joined \in 0 .. MaxNow
  BY ClockAssumption DEF Init
<1>3. /\ todo = {} /\ answered = {} /\ failed = {}
      /\ feedErr = FALSE /\ ranging = FALSE /\ ctxDone = FALSE /\ forced = FALSE
  BY DEF Init, History!Init
<1>4. TypeOK
  BY <1>1, <1>2, <1>3 DEF Init, TypeOK
<1> QED
  BY <1>4 DEF Init, IInv, BeforeSelection, ClosedIsReturned, CloserInv,
     JudgedOnFinalMetrics, ClosedAfterForceExit, Selected

-----------------------------------------------------------------------------
(* Types                                                                    *)

LEMMA TypeStep == ASSUME TypeOK, BeforeSelection, [Next]_vars PROVE TypeOK'
<1> USE ClockAssumption
<1>1. CASE Tick
  <2>1. now' \in 0 .. MaxNow
    BY <1>1 DEF Tick, TypeOK
  <2>2. PICK traded \in SUBSET Symbols :
          /\ flight' = flight \cup (traded \X {now})
          /\ market' = [s \in Symbols |->
                          market[s] \cup (IF s \in traded THEN {now} \cap Window ELSE {})]
    BY <1>1 DEF Tick
  <2>3. flight' \subseteq Bar
    BY <2>2 DEF TypeOK, Bar
  <2>4. market' \in [Symbols -> SUBSET Window]
    BY <2>2 DEF TypeOK
  <2> QED
    BY <1>1, <2>1, <2>3, <2>4 DEF Tick, TypeOK, runVars, poolVars, closerVars
<1>2. CASE FeedFails
  BY <1>2 DEF FeedFails, TypeOK, runVars, poolVars, closerVars
<1>3. CASE \E b \in flight : Arrive(b)
  BY <1>3 DEF Arrive, TypeOK, runVars, poolVars, closerVars
<1>4. CASE CollectorEnds
  BY <1>4 DEF CollectorEnds, TypeOK, runVars, feedVars, poolVars, closerVars
<1>5. ASSUME NEW b \in output, Collect(b) PROVE TypeOK'
  <2>1. b[1] \in Symbols
    BY DEF TypeOK, Bar
  <2>2. seen' \in [Symbols -> Seq(Window)]
    BY <1>5, <2>1 DEF Collect, TypeOK
  <2> QED
    BY <1>5, <2>2 DEF Collect, TypeOK, runVars, poolVars, closerVars
<1>6. CASE StartRun \/ MarketOpens
  BY <1>6 DEF StartRun, MarketOpens, TypeOK, feedVars, poolVars, closerVars
<1>7. CASE ConnectBars
  BY <1>7 DEF ConnectBars, TypeOK, poolVars, closerVars
<1>8. CASE ConnectFails \/ Cancelled \/ CloseSession
  BY <1>8 DEF ConnectFails, Cancelled, CloseSession, Return, TypeOK, poolVars, closerVars
<1>9. CASE TradesEnd("nil") \/ TradesEnd("error")
  BY <1>9 DEF TradesEnd, Return, TypeOK, poolVars, closerVars
<1>10. CASE SelectionTime
  BY <1>10 DEF SelectionTime, TypeOK, poolVars, closerVars
<1>11. CASE Select
  BY <1>11, ZenonT(40) DEF Select, Selection, History!Begin, Return, TypeOK, BeforeSelection,
     poolVars, closerVars
<1>12. CASE BuildTracked
  BY <1>12 DEF BuildTracked, History!End, History!Answer, TypeOK, runVars, feedVars, closerVars
<1>13. CASE StartTracking \/ ConnectTrades
  BY <1>13 DEF StartTracking, ConnectTrades, TypeOK, feedVars, poolVars, closerVars
<1>14. CASE Closer
  BY <1>14 DEF Closer, CloserWakes, ForceExit, TypeOK, runVars, feedVars, poolVars
<1>15. CASE Stop
  BY <1>15 DEF Stop, History!Cancel, TypeOK, runVars, feedVars, closerVars
<1>16. CASE UNCHANGED vars
  BY <1>16 DEF vars, TypeOK
<1> QED
  BY <1>1, <1>2, <1>3, <1>4, <1>5, <1>6, <1>7, <1>8, <1>9, <1>10, <1>11, <1>12, <1>13,
     <1>14, <1>15, <1>16 DEF Next, Collector, Run

-----------------------------------------------------------------------------
(* The selection                                                            *)

\* The two steps that a selection could be contradicted by: the collector's, and
\* the pool's.
LEMMA SelectionStep ==
  ASSUME TypeOK, BeforeSelection, JudgedOnFinalMetrics, [Next]_vars
  PROVE  BeforeSelection' /\ JudgedOnFinalMetrics'
<1> USE DEF BeforeSelection, JudgedOnFinalMetrics, Selected, Selection
<1>1. CASE Tick \/ FeedFails \/ \E b \in flight : Arrive(b)
  BY <1>1 DEF Tick, FeedFails, Arrive, runVars, poolVars, feedVars
<1>2. CASE Collector
  <2>1. UNCHANGED <<pc, candidates, todo>>
    BY <1>2 DEF Collector, CollectorEnds, Collect, runVars, poolVars
  <2>2. collector = "on"
    BY <1>2 DEF Collector, CollectorEnds, Collect
  <2> QED
    BY <2>1, <2>2
<1>3. CASE StartRun \/ MarketOpens \/ ConnectBars \/ SelectionTime
  BY <1>3 DEF StartRun, MarketOpens, ConnectBars, SelectionTime
<1>4. CASE ConnectFails \/ Cancelled \/ CloseSession \/ TradesEnd("nil") \/ TradesEnd("error")
  BY <1>4 DEF ConnectFails, Cancelled, CloseSession, TradesEnd, Return, poolVars
<1>5. CASE Select
  BY <1>5 DEF Select, History!Begin, Return
<1>6. CASE BuildTracked
  BY <1>6 DEF BuildTracked, History!End, History!Answer, runVars
<1>7. CASE StartTracking \/ ConnectTrades
  BY <1>7 DEF StartTracking, ConnectTrades, poolVars
<1>8. CASE Closer
  BY <1>8 DEF Closer, CloserWakes, ForceExit, runVars, poolVars
<1>9. CASE Stop
  BY <1>9 DEF Stop, History!Cancel, runVars
<1>10. CASE UNCHANGED vars
  BY <1>10 DEF vars
<1> QED
  BY <1>1, <1>2, <1>3, <1>4, <1>5, <1>6, <1>7, <1>8, <1>9, <1>10 DEF Next, Run

-----------------------------------------------------------------------------
(* The close                                                                *)

LEMMA CloseStep ==
  ASSUME TypeOK, BeforeSelection, ClosedIsReturned, CloserInv, ClosedAfterForceExit,
         [Next]_vars
  PROVE  ClosedIsReturned' /\ CloserInv' /\ ClosedAfterForceExit'
<1> USE ClockAssumption
<1> USE DEF TypeOK, ClosedIsReturned, CloserInv, ClosedAfterForceExit
<1>1. CASE Tick
  BY <1>1 DEF Tick, runVars, closerVars
<1>2. CASE FeedFails \/ (\E b \in flight : Arrive(b)) \/ Collector
  BY <1>2 DEF FeedFails, Arrive, Collector, CollectorEnds, Collect, runVars, closerVars
<1>3. CASE StartRun \/ MarketOpens \/ ConnectBars \/ SelectionTime
  BY <1>3 DEF StartRun, MarketOpens, ConnectBars, SelectionTime, closerVars
<1>4. CASE ConnectFails \/ Cancelled \/ TradesEnd("nil") \/ TradesEnd("error")
  BY <1>4 DEF ConnectFails, Cancelled, TradesEnd, Return, closerVars
<1>5. CASE CloseSession
  BY <1>5 DEF CloseSession, Return, closerVars
<1>6. CASE Select
  BY <1>6 DEF Select, History!Begin, Return, closerVars
<1>7. CASE BuildTracked
  BY <1>7 DEF BuildTracked, History!End, History!Answer, runVars, closerVars
<1>8. CASE StartTracking \/ ConnectTrades
  BY <1>8 DEF StartTracking, ConnectTrades, closerVars
<1>9. CASE Closer
  BY <1>9 DEF Closer, CloserWakes, ForceExit, runVars
<1>10. CASE Stop
  BY <1>10 DEF Stop, History!Cancel, runVars, closerVars
<1>11. CASE UNCHANGED vars
  BY <1>11 DEF vars
<1> QED
  BY <1>1, <1>2, <1>3, <1>4, <1>5, <1>6, <1>7, <1>8, <1>9, <1>10, <1>11 DEF Next, Run

-----------------------------------------------------------------------------
LEMMA Inductive == Spec => []IInv
<1>1. Init => IInv
  BY InitInv
<1>2. IInv /\ [Next]_vars => IInv'
  BY TypeStep, SelectionStep, CloseStep DEF IInv
<1> QED
  BY <1>1, <1>2, PTL DEF Spec

\* Every step of the day keeps the state well-typed; the collector adds to the
\* metrics bars of the window alone (engine.go:239-242).
THEOREM TypeCorrect == Spec => []TypeOK
<1>1. IInv => TypeOK
  BY DEF IInv
<1> QED
  BY <1>1, Inductive, PTL

\* Once Run has waited for done0935 no goroutine changes the metrics on which it
\* has selected, and the history is asked of exactly what it selected
\* (engine.go:134-151).
THEOREM SelectionIsFinal == Spec => []JudgedOnFinalMetrics
<1>1. IInv => JudgedOnFinalMetrics
  BY DEF IInv
<1> QED
  BY <1>1, Inductive, PTL

\* Only a cancelled context closes a day with candidates before its time exit and
\* before onElevenAM has run (engine.go:183-205).
THEOREM ClosesAfterForceExit == Spec => []ClosedAfterForceExit
<1>1. IInv => ClosedAfterForceExit
  BY DEF IInv
<1> QED
  BY <1>1, Inductive, PTL
=============================================================================
