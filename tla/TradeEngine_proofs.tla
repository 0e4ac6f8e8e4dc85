-------------------------- MODULE TradeEngine_proofs --------------------------
(***************************************************************************)
(* Theorems about the tracked phase, for any tickers, prices and clock that *)
(* satisfy the assumptions of TradeEngine.                                  *)
(*                                                                         *)
(* The inductive invariant rests on three facts.  The trade loop is the only *)
(* writer of "has" and of the entry, so its copy can be stale only about     *)
(* "exited" (CopyInv).  A trade in work is never older than MaxLag, so by    *)
(* LagAssumption none can enter once the closer's timer has fired (WorkInv,  *)
(* NoLateEntry).  Hence what the closer has scanned stays closed (ScanInv).  *)
(***************************************************************************)
EXTENDS TradeEngine, TLAPS

\* Where the two goroutines can be, relative to the stage and to the clock.
StageInv ==
  /\ stage \in {"seed", "catchup"} => closer = "off" /\ busy = "idle"
  /\ stage = "live" => closer # "off"
  /\ phase = "closed" => closer = "end"
  /\ ClosedByTimer => now >= ExitT
  /\ closer = "end" => ctxDone \/ now >= ExitT

\* The trade in work.
WorkInv ==
  /\ busy # "idle" => cur.sym \in Tickers /\ now <= cur.time + MaxLag
  /\ busy = "tell" /\ ~cur.pos.has => cur.time < CutoffT

\* How stale a copy of a position can be.
CopyInv ==
  /\ stage \in {"seed", "catchup"} => \A s \in Tickers : ~pos[s].has
  /\ \A s \in Tickers : pos[s].exited => pos[s].has
  /\ busy = "decide" =>
       /\ cur.pos.has = pos[cur.sym].has
       /\ cur.pos.entry = pos[cur.sym].entry
       /\ cur.pos.exited => pos[cur.sym].exited
  /\ busy = "tell" /\ cur.pos.has => pos[cur.sym].exited /\ ExitReason # "none"
  /\ closer \in {"close", "tell"} => target.sym \in Tickers /\ pos[target.sym].has

\* What the closer has already looked at is closed, or is the one in its hand.
ScanInv ==
  /\ closer \in {"scan", "close", "tell"} =>
       \A s \in Tickers \ toScan : Open(s) => closer = "close" /\ s = target.sym
  /\ closer = "end" /\ ~ctxDone => \A s \in Tickers : ~Open(s)

\* A recorded cross lies in the window, and an entry follows a recorded cross.
CrossInv ==
  /\ \A s \in Tickers : cross[s].saw => CrossStart <= cross[s].time /\ cross[s].time < CutoffT
  /\ busy = "decide" => (cur.saw => cross[cur.sym].saw)

\* Outside the trade in work, an open position's last price is between stop
\* and target; the trade in work is the last one of its ticker.
PriceInv ==
  /\ busy # "idle" => tape[cur.sym].last = cur.price /\ cur.price > 0
  /\ \A s \in Tickers :
       Open(s) /\ (busy \in {"read", "decide"} => s # cur.sym) =>
         ~HitsTarget(tape[s].last, pos[s].entry) /\ ~HitsStop(tape[s].last, pos[s].entry)

\* Whoever is about to announce an exit comes after the BUY.
Heard(s) == \E j \in 1 .. Len(alerts) : alerts[j] = [type |-> "BUY", sym |-> s]
HeardInv ==
  /\ \A s \in Tickers :
       pos[s].has => Heard(s) \/ (busy = "tell" /\ ~cur.pos.has /\ cur.sym = s)
  /\ busy = "tell" /\ cur.pos.has => Heard(cur.sym)
  /\ closer \in {"close", "tell"} => Heard(target.sym)

IInv ==
  /\ TypeOK
  /\ StageInv
  /\ WorkInv
  /\ CopyInv
  /\ ScanInv
  /\ CrossInv
  /\ EntryContract
  /\ PriceInv
  /\ HeardInv
  /\ BuyHeardFirst

-----------------------------------------------------------------------------
(* Constructors have the types of what they construct. *)

\* Trading keeps a ticker's tape well-formed: the VWAP is a pair of naturals.
LEMMA TradedType ==
  ASSUME NEW k \in Tape, NEW p \in Prices, NEW z \in Sizes
  PROVE  Traded(k, p, z) \in Tape /\ p \in Nat /\ p > 0
<1>1. p \in Nat /\ p > 0 /\ z \in Nat
  BY MarketAssumption
<1>2. p * z \in Nat
  BY <1>1
<1> QED
  BY <1>1, <1>2 DEF Traded, Tape

LEMMA CrossType == \A b \in BOOLEAN, t \in Int : [saw |-> b, time |-> t] \in Cross
BY DEF Cross

LEMMA PositionType ==
  ASSUME NEW q \in Position
  PROVE  /\ q.has \in BOOLEAN /\ q.exited \in BOOLEAN
         /\ q.entry \in Nat /\ q.entryTime \in Int
BY DEF Position

\* openPosition and closePosition write the fields of a position.
LEMMA EnteredType ==
  ASSUME NEW q \in Position, NEW price \in Nat, NEW time \in Int
  PROVE  [q EXCEPT !.has = TRUE, !.entry = price, !.entryTime = time] \in Position
BY DEF Position

LEMMA ClosedType ==
  ASSUME NEW q \in Position, NEW reason \in Reasons, NEW price \in Nat, NEW time \in Int
  PROVE  [q EXCEPT !.exited = TRUE, !.reason = reason, !.exit = price,
                   !.exitTime = time] \in Position
BY DEF Position

LEMMA NoTradeType ==
  NoTrade \in [sym : Tickers \cup {NoTicker}, price : Nat, time : Int,
               pos : Position, up : BOOLEAN, saw : BOOLEAN, pass : BOOLEAN]
BY DEF NoTrade, NewPosition, Position

LEMMA ExitReasonType == ExitReason \in {"none"} \cup Reasons
BY DEF ExitReason, Reasons

-----------------------------------------------------------------------------
(* The initial states. *)

LEMMA InitInv == Init => IInv
<1> SUFFICES ASSUME Init PROVE IInv
  OBVIOUS
<1>1. NewTape \in Tape /\ NewCross \in Cross /\ NewPosition \in Position
  BY DEF NewTape, Tape, NewCross, Cross, NewPosition, Position
<1>2. /\ tape \in [Tickers -> Tape] /\ cross \in [Tickers -> Cross]
      /\ pos \in [Tickers -> Position] /\ now \in Nat /\ alerts \in Seq(Alert)
  BY <1>1, ClockAssumption DEF Init
<1>3. TypeOK
  BY <1>2, NoTradeType DEF Init, TypeOK, NoTarget
<1>4. StageInv /\ WorkInv /\ CopyInv /\ ScanInv
  BY DEF Init, StageInv, ClosedByTimer, WorkInv, CopyInv, ScanInv, NewPosition, Open
<1>5. CrossInv /\ EntryContract /\ PriceInv /\ HeardInv /\ BuyHeardFirst
  BY DEF Init, CrossInv, NewCross, EntryContract, PriceInv, HeardInv, NewPosition,
     Open, BuyHeardFirst
<1> QED
  BY <1>3, <1>4, <1>5 DEF IInv

-----------------------------------------------------------------------------
(* Every step preserves the invariant, one lemma per group of its conjuncts. *)

\* Types.
LEMMA TypeStep ==
  ASSUME TypeOK, WorkInv, CopyInv, [Next]_vars
  PROVE  TypeOK'
<1> USE DEF TypeOK,
        tickerVars, loopVars, closerVars, envVars, vars
<1>1. ASSUME NEW s \in Tickers, NEW p \in Prices, NEW z \in Sizes, NEW t \in 0 .. MaxNow,
        SeedTrade(s, p, z, t) PROVE TypeOK'
  <2>1. tape' \in [Tickers -> Tape]
    BY <1>1, TradedType DEF SeedTrade
  <2>2. t \in Int
    BY ClockAssumption
  <2>3. [saw |-> TRUE, time |-> t] \in Cross
    BY <2>2, CrossType
  <2>4. cross' \in [Tickers -> Cross]
    BY <1>1, <2>3 DEF SeedTrade
  <2> QED
    BY <1>1, <2>1, <2>4 DEF SeedTrade
<1>2. ASSUME SeedEnd PROVE TypeOK'
  BY <1>2 DEF SeedEnd
<1>3. ASSUME NEW s \in Tickers, NEW p \in Prices, NEW z \in Sizes, NEW t \in 0 .. MaxNow,
        CatchUpTrade(s, p, z, t) PROVE TypeOK'
  <2>1. tape' \in [Tickers -> Tape]
    BY <1>3, TradedType DEF CatchUpTrade, UpdateTape, RecordCross
  <2>2. t \in Int
    BY ClockAssumption
  <2>3. [saw |-> TRUE, time |-> t] \in Cross
    BY <2>2, CrossType
  <2>4. cross' \in [Tickers -> Cross]
    BY <1>3, <2>3 DEF CatchUpTrade, UpdateTape, RecordCross
  <2> QED
    BY <1>3, <2>1, <2>4 DEF CatchUpTrade, UpdateTape, RecordCross
<1>4. ASSUME CatchUpCancelled PROVE TypeOK'
  BY <1>4 DEF CatchUpCancelled
<1>5. ASSUME Connect PROVE TypeOK'
  BY <1>5 DEF Connect
<1>6. ASSUME WSFail PROVE TypeOK'
  BY <1>6 DEF WSFail
<1>7. ASSUME WSClosed PROVE TypeOK'
  BY <1>7 DEF WSClosed
<1>8. ASSUME NEW s \in Tickers, NEW p \in Prices, NEW z \in Sizes, NEW t \in 0 .. MaxNow,
        Receive(s, p, z, t) PROVE TypeOK'
  <2>1. tape' \in [Tickers -> Tape]
    BY <1>8, TradedType DEF Receive, UpdateTape
  <2>2. t \in Int /\ p \in Nat
    BY ClockAssumption, MarketAssumption
  <2>3. CrossUp(tape[s], p, z) \in BOOLEAN
    BY DEF CrossUp
  <2>4. cur' \in [sym : Tickers \cup {NoTicker}, price : Nat, time : Int,
                  pos : Position, up : BOOLEAN, saw : BOOLEAN, pass : BOOLEAN]
    BY <1>8, <2>2, <2>3, NoTradeType DEF Receive
  <2> QED
    BY <1>8, <2>1, <2>4 DEF Receive
<1>9. ASSUME NEW pass \in BOOLEAN, ReadBack(pass) PROVE TypeOK'
  <2>1. cur.sym \in Tickers /\ cur.time \in Int
    BY <1>9 DEF ReadBack, WorkInv
  <2>2. [saw |-> TRUE, time |-> cur.time] \in Cross
    BY <2>1, CrossType
  <2>3. cross' \in [Tickers -> Cross]
    BY <1>9, <2>2 DEF ReadBack, RecordCross
  <2>4. cross'[cur.sym].saw \in BOOLEAN
    BY <2>1, <2>3 DEF Cross
  <2>5. cur' \in [sym : Tickers \cup {NoTicker}, price : Nat, time : Int,
                  pos : Position, up : BOOLEAN, saw : BOOLEAN, pass : BOOLEAN]
    BY <1>9, <2>1, <2>4 DEF ReadBack
  <2> QED
    BY <1>9, <2>3, <2>5 DEF ReadBack
<1>10. ASSUME Enter PROVE TypeOK'
  <2>1. pos' \in [Tickers -> Position]
    BY <1>10, EnteredType DEF Enter
  <2> QED
    BY <1>10, <2>1 DEF Enter
<1>11. ASSUME TakeProfitOrStop PROVE TypeOK'
  <2>1. ExitReason \in Reasons
    BY <1>11, ExitReasonType DEF TakeProfitOrStop
  <2>2. pos' \in [Tickers -> Position]
    BY <1>11, <2>1, ClosedType DEF TakeProfitOrStop, ClosePosition
  <2> QED
    BY <1>11, <2>2 DEF TakeProfitOrStop
<1>12. ASSUME Ignore PROVE TypeOK'
  BY <1>12, NoTradeType DEF Ignore
<1>13. ASSUME Announce PROVE TypeOK'
  <2>1. cur.sym \in Tickers /\ (cur.pos.has => ExitReason \in Reasons)
    BY <1>13, ExitReasonType DEF Announce, WorkInv, CopyInv
  <2>2. [type |-> IF cur.pos.has THEN ExitReason ELSE "BUY", sym |-> cur.sym] \in Alert
    BY <2>1 DEF Alert
  <2> QED
    BY <1>13, <2>2, NoTradeType DEF Announce
<1>14. ASSUME TimerFires PROVE TypeOK'
  BY <1>14 DEF TimerFires
<1>15. ASSUME CloserCancelled PROVE TypeOK'
  BY <1>15 DEF CloserCancelled
<1>16. ASSUME AnnounceEleven PROVE TypeOK'
  BY <1>16 DEF AnnounceEleven, Alert
<1>17. ASSUME NEW s \in Tickers, ScanRead(s) PROVE TypeOK'
  <2>1. tape[s].last \in Nat
    BY DEF Tape
  <2> QED
    BY <1>17, <2>1 DEF ScanRead
<1>18. ASSUME ScanClose PROVE TypeOK'
  <2>1. ExitT \in Int /\ "TIME_EXIT" \in Reasons
    BY ClockAssumption DEF Reasons
  <2>2. pos' \in [Tickers -> Position]
    BY <1>18, <2>1, ClosedType DEF ScanClose, ClosePosition
  <2> QED
    BY <1>18, <2>2 DEF ScanClose
<1>19. ASSUME ScanTell PROVE TypeOK'
  <2>1. target.sym \in Tickers
    BY <1>19 DEF ScanTell, CopyInv
  <2>2. [type |-> "TIME_EXIT", sym |-> target.sym] \in Alert
    BY <2>1 DEF Alert, Reasons
  <2> QED
    BY <1>19, <2>2 DEF ScanTell, NoTarget
<1>20. ASSUME ScanEnd PROVE TypeOK'
  BY <1>20 DEF ScanEnd
<1>21. ASSUME Finish PROVE TypeOK'
  BY <1>21 DEF Finish
<1>22. ASSUME LoopCancelled PROVE TypeOK'
  BY <1>22 DEF LoopCancelled
<1>23. ASSUME Cancel PROVE TypeOK'
  BY <1>23 DEF Cancel
<1>24. ASSUME Tick PROVE TypeOK'
  BY <1>24 DEF Tick
<1>25. ASSUME UNCHANGED vars PROVE TypeOK'
  BY <1>25
<1> HIDE DEF TypeOK
<1> QED
  BY <1>1, <1>2, <1>3, <1>4, <1>5, <1>6, <1>7, <1>8, <1>9,
     <1>10, <1>11, <1>12, <1>13, <1>14, <1>15, <1>16, <1>17, <1>18,
     <1>19, <1>20, <1>21, <1>22, <1>23, <1>24, <1>25
  DEF Next, ProcessTrade, Closer

\* The closer runs beside a live loop, and past its timer only at ExitT.
LEMMA StageStep ==
  ASSUME TypeOK, StageInv, [Next]_vars
  PROVE  StageInv'
<1> USE ClockAssumption DEF StageInv, ClosedByTimer, TypeOK,
        tickerVars, loopVars, closerVars, envVars, vars
<1>1. ASSUME NEW s \in Tickers, NEW p \in Prices, NEW z \in Sizes, NEW t \in 0 .. MaxNow,
        SeedTrade(s, p, z, t) PROVE StageInv'
  BY <1>1 DEF SeedTrade
<1>2. ASSUME SeedEnd PROVE StageInv'
  BY <1>2 DEF SeedEnd
<1>3. ASSUME NEW s \in Tickers, NEW p \in Prices, NEW z \in Sizes, NEW t \in 0 .. MaxNow,
        CatchUpTrade(s, p, z, t) PROVE StageInv'
  BY <1>3 DEF CatchUpTrade, UpdateTape, RecordCross
<1>4. ASSUME CatchUpCancelled PROVE StageInv'
  BY <1>4 DEF CatchUpCancelled
<1>5. ASSUME Connect PROVE StageInv'
  BY <1>5 DEF Connect
<1>6. ASSUME WSFail PROVE StageInv'
  BY <1>6 DEF WSFail
<1>7. ASSUME WSClosed PROVE StageInv'
  BY <1>7 DEF WSClosed
<1>8. ASSUME NEW s \in Tickers, NEW p \in Prices, NEW z \in Sizes, NEW t \in 0 .. MaxNow,
        Receive(s, p, z, t) PROVE StageInv'
  BY <1>8 DEF Receive, UpdateTape
<1>9. ASSUME NEW pass \in BOOLEAN, ReadBack(pass) PROVE StageInv'
  BY <1>9 DEF ReadBack, RecordCross
<1>10. ASSUME Enter PROVE StageInv'
  BY <1>10 DEF Enter
<1>11. ASSUME TakeProfitOrStop PROVE StageInv'
  BY <1>11 DEF TakeProfitOrStop
<1>12. ASSUME Ignore PROVE StageInv'
  BY <1>12 DEF Ignore
<1>13. ASSUME Announce PROVE StageInv'
  BY <1>13 DEF Announce
<1>14. ASSUME TimerFires PROVE StageInv'
  BY <1>14 DEF TimerFires
<1>15. ASSUME CloserCancelled PROVE StageInv'
  BY <1>15 DEF CloserCancelled
<1>16. ASSUME AnnounceEleven PROVE StageInv'
  BY <1>16 DEF AnnounceEleven
<1>17. ASSUME NEW s \in Tickers, ScanRead(s) PROVE StageInv'
  BY <1>17 DEF ScanRead
<1>18. ASSUME ScanClose PROVE StageInv'
  BY <1>18 DEF ScanClose
<1>19. ASSUME ScanTell PROVE StageInv'
  BY <1>19 DEF ScanTell
<1>20. ASSUME ScanEnd PROVE StageInv'
  BY <1>20 DEF ScanEnd
<1>21. ASSUME Finish PROVE StageInv'
  BY <1>21 DEF Finish
<1>22. ASSUME LoopCancelled PROVE StageInv'
  BY <1>22 DEF LoopCancelled
<1>23. ASSUME Cancel PROVE StageInv'
  BY <1>23 DEF Cancel
<1>24. ASSUME Tick PROVE StageInv'
  BY <1>24 DEF Tick
<1>25. ASSUME UNCHANGED vars PROVE StageInv'
  BY <1>25
<1> HIDE DEF StageInv, ClosedByTimer, TypeOK
<1> QED
  BY <1>1, <1>2, <1>3, <1>4, <1>5, <1>6, <1>7, <1>8, <1>9,
     <1>10, <1>11, <1>12, <1>13, <1>14, <1>15, <1>16, <1>17, <1>18,
     <1>19, <1>20, <1>21, <1>22, <1>23, <1>24, <1>25
  DEF Next, ProcessTrade, Closer

\* The clock waits for the trade in work.
LEMMA WorkStep ==
  ASSUME TypeOK, StageInv, WorkInv, [Next]_vars
  PROVE  WorkInv'
<1> USE ClockAssumption DEF WorkInv, StageInv, TypeOK,
        tickerVars, loopVars, closerVars, envVars, vars
<1>1. ASSUME NEW s \in Tickers, NEW p \in Prices, NEW z \in Sizes, NEW t \in 0 .. MaxNow,
        SeedTrade(s, p, z, t) PROVE WorkInv'
  BY <1>1 DEF SeedTrade
<1>2. ASSUME SeedEnd PROVE WorkInv'
  BY <1>2 DEF SeedEnd
<1>3. ASSUME NEW s \in Tickers, NEW p \in Prices, NEW z \in Sizes, NEW t \in 0 .. MaxNow,
        CatchUpTrade(s, p, z, t) PROVE WorkInv'
  BY <1>3 DEF CatchUpTrade, UpdateTape, RecordCross
<1>4. ASSUME CatchUpCancelled PROVE WorkInv'
  BY <1>4 DEF CatchUpCancelled
<1>5. ASSUME Connect PROVE WorkInv'
  BY <1>5 DEF Connect
<1>6. ASSUME WSFail PROVE WorkInv'
  BY <1>6 DEF WSFail
<1>7. ASSUME WSClosed PROVE WorkInv'
  BY <1>7 DEF WSClosed
<1>8. ASSUME NEW s \in Tickers, NEW p \in Prices, NEW z \in Sizes, NEW t \in 0 .. MaxNow,
        Receive(s, p, z, t) PROVE WorkInv'
  BY <1>8 DEF Receive, UpdateTape
<1>9. ASSUME NEW pass \in BOOLEAN, ReadBack(pass) PROVE WorkInv'
  BY <1>9 DEF ReadBack, RecordCross
<1>10. ASSUME Enter PROVE WorkInv'
  BY <1>10 DEF Enter, MayEnter
<1>11. ASSUME TakeProfitOrStop PROVE WorkInv'
  BY <1>11 DEF TakeProfitOrStop, ExitReason
<1>12. ASSUME Ignore PROVE WorkInv'
  BY <1>12 DEF Ignore
<1>13. ASSUME Announce PROVE WorkInv'
  BY <1>13 DEF Announce
<1>14. ASSUME TimerFires PROVE WorkInv'
  BY <1>14 DEF TimerFires
<1>15. ASSUME CloserCancelled PROVE WorkInv'
  BY <1>15 DEF CloserCancelled
<1>16. ASSUME AnnounceEleven PROVE WorkInv'
  BY <1>16 DEF AnnounceEleven
<1>17. ASSUME NEW s \in Tickers, ScanRead(s) PROVE WorkInv'
  BY <1>17 DEF ScanRead
<1>18. ASSUME ScanClose PROVE WorkInv'
  BY <1>18 DEF ScanClose
<1>19. ASSUME ScanTell PROVE WorkInv'
  BY <1>19 DEF ScanTell
<1>20. ASSUME ScanEnd PROVE WorkInv'
  BY <1>20 DEF ScanEnd
<1>21. ASSUME Finish PROVE WorkInv'
  BY <1>21 DEF Finish
<1>22. ASSUME LoopCancelled PROVE WorkInv'
  BY <1>22 DEF LoopCancelled
<1>23. ASSUME Cancel PROVE WorkInv'
  BY <1>23 DEF Cancel
<1>24. ASSUME Tick PROVE WorkInv'
  BY <1>24 DEF Tick
<1>25. ASSUME UNCHANGED vars PROVE WorkInv'
  BY <1>25
<1> HIDE DEF WorkInv, StageInv, TypeOK
<1> QED
  BY <1>1, <1>2, <1>3, <1>4, <1>5, <1>6, <1>7, <1>8, <1>9,
     <1>10, <1>11, <1>12, <1>13, <1>14, <1>15, <1>16, <1>17, <1>18,
     <1>19, <1>20, <1>21, <1>22, <1>23, <1>24, <1>25
  DEF Next, ProcessTrade, Closer

\* Only the trade loop opens a position, so its copy is stale at most about
\* an exit.
LEMMA CopyStep ==
  ASSUME TypeOK, StageInv, WorkInv, CopyInv, [Next]_vars
  PROVE  CopyInv'
<1> USE DEF CopyInv, WorkInv, StageInv, TypeOK, Position, ExitReason,
        tickerVars, loopVars, closerVars, envVars, vars
<1>1. ASSUME NEW s \in Tickers, NEW p \in Prices, NEW z \in Sizes, NEW t \in 0 .. MaxNow,
        SeedTrade(s, p, z, t) PROVE CopyInv'
  BY <1>1 DEF SeedTrade
<1>2. ASSUME SeedEnd PROVE CopyInv'
  BY <1>2 DEF SeedEnd
<1>3. ASSUME NEW s \in Tickers, NEW p \in Prices, NEW z \in Sizes, NEW t \in 0 .. MaxNow,
        CatchUpTrade(s, p, z, t) PROVE CopyInv'
  BY <1>3 DEF CatchUpTrade, UpdateTape, RecordCross
<1>4. ASSUME CatchUpCancelled PROVE CopyInv'
  BY <1>4 DEF CatchUpCancelled
<1>5. ASSUME Connect PROVE CopyInv'
  BY <1>5 DEF Connect
<1>6. ASSUME WSFail PROVE CopyInv'
  BY <1>6 DEF WSFail
<1>7. ASSUME WSClosed PROVE CopyInv'
  BY <1>7 DEF WSClosed
<1>8. ASSUME NEW s \in Tickers, NEW p \in Prices, NEW z \in Sizes, NEW t \in 0 .. MaxNow,
        Receive(s, p, z, t) PROVE CopyInv'
  BY <1>8 DEF Receive, UpdateTape
<1>9. ASSUME NEW pass \in BOOLEAN, ReadBack(pass) PROVE CopyInv'
  BY <1>9 DEF ReadBack, RecordCross
<1>10. ASSUME Enter PROVE CopyInv'
  BY <1>10 DEF Enter, MayEnter
<1>11. ASSUME TakeProfitOrStop PROVE CopyInv'
  BY <1>11, SMTT(30) DEF TakeProfitOrStop, ClosePosition
<1>12. ASSUME Ignore PROVE CopyInv'
  BY <1>12 DEF Ignore
<1>13. ASSUME Announce PROVE CopyInv'
  BY <1>13 DEF Announce
<1>14. ASSUME TimerFires PROVE CopyInv'
  BY <1>14 DEF TimerFires
<1>15. ASSUME CloserCancelled PROVE CopyInv'
  BY <1>15 DEF CloserCancelled
<1>16. ASSUME AnnounceEleven PROVE CopyInv'
  BY <1>16 DEF AnnounceEleven
<1>17. ASSUME NEW s \in Tickers, ScanRead(s) PROVE CopyInv'
  <2>1. CASE Open(s)
    <3>1. target'.sym = s /\ closer' = "close" /\ pos' = pos /\ UNCHANGED <<cur, busy, stage>>
      BY <1>17, <2>1 DEF ScanRead
    <3>2. pos[s].has
      BY <2>1 DEF Open
    <3> QED
      BY <3>1, <3>2
  <2>2. CASE ~Open(s)
    BY <1>17, <2>2 DEF ScanRead
  <2> QED
    BY <2>1, <2>2
<1>18. ASSUME ScanClose PROVE CopyInv'
  BY <1>18, SMTT(30) DEF ScanClose, ClosePosition
<1>19. ASSUME ScanTell PROVE CopyInv'
  BY <1>19 DEF ScanTell
<1>20. ASSUME ScanEnd PROVE CopyInv'
  BY <1>20 DEF ScanEnd
<1>21. ASSUME Finish PROVE CopyInv'
  BY <1>21 DEF Finish
<1>22. ASSUME LoopCancelled PROVE CopyInv'
  BY <1>22 DEF LoopCancelled
<1>23. ASSUME Cancel PROVE CopyInv'
  BY <1>23 DEF Cancel
<1>24. ASSUME Tick PROVE CopyInv'
  BY <1>24 DEF Tick
<1>25. ASSUME UNCHANGED vars PROVE CopyInv'
  BY <1>25
<1> HIDE DEF CopyInv, WorkInv, StageInv, TypeOK, Position, ExitReason
<1> QED
  BY <1>1, <1>2, <1>3, <1>4, <1>5, <1>6, <1>7, <1>8, <1>9,
     <1>10, <1>11, <1>12, <1>13, <1>14, <1>15, <1>16, <1>17, <1>18,
     <1>19, <1>20, <1>21, <1>22, <1>23, <1>24, <1>25
  DEF Next, ProcessTrade, Closer

\* Once the timer has fired, no trade in work may enter any more.
LEMMA NoLateEntry ==
  ASSUME TypeOK, WorkInv, Enter
  PROVE  now < ExitT
<1>1. cur.time < CutoffT /\ now <= cur.time + MaxLag
  BY DEF Enter, MayEnter, WorkInv
<1> QED
  BY <1>1, ClockAssumption, LagAssumption DEF TypeOK

\* What was scanned stays closed.
LEMMA ScanStep ==
  ASSUME TypeOK, StageInv, WorkInv, CopyInv, ScanInv, [Next]_vars
  PROVE  ScanInv'
<1> USE DEF ScanInv, StageInv, ClosedByTimer, Open, TypeOK, Position,
        tickerVars, loopVars, closerVars, envVars, vars
<1>1. ASSUME NEW s \in Tickers, NEW p \in Prices, NEW z \in Sizes, NEW t \in 0 .. MaxNow,
        SeedTrade(s, p, z, t) PROVE ScanInv'
  BY <1>1 DEF SeedTrade
<1>2. ASSUME SeedEnd PROVE ScanInv'
  BY <1>2 DEF SeedEnd
<1>3. ASSUME NEW s \in Tickers, NEW p \in Prices, NEW z \in Sizes, NEW t \in 0 .. MaxNow,
        CatchUpTrade(s, p, z, t) PROVE ScanInv'
  BY <1>3 DEF CatchUpTrade, UpdateTape, RecordCross
<1>4. ASSUME CatchUpCancelled PROVE ScanInv'
  BY <1>4 DEF CatchUpCancelled
<1>5. ASSUME Connect PROVE ScanInv'
  BY <1>5 DEF Connect
<1>6. ASSUME WSFail PROVE ScanInv'
  BY <1>6 DEF WSFail
<1>7. ASSUME WSClosed PROVE ScanInv'
  BY <1>7 DEF WSClosed
<1>8. ASSUME NEW s \in Tickers, NEW p \in Prices, NEW z \in Sizes, NEW t \in 0 .. MaxNow,
        Receive(s, p, z, t) PROVE ScanInv'
  BY <1>8 DEF Receive, UpdateTape
<1>9. ASSUME NEW pass \in BOOLEAN, ReadBack(pass) PROVE ScanInv'
  BY <1>9 DEF ReadBack, RecordCross
<1>10. ASSUME Enter PROVE ScanInv'
  <2>1. closer \notin {"say", "scan", "close", "tell"} /\ (closer = "end" => ctxDone)
    BY <1>10, NoLateEntry, ClockAssumption
  <2> QED
    BY <1>10, <2>1 DEF Enter
<1>11. ASSUME TakeProfitOrStop PROVE ScanInv'
  BY <1>11 DEF TakeProfitOrStop, ClosePosition, WorkInv
<1>12. ASSUME Ignore PROVE ScanInv'
  BY <1>12 DEF Ignore
<1>13. ASSUME Announce PROVE ScanInv'
  BY <1>13 DEF Announce
<1>14. ASSUME TimerFires PROVE ScanInv'
  BY <1>14 DEF TimerFires
<1>15. ASSUME CloserCancelled PROVE ScanInv'
  BY <1>15 DEF CloserCancelled
<1>16. ASSUME AnnounceEleven PROVE ScanInv'
  BY <1>16 DEF AnnounceEleven
<1>17. ASSUME NEW s \in Tickers, ScanRead(s) PROVE ScanInv'
  <2>1. /\ closer = "scan" /\ toScan' = toScan \ {s}
        /\ pos' = pos /\ ctxDone' = ctxDone
        /\ Open(s) => closer' = "close" /\ target'.sym = s
        /\ ~Open(s) => closer' = "scan"
    BY <1>17 DEF ScanRead
  <2>2. \A u \in Tickers \ toScan : ~Open(u)
    BY <2>1
  <2>3. \A u \in Tickers : Open(u)' <=> Open(u)
    BY <2>1
  <2> HIDE DEF Open, TypeOK, StageInv, ClosedByTimer, Position
  <2>4. CASE Open(s)
    BY <2>1, <2>2, <2>3, <2>4
  <2>5. CASE ~Open(s)
    BY <2>1, <2>2, <2>3, <2>5
  <2> QED
    BY <2>4, <2>5
<1>18. ASSUME ScanClose PROVE ScanInv'
  BY <1>18, SMTT(30) DEF ScanClose, ClosePosition, CopyInv
<1>19. ASSUME ScanTell PROVE ScanInv'
  BY <1>19 DEF ScanTell
<1>20. ASSUME ScanEnd PROVE ScanInv'
  BY <1>20 DEF ScanEnd
<1>21. ASSUME Finish PROVE ScanInv'
  BY <1>21 DEF Finish
<1>22. ASSUME LoopCancelled PROVE ScanInv'
  BY <1>22 DEF LoopCancelled
<1>23. ASSUME Cancel PROVE ScanInv'
  BY <1>23 DEF Cancel
<1>24. ASSUME Tick PROVE ScanInv'
  BY <1>24 DEF Tick
<1>25. ASSUME UNCHANGED vars PROVE ScanInv'
  BY <1>25
<1> HIDE DEF ScanInv, StageInv, ClosedByTimer, Open, TypeOK, Position
<1> QED
  BY <1>1, <1>2, <1>3, <1>4, <1>5, <1>6, <1>7, <1>8, <1>9,
     <1>10, <1>11, <1>12, <1>13, <1>14, <1>15, <1>16, <1>17, <1>18,
     <1>19, <1>20, <1>21, <1>22, <1>23, <1>24, <1>25
  DEF Next, ProcessTrade, Closer

\* A cross is recorded in its window, by the seed or by a trade.
LEMMA CrossStep ==
  ASSUME TypeOK, StageInv, WorkInv, CrossInv, [Next]_vars
  PROVE  CrossInv'
<1> USE ClockAssumption DEF CrossInv, WorkInv, StageInv, TypeOK, Cross,
        tickerVars, loopVars, closerVars, envVars, vars
<1>1. ASSUME NEW s \in Tickers, NEW p \in Prices, NEW z \in Sizes, NEW t \in 0 .. MaxNow,
        SeedTrade(s, p, z, t) PROVE CrossInv'
  BY <1>1 DEF SeedTrade
<1>2. ASSUME SeedEnd PROVE CrossInv'
  BY <1>2 DEF SeedEnd
<1>3. ASSUME NEW s \in Tickers, NEW p \in Prices, NEW z \in Sizes, NEW t \in 0 .. MaxNow,
        CatchUpTrade(s, p, z, t) PROVE CrossInv'
  BY <1>3 DEF CatchUpTrade, UpdateTape, RecordCross
<1>4. ASSUME CatchUpCancelled PROVE CrossInv'
  BY <1>4 DEF CatchUpCancelled
<1>5. ASSUME Connect PROVE CrossInv'
  BY <1>5 DEF Connect
<1>6. ASSUME WSFail PROVE CrossInv'
  BY <1>6 DEF WSFail
<1>7. ASSUME WSClosed PROVE CrossInv'
  BY <1>7 DEF WSClosed
<1>8. ASSUME NEW s \in Tickers, NEW p \in Prices, NEW z \in Sizes, NEW t \in 0 .. MaxNow,
        Receive(s, p, z, t) PROVE CrossInv'
  BY <1>8 DEF Receive, UpdateTape
<1>9. ASSUME NEW pass \in BOOLEAN, ReadBack(pass) PROVE CrossInv'
  BY <1>9 DEF ReadBack, RecordCross
<1>10. ASSUME Enter PROVE CrossInv'
  BY <1>10 DEF Enter
<1>11. ASSUME TakeProfitOrStop PROVE CrossInv'
  BY <1>11 DEF TakeProfitOrStop
<1>12. ASSUME Ignore PROVE CrossInv'
  BY <1>12 DEF Ignore
<1>13. ASSUME Announce PROVE CrossInv'
  BY <1>13 DEF Announce
<1>14. ASSUME TimerFires PROVE CrossInv'
  BY <1>14 DEF TimerFires
<1>15. ASSUME CloserCancelled PROVE CrossInv'
  BY <1>15 DEF CloserCancelled
<1>16. ASSUME AnnounceEleven PROVE CrossInv'
  BY <1>16 DEF AnnounceEleven
<1>17. ASSUME NEW s \in Tickers, ScanRead(s) PROVE CrossInv'
  BY <1>17 DEF ScanRead
<1>18. ASSUME ScanClose PROVE CrossInv'
  BY <1>18 DEF ScanClose
<1>19. ASSUME ScanTell PROVE CrossInv'
  BY <1>19 DEF ScanTell
<1>20. ASSUME ScanEnd PROVE CrossInv'
  BY <1>20 DEF ScanEnd
<1>21. ASSUME Finish PROVE CrossInv'
  BY <1>21 DEF Finish
<1>22. ASSUME LoopCancelled PROVE CrossInv'
  BY <1>22 DEF LoopCancelled
<1>23. ASSUME Cancel PROVE CrossInv'
  BY <1>23 DEF Cancel
<1>24. ASSUME Tick PROVE CrossInv'
  BY <1>24 DEF Tick
<1>25. ASSUME UNCHANGED vars PROVE CrossInv'
  BY <1>25
<1> HIDE DEF CrossInv, WorkInv, StageInv, TypeOK, Cross
<1> QED
  BY <1>1, <1>2, <1>3, <1>4, <1>5, <1>6, <1>7, <1>8, <1>9,
     <1>10, <1>11, <1>12, <1>13, <1>14, <1>15, <1>16, <1>17, <1>18,
     <1>19, <1>20, <1>21, <1>22, <1>23, <1>24, <1>25
  DEF Next, ProcessTrade, Closer

\* An entry lies in the entry window and follows a cross.
LEMMA EntryStep ==
  ASSUME TypeOK, WorkInv, CrossInv, EntryContract, [Next]_vars
  PROVE  EntryContract'
<1> USE ClockAssumption DEF EntryContract, CrossInv, TypeOK, Cross, Position,
        tickerVars, loopVars, closerVars, envVars, vars
<1>1. ASSUME NEW s \in Tickers, NEW p \in Prices, NEW z \in Sizes, NEW t \in 0 .. MaxNow,
        SeedTrade(s, p, z, t) PROVE EntryContract'
  BY <1>1 DEF SeedTrade
<1>2. ASSUME SeedEnd PROVE EntryContract'
  BY <1>2 DEF SeedEnd
<1>3. ASSUME NEW s \in Tickers, NEW p \in Prices, NEW z \in Sizes, NEW t \in 0 .. MaxNow,
        CatchUpTrade(s, p, z, t) PROVE EntryContract'
  BY <1>3 DEF CatchUpTrade, UpdateTape, RecordCross
<1>4. ASSUME CatchUpCancelled PROVE EntryContract'
  BY <1>4 DEF CatchUpCancelled
<1>5. ASSUME Connect PROVE EntryContract'
  BY <1>5 DEF Connect
<1>6. ASSUME WSFail PROVE EntryContract'
  BY <1>6 DEF WSFail
<1>7. ASSUME WSClosed PROVE EntryContract'
  BY <1>7 DEF WSClosed
<1>8. ASSUME NEW s \in Tickers, NEW p \in Prices, NEW z \in Sizes, NEW t \in 0 .. MaxNow,
        Receive(s, p, z, t) PROVE EntryContract'
  BY <1>8 DEF Receive, UpdateTape
<1>9. ASSUME NEW pass \in BOOLEAN, ReadBack(pass) PROVE EntryContract'
  BY <1>9 DEF ReadBack, RecordCross
<1>10. ASSUME Enter PROVE EntryContract'
  BY <1>10 DEF Enter, MayEnter, WorkInv
<1>11. ASSUME TakeProfitOrStop PROVE EntryContract'
  BY <1>11 DEF TakeProfitOrStop, ClosePosition
<1>12. ASSUME Ignore PROVE EntryContract'
  BY <1>12 DEF Ignore
<1>13. ASSUME Announce PROVE EntryContract'
  BY <1>13 DEF Announce
<1>14. ASSUME TimerFires PROVE EntryContract'
  BY <1>14 DEF TimerFires
<1>15. ASSUME CloserCancelled PROVE EntryContract'
  BY <1>15 DEF CloserCancelled
<1>16. ASSUME AnnounceEleven PROVE EntryContract'
  BY <1>16 DEF AnnounceEleven
<1>17. ASSUME NEW s \in Tickers, ScanRead(s) PROVE EntryContract'
  BY <1>17 DEF ScanRead
<1>18. ASSUME ScanClose PROVE EntryContract'
  BY <1>18 DEF ScanClose, ClosePosition
<1>19. ASSUME ScanTell PROVE EntryContract'
  BY <1>19 DEF ScanTell
<1>20. ASSUME ScanEnd PROVE EntryContract'
  BY <1>20 DEF ScanEnd
<1>21. ASSUME Finish PROVE EntryContract'
  BY <1>21 DEF Finish
<1>22. ASSUME LoopCancelled PROVE EntryContract'
  BY <1>22 DEF LoopCancelled
<1>23. ASSUME Cancel PROVE EntryContract'
  BY <1>23 DEF Cancel
<1>24. ASSUME Tick PROVE EntryContract'
  BY <1>24 DEF Tick
<1>25. ASSUME UNCHANGED vars PROVE EntryContract'
  BY <1>25
<1> HIDE DEF EntryContract, CrossInv, TypeOK, Cross, Position
<1> QED
  BY <1>1, <1>2, <1>3, <1>4, <1>5, <1>6, <1>7, <1>8, <1>9,
     <1>10, <1>11, <1>12, <1>13, <1>14, <1>15, <1>16, <1>17, <1>18,
     <1>19, <1>20, <1>21, <1>22, <1>23, <1>24, <1>25
  DEF Next, ProcessTrade, Closer

\* The entry price is itself between stop and target, as both percentages are
\* positive (config.go:133-138).
LEMMA EntryInside ==
  ASSUME NEW e \in Nat, e > 0
  PROVE  ~HitsTarget(e, e) /\ ~HitsStop(e, e)
<1>1. ~HitsTarget(e, e)
  <2>1. e * TpPct > 0
    BY RiskAssumption
  <2>2. e * (Den + TpPct) = e * Den + e * TpPct
    BY RiskAssumption
  <2> QED
    BY <2>1, <2>2, RiskAssumption DEF HitsTarget
<1>2. ~HitsStop(e, e)
  <2>1. e * SlPct > 0
    BY RiskAssumption
  <2>2. e * (Den - SlPct) = e * Den - e * SlPct
    BY RiskAssumption
  <2> QED
    BY <2>1, <2>2, RiskAssumption DEF HitsStop
<1> QED
  BY <1>1, <1>2

\* The trade in work decides on the last price of its ticker.
LEMMA PriceStep ==
  ASSUME TypeOK, StageInv, WorkInv, CopyInv, PriceInv, [Next]_vars
  PROVE  PriceInv'
<1> USE DEF PriceInv, StageInv, WorkInv, CopyInv, Open, TypeOK,
        tickerVars, loopVars, closerVars, envVars, vars
<1>1. ASSUME NEW s \in Tickers, NEW p \in Prices, NEW z \in Sizes, NEW t \in 0 .. MaxNow,
        SeedTrade(s, p, z, t) PROVE PriceInv'
  BY <1>1 DEF SeedTrade, Traded
<1>2. ASSUME SeedEnd PROVE PriceInv'
  BY <1>2 DEF SeedEnd
<1>3. ASSUME NEW s \in Tickers, NEW p \in Prices, NEW z \in Sizes, NEW t \in 0 .. MaxNow,
        CatchUpTrade(s, p, z, t) PROVE PriceInv'
  BY <1>3 DEF CatchUpTrade, UpdateTape, RecordCross, Traded
<1>4. ASSUME CatchUpCancelled PROVE PriceInv'
  BY <1>4 DEF CatchUpCancelled
<1>5. ASSUME Connect PROVE PriceInv'
  BY <1>5 DEF Connect
<1>6. ASSUME WSFail PROVE PriceInv'
  BY <1>6 DEF WSFail
<1>7. ASSUME WSClosed PROVE PriceInv'
  BY <1>7 DEF WSClosed
<1>8. ASSUME NEW s \in Tickers, NEW p \in Prices, NEW z \in Sizes, NEW t \in 0 .. MaxNow,
        Receive(s, p, z, t) PROVE PriceInv'
  <2>1. p > 0 /\ tape'[s].last = p
    BY <1>8, MarketAssumption DEF Receive, UpdateTape, Traded
  <2> QED
    BY <1>8, <2>1 DEF Receive, UpdateTape
<1>9. ASSUME NEW pass \in BOOLEAN, ReadBack(pass) PROVE PriceInv'
  BY <1>9 DEF ReadBack, RecordCross
<1>10. ASSUME Enter PROVE PriceInv'
  <2>1. ~HitsTarget(cur.price, cur.price) /\ ~HitsStop(cur.price, cur.price)
    BY <1>10, EntryInside DEF Enter
  <2>2. cur.sym \in Tickers /\ tape[cur.sym].last = cur.price
    BY <1>10 DEF Enter
  <2>3. pos'[cur.sym].entry = cur.price
        /\ \A s \in Tickers \ {cur.sym} : pos'[s] = pos[s]
    BY <1>10, <2>2 DEF Enter, Position
  <2> QED
    BY <1>10, <2>1, <2>2, <2>3 DEF Enter
<1>11. ASSUME TakeProfitOrStop PROVE PriceInv'
  <2>1. cur.sym \in Tickers
    BY <1>11 DEF TakeProfitOrStop
  <2>2. pos'[cur.sym].exited /\ \A s \in Tickers \ {cur.sym} : pos'[s] = pos[s]
    BY <1>11, <2>1 DEF TakeProfitOrStop, ClosePosition, Position
  <2> QED
    BY <1>11, <2>1, <2>2 DEF TakeProfitOrStop
<1>12. ASSUME Ignore PROVE PriceInv'
  <2>1. Open(cur.sym) =>
          ~HitsTarget(cur.price, cur.pos.entry) /\ ~HitsStop(cur.price, cur.pos.entry)
    BY <1>12 DEF Ignore, ExitReason
  <2> QED
    BY <1>12, <2>1 DEF Ignore
<1>13. ASSUME Announce PROVE PriceInv'
  BY <1>13 DEF Announce
<1>14. ASSUME TimerFires PROVE PriceInv'
  BY <1>14 DEF TimerFires
<1>15. ASSUME CloserCancelled PROVE PriceInv'
  BY <1>15 DEF CloserCancelled
<1>16. ASSUME AnnounceEleven PROVE PriceInv'
  BY <1>16 DEF AnnounceEleven
<1>17. ASSUME NEW s \in Tickers, ScanRead(s) PROVE PriceInv'
  BY <1>17 DEF ScanRead
<1>18. ASSUME ScanClose PROVE PriceInv'
  <2>1. target.sym \in Tickers
    BY <1>18 DEF ScanClose
  <2>2. pos'[target.sym].exited /\ \A s \in Tickers \ {target.sym} : pos'[s] = pos[s]
    BY <1>18, <2>1 DEF ScanClose, ClosePosition, Position
  <2> QED
    BY <1>18, <2>1, <2>2 DEF ScanClose
<1>19. ASSUME ScanTell PROVE PriceInv'
  BY <1>19 DEF ScanTell
<1>20. ASSUME ScanEnd PROVE PriceInv'
  BY <1>20 DEF ScanEnd
<1>21. ASSUME Finish PROVE PriceInv'
  BY <1>21 DEF Finish
<1>22. ASSUME LoopCancelled PROVE PriceInv'
  BY <1>22 DEF LoopCancelled
<1>23. ASSUME Cancel PROVE PriceInv'
  BY <1>23 DEF Cancel
<1>24. ASSUME Tick PROVE PriceInv'
  BY <1>24 DEF Tick
<1>25. ASSUME UNCHANGED vars PROVE PriceInv'
  BY <1>25
<1> HIDE DEF PriceInv, StageInv, WorkInv, CopyInv, Open, TypeOK
<1> QED
  BY <1>1, <1>2, <1>3, <1>4, <1>5, <1>6, <1>7, <1>8, <1>9,
     <1>10, <1>11, <1>12, <1>13, <1>14, <1>15, <1>16, <1>17, <1>18,
     <1>19, <1>20, <1>21, <1>22, <1>23, <1>24, <1>25
  DEF Next, ProcessTrade, Closer

\* What has been heard stays heard, and an exit may be announced after its BUY.
LEMMA AlertAdded ==
  ASSUME NEW a \in Alert, alerts \in Seq(Alert), alerts' = Append(alerts, a)
  PROVE  /\ \A s : Heard(s) => Heard(s)'
         /\ \A s : a = [type |-> "BUY", sym |-> s] => Heard(s)'
         /\ BuyHeardFirst /\ (a.type \in Reasons => Heard(a.sym)) => BuyHeardFirst'
<1>1. /\ Len(alerts) \in Nat /\ Len(alerts') = Len(alerts) + 1
      /\ \A i \in 1 .. Len(alerts) : alerts'[i] = alerts[i]
      /\ alerts'[Len(alerts) + 1] = a
  OBVIOUS
<1>2. \A s : Heard(s) => Heard(s)'
  BY <1>1 DEF Heard
<1>3. \A s : a = [type |-> "BUY", sym |-> s] => Heard(s)'
  BY <1>1 DEF Heard
<1>4. ASSUME BuyHeardFirst, a.type \in Reasons => Heard(a.sym) PROVE BuyHeardFirst'
  <2> SUFFICES ASSUME NEW i \in 1 .. Len(alerts'), alerts'[i].type \in Reasons
               PROVE  \E j \in 1 .. i - 1 :
                        alerts'[j] = [type |-> "BUY", sym |-> alerts'[i].sym]
    BY DEF BuyHeardFirst
  <2>1. CASE i \in 1 .. Len(alerts)
    <3>1. PICK j \in 1 .. i - 1 : alerts[j] = [type |-> "BUY", sym |-> alerts[i].sym]
      BY <1>1, <1>4, <2>1 DEF BuyHeardFirst
    <3>2. alerts'[j] = alerts[j] /\ alerts'[i] = alerts[i]
      BY <1>1, <2>1
    <3>3. alerts'[j] = [type |-> "BUY", sym |-> alerts'[i].sym]
      BY <3>1, <3>2
    <3> QED
      BY <3>3
  <2>2. CASE i = Len(alerts) + 1
    <3>1. PICK j \in 1 .. Len(alerts) : alerts[j] = [type |-> "BUY", sym |-> a.sym]
      BY <1>1, <1>4, <2>2 DEF Heard
    <3> QED
      BY <1>1, <2>2, <3>1
  <2> QED
    BY <1>1, <2>1, <2>2
<1> QED
  BY <1>2, <1>3, <1>4

\* The loop announces a BUY before it takes the next trade, and the closer
\* finds no position whose BUY is still to come.
LEMMA HeardStep ==
  ASSUME TypeOK, StageInv, WorkInv, CopyInv, HeardInv, BuyHeardFirst, [Next]_vars
  PROVE  HeardInv' /\ BuyHeardFirst'
<1> DEFINE Goal == HeardInv /\ BuyHeardFirst
<1> USE DEF HeardInv, StageInv, ClosedByTimer, WorkInv, CopyInv, TypeOK,
        tickerVars, loopVars, closerVars, envVars, vars
<1>1. ASSUME NEW s \in Tickers, NEW p \in Prices, NEW z \in Sizes, NEW t \in 0 .. MaxNow,
        SeedTrade(s, p, z, t) PROVE Goal'
  BY <1>1 DEF SeedTrade, Heard, BuyHeardFirst
<1>2. ASSUME SeedEnd PROVE Goal'
  BY <1>2 DEF SeedEnd, Heard, BuyHeardFirst
<1>3. ASSUME NEW s \in Tickers, NEW p \in Prices, NEW z \in Sizes, NEW t \in 0 .. MaxNow,
        CatchUpTrade(s, p, z, t) PROVE Goal'
  BY <1>3 DEF CatchUpTrade, UpdateTape, RecordCross, Heard, BuyHeardFirst
<1>4. ASSUME CatchUpCancelled PROVE Goal'
  BY <1>4 DEF CatchUpCancelled, Heard, BuyHeardFirst
<1>5. ASSUME Connect PROVE Goal'
  BY <1>5 DEF Connect, Heard, BuyHeardFirst
<1>6. ASSUME WSFail PROVE Goal'
  BY <1>6 DEF WSFail, Heard, BuyHeardFirst
<1>7. ASSUME WSClosed PROVE Goal'
  BY <1>7 DEF WSClosed, Heard, BuyHeardFirst
<1>8. ASSUME NEW s \in Tickers, NEW p \in Prices, NEW z \in Sizes, NEW t \in 0 .. MaxNow,
        Receive(s, p, z, t) PROVE Goal'
  BY <1>8 DEF Receive, UpdateTape, Heard, BuyHeardFirst
<1>9. ASSUME NEW pass \in BOOLEAN, ReadBack(pass) PROVE Goal'
  <2>1. /\ busy = "read" /\ busy' = "decide"
        /\ UNCHANGED <<pos, closer, target, alerts>>
    BY <1>9 DEF ReadBack
  <2>2. (\A s : Heard(s)' = Heard(s)) /\ BuyHeardFirst'
    BY <2>1 DEF Heard, BuyHeardFirst
  <2> QED
    BY <2>1, <2>2
<1>10. ASSUME Enter PROVE Goal'
  BY <1>10 DEF Enter, MayEnter, Position, Heard, BuyHeardFirst
<1>11. ASSUME TakeProfitOrStop PROVE Goal'
  <2>1. /\ busy = "decide" /\ busy' = "tell"
        /\ UNCHANGED <<cur, closer, target, alerts>>
    BY <1>11 DEF TakeProfitOrStop
  <2>2. \A s \in Tickers : pos'[s].has = pos[s].has
    BY <1>11 DEF TakeProfitOrStop, ClosePosition, Position
  <2>3. cur.pos.has /\ cur.sym \in Tickers
    BY <1>11, <2>1 DEF TakeProfitOrStop, ExitReason
  <2>4. \A s \in Tickers : pos[s].has => Heard(s)
    BY <2>1
  <2>5. Heard(cur.sym)
    BY <2>1, <2>3, <2>4
  <2>6. \A r : Heard(r)' = Heard(r)
    BY <2>1 DEF Heard
  <2>7. BuyHeardFirst'
    BY <2>1 DEF BuyHeardFirst
  <2> HIDE DEF TypeOK, StageInv, WorkInv, CopyInv, ClosedByTimer
  <2>8. HeardInv'
    <3>1. Heard(cur.sym)'
      BY <2>1, <2>5 DEF Heard
    <3>2. \A s \in Tickers : pos'[s].has => Heard(s)'
      BY <2>2, <2>4, <2>6
    <3>3. closer' \in {"close", "tell"} => Heard(target.sym)'
      BY <2>1 DEF Heard
    <3> QED
      BY <2>1, <3>1, <3>2, <3>3
  <2> QED
    BY <2>7, <2>8
<1>12. ASSUME Ignore PROVE Goal'
  BY <1>12 DEF Ignore, Heard, BuyHeardFirst
<1>13. ASSUME Announce PROVE Goal'
  <2> DEFINE a == [type |-> IF cur.pos.has THEN ExitReason ELSE "BUY", sym |-> cur.sym]
  <2>1. a \in Alert /\ alerts' = Append(alerts, a)
    BY <1>13, ExitReasonType DEF Announce, Alert
  <2>2. a.type \in Reasons => Heard(a.sym)
    BY <1>13 DEF Announce, Reasons
  <2>3. BuyHeardFirst'
    BY <2>1, <2>2, AlertAdded
  <2>4. \A s : Heard(s) => Heard(s)'
    BY <2>1, AlertAdded
  <2>5. ASSUME NEW s \in Tickers, ~cur.pos.has, cur.sym = s PROVE Heard(s)'
    <3>1. a = [type |-> "BUY", sym |-> s]
      BY <2>5
    <3> QED
      BY <2>1, <3>1, AlertAdded
  <2>6. /\ busy = "tell" /\ busy' = "idle"
        /\ UNCHANGED <<pos, closer, target>>
    BY <1>13 DEF Announce
  <2>7. ASSUME NEW s \in Tickers, pos[s].has PROVE Heard(s)'
    <3>1. CASE Heard(s)
      BY <3>1, <2>4
    <3>2. CASE ~cur.pos.has /\ cur.sym = s
      BY <3>2, <2>5
    <3> QED
      BY <2>7, <3>1, <3>2
  <2>8. closer \in {"close", "tell"} => Heard(target.sym)
    OBVIOUS
  <2> HIDE DEF TypeOK, StageInv, WorkInv, CopyInv, ClosedByTimer
  <2>9. HeardInv'
    BY <2>4, <2>6, <2>7, <2>8 DEF Heard
  <2> QED
    BY <2>3, <2>9
<1>14. ASSUME TimerFires PROVE Goal'
  BY <1>14 DEF TimerFires, Heard, BuyHeardFirst
<1>15. ASSUME CloserCancelled PROVE Goal'
  BY <1>15 DEF CloserCancelled, Heard, BuyHeardFirst
<1>16. ASSUME AnnounceEleven PROVE Goal'
  <2> DEFINE a == [type |-> "11AM", sym |-> NoTicker]
  <2>1. a \in Alert /\ alerts' = Append(alerts, a) /\ a.type \notin Reasons
    BY <1>16 DEF AnnounceEleven, Alert, Reasons
  <2>2. BuyHeardFirst' /\ \A s : Heard(s) => Heard(s)'
    BY <2>1, AlertAdded
  <2> QED
    BY <1>16, <2>2 DEF AnnounceEleven
<1>17. ASSUME NEW s \in Tickers, ScanRead(s) PROVE Goal'
  <2>1. Open(s) => Heard(s)
    BY <1>17, ClockAssumption, LagAssumption DEF ScanRead, Open
  <2>2. UNCHANGED <<pos, busy, cur, alerts>>
    BY <1>17 DEF ScanRead
  <2>3. (\A r : Heard(r)' = Heard(r)) /\ BuyHeardFirst'
    BY <2>2 DEF Heard, BuyHeardFirst
  <2>4. CASE Open(s)
    BY <1>17, <2>1, <2>2, <2>3, <2>4 DEF ScanRead
  <2>5. CASE ~Open(s)
    BY <1>17, <2>2, <2>3, <2>5 DEF ScanRead
  <2> QED
    BY <2>4, <2>5
<1>18. ASSUME ScanClose PROVE Goal'
  <2>1. \A s \in Tickers : pos'[s].has = pos[s].has
    BY <1>18, SMTT(30) DEF ScanClose, ClosePosition, Position
  <2>2. (\A s : Heard(s)' = Heard(s)) /\ BuyHeardFirst'
    BY <1>18 DEF ScanClose, Heard, BuyHeardFirst
  <2> QED
    BY <1>18, <2>1, <2>2 DEF ScanClose
<1>19. ASSUME ScanTell PROVE Goal'
  <2> DEFINE a == [type |-> "TIME_EXIT", sym |-> target.sym]
  <2>1. a \in Alert /\ alerts' = Append(alerts, a) /\ Heard(a.sym)
    BY <1>19 DEF ScanTell, Alert, Reasons
  <2>2. BuyHeardFirst' /\ \A s : Heard(s) => Heard(s)'
    BY <2>1, AlertAdded
  <2> QED
    BY <1>19, <2>2 DEF ScanTell
<1>20. ASSUME ScanEnd PROVE Goal'
  BY <1>20 DEF ScanEnd, Heard, BuyHeardFirst
<1>21. ASSUME Finish PROVE Goal'
  BY <1>21 DEF Finish, Heard, BuyHeardFirst
<1>22. ASSUME LoopCancelled PROVE Goal'
  BY <1>22 DEF LoopCancelled, Heard, BuyHeardFirst
<1>23. ASSUME Cancel PROVE Goal'
  BY <1>23 DEF Cancel, Heard, BuyHeardFirst
<1>24. ASSUME Tick PROVE Goal'
  BY <1>24 DEF Tick, Heard, BuyHeardFirst
<1>25. ASSUME UNCHANGED vars PROVE Goal'
  BY <1>25 DEF Heard, BuyHeardFirst
<1> HIDE DEF HeardInv, StageInv, ClosedByTimer, WorkInv, CopyInv, TypeOK
<1> QED
  BY <1>1, <1>2, <1>3, <1>4, <1>5, <1>6, <1>7, <1>8, <1>9,
     <1>10, <1>11, <1>12, <1>13, <1>14, <1>15, <1>16, <1>17, <1>18,
     <1>19, <1>20, <1>21, <1>22, <1>23, <1>24, <1>25
  DEF Next, ProcessTrade, Closer

LEMMA NextInv == IInv /\ [Next]_vars => IInv'
BY TypeStep, StageStep, WorkStep, CopyStep, ScanStep, CrossStep, EntryStep,
   PriceStep, HeardStep DEF IInv

LEMMA Invariance == Spec => []IInv
BY InitInv, NextInv, PTL DEF Spec

-----------------------------------------------------------------------------
(* The theorems. *)

\* The store's tickers, the trade in work and the alerts keep their types.
THEOREM TypeCorrect == Spec => []TypeOK
BY Invariance, PTL DEF IInv

\* "close any open positions at time exit" (engine.go:715): a session closed by
\* its timer is flat, for any tickers, prices and order of the two goroutines.
THEOREM SessionEndsFlat == Spec => []ClosedMeansFlat
<1>1. IInv => ClosedMeansFlat
  BY DEF IInv, StageInv, ScanInv, ClosedMeansFlat
<1> QED
  BY <1>1, Invariance, PTL

\* Every entry lies in the entry window and follows a cross recorded in the
\* cross window, whichever of seed, catch-up and live recorded it.
THEOREM EntriesAreInWindow == Spec => []EntryContract
BY Invariance, PTL DEF IInv

\* No open position is left beyond its stop or its target between two trades.
THEOREM ExitsAreTaken == Spec => []NoMissedExit
<1>1. IInv => NoMissedExit
  BY DEF IInv, PriceInv, NoMissedExit
<1> QED
  BY <1>1, Invariance, PTL

\* No exit is announced before the BUY of its position.
THEOREM BuyComesFirst == Spec => []BuyHeardFirst
BY Invariance, PTL DEF IInv

\* A position is entered once: neither goroutine reopens, forgets or moves it.
THEOREM EnteredOnce == Spec => OneEntryPerSession
<1> DEFINE Kept == \A s \in Tickers : pos[s].has =>
       /\ pos'[s].has
       /\ pos'[s].entry = pos[s].entry /\ pos'[s].entryTime = pos[s].entryTime
       /\ pos[s].exited => pos'[s].exited
<1>1. ASSUME IInv, [Next]_vars PROVE Kept
  <2>1. CASE Enter
    <3>1. cur.sym \in Tickers /\ ~pos[cur.sym].has
      BY <1>1, <2>1 DEF IInv, WorkInv, CopyInv, Enter, MayEnter
    <3> QED
      BY <1>1, <2>1, <3>1 DEF IInv, TypeOK, Position, Enter
  <2>2. CASE TakeProfitOrStop
    BY <1>1, <2>2 DEF IInv, TypeOK, Position, TakeProfitOrStop, ClosePosition
  <2>3. CASE ScanClose
    BY <1>1, <2>3 DEF IInv, TypeOK, Position, ScanClose, ClosePosition
  <2>4. CASE UNCHANGED pos
    BY <2>4
  <2>5. ProcessTrade => Enter \/ TakeProfitOrStop \/ UNCHANGED pos
    BY DEF ProcessTrade, ReadBack, Ignore, Announce, tickerVars
  <2>6. Closer => ScanClose \/ UNCHANGED pos
    BY DEF Closer, TimerFires, CloserCancelled, AnnounceEleven, ScanRead, ScanTell,
       ScanEnd, tickerVars
  <2>7. ASSUME NEW s \in Tickers, NEW p \in Prices, NEW z \in Sizes, NEW t \in 0 .. MaxNow
        PROVE  SeedTrade(s, p, z, t) \/ CatchUpTrade(s, p, z, t) \/ Receive(s, p, z, t)
                 => UNCHANGED pos
    BY Zenon DEF SeedTrade, CatchUpTrade, Receive
  <2>8. SeedEnd \/ CatchUpCancelled \/ Connect \/ WSFail \/ WSClosed \/ Finish
          \/ LoopCancelled \/ Cancel \/ Tick => UNCHANGED pos
    BY DEF SeedEnd, CatchUpCancelled, Connect, WSFail, WSClosed, Finish, LoopCancelled,
       Cancel, Tick, tickerVars
  <2> QED
    BY <1>1, <2>1, <2>2, <2>3, <2>4, <2>5, <2>6, <2>7, <2>8
    DEF Next, vars, tickerVars
<1>2. IInv /\ [Next]_vars => [Kept]_vars
  BY <1>1
<1> QED
  BY <1>2, Invariance, PTL DEF Spec, OneEntryPerSession
=============================================================================
