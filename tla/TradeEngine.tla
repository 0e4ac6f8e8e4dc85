----------------------------- MODULE TradeEngine -----------------------------
(***************************************************************************)
(* The tracked phase of a live session (internal/engine/engine.go, and      *)
(* runHistoricLiveToday in historic.go): VWAP seeding, catch-up, and the two *)
(* goroutines that then share the store without any lock between their       *)
(* reads and writes:                                                        *)
(*                                                                         *)
(*   - the trade loop takes one trade at a time, updates the ticker, reads  *)
(*     it back, decides on that copy, opens or closes the position and      *)
(*     announces that;                                                      *)
(*   - the closer waits for 11:00, announces it, and closes what is open.   *)
(*                                                                         *)
(* A step is what the code does between two releases of the store's lock,   *)
(* and one that touches only what its own goroutine writes is taken together *)
(* with the step before it.                                                 *)
(* Prices, sizes and minutes are naturals.  The volume-weighted average     *)
(* price is kept as the pair (pv, vol) and compared by cross                *)
(* multiplication; percentages of Risk are numerators over Den.             *)
(***************************************************************************)
EXTENDS Integers, Sequences

CONSTANTS
  Tickers,     \* the tracked symbols
  NoTicker,    \* the symbol of the 11AM alert
  Prices, Sizes,
  OpenT, CrossDelay, SelT, CutoffT, ExitT,   \* openNY, 1 min, selNY, ...
  Grace,       \* minutes after ExitT in which trades still count
  MaxLag,      \* a trade is handled at most MaxLag minutes after its stamp
  TpPct, SlPct, Den,   \* Risk.TakeProfitPct and StopLossPct, over Den
  MaxVol,      \* bound: no more trades once a ticker's volume reaches it
  MaxNow       \* bound: the clock stops here

ASSUME NoTickerAssumption == NoTicker \notin Tickers
ASSUME MarketAssumption == Prices \subseteq Nat \ {0} /\ Sizes \subseteq Nat \ {0}
ASSUME ClockAssumption ==
  /\ OpenT \in Nat /\ CrossDelay \in Nat /\ SelT \in Nat /\ CutoffT \in Nat
  /\ ExitT \in Nat /\ Grace \in Nat /\ MaxLag \in Nat /\ MaxNow \in Nat
  /\ OpenT + CrossDelay <= SelT /\ SelT <= CutoffT
\* The feed's delay, the backlog and the speech (at most 15 s per alert) stay
\* below the distance between the entry cutoff and the time exit.
ASSUME LagAssumption == CutoffT + MaxLag <= ExitT
ASSUME RiskAssumption ==
  TpPct \in Nat \ {0} /\ SlPct \in Nat \ {0} /\ Den \in Nat \ {0}

CrossStart == OpenT + CrossDelay

Reasons == {"PROFIT", "STOP", "TIME_EXIT"}
Alert == [type : {"BUY"} \cup Reasons, sym : Tickers]
           \cup [type : {"11AM"}, sym : {NoTicker}]
\* store.TickerState: the tape part, written by the trade loop alone ...
Tape == [pv : Nat, vol : Nat, last : Nat]
Cross == [saw : BOOLEAN, time : Int]
\* ... and the position part, written by the loop and by the closer.
Position == [has : BOOLEAN, exited : BOOLEAN, entry : Nat, entryTime : Int,
             reason : {"none"} \cup Reasons, exit : Nat, exitTime : Int]

NewTape == [pv |-> 0, vol |-> 0, last |-> 0]
NewCross == [saw |-> FALSE, time |-> 0]
NewPosition == [has |-> FALSE, exited |-> FALSE, entry |-> 0, entryTime |-> 0,
                reason |-> "none", exit |-> 0, exitTime |-> 0]

VARIABLES
  mode,      \* "realtime" or "historic" (historic-live)
  now,       \* the wall clock, in minutes
  stage,     \* seed, catchup, live, stopped: where Run is
  tape, cross, pos,   \* the store's tickers
  phase,     \* the store's phase
  cur,       \* the trade in processTrade, with the copy read back
  busy,      \* idle, read, decide, tell: where the trade loop is
  closer,    \* off, wait, say, scan, close, tell, end: where the closer is
  toScan,    \* the symbols onElevenAM has still to look at
  target,    \* the open position it has read
  alerts,    \* the signal events, in the order emit added them
  ctxDone    \* the context of the run

vars == <<mode, now, stage, tape, cross, pos, phase, cur, busy, closer, toScan,
          target, alerts, ctxDone>>
tickerVars == <<tape, cross, pos>>
loopVars == <<stage, cur, busy>>
closerVars == <<closer, toScan, target>>
envVars == <<mode, now, ctxDone>>

NoTarget == [sym |-> NoTicker, price |-> 0]
NoTrade == [sym |-> NoTicker, price |-> 0, time |-> 0, up |-> FALSE,
            pos |-> NewPosition, saw |-> FALSE, pass |-> FALSE]

TypeOK ==
  /\ mode \in {"realtime", "historic"}
  /\ now \in Nat
  /\ stage \in {"seed", "catchup", "live", "stopped"}
  /\ tape \in [Tickers -> Tape]
  /\ cross \in [Tickers -> Cross]
  /\ pos \in [Tickers -> Position]
  /\ phase \in {"tracking_ticks", "closed"}
  /\ cur \in [sym : Tickers \cup {NoTicker}, price : Nat, time : Int,
              up : BOOLEAN, pos : Position, saw : BOOLEAN, pass : BOOLEAN]
  /\ busy \in {"idle", "read", "decide", "tell"}
  /\ closer \in {"off", "wait", "say", "scan", "close", "tell", "end"}
  /\ toScan \in SUBSET Tickers
  /\ target \in [sym : Tickers \cup {NoTicker}, price : Nat]
  /\ alerts \in Seq(Alert)
  /\ ctxDone \in BOOLEAN

Init ==
  /\ mode \in {"realtime", "historic"}
  /\ now = SelT
  /\ stage = "seed"
  /\ tape = [s \in Tickers |-> NewTape]
  /\ cross = [s \in Tickers |-> NewCross]
  /\ pos = [s \in Tickers |-> NewPosition]
  /\ phase = "tracking_ticks"
  /\ cur = NoTrade
  /\ busy = "idle"
  /\ closer = "off"
  /\ toScan = {}
  /\ target = NoTarget
  /\ alerts = <<>>
  /\ ctxDone = FALSE

-----------------------------------------------------------------------------
(* The arithmetic of processTrade and seedVWAPFromTrades                    *)

Traded(k, p, z) == [pv |-> k.pv + p * z, vol |-> k.vol + z, last |-> p]
AtOrAbove(p, k) == k.vol > 0 /\ p * k.vol >= k.pv
BelowVWAP(k) == k.vol > 0 /\ k.last * k.vol < k.pv

\* The previous trade was below the VWAP and this one is not.
CrossUp(k, p, z) == BelowVWAP(k) /\ AtOrAbove(p, Traded(k, p, z))

HitsTarget(p, entry) == p * Den >= entry * (Den + TpPct)
HitsStop(p, entry) == SlPct < Den /\ p * Den <= entry * (Den - SlPct)

Open(s) == pos[s].has /\ ~pos[s].exited

-----------------------------------------------------------------------------
(* buildTrackedStates: the REST trades of 09:30 to 09:35, on copies of the  *)
(* tickers that SetTrackedTickers publishes                                *)

SeedTrade(s, p, z, t) ==
  /\ stage = "seed"
  /\ tape[s].vol + z <= MaxVol
  /\ OpenT <= t /\ t < SelT
  /\ tape' = [tape EXCEPT ![s] = Traded(@, p, z)]
  /\ cross' = IF ~cross[s].saw /\ t >= CrossStart /\ CrossUp(tape[s], p, z)
                THEN [cross EXCEPT ![s] = [saw |-> TRUE, time |-> t]]
                ELSE cross
  /\ UNCHANGED <<pos, phase, loopVars, closerVars, envVars, alerts>>

\* Seeding ends with the last trade or on an error, which is only logged; a
\* realtime session then connects, a historic-live one catches up first.
SeedEnd ==
  /\ stage = "seed"
  /\ stage' = "catchup"
  /\ UNCHANGED <<tickerVars, phase, cur, busy, closerVars, envVars, alerts>>

-----------------------------------------------------------------------------
(* processTrade                                                             *)

\* Its first part: update the tape, with the previous price and VWAP in it.
UpdateTape(s, p, z, t) ==
  /\ tape[s].vol + z <= MaxVol
  /\ OpenT <= t /\ t <= ExitT + Grace
  /\ tape' = [tape EXCEPT ![s] = Traded(@, p, z)]

\* Variant: crosses count after the cutoff too.
RecordCross_NoCutoff(s, t, up) ==
  cross' = IF ~pos[s].has /\ ~pos[s].exited /\ ~cross[s].saw /\ CrossStart <= t /\ up
             THEN [cross EXCEPT ![s] = [saw |-> TRUE, time |-> t]]
             ELSE cross

\* With the ticker as it is read back: record a cross.
RecordCross(s, t, up) ==
  cross' = IF /\ ~pos[s].has /\ ~pos[s].exited /\ ~cross[s].saw
              /\ CrossStart <= t /\ t < CutoffT
              /\ up
             THEN [cross EXCEPT ![s] = [saw |-> TRUE, time |-> t]]
             ELSE cross

\* "Catch up trades ... but DO NOT open/close positions retroactively"
CatchUpTrade(s, p, z, t) ==
  /\ stage = "catchup"
  /\ mode = "historic"
  /\ ~ctxDone
  /\ SelT <= t /\ t <= now
  /\ UpdateTape(s, p, z, t)
  /\ RecordCross(s, t, CrossUp(tape[s], p, z))
  /\ UNCHANGED <<pos, phase, loopVars, closerVars, envVars, alerts>>

CatchUpCancelled ==
  /\ stage = "catchup"
  /\ mode = "historic"
  /\ ctxDone
  /\ stage' = "stopped"
  /\ UNCHANGED <<tickerVars, phase, cur, busy, closerVars, envVars, alerts>>

\* NewWS, Subscribe and Connect succeed; the closer starts.
Connect ==
  /\ stage = "catchup"
  /\ stage' = "live"
  /\ closer' = "wait"
  /\ UNCHANGED <<tickerVars, phase, cur, busy, toScan, target, envVars, alerts>>

\* A realtime session that fails brings the server down (main.go); a
\* historic-live one returns its error, and its context stays alive.
WSFail ==
  /\ \/ stage = "catchup"
     \/ stage = "live" /\ busy = "idle"
  /\ stage' = "stopped"
  /\ ctxDone' = (ctxDone \/ mode = "realtime")
  /\ UNCHANGED <<tickerVars, phase, cur, busy, closerVars, mode, now, alerts>>

\* Variant: a lost feed takes the closer down with the loop.
WSClosed_StopsCloser ==
  /\ stage = "live"
  /\ busy = "idle"
  /\ stage' = "stopped"
  /\ closer' = "end"
  /\ UNCHANGED <<tickerVars, phase, cur, busy, toScan, target, envVars, alerts>>

\* The feed's channels are closed: Run returns nil, in either mode.
WSClosed ==
  /\ stage = "live"
  /\ busy = "idle"
  /\ stage' = "stopped"
  /\ UNCHANGED <<tickerVars, phase, cur, busy, closerVars, envVars, alerts>>

\* A trade arrives, in any order within MaxLag.
Receive(s, p, z, t) ==
  /\ stage = "live"
  /\ busy = "idle"
  /\ now - MaxLag <= t /\ t <= now
  /\ UpdateTape(s, p, z, t)
  /\ busy' = "read"
  /\ cur' = [NoTrade EXCEPT !.sym = s, !.price = p, !.time = t,
                            !.up = CrossUp(tape[s], p, z)]
  /\ UNCHANGED <<cross, pos, stage, phase, closerVars, envVars, alerts>>

\* The closer may have come in between.  pass stands for the filters as they
\* are at this moment: the user may have changed them since the selection, so
\* every answer is possible.
ReadBack(pass) ==
  /\ busy = "read"
  /\ RecordCross(cur.sym, cur.time, cur.up)
  /\ busy' = "decide"
  /\ cur' = [cur EXCEPT !.pos = pos[cur.sym], !.saw = cross'[cur.sym].saw, !.pass = pass]
  /\ UNCHANGED <<tape, pos, stage, phase, closerVars, envVars, alerts>>

\* Variant: no entry cutoff.
MayEnter_NoCutoff ==
  /\ ~cur.pos.has /\ ~cur.pos.exited
  /\ SelT <= cur.time
  /\ cur.pass
  /\ cur.saw /\ AtOrAbove(cur.price, tape[cur.sym])

\* The entry rules, on the copy that was read back.
MayEnter ==
  /\ ~cur.pos.has /\ ~cur.pos.exited
  /\ SelT <= cur.time /\ cur.time < CutoffT
  /\ cur.pass
  /\ cur.saw /\ AtOrAbove(cur.price, tape[cur.sym])

\* openPosition's UpsertTicker
Enter ==
  /\ busy = "decide"
  /\ MayEnter
  /\ pos' = [pos EXCEPT ![cur.sym].has = TRUE,
                        ![cur.sym].entry = cur.price,
                        ![cur.sym].entryTime = cur.time]
  /\ busy' = "tell"
  /\ UNCHANGED <<tape, cross, phase, stage, cur, closerVars, envVars, alerts>>

\* Variant: the stop is not looked at.
ExitReason_NoStop ==
  IF ~cur.pos.has \/ cur.pos.exited THEN "none"
  ELSE IF HitsTarget(cur.price, cur.pos.entry) THEN "PROFIT"
  ELSE "none"

\* What the copy says of the position: "none" keeps it.
ExitReason ==
  IF ~cur.pos.has \/ cur.pos.exited THEN "none"
  ELSE IF HitsTarget(cur.price, cur.pos.entry) THEN "PROFIT"
  ELSE IF HitsStop(cur.price, cur.pos.entry) THEN "STOP"
  ELSE "none"

\* closePosition's UpsertTicker, whoever calls it
ClosePosition(s, reason, price, time) ==
  pos' = [pos EXCEPT ![s].exited = TRUE, ![s].reason = reason,
                     ![s].exit = price, ![s].exitTime = time]

TakeProfitOrStop ==
  /\ busy = "decide"
  /\ ExitReason # "none"
  /\ ClosePosition(cur.sym, ExitReason, cur.price, cur.time)
  /\ busy' = "tell"
  /\ UNCHANGED <<tape, cross, phase, stage, cur, closerVars, envVars, alerts>>

Ignore ==
  /\ busy = "decide"
  /\ ~MayEnter
  /\ ExitReason = "none"
  /\ busy' = "idle"
  /\ cur' = NoTrade
  /\ UNCHANGED <<tickerVars, phase, stage, closerVars, envVars, alerts>>

\* Variant: an entry is announced with the exit's reason.
Announce_Reason ==
  /\ busy = "tell"
  /\ alerts' = Append(alerts, [type |-> ExitReason, sym |-> cur.sym])
  /\ busy' = "idle"
  /\ cur' = NoTrade
  /\ UNCHANGED <<tickerVars, phase, stage, closerVars, envVars>>

\* say and emit: the alert of what was just decided.  emit is given the
\* decision, not the ticker, so a closer that came in between does not show.
Announce ==
  /\ busy = "tell"
  /\ alerts' = Append(alerts, [type |-> IF cur.pos.has THEN ExitReason ELSE "BUY",
                               sym |-> cur.sym])
  /\ busy' = "idle"
  /\ cur' = NoTrade
  /\ UNCHANGED <<tickerVars, phase, stage, closerVars, envVars>>

ProcessTrade ==
  \/ \E pass \in BOOLEAN : ReadBack(pass)
  \/ Enter \/ TakeProfitOrStop \/ Ignore \/ Announce

-----------------------------------------------------------------------------
(* The closer: the goroutine around onElevenAM(exitNY)                      *)

TimerFires ==
  /\ closer = "wait"
  /\ now >= ExitT
  /\ closer' = "say"
  /\ UNCHANGED <<tickerVars, phase, loopVars, toScan, target, envVars, alerts>>

\* <-ctx.Done(): the goroutine returns, and its deferred close(closed11am) runs.
CloserCancelled ==
  /\ closer = "wait"
  /\ ctxDone
  /\ closer' = "end"
  /\ UNCHANGED <<tickerVars, phase, loopVars, toScan, target, envVars, alerts>>

AnnounceEleven ==
  /\ closer = "say"
  /\ closer' = "scan"
  /\ toScan' = Tickers
  /\ alerts' = Append(alerts, [type |-> "11AM", sym |-> NoTicker])
  /\ UNCHANGED <<tickerVars, phase, loopVars, target, envVars>>

\* GetTicker, and the test of the copy; "use last known price".
ScanRead(s) ==
  /\ closer = "scan"
  /\ s \in toScan
  /\ toScan' = toScan \ {s}
  /\ IF Open(s)
       THEN closer' = "close" /\ target' = [sym |-> s, price |-> tape[s].last]
       ELSE UNCHANGED <<closer, target>>
  /\ UNCHANGED <<tickerVars, phase, loopVars, envVars, alerts>>

\* closePosition(tsNY, sym, "TIME_EXIT", ...): it does not look again.
ScanClose ==
  /\ closer = "close"
  /\ ClosePosition(target.sym, "TIME_EXIT", target.price, ExitT)
  /\ closer' = "tell"
  /\ UNCHANGED <<tape, cross, phase, loopVars, toScan, target, envVars, alerts>>

ScanTell ==
  /\ closer = "tell"
  /\ alerts' = Append(alerts, [type |-> "TIME_EXIT", sym |-> target.sym])
  /\ closer' = "scan"
  /\ target' = NoTarget
  /\ UNCHANGED <<tickerVars, phase, loopVars, toScan, envVars>>

ScanEnd ==
  /\ closer = "scan"
  /\ toScan = {}
  /\ closer' = "end"
  /\ UNCHANGED <<tickerVars, phase, loopVars, toScan, target, envVars, alerts>>

Closer ==
  \/ TimerFires \/ CloserCancelled \/ AnnounceEleven
  \/ \E s \in Tickers : ScanRead(s)
  \/ ScanClose \/ ScanTell \/ ScanEnd

-----------------------------------------------------------------------------
(* The other branches of the trade loop's select, and the environment       *)

\* Variant: closed11am is closed before onElevenAM and not after it.
Finish_BeforeScan ==
  /\ stage = "live"
  /\ busy = "idle"
  /\ closer \notin {"off", "wait"}
  /\ stage' = "stopped"
  /\ phase' = "closed"
  /\ UNCHANGED <<tickerVars, cur, busy, closerVars, envVars, alerts>>

\* <-closed11am: SetPhase(PhaseClosed); historic-live also reports.
Finish ==
  /\ stage = "live"
  /\ busy = "idle"
  /\ closer = "end"
  /\ stage' = "stopped"
  /\ phase' = "closed"
  /\ UNCHANGED <<tickerVars, cur, busy, closerVars, envVars, alerts>>

\* <-ctx.Done(): when both are ready, Go picks either.
LoopCancelled ==
  /\ stage = "live"
  /\ busy = "idle"
  /\ ctxDone
  /\ stage' = "stopped"
  /\ UNCHANGED <<tickerVars, phase, cur, busy, closerVars, envVars, alerts>>

\* Shutdown, or a newer request to the historic run queue.
Cancel ==
  /\ ~ctxDone
  /\ ctxDone' = TRUE
  /\ UNCHANGED <<mode, now, tickerVars, phase, loopVars, closerVars, alerts>>

\* A minute passes, but not while a trade is MaxLag old and still in work.
Tick ==
  /\ now < MaxNow
  /\ busy = "idle" \/ now < cur.time + MaxLag
  /\ now' = now + 1
  /\ UNCHANGED <<mode, ctxDone, tickerVars, phase, loopVars, closerVars, alerts>>

Next ==
  \/ \E s \in Tickers, p \in Prices, z \in Sizes, t \in 0 .. MaxNow :
       SeedTrade(s, p, z, t) \/ CatchUpTrade(s, p, z, t) \/ Receive(s, p, z, t)
  \/ SeedEnd \/ CatchUpCancelled \/ Connect \/ WSFail \/ WSClosed
  \/ ProcessTrade \/ Closer \/ Finish \/ LoopCancelled \/ Cancel \/ Tick

\* Time passes; the goroutines are scheduled; REST answers or fails.  No trade
\* need ever arrive, and nothing need ever fail or be cancelled.
Fairness ==
  /\ WF_vars(Tick)
  /\ WF_vars(SeedEnd) /\ WF_vars(Connect) /\ WF_vars(CatchUpCancelled)
  /\ WF_vars(ProcessTrade)
  /\ WF_vars(Closer)
  /\ WF_vars(Finish)
  /\ WF_vars(LoopCancelled)

Spec == Init /\ [][Next]_vars
FairSpec == Spec /\ Fairness

-----------------------------------------------------------------------------
(* Properties *)

\* The closer has gone past its timer, not past a cancellation.
ClosedByTimer == closer \in {"say", "scan", "close", "tell"}

\* "close any open positions at time exit" (engine.go:715): a session that is
\* closed without having been cancelled leaves no position open, although the
\* trade loop goes on opening and closing positions while the closer scans.
ClosedMeansFlat ==
  phase = "closed" /\ ~ctxDone => \A s \in Tickers : ~Open(s)

\* A ticker is entered at most once a session (engine.go:594, 612): no step of
\* either goroutine reopens a position, forgets it, or moves its entry.
OneEntryPerSession ==
  [][\A s \in Tickers : pos[s].has =>
       /\ pos'[s].has
       /\ pos'[s].entry = pos[s].entry /\ pos'[s].entryTime = pos[s].entryTime
       /\ pos[s].exited => pos'[s].exited]_vars

\* "entry still ONLY after 09:35, BUT it can trigger if the cross happened
\* earlier (>=09:31)" (engine.go:608-609): whatever phase recorded the cross,
\* seed, catch-up or live, and however late and out of order trades came.
EntryContract ==
  \A s \in Tickers : pos[s].has =>
    /\ SelT <= pos[s].entryTime /\ pos[s].entryTime < CutoffT
    /\ cross[s].saw
    /\ CrossStart <= cross[s].time /\ cross[s].time < CutoffT

\* No exit is missed: between two trades an open position's last price lies
\* strictly between its stop and its target (engine.go:653-663).
NoMissedExit ==
  busy = "idle" =>
    \A s \in Tickers : Open(s) =>
      ~HitsTarget(tape[s].last, pos[s].entry) /\ ~HitsStop(tape[s].last, pos[s].entry)

\* A listener never hears an exit of a position it has not heard the BUY of,
\* though openPosition speaks after it has opened the position and the closer
\* may close it meanwhile (engine.go:673-691, 727).
BuyHeardFirst ==
  \A i \in 1 .. Len(alerts) : alerts[i].type \in Reasons =>
    \E j \in 1 .. i - 1 : alerts[j] = [type |-> "BUY", sym |-> alerts[i].sym]

\* Every position is closed in the end, by its target, its stop or the timer,
\* unless the session is cancelled: losing the trade feed is not enough.
EveryPositionCloses ==
  \A s \in Tickers : Open(s) ~> (pos[s].exited \/ ctxDone)

\* A position is closed once, and what is on record is the exit that closed
\* it: "close any open positions" (engine.go:715).
ExitOnce ==
  [][\A s \in Tickers : pos[s].exited => pos'[s] = pos[s]]_vars
=============================================================================
