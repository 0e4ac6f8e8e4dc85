----------------------- MODULE HistoricRunQueue_proofs -----------------------
(***************************************************************************)
(* Theorems about the historic run queue, for any set of requests.          *)
(*                                                                         *)
(* The inductive invariant says where a request can be.  A request whose    *)
(* handler has not returned is nowhere yet; a queued or held one has no run *)
(* yet (Places).  What is queued is never older than a request whose handler *)
(* has dropped or returned (QueuedIsFresh), and what the loop holds is never *)
(* older than a request that has a run (HeldIsFresh).                       *)
(***************************************************************************)
EXTENDS HistoricRunQueue, TLAPS

Holding == loop \in {"await", "drain", "start"}

\* The loop's locals agree with its place in the code.
LoopInv ==
  /\ Holding => day \in Requests
  /\ running => current \in Requests
  /\ loop \in {"drain", "start"} => ~running
  /\ loop \in {"await", "stopping"} => running

\* Only the goroutine the loop remembers can be running.
RunInv ==
  \A r \in Requests : run[r] = "active" => running /\ r = current

Places ==
  /\ histReqC # NoReq => pc[histReqC] = "done" /\ run[histReqC] = "none"
  /\ Holding => pc[day] = "done" /\ run[day] = "none" /\ day # histReqC
  /\ running => run[current] # "none"
  /\ \A r \in Requests : run[r] # "none" => pc[r] = "done"
  /\ \A r \in cancelled : run[r] # "none"

BeforeInv == \A r, s \in Requests : s \in before[r] => pc[s] = "done"

QueuedIsFresh ==
  histReqC # NoReq =>
    \A r \in Requests : pc[r] \in {"resend", "done"} => histReqC \notin before[r]

HeldIsFresh ==
  Holding => \A s \in Requests : run[s] # "none" => day \notin before[s]

IInv ==
  /\ TypeOK
  /\ LoopInv
  /\ RunInv
  /\ Places
  /\ BeforeInv
  /\ QueuedIsFresh
  /\ HeldIsFresh
  /\ LatestWins
  /\ IdleRunIsWanted
  /\ ExitLeavesNoRun

-----------------------------------------------------------------------------
(* The initial states. *)

LEMMA InitInv == Init => IInv
BY NoReqAssumption DEF Init, IInv, TypeOK, HandlerPC, LoopPC, LoopInv, RunInv,
   Places, Holding, BeforeInv, QueuedIsFresh, HeldIsFresh, LatestWins, Newest,
   Returned, IdleRunIsWanted, ExitLeavesNoRun

-----------------------------------------------------------------------------
(* Every step preserves the invariant, one lemma per group of its conjuncts. *)

\* Types, and the loop's locals.
LEMMA TypeStep ==
  ASSUME TypeOK, LoopInv, [Next]_vars
  PROVE  TypeOK' /\ LoopInv'
<1> DEFINE Goal == TypeOK /\ LoopInv
<1> USE NoReqAssumption DEF TypeOK, HandlerPC, LoopPC, LoopInv, Holding, Returned,
        handlerVars, loopVars, runVars, vars
<1>1. ASSUME NEW r \in Requests, Post(r) PROVE Goal'
  BY <1>1 DEF Post
<1>2. ASSUME NEW r \in Requests, SendNow(r) PROVE Goal'
  BY <1>2 DEF SendNow
<1>3. ASSUME NEW r \in Requests, SendFull(r) PROVE Goal'
  BY <1>3 DEF SendFull
<1>4. ASSUME NEW r \in Requests, DropOld(r) PROVE Goal'
  BY <1>4 DEF DropOld
<1>5. ASSUME NEW r \in Requests, Resend(r) PROVE Goal'
  BY <1>5 DEF Resend
<1>6. ASSUME NEW r \in Requests, RunFinish(r) PROVE Goal'
  BY <1>6 DEF RunFinish
<1>7. ASSUME NEW r \in Requests, RunFail(r) PROVE Goal'
  BY <1>7 DEF RunFail
<1>8. ASSUME LoopTake PROVE Goal'
  BY <1>8 DEF LoopTake
<1>9. ASSUME LoopAwait PROVE Goal'
  BY <1>9 DEF LoopAwait
<1>10. ASSUME LoopDrainMore PROVE Goal'
  BY <1>10 DEF LoopDrainMore
<1>11. ASSUME LoopDrainEmpty PROVE Goal'
  BY <1>11 DEF LoopDrainEmpty
<1>12. ASSUME LoopStart PROVE Goal'
  BY <1>12 DEF LoopStart
<1>13. ASSUME LoopStop PROVE Goal'
  BY <1>13 DEF LoopStop
<1>14. ASSUME LoopExit PROVE Goal'
  BY <1>14 DEF LoopExit
<1>15. ASSUME Shutdown PROVE Goal'
  BY <1>15 DEF Shutdown
<1>16. ASSUME UNCHANGED vars PROVE Goal'
  BY <1>16
<1> QED
  BY <1>1, <1>2, <1>3, <1>4, <1>5, <1>6, <1>7, <1>8, <1>9,
     <1>10, <1>11, <1>12, <1>13, <1>14, <1>15, <1>16
  DEF Next, Handler, Loop

\* The loop awaits a run before it starts another, so only the remembered
\* run is active, and none when the loop has ended.
LEMMA RunStep ==
  ASSUME TypeOK, LoopInv, RunInv, ExitLeavesNoRun, [Next]_vars
  PROVE  RunInv' /\ ExitLeavesNoRun'
<1> DEFINE Goal == RunInv /\ ExitLeavesNoRun
<1> USE DEF TypeOK, LoopInv, RunInv, ExitLeavesNoRun, Holding,
        handlerVars, loopVars, runVars, vars
<1>1. ASSUME NEW r \in Requests, Post(r) PROVE Goal'
  BY <1>1 DEF Post
<1>2. ASSUME NEW r \in Requests, SendNow(r) PROVE Goal'
  BY <1>2 DEF SendNow
<1>3. ASSUME NEW r \in Requests, SendFull(r) PROVE Goal'
  BY <1>3 DEF SendFull
<1>4. ASSUME NEW r \in Requests, DropOld(r) PROVE Goal'
  BY <1>4 DEF DropOld
<1>5. ASSUME NEW r \in Requests, Resend(r) PROVE Goal'
  BY <1>5 DEF Resend
<1>6. ASSUME NEW r \in Requests, RunFinish(r) PROVE Goal'
  BY <1>6 DEF RunFinish
<1>7. ASSUME NEW r \in Requests, RunFail(r) PROVE Goal'
  BY <1>7 DEF RunFail
<1>8. ASSUME LoopTake PROVE Goal'
  BY <1>8 DEF LoopTake
<1>9. ASSUME LoopAwait PROVE Goal'
  BY <1>9 DEF LoopAwait
<1>10. ASSUME LoopDrainMore PROVE Goal'
  BY <1>10 DEF LoopDrainMore
<1>11. ASSUME LoopDrainEmpty PROVE Goal'
  BY <1>11 DEF LoopDrainEmpty
<1>12. ASSUME LoopStart PROVE Goal'
  BY <1>12 DEF LoopStart
<1>13. ASSUME LoopStop PROVE Goal'
  BY <1>13 DEF LoopStop
<1>14. ASSUME LoopExit PROVE Goal'
  BY <1>14 DEF LoopExit
<1>15. ASSUME Shutdown PROVE Goal'
  BY <1>15 DEF Shutdown
<1>16. ASSUME UNCHANGED vars PROVE Goal'
  BY <1>16
<1> QED
  BY <1>1, <1>2, <1>3, <1>4, <1>5, <1>6, <1>7, <1>8, <1>9,
     <1>10, <1>11, <1>12, <1>13, <1>14, <1>15, <1>16
  DEF Next, Handler, Loop

\* A request moves from its handler to the channel, to the loop, to a run.
LEMMA PlacesStep ==
  ASSUME TypeOK, LoopInv, RunInv, Places, [Next]_vars
  PROVE  Places'
<1> USE NoReqAssumption DEF TypeOK, LoopInv, RunInv, Places, Holding,
        handlerVars, loopVars, runVars, vars
<1>1. ASSUME NEW r \in Requests, Post(r) PROVE Places'
  BY <1>1 DEF Post
<1>2. ASSUME NEW r \in Requests, SendNow(r) PROVE Places'
  BY <1>2 DEF SendNow
<1>3. ASSUME NEW r \in Requests, SendFull(r) PROVE Places'
  BY <1>3 DEF SendFull
<1>4. ASSUME NEW r \in Requests, DropOld(r) PROVE Places'
  BY <1>4 DEF DropOld
<1>5. ASSUME NEW r \in Requests, Resend(r) PROVE Places'
  BY <1>5 DEF Resend
<1>6. ASSUME NEW r \in Requests, RunFinish(r) PROVE Places'
  BY <1>6 DEF RunFinish
<1>7. ASSUME NEW r \in Requests, RunFail(r) PROVE Places'
  BY <1>7 DEF RunFail
<1>8. ASSUME LoopTake PROVE Places'
  BY <1>8 DEF LoopTake
<1>9. ASSUME LoopAwait PROVE Places'
  BY <1>9 DEF LoopAwait
<1>10. ASSUME LoopDrainMore PROVE Places'
  BY <1>10 DEF LoopDrainMore
<1>11. ASSUME LoopDrainEmpty PROVE Places'
  BY <1>11 DEF LoopDrainEmpty
<1>12. ASSUME LoopStart PROVE Places'
  BY <1>12 DEF LoopStart
<1>13. ASSUME LoopStop PROVE Places'
  BY <1>13 DEF LoopStop
<1>14. ASSUME LoopExit PROVE Places'
  BY <1>14 DEF LoopExit
<1>15. ASSUME Shutdown PROVE Places'
  BY <1>15 DEF Shutdown
<1>16. ASSUME UNCHANGED vars PROVE Places'
  BY <1>16
<1> QED
  BY <1>1, <1>2, <1>3, <1>4, <1>5, <1>6, <1>7, <1>8, <1>9,
     <1>10, <1>11, <1>12, <1>13, <1>14, <1>15, <1>16
  DEF Next, Handler, Loop

\* What a handler puts into the channel has not returned yet, so no posted
\* request has it in its past; the loop only moves what is in the channel.
LEMMA FreshStep ==
  ASSUME TypeOK, LoopInv, Places, BeforeInv, QueuedIsFresh, HeldIsFresh, [Next]_vars
  PROVE  BeforeInv' /\ QueuedIsFresh' /\ HeldIsFresh'
<1> DEFINE Goal == BeforeInv /\ QueuedIsFresh /\ HeldIsFresh
<1> USE NoReqAssumption DEF TypeOK, LoopInv, Places, BeforeInv, QueuedIsFresh, HeldIsFresh, Holding,
        Returned, handlerVars, loopVars, runVars, vars
<1>1. ASSUME NEW r \in Requests, Post(r) PROVE Goal'
  BY <1>1 DEF Post
<1>2. ASSUME NEW r \in Requests, SendNow(r) PROVE Goal'
  BY <1>2 DEF SendNow
<1>3. ASSUME NEW r \in Requests, SendFull(r) PROVE Goal'
  BY <1>3 DEF SendFull
<1>4. ASSUME NEW r \in Requests, DropOld(r) PROVE Goal'
  BY <1>4 DEF DropOld
<1>5. ASSUME NEW r \in Requests, Resend(r) PROVE Goal'
  BY <1>5 DEF Resend
<1>6. ASSUME NEW r \in Requests, RunFinish(r) PROVE Goal'
  BY <1>6 DEF RunFinish
<1>7. ASSUME NEW r \in Requests, RunFail(r) PROVE Goal'
  BY <1>7 DEF RunFail
<1>8. ASSUME LoopTake PROVE Goal'
  BY <1>8 DEF LoopTake
<1>9. ASSUME LoopAwait PROVE Goal'
  BY <1>9 DEF LoopAwait
<1>10. ASSUME LoopDrainMore PROVE Goal'
  BY <1>10 DEF LoopDrainMore
<1>11. ASSUME LoopDrainEmpty PROVE Goal'
  BY <1>11 DEF LoopDrainEmpty
<1>12. ASSUME LoopStart PROVE Goal'
  BY <1>12 DEF LoopStart
<1>13. ASSUME LoopStop PROVE Goal'
  BY <1>13 DEF LoopStop
<1>14. ASSUME LoopExit PROVE Goal'
  BY <1>14 DEF LoopExit
<1>15. ASSUME Shutdown PROVE Goal'
  BY <1>15 DEF Shutdown
<1>16. ASSUME UNCHANGED vars PROVE Goal'
  BY <1>16
<1> QED
  BY <1>1, <1>2, <1>3, <1>4, <1>5, <1>6, <1>7, <1>8, <1>9,
     <1>10, <1>11, <1>12, <1>13, <1>14, <1>15, <1>16
  DEF Next, Handler, Loop

\* The newest request is the queued one, the held one or the current one.
LEMMA LatestStep ==
  ASSUME TypeOK, LoopInv, Places, BeforeInv, QueuedIsFresh, LatestWins, [Next]_vars
  PROVE  LatestWins'
<1> USE NoReqAssumption DEF TypeOK, LoopInv, Places, BeforeInv, QueuedIsFresh, LatestWins, Newest,
        Holding, Returned, handlerVars, loopVars, runVars, vars
<1>1. ASSUME NEW r \in Requests, Post(r) PROVE LatestWins'
  BY <1>1 DEF Post
<1>2. ASSUME NEW r \in Requests, SendNow(r) PROVE LatestWins'
  BY <1>2 DEF SendNow
<1>3. ASSUME NEW r \in Requests, SendFull(r) PROVE LatestWins'
  BY <1>3 DEF SendFull
<1>4. ASSUME NEW r \in Requests, DropOld(r) PROVE LatestWins'
  BY <1>4 DEF DropOld
<1>5. ASSUME NEW r \in Requests, Resend(r) PROVE LatestWins'
  BY <1>5 DEF Resend
<1>6. ASSUME NEW r \in Requests, RunFinish(r) PROVE LatestWins'
  BY <1>6 DEF RunFinish
<1>7. ASSUME NEW r \in Requests, RunFail(r) PROVE LatestWins'
  BY <1>7 DEF RunFail
<1>8. ASSUME LoopTake PROVE LatestWins'
  BY <1>8 DEF LoopTake
<1>9. ASSUME LoopAwait PROVE LatestWins'
  BY <1>9 DEF LoopAwait
<1>10. ASSUME LoopDrainMore PROVE LatestWins'
  BY <1>10 DEF LoopDrainMore
<1>11. ASSUME LoopDrainEmpty PROVE LatestWins'
  BY <1>11 DEF LoopDrainEmpty
<1>12. ASSUME LoopStart PROVE LatestWins'
  BY <1>12 DEF LoopStart
<1>13. ASSUME LoopStop PROVE LatestWins'
  BY <1>13 DEF LoopStop
<1>14. ASSUME LoopExit PROVE LatestWins'
  BY <1>14 DEF LoopExit
<1>15. ASSUME Shutdown PROVE LatestWins'
  BY <1>15 DEF Shutdown
<1>16. ASSUME UNCHANGED vars PROVE LatestWins'
  BY <1>16
<1> QED
  BY <1>1, <1>2, <1>3, <1>4, <1>5, <1>6, <1>7, <1>8, <1>9,
     <1>10, <1>11, <1>12, <1>13, <1>14, <1>15, <1>16
  DEF Next, Handler, Loop

\* The loop cancels a run only on its way to the next one or to its end.
LEMMA WantedStep ==
  ASSUME TypeOK, LoopInv, Places, IdleRunIsWanted, [Next]_vars
  PROVE  IdleRunIsWanted'
<1> USE DEF TypeOK, LoopInv, Places, IdleRunIsWanted, Holding,
        handlerVars, loopVars, runVars, vars
<1>1. ASSUME NEW r \in Requests, Post(r) PROVE IdleRunIsWanted'
  BY <1>1 DEF Post
<1>2. ASSUME NEW r \in Requests, SendNow(r) PROVE IdleRunIsWanted'
  BY <1>2 DEF SendNow
<1>3. ASSUME NEW r \in Requests, SendFull(r) PROVE IdleRunIsWanted'
  BY <1>3 DEF SendFull
<1>4. ASSUME NEW r \in Requests, DropOld(r) PROVE IdleRunIsWanted'
  BY <1>4 DEF DropOld
<1>5. ASSUME NEW r \in Requests, Resend(r) PROVE IdleRunIsWanted'
  BY <1>5 DEF Resend
<1>6. ASSUME NEW r \in Requests, RunFinish(r) PROVE IdleRunIsWanted'
  BY <1>6 DEF RunFinish
<1>7. ASSUME NEW r \in Requests, RunFail(r) PROVE IdleRunIsWanted'
  BY <1>7 DEF RunFail
<1>8. ASSUME LoopTake PROVE IdleRunIsWanted'
  BY <1>8 DEF LoopTake
<1>9. ASSUME LoopAwait PROVE IdleRunIsWanted'
  BY <1>9 DEF LoopAwait
<1>10. ASSUME LoopDrainMore PROVE IdleRunIsWanted'
  BY <1>10 DEF LoopDrainMore
<1>11. ASSUME LoopDrainEmpty PROVE IdleRunIsWanted'
  BY <1>11 DEF LoopDrainEmpty
<1>12. ASSUME LoopStart PROVE IdleRunIsWanted'
  BY <1>12 DEF LoopStart
<1>13. ASSUME LoopStop PROVE IdleRunIsWanted'
  BY <1>13 DEF LoopStop
<1>14. ASSUME LoopExit PROVE IdleRunIsWanted'
  BY <1>14 DEF LoopExit
<1>15. ASSUME Shutdown PROVE IdleRunIsWanted'
  BY <1>15 DEF Shutdown
<1>16. ASSUME UNCHANGED vars PROVE IdleRunIsWanted'
  BY <1>16
<1> QED
  BY <1>1, <1>2, <1>3, <1>4, <1>5, <1>6, <1>7, <1>8, <1>9,
     <1>10, <1>11, <1>12, <1>13, <1>14, <1>15, <1>16
  DEF Next, Handler, Loop

LEMMA NextInv == IInv /\ [Next]_vars => IInv'
BY TypeStep, RunStep, PlacesStep, FreshStep, LatestStep, WantedStep DEF IInv

LEMMA Invariance == Spec => []IInv
BY InitInv, NextInv, PTL DEF Spec

-----------------------------------------------------------------------------
(* The theorems. *)

\* The variables of the queue and of the loop keep their types.
THEOREM TypeCorrect == Spec => []TypeOK
BY Invariance, PTL DEF IInv

\* "One run at a time" (api.go:271), whatever the handlers do.
THEOREM RunsExcludeEachOther == Spec => []OneRunAtATime
<1>1. IInv => OneRunAtATime
  BY DEF IInv, RunInv, OneRunAtATime
<1> QED
  BY <1>1, Invariance, PTL

\* "latest wins" (api.go:253): the handlers' race for the slot never leaves an
\* older date behind than one whose handler has returned.
THEOREM QueueKeepsLatest == Spec => []LatestWins
BY Invariance, PTL DEF IInv

\* The run that the idle loop leaves running is one it has not cancelled.
THEOREM IdleRunWanted == Spec => []IdleRunIsWanted
BY Invariance, PTL DEF IInv

\* historicRunLoop returns only after the last run has ended (api.go:308-313).
THEOREM ExitIsClean == Spec => []ExitLeavesNoRun
BY Invariance, PTL DEF IInv

\* "run the newest requested date" (api.go:272): the sequence of started runs
\* never goes back to a request older than one already started.
THEOREM RunsGoForward == Spec => NeverGoesBack
<1> DEFINE Forward == \A r, s \in Requests :
       run[r] = "none" /\ run'[r] # "none" /\ run[s] # "none"
         => r \notin before[s]
<1>1. ASSUME IInv, [Next]_vars PROVE Forward
  <2> SUFFICES ASSUME NEW r \in Requests, NEW s \in Requests,
                      run[r] = "none", run'[r] # "none", run[s] # "none"
               PROVE  r \notin before[s]
    OBVIOUS
  <2>1. LoopStart
    BY <1>1 DEF IInv, TypeOK, Next, Handler, Loop, Post, SendNow, SendFull,
       DropOld, Resend, LoopTake, LoopAwait, LoopDrainMore, LoopDrainEmpty,
       LoopStop, LoopExit, RunFinish, RunFail, Shutdown, runVars, vars
  <2>2. r = day
    BY <2>1, <1>1 DEF LoopStart, IInv, TypeOK
  <2> QED
    BY <2>1, <2>2, <1>1 DEF LoopStart, IInv, HeldIsFresh, Holding
<1>2. IInv /\ [Next]_vars => [Forward]_vars
  BY <1>1
<1> QED
  BY <1>2, Invariance, PTL DEF Spec, NeverGoesBack

-----------------------------------------------------------------------------
(* The refinement: each step of the queue is one of LatestRequest or changes *)
(* nothing that LatestRequest shows.                                        *)

LEMMA LatestInit == Init => Latest!Init
BY DEF Init, Latest!Init, Returned

\* Steps inside a handler, inside the loop, or of the server's context.
LEMMA HiddenStep ==
  ASSUME IInv,
         \/ \E r \in Requests : SendFull(r) \/ DropOld(r)
         \/ LoopTake \/ LoopAwait \/ LoopDrainMore \/ LoopDrainEmpty \/ Shutdown
         \/ UNCHANGED vars
  PROVE  UNCHANGED Latest!vars
<1> USE DEF IInv, TypeOK, Latest!vars, Returned, handlerVars, loopVars, runVars, vars
<1>1. ASSUME NEW r \in Requests, SendFull(r) \/ DropOld(r) PROVE UNCHANGED Latest!vars
  BY <1>1 DEF SendFull, DropOld
<1>2. ASSUME LoopTake \/ LoopAwait \/ LoopDrainMore \/ LoopDrainEmpty
      PROVE  UNCHANGED Latest!vars
  BY <1>2 DEF LoopTake, LoopAwait, LoopDrainMore, LoopDrainEmpty
<1>3. CASE Shutdown \/ UNCHANGED vars
  BY <1>3 DEF Shutdown
<1> QED
  BY <1>1, <1>2, <1>3

LEMMA AskStep ==
  ASSUME IInv, NEW r \in Requests, Post(r)
  PROVE  Latest!Ask(r)
BY DEF IInv, TypeOK, Post, Returned, Latest!Ask, loopVars, runVars

\* A handler returns at its send, at its last select, whether it sends or not.
LEMMA AnswerStep ==
  ASSUME IInv, NEW r \in Requests, SendNow(r) \/ Resend(r)
  PROVE  Latest!Answer(r)
BY DEF IInv, TypeOK, SendNow, Resend, Returned, Latest!Answer, loopVars, runVars

\* The held request has no run, has been answered, and is not in the past of
\* any request that has a run (HeldIsFresh); no run is active (RunInv).
LEMMA StartStep ==
  ASSUME IInv, LoopStart
  PROVE  Latest!Start(day)
<1> USE DEF IInv, TypeOK, LoopInv, Places, Holding, LoopStart, Returned, handlerVars
<1>1. day \in Returned /\ run[day] = "none" /\ Latest!Idle
  BY DEF RunInv, Latest!Idle
<1>2. \A s \in Requests : run[s] # "none" => day \notin before[s]
  BY DEF HeldIsFresh
<1> QED
  BY <1>1, <1>2 DEF Latest!Start

LEMMA EndStep ==
  ASSUME IInv, NEW r \in Requests, RunFinish(r) \/ RunFail(r)
  PROVE  Latest!End(r)
BY DEF IInv, TypeOK, RunFinish, RunFail, Returned, Latest!End, handlerVars, loopVars

\* The loop ends at once when nothing runs, else after the run it cancelled.
LEMMA StopStep ==
  ASSUME IInv, LoopStop \/ LoopExit
  PROVE  Latest!Stop \/ UNCHANGED Latest!vars
<1> USE DEF IInv, TypeOK, LoopInv, RunInv, LoopStop, LoopExit, Latest!Idle, Latest!Stop,
        Latest!vars, Returned, handlerVars, runVars
<1>1. CASE LoopStop /\ running
  BY <1>1
<1>2. CASE LoopStop /\ ~running
  BY <1>2
<1>3. CASE LoopExit
  BY <1>3
<1> QED
  BY <1>1, <1>2, <1>3

\* The queue keeps the promises of its abstract specification: whatever the
\* handlers' race and the loop's drain do, what is started and what is left is
\* what LatestRequest allows (api.go:252-348).
THEOREM QueueImplementsLatest == Spec => ImplementsLatest
<1>1. ASSUME IInv, [Next]_vars PROVE [Latest!Next]_(Latest!vars)
  <2>1. ASSUME NEW r \in Requests, Post(r) PROVE Latest!Next
    BY <1>1, <2>1, AskStep DEF Latest!Next
  <2>2. ASSUME NEW r \in Requests, SendNow(r) \/ Resend(r) PROVE Latest!Next
    BY <1>1, <2>2, AnswerStep DEF Latest!Next
  <2>3. CASE LoopStart
    <3>1. day \in Requests
      BY <1>1, <2>3 DEF IInv, LoopInv, Holding, LoopStart
    <3> QED
      BY <1>1, <2>3, <3>1, StartStep DEF Latest!Next
  <2>4. ASSUME NEW r \in Requests, RunFinish(r) \/ RunFail(r) PROVE Latest!Next
    BY <1>1, <2>4, EndStep DEF Latest!Next
  <2>5. CASE LoopStop \/ LoopExit
    BY <1>1, <2>5, StopStep DEF Latest!Next
  <2>6. CASE \/ \E r \in Requests : SendFull(r) \/ DropOld(r)
             \/ LoopTake \/ LoopAwait \/ LoopDrainMore \/ LoopDrainEmpty \/ Shutdown
             \/ UNCHANGED vars
    BY <1>1, <2>6, HiddenStep
  <2> QED
    BY <1>1, <2>1, <2>2, <2>3, <2>4, <2>5, <2>6 DEF Next, Handler, Loop
<1> QED
  BY <1>1, LatestInit, Invariance, PTL DEF Spec, ImplementsLatest, Latest!Spec
=============================================================================
