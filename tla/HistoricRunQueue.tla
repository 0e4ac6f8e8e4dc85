-------------------------- MODULE HistoricRunQueue --------------------------
(***************************************************************************)
(* The historic run queue of internal/server/api.go: the one-slot channel   *)
(* histReqC, the HTTP handlers that post dates into it with QueueHistoricRun *)
(* ("non-blocking latest wins"), and historicRunLoop, which runs one date   *)
(* at a time and cancels the running one when a newer request arrives.      *)
(*                                                                         *)
(* A request is one call of QueueHistoricRun; two requests may carry the     *)
(* same date, so requests and not dates are what the module tells apart.    *)
(* The loop's test of st.Mode() is not modelled: the server starts the loop *)
(* only in historic mode, and the mode never changes afterwards.            *)
(***************************************************************************)
EXTENDS Naturals

CONSTANTS
  Requests,  \* the calls of QueueHistoricRun that may ever be made
  NoReq      \* "no request": an empty channel, an unassigned variable

ASSUME NoReqAssumption == NoReq \notin Requests

VARIABLES
  histReqC,  \* the channel of capacity one: its element, or NoReq
  pc,        \* where each handler is in QueueHistoricRun
  before,    \* history: the requests whose handler had returned when r posted
  loop,      \* where historicRunLoop is
  running,   \* its local "running"
  day,       \* its local "day", later "latest": the request it holds
  current,   \* the request that the goroutine of startRun was given
  run,       \* the goroutine started for each request
  cancelled, \* the requests whose runCtx the loop has cancelled
  failed,    \* the runs that logged "Historic run failed"
  ctxDone    \* the server's own context

vars == <<histReqC, pc, before, loop, running, day, current, run, cancelled,
          failed, ctxDone>>
handlerVars == <<pc, before>>
loopVars == <<loop, running, day, current, cancelled>>
runVars == <<run, failed>>

HandlerPC == {"idle", "send", "drop", "resend", "done"}
LoopPC == {"select", "await", "drain", "start", "stopping", "exit"}

TypeOK ==
  /\ histReqC \in Requests \cup {NoReq}
  /\ pc \in [Requests -> HandlerPC]
  /\ before \in [Requests -> SUBSET Requests]
  /\ loop \in LoopPC
  /\ running \in BOOLEAN
  /\ day \in Requests \cup {NoReq}
  /\ current \in Requests \cup {NoReq}
  /\ run \in [Requests -> {"none", "active", "done"}]
  /\ cancelled \subseteq Requests
  /\ failed \subseteq Requests
  /\ ctxDone \in BOOLEAN

Init ==
  /\ histReqC = NoReq
  /\ pc = [r \in Requests |-> "idle"]
  /\ before = [r \in Requests |-> {}]
  /\ loop = "select"
  /\ running = FALSE
  /\ day = NoReq
  /\ current = NoReq
  /\ run = [r \in Requests |-> "none"]
  /\ cancelled = {}
  /\ failed = {}
  /\ ctxDone = FALSE

Returned == {r \in Requests : pc[r] = "done"}

-----------------------------------------------------------------------------
(* The handlers: handleHistoricRun, or main, calls QueueHistoricRun.        *)

Post(r) ==
  /\ pc[r] = "idle"
  /\ pc' = [pc EXCEPT ![r] = "send"]
  /\ before' = [before EXCEPT ![r] = Returned]
  /\ UNCHANGED <<histReqC, loopVars, runVars, ctxDone>>

\* The first select: room in the channel.
SendNow(r) ==
  /\ pc[r] = "send"
  /\ histReqC = NoReq
  /\ histReqC' = r
  /\ pc' = [pc EXCEPT ![r] = "done"]
  /\ UNCHANGED <<before, loopVars, runVars, ctxDone>>

\* Variant: a full channel is left alone, and the new request is forgotten.
SendFull_GiveUp(r) ==
  /\ pc[r] = "send"
  /\ histReqC # NoReq
  /\ pc' = [pc EXCEPT ![r] = "done"]
  /\ UNCHANGED <<histReqC, before, loopVars, runVars, ctxDone>>

\* The first select's default branch: the channel is full.
SendFull(r) ==
  /\ pc[r] = "send"
  /\ histReqC # NoReq
  /\ pc' = [pc EXCEPT ![r] = "drop"]
  /\ UNCHANGED <<histReqC, before, loopVars, runVars, ctxDone>>

\* The second select: whatever is in the channel is dropped; the loop or
\* another handler may have emptied or refilled it since SendFull.
DropOld(r) ==
  /\ pc[r] = "drop"
  /\ histReqC' = NoReq
  /\ pc' = [pc EXCEPT ![r] = "resend"]
  /\ UNCHANGED <<before, loopVars, runVars, ctxDone>>

\* The third select: a handler that finds the channel full again gives up.
Resend(r) ==
  /\ pc[r] = "resend"
  /\ histReqC' = IF histReqC = NoReq THEN r ELSE histReqC
  /\ pc' = [pc EXCEPT ![r] = "done"]
  /\ UNCHANGED <<before, loopVars, runVars, ctxDone>>

Handler(r) == SendNow(r) \/ SendFull(r) \/ DropOld(r) \/ Resend(r)

-----------------------------------------------------------------------------
(* historicRunLoop                                                          *)

\* A request arrives: the running date, if any, is cancelled and awaited.
LoopTake ==
  /\ loop = "select"
  /\ histReqC # NoReq
  /\ day' = histReqC
  /\ histReqC' = NoReq
  /\ loop' = IF running THEN "await" ELSE "start"
  /\ cancelled' = IF running THEN cancelled \cup {current} ELSE cancelled
  /\ UNCHANGED <<handlerVars, runVars, running, current, ctxDone>>

\* Variant: the loop does not wait for the cancelled date to end.
LoopAwait_NoWait ==
  /\ loop = "await"
  /\ running' = FALSE
  /\ loop' = "drain"
  /\ UNCHANGED <<histReqC, handlerVars, runVars, day, current, cancelled, ctxDone>>

\* <-doneCh
LoopAwait ==
  /\ loop = "await"
  /\ run[current] = "done"
  /\ running' = FALSE
  /\ loop' = "drain"
  /\ UNCHANGED <<histReqC, handlerVars, runVars, day, current, cancelled, ctxDone>>

\* Variant: the drain keeps the request it holds and drops the newer one.
LoopDrainMore_KeepFirst ==
  /\ loop = "drain"
  /\ histReqC # NoReq
  /\ histReqC' = NoReq
  /\ UNCHANGED <<day, handlerVars, runVars, loop, running, current, cancelled, ctxDone>>

\* "Drain any extra queued requests and keep only the most recent"
LoopDrainMore ==
  /\ loop = "drain"
  /\ histReqC # NoReq
  /\ day' = histReqC
  /\ histReqC' = NoReq
  /\ UNCHANGED <<handlerVars, runVars, loop, running, current, cancelled, ctxDone>>

LoopDrainEmpty ==
  /\ loop = "drain"
  /\ histReqC = NoReq
  /\ loop' = "start"
  /\ UNCHANGED <<histReqC, handlerVars, runVars, running, day, current, cancelled, ctxDone>>

\* startRun(day), and back to the select
LoopStart ==
  /\ loop = "start"
  /\ current' = day
  /\ run' = [run EXCEPT ![day] = "active"]
  /\ running' = TRUE
  /\ loop' = "select"
  /\ UNCHANGED <<histReqC, handlerVars, failed, day, cancelled, ctxDone>>

\* Variant: cancel() is called although nothing runs.
LoopStop_NoGuard ==
  /\ loop = "select"
  /\ ctxDone
  /\ loop' = "exit"
  /\ cancelled' = cancelled \cup {current}
  /\ UNCHANGED <<histReqC, handlerVars, runVars, running, day, current, ctxDone>>

\* Variant: the loop listens to its context only while nothing runs.
LoopStop_OnlyIdle ==
  /\ loop = "select"
  /\ ctxDone
  /\ ~running
  /\ loop' = "exit"
  /\ UNCHANGED <<histReqC, handlerVars, runVars, running, day, current, cancelled, ctxDone>>

\* <-ctx.Done(): cancel the running date; the select may as well take a
\* queued request first, since Go chooses among the ready cases at random.
LoopStop ==
  /\ loop = "select"
  /\ ctxDone
  /\ loop' = IF running THEN "stopping" ELSE "exit"
  /\ cancelled' = IF running THEN cancelled \cup {current} ELSE cancelled
  /\ UNCHANGED <<histReqC, handlerVars, runVars, running, day, current, ctxDone>>

\* Variant: the loop returns without <-doneCh.
LoopExit_NoWait ==
  /\ loop = "stopping"
  /\ loop' = "exit"
  /\ UNCHANGED <<histReqC, handlerVars, runVars, running, day, current, cancelled, ctxDone>>

LoopExit ==
  /\ loop = "stopping"
  /\ run[current] = "done"
  /\ loop' = "exit"
  /\ UNCHANGED <<histReqC, handlerVars, runVars, running, day, current, cancelled, ctxDone>>

Loop == LoopTake \/ LoopAwait \/ LoopDrainMore \/ LoopDrainEmpty \/ LoopStart
          \/ LoopStop \/ LoopExit

-----------------------------------------------------------------------------
(* The goroutine of startRun: RunHistoricForDate ends, with or without an   *)
(* error, and doneCh is closed. An error is logged unless runCtx, or the    *)
(* server's context it derives from, was cancelled.                         *)

RunFinish(r) ==
  /\ run[r] = "active"
  /\ run' = [run EXCEPT ![r] = "done"]
  /\ UNCHANGED <<histReqC, handlerVars, loopVars, failed, ctxDone>>

RunFail(r) ==
  /\ run[r] = "active"
  /\ r \notin cancelled
  /\ ~ctxDone
  /\ run' = [run EXCEPT ![r] = "done"]
  /\ failed' = failed \cup {r}
  /\ UNCHANGED <<histReqC, handlerVars, loopVars, ctxDone>>

Shutdown ==
  /\ ~ctxDone
  /\ ctxDone' = TRUE
  /\ UNCHANGED <<histReqC, handlerVars, loopVars, runVars>>

Next ==
  \/ \E r \in Requests : Post(r) \/ Handler(r) \/ RunFinish(r) \/ RunFail(r)
  \/ Loop
  \/ Shutdown

\* A handler never blocks, the loop is a goroutine of its own, and a run
\* returns once its context is cancelled; a run that nobody cancels may last
\* as long as a trading day, and nobody is obliged to post or to shut down.
Fairness ==
  /\ \A r \in Requests : WF_vars(Handler(r))
  /\ \A r \in Requests : WF_vars((r \in cancelled \/ ctxDone) /\ RunFinish(r))
  /\ WF_vars(Loop)

Spec == Init /\ [][Next]_vars
FairSpec == Spec /\ Fairness

-----------------------------------------------------------------------------
(* Properties *)

\* "One run at a time" (api.go:271): no interleaving of posts, cancellations
\* and terminations leaves two dates running over the one shared store.
OneRunAtATime ==
  \A r, s \in Requests : run[r] = "active" /\ run[s] = "active" => r = s

\* The request that the queue and the loop would run last if nothing more
\* were posted: the queued one, else the held one, else the current one.
Newest ==
  IF histReqC # NoReq THEN histReqC
  ELSE IF loop \in {"await", "drain", "start"} THEN day
  ELSE current

\* "latest wins" (api.go:253): unless some handler is between its drop and
\* its resend, a request r whose handler has returned is superseded only by a
\* request that had not already returned when r was posted. The handlers race
\* for the one slot, and the one that loses the race must not leave an older
\* date behind.
LatestWins ==
  (\A h \in Requests : pc[h] # "resend") =>
    \A r \in Returned : Newest # NoReq /\ Newest \notin before[r]

\* The date on screen is the wanted one: when the loop waits in its select
\* with nothing queued, the run it remembers has not been cancelled.
IdleRunIsWanted ==
  loop = "select" /\ running => current \notin cancelled

\* "then run the newest requested date" (api.go:272): a run never starts for
\* a request that had returned before an already started one was even posted.
NeverGoesBack ==
  [][\A r, s \in Requests :
       run[r] = "none" /\ run'[r] # "none" /\ run[s] # "none"
         => r \notin before[s]]_vars

\* Every request is eventually served, by its own run or by the run of a
\* request at least as recent, unless the server shuts down.
EventuallyServed ==
  \A r \in Requests :
    pc[r] = "done" ~>
      \/ ctxDone
      \/ \E s \in Requests : run[s] # "none" /\ s \notin before[r]

\* On shutdown the loop ends, and no run survives it.
ShutdownCompletes == ctxDone ~> loop = "exit"
ExitLeavesNoRun == loop = "exit" => \A r \in Requests : run[r] # "active"

\* The queue, its selects and its loop implement the abstract run queue: what
\* a client sees (handlers called and answered, runs started and ended, the
\* loop's end) is what LatestRequest allows.
Latest == INSTANCE LatestRequest WITH
            asked <- {r \in Requests : pc[r] # "idle"},
            answered <- Returned,
            stopped <- loop = "exit"

ImplementsLatest == Latest!Spec
=============================================================================
