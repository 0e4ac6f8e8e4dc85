----------------------------- MODULE WorkerPool -----------------------------
(***************************************************************************)
(* The pool that buildTrackedStates (engine.go), correctCandidatesOpen5m-    *)
(* ViaREST, collectOpen5mViaREST and both stages of scanSoldOff             *)
(* (historic.go) each build anew: workers that range over the unbuffered     *)
(* channel jobs and send to the unbuffered channel results, a feeder that    *)
(* gives up when the context is done, and a closer that closes results when  *)
(* all workers have ended.  The function that started them ranges over       *)
(* results.                                                                 *)
(*                                                                         *)
(* A send on an unbuffered channel is one step of both ends.                *)
(***************************************************************************)
CONSTANTS
  Items,    \* what can be asked for
  Workers,  \* the workers of a pool, as many as History.MaxWorkers
  NoItem    \* the item of an idle worker

ASSUME NoItemAssumption == NoItem \notin Items

\* if workerN < 1 { workerN = 1 }
ASSUME WorkersAssumption == Workers # {}

VARIABLES
  todo, answered, failed, ranging, ctxDone,   \* as in ParallelMap
  unfed,        \* what the feeder has still to send on jobs
  jobsClosed,   \* the feeder has closed jobs
  job,          \* the item each worker is working on
  working,      \* the workers that have not called wg.Done
  resultsClosed \* the closer has closed results

callerVars == <<todo, answered, failed, ranging>>
poolVars == <<unfed, jobsClosed, job, working, resultsClosed>>

PoolTypeOK ==
  /\ todo \subseteq Items /\ answered \subseteq Items /\ failed \subseteq Items
  /\ unfed \subseteq Items
  /\ job \in [Workers -> Items \cup {NoItem}]
  /\ working \subseteq Workers
  /\ {ranging, ctxDone, jobsClosed, resultsClosed} \subseteq BOOLEAN

PoolInit ==
  /\ todo = {} /\ answered = {} /\ failed = {} /\ unfed = {}
  /\ ranging = FALSE /\ ctxDone = FALSE /\ jobsClosed = TRUE /\ resultsClosed = TRUE
  /\ job = [w \in Workers |-> NoItem]
  /\ working = {}

\* The caller makes the channels and the goroutines, and starts to range.
Start(batch) ==
  /\ ~ranging
  /\ ranging' = TRUE
  /\ todo' = batch
  /\ answered' = {}
  /\ failed' = {}
  /\ unfed' = batch
  /\ jobsClosed' = FALSE
  /\ working' = Workers
  /\ resultsClosed' = FALSE
  /\ UNCHANGED <<job, ctxDone>>

\* jobs <- sym, received by an idle worker.  The order is the list's; which
\* item that is makes no difference to the pool.
Feed(w, i) ==
  /\ ~jobsClosed
  /\ i \in unfed
  /\ w \in working
  /\ job[w] = NoItem
  /\ unfed' = unfed \ {i}
  /\ job' = [job EXCEPT ![w] = i]
  /\ UNCHANGED <<callerVars, ctxDone, jobsClosed, working, resultsClosed>>

\* The list is done, or <-ctx.Done() was chosen: defer close(jobs).
FeederEnds ==
  /\ ~jobsClosed
  /\ unfed = {} \/ ctxDone
  /\ jobsClosed' = TRUE
  /\ UNCHANGED <<callerVars, ctxDone, unfed, job, working, resultsClosed>>

\* Variant: a worker whose call fails returns without sending a result.
Deliver_ReturnOnError(w, ok) ==
  /\ ranging
  /\ job[w] # NoItem
  /\ answered' = IF ok THEN answered \cup {job[w]} ELSE answered
  /\ job' = [job EXCEPT ![w] = NoItem]
  /\ working' = IF ok THEN working ELSE working \ {w}
  /\ UNCHANGED <<todo, failed, ranging, ctxDone, unfed, jobsClosed, resultsClosed>>

\* results <- result{...}: the call has returned, and the caller takes the
\* answer; with an error the worker sends that and goes on.
Deliver(w, ok) ==
  /\ ranging
  /\ job[w] # NoItem
  /\ answered' = answered \cup {job[w]}
  /\ failed' = IF ok THEN failed ELSE failed \cup {job[w]}
  /\ job' = [job EXCEPT ![w] = NoItem]
  /\ UNCHANGED <<todo, ranging, ctxDone, unfed, jobsClosed, working, resultsClosed>>

\* The worker's range over jobs ends: defer wg.Done().
WorkerEnds(w) ==
  /\ jobsClosed
  /\ w \in working
  /\ job[w] = NoItem
  /\ working' = working \ {w}
  /\ UNCHANGED <<callerVars, ctxDone, unfed, jobsClosed, job, resultsClosed>>

\* wg.Wait(); close(results)
CloseResults ==
  /\ ~resultsClosed
  /\ working = {}
  /\ resultsClosed' = TRUE
  /\ UNCHANGED <<callerVars, ctxDone, unfed, jobsClosed, job, working>>

\* The caller's range over results ends.
RangeEnds ==
  /\ ranging
  /\ resultsClosed
  /\ ranging' = FALSE
  /\ UNCHANGED <<todo, answered, failed, ctxDone, poolVars>>

Cancel ==
  /\ ~ctxDone
  /\ ctxDone' = TRUE
  /\ UNCHANGED <<callerVars, poolVars>>
=============================================================================
