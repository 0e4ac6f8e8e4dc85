---------------------------- MODULE LatestRequest ----------------------------
(***************************************************************************)
(* What the historic run queue promises those who post dates and those who  *)
(* look at the store, without its channel, the selects of its handlers or   *)
(* the states of its loop: answered requests wait, one at a time is run,     *)
(* and never one that had been answered when an already started one was     *)
(* posted.  Once the queue has stopped, nothing runs.  HistoricRunQueue      *)
(* implements it.                                                           *)
(***************************************************************************)
CONSTANT Requests

VARIABLES
  asked,     \* the requests whose handler has been called
  answered,  \* the requests whose handler has returned
  before,    \* what had been answered when each request was asked
  run,       \* "none", "active" or "done", for each request
  stopped    \* the queue has shut down

vars == <<asked, answered, before, run, stopped>>

Init ==
  /\ asked = {}
  /\ answered = {}
  /\ before = [r \in Requests |-> {}]
  /\ run = [r \in Requests |-> "none"]
  /\ stopped = FALSE

Idle == \A r \in Requests : run[r] # "active"

Ask(r) ==
  /\ r \notin asked
  /\ asked' = asked \cup {r}
  /\ before' = [before EXCEPT ![r] = answered]
  /\ UNCHANGED <<answered, run, stopped>>

Answer(r) ==
  /\ r \in asked \ answered
  /\ answered' = answered \cup {r}
  /\ UNCHANGED <<asked, before, run, stopped>>

\* No request that has been started was asked for after r was answered.
Start(r) ==
  /\ ~stopped
  /\ Idle
  /\ r \in answered
  /\ run[r] = "none"
  /\ \A s \in Requests : run[s] # "none" => r \notin before[s]
  /\ run' = [run EXCEPT ![r] = "active"]
  /\ UNCHANGED <<asked, answered, before, stopped>>

End(r) ==
  /\ run[r] = "active"
  /\ run' = [run EXCEPT ![r] = "done"]
  /\ UNCHANGED <<asked, answered, before, stopped>>

Stop ==
  /\ Idle
  /\ ~stopped
  /\ stopped' = TRUE
  /\ UNCHANGED <<asked, answered, before, run>>

Next ==
  \/ \E r \in Requests : Ask(r) \/ Answer(r) \/ Start(r) \/ End(r)
  \/ Stop

Spec == Init /\ [][Next]_vars
=============================================================================
