---------------------------- MODULE ParallelMap ----------------------------
(***************************************************************************)
(* What a pool of workers promises the function that starts it: the items of *)
(* one batch are answered in any order, each at most once, with a value or   *)
(* an error, and the range over the answers ends.  It ends early only when   *)
(* the caller's context is cancelled.  WorkerPool implements it; RealtimeRun *)
(* uses it for the history of its candidates.                               *)
(***************************************************************************)
CONSTANT Items

VARIABLES
  todo,      \* the batch
  answered,  \* the items whose answer the caller has taken
  failed,    \* those of them that were answered with an error
  ranging,   \* the caller is in its range over the answers
  ctxDone    \* its context

mapVars == <<todo, answered, failed, ranging, ctxDone>>

Init ==
  /\ todo = {}
  /\ answered = {}
  /\ failed = {}
  /\ ranging = FALSE
  /\ ctxDone = FALSE

Begin(batch) ==
  /\ ~ranging
  /\ ranging' = TRUE
  /\ todo' = batch
  /\ answered' = {}
  /\ failed' = {}
  /\ UNCHANGED ctxDone

Answer(i) ==
  /\ ranging
  /\ i \in todo \ answered
  /\ answered' = answered \cup {i}
  /\ failed' \in {failed, failed \cup {i}}
  /\ UNCHANGED <<todo, ranging, ctxDone>>

End ==
  /\ ranging
  /\ answered = todo \/ ctxDone
  /\ ranging' = FALSE
  /\ UNCHANGED <<todo, answered, failed, ctxDone>>

Cancel ==
  /\ ~ctxDone
  /\ ctxDone' = TRUE
  /\ UNCHANGED <<todo, answered, failed, ranging>>

Next ==
  \/ \E batch \in SUBSET Items : Begin(batch)
  \/ \E i \in Items : Answer(i)
  \/ End
  \/ Cancel

Spec == Init /\ [][Next]_mapVars /\ WF_mapVars(End \/ \E i \in Items : Answer(i))
=============================================================================
