--------------------------- MODULE MCEventDelivery ---------------------------
(***************************************************************************)
(* Instances of EventDelivery for TLC: a list of two events, so that three  *)
(* overflow it; a channel of one, so that two events of one tick overflow   *)
(* it; two ids, of which the page remembers one.                            *)
(***************************************************************************)
EXTENDS EventDelivery
=============================================================================
