------------------------- MODULE MCHistoricRunQueue -------------------------
(***************************************************************************)
(* Instance of HistoricRunQueue for TLC.  Three requests are the fewest for *)
(* which a handler can drop what a second handler put there in the place of *)
(* a third one's request.                                                   *)
(***************************************************************************)
EXTENDS HistoricRunQueue
=============================================================================
