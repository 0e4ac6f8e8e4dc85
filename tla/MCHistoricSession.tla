-------------------------- MODULE MCHistoricSession --------------------------
(***************************************************************************)
(* Instances of HistoricSession for TLC: a watchlist of two and two runs,   *)
(* the least that lets a goroutine of one run meet the session of another.  *)
(***************************************************************************)
EXTENDS HistoricSession
=============================================================================
