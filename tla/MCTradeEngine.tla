---------------------------- MODULE MCTradeEngine ----------------------------
(***************************************************************************)
(* Instances of TradeEngine for TLC.  Minute 0 is the open, 2 the selection, *)
(* 4 the entry cutoff, 5 the time exit.  From an entry at 10, the price 12   *)
(* takes the profit and 8 hits the stop.  An entry takes three trades (one   *)
(* to make a VWAP, one below it, one that crosses it) and an exit a fourth:  *)
(* a volume of five is the least with which a ticker that has been exited   *)
(* could be entered again.                                                  *)
(***************************************************************************)
EXTENDS TradeEngine
=============================================================================
