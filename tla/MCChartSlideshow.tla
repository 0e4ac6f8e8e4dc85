--------------------------- MODULE MCChartSlideshow ---------------------------
(***************************************************************************)
(* Instance of ChartSlideshow for TLC: two tickers, in lists that drop,      *)
(* move and bring back a symbol; two dates, replayed any number of times;   *)
(* one bar to guess the other from.                                         *)
(***************************************************************************)
EXTENDS ChartSlideshow

CONSTANTS A, B

MoreLists == {<<A, B>>, <<B>>, <<>>}
=============================================================================
