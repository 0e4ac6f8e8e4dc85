-------------------------- MODULE MCHistoricReport --------------------------
(***************************************************************************)
(* Instance of HistoricReport for TLC: answers without data, with a hole,    *)
(* with the drop at its bound and beyond; histories of which exactly the     *)
(* first two sessions must be counted, too busy, and empty.                 *)
(***************************************************************************)
EXTENDS HistoricReport

MCItems == 1 .. 2
MCTickers == {"A", "B"}
Bar(l, c) == [low |-> l, close |-> c]
MCBars == {<<>>, <<Bar(9, 9), Bar(8, 9)>>, <<Bar(6, 7), Bar(0, 0)>>}
MCVolumes == {<<0, 10, 30, 99>>, <<40, 0, 40>>, <<0, 0>>}
=============================================================================
