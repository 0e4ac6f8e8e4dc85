-------------------------- MODULE MCRuntimeFilters --------------------------
(***************************************************************************)
(* Instance of RuntimeFilters for TLC: two pages, two numbers on both sides   *)
(* of every bound, and a configuration that is fine, one without frac, and    *)
(* one whose pair only the store rejects.                                   *)
(***************************************************************************)
EXTENDS RuntimeFilters

Config(lo, hi, frac) == [x \in Fields |-> CASE x = "lo" -> lo [] x = "hi" -> hi [] OTHER -> frac]
MCConfigs == {Config(1, 2, 0), Config(2, 1, 1), Config(1, 2, 2)}
MCTyped == [x \in Fields |-> CASE x = "lo" -> {2} [] x = "hi" -> {1} [] OTHER -> {2}]
=============================================================================
