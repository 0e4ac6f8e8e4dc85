--------------------------- MODULE MCRealtimeRun ---------------------------
(***************************************************************************)
(* Instance of RealtimeRun for TLC: two symbols, a window of two minutes,    *)
(* and filters that a ticker passes with both of its bars, so that a bar     *)
(* more or less decides.                                                    *)
(***************************************************************************)
EXTENDS RealtimeRun

MCPasses(bars) == Len(bars) = 2
=============================================================================
