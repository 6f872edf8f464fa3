----------------------------- MODULE MCCaseApi ------------------------------
(***************************************************************************)
(* Two request threads on one case with one edge: two pin actions, so that *)
(* three revisions of the case meet in the cache.                          *)
(***************************************************************************)
EXTENDS CaseApi, TLC

CONSTANTS c1, e1

MCTraceEdges == c1 :> {e1}
=============================================================================
