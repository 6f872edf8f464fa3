----------------------------- MODULE MCPinning ------------------------------
(***************************************************************************)
(* Two cases that share one edge.  Edge e3 is in the trace of c1 but not   *)
(* in the graph tables; e2 is no edge of c1.                               *)
(***************************************************************************)
EXTENDS Pinning, TLC

CONSTANTS c1, c2, e1, e2, e3

MCTraceEdges == (c1 :> {e1, e3}) @@ (c2 :> {e1, e2})
=============================================================================
