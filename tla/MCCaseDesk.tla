----------------------------- MODULE MCCaseDesk -----------------------------
(***************************************************************************)
(* Two clients and one analyst at one case with one edge, which may be     *)
(* created with or without the evidence that its fixture brings.           *)
(***************************************************************************)
EXTENDS CaseDesk, TLC

CONSTANTS c1, e1

MCTraceEdges == c1 :> {e1}

MCFixtures == {Sources}

Symmetry == Permutations(Clients) \cup Permutations(Dispositions)
=============================================================================
