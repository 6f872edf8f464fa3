------------------------------ MODULE MCCanvas ------------------------------
(***************************************************************************)
(* Every graph of four accounts and the four edges of a case, a self-loop  *)
(* of the seed included, with two hops and three edges for the code's      *)
(* three and hundred; edge 5 is a self-loop in another case.               *)
(***************************************************************************)
EXTENDS Canvas, TLC

CONSTANTS a, b, c, d

MCEnds == {S \in SUBSET Nodes : Cardinality(S) = 2} \cup {{a}}

MCGraphs == {[e \in Edges |-> IF e \in Trace THEN g[e] ELSE {a}] : g \in [Trace -> MCEnds]}

Symmetry == Permutations({b, c, d})

MCTime == (1 :> 2) @@ (2 :> NoTime) @@ (3 :> 1) @@ (4 :> 2) @@ (5 :> 1)
=============================================================================
