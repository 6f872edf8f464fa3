------------------------------ MODULE MCBudget ------------------------------
(***************************************************************************)
(* Two request threads, two cases, two months, one restart.  A full        *)
(* reservation of 150 prompt bytes and 40 output tokens costs 2 VND, the   *)
(* smallest call 1 VND: the monthly cap of 3 VND lets a full and a small   *)
(* one in.  A report of 400 tokens is above every reservation: it passes   *)
(* the case's caps of 350 and 40 tokens, and with 400 output tokens (6     *)
(* VND) the month's.                                                       *)
(***************************************************************************)
EXTENDS Budget, TLC

Symmetry == Permutations(Threads) \cup Permutations(Cases)
=============================================================================
