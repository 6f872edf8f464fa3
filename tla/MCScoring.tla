----------------------------- MODULE MCScoring ------------------------------
(***************************************************************************)
(* Every stream of three transactions among three accounts at three times, *)
(* transfers of an account to itself included.                             *)
(***************************************************************************)
EXTENDS Scoring, TLC

MCStreams == [Events -> Transaction]

Symmetry == Permutations(Accounts)
=============================================================================
