---------------------------- MODULE MCWorkspace ----------------------------
(***************************************************************************)
(* One edge, which the analyst of the page and another one pin and unpin:  *)
(* four snapshots and two refreshes, so that a workbench fetched for the   *)
(* first refresh can arrive after the second.                              *)
(***************************************************************************)
EXTENDS Workspace
=============================================================================
