------------------------------ MODULE MCHubTurn ------------------------------
(***************************************************************************)
(* Hub turns for TLC: two sessions that may share a backend, so that they  *)
(* contend for one slot, one permit and one elicitation route.             *)
(***************************************************************************)
EXTENDS HubTurn
=============================================================================
