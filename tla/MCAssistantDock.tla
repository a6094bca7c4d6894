---------------------------- MODULE MCAssistantDock ----------------------------
(***************************************************************************)
(* The dock for TLC.                                                       *)
(***************************************************************************)
EXTENDS AssistantDock
================================================================================
