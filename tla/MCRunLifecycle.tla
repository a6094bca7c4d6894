--------------------------- MODULE MCRunLifecycle ---------------------------
(* The run lifecycle on a small instance. *)
EXTENDS RunLifecycle, TLC
=============================================================================
