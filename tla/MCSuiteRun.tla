----------------------------- MODULE MCSuiteRun -----------------------------
(***************************************************************************)
(* SuiteRun on a small matrix for TLC: more cells than workers, so that    *)
(* the queue, the cap and the halting of the pool all matter.              *)
(***************************************************************************)
EXTENDS SuiteRun
=============================================================================
