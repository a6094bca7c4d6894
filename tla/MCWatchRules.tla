----------------------------- MODULE MCWatchRules -----------------------------
(***************************************************************************)
(* A rule for TLC: every noData policy, with a cooldown of three windows   *)
(* and a minimum interval of two, and without either.                      *)
(***************************************************************************)
EXTENDS WatchRules
MCConfigs ==
  {[policy |-> p, cooldown |-> 3, interval |-> 2] : p \in Policies}
    \cup {[policy |-> "hold", cooldown |-> 0, interval |-> 0]}
=============================================================================
