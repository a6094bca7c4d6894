---------------------------- MODULE MCMissionTree ----------------------------
(***************************************************************************)
(* A root that holds two crews for TLC: their leaves contend for two       *)
(* permits and one budget; a second root is there for the session's guard. *)
(***************************************************************************)
EXTENDS MissionTree
CONSTANTS r1, r2, s1, s2, a1, a2, a3, a4
MCPlan == [m \in Missions |-> CASE m = r1 -> <<s1, s2>>
                                [] m = r2 -> <<a4>>
                                [] m = s1 -> <<a1, a2>>
                                [] m = s2 -> <<a3>>]
MCCrew(root, first, n, cap) ==
  [topology |-> [m \in Missions |-> CASE m = r1 -> root [] m = s1 -> first [] OTHER -> "parallel"],
   cap |-> cap,
   request |-> [s \in Subs |-> IF s = s1 THEN n ELSE 0]]
\* The first crew names more than there is, or a part of it; one agent's cost spends all
\* of the budget, two do, or there is enough for two crews.
MCCrews ==
  {MCCrew("parallel", "parallel", 1, 2), MCCrew("parallel", "debate", 4, 3),
   MCCrew("parallel", "best_of_n", 1, 3), MCCrew("pipeline", "pipeline", 1, 5),
   MCCrew("best_of_n", "parallel", 1, 3)}
=============================================================================
