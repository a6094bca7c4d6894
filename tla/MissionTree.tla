----------------------------- MODULE MissionTree -----------------------------
(***************************************************************************)
(* The missions of one hub session: proposing and approving, the recursion *)
(* that runs a crew tree level by level under a topology strategy, the     *)
(* shared limiter, the shared and the per-level budgets, stop and stopAgent*)
(* and the reconciliation of a restart.                                    *)
(*                                                                         *)
(* A nested mission and the container child session of the crew slot that  *)
(* expands into it share a key.  The process is single-threaded: what      *)
(* promise continuations do (Launch, Begin, NextRound, Conclude) comes     *)
(* before the next outside event, so the actions of the outside (requests, *)
(* model answers, crashes) wait for Quiescent.                             *)
(***************************************************************************)
EXTENDS Naturals, Sequences, FiniteSets, SequencesExt

CONSTANTS
  Roots,      \* the missions the session may propose
  Subs,       \* the nested missions (and their container children)
  Agents,     \* the leaf child sessions
  Plan,       \* the slots of each mission, in plan order
  Width,      \* maxParallel
  Costs,      \* what one agent run may cost
  SynthCost,  \* what a synthesis costs
  Rounds,     \* debateRounds
  Crews,      \* the plans: topologies, budgets.maxCostUsd, the budgets crew slots name (0: none)
  MaxFaults   \* bound: child sessions deleted and crashes

Missions == Roots \cup Subs
Kids == Agents \cup Subs
SlotSet(m) == {Plan[m][i] : i \in DOMAIN Plan[m]}
Home[k \in Kids] == CHOOSE m \in Missions : k \in SlotSet(m)
\* The missions around x, innermost not first.
Above[x \in Missions \cup Agents] == IF x \in Roots THEN {} ELSE {Home[x]} \cup Above[Home[x]]
RootOf(x) == CHOOSE r \in Roots : r = x \/ r \in Above[x]
Inside(m) == {k \in Kids : m \in Above[k]}

ASSUME PlanAssumption ==
  /\ IsFiniteSet(Roots) /\ IsFiniteSet(Kids)
  /\ Roots \cap Kids = {} /\ Subs \cap Agents = {}
  /\ Plan \in [Missions -> Seq(Kids)]
  /\ \A m \in Missions : Len(Plan[m]) > 0 /\ Cardinality(SlotSet(m)) = Len(Plan[m])
  /\ \A k \in Kids : \E m \in Missions : k \in SlotSet(m)
  /\ \A m, n \in Missions : m # n => SlotSet(m) \cap SlotSet(n) = {}
\* No crew is nested in itself, at whatever depth.
ASSUME NestingAssumption == \A S \in SUBSET Subs : S # {} => \E s \in S : Home[s] \notin S
ASSUME BudgetAssumption ==
  /\ Width \in Nat \ {0} /\ Costs \subseteq Nat /\ IsFiniteSet(Costs) /\ Costs # {}
  /\ SynthCost \in Nat /\ Rounds \in 1..3 /\ MaxFaults \in Nat
Topologies == {"parallel", "pipeline", "debate", "best_of_n"}
\* A debate would expand a crew slot once more per round: its levels hold leaves only.
ASSUME CrewsAssumption ==
  /\ Crews \subseteq [topology : [Missions -> Topologies], cap : Nat \ {0}, request : [Subs -> Nat]]
  /\ \A c \in Crews, m \in Missions : c.topology[m] = "debate" => SlotSet(m) \subseteq Agents

VARIABLES
  crew,     \* configuration: the plan that the session's missions follow
  mission,  \* the hub_missions rows
  order,    \* the missions in the order their rows were created
  level,    \* where each level's strategy is
  kid,      \* the child session rows and their slots
  abort,    \* the abort controllers: one per mission control, one per running agent
  limiter,  \* the permits taken and the waiters, per root
  ledger,   \* the LevelBudget of each level
  meter,    \* the runtime cost total and trip of each root
  faults    \* how many child sessions were deleted and how often the process crashed

vars == <<crew, mission, order, level, kid, abort, limiter, ledger, meter, faults>>

Terminal == {"completed", "stopped", "failed"}
Unborn == {"none", "planning", "refused"}  \* no row: not proposed, being planned, the planner failed
MissionStatuses == Terminal \cup Unborn \cup {"proposed", "running", "synthesizing"}
Phases == {"off", "running", "broken", "judging", "synthesizing"}
RowStates == {"none", "pending", "running", "completed", "aborted", "error", "deleted"}
Acts == {"idle", "queued", "granted", "running", "done", "lost"}
InFlight == {"queued", "granted", "running"}
SettledRows == {"completed", "aborted", "error"}

\* Work of a level that the process still carries.
Active(m) == level[m].phase \in {"running", "judging", "synthesizing"}
Aborted(m) == abort[m]
\* isTripped: this level, an ancestor or the whole tree.
Tripped(m) == meter[RootOf(m)].tripped \/ \E n \in {m} \cup Above[m] : ledger[n].tripped
InFlightLeaves(r) == {a \in Agents : r \in Above[a] /\ kid[a].act \in InFlight}

-----------------------------------------------------------------------------
\* The concurrency limiter.

\* A permit goes straight to the next waiter, else it is free.
GrantedTo(r) == IF limiter[r].waiters = <<>> THEN {} ELSE {Head(limiter[r].waiters)}
\* Mutation: the permit is handed over and given back.
AfterDoubleRelease(r) ==
  [limiter EXCEPT ![r] = [active |-> @.active - 1, waiters |-> IF @.waiters = <<>> THEN <<>> ELSE Tail(@.waiters)]]
\* Mutation: a permit that nobody waits for is not given back.
AfterReleaseLost(r) ==
  IF limiter[r].waiters = <<>> THEN limiter ELSE [limiter EXCEPT ![r].waiters = Tail(@)]
AfterRelease(r) ==
  IF limiter[r].waiters = <<>>
    THEN [limiter EXCEPT ![r].active = @ - 1]
    ELSE [limiter EXCEPT ![r].waiters = Tail(@)]

\* The levels from m down to k all work: one that broke has dropped its listener.
Linked(m, k) == \A n \in Above[k] \cap Inside(m) : Active(n)

\* Stopping: a mission's abort reaches every slot in flight that is linked to it.
\* Mutation: the nested level's control is not chained to its container.
ReachOwnLevel(m) == {m} \cup {k \in SlotSet(m) : kid[k].act \in InFlight}
Reach(m) == {m} \cup {k \in Inside(m) : kid[k].act \in InFlight /\ Linked(m, k)}
Cascade(m) == [x \in Missions \cup Agents |-> abort[x] \/ x \in Reach(m)]

-----------------------------------------------------------------------------
\* The strategies.

Report(m, i) == kid[level[m].active[i]].report
PoolWidth(m) == IF crew.topology[m] = "pipeline" THEN 1 ELSE Min({Width, Len(level[m].active)})
\* A worker whose slot threw is gone for good.
Busy(m) == Cardinality({k \in SlotSet(m) : kid[k].act \in InFlight \cup {"lost"}})

CanLaunch(m) ==
  /\ level[m].phase \in {"running", "broken"}
  /\ level[m].next <= Len(level[m].active)
  /\ ~Aborted(m) /\ ~Tripped(m)
  /\ Busy(m) < PoolWidth(m)
  /\ crew.topology[m] = "pipeline" /\ level[m].next > 1 => Report(m, level[m].next - 1)

RoundOver(m) ==
  /\ level[m].phase = "running"
  /\ \A k \in SlotSet(m) : kid[k].act \notin InFlight
  /\ ~CanLaunch(m)

\* The slots that argue on, in their order.
WhoReported(slots, k) == IF kid[k].report THEN Append(slots, k) ELSE slots
StillActive(m) == FoldLeft(WhoReported, <<>>, level[m].active)
AnotherRound(m) ==
  /\ crew.topology[m] = "debate" /\ level[m].round < Rounds
  /\ ~Aborted(m) /\ ~Tripped(m)
  /\ StillActive(m) # <<>>

Quiescent ==
  /\ \A m \in Missions : ~CanLaunch(m) /\ ~RoundOver(m)
  /\ \A a \in Agents : kid[a].act # "granted"

\* The strategy's own verdict on its completeness, or a nested crew's.
Produced(m) == {k \in SlotSet(m) : kid[k].produced}
\* Mutation: a nested crew that was cut short is not passed on.
PartialByCount(m) ==
  \/ Aborted(m) \/ Tripped(m) \/ Produced(m) = {}
  \/ crew.topology[m] \in {"parallel", "pipeline"} /\ Produced(m) # SlotSet(m)
  \/ crew.topology[m] = "debate" /\ (level[m].round < Rounds \/ Len(StillActive(m)) < Len(Plan[m]))
Partial(m) ==
  \/ Aborted(m) \/ Tripped(m) \/ ledger[m].childPartial
  \/ Produced(m) = {}
  \/ crew.topology[m] \in {"parallel", "pipeline"} /\ Produced(m) # SlotSet(m)
  \/ crew.topology[m] = "debate" /\ (level[m].round < Rounds \/ Len(StillActive(m)) < Len(Plan[m]))

-----------------------------------------------------------------------------
\* runMissionLevel spawns the children and hands the plan to the strategy.
OffLevel(m) == [phase |-> "off", next |-> 1, round |-> 1, active |-> Plan[m]]
NoKid == [row |-> "none", act |-> "idle", report |-> FALSE, produced |-> FALSE]
NoPermits == [active |-> 0, waiters |-> <<>>]
NoSpend == [total |-> 0, tripped |-> FALSE]
OpenLevel(lv, m) ==
  [lv EXCEPT ![m] = [OffLevel(m) EXCEPT !.phase = "running"]]
Spawned(kids, m) ==
  [k \in Kids |-> IF k \in SlotSet(m) THEN [kids[k] EXCEPT !.row = "pending"] ELSE kids[k]]
Ledger(cap, before) ==
  [cap |-> cap, reservable |-> cap, spent |-> 0, tripped |-> FALSE, childPartial |-> FALSE,
   before |-> before]

\* The row of a root and its running level.
Open(r) ==
  /\ mission' = [mission EXCEPT ![r].status = "running"]
  /\ level' = OpenLevel(level, r)
  /\ kid' = Spawned(kid, r)
  /\ ledger' = [ledger EXCEPT ![r] = Ledger(crew.cap, 0)]
  /\ UNCHANGED <<abort, limiter, meter>>

-----------------------------------------------------------------------------
\* Proposing.  The guard reads the session's newest mission row; the catalog and
\* the planner are awaited before the row is created.
getMissionBySession == IF order = <<>> THEN {} ELSE {order[Len(order)]}

Propose(r) ==
  /\ Quiescent
  /\ mission[r].status = "none"
  /\ \A m \in getMissionBySession : mission[m].status \in Terminal
  /\ mission' = [mission EXCEPT ![r].status = "planning"]
  /\ UNCHANGED <<crew, order, level, kid, abort, limiter, ledger, meter, faults>>

PlannerFails(r) ==
  /\ Quiescent
  /\ mission[r].status = "planning"
  /\ mission' = [mission EXCEPT ![r].status = "refused"]
  /\ UNCHANGED <<crew, order, level, kid, abort, limiter, ledger, meter, faults>>

\* The plan is clamped and its row created; it waits for the operator (a tree over the
\* caps throws after this point, a server that is not ready blocks the approval: both
\* leave it proposed) or is approved by the autonomy dial.
Planned(r) ==
  /\ Quiescent
  /\ mission[r].status = "planning"
  /\ order' = Append(order, r)
  /\ \/ /\ mission' = [mission EXCEPT ![r].status = "proposed"]
        /\ UNCHANGED <<level, kid, abort, limiter, ledger, meter>>
     \/ Open(r)
  /\ UNCHANGED <<crew, faults>>

Approve(r) ==
  /\ Quiescent
  /\ mission[r].status = "proposed"
  /\ Open(r)
  /\ UNCHANGED <<crew, order, faults>>

-----------------------------------------------------------------------------
\* Launching the next slot of a level.

LaunchLeaf(m, a) ==
  LET r == RootOf(m)
      free == limiter[r].active < Width
  IN /\ level' = [level EXCEPT ![m].next = @ + 1]
     /\ kid' = [kid EXCEPT ![a].act = IF free THEN "granted" ELSE "queued", ![a].report = FALSE]
     /\ limiter' = IF free THEN [limiter EXCEPT ![r].active = @ + 1]
                           ELSE [limiter EXCEPT ![r].waiters = Append(@, a)]
     /\ UNCHANGED <<mission, order, abort, ledger>>

\* A crew slot settles without running: over-deep, cyclic, unresolvable or over the
\* agent cap (a failed container), or without allocation (a skipped one).
SettleUnrun(m, s, rowState) ==
  /\ level' = [level EXCEPT ![m].next = @ + 1]
  /\ kid' = [kid EXCEPT ![s].act = "done", ![s].row = rowState]
  /\ UNCHANGED <<mission, order, abort, limiter>>

\* allocateChildBudget, or what the level has left.
\* Mutation: a named budget is not clamped to what is left.
AllocationUnclamped(m, s) ==
  IF crew.request[s] > 0 THEN crew.request[s] ELSE ledger[m].reservable
Allocation(m, s) ==
  IF crew.request[s] > 0 THEN Min({crew.request[s], ledger[m].reservable}) ELSE ledger[m].reservable

\* The budget is reserved, the nested row created and its level opened at once.
OpenSubCrew(m, s) ==
  LET cap == Allocation(m, s)
      begun == [kid EXCEPT ![s].act = "running"]
  IN /\ cap > 0
     /\ level' = OpenLevel([level EXCEPT ![m].next = @ + 1], s)
     /\ kid' = Spawned(begun, s)
     /\ ledger' = [ledger EXCEPT ![m].reservable = @ - cap,
                                 ![s] = Ledger(cap, meter[RootOf(m)].total)]
     /\ mission' = [mission EXCEPT ![s].status = "running"]
     /\ order' = Append(order, s)
     /\ UNCHANGED <<abort, limiter>>

LaunchSubCrew(m, s) ==
  \/ SettleUnrun(m, s, "error") /\ UNCHANGED ledger
  \/ /\ Allocation(m, s) = 0
     /\ SettleUnrun(m, s, "aborted")
     /\ ledger' = [ledger EXCEPT ![m].childPartial = TRUE]
  \/ OpenSubCrew(m, s)

Launch(m) ==
  /\ CanLaunch(m)
  /\ LET k == level[m].active[level[m].next]
     IN IF k \in Agents THEN LaunchLeaf(m, k) ELSE LaunchSubCrew(m, k)
  /\ UNCHANGED <<crew, meter, faults>>

-----------------------------------------------------------------------------
\* Leaf agents.

\* The budgets of a after it cost c: the shared ceiling, whose trip aborts every leaf in
\* flight of the tree, and the soft trip of its level.
Charged(m, c) == [ledger EXCEPT ![m].spent = @ + c, ![m].tripped = @ \/ ledger[m].spent + c >= ledger[m].cap]
\* Mutation: a trip aborts nobody.
TripNobody(a, total) == {}
TripTargets(a, total) ==
  IF total >= crew.cap THEN InFlightLeaves(RootOf(a)) \ {a} ELSE {}

\* The leaf's slot is over: row, report and cost are in, its controller is gone, its
\* permit goes on.
Leave(a, rowState, reported, c) ==
  LET r == RootOf(a)
      total == meter[r].total + c
  IN /\ kid' = [k \in Kids |->
          CASE k = a -> [kid[a] EXCEPT !.row = rowState, !.act = "done", !.report = reported,
                                       !.produced = @ \/ reported]
            [] k \in GrantedTo(r) -> [kid[k] EXCEPT !.act = "granted"]
            [] OTHER -> kid[k]]
     /\ limiter' = AfterRelease(r)
     /\ meter' = [meter EXCEPT ![r] = [total |-> total, tripped |-> @.tripped \/ total >= crew.cap]]
     /\ abort' = [x \in Missions \cup Agents |->
                    x # a /\ (abort[x] \/ x \in TripTargets(a, total))]
     /\ ledger' = Charged(Home[a], c)
     /\ UNCHANGED <<mission, level>>

\* The leaf's slot throws (its child session is gone, so settling it fails): its level
\* rejects while its siblings run on; a root fails, a nested crew's container does.
Lose(a) ==
  LET r == RootOf(a)
      m == Home[a]
      first == level[m].phase = "running"
  IN /\ kid' = [k \in Kids |->
          CASE k = a -> [kid[a] EXCEPT !.act = "lost", !.report = FALSE]
            [] k \in GrantedTo(r) -> [kid[k] EXCEPT !.act = "granted"]
            [] k = m /\ first -> [kid[k] EXCEPT !.act = "done", !.row = "error"]
            [] OTHER -> kid[k]]
     /\ limiter' = AfterRelease(r)
     /\ level' = [level EXCEPT ![m].phase = "broken"]
     /\ mission' = [mission EXCEPT ![m].status = IF m \in Roots /\ first THEN "failed" ELSE @]
     /\ abort' = [abort EXCEPT ![a] = FALSE]
     /\ UNCHANGED <<meter, ledger>>

\* settleSkippedChild leaves a settled row alone.
Skipped(row) == IF row \in SettledRows THEN row ELSE "aborted"

\* runOneAgent, once the permit is there.
Begin(a) ==
  /\ kid[a].act = "granted"
  /\ \/ /\ kid[a].row = "deleted"
        /\ Lose(a)
     \/ /\ kid[a].row # "deleted" /\ abort[a]
        /\ Leave(a, Skipped(kid[a].row), FALSE, 0)
     \/ /\ kid[a].row # "deleted" /\ ~abort[a]
        /\ kid' = [kid EXCEPT ![a].act = "running", ![a].row = "running"]
        /\ UNCHANGED <<mission, level, abort, limiter, ledger, meter>>
  /\ UNCHANGED <<crew, order, faults>>

\* The agent run answers: with a report, without one (or too late: an abort discards it,
\* its cost stays), or by throwing, which charges nothing.
AgentReports(a, c) ==
  /\ ~abort[a]
  /\ Leave(a, "completed", TRUE, c)
\* (A row that the session runner's turn settled itself stays; one settled state stands
\* for all.)
AgentWithout(a, c) == Leave(a, Skipped(kid[a].row), FALSE, c)
AgentThrows(a) == Leave(a, "error", FALSE, 0)

Answer(a) ==
  /\ Quiescent
  /\ kid[a].act = "running"
  /\ IF kid[a].row = "deleted"
       THEN Lose(a)
       ELSE \/ \E c \in Costs : AgentReports(a, c) \/ AgentWithout(a, c)
            \/ AgentThrows(a)
  /\ UNCHANGED <<crew, order, faults>>

-----------------------------------------------------------------------------
\* The end of a level.

NextRound(m) ==
  /\ RoundOver(m) /\ AnotherRound(m)
  /\ level' = [level EXCEPT ![m] = [phase |-> "running", next |-> 1, round |-> @.round + 1,
                                    active |-> StillActive(m)]]
  /\ UNCHANGED <<crew, mission, order, kid, abort, limiter, ledger, meter, faults>>

\* Every child that never ran is settled; one that was deleted makes the level throw.
SettleLevel(m) ==
  IF \E k \in SlotSet(m) : kid[k].row = "deleted"
    THEN /\ level' = [level EXCEPT ![m].phase = "broken"]
         /\ mission' = [mission EXCEPT ![m].status = IF m \in Roots THEN "failed" ELSE @]
         /\ kid' = IF m \in Roots THEN kid
                   ELSE [kid EXCEPT ![m].act = "done", ![m].row = "error"]
    ELSE /\ level' = [level EXCEPT ![m].phase = "synthesizing"]
         /\ mission' = [mission EXCEPT ![m].status = "synthesizing", ![m].partial = Partial(m)]
         /\ kid' = [k \in Kids |-> IF k \in SlotSet(m) THEN [kid[k] EXCEPT !.row = Skipped(@)]
                                   ELSE kid[k]]

Conclude(m) ==
  /\ RoundOver(m) /\ ~AnotherRound(m)
  /\ IF crew.topology[m] = "best_of_n" /\ Cardinality(Produced(m)) > 1
       THEN level' = [level EXCEPT ![m].phase = "judging"] /\ UNCHANGED <<mission, kid>>
       ELSE SettleLevel(m)
  /\ UNCHANGED <<crew, order, abort, limiter, ledger, meter, faults>>

\* The blind judge answers or fails over to the deterministic winner, at no cost.
Judged(m) ==
  /\ Quiescent
  /\ level[m].phase = "judging"
  /\ SettleLevel(m)
  /\ UNCHANGED <<crew, order, abort, limiter, ledger, meter, faults>>

\* A level's cost: what the tree's meter moved since the level began, and the synthesis.
Subtotal(m) == meter[RootOf(m)].total - ledger[m].before + SynthCost

\* A nested crew's answer becomes one report of its container, charged to the parent's
\* ledger; a crew without reports settles its container skipped.
RollUp(s) ==
  LET p == Home[s]
      produced == Produced(s) # {}
  IN /\ kid' = [kid EXCEPT ![s].act = "done", ![s].report = produced, ![s].produced = @ \/ produced,
                           ![s].row = IF produced THEN "completed" ELSE Skipped(@)]
     /\ ledger' = IF produced
                    THEN [Charged(p, Subtotal(s)) EXCEPT ![p].childPartial = @ \/ mission[s].partial]
                    ELSE ledger

Synthesized(m) ==
  /\ Quiescent
  /\ level[m].phase = "synthesizing"
  /\ mission' = [mission EXCEPT ![m].status = IF Aborted(m) THEN "stopped" ELSE "completed"]
  /\ level' = [level EXCEPT ![m].phase = "off"]
  /\ IF m \in Subs THEN RollUp(m) ELSE UNCHANGED <<kid, ledger>>
  /\ abort' = [abort EXCEPT ![m] = FALSE]
  /\ UNCHANGED <<crew, order, limiter, meter, faults>>

-----------------------------------------------------------------------------
\* The operator, deletion and restarts.

Stop(m) ==
  /\ Quiescent
  /\ \/ /\ Active(m)
        /\ abort' = Cascade(m)
        /\ UNCHANGED mission
     \/ /\ mission[m].status = "proposed"
        /\ mission' = [mission EXCEPT ![m].status = "stopped"]
        /\ UNCHANGED abort
  /\ UNCHANGED <<crew, order, level, kid, limiter, ledger, meter, faults>>

\* One agent's stop, or its wall cap.  (A container's stop is its nested mission's.)
StopAgent(a) ==
  /\ Quiescent
  /\ Active(Home[a]) /\ kid[a].act \in InFlight
  /\ abort' = [abort EXCEPT ![a] = TRUE]
  /\ UNCHANGED <<crew, mission, order, level, kid, limiter, ledger, meter, faults>>

\* DELETE of the child session of an agent; nothing looks at its mission.  The sessions of
\* containers and of the chat stay.
DeleteChild(a) ==
  /\ Quiescent
  /\ faults < MaxFaults
  /\ level[Home[a]].phase # "off"   \* bound: later deletions touch nothing else
  /\ kid[a].row # "deleted"
  /\ faults' = faults + 1
  /\ kid' = [kid EXCEPT ![a].row = "deleted"]
  /\ UNCHANGED <<crew, mission, order, level, abort, limiter, ledger, meter>>

\* Mutation: the mission fails and its children stay as they were.
ReconcileMissionsOnly ==
  LET orphans == {m \in Missions : mission[m].status \in {"running", "synthesizing"}}
  IN /\ mission' = [m \in Missions |->
          [mission[m] EXCEPT !.status = IF m \in orphans THEN "failed"
                                        ELSE IF @ = "planning" THEN "refused" ELSE @]]
     /\ kid' = [k \in Kids |->
          [kid[k] EXCEPT !.act = "idle", !.report = FALSE,
             !.row = IF @ = "running" THEN "aborted" ELSE @]]
\* At boot: the missions that were running fail and take their children with them, then
\* every session still running is aborted.
Reconcile ==
  LET orphans == {m \in Missions : mission[m].status \in {"running", "synthesizing"}}
  IN /\ mission' = [m \in Missions |->
          [mission[m] EXCEPT !.status = IF m \in orphans THEN "failed"
                                        ELSE IF @ = "planning" THEN "refused" ELSE @]]
     /\ kid' = [k \in Kids |->
          [kid[k] EXCEPT !.act = "idle", !.report = FALSE,
             !.row = IF @ = "running" \/ (@ = "pending" /\ Home[k] \in orphans)
                       THEN "aborted" ELSE @]]

\* Everything in memory is lost; the boot reconciles the rows.
Crash ==
  /\ Quiescent
  /\ faults < MaxFaults
  /\ faults' = faults + 1
  /\ Reconcile
  /\ level' = [m \in Missions |-> OffLevel(m)]
  /\ abort' = [x \in Missions \cup Agents |-> FALSE]
  /\ limiter' = [r \in Roots |-> NoPermits]
  /\ ledger' = [m \in Missions |-> Ledger(0, 0)]
  /\ meter' = [r \in Roots |-> NoSpend]
  /\ UNCHANGED <<crew, order>>

-----------------------------------------------------------------------------
Init ==
  /\ crew \in Crews
  /\ mission = [m \in Missions |-> [status |-> "none", partial |-> FALSE]]
  /\ order = <<>>
  /\ level = [m \in Missions |-> OffLevel(m)]
  /\ kid = [k \in Kids |-> NoKid]
  /\ abort = [x \in Missions \cup Agents |-> FALSE]
  /\ limiter = [r \in Roots |-> NoPermits]
  /\ ledger = [m \in Missions |-> Ledger(0, 0)]
  /\ meter = [r \in Roots |-> NoSpend]
  /\ faults = 0

Internal(m) == Launch(m) \/ NextRound(m) \/ Conclude(m)

Next ==
  \/ \E m \in Missions : Internal(m) \/ Judged(m) \/ Synthesized(m) \/ Stop(m)
  \/ \E r \in Roots : Propose(r) \/ PlannerFails(r) \/ Planned(r) \/ Approve(r)
  \/ \E a \in Agents : Begin(a) \/ Answer(a) \/ StopAgent(a) \/ DeleteChild(a)
  \/ Crash

Spec == Init /\ [][Next]_vars

\* Continuations run; the planner, an agent run, the judge and a synthesis answer or
\* fail (an agent's session is clocked, its extraction timed out).  Nobody need approve,
\* stop or delete.
FairSpec ==
  /\ Spec
  /\ \A m \in Missions : WF_vars(Internal(m)) /\ WF_vars(Judged(m)) /\ WF_vars(Synthesized(m))
  /\ \A a \in Agents : WF_vars(Begin(a)) /\ WF_vars(Answer(a))
  /\ \A r \in Roots : WF_vars(PlannerFails(r) \/ Planned(r))

-----------------------------------------------------------------------------
\* The state has its types.
TypeOK ==
  /\ crew \in Crews
  /\ mission \in [Missions -> [status : MissionStatuses, partial : BOOLEAN]]
  /\ order \in Seq(Missions)
  /\ level \in [Missions -> [phase : Phases, next : Nat, round : 1..Rounds, active : Seq(Kids)]]
  /\ kid \in [Kids -> [row : RowStates, act : Acts, report : BOOLEAN, produced : BOOLEAN]]
  /\ abort \in [Missions \cup Agents -> BOOLEAN]
  /\ limiter \in [Roots -> [active : Nat, waiters : Seq(Agents)]]
  /\ ledger \in [Missions -> [cap : Nat, reservable : Nat, spent : Nat, tripped : BOOLEAN,
                              childPartial : BOOLEAN, before : Nat]]
  /\ meter \in [Roots -> [total : Nat, tripped : BOOLEAN]]
  /\ faults \in 0..MaxFaults

\* createConcurrencyLimiter over a whole tree: the permits taken are the leaves that run,
\* the waiters the leaves that queue, and nobody queues while a permit is free -- across
\* hand-overs, stops, trips and slots that throw.
PermitsConserved ==
  \A r \in Roots :
    LET holders == {a \in InFlightLeaves(r) : kid[a].act # "queued"}
        waiting == InFlightLeaves(r) \ holders
    IN /\ limiter[r].active = Cardinality(holders) /\ limiter[r].active <= Width
       /\ Len(limiter[r].waiters) = Cardinality(waiting)
       /\ \A a \in waiting : \E i \in DOMAIN limiter[r].waiters : limiter[r].waiters[i] = a
       /\ waiting # {} => limiter[r].active = Width

\* A mission at rest is quiet (runMissionLevel's bulk settle, runSubCrew, the boot
\* reconciliation): no slot below it is in flight, no child session is still pending or
\* running and no nested mission is open -- unless a child session was deleted under it.
QuietAtRest ==
  \A m \in Missions :
    /\ mission[m].status \in Terminal
    /\ \A k \in Inside(m) : kid[k].row # "deleted"
    => \A k \in Inside(m) :
         /\ kid[k].act \notin InFlight
         /\ kid[k].row \notin {"pending", "running"}
         /\ k \in Subs => mission[k].status \in Terminal \cup {"none"}

\* Honest partial (childPartial, TopologyOutcome.partial): an answer that is not marked
\* partial stands on a report of every planned agent at every depth.  A best-of-N level
\* needs its winner only.
NeverSilentlyTruncated ==
  \A m \in Missions :
    mission[m].status = "completed" /\ ~mission[m].partial
    => \A k \in Inside(m) :
         (\A n \in Above[k] : crew.topology[n] # "best_of_n") => kid[k].produced

\* A stop reaches every level that is linked to it (the downward missionAbort cascade): as
\* long as a stopped mission still works, no slot in flight there runs without its abort
\* raised.
StopReachesAll ==
  \A m \in Missions : Active(m) /\ abort[m] =>
    \A k \in Inside(m) : kid[k].act \in InFlight /\ Linked(m, k) => abort[k]

\* The caps are read after the fact (buildRunSlot), so a tree may pass its budget -- but no
\* agent run begins once the shared ceiling tripped or a mission it is linked to was
\* stopped: a tree overshoots by the runs that held a permit, never by one that queued.
NothingStartsLate ==
  [][\A a \in Agents :
       kid[a].act # "running" /\ kid'[a].act = "running"
       => /\ ~meter[RootOf(a)].tripped
          /\ ~\E m \in Above[a] : Active(m) /\ abort[m] /\ Linked(m, a)]_vars

\* Every mission that was started comes to rest, or its level threw.
MissionsEnd ==
  \A m \in Missions :
    mission[m].status = "running" ~>
      (mission[m].status \in Terminal \/ (m \in Subs /\ level[m].phase = "broken"))

\* session-service.ts names a "one-live-mission invariant (D-AH8)": a session has one
\* mission that is not at rest.  The guard reads the newest row, which a settled nested
\* mission may be, and the planner is awaited between the guard and the row.
OneLiveMission ==
  Cardinality({r \in Roots : mission[r].status \notin Terminal \cup Unborn}) <= 1
=============================================================================
