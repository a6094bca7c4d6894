------------------------------ MODULE SuiteRun ------------------------------
(***************************************************************************)
(* One suite run: the orchestrator's worker pool over a matrix of cells,   *)
(* the ordinary run each cell starts, the suite_runs row, the manager      *)
(* entry its stream hangs on, the report hook, the on-demand failure       *)
(* analysis, and the boot reconciliation after a crash                     *)
(* (suites/orchestrator.ts, suites/suite-run-repository.ts,                *)
(* suites/suite-run-manager.ts, grading/failure-buckets.ts).               *)
(*                                                                         *)
(* A child run is what RunLifecycle proves of one: it ends, its review     *)
(* settles, and only then does the promise the worker awaits resolve.      *)
(* Microtasks (a worker's loop, finish) run before the next request or     *)
(* timer; a crash may strike anywhere.                                     *)
(***************************************************************************)
EXTENDS Naturals, FiniteSets, SequencesExt

CONSTANTS NumCells,        \* size of the matrix
          MaxConcurrency,  \* config.maxConcurrency
          CostCap,         \* config.aggregateCostCapUsd, in units
          MaxCost,         \* bound: the cost of one child
          MaxDisturbances  \* bound: database errors in a worker, failure analyses,
                           \* and stops and deletes of single children, together

ASSUME SizesAssumption ==
  /\ NumCells \in Nat \ {0}
  /\ MaxConcurrency \in Nat \ {0}
  /\ CostCap \in Nat \ {0}
  /\ MaxCost \in Nat
  /\ MaxDisturbances \in Nat

VARIABLES
  row,       \* the suite_runs row
  mgr,       \* the SuiteRunManager entry
  ctl,       \* the SuiteControl object, with its place in the controls map
  job,       \* where SuiteOrchestrator.run stands
  next,      \* the head of the shared queue: cells next..NumCells are in it
  cell,      \* OrchestratorCell.status; "settled" is the child's own status
  worker,    \* what each worker does, and the cell it awaits
  child,     \* the run of each cell
  analysis,  \* the failure analysis awaiting its judge
  hist       \* bounds, and what the properties need to remember

vars == <<row, mgr, ctl, job, next, cell, worker, child, analysis, hist>>

Cells == 1..NumCells
Workers == 1..(IF MaxConcurrency < NumCells THEN MaxConcurrency ELSE NumCells)

Verdicts == {"completed", "capped", "stopped", "error"}
Reviewed == {"rated", "failed", "skipped"}

NoCounts == [cached |-> FALSE, total |-> 0, completed |-> 0]
Counts == [cached : BOOLEAN, total : 0..NumCells, completed : 0..NumCells]
Idle(at) == [at |-> at, cell |-> 0]
Awaits(c) == [at |-> "awaits", cell |-> c]

NoRow == [present |-> FALSE, status |-> "none", rating |-> "pending", aggregates |-> NoCounts]
NoEntry == [on |-> FALSE, status |-> "pending", ratingSettled |-> FALSE]
NoControl == [active |-> FALSE, stopped |-> FALSE, capped |-> FALSE, errored |-> FALSE,
              finished |-> FALSE, deleted |-> FALSE, spent |-> 0]
NoChild == [at |-> "none", kept |-> FALSE, linked |-> FALSE, cost |-> 0]
NoAnalysis == [on |-> FALSE, base |-> NoCounts, members |-> {}]

Init ==
  /\ row = NoRow
  /\ mgr = NoEntry
  /\ ctl = NoControl
  /\ job = "none"
  /\ next = 1
  /\ cell = [c \in Cells |-> "pending"]
  /\ worker = [w \in Workers |-> Idle("off")]
  /\ child = [c \in Cells |-> NoChild]
  /\ analysis = NoAnalysis
  /\ hist = [disturbances |-> 0, threw |-> FALSE, liveAnalysis |-> FALSE]

-----------------------------------------------------------------------------
(* The manager and the row. *)

\* SuiteRunManager.emit of a status or rating event, with its cleanup.
emit(entry, status, ratingSettled) ==
  LET seen == [entry EXCEPT !.status = status,
                            !.ratingSettled = @ \/ ratingSettled]
  IN  IF ~entry.on \/ (status \in Verdicts /\ seen.ratingSettled) THEN NoEntry ELSE seen

\* A write to the suite_runs row touches nothing when the row is gone.
Written(new) == IF row.present THEN new ELSE row

\* computeSuiteAggregates over the children in members that still exist.
aggregatesOf(members, total) ==
  [cached |-> TRUE,
   total |-> total,
   completed |-> Cardinality({c \in members : child[c].kept /\ child[c].at \in {"review", "done"}})]

Disturbable == hist.disturbances < MaxDisturbances
Disturbed == [hist EXCEPT !.disturbances = @ + 1]

Started == {c \in Cells : child[c].at # "none"}
Linked == {c \in Cells : child[c].linked}

\* safeStop on each in-flight child: it aborts a live one, a settled one ignores it.
StopChildren(runs) ==
  [c \in Cells |-> IF runs[c].at = "live" THEN [runs[c] EXCEPT !.at = "stopping"] ELSE runs[c]]

-----------------------------------------------------------------------------
(* Scheduling: everything here is a microtask. *)

\* No microtask is waiting: the loop may take the next request or timer.
Quiescent ==
  /\ \A w \in Workers : worker[w].at # "free"
  /\ ~ (/\ job = "running"
        /\ \/ \A w \in Workers : worker[w].at = "returned"
           \/ \E w \in Workers : worker[w].at = "threw")

\* Mutation: cells keep being scheduled past the cap.
HaltedByStopOnly == ctl.stopped

Halted == ctl.stopped \/ ctl.capped

\* startPlanRun: row, control and entry exist before the first worker runs.
Start ==
  /\ job = "none"
  /\ row = NoRow
  /\ row' = [NoRow EXCEPT !.present = TRUE, !.status = "running"]
  /\ ctl' = [NoControl EXCEPT !.active = TRUE]
  /\ mgr' = [NoEntry EXCEPT !.on = TRUE, !.status = "running"]
  /\ job' = "running"
  /\ worker' = [w \in Workers |-> Idle("free")]
  /\ UNCHANGED <<next, cell, child, analysis, hist>>

\* The worker loop ends when scheduling is halted or the queue is drained.
Return(w) ==
  /\ worker[w].at = "free"
  /\ Halted \/ next > NumCells
  /\ worker' = [worker EXCEPT ![w] = Idle("returned")]
  /\ UNCHANGED <<row, mgr, ctl, job, next, cell, child, analysis, hist>>

\* startRun throws: the cell is an error and the worker pulls the next one.
CellFailsToStart(w) ==
  /\ worker[w].at = "free"
  /\ ~Halted
  /\ next <= NumCells
  /\ next' = next + 1
  /\ cell' = [cell EXCEPT ![next] = "error"]
  /\ UNCHANGED <<row, mgr, ctl, job, worker, child, analysis, hist>>

\* The child exists before it is linked; a link that throws leaves the child
\* running under a worker that is gone.
CellStarts(w) ==
  /\ worker[w].at = "free"
  /\ ~Halted
  /\ next <= NumCells
  /\ next' = next + 1
  /\ cell' = [cell EXCEPT ![next] = "running"]
  /\ \/ /\ child' = [child EXCEPT ![next] =
                       [at |-> "live", kept |-> TRUE, linked |-> TRUE, cost |-> 0]]
        /\ worker' = [worker EXCEPT ![w] = Awaits(next)]
        /\ UNCHANGED hist
     \/ /\ Disturbable
        /\ child' = [child EXCEPT ![next] =
                       [at |-> "live", kept |-> TRUE, linked |-> FALSE, cost |-> 0]]
        /\ worker' = [worker EXCEPT ![w] = Idle("threw")]
        /\ hist' = [Disturbed EXCEPT !.threw = TRUE]
  /\ UNCHANGED <<row, mgr, ctl, job, analysis>>

\* Mutation: the cost is added with the verdict and again with the review.
AccruedTwice(c) == ctl.spent + (IF child[c].kept THEN 2 * child[c].cost ELSE 0)

\* A settled child's cost counts only while its run row exists.
Accrued(c) == ctl.spent + (IF child[c].kept THEN child[c].cost ELSE 0)

\* Mutation: the worker goes on as soon as the child has a verdict.
CellSettlesAtVerdict(w) ==
  \E c \in Cells :
    /\ worker[w] = Awaits(c)
    /\ child[c].at \in {"review", "done"}
    /\ cell' = [cell EXCEPT ![c] = "settled"]
    /\ ctl' = [ctl EXCEPT !.spent = Accrued(c),
                          !.capped = @ \/ Accrued(c) >= CostCap]
    /\ worker' = [worker EXCEPT ![w] = Idle("free")]
    /\ UNCHANGED <<row, mgr, job, next, child, analysis, hist>>

\* runCell after `await handle.done`: the cap is judged on what was accrued.
CellSettles(w) ==
  \E c \in Cells :
    /\ worker[w] = Awaits(c)
    /\ child[c].at = "done"
    /\ cell' = [cell EXCEPT ![c] = "settled"]
    /\ ctl' = [ctl EXCEPT !.spent = Accrued(c),
                          !.capped = @ \/ Accrued(c) >= CostCap]
    /\ \/ /\ worker' = [worker EXCEPT ![w] = Idle("free")]
          /\ UNCHANGED hist
       \/ /\ Disturbable
          /\ worker' = [worker EXCEPT ![w] = Idle("threw")]
          /\ hist' = [Disturbed EXCEPT !.threw = TRUE]
    /\ UNCHANGED <<row, mgr, job, next, child, analysis>>

\* Mutation: a halted matrix is reported like one that ran out of cells.
verdictOfQueue(errored) == IF errored THEN "error" ELSE "completed"

\* Mutation: the cap is reported before the operator's stop.
verdictCapFirst(errored) ==
  CASE ctl.capped -> "capped"
    [] ~ctl.capped /\ ctl.stopped -> "stopped"
    [] ~Halted /\ errored -> "error"
    [] OTHER -> "completed"

\* The precedence of the verdicts in finish().
verdict(errored) ==
  CASE ctl.stopped -> "stopped"
    [] ~ctl.stopped /\ ctl.capped -> "capped"
    [] ~Halted /\ errored -> "error"
    [] OTHER -> "completed"

\* Mutation: Promise.race, the first worker to return settles the pool.
PoolSettledByFirst(errored) ==
  \E w \in Workers : worker[w].at = IF errored THEN "threw" ELSE "returned"

\* Promise.all settles when every worker has returned, or as soon as one threw.
PoolSettled(errored) ==
  \/ errored /\ \E w \in Workers : worker[w].at = "threw"
  \/ ~errored /\ \A w \in Workers : worker[w].at = "returned"

\* finish(), then the synchronous prefix of rateSuiteRun.
Finish ==
  \E errored \in BOOLEAN :
    /\ job = "running"
    /\ PoolSettled(errored)
    /\ ctl' = [ctl EXCEPT !.errored = errored, !.finished = TRUE, !.active = FALSE]
    /\ IF ctl.finished
         THEN UNCHANGED <<row, mgr>>
         ELSE /\ row' = Written([row EXCEPT !.status = verdict(errored),
                                            !.rating = "rating",
                                            !.aggregates = aggregatesOf(Started, NumCells)])
              /\ mgr' = emit(mgr, verdict(errored), FALSE)
    /\ job' = IF ctl.deleted THEN "over" ELSE "reporting"
    /\ UNCHANGED <<next, cell, worker, child, analysis, hist>>

-----------------------------------------------------------------------------
(* Requests, timers, children and the process. *)

\* The report hook answers or throws; either way the axis settles.
ReportSettles ==
  /\ Quiescent
  /\ job = "reporting"
  /\ \E settled \in {"rated", "failed"} : row' = Written([row EXCEPT !.rating = settled])
  /\ mgr' = emit(mgr, mgr.status, TRUE)
  /\ job' = "over"
  /\ UNCHANGED <<ctl, next, cell, worker, child, analysis, hist>>

\* The child's terminal status and cost are persisted; its review begins.
ChildEnds(c) ==
  /\ child[c].at \in {"live", "stopping"}
  /\ \E cost \in 0..MaxCost :
       child' = [child EXCEPT ![c].at = "review", ![c].cost = cost]
  /\ UNCHANGED <<row, mgr, ctl, job, next, cell, worker, analysis, hist>>

\* RunHandle.done resolves after the child's review, not after its verdict.
ChildReviewed(c) ==
  /\ child[c].at = "review"
  /\ child' = [child EXCEPT ![c].at = "done"]
  /\ UNCHANGED <<row, mgr, ctl, job, next, cell, worker, analysis, hist>>

\* POST /api/runs/:id/stop on one child.
StopChild(c) ==
  /\ Quiescent
  /\ Disturbable
  /\ child[c].at = "live"
  /\ child' = [child EXCEPT ![c].at = "stopping"]
  /\ hist' = Disturbed
  /\ UNCHANGED <<row, mgr, ctl, job, next, cell, worker, analysis>>

\* DELETE /api/runs/:id on one child (a prune of a terminal one does the same).
DeleteChild(c) ==
  /\ Quiescent
  /\ Disturbable
  /\ child[c].kept
  /\ child' = [child EXCEPT ![c].kept = FALSE, ![c].linked = FALSE,
                            ![c].at = IF @ = "live" THEN "stopping" ELSE @]
  /\ hist' = Disturbed
  /\ UNCHANGED <<row, mgr, ctl, job, next, cell, worker, analysis>>

\* POST /api/suite-runs/:id/stop.
Stop ==
  /\ Quiescent
  /\ ctl.active
  /\ ~ctl.finished
  /\ ctl' = [ctl EXCEPT !.stopped = TRUE]
  /\ child' = StopChildren(child)
  /\ UNCHANGED <<row, mgr, job, next, cell, worker, analysis, hist>>

\* Mutation: deleting aborts the children but leaves scheduling on.
DeleteWithoutHalting ==
  /\ Quiescent
  /\ row.present
  /\ ctl' = [ctl EXCEPT !.finished = TRUE, !.deleted = TRUE, !.active = FALSE]
  /\ child' = LET runs == IF ctl.active /\ ~ctl.finished THEN StopChildren(child) ELSE child
              IN  [c \in Cells |-> [runs[c] EXCEPT !.linked = FALSE]]
  /\ mgr' = NoEntry
  /\ row' = [row EXCEPT !.present = FALSE]
  /\ UNCHANGED <<job, next, cell, worker, analysis, hist>>

\* DELETE /api/suite-runs/:id keeps the children and clears their linkage.
Delete ==
  /\ Quiescent
  /\ row.present
  /\ IF ctl.active /\ ~ctl.finished
       THEN ctl' = [ctl EXCEPT !.stopped = TRUE, !.finished = TRUE, !.deleted = TRUE,
                               !.active = FALSE]
       ELSE ctl' = [ctl EXCEPT !.active = FALSE]
  /\ child' = LET runs == IF ctl.active /\ ~ctl.finished THEN StopChildren(child) ELSE child
              IN  [c \in Cells |-> [runs[c] EXCEPT !.linked = FALSE]]
  /\ mgr' = NoEntry
  /\ row' = [row EXCEPT !.present = FALSE]
  /\ UNCHANGED <<job, next, cell, worker, analysis, hist>>

\* Mutation: the analysis always recounts, over the members it was asked about.
persistRecount(base, members) == aggregatesOf(members, Cardinality(members))

\* FailureBucketService.persist: the snapshot read before the judge call, or a
\* recount over the members read then, replaces the cached aggregates.
persist(base, members) ==
  IF base.cached THEN base ELSE aggregatesOf(members, Cardinality(members))

\* analyze(): with nothing to cluster it persists at once, else it awaits a judge.
AnalysisBegins ==
  /\ Quiescent
  /\ row.present
  /\ ~analysis.on
  /\ Disturbable
  /\ hist' = [Disturbed EXCEPT !.liveAnalysis = @ \/ row.status = "running"]
  /\ \/ /\ row' = [row EXCEPT !.aggregates = persist(row.aggregates, Linked)]
        /\ UNCHANGED analysis
     \/ /\ Linked # {}
        /\ analysis' = [on |-> TRUE, base |-> row.aggregates, members |-> Linked]
        /\ UNCHANGED row
  /\ UNCHANGED <<mgr, ctl, job, next, cell, worker, child>>

\* The judge answers; a deleted suite run is a 404.
AnalysisSettles ==
  /\ Quiescent
  /\ analysis.on
  /\ row' = Written([row EXCEPT !.aggregates = persist(analysis.base, analysis.members)])
  /\ analysis' = NoAnalysis
  /\ UNCHANGED <<mgr, ctl, job, next, cell, worker, child, hist>>

\* The judge call fails or times out: nothing is persisted.
AnalysisFails ==
  /\ Quiescent
  /\ analysis.on
  /\ analysis' = NoAnalysis
  /\ UNCHANGED <<row, mgr, ctl, job, next, cell, worker, child, hist>>

\* reconcileOrphans, applied to the row a dead process left behind.
reconcileOrphans(left) ==
  CASE left.status = "running" -> [left EXCEPT !.status = "error", !.rating = "skipped"]
    [] left.status \in Verdicts /\ left.rating \notin Reviewed -> [left EXCEPT !.rating = "skipped"]
    [] OTHER -> left

\* abortOrphanedRuns, for a child the process left live.
Orphaned(run) == IF run.at = "none" THEN run ELSE [run EXCEPT !.at = "done"]

CrashRestart ==
  /\ job \in {"running", "reporting"} \/ analysis.on
  /\ row' = Written(reconcileOrphans(row))
  /\ mgr' = NoEntry
  /\ ctl' = NoControl
  /\ job' = "over"
  /\ worker' = [w \in Workers |-> Idle("off")]
  /\ child' = [c \in Cells |-> Orphaned(child[c])]
  /\ analysis' = NoAnalysis
  /\ UNCHANGED <<next, cell, hist>>

Next ==
  \/ Start
  \/ \E w \in Workers : Return(w) \/ CellFailsToStart(w) \/ CellStarts(w) \/ CellSettles(w)
  \/ Finish
  \/ ReportSettles
  \/ \E c \in Cells : ChildEnds(c) \/ ChildReviewed(c) \/ StopChild(c) \/ DeleteChild(c)
  \/ Stop
  \/ Delete
  \/ AnalysisBegins
  \/ AnalysisSettles
  \/ AnalysisFails
  \/ CrashRestart

Spec == Init /\ [][Next]_vars

\* Microtasks run, children end (their clocks bound them) and their reviews
\* settle, and the report hook, bounded by its timeouts, answers.
FairSpec ==
  /\ Spec
  /\ \A w \in Workers :
       WF_vars(Return(w) \/ CellFailsToStart(w) \/ CellStarts(w) \/ CellSettles(w))
  /\ WF_vars(Finish)
  /\ WF_vars(ReportSettles)
  /\ \A c \in Cells : WF_vars(ChildEnds(c)) /\ WF_vars(ChildReviewed(c))

-----------------------------------------------------------------------------
(* Properties. *)

Rows == [present : BOOLEAN, status : {"none", "running"} \cup Verdicts,
         rating : {"pending", "rating"} \cup Reviewed, aggregates : Counts]
Entries == [on : BOOLEAN, status : {"pending", "running"} \cup Verdicts, ratingSettled : BOOLEAN]
Controls == [active : BOOLEAN, stopped : BOOLEAN, capped : BOOLEAN, errored : BOOLEAN,
             finished : BOOLEAN, deleted : BOOLEAN, spent : 0..(NumCells * MaxCost)]
WorkerStates == {Idle(at) : at \in {"off", "free", "returned", "threw"}}
                  \cup {Awaits(c) : c \in Cells}
Children == [at : {"none", "live", "stopping", "review", "done"}, kept : BOOLEAN,
             linked : BOOLEAN, cost : 0..MaxCost]
Analyses == [on : BOOLEAN, base : Counts, members : SUBSET Cells]
Histories == [disturbances : 0..MaxDisturbances, threw : BOOLEAN, liveAnalysis : BOOLEAN]

\* The states a suite run, its pool and its children are kept in.
TypeOK ==
  /\ row \in Rows
  /\ mgr \in Entries
  /\ ctl \in Controls
  /\ job \in {"none", "running", "reporting", "over"}
  /\ next \in 1..(NumCells + 1)
  /\ cell \in [Cells -> {"pending", "running", "settled", "error"}]
  /\ worker \in [Workers -> WorkerStates]
  /\ child \in [Cells -> Children]
  /\ analysis \in Analyses
  /\ hist \in Histories

InFlight == {c \in Cells : child[c].at \in {"live", "stopping", "review"}}

\* "In-flight cells never exceed the cap": no more children are in flight, their
\* reviews included, than the pool has workers, whatever stops, deletes or throws.
InFlightBounded == Cardinality(InFlight) <= MaxConcurrency

\* What the runs of the matrix that still exist cost together.
AddKept(sum, run) == sum + (IF run.kept THEN run.cost ELSE 0)
Spend(runs) == FoldLeft(AddKept, 0, runs)

\* The soft cost cap: what the kept children cost overshoots the cap by no more
\* than the children that were in flight when it was reached.
SpendBounded == Spend(child) < CostCap + MaxConcurrency * MaxCost

\* A verdict the scheduler reached by itself is about a matrix that has come to
\* rest: nothing in flight, and no cell left behind by a completed one.
ConcludedAtRest ==
  row.status \in {"completed", "capped", "stopped"} /\ ~hist.threw =>
    /\ InFlight = {}
    /\ row.status = "completed" => \A c \in Cells : cell[c] \in {"settled", "error"}

\* No child points at a suite run that was deleted: none is started, and so
\* linked, once the deletion has cleared the linkage.
LinksResolve == Linked # {} /\ ~hist.threw => row.present

\* The aggregates cached with a verdict account for the whole matrix and for
\* every child that still exists, unless an analysis was asked for mid-run.
AggregatesComplete ==
  /\ row.status \in {"completed", "capped", "stopped"}
  /\ ~hist.threw
  /\ ~hist.liveAnalysis
  => /\ row.aggregates.total = NumCells
     /\ Cardinality({c \in Started : child[c].kept}) <= row.aggregates.completed

\* The suite run keeps the promise of SuitePromise: one verdict, never a second
\* one; "completed" only for the whole matrix; a review after the verdict.
Promise ==
  INSTANCE SuitePromise WITH
    status <- IF row = NoRow THEN "none" ELSE IF row.present THEN row.status ELSE "removed",
    rating <- row.rating,
    started <- {c \in Cells : cell[c] # "pending"},
    failed <- \E w \in Workers : worker[w].at = "threw"
KeepsPromise == Promise!Spec

\* A running suite run always concludes with its review settled, through any
\* crash, stop or failing worker, unless it is deleted; and an accepted stop ends
\* it as stopped (a crash as an error), even when the cap is reached meanwhile.
Concludes ==
  row.present /\ row.status = "running" ~>
    ~row.present \/ (row.status \in Verdicts /\ row.rating \in Reviewed)
StopHonoured ==
  ctl.stopped /\ ~ctl.deleted ~> ~row.present \/ row.status \in {"stopped", "error"}
AlwaysConcludes == Concludes /\ StopHonoured

\* orchestrator.ts: the aggregates are "cached on the suite run only on
\* completion/cap/stop", and so are those of the whole matrix.
AggregatesDerived ==
  row.status \in {"completed", "capped", "stopped"} => row.aggregates.total = NumCells
=============================================================================
