-------------------------- MODULE SuiteRun_proofs --------------------------
(***************************************************************************)
(* Proofs about SuiteRun, for every matrix, pool, cap and bound.           *)
(***************************************************************************)
EXTENDS SuiteRun, FiniteSetTheorems, TLAPS

-----------------------------------------------------------------------------
(* The inductive invariant. *)

ThrownWorker == \E w \in Workers : worker[w].at = "threw"
BusyWorker == \E w \in Workers : worker[w].at \in {"free", "awaits"}
Settled == {c \in Cells : cell[c] = "settled"}
Kept == {c \in Started : child[c].kept}
SchedulerVerdicts == {"completed", "capped", "stopped"}

\* The row, the control and the orchestrator's promise tell one story.
RowInv ==
  /\ row.status = "none" => row = NoRow
  /\ job = "none" => /\ row = NoRow
                     /\ next = 1
                     /\ ctl = NoControl
                     /\ analysis = NoAnalysis
                     /\ \A w \in Workers : worker[w] = Idle("off")
  /\ job = "running" => /\ row.status = "running"
                        /\ row.present => ctl.active /\ ~ctl.finished
                        /\ ~row.present => ctl.stopped
  /\ job = "reporting" /\ row.present => row.status \in Verdicts /\ row.rating = "rating"
  /\ row.status \in Verdicts => row.rating \in {"rating"} \cup Reviewed
  /\ ThrownWorker => hist.threw
  /\ BusyWorker => job = "running" \/ ThrownWorker

\* The queue splits the matrix; an awaited cell is running and has one worker.
QueueInv ==
  /\ \A c \in Cells : IF c < next THEN cell[c] # "pending"
                      ELSE cell[c] = "pending" /\ child[c] = NoChild
  /\ \A w \in Workers : worker[w].at = "awaits" =>
       /\ worker[w].cell < next
       /\ cell[worker[w].cell] = "running"
       /\ \A v \in Workers : worker[v] = worker[w] => v = w
  /\ \A w \in Workers : worker[w].at = "returned" => Halted \/ next > NumCells
  /\ \A c \in Cells : cell[c] = "running" =>
       hist.threw \/ job = "over" \/ \E w \in Workers : worker[w] = Awaits(c)

\* Worker f[c] is taken up by the in-flight child c: it awaits it or was lost on it.
Occupies(f) ==
  /\ f \in [InFlight -> Workers]
  /\ \A c, d \in InFlight : f[c] = f[d] => c = d
  /\ \A c \in InFlight : worker[f[c]] = Awaits(c) \/ worker[f[c]].at = "threw"

\* Every child in flight takes up a worker of its own.
OccupancyInv == \E f \in [InFlight -> Workers] : Occupies(f)

\* Each settled cell was accrued once.
CostInv == ctl.spent <= MaxCost * Cardinality(Settled)

\* The cached aggregates are those of the verdict, and no pending analysis that was
\* asked for since holds others.
CacheInv ==
  /\ row.status \in SchedulerVerdicts /\ ~hist.threw /\ ~hist.liveAnalysis =>
       /\ row.aggregates.cached
       /\ row.aggregates.total = NumCells
       /\ Cardinality(Kept) <= row.aggregates.completed
  /\ analysis.on /\ ~hist.liveAnalysis =>
       row.status \in Verdicts /\ analysis.base = row.aggregates

-----------------------------------------------------------------------------
(* The pool and the matrix are finite, and no larger than their bounds. *)

\* The pool and the matrix are finite; the pool is no larger than maxConcurrency.
LEMMA Sizes ==
  /\ IsFiniteSet(Cells) /\ Cardinality(Cells) = NumCells
  /\ IsFiniteSet(Workers) /\ Cardinality(Workers) <= MaxConcurrency
<1>1. IsFiniteSet(Cells) /\ Cardinality(Cells) = NumCells
  BY FS_Interval, SizesAssumption DEF Cells
<1>2. IsFiniteSet(Workers) /\ Cardinality(Workers) <= MaxConcurrency
  <2> DEFINE m == IF MaxConcurrency < NumCells THEN MaxConcurrency ELSE NumCells
  <2>1. m \in Nat \ {0} /\ m <= MaxConcurrency
    BY SizesAssumption
  <2> HIDE DEF m
  <2>2. IsFiniteSet(1..m) /\ Cardinality(1..m) = m
    BY <2>1, FS_Interval
  <2>3. Workers = 1..m
    BY DEF Workers, m
  <2>4. QED BY <2>1, <2>2, <2>3
<1>3. QED BY <1>1, <1>2

\* A set of cells is finite and has at most NumCells members.
LEMMA CellCount ==
  ASSUME NEW S \in SUBSET Cells
  PROVE  IsFiniteSet(S) /\ Cardinality(S) \in 0..NumCells
<1>1. IsFiniteSet(S) /\ Cardinality(S) <= Cardinality(Cells)
  BY FS_Subset, Sizes
<1>2. Cardinality(S) \in Nat
  BY <1>1, FS_CardinalityType
<1>3. QED BY <1>1, <1>2, Sizes, SizesAssumption

\* A smaller set of cells has no more members.
LEMMA CellCountMonotone ==
  ASSUME NEW S \in SUBSET Cells, NEW T \in SUBSET S
  PROVE  Cardinality(T) <= Cardinality(S)
BY CellCount, FS_Subset

-----------------------------------------------------------------------------
(* Type correctness. *)

\* What is cached on the row is a count of the matrix.
LEMMA AggregatesType ==
  ASSUME NEW members \in SUBSET Cells, NEW total \in 0..NumCells
  PROVE  aggregatesOf(members, total) \in Counts
<1> DEFINE ended == {c \in members : child[c].kept /\ child[c].at \in {"review", "done"}}
<1>1. Cardinality(ended) \in 0..NumCells
  <2>1. ended \in SUBSET Cells
    OBVIOUS
  <2>2. QED BY <2>1, CellCount
<1>2. aggregatesOf(members, total)
        = [cached |-> TRUE, total |-> total, completed |-> Cardinality(ended)]
  BY DEF aggregatesOf
<1> HIDE DEF ended
<1>3. QED BY <1>1, <1>2 DEF Counts

\* So is what an analysis writes back.
LEMMA PersistType ==
  ASSUME NEW base \in Counts, NEW members \in SUBSET Cells
  PROVE  persist(base, members) \in Counts
BY CellCount, AggregatesType DEF persist

\* The manager's entry stays an entry.
LEMMA EmitType ==
  ASSUME NEW entry \in Entries, NEW status \in {"pending", "running"} \cup Verdicts,
         NEW settled \in BOOLEAN
  PROVE  emit(entry, status, settled) \in Entries
<1>1. [entry EXCEPT !.status = status, !.ratingSettled = @ \/ settled] \in Entries
  BY DEF Entries
<1>2. NoEntry \in Entries
  BY DEF NoEntry, Entries
<1>3. QED BY <1>1, <1>2 DEF emit

\* finish() concludes with one of the verdicts.
LEMMA VerdictType ==
  ASSUME NEW errored \in BOOLEAN
  PROVE  verdict(errored) \in Verdicts
BY DEF verdict, Verdicts

\* A disturbance is counted.
LEMMA DisturbedType ==
  ASSUME TypeOK, Disturbable
  PROVE  Disturbed \in Histories /\ [Disturbed EXCEPT !.threw = TRUE] \in Histories
<1>1. hist.disturbances + 1 \in 0..MaxDisturbances
  BY SizesAssumption DEF TypeOK, Disturbable, Histories
<1>2. Disturbed \in Histories
  BY <1>1 DEF TypeOK, Disturbed, Histories
<1>3. QED BY <1>2 DEF Histories

\* Updating one child keeps the children.
LEMMA ChildType ==
  ASSUME NEW c \in Cells, NEW runs \in [Cells -> Children],
         NEW at \in {"none", "live", "stopping", "review", "done"}, NEW kept \in BOOLEAN,
         NEW linked \in BOOLEAN, NEW cost \in 0..MaxCost
  PROVE  /\ [runs EXCEPT ![c] = [at |-> at, kept |-> kept, linked |-> linked, cost |-> cost]]
              \in [Cells -> Children]
         /\ [runs EXCEPT ![c].at = at, ![c].cost = cost] \in [Cells -> Children]
         /\ [runs[c] EXCEPT !.linked = linked] \in Children
<1>1. runs[c] \in Children
  OBVIOUS
<1>2. [at |-> at, kept |-> kept, linked |-> linked, cost |-> cost] \in Children
  BY DEF Children
<1>3. [runs[c] EXCEPT !.at = at] \in Children
  BY <1>1 DEF Children
<1>4. [[runs[c] EXCEPT !.at = at] EXCEPT !.cost = cost] \in Children
  BY <1>3 DEF Children
<1>5. [runs[c] EXCEPT !.linked = linked] \in Children
  BY <1>1 DEF Children
<1>6. [runs EXCEPT ![c].at = at, ![c].cost = cost]
        = [runs EXCEPT ![c] = [[runs[c] EXCEPT !.at = at] EXCEPT !.cost = cost]]
  OBVIOUS
<1>7. QED BY <1>2, <1>3, <1>4, <1>5, <1>6

\* So does moving it on.
LEMMA ChildAtType ==
  ASSUME NEW c \in Cells, NEW runs \in [Cells -> Children],
         NEW at \in {"none", "live", "stopping", "review", "done"}
  PROVE  [runs EXCEPT ![c].at = at] \in [Cells -> Children]
<1>1. [runs[c] EXCEPT !.at = at] \in Children
  BY DEF Children
<1>2. QED BY <1>1

\* So does stopping all of them.
LEMMA StopType ==
  ASSUME NEW runs \in [Cells -> Children]
  PROVE  StopChildren(runs) \in [Cells -> Children]
<1>1. ASSUME NEW c \in Cells
      PROVE (IF runs[c].at = "live" THEN [runs[c] EXCEPT !.at = "stopping"] ELSE runs[c])
              \in Children
  BY DEF Children
<1>2. QED BY <1>1 DEF StopChildren

\* Before the suite run exists everything is typed.
LEMMA TypeInit == Init => TypeOK
<1> SUFFICES ASSUME Init PROVE TypeOK
  OBVIOUS
<1>1. NoRow \in Rows /\ NoEntry \in Entries /\ NoAnalysis \in Analyses
  BY SizesAssumption
     DEF NoRow, NoEntry, NoAnalysis, NoCounts, Rows, Entries, Analyses, Counts, Cells
<1>2. NoControl \in Controls
  BY SizesAssumption DEF NoControl, Controls
<1>3. NoChild \in Children
  BY SizesAssumption DEF NoChild, Children
<1>4. Idle("off") \in WorkerStates
  BY DEF WorkerStates
<1>5. hist \in Histories
  BY SizesAssumption DEF Init, Histories
<1>6. QED
  BY <1>1, <1>2, <1>3, <1>4, <1>5, SizesAssumption DEF Init, TypeOK

\* Every step keeps the types, once the cost accrued stays within the matrix.
LEMMA TypeStep ==
  ASSUME TypeOK, [Next]_vars, ctl'.spent \in 0..(NumCells * MaxCost)
  PROVE  TypeOK'
<1> USE SizesAssumption
<1>0. /\ row \in Rows /\ mgr \in Entries /\ ctl \in Controls /\ child \in [Cells -> Children]
      /\ worker \in [Workers -> WorkerStates] /\ analysis \in Analyses /\ hist \in Histories
      /\ cell \in [Cells -> {"pending", "running", "settled", "error"}]
      /\ job \in {"none", "running", "reporting", "over"}
      /\ next \in 1..(NumCells + 1)
  BY DEF TypeOK
<1>n. NoEntry \in Entries /\ NoAnalysis \in Analyses
  BY DEF NoEntry, NoAnalysis, NoCounts, Entries, Analyses, Counts
<1>w. /\ \A at \in {"off", "free", "returned", "threw"} : Idle(at) \in WorkerStates
      /\ \A c \in Cells : Awaits(c) \in WorkerStates
  BY DEF WorkerStates
<1>d. Disturbable => Disturbed \in Histories /\ [Disturbed EXCEPT !.threw = TRUE] \in Histories
  BY DisturbedType
<1>q. next <= NumCells => next \in Cells /\ next + 1 \in 1..(NumCells + 1)
  BY <1>0 DEF Cells
<1>r. \A new \in Rows : Written(new) \in Rows
  BY <1>0 DEF Written
<1>l. Linked \in SUBSET Cells /\ Started \in SUBSET Cells
  BY DEF Linked, Started
<1>1. CASE UNCHANGED vars
  BY <1>1 DEF vars, TypeOK
<1>2. CASE Start
  <2>1. row' \in Rows
    <3>1. NoRow \in Rows
      BY DEF NoRow, Rows, NoCounts, Counts
    <3>2. [NoRow EXCEPT !.present = TRUE, !.status = "running"] \in Rows
      BY <3>1 DEF Rows
    <3>3. QED BY <1>2, <3>2 DEF Start
  <2>2. ctl' \in Controls
    BY <1>2 DEF Start, NoControl, Controls
  <2>3. mgr' \in Entries
    BY <1>2 DEF Start, NoEntry, Entries
  <2>4. worker' \in [Workers -> WorkerStates] /\ job' = "running"
    BY <1>2, <1>w DEF Start
  <2>5. QED BY <1>0, <1>2, <2>1, <2>2, <2>3, <2>4 DEF Start, TypeOK
<1>3. ASSUME NEW w \in Workers, Return(w) PROVE TypeOK'
  <2>1. worker' \in [Workers -> WorkerStates]
    BY <1>0, <1>3, <1>w DEF Return
  <2>2. QED BY <1>0, <1>3, <2>1 DEF Return, TypeOK
<1>4. ASSUME NEW w \in Workers, CellFailsToStart(w) PROVE TypeOK'
  <2>1. /\ next' \in 1..(NumCells + 1)
        /\ cell' \in [Cells -> {"pending", "running", "settled", "error"}]
    BY <1>0, <1>4, <1>q DEF CellFailsToStart
  <2>2. QED BY <1>0, <1>4, <2>1 DEF CellFailsToStart, TypeOK
<1>5. ASSUME NEW w \in Workers, CellStarts(w) PROVE TypeOK'
  <2>1. /\ next' \in 1..(NumCells + 1)
        /\ cell' \in [Cells -> {"pending", "running", "settled", "error"}]
    BY <1>0, <1>5, <1>q DEF CellStarts
  <2>2. child' \in [Cells -> Children]
    <3>1. next \in Cells /\ 0 \in 0..MaxCost
      BY <1>5, <1>q DEF CellStarts
    <3>2. PICK linked \in BOOLEAN :
            child' = [child EXCEPT ![next] =
                        [at |-> "live", kept |-> TRUE, linked |-> linked, cost |-> 0]]
      BY <1>5 DEF CellStarts
    <3>3. [at |-> "live", kept |-> TRUE, linked |-> linked, cost |-> 0] \in Children
      BY <3>1 DEF Children
    <3>4. QED BY <1>0, <3>1, <3>2, <3>3
  <2>3. worker' \in [Workers -> WorkerStates] /\ hist' \in Histories
    <3>1. Awaits(next) \in WorkerStates /\ Idle("threw") \in WorkerStates
      BY <1>5, <1>q, <1>w DEF CellStarts
    <3>2. \/ worker' = [worker EXCEPT ![w] = Awaits(next)] /\ hist' = hist
          \/ /\ Disturbable
             /\ worker' = [worker EXCEPT ![w] = Idle("threw")]
             /\ hist' = [Disturbed EXCEPT !.threw = TRUE]
      BY <1>5 DEF CellStarts
    <3>3. worker' \in [Workers -> WorkerStates]
      BY <1>0, <3>1, <3>2
    <3>4. hist' \in Histories
      BY <1>0, <1>d, <3>2
    <3>5. QED BY <3>3, <3>4
  <2>4. QED BY <1>0, <1>5, <2>1, <2>2, <2>3 DEF CellStarts, TypeOK
<1>6. ASSUME NEW w \in Workers, CellSettles(w) PROVE TypeOK'
  <2>1. PICK c \in Cells :
          /\ cell' = [cell EXCEPT ![c] = "settled"]
          /\ ctl' = [ctl EXCEPT !.spent = Accrued(c), !.capped = @ \/ Accrued(c) >= CostCap]
          /\ \/ worker' = [worker EXCEPT ![w] = Idle("free")] /\ UNCHANGED hist
             \/ /\ Disturbable
                /\ worker' = [worker EXCEPT ![w] = Idle("threw")]
                /\ hist' = [Disturbed EXCEPT !.threw = TRUE]
    BY <1>6 DEF CellSettles
  <2>2. cell' \in [Cells -> {"pending", "running", "settled", "error"}]
    BY <1>0, <2>1
  <2>3. worker' \in [Workers -> WorkerStates] /\ hist' \in Histories
    <3>1. Idle("free") \in WorkerStates /\ Idle("threw") \in WorkerStates
      BY <1>w
    <3>2. worker' \in [Workers -> WorkerStates]
      BY <1>0, <2>1, <3>1
    <3>3. hist' \in Histories
      BY <1>0, <1>d, <2>1
    <3>4. QED BY <3>2, <3>3
  <2>4. ctl' \in Controls
    BY <1>0, <2>1 DEF Controls
  <2>5. QED BY <1>0, <1>6, <2>2, <2>3, <2>4 DEF CellSettles, TypeOK
<1>7. CASE Finish
  <2>1. PICK errored \in BOOLEAN :
          /\ ctl' = [ctl EXCEPT !.errored = errored, !.finished = TRUE, !.active = FALSE]
          /\ IF ctl.finished
               THEN UNCHANGED <<row, mgr>>
               ELSE /\ row' = Written([row EXCEPT !.status = verdict(errored),
                                                  !.rating = "rating",
                                                  !.aggregates = aggregatesOf(Started, NumCells)])
                    /\ mgr' = emit(mgr, verdict(errored), FALSE)
    BY <1>7 DEF Finish
  <2>2. ctl' \in Controls
    BY <1>0, <2>1 DEF Controls
  <2>3. verdict(errored) \in Verdicts
    BY VerdictType
  <2>4. aggregatesOf(Started, NumCells) \in Counts
    BY <1>l, AggregatesType
  <2>5. [row EXCEPT !.status = verdict(errored), !.rating = "rating",
                    !.aggregates = aggregatesOf(Started, NumCells)] \in Rows
    BY <1>0, <2>3, <2>4 DEF Rows
  <2>6. row' \in Rows
    BY <1>0, <1>r, <2>1, <2>5
  <2>7. mgr' \in Entries
    BY <1>0, <2>1, <2>3, EmitType
  <2>8. job' \in {"over", "reporting"}
    BY <1>7 DEF Finish
  <2>9. QED BY <1>0, <1>7, <2>2, <2>6, <2>7, <2>8 DEF Finish, TypeOK
<1>8. CASE ReportSettles
  <2>1. PICK settled \in {"rated", "failed"} : row' = Written([row EXCEPT !.rating = settled])
    BY <1>8 DEF ReportSettles
  <2>2. [row EXCEPT !.rating = settled] \in Rows
    BY <1>0 DEF Rows, Reviewed
  <2>3. row' \in Rows
    BY <1>r, <2>1, <2>2
  <2>4. mgr' \in Entries
    <3>1. mgr.status \in {"pending", "running"} \cup Verdicts
      BY <1>0 DEF Entries
    <3>2. QED BY <1>0, <1>8, <3>1, EmitType DEF ReportSettles
  <2>5. QED BY <1>0, <1>8, <2>3, <2>4 DEF ReportSettles, TypeOK
<1>9. ASSUME NEW c \in Cells, ChildEnds(c) PROVE TypeOK'
  <2>1. PICK cost \in 0..MaxCost :
          child' = [child EXCEPT ![c].at = "review", ![c].cost = cost]
    BY <1>9 DEF ChildEnds
  <2>2. child' \in [Cells -> Children]
    BY <1>0, <2>1, ChildType
  <2>3. QED BY <1>0, <1>9, <2>2 DEF ChildEnds, TypeOK
<1>10. ASSUME NEW c \in Cells, ChildReviewed(c) PROVE TypeOK'
  <2>1. child' \in [Cells -> Children]
    BY <1>0, <1>10, ChildAtType DEF ChildReviewed
  <2>2. QED BY <1>0, <1>10, <2>1 DEF ChildReviewed, TypeOK
<1>11. ASSUME NEW c \in Cells, StopChild(c) PROVE TypeOK'
  <2>1. child' \in [Cells -> Children]
    BY <1>0, <1>11, ChildAtType DEF StopChild
  <2>2. QED BY <1>0, <1>11, <1>d, <2>1 DEF StopChild, TypeOK
<1>12. ASSUME NEW c \in Cells, DeleteChild(c) PROVE TypeOK'
  <2> DEFINE at == IF child[c].at = "live" THEN "stopping" ELSE child[c].at
  <2>1. child[c] \in Children
    BY <1>0
  <2>2. [[[child[c] EXCEPT !.kept = FALSE] EXCEPT !.linked = FALSE] EXCEPT !.at = at] \in Children
    BY <2>1 DEF Children
  <2>3. child' = [child EXCEPT ![c] =
                    [[[child[c] EXCEPT !.kept = FALSE] EXCEPT !.linked = FALSE] EXCEPT !.at = at]]
    BY <1>0, <1>12, <2>1 DEF DeleteChild, Children
  <2> HIDE DEF at
  <2>4. child' \in [Cells -> Children]
    BY <1>0, <2>2, <2>3
  <2>5. QED BY <1>0, <1>12, <1>d, <2>4 DEF DeleteChild, TypeOK
<1>13. CASE Stop
  <2>1. child' \in [Cells -> Children]
    BY <1>0, <1>13, StopType DEF Stop
  <2>2. ctl' \in Controls
    BY <1>0, <1>13 DEF Stop, Controls
  <2>3. QED BY <1>0, <1>13, <2>1, <2>2 DEF Stop, TypeOK
<1>14. CASE Delete
  <2>1. child' \in [Cells -> Children]
    <3> DEFINE runs == IF ctl.active /\ ~ctl.finished THEN StopChildren(child) ELSE child
    <3>1. runs \in [Cells -> Children]
      BY <1>0, StopType
    <3>2. child' = [c \in Cells |-> [runs[c] EXCEPT !.linked = FALSE]]
      BY <1>14 DEF Delete
    <3> HIDE DEF runs
    <3>3. ASSUME NEW c \in Cells PROVE [runs[c] EXCEPT !.linked = FALSE] \in Children
      BY <3>1 DEF Children
    <3>4. QED BY <3>2, <3>3
  <2>2. ctl' \in Controls
    <3>1. [ctl EXCEPT !.stopped = TRUE, !.finished = TRUE, !.deleted = TRUE, !.active = FALSE]
            \in Controls
      BY <1>0 DEF Controls
    <3>2. [ctl EXCEPT !.active = FALSE] \in Controls
      BY <1>0 DEF Controls
    <3>3. QED BY <1>14, <3>1, <3>2 DEF Delete
  <2>3. row' \in Rows
    BY <1>0, <1>14 DEF Delete, Rows
  <2>4. QED BY <1>0, <1>14, <1>n, <2>1, <2>2, <2>3 DEF Delete, TypeOK
<1>15. CASE AnalysisBegins
  <2>1. hist' \in Histories
    <3>1. hist' = [[hist EXCEPT !.disturbances = @ + 1] EXCEPT
                      !.liveAnalysis = @ \/ row.status = "running"]
      BY <1>15 DEF AnalysisBegins, Disturbed
    <3>2. [hist EXCEPT !.disturbances = @ + 1] \in Histories
      BY <1>0, <1>15, <1>d DEF AnalysisBegins, Disturbed
    <3>3. QED BY <3>1, <3>2 DEF Histories
  <2>2. row.aggregates \in Counts
    BY <1>0 DEF Rows
  <2>3. row' \in Rows
    <3>1. persist(row.aggregates, Linked) \in Counts
      BY <1>l, <2>2, PersistType
    <3>2. [row EXCEPT !.aggregates = persist(row.aggregates, Linked)] \in Rows
      BY <1>0, <3>1 DEF Rows
    <3>3. QED BY <1>0, <1>15, <3>2 DEF AnalysisBegins
  <2>4. analysis' \in Analyses
    <3>1. [on |-> TRUE, base |-> row.aggregates, members |-> Linked] \in Analyses
      BY <1>l, <2>2 DEF Analyses
    <3>2. QED BY <1>0, <1>15, <3>1 DEF AnalysisBegins
  <2>5. QED BY <1>0, <1>15, <2>1, <2>3, <2>4 DEF AnalysisBegins, TypeOK
<1>16. CASE AnalysisSettles
  <2>1. persist(analysis.base, analysis.members) \in Counts
    <3>1. analysis.base \in Counts /\ analysis.members \in SUBSET Cells
      BY <1>0 DEF Analyses
    <3>2. QED BY <3>1, PersistType
  <2>2. [row EXCEPT !.aggregates = persist(analysis.base, analysis.members)] \in Rows
    BY <1>0, <2>1 DEF Rows
  <2>3. row' \in Rows
    BY <1>16, <1>r, <2>2 DEF AnalysisSettles
  <2>4. QED BY <1>0, <1>16, <1>n, <2>3 DEF AnalysisSettles, TypeOK
<1>17. CASE AnalysisFails
  BY <1>0, <1>17, <1>n DEF AnalysisFails, TypeOK
<1>18. CASE CrashRestart
  <2>1. reconcileOrphans(row) \in Rows
    BY <1>0 DEF reconcileOrphans, Rows, Verdicts, Reviewed
  <2>2. row' \in Rows
    BY <1>18, <1>r, <2>1 DEF CrashRestart
  <2>3. ctl' \in Controls
    BY <1>18 DEF CrashRestart, NoControl, Controls
  <2>4. child' \in [Cells -> Children]
    <3>1. ASSUME NEW c \in Cells PROVE Orphaned(child[c]) \in Children
      BY <1>0 DEF Orphaned, Children
    <3>2. QED BY <1>18, <3>1 DEF CrashRestart
  <2>5. worker' \in [Workers -> WorkerStates]
    BY <1>18, <1>w DEF CrashRestart
  <2>6. QED BY <1>0, <1>18, <1>n, <2>2, <2>3, <2>4, <2>5 DEF CrashRestart, TypeOK
<1>19. QED
  BY <1>1, <1>2, <1>3, <1>4, <1>5, <1>6, <1>7, <1>8, <1>9, <1>10, <1>11, <1>12, <1>13, <1>14,
     <1>15, <1>16, <1>17, <1>18 DEF Next

-----------------------------------------------------------------------------
(* The cost accrued. *)

\* Adding one child's cost stays within one more cell's share.
LEMMA OneMoreShare ==
  ASSUME NEW m \in Nat, NEW k \in Nat, NEW spent \in Nat, NEW cost \in 0..m, spent <= m * k
  PROVE  spent + cost <= m * (k + 1)
<1>1. m * (k + 1) = m * k + m /\ m * k \in Nat
  OBVIOUS
<1>2. QED BY <1>1

\* Fewer cells settled, a smaller total.
LEMMA SmallerShare ==
  ASSUME NEW m \in Nat, NEW n \in Nat, NEW k \in 0..n
  PROVE  m * k <= n * m
<1>1. PICK d \in Nat : n = k + d
  <2>1. n - k \in Nat /\ n = k + (n - k)
    OBVIOUS
  <2>2. QED BY <2>1
<1>2. n * m = m * k + m * d /\ m * k \in Nat /\ m * d \in Nat
  BY <1>1
<1>3. QED BY <1>2

\* A cell that settles settles once.
LEMMA OneMoreSettled ==
  ASSUME TypeOK, NEW c \in Cells, cell[c] # "settled", cell' = [cell EXCEPT ![c] = "settled"]
  PROVE  Cardinality(Settled') = Cardinality(Settled) + 1
<1>1. Settled' = Settled \cup {c} /\ c \notin Settled
  BY DEF Settled, TypeOK
<1>2. IsFiniteSet(Settled)
  BY CellCount DEF Settled
<1>3. QED BY <1>1, <1>2, FS_AddElement

\* Nothing is accrued before the start.
LEMMA CostInit == Init => CostInv
<1> SUFFICES ASSUME Init PROVE CostInv
  OBVIOUS
<1>1. Settled = {}
  BY DEF Init, Settled
<1>2. QED BY <1>1, FS_EmptySet, SizesAssumption DEF Init, CostInv, NoControl

\* The cost of the settled cells, each counted once.
LEMMA CostStep ==
  ASSUME TypeOK, QueueInv, CostInv, [Next]_vars
  PROVE  CostInv' /\ ctl'.spent \in 0..(NumCells * MaxCost)
<1> USE SizesAssumption
<1>0. /\ ctl.spent \in Nat
      /\ Cardinality(Settled) \in Nat
      /\ ctl \in Controls
  BY CellCount DEF TypeOK, Controls, Settled
<1>1. ASSUME ctl'.spent \in Nat, CostInv' PROVE ctl'.spent \in 0..(NumCells * MaxCost)
  <2>1. Cardinality(Settled') \in 0..NumCells
    BY CellCount DEF Settled
  <2>2. MaxCost * Cardinality(Settled') <= NumCells * MaxCost /\ NumCells * MaxCost \in Nat
    BY <2>1, SmallerShare
  <2>3. MaxCost * Cardinality(Settled') \in Nat
    BY <2>1
  <2>4. ctl'.spent <= MaxCost * Cardinality(Settled')
    BY <1>1 DEF CostInv
  <2>5. QED BY <1>1, <2>2, <2>3, <2>4
<1>2. ASSUME NEW w \in Workers, CellSettles(w) PROVE ctl'.spent \in Nat /\ CostInv'
  <2>1. PICK c \in Cells :
          /\ worker[w] = Awaits(c)
          /\ cell' = [cell EXCEPT ![c] = "settled"]
          /\ ctl' = [ctl EXCEPT !.spent = Accrued(c), !.capped = @ \/ Accrued(c) >= CostCap]
    BY <1>2 DEF CellSettles
  <2>2. cell[c] = "running"
    BY <2>1 DEF QueueInv, Awaits
  <2>3. Cardinality(Settled') = Cardinality(Settled) + 1
    BY <2>1, <2>2, OneMoreSettled
  <2>4. PICK cost \in 0..MaxCost : Accrued(c) = ctl.spent + cost
    <3>1. child[c].cost \in 0..MaxCost /\ 0 \in 0..MaxCost
      BY DEF TypeOK, Children
    <3>2. QED BY <3>1 DEF Accrued
  <2>5. ctl'.spent = ctl.spent + cost
    BY <1>0, <2>1, <2>4 DEF Controls
  <2>6. ctl.spent + cost <= MaxCost * (Cardinality(Settled) + 1)
    BY <1>0, OneMoreShare DEF CostInv
  <2>7. QED BY <1>0, <2>3, <2>5, <2>6 DEF CostInv
<1>3. ASSUME ctl'.spent = ctl.spent, Settled \in SUBSET (Settled')
      PROVE  ctl'.spent \in Nat /\ CostInv'
  <2>1. Cardinality(Settled) \in 0..Cardinality(Settled')
    <3>1. Cardinality(Settled) <= Cardinality(Settled')
      BY <1>3, CellCountMonotone DEF Settled
    <3>2. Cardinality(Settled') \in Nat
      BY CellCount DEF Settled
    <3>3. QED BY <1>0, <3>1, <3>2
  <2>2. Cardinality(Settled') \in Nat
    BY CellCount DEF Settled
  <2>3. MaxCost * Cardinality(Settled) <= Cardinality(Settled') * MaxCost
    BY <2>1, <2>2, SmallerShare
  <2>4. Cardinality(Settled') * MaxCost = MaxCost * Cardinality(Settled')
    BY <2>2
  <2>5. /\ MaxCost * Cardinality(Settled) \in Nat
        /\ MaxCost * Cardinality(Settled') \in Nat
    BY <1>0, <2>2
  <2>6. QED BY <1>0, <1>3, <2>3, <2>4, <2>5 DEF CostInv
<1>4. ASSUME ctl'.spent = 0 PROVE ctl'.spent \in Nat /\ CostInv'
  <2>1. Cardinality(Settled') \in Nat
    BY CellCount DEF Settled
  <2>2. MaxCost * Cardinality(Settled') \in Nat
    BY <2>1
  <2>3. QED BY <1>4, <2>2 DEF CostInv
<1>5. CASE Start \/ CrashRestart
  BY <1>1, <1>4, <1>5 DEF Start, CrashRestart, NoControl
<1>6. CASE \E w \in Workers : CellFailsToStart(w) \/ CellStarts(w)
  <2>1. /\ ctl' = ctl /\ next \in Cells
        /\ \E s \in {"error", "running"} : cell' = [cell EXCEPT ![next] = s]
    BY <1>6 DEF CellFailsToStart, CellStarts, Cells, TypeOK
  <2>2. cell[next] = "pending"
    BY <2>1 DEF QueueInv, Cells
  <2>3. Settled \in SUBSET (Settled')
    BY <2>1, <2>2 DEF Settled, TypeOK
  <2>4. QED BY <1>1, <1>3, <2>1, <2>3
<1>7. CASE Finish \/ Stop \/ Delete
  <2>1. ctl'.spent = ctl.spent /\ cell' = cell
    BY <1>0, <1>7 DEF Finish, Stop, Delete, Controls
  <2>2. QED BY <1>1, <1>3, <2>1 DEF Settled
<1>8. ASSUME ctl' = ctl, cell' = cell PROVE CostInv' /\ ctl'.spent \in 0..(NumCells * MaxCost)
  BY <1>1, <1>3, <1>8 DEF Settled
<1>9. QED
  BY <1>1, <1>2, <1>5, <1>6, <1>7, <1>8
     DEF Next, vars, Return, ReportSettles, ChildEnds, ChildReviewed, StopChild, DeleteChild,
         AnalysisBegins, AnalysisSettles, AnalysisFails

-----------------------------------------------------------------------------
(* The row, the control and the orchestrator. *)

\* Nothing has been started: no row, no control, no worker.
LEMMA RowInit == Init => RowInv
BY DEF Init, RowInv, NoRow, Idle, ThrownWorker, BusyWorker, Verdicts

\* What a worker does, as its two existentials see it.
LEMMA WorkerMoves ==
  ASSUME TypeOK, NEW w \in Workers, NEW state \in WorkerStates,
         worker' = [worker EXCEPT ![w] = state]
  PROVE  /\ state.at = "threw" => ThrownWorker'
         /\ state.at # "threw" /\ worker[w].at # "threw" => (ThrownWorker' <=> ThrownWorker)
         /\ worker[w].at # "threw" /\ ThrownWorker => ThrownWorker'
         /\ worker[w].at \in {"free", "awaits"} => (BusyWorker' => BusyWorker)
BY DEF TypeOK, ThrownWorker, BusyWorker

\* Every step keeps the row, the control and the orchestrator's promise together.
LEMMA RowStep ==
  ASSUME TypeOK, RowInv, [Next]_vars
  PROVE  RowInv'
<1>0. /\ row \in Rows /\ ctl \in Controls /\ worker \in [Workers -> WorkerStates]
      /\ analysis \in Analyses /\ hist \in Histories
  BY DEF TypeOK
<1>w. /\ \A at \in {"off", "free", "returned", "threw"} :
           Idle(at) \in WorkerStates /\ Idle(at).at = at
      /\ \A c \in Cells : Awaits(c) \in WorkerStates /\ Awaits(c).at = "awaits"
  BY DEF WorkerStates, Idle, Awaits
<1>u. worker' = worker => (ThrownWorker' <=> ThrownWorker) /\ (BusyWorker' <=> BusyWorker)
  BY DEF ThrownWorker, BusyWorker
<1>d. Disturbed.threw = hist.threw /\ [Disturbed EXCEPT !.threw = TRUE].threw = TRUE
  BY <1>0 DEF Disturbed, Histories
<1>p. ASSUME NEW w \in Workers, worker[w].at \in {"free", "awaits"}
      PROVE  BusyWorker /\ job # "none" /\ (job = "running" \/ ThrownWorker)
  BY <1>p, <1>w DEF BusyWorker, RowInv, Idle
<1>1. CASE UNCHANGED vars
  BY <1>1, <1>u DEF vars, RowInv
<1>2. CASE Start
  <2>1. \A w \in Workers : worker'[w].at = "free"
    BY <1>2, <1>w DEF Start
  <2>2. ~ThrownWorker'
    BY <2>1 DEF ThrownWorker
  <2>3. row'.status = "running" /\ row'.present
    BY <1>2 DEF Start, NoRow
  <2>4. ctl'.active /\ ~ctl'.finished
    BY <1>2 DEF Start, NoControl
  <2>5. job' = "running"
    BY <1>2 DEF Start
  <2>6. QED BY <2>2, <2>3, <2>4, <2>5 DEF RowInv, Verdicts
<1>3. ASSUME NEW w \in Workers, Return(w) PROVE RowInv'
  <2>1. (ThrownWorker' <=> ThrownWorker) /\ (BusyWorker' => BusyWorker)
    BY <1>0, <1>3, <1>w, WorkerMoves DEF Return
  <2>2. job # "none"
    BY <1>3, <1>p DEF Return
  <2>3. QED BY <1>3, <2>1, <2>2 DEF Return, RowInv
<1>4. ASSUME NEW w \in Workers, CellFailsToStart(w) PROVE RowInv'
  <2>1. job # "none"
    BY <1>4, <1>p DEF CellFailsToStart
  <2>2. QED BY <1>4, <1>u, <2>1 DEF CellFailsToStart, RowInv
<1>5. ASSUME NEW w \in Workers, CellStarts(w) PROVE RowInv'
  <2>1. next \in Cells
    BY <1>5, SizesAssumption DEF CellStarts, TypeOK, Cells
  <2>2. BusyWorker /\ job # "none" /\ (job = "running" \/ ThrownWorker)
    BY <1>5, <1>p DEF CellStarts
  <2>3. CASE worker' = [worker EXCEPT ![w] = Awaits(next)] /\ hist' = hist
    <3>1. (ThrownWorker' <=> ThrownWorker)
      BY <1>5, <1>w, <2>1, <2>3, WorkerMoves DEF CellStarts
    <3>2. QED BY <1>5, <2>2, <2>3, <3>1 DEF CellStarts, RowInv
  <2>4. CASE /\ worker' = [worker EXCEPT ![w] = Idle("threw")]
             /\ hist' = [Disturbed EXCEPT !.threw = TRUE]
    <3>1. ThrownWorker' /\ hist'.threw
      BY <1>d, <1>w, <2>4, WorkerMoves
    <3>2. QED BY <1>5, <2>2, <3>1 DEF CellStarts, RowInv
  <2>5. QED BY <1>5, <2>3, <2>4 DEF CellStarts
<1>6. ASSUME NEW w \in Workers, CellSettles(w) PROVE RowInv'
  <2>1. PICK c \in Cells :
          /\ worker[w] = Awaits(c)
          /\ ctl' = [ctl EXCEPT !.spent = Accrued(c), !.capped = @ \/ Accrued(c) >= CostCap]
          /\ \/ worker' = [worker EXCEPT ![w] = Idle("free")] /\ UNCHANGED hist
             \/ /\ worker' = [worker EXCEPT ![w] = Idle("threw")]
                /\ hist' = [Disturbed EXCEPT !.threw = TRUE]
    BY <1>6 DEF CellSettles
  <2>2. worker[w].at = "awaits"
    BY <1>w, <2>1
  <2>3. BusyWorker /\ job # "none" /\ (job = "running" \/ ThrownWorker)
    BY <2>2, <1>p
  <2>4. ctl'.active = ctl.active /\ ctl'.finished = ctl.finished /\ ctl'.stopped = ctl.stopped
    BY <1>0, <2>1 DEF Controls
  <2>5. CASE worker' = [worker EXCEPT ![w] = Idle("free")] /\ hist' = hist
    <3>1. (ThrownWorker' <=> ThrownWorker)
      BY <1>w, <2>2, <2>5, WorkerMoves
    <3>2. QED BY <1>6, <2>3, <2>4, <2>5, <3>1 DEF CellSettles, RowInv
  <2>6. CASE /\ worker' = [worker EXCEPT ![w] = Idle("threw")]
             /\ hist' = [Disturbed EXCEPT !.threw = TRUE]
    <3>1. ThrownWorker' /\ hist'.threw
      BY <1>d, <1>w, <2>6, WorkerMoves
    <3>2. QED BY <1>6, <2>3, <2>4, <3>1 DEF CellSettles, RowInv
  <2>7. QED BY <2>1, <2>5, <2>6
<1>7. CASE Finish
  <2>1. PICK errored \in BOOLEAN :
          /\ PoolSettled(errored)
          /\ IF ctl.finished
               THEN UNCHANGED <<row, mgr>>
               ELSE row' = Written([row EXCEPT !.status = verdict(errored),
                                               !.rating = "rating",
                                               !.aggregates = aggregatesOf(Started, NumCells)])
    BY <1>7 DEF Finish
  <2>2. /\ job = "running" /\ row.status = "running" /\ job' \in {"over", "reporting"}
        /\ row.present => ~ctl.finished
    BY <1>7 DEF Finish, RowInv
  <2>3. BusyWorker' => ThrownWorker'
    <3>1. CASE errored
      BY <1>7, <1>u, <2>1, <3>1 DEF PoolSettled, ThrownWorker, Finish
    <3>2. CASE ~errored
      BY <1>7, <1>u, <2>1, <3>2 DEF PoolSettled, BusyWorker, Finish
    <3>3. QED BY <3>1, <3>2
  <2>4. CASE row.present
    <3>1. verdict(errored) \in Verdicts
      BY VerdictType
    <3>2. row'.status = verdict(errored) /\ row'.rating = "rating"
      BY <1>0, <2>1, <2>2, <2>4 DEF Written, Rows
    <3>3. verdict(errored) # "none"
      BY <3>1 DEF Verdicts
    <3>4. QED BY <1>7, <1>u, <2>2, <2>3, <3>1, <3>2, <3>3 DEF Finish, RowInv
  <2>5. CASE ~row.present
    <3>1. row' = row
      BY <2>1, <2>5 DEF Written
    <3>2. QED BY <1>7, <1>u, <2>2, <2>3, <2>5, <3>1 DEF Finish, RowInv
  <2>6. QED BY <2>4, <2>5
<1>8. CASE ReportSettles
  <2>1. PICK settled \in {"rated", "failed"} : row' = Written([row EXCEPT !.rating = settled])
    BY <1>8 DEF ReportSettles
  <2>2. row' = row \/ (row.present /\ row'.status = row.status /\ row'.rating = settled)
    BY <1>0, <2>1 DEF Written, Rows
  <2>3. row.present => row.status \in Verdicts
    BY <1>8 DEF ReportSettles, RowInv
  <2>4. row'.status = "none" => row' = NoRow
    BY <2>2, <2>3 DEF RowInv, Verdicts
  <2>5. row'.status \in Verdicts => row'.rating \in {"rating"} \cup Reviewed
    BY <2>2 DEF RowInv, Reviewed
  <2>6. QED BY <1>8, <1>u, <2>4, <2>5 DEF ReportSettles, RowInv
<1>9. CASE \E c \in Cells : ChildEnds(c) \/ ChildReviewed(c)
  BY <1>9, <1>u DEF ChildEnds, ChildReviewed, RowInv
<1>10. CASE \E c \in Cells : StopChild(c) \/ DeleteChild(c)
  BY <1>10, <1>d, <1>u DEF StopChild, DeleteChild, RowInv
<1>11. CASE Stop
  <2>1. ctl'.active = ctl.active /\ ctl'.finished = ctl.finished /\ ctl'.stopped /\ ctl.active
    BY <1>0, <1>11 DEF Stop, Controls
  <2>2. job # "none"
    BY <2>1 DEF RowInv, NoControl
  <2>3. QED BY <1>11, <1>u, <2>1, <2>2 DEF Stop, RowInv
<1>12. CASE Delete
  <2>1. row'.status = row.status /\ row'.rating = row.rating /\ ~row'.present /\ row.present
    BY <1>0, <1>12 DEF Delete, Rows
  <2>2. job # "none" /\ row.status # "none"
    BY <2>1 DEF RowInv, NoRow
  <2>3. job = "running" => ctl'.stopped
    BY <1>0, <1>12, <2>1 DEF Delete, RowInv, Controls
  <2>4. QED BY <1>12, <1>u, <2>1, <2>2, <2>3 DEF Delete, RowInv
<1>13. CASE AnalysisBegins \/ AnalysisSettles \/ AnalysisFails
  <2>1. /\ row'.status = row.status /\ row'.rating = row.rating /\ row'.present = row.present
        /\ row' # row => row.present
    BY <1>0, <1>13 DEF AnalysisBegins, AnalysisSettles, AnalysisFails, Written, Rows
  <2>2. job # "none"
    BY <1>13 DEF AnalysisBegins, AnalysisSettles, AnalysisFails, RowInv, NoRow, NoAnalysis
  <2>3. row'.status = "none" => row' = NoRow
    BY <2>1 DEF RowInv, NoRow
  <2>4. hist'.threw = hist.threw
    BY <1>0, <1>13 DEF AnalysisBegins, AnalysisSettles, AnalysisFails, Disturbed, Histories
  <2>5. QED BY <1>13, <1>u, <2>1, <2>2, <2>3, <2>4
    DEF AnalysisBegins, AnalysisSettles, AnalysisFails, RowInv
<1>14. CASE CrashRestart
  <2>1. \A w \in Workers : worker'[w].at = "off"
    BY <1>14, <1>w DEF CrashRestart
  <2>2. ~ThrownWorker' /\ ~BusyWorker'
    BY <2>1 DEF ThrownWorker, BusyWorker
  <2>3. \/ row' = row
        \/ row'.status = "error" /\ row'.rating = "skipped"
        \/ row'.status = row.status /\ row'.status \in Verdicts /\ row'.rating = "skipped"
    BY <1>0, <1>14 DEF CrashRestart, Written, reconcileOrphans, Rows
  <2>4. row'.status = "none" => row' = NoRow
    BY <2>3 DEF RowInv, Verdicts
  <2>5. row'.status \in Verdicts => row'.rating \in {"rating"} \cup Reviewed
    BY <2>3 DEF RowInv, Reviewed
  <2>6. job' = "over"
    BY <1>14 DEF CrashRestart
  <2>7. QED BY <2>2, <2>4, <2>5, <2>6 DEF RowInv
<1>15. QED
  BY <1>1, <1>2, <1>3, <1>4, <1>5, <1>6, <1>7, <1>8, <1>9, <1>10, <1>11, <1>12, <1>13, <1>14
  DEF Next

-----------------------------------------------------------------------------
(* The queue and the pool. *)

\* How the states of a worker are told apart.
LEMMA WorkerFacts ==
  /\ \A at \in {"off", "free", "returned", "threw"} :
       Idle(at) \in WorkerStates /\ Idle(at).at = at
  /\ \A c \in Cells : /\ Awaits(c) \in WorkerStates
                      /\ Awaits(c).at = "awaits" /\ Awaits(c).cell = c
  /\ \A state \in WorkerStates : state.at = "awaits" =>
       state.cell \in Cells /\ state = Awaits(state.cell)
<1>1. \A at \in {"off", "free", "returned", "threw"} :
        Idle(at) \in WorkerStates /\ Idle(at).at = at
  BY DEF WorkerStates, Idle
<1>2. \A c \in Cells : /\ Awaits(c) \in WorkerStates
                       /\ Awaits(c).at = "awaits" /\ Awaits(c).cell = c
  BY DEF WorkerStates, Awaits
<1>3. ASSUME NEW state \in WorkerStates, state.at = "awaits"
      PROVE  state.cell \in Cells /\ state = Awaits(state.cell)
  <2>1. CASE \E c \in Cells : state = Awaits(c)
    BY <1>2, <2>1
  <2>2. CASE \E at \in {"off", "free", "returned", "threw"} : state = Idle(at)
    BY <1>1, <1>3, <2>2
  <2>3. QED BY <1>3, <2>1, <2>2 DEF WorkerStates
<1>4. QED BY <1>1, <1>2, <1>3

\* The whole matrix is in the queue.
LEMMA QueueInit == Init => QueueInv
BY SizesAssumption DEF Init, QueueInv, NoChild, Idle, Cells

\* Every step keeps the queue, the matrix and the pool together.
LEMMA QueueStep ==
  ASSUME TypeOK, RowInv, QueueInv, [Next]_vars
  PROVE  QueueInv'
<1> USE SizesAssumption
<1>0. /\ ctl \in Controls /\ worker \in [Workers -> WorkerStates] /\ hist \in Histories
      /\ child \in [Cells -> Children] /\ next \in 1..(NumCells + 1)
      /\ cell \in [Cells -> {"pending", "running", "settled", "error"}]
  BY DEF TypeOK
<1>c. Cells = 1..NumCells
  BY DEF Cells
<1>d. Disturbed.threw = hist.threw /\ [Disturbed EXCEPT !.threw = TRUE].threw = TRUE
  BY <1>0 DEF Disturbed, Histories
<1>1. CASE UNCHANGED vars
  BY <1>1 DEF vars, QueueInv, Halted
<1>2. CASE Start
  <2>1. next = 1 /\ job = "none"
    BY <1>2 DEF Start, RowInv
  <2>2. \A w \in Workers : worker'[w].at = "free" /\ worker[w].at = "off"
    BY <1>2, <2>1, WorkerFacts DEF Start, RowInv
  <2>3. \A c \in Cells : cell[c] = "pending" /\ child[c] = NoChild
    BY <1>c, <2>1 DEF QueueInv
  <2>4. QED BY <1>2, <1>c, <2>1, <2>2, <2>3 DEF Start, QueueInv
<1>3. ASSUME NEW w \in Workers, Return(w) PROVE QueueInv'
  <2>1. /\ \A v \in Workers : worker'[v] = IF v = w THEN Idle("returned") ELSE worker[v]
        /\ worker[w].at = "free" /\ Idle("returned").at = "returned"
        /\ Halted \/ next > NumCells
    BY <1>0, <1>3, WorkerFacts DEF Return
  <2>2. Halted' = Halted
    BY <1>3 DEF Return, Halted
  <2>3. \A c \in Cells : \A v \in Workers : worker[v] = Awaits(c) => worker'[v] = Awaits(c)
    BY <2>1, WorkerFacts
  <2>4. QED BY <1>3, <2>1, <2>2, <2>3 DEF Return, QueueInv
<1>4. ASSUME NEW w \in Workers, CellFailsToStart(w) PROVE QueueInv'
  <2>1. /\ next \in Cells /\ next' = next + 1
        /\ \A c \in Cells : cell'[c] = IF c = next THEN "error" ELSE cell[c]
    BY <1>0, <1>4, <1>c DEF CellFailsToStart
  <2>2. cell[next] = "pending"
    BY <1>c, <2>1 DEF QueueInv
  <2>3. \A v \in Workers : worker[v].at = "awaits" => worker[v].cell \in Cells
    BY <1>0, WorkerFacts
  <2>4. Halted' = Halted
    BY <1>4 DEF CellFailsToStart, Halted
  <2>5. QED BY <1>4, <1>c, <2>1, <2>2, <2>3, <2>4 DEF CellFailsToStart, QueueInv
<1>5. ASSUME NEW w \in Workers, CellStarts(w) PROVE QueueInv'
  <2>1. /\ next \in Cells /\ next' = next + 1 /\ worker[w].at = "free"
        /\ \A c \in Cells : cell'[c] = IF c = next THEN "running" ELSE cell[c]
        /\ \A c \in Cells : c # next => child'[c] = child[c]
    BY <1>0, <1>5, <1>c DEF CellStarts
  <2>2. cell[next] = "pending"
    BY <1>c, <2>1 DEF QueueInv
  <2>3. \A v \in Workers : worker[v].at = "awaits" => worker[v].cell \in Cells
    BY <1>0, WorkerFacts
  <2>4. Halted' = Halted
    BY <1>5 DEF CellStarts, Halted
  <2>5. CASE worker' = [worker EXCEPT ![w] = Awaits(next)] /\ hist' = hist
    <3>1. /\ \A v \in Workers : worker'[v] = IF v = w THEN Awaits(next) ELSE worker[v]
          /\ Awaits(next).at = "awaits" /\ Awaits(next).cell = next
      BY <1>0, <2>1, <2>5, WorkerFacts
    <3>2. \A v \in Workers : worker[v] # Awaits(next)
      BY <2>1, <2>2, <3>1 DEF QueueInv
    <3>3. \A c \in Cells : \A v \in Workers : worker[v] = Awaits(c) => worker'[v] = Awaits(c)
      BY <2>1, <3>1, WorkerFacts
    <3>4. \A v \in Workers : worker'[v].at = "awaits" =>
            /\ worker'[v].cell < next'
            /\ cell'[worker'[v].cell] = "running"
            /\ \A u \in Workers : worker'[u] = worker'[v] => u = v
      BY <1>c, <2>1, <2>2, <2>3, <3>1, <3>2 DEF QueueInv
    <3>5. \A c \in Cells : cell'[c] = "running" =>
            hist'.threw \/ job' = "over" \/ \E v \in Workers : worker'[v] = Awaits(c)
      BY <1>5, <2>1, <2>5, <3>1, <3>3 DEF QueueInv, CellStarts
    <3>6. \A v \in Workers : worker'[v].at = "returned" => Halted' \/ next' > NumCells
      BY <1>c, <2>1, <2>4, <3>1 DEF QueueInv
    <3>7. \A c \in Cells : IF c < next' THEN cell'[c] # "pending"
                           ELSE cell'[c] = "pending" /\ child'[c] = NoChild
      BY <1>c, <2>1 DEF QueueInv
    <3>8. QED BY <3>4, <3>5, <3>6, <3>7 DEF QueueInv
  <2>6. CASE /\ worker' = [worker EXCEPT ![w] = Idle("threw")]
             /\ hist' = [Disturbed EXCEPT !.threw = TRUE]
    <3>1. /\ \A v \in Workers : worker'[v] = IF v = w THEN Idle("threw") ELSE worker[v]
          /\ Idle("threw").at = "threw" /\ hist'.threw
      BY <1>0, <1>d, <2>6, WorkerFacts
    <3>2. \A v \in Workers : worker'[v].at = "awaits" =>
            /\ worker'[v].cell < next'
            /\ cell'[worker'[v].cell] = "running"
            /\ \A u \in Workers : worker'[u] = worker'[v] => u = v
      BY <1>c, <2>1, <2>2, <2>3, <3>1 DEF QueueInv
    <3>3. \A v \in Workers : worker'[v].at = "returned" => Halted' \/ next' > NumCells
      BY <1>c, <2>1, <2>4, <3>1 DEF QueueInv
    <3>4. \A c \in Cells : IF c < next' THEN cell'[c] # "pending"
                           ELSE cell'[c] = "pending" /\ child'[c] = NoChild
      BY <1>c, <2>1 DEF QueueInv
    <3>5. QED BY <3>1, <3>2, <3>3, <3>4 DEF QueueInv
  <2>7. QED BY <1>5, <2>5, <2>6 DEF CellStarts
<1>6. ASSUME NEW w \in Workers, CellSettles(w) PROVE QueueInv'
  <2>1. PICK c \in Cells :
          /\ worker[w] = Awaits(c)
          /\ cell' = [cell EXCEPT ![c] = "settled"]
          /\ ctl' = [ctl EXCEPT !.spent = Accrued(c), !.capped = @ \/ Accrued(c) >= CostCap]
          /\ \E at \in {"free", "threw"} : worker' = [worker EXCEPT ![w] = Idle(at)]
          /\ hist' = hist \/ hist' = [Disturbed EXCEPT !.threw = TRUE]
    BY <1>6 DEF CellSettles
  <2>2. PICK at \in {"free", "threw"} :
          /\ \A v \in Workers : worker'[v] = IF v = w THEN Idle(at) ELSE worker[v]
          /\ Idle(at).at = at
    BY <1>0, <2>1, WorkerFacts
  <2>3. Halted => Halted'
    BY <1>0, <2>1 DEF Halted, Controls
  <2>4. hist.threw => hist'.threw
    BY <1>d, <2>1
  <2>5. /\ \A d \in Cells : cell'[d] = IF d = c THEN "settled" ELSE cell[d]
        /\ cell[c] = "running"
        /\ \A v \in Workers : worker[v] = Awaits(c) => v = w
    BY <1>0, <2>1, WorkerFacts DEF QueueInv
  <2>6. \A v \in Workers : worker'[v].at = "awaits" =>
          /\ v # w /\ worker'[v] = worker[v] /\ worker[v].cell # c /\ worker[v].cell \in Cells
    BY <1>0, <2>2, <2>5, WorkerFacts
  <2>7. \A v \in Workers : worker'[v].at = "awaits" =>
          /\ worker'[v].cell < next
          /\ cell'[worker'[v].cell] = "running"
          /\ \A u \in Workers : worker'[u] = worker'[v] => u = v
    BY <2>2, <2>5, <2>6 DEF QueueInv
  <2>8. \A d \in Cells : cell'[d] = "running" =>
          hist'.threw \/ job = "over" \/ \E v \in Workers : worker'[v] = Awaits(d)
    <3>1. ASSUME NEW d \in Cells, cell'[d] = "running", ~hist'.threw, job # "over"
          PROVE  \E v \in Workers : worker'[v] = Awaits(d)
      <4>1. d # c /\ cell[d] = "running"
        BY <2>5, <3>1
      <4>2. PICK v \in Workers : worker[v] = Awaits(d)
        BY <2>4, <3>1, <4>1 DEF QueueInv
      <4>3. v # w
        BY <2>1, <4>1, <4>2, WorkerFacts
      <4>4. QED BY <2>2, <4>2, <4>3
    <3>2. QED BY <3>1
  <2>9. \A v \in Workers : worker'[v].at = "returned" => Halted' \/ next > NumCells
    BY <2>2, <2>3 DEF QueueInv
  <2>10. \A d \in Cells : IF d < next THEN cell'[d] # "pending"
                          ELSE cell'[d] = "pending" /\ child[d] = NoChild
    BY <2>5 DEF QueueInv
  <2>11. next' = next /\ job' = job /\ child' = child
    BY <1>6 DEF CellSettles
  <2>12. QED BY <2>7, <2>8, <2>9, <2>10, <2>11 DEF QueueInv
<1>7. CASE Finish
  <2>1. PICK errored \in BOOLEAN :
          /\ PoolSettled(errored)
          /\ ctl' = [ctl EXCEPT !.errored = errored, !.finished = TRUE, !.active = FALSE]
    BY <1>7 DEF Finish
  <2>2. \A c \in Cells : cell[c] = "running" => hist.threw
    <3>1. CASE errored
      BY <2>1, <3>1 DEF PoolSettled, RowInv, ThrownWorker
    <3>2. CASE ~errored
      BY <1>7, <2>1, <3>2, WorkerFacts DEF PoolSettled, QueueInv, Finish
    <3>3. QED BY <3>1, <3>2
  <2>3. Halted' = Halted
    BY <1>0, <2>1 DEF Halted, Controls
  <2>4. QED BY <1>7, <2>2, <2>3 DEF Finish, QueueInv
<1>8. CASE ReportSettles
  BY <1>8 DEF ReportSettles, QueueInv, Halted
<1>9. ASSUME \A c \in Cells : child[c] = NoChild => child'[c] = NoChild,
             UNCHANGED <<job, next, cell, worker>>, hist'.threw = hist.threw, Halted => Halted'
      PROVE  QueueInv'
  BY <1>9 DEF QueueInv
<1>10. ASSUME NEW c \in Cells, ChildEnds(c) \/ ChildReviewed(c) \/ StopChild(c) \/ DeleteChild(c)
       PROVE  QueueInv'
  <2>1. child[c] # NoChild
    BY <1>10 DEF ChildEnds, ChildReviewed, StopChild, DeleteChild, NoChild
  <2>2. \A d \in Cells : d # c => child'[d] = child[d]
    BY <1>0, <1>10 DEF ChildEnds, ChildReviewed, StopChild, DeleteChild
  <2>3. Halted' = Halted
    BY <1>10 DEF ChildEnds, ChildReviewed, StopChild, DeleteChild, Halted
  <2>4. hist'.threw = hist.threw
    BY <1>10, <1>d DEF ChildEnds, ChildReviewed, StopChild, DeleteChild
  <2>5. QED BY <1>9, <1>10, <2>1, <2>2, <2>3, <2>4
    DEF ChildEnds, ChildReviewed, StopChild, DeleteChild
<1>11. CASE Stop \/ Delete
  <2>1. Halted => Halted'
    BY <1>0, <1>11 DEF Stop, Delete, Halted, Controls
  <2>2. \A c \in Cells : child[c] = NoChild => child'[c] = NoChild
    <3>1. [NoChild EXCEPT !.linked = FALSE] = NoChild /\ NoChild.at # "live"
      <4>1. NoChild = [NoChild EXCEPT !.linked = FALSE]
        <5>1. NoChild.linked = FALSE
          BY DEF NoChild
        <5>2. NoChild = [f \in DOMAIN NoChild |-> NoChild[f]]
          BY DEF NoChild
        <5>3. \A f \in DOMAIN NoChild : [NoChild EXCEPT !.linked = FALSE][f] = NoChild[f]
          BY <5>1
        <5>4. QED BY <5>2, <5>3
      <4>2. QED BY <4>1 DEF NoChild
    <3>2. \A c \in Cells : child[c] = NoChild => StopChildren(child)[c] = NoChild
      BY <3>1 DEF StopChildren
    <3>3. CASE Stop
      BY <3>2, <3>3 DEF Stop
    <3>4. CASE Delete
      <4>1. \A c \in Cells : child'[c] = [child[c] EXCEPT !.linked = FALSE]
                          \/ child'[c] = [StopChildren(child)[c] EXCEPT !.linked = FALSE]
        BY <3>4 DEF Delete
      <4>2. QED BY <3>1, <3>2, <4>1
    <3>5. QED BY <1>11, <3>3, <3>4
  <2>3. QED BY <1>9, <1>11, <2>1, <2>2 DEF Stop, Delete
<1>12. CASE AnalysisBegins \/ AnalysisSettles \/ AnalysisFails
  <2>1. hist'.threw = hist.threw
    BY <1>0, <1>12 DEF AnalysisBegins, AnalysisSettles, AnalysisFails, Disturbed, Histories
  <2>2. QED BY <1>9, <1>12, <2>1 DEF AnalysisBegins, AnalysisSettles, AnalysisFails, Halted
<1>13. CASE CrashRestart
  <2>1. \A w \in Workers : worker'[w].at = "off"
    BY <1>13, WorkerFacts DEF CrashRestart
  <2>2. \A c \in Cells : child[c] = NoChild => child'[c] = NoChild
    BY <1>13 DEF CrashRestart, Orphaned, NoChild
  <2>3. QED BY <1>13, <2>1, <2>2 DEF CrashRestart, QueueInv
<1>14. QED
  BY <1>1, <1>2, <1>3, <1>4, <1>5, <1>6, <1>7, <1>8, <1>10, <1>11, <1>12, <1>13 DEF Next

-----------------------------------------------------------------------------
(* Who occupies the pool. *)

\* Nothing is in flight.
LEMMA OccupancyInit == Init => OccupancyInv
<1> SUFFICES ASSUME Init PROVE OccupancyInv
  OBVIOUS
<1>1. InFlight = {}
  BY DEF Init, InFlight, NoChild
<1> DEFINE f == [c \in InFlight |-> 1]
<1>2. f \in [InFlight -> Workers] /\ Occupies(f)
  BY <1>1 DEF Occupies
<1>3. QED BY <1>2 DEF OccupancyInv

\* A child that leaves frees its worker; the others keep theirs.
LEMMA OccupancyShrinks ==
  ASSUME OccupancyInv, InFlight' \in SUBSET InFlight,
         \A c \in InFlight' : \A w \in Workers :
           worker[w] = Awaits(c) \/ worker[w].at = "threw" =>
             worker'[w] = Awaits(c) \/ worker'[w].at = "threw"
  PROVE  OccupancyInv'
<1>1. PICK f \in [InFlight -> Workers] : Occupies(f)
  BY DEF OccupancyInv
<1> DEFINE g == [c \in InFlight' |-> f[c]]
<1>2. g \in [InFlight' -> Workers]
  BY <1>1
<1>3. \A c, d \in InFlight' : g[c] = g[d] => c = d
  BY <1>1 DEF Occupies
<1>4. \A c \in InFlight' : worker'[g[c]] = Awaits(c) \/ worker'[g[c]].at = "threw"
  BY <1>1 DEF Occupies
<1>5. QED BY <1>2, <1>3, <1>4 DEF OccupancyInv, Occupies

\* A child that starts takes up the free worker that started it.
LEMMA OccupancyGrows ==
  ASSUME OccupancyInv, NEW w \in Workers, NEW n \in Cells,
         InFlight' = InFlight \cup {n}, n \notin InFlight,
         worker[w].at = "free",
         worker'[w] = Awaits(n) \/ worker'[w].at = "threw",
         \A v \in Workers : v # w => worker'[v] = worker[v]
  PROVE  OccupancyInv'
<1>1. PICK f \in [InFlight -> Workers] : Occupies(f)
  BY DEF OccupancyInv
<1> DEFINE g == [c \in InFlight' |-> IF c = n THEN w ELSE f[c]]
<1>2. \A c \in InFlight : c \in Cells /\ f[c] \in Workers /\ f[c] # w
  BY <1>1, WorkerFacts DEF Occupies, InFlight
<1>3. g \in [InFlight' -> Workers]
  BY <1>1
<1>4. \A c, d \in InFlight' : g[c] = g[d] => c = d
  BY <1>1, <1>2 DEF Occupies
<1>5. \A c \in InFlight' : worker'[g[c]] = Awaits(c) \/ worker'[g[c]].at = "threw"
  BY <1>1, <1>2 DEF Occupies
<1>6. QED BY <1>3, <1>4, <1>5 DEF OccupancyInv, Occupies

\* Only a start adds a child: every other step can at most end, drop or unlink some.
LEMMA ChildrenShrink ==
  ASSUME TypeOK, [Next]_vars, \A w \in Workers : ~CellStarts(w)
  PROVE  InFlight' \in SUBSET InFlight /\ Kept' \in SUBSET Kept /\ Linked' \in SUBSET Linked
<1>0. child \in [Cells -> Children]
  BY DEF TypeOK
<1>1. ASSUME \A c \in Cells :
               /\ child'[c].at \in {"live", "stopping", "review"} =>
                    child[c].at \in {"live", "stopping", "review"}
               /\ child[c].at = "none" => child'[c].at = "none"
               /\ child'[c].kept => child[c].kept
               /\ child'[c].linked => child[c].linked
      PROVE  InFlight' \in SUBSET InFlight /\ Kept' \in SUBSET Kept /\ Linked' \in SUBSET Linked
  BY <1>1 DEF InFlight, Kept, Started, Linked
<1>2. ASSUME NEW c \in Cells, ChildEnds(c) \/ ChildReviewed(c) \/ StopChild(c) \/ DeleteChild(c)
      PROVE  InFlight' \in SUBSET InFlight /\ Kept' \in SUBSET Kept /\ Linked' \in SUBSET Linked
  <2>1. \A d \in Cells : d # c => child'[d] = child[d]
    BY <1>0, <1>2 DEF ChildEnds, ChildReviewed, StopChild, DeleteChild
  <2>2. /\ child[c].at = "none" => child'[c].at = "none"
        /\ child'[c].at \in {"live", "stopping", "review"} =>
             child[c].at \in {"live", "stopping", "review"}
        /\ child'[c].kept => child[c].kept
        /\ child'[c].linked => child[c].linked
    <3>1. child[c] \in Children
      BY <1>0
    <3>2. CASE ChildEnds(c)
      BY <1>0, <3>1, <3>2 DEF ChildEnds, Children
    <3>3. CASE ChildReviewed(c) \/ StopChild(c)
      BY <1>0, <3>1, <3>3 DEF ChildReviewed, StopChild, Children
    <3>4. CASE DeleteChild(c)
      <4>1. /\ child'[c].at = IF child[c].at = "live" THEN "stopping" ELSE child[c].at
            /\ child'[c].kept = FALSE /\ child'[c].linked = FALSE
        BY <1>0, <3>1, <3>4 DEF DeleteChild, Children
      <4>2. QED BY <4>1
    <3>5. QED BY <1>2, <3>2, <3>3, <3>4
  <2>3. QED BY <1>1, <2>1, <2>2
<1>3. CASE Stop \/ Delete
  <2>1. \A c \in Cells : LET stopped == StopChildren(child)[c] IN
          /\ stopped \in Children
          /\ stopped.at \in {"live", "stopping", "review"} =>
               child[c].at \in {"live", "stopping", "review"}
          /\ child[c].at = "none" => stopped.at = "none"
          /\ stopped.kept = child[c].kept
          /\ stopped.linked = child[c].linked
    BY <1>0, StopType DEF StopChildren, Children
  <2>2. CASE Stop
    BY <1>1, <2>1, <2>2 DEF Stop
  <2>3. CASE Delete
    <3>1. \A c \in Cells : child'[c] = [child[c] EXCEPT !.linked = FALSE]
                        \/ child'[c] = [StopChildren(child)[c] EXCEPT !.linked = FALSE]
      BY <2>3 DEF Delete
    <3>2. \A c \in Cells : StopChildren(child)[c] \in Children /\ child[c] \in Children
      BY <1>0, StopType
    <3>3. \A c \in Cells : /\ \/ child'[c].at = child[c].at
                              \/ child'[c].at = StopChildren(child)[c].at
                           /\ child'[c].kept = child[c].kept
                           /\ child'[c].linked = FALSE
      <4>1. ASSUME NEW run \in Children
            PROVE  /\ [run EXCEPT !.linked = FALSE].at = run.at
                   /\ [run EXCEPT !.linked = FALSE].kept = run.kept
                   /\ [run EXCEPT !.linked = FALSE].linked = FALSE
        BY DEF Children
      <4>2. ASSUME NEW c \in Cells
            PROVE  /\ \/ child'[c].at = child[c].at
                      \/ child'[c].at = StopChildren(child)[c].at
                   /\ child'[c].kept = child[c].kept
                   /\ child'[c].linked = FALSE
        <5>1. CASE child'[c] = [child[c] EXCEPT !.linked = FALSE]
          BY <3>2, <4>1, <5>1
        <5>2. CASE child'[c] = [StopChildren(child)[c] EXCEPT !.linked = FALSE]
          BY <2>1, <3>2, <4>1, <5>2
        <5>3. QED BY <3>1, <5>1, <5>2
      <4>3. QED BY <4>2
    <3>4. QED BY <1>1, <2>1, <3>3
  <2>4. QED BY <1>3, <2>2, <2>3
<1>4. CASE CrashRestart
  <2>1. \A c \in Cells : /\ child'[c].at \notin {"live", "stopping", "review"}
                         /\ child[c].at = "none" => child'[c].at = "none"
                         /\ child'[c].kept = child[c].kept
                         /\ child'[c].linked = child[c].linked
    BY <1>0, <1>4 DEF CrashRestart, Orphaned, Children
  <2>2. QED BY <1>1, <2>1
<1>5. ASSUME child' = child
      PROVE  InFlight' \in SUBSET InFlight /\ Kept' \in SUBSET Kept /\ Linked' \in SUBSET Linked
  BY <1>1, <1>5
<1>6. QED
  BY <1>2, <1>3, <1>4, <1>5
     DEF Next, vars, Start, Return, CellFailsToStart, CellSettles, Finish, ReportSettles,
         AnalysisBegins, AnalysisSettles, AnalysisFails

\* Who is in flight after a step, and which workers may move with it.
LEMMA OccupancyStep ==
  ASSUME TypeOK, RowInv, QueueInv, OccupancyInv, [Next]_vars
  PROVE  OccupancyInv'
<1> USE SizesAssumption
<1>0. /\ worker \in [Workers -> WorkerStates] /\ child \in [Cells -> Children]
      /\ next \in 1..(NumCells + 1)
  BY DEF TypeOK
<1>1. ASSUME NEW w \in Workers, CellStarts(w) PROVE OccupancyInv'
  <2>1. /\ next \in Cells /\ worker[w].at = "free"
        /\ \A v \in Workers : v # w => worker'[v] = worker[v]
        /\ worker'[w] = Awaits(next) \/ worker'[w] = Idle("threw")
        /\ child'[next].at = "live"
        /\ \A c \in Cells : c # next => child'[c] = child[c]
    BY <1>0, <1>1 DEF CellStarts, Cells
  <2>2. child[next] = NoChild
    BY <2>1 DEF QueueInv, Cells
  <2>3. InFlight' = InFlight \cup {next} /\ next \notin InFlight
    BY <2>1, <2>2 DEF InFlight, NoChild
  <2>4. QED BY <2>1, <2>3, OccupancyGrows, WorkerFacts
<1>2. CASE \A w \in Workers : ~CellStarts(w)
  <2>0. InFlight' \in SUBSET InFlight /\ \A c \in InFlight' : c \in Cells
    BY <1>2, ChildrenShrink DEF InFlight
  <2>1. CASE Start
    <3>1. \A w \in Workers : worker[w].at = "off"
      BY <2>1, WorkerFacts DEF Start, RowInv
    <3>2. QED BY <2>0, <3>1, OccupancyShrinks, WorkerFacts
  <2>2. ASSUME NEW w \in Workers, Return(w) PROVE OccupancyInv'
    <3>1. worker[w].at = "free" /\ \A v \in Workers : v # w => worker'[v] = worker[v]
      BY <1>0, <2>2 DEF Return
    <3>2. QED BY <2>0, <3>1, OccupancyShrinks, WorkerFacts
  <2>3. ASSUME NEW w \in Workers, CellSettles(w) PROVE OccupancyInv'
    <3>1. PICK c \in Cells : worker[w] = Awaits(c) /\ child[c].at = "done"
      BY <2>3 DEF CellSettles
    <3>2. c \notin InFlight'
      BY <2>0, <3>1 DEF InFlight
    <3>3. \A v \in Workers : v # w => worker'[v] = worker[v]
      BY <1>0, <2>3 DEF CellSettles
    <3>4. QED BY <2>0, <3>1, <3>2, <3>3, OccupancyShrinks, WorkerFacts
  <2>4. CASE CrashRestart
    <3>1. \A c \in Cells : child'[c].at \notin {"live", "stopping", "review"}
      BY <1>0, <2>4 DEF CrashRestart, Orphaned, Children
    <3>2. InFlight' = {}
      BY <3>1 DEF InFlight
    <3>3. QED BY <3>2, OccupancyShrinks
  <2>5. ASSUME worker' = worker PROVE OccupancyInv'
    BY <2>0, <2>5, OccupancyShrinks
  <2>6. QED
    BY <1>2, <2>1, <2>2, <2>3, <2>4, <2>5
       DEF Next, vars, CellFailsToStart, Finish, ReportSettles, ChildEnds, ChildReviewed, StopChild,
           DeleteChild, Stop, Delete, AnalysisBegins, AnalysisSettles, AnalysisFails
<1>3. QED BY <1>1, <1>2

-----------------------------------------------------------------------------
(* The pool. *)

PoolInv == TypeOK /\ RowInv /\ QueueInv /\ OccupancyInv /\ CostInv

\* The pool's invariant holds in every reachable state.
LEMMA PoolInvariant == Spec => []PoolInv
<1>1. Init => PoolInv
  BY TypeInit, RowInit, QueueInit, OccupancyInit, CostInit DEF PoolInv
<1>2. PoolInv /\ [Next]_vars => PoolInv'
  BY TypeStep, RowStep, QueueStep, OccupancyStep, CostStep DEF PoolInv
<1>3. QED BY <1>1, <1>2, PTL DEF Spec

\* Every reachable state of a suite run is well typed; the cost accrued in
\* particular never exceeds that of the whole matrix.
THEOREM TypeCorrect == Spec => []TypeOK
<1>1. PoolInv => TypeOK
  BY DEF PoolInv
<1>2. QED BY <1>1, PoolInvariant, PTL

\* Never more children in flight than maxConcurrency (runCell awaits handle.done,
\* which resolves after the child's review), however workers throw and children stop.
THEOREM PoolBounded == Spec => []InFlightBounded
<1>1. ASSUME PoolInv PROVE InFlightBounded
  <2>1. PICK f \in [InFlight -> Workers] : Occupies(f)
    BY <1>1 DEF PoolInv, OccupancyInv
  <2>2. f \in Injection(InFlight, Workers)
    BY <2>1 DEF Occupies, Injection, IsInjective
  <2>3. Cardinality(InFlight) <= Cardinality(Workers)
    BY <2>2, Sizes, FS_Injection
  <2>4. Cardinality(InFlight) \in Nat /\ Cardinality(Workers) \in Nat
    BY CellCount, Sizes, FS_CardinalityType DEF InFlight
  <2>5. QED BY <2>3, <2>4, Sizes, SizesAssumption DEF InFlightBounded
<1>2. QED BY <1>1, PoolInvariant, PTL

-----------------------------------------------------------------------------
(* The verdict. *)

\* Where the status of a suite run can change.
LEMMA StatusStep ==
  ASSUME TypeOK, [Next]_vars
  PROVE  \/ row'.status = row.status
         \/ Start
         \/ Finish
         \/ CrashRestart /\ row.status = "running" /\ row'.status = "error"
<1>0. row \in Rows
  BY DEF TypeOK
<1>1. CASE CrashRestart
  BY <1>0, <1>1 DEF CrashRestart, Written, reconcileOrphans, Rows
<1>2. CASE ReportSettles
  BY <1>0, <1>2 DEF ReportSettles, Written, Rows
<1>3. CASE Delete
  BY <1>0, <1>3 DEF Delete, Rows
<1>4. CASE AnalysisBegins \/ AnalysisSettles
  BY <1>0, <1>4 DEF AnalysisBegins, AnalysisSettles, Written, Rows
<1>5. QED
  BY <1>1, <1>2, <1>3, <1>4
     DEF Next, vars, Return, CellFailsToStart, CellStarts, CellSettles, ChildEnds, ChildReviewed,
         StopChild, DeleteChild, Stop, AnalysisFails

\* Whether a worker ever threw is not forgotten.
LEMMA ThrewStays ==
  ASSUME TypeOK, [Next]_vars
  PROVE  /\ hist.threw => hist'.threw
         /\ hist.liveAnalysis => hist'.liveAnalysis
<1>0. hist \in Histories /\ (Disturbable => Disturbed \in Histories)
  BY DisturbedType DEF TypeOK
<1>1. /\ Disturbed.threw = hist.threw /\ Disturbed.liveAnalysis = hist.liveAnalysis
      /\ [Disturbed EXCEPT !.threw = TRUE].threw = TRUE
      /\ [Disturbed EXCEPT !.threw = TRUE].liveAnalysis = hist.liveAnalysis
  BY <1>0 DEF Disturbed, Histories
<1>2. CASE AnalysisBegins
  <2>1. hist' = [Disturbed EXCEPT !.liveAnalysis = @ \/ row.status = "running"]
    BY <1>2 DEF AnalysisBegins
  <2>2. QED BY <1>0, <1>1, <1>2, <2>1 DEF AnalysisBegins, Histories
<1>3. QED
  BY <1>1, <1>2
     DEF Next, vars, Start, Return, CellFailsToStart, CellStarts, CellSettles, Finish,
         ReportSettles, ChildEnds, ChildReviewed, StopChild, DeleteChild, Stop, Delete,
         AnalysisSettles, AnalysisFails, CrashRestart

\* A suite run with a verdict starts nothing more, unless a worker threw.
LEMMA NothingStarts ==
  ASSUME TypeOK, RowInv, row.status \in Verdicts, ~hist.threw, [Next]_vars
  PROVE  /\ cell' = cell
         /\ InFlight' \in SUBSET InFlight
         /\ Kept' \in SUBSET Kept
         /\ row'.status = row.status
<1>1. job # "running" /\ job # "none"
  BY DEF RowInv, Verdicts, NoRow
<1>2. ~BusyWorker
  BY <1>1 DEF RowInv
<1>3. ~(\E w \in Workers : Return(w) \/ CellFailsToStart(w) \/ CellStarts(w))
  BY <1>2 DEF BusyWorker, Return, CellFailsToStart, CellStarts
<1>4. ~(\E w \in Workers : CellSettles(w))
  <2>1. ASSUME NEW w \in Workers, CellSettles(w) PROVE FALSE
    <3>1. PICK c \in Cells : worker[w] = Awaits(c)
      BY <2>1 DEF CellSettles
    <3>2. worker[w].at = "awaits"
      BY <3>1, WorkerFacts
    <3>3. QED BY <1>2, <3>2 DEF BusyWorker
  <2>2. QED BY <2>1
<1>5. ~Start /\ ~Finish
  BY <1>1 DEF Start, Finish
<1>6. row'.status = row.status
  BY <1>5, StatusStep DEF Verdicts
<1>7. cell' = cell
  BY <1>3, <1>4, <1>5
     DEF Next, vars, ReportSettles, ChildEnds, ChildReviewed, StopChild, DeleteChild, Stop, Delete,
         AnalysisBegins, AnalysisSettles, AnalysisFails, CrashRestart
<1>8. QED BY <1>3, <1>6, <1>7, ChildrenShrink

\* What finish() finds when every worker has returned.
LEMMA FinishFinds ==
  ASSUME PoolInv, Finish, row'.status \in SchedulerVerdicts, ~hist.threw
  PROVE  /\ InFlight = {}
         /\ row'.status = "completed" => \A c \in Cells : cell[c] \in {"settled", "error"}
         /\ row'.aggregates = aggregatesOf(Started, NumCells)
<1>0. /\ row \in Rows /\ next \in 1..(NumCells + 1)
      /\ cell \in [Cells -> {"pending", "running", "settled", "error"}]
  BY DEF PoolInv, TypeOK
<1>1. PICK errored \in BOOLEAN :
        /\ PoolSettled(errored)
        /\ IF ctl.finished
             THEN UNCHANGED <<row, mgr>>
             ELSE row' = Written([row EXCEPT !.status = verdict(errored),
                                             !.rating = "rating",
                                             !.aggregates = aggregatesOf(Started, NumCells)])
  BY DEF Finish
<1>2. ~ThrownWorker /\ job = "running" /\ row.status = "running"
  BY DEF PoolInv, RowInv, Finish
<1>3. ~errored /\ \A w \in Workers : worker[w].at = "returned"
  BY <1>1, <1>2 DEF PoolSettled, ThrownWorker
<1>4. InFlight = {}
  <2>1. PICK f \in [InFlight -> Workers] : Occupies(f)
    BY DEF PoolInv, OccupancyInv
  <2>2. ASSUME NEW c \in InFlight PROVE FALSE
    <3>1. worker[f[c]] = Awaits(c) \/ worker[f[c]].at = "threw"
      BY <2>1 DEF Occupies
    <3>2. c \in Cells /\ f[c] \in Workers
      BY <2>1 DEF InFlight
    <3>3. QED BY <1>3, <3>1, <3>2, WorkerFacts
  <2>3. QED BY <2>2
<1>5. row.status \notin SchedulerVerdicts
  BY <1>2 DEF SchedulerVerdicts
<1>6. /\ row.present /\ ~ctl.finished
      /\ row' = [row EXCEPT !.status = verdict(errored), !.rating = "rating",
                            !.aggregates = aggregatesOf(Started, NumCells)]
      /\ row'.status = verdict(errored)
      /\ row'.aggregates = aggregatesOf(Started, NumCells)
  BY <1>0, <1>1, <1>5 DEF Written, Rows
<1>7. ASSUME row'.status = "completed", NEW c \in Cells
      PROVE  cell[c] \in {"settled", "error"}
  <2>1. ~Halted
    BY <1>3, <1>6, <1>7 DEF verdict, Halted
  <2>2. next > NumCells
    <3>1. \E w \in Workers : TRUE
      BY SizesAssumption DEF Workers
    <3>2. QED BY <1>3, <2>1, <3>1 DEF PoolInv, QueueInv
  <2>3. cell[c] # "pending"
    BY <1>0, <2>2, SizesAssumption DEF PoolInv, QueueInv, Cells
  <2>4. cell[c] # "running"
    BY <1>2, <1>3, WorkerFacts DEF PoolInv, QueueInv
  <2>5. QED BY <1>0, <2>3, <2>4
<1>8. QED BY <1>4, <1>6, <1>7

\* The scheduler's own verdict is about a matrix at rest.
LEMMA RestStep ==
  ASSUME PoolInv, ConcludedAtRest, [Next]_vars
  PROVE  ConcludedAtRest'
<1> SUFFICES ASSUME row'.status \in SchedulerVerdicts, ~hist'.threw
             PROVE  /\ InFlight' = {}
                    /\ row'.status = "completed" =>
                         \A c \in Cells : cell'[c] \in {"settled", "error"}
  BY DEF ConcludedAtRest, SchedulerVerdicts
<1>0. TypeOK /\ RowInv /\ ~hist.threw
  BY ThrewStays DEF PoolInv
<1>1. CASE row.status \in SchedulerVerdicts
  <2>1. /\ cell' = cell /\ InFlight' \in SUBSET InFlight /\ row'.status = row.status
    BY <1>0, <1>1, NothingStarts DEF SchedulerVerdicts, Verdicts
  <2>2. QED BY <1>0, <1>1, <2>1 DEF ConcludedAtRest, SchedulerVerdicts
<1>2. CASE Finish
  <2>1. cell' = cell /\ InFlight' = InFlight
    BY <1>2 DEF Finish, InFlight
  <2>2. QED BY <1>0, <1>2, <2>1, FinishFinds
<1>3. CASE Start
  BY <1>3 DEF Start, NoRow, SchedulerVerdicts
<1>4. QED
  BY <1>0, <1>1, <1>2, <1>3, StatusStep DEF SchedulerVerdicts

\* A child is only linked under a suite run that exists.
LEMMA LinksStep ==
  ASSUME PoolInv, LinksResolve, [Next]_vars
  PROVE  LinksResolve'
<1> SUFFICES ASSUME Linked' # {}, ~hist'.threw PROVE row'.present
  BY DEF LinksResolve
<1>0. /\ TypeOK /\ RowInv /\ row \in Rows /\ child \in [Cells -> Children]
      /\ ~hist.threw /\ ~ThrownWorker
  BY ThrewStays DEF PoolInv, RowInv, TypeOK
<1>1. ASSUME NEW w \in Workers, CellStarts(w) PROVE row'.present
  <2>1. job = "running" /\ ~ctl.stopped
    BY <1>0, <1>1 DEF CellStarts, RowInv, BusyWorker, Halted
  <2>2. row.present
    BY <1>0, <2>1 DEF RowInv
  <2>3. QED BY <1>1, <2>2 DEF CellStarts
<1>2. CASE \A w \in Workers : ~CellStarts(w)
  <2>1. row.present
    BY <1>0, <1>2, ChildrenShrink DEF LinksResolve
  <2>2. ~Delete
    <3>1. ASSUME Delete PROVE Linked' = {}
      <4>1. \A c \in Cells : child'[c] = [child[c] EXCEPT !.linked = FALSE]
                          \/ child'[c] = [StopChildren(child)[c] EXCEPT !.linked = FALSE]
        BY <3>1 DEF Delete
      <4>2. \A c \in Cells : StopChildren(child)[c] \in Children /\ child[c] \in Children
        BY <1>0, StopType
      <4>3. \A c \in Cells : child'[c].linked = FALSE
        BY <4>1, <4>2 DEF Children
      <4>4. QED BY <4>3 DEF Linked
    <3>2. QED BY <3>1
  <2>3. ASSUME NEW new \in Rows, new.present = row.present, row' = Written(new) PROVE row'.present
    BY <2>1, <2>3 DEF Written
  <2>4. CASE Finish \/ ReportSettles \/ AnalysisBegins \/ AnalysisSettles \/ CrashRestart \/ Start
    BY <1>0, <2>1, <2>4
       DEF Finish, ReportSettles, AnalysisBegins, AnalysisSettles, CrashRestart, Start, Written,
           reconcileOrphans, Rows
  <2>5. QED
    BY <1>2, <2>1, <2>2, <2>4
       DEF Next, vars, Return, CellFailsToStart, CellSettles, ChildEnds, ChildReviewed, StopChild,
           DeleteChild, Stop, AnalysisFails
<1>3. QED BY <1>1, <1>2

-----------------------------------------------------------------------------
(* The cached aggregates. *)

\* Where the cached aggregates can change.
LEMMA AggregatesStep ==
  ASSUME TypeOK, [Next]_vars
  PROVE  \/ row'.aggregates = row.aggregates
         \/ Start
         \/ Finish
         \/ AnalysisBegins /\ row'.aggregates = persist(row.aggregates, Linked)
         \/ AnalysisSettles /\ row'.aggregates = persist(analysis.base, analysis.members)
<1>0. row \in Rows
  BY DEF TypeOK
<1>1. CASE CrashRestart
  BY <1>0, <1>1 DEF CrashRestart, Written, reconcileOrphans, Rows
<1>2. CASE ReportSettles
  BY <1>0, <1>2 DEF ReportSettles, Written, Rows
<1>3. CASE Delete
  BY <1>0, <1>3 DEF Delete, Rows
<1>4. CASE AnalysisBegins
  BY <1>0, <1>4 DEF AnalysisBegins, Rows
<1>5. CASE AnalysisSettles
  BY <1>0, <1>5 DEF AnalysisSettles, Written, Rows
<1>6. QED
  BY <1>1, <1>2, <1>3, <1>4, <1>5
     DEF Next, vars, Return, CellFailsToStart, CellStarts, CellSettles, ChildEnds, ChildReviewed,
         StopChild, DeleteChild, Stop, AnalysisFails

\* The analysis that awaits its judge is the one that was asked for.
LEMMA AnalysisStep ==
  ASSUME [Next]_vars
  PROVE  \/ analysis' = analysis
         \/ ~analysis'.on
         \/ /\ AnalysisBegins /\ row' = row
            /\ analysis' = [on |-> TRUE, base |-> row.aggregates, members |-> Linked]
<1>1. CASE AnalysisBegins
  BY <1>1 DEF AnalysisBegins
<1>2. CASE AnalysisSettles \/ AnalysisFails \/ CrashRestart
  BY <1>2 DEF AnalysisSettles, AnalysisFails, CrashRestart, NoAnalysis
<1>3. QED
  BY <1>1, <1>2
     DEF Next, vars, Start, Return, CellFailsToStart, CellStarts, CellSettles, Finish,
         ReportSettles, ChildEnds, ChildReviewed, StopChild, DeleteChild, Stop, Delete

\* Nothing is cached.
LEMMA CacheInit == Init => CacheInv
BY DEF Init, CacheInv, NoRow, NoAnalysis, SchedulerVerdicts

\* An analysis may write its snapshot back: it is the one the verdict cached.
LEMMA CacheStep ==
  ASSUME PoolInv, CacheInv, [Next]_vars
  PROVE  CacheInv'
<1>0. /\ TypeOK /\ RowInv /\ row \in Rows /\ analysis \in Analyses /\ hist \in Histories
      /\ child \in [Cells -> Children]
  BY DEF PoolInv, TypeOK
<1>s. SchedulerVerdicts \in SUBSET Verdicts
  BY DEF SchedulerVerdicts, Verdicts
<1>v. ASSUME row.status \in Verdicts PROVE row'.status = row.status /\ ~Start /\ ~Finish
  <2>1. job # "running" /\ job # "none"
    BY <1>0, <1>v DEF RowInv, Verdicts, NoRow
  <2>2. QED BY <1>0, <1>v, <2>1, StatusStep DEF Start, Finish, Verdicts
<1>1. ASSUME row'.status \in SchedulerVerdicts, ~hist'.threw, ~hist'.liveAnalysis
      PROVE  /\ row'.aggregates.cached
             /\ row'.aggregates.total = NumCells
             /\ Cardinality(Kept') <= row'.aggregates.completed
  <2>1. ~hist.threw /\ ~hist.liveAnalysis
    BY <1>0, <1>1, ThrewStays
  <2>2. CASE row.status \in SchedulerVerdicts
    <3>1. row.status \in Verdicts /\ ~Start /\ ~Finish
      BY <1>s, <1>v, <2>2
    <3>2. /\ row.aggregates.cached /\ row.aggregates.total = NumCells
          /\ Cardinality(Kept) <= row.aggregates.completed
      BY <2>1, <2>2 DEF CacheInv
    <3>3. row'.aggregates = row.aggregates
      <4>1. CASE AnalysisSettles
        <5>1. analysis.base = row.aggregates
          BY <2>1, <4>1 DEF CacheInv, AnalysisSettles
        <5>2. QED BY <1>0, <3>1, <3>2, <5>1, AggregatesStep DEF persist
      <4>2. CASE ~AnalysisSettles
        BY <1>0, <3>1, <3>2, <4>2, AggregatesStep DEF persist
      <4>3. QED BY <4>1, <4>2
    <3>4. Kept' \in SUBSET Kept
      BY <1>0, <2>1, <3>1, NothingStarts
    <3>5. Cardinality(Kept') <= Cardinality(Kept)
      BY <3>4, CellCountMonotone DEF Kept, Started
    <3>6. /\ Cardinality(Kept) \in Nat /\ Cardinality(Kept') \in Nat
          /\ row.aggregates.completed \in Nat
      <4>1. Kept \in SUBSET Cells /\ Kept' \in SUBSET Cells
        BY <3>4 DEF Kept, Started
      <4>2. row.aggregates.completed \in 0..NumCells
        BY <1>0 DEF Rows, Counts
      <4>3. QED BY <4>1, <4>2, CellCount
    <3>7. QED BY <3>2, <3>3, <3>5, <3>6
  <2>3. CASE Finish
    <3>1. InFlight = {} /\ row'.aggregates = aggregatesOf(Started, NumCells)
      BY <1>1, <2>1, <2>3, FinishFinds
    <3>2. \A c \in Started : child[c].at \in {"review", "done"}
      BY <1>0, <3>1 DEF Started, InFlight, Children
    <3>3. Kept = {c \in Started : child[c].kept /\ child[c].at \in {"review", "done"}}
      BY <3>2 DEF Kept
    <3>4. Kept' = Kept
      BY <2>3 DEF Finish, Kept, Started
    <3>5. row'.aggregates = [cached |-> TRUE, total |-> NumCells, completed |-> Cardinality(Kept)]
      BY <3>1, <3>3 DEF aggregatesOf
    <3>6. Cardinality(Kept) \in Nat
      BY CellCount DEF Kept, Started
    <3>7. QED BY <3>4, <3>5, <3>6
  <2>4. CASE Start
    BY <1>1, <2>4 DEF Start, NoRow, SchedulerVerdicts
  <2>5. QED
    BY <1>0, <1>1, <2>2, <2>3, <2>4, StatusStep DEF SchedulerVerdicts
<1>2. ASSUME analysis'.on, ~hist'.liveAnalysis
      PROVE  row'.status \in Verdicts /\ analysis'.base = row'.aggregates
  <2>1. ~hist.liveAnalysis
    BY <1>0, <1>2, ThrewStays
  <2>2. CASE analysis' = analysis
    <3>1. row.status \in Verdicts /\ analysis.base = row.aggregates /\ analysis.on
      BY <1>2, <2>1, <2>2 DEF CacheInv
    <3>2. row'.status = row.status /\ ~Start /\ ~Finish
      BY <1>v, <3>1
    <3>3. ~AnalysisBegins /\ ~AnalysisSettles
      BY <2>2, <3>1 DEF AnalysisBegins, AnalysisSettles, NoAnalysis
    <3>4. row'.aggregates = row.aggregates
      BY <1>0, <3>2, <3>3, AggregatesStep
    <3>5. QED BY <2>2, <3>1, <3>2, <3>4
  <2>3. CASE /\ AnalysisBegins /\ row' = row
             /\ analysis' = [on |-> TRUE, base |-> row.aggregates, members |-> Linked]
    <3>1. row.status # "running"
      <4>1. hist' = [Disturbed EXCEPT !.liveAnalysis = @ \/ row.status = "running"]
            /\ Disturbed \in Histories
        BY <1>0, <2>3, DisturbedType DEF AnalysisBegins
      <4>2. QED BY <1>2, <4>1 DEF Histories
    <3>2. row.status # "none"
      BY <1>0, <2>3 DEF AnalysisBegins, RowInv, NoRow
    <3>3. row.status \in Verdicts
      BY <1>0, <3>1, <3>2 DEF Rows
    <3>4. QED BY <2>3, <3>3
  <2>4. QED BY <1>2, <2>2, <2>3, AnalysisStep
<1>3. QED BY <1>1, <1>2 DEF CacheInv

-----------------------------------------------------------------------------
(* The theorems about the verdict. *)

SuiteInv == PoolInv /\ ConcludedAtRest /\ LinksResolve /\ CacheInv

\* So does what the row says of the matrix.
LEMMA SuiteInvariant == Spec => []SuiteInv
<1>1. Init => ConcludedAtRest
  BY DEF Init, ConcludedAtRest, NoRow
<1>2. Init => LinksResolve
  BY DEF Init, LinksResolve, Linked, NoChild
<1>3. PoolInv /\ PoolInv' /\ SuiteInv /\ [Next]_vars => SuiteInv'
  BY RestStep, LinksStep, CacheStep DEF SuiteInv
<1>4. Init /\ PoolInv => SuiteInv
  BY <1>1, <1>2, CacheInit DEF SuiteInv
<1>5. QED BY <1>3, <1>4, PoolInvariant, PTL DEF Spec

\* A verdict the scheduler reached by itself is about a matrix at rest (Promise.all
\* over the workers, orchestrator.ts), for every matrix, pool and cap.
THEOREM VerdictAtRest == Spec => []ConcludedAtRest
<1>1. SuiteInv => ConcludedAtRest
  BY DEF SuiteInv
<1>2. QED BY <1>1, SuiteInvariant, PTL

\* No child is linked to a deleted suite run: the delete halts the workers before it
\* clears the linkage, so none links a child afterwards.
THEOREM NoDanglingLink == Spec => []LinksResolve
<1>1. SuiteInv => LinksResolve
  BY DEF SuiteInv
<1>2. QED BY <1>1, SuiteInvariant, PTL

\* The aggregates cached with a verdict count the whole matrix, and every child still
\* there, unless an analysis was asked for mid-run.
THEOREM AggregatesWhole == Spec => []AggregatesComplete
<1>1. SuiteInv => AggregatesComplete
  BY DEF SuiteInv, CacheInv, AggregatesComplete, SchedulerVerdicts, Kept
<1>2. QED BY <1>1, SuiteInvariant, PTL

-----------------------------------------------------------------------------
(* SuiteRun implements SuitePromise. *)

\* The status the promise speaks of, its cells and its failure.
PromisedStatus ==
  IF row.status = "none" THEN "none" ELSE IF row.present THEN row.status ELSE "removed"
PromisedStarted == {c \in Cells : cell[c] # "pending"}

\* The initial states of the suite run are initial states of its promise.
LEMMA PromiseInit == Init => Promise!Init
BY DEF Init, Promise!Init, NoRow, Idle
\* Every step of the suite run is one of its promise, or none of its business.
LEMMA PromiseStep ==
  ASSUME PoolInv, [Next]_vars
  PROVE  [Promise!Next]_(Promise!promise)
<1>0. /\ TypeOK /\ RowInv /\ RowInv' /\ row \in Rows /\ next \in 1..(NumCells + 1)
      /\ worker \in [Workers -> WorkerStates]
      /\ cell \in [Cells -> {"pending", "running", "settled", "error"}]
  BY RowStep DEF PoolInv, TypeOK
<1>p. /\ (IF row = NoRow THEN "none" ELSE IF row.present THEN row.status ELSE "removed")
           = PromisedStatus
      /\ (IF row' = NoRow THEN "none" ELSE IF row'.present THEN row'.status ELSE "removed")
           = PromisedStatus'
  BY <1>0 DEF RowInv, PromisedStatus, NoRow
<1>t. worker' = worker => (ThrownWorker' <=> ThrownWorker)
  BY DEF ThrownWorker
<1>q. cell' = cell => PromisedStarted' = PromisedStarted
  BY DEF PromisedStarted
<1>v. \A status \in Verdicts : status \notin {"none", "running", "removed"}
  BY DEF Verdicts
<1>u. ASSUME PromisedStatus' = PromisedStatus, row'.rating = row.rating,
             PromisedStarted' = PromisedStarted, ThrownWorker' <=> ThrownWorker
      PROVE  UNCHANGED Promise!promise
  BY <1>p, <1>u, Zenon DEF Promise!promise, PromisedStarted, ThrownWorker
<1>f. ASSUME row'.status = row.status, row'.present = row.present, row'.rating = row.rating,
             cell' = cell, worker' = worker
      PROVE  UNCHANGED Promise!promise
  <2>1. PromisedStatus' = PromisedStatus
    BY <1>f DEF PromisedStatus
  <2>2. QED BY <1>f, <1>q, <1>t, <1>u, <2>1
<1>1. CASE Start
  <2>1. PromisedStatus = "none" /\ PromisedStatus' = "running" /\ row'.rating = row.rating
    BY <1>1 DEF Start, NoRow, PromisedStatus
  <2>2. ~ThrownWorker /\ ~ThrownWorker'
    BY <1>1, WorkerFacts DEF Start, RowInv, PoolInv, ThrownWorker
  <2>3. PromisedStarted' = PromisedStarted
    BY <1>1, <1>q DEF Start
  <2>4. Promise!Begin
    BY <1>p, <2>1, <2>2, <2>3 DEF Promise!Begin, PromisedStarted, ThrownWorker
  <2>5. QED BY <2>4 DEF Promise!Next
<1>2. ASSUME NEW w \in Workers, Return(w) PROVE UNCHANGED Promise!promise
  <2>1. ThrownWorker' <=> ThrownWorker
    BY <1>0, <1>2, WorkerFacts, WorkerMoves DEF Return
  <2>2. PromisedStatus' = PromisedStatus /\ row' = row /\ cell' = cell
    BY <1>2 DEF Return, PromisedStatus
  <2>3. QED BY <1>q, <1>u, <2>1, <2>2
<1>3. ASSUME NEW w \in Workers, CellFailsToStart(w) \/ CellStarts(w) PROVE Promise!StartCell
  <2>1. /\ next \in Cells /\ row' = row /\ worker[w].at = "free" /\ ~Halted
        /\ \E s \in {"error", "running"} : cell' = [cell EXCEPT ![next] = s]
    BY <1>0, <1>3, SizesAssumption DEF CellFailsToStart, CellStarts, Cells
  <2>2. next \in Cells \ PromisedStarted /\ PromisedStarted' = PromisedStarted \cup {next}
    <3>1. cell[next] = "pending"
      BY <2>1 DEF PoolInv, QueueInv, Cells
    <3>2. QED BY <1>0, <2>1, <3>1 DEF PromisedStarted
  <2>3. PromisedStatus = "running" \/ ThrownWorker
    <3>1. BusyWorker
      BY <2>1 DEF BusyWorker
    <3>2. QED BY <1>0, <2>1, <3>1 DEF RowInv, PromisedStatus, Halted
  <2>4. ThrownWorker => ThrownWorker'
    <3>1. worker' = worker \/ \E state \in WorkerStates : worker' = [worker EXCEPT ![w] = state]
      BY <1>3, <2>1, WorkerFacts DEF CellFailsToStart, CellStarts
    <3>2. QED BY <1>0, <1>t, <2>1, <3>1, WorkerMoves
  <2>5. PromisedStatus' = PromisedStatus
    BY <2>1 DEF PromisedStatus
  <2>6. QED
    <3>1. ThrownWorker' = ThrownWorker \/ ThrownWorker' = TRUE
      BY <2>4 DEF ThrownWorker
    <3>2. QED BY <1>p, <2>1, <2>2, <2>3, <2>5, <3>1, Zenon
          DEF Promise!StartCell, PromisedStarted, ThrownWorker
<1>4. ASSUME NEW w \in Workers, CellSettles(w) PROVE [Promise!Next]_(Promise!promise)
  <2>1. PICK c \in Cells :
          /\ worker[w] = Awaits(c)
          /\ cell' = [cell EXCEPT ![c] = "settled"]
          /\ \E at \in {"free", "threw"} : worker' = [worker EXCEPT ![w] = Idle(at)]
    BY <1>4 DEF CellSettles
  <2>2. worker[w].at = "awaits" /\ row' = row
    BY <1>4, <2>1, WorkerFacts DEF CellSettles
  <2>3. PromisedStarted' = PromisedStarted
    <3>1. cell[c] = "running"
      BY <2>1, <2>2, WorkerFacts DEF PoolInv, QueueInv
    <3>2. QED BY <1>0, <2>1, <3>1 DEF PromisedStarted
  <2>4. PromisedStatus' = PromisedStatus
    BY <2>2 DEF PromisedStatus
  <2>5. PICK at \in {"free", "threw"} : worker' = [worker EXCEPT ![w] = Idle(at)]
    BY <2>1
  <2>6. CASE ThrownWorker' <=> ThrownWorker
    BY <1>u, <2>2, <2>3, <2>4, <2>6
  <2>7. CASE ~(ThrownWorker' <=> ThrownWorker)
    <3>1. ThrownWorker' /\ ~ThrownWorker
      BY <1>0, <2>2, <2>5, <2>7, WorkerFacts, WorkerMoves
    <3>2. PromisedStatus # "none"
      <4>1. BusyWorker
        BY <2>2 DEF BusyWorker
      <4>2. QED BY <1>0, <3>1, <4>1 DEF RowInv, PromisedStatus
    <3>3. Promise!Fail
      BY <1>p, <2>2, <2>3, <2>4, <3>1, <3>2 DEF Promise!Fail, PromisedStarted, ThrownWorker
    <3>4. QED BY <3>3 DEF Promise!Next
  <2>8. QED BY <2>6, <2>7
<1>5. CASE Finish
  <2>1. PICK errored \in BOOLEAN :
          /\ PoolSettled(errored)
          /\ IF ctl.finished
               THEN UNCHANGED <<row, mgr>>
               ELSE row' = Written([row EXCEPT !.status = verdict(errored),
                                               !.rating = "rating",
                                               !.aggregates = aggregatesOf(Started, NumCells)])
    BY <1>5 DEF Finish
  <2>2. row.status = "running" /\ (row.present => ~ctl.finished)
    BY <1>0, <1>5 DEF Finish, RowInv
  <2>3. worker' = worker /\ cell' = cell
    BY <1>5 DEF Finish
  <2>4. CASE ~row.present
    <3>1. row' = row
      BY <2>1, <2>4 DEF Written
    <3>2. QED BY <1>f, <2>3, <3>1
  <2>5. CASE row.present
    <3>1. /\ row'.status = verdict(errored) /\ row'.rating = "rating" /\ row'.present
          /\ verdict(errored) \in Verdicts
      BY <1>0, <2>1, <2>2, <2>5, VerdictType DEF Written, Rows
    <3>2. PromisedStatus = "running" /\ PromisedStatus' = verdict(errored)
      BY <1>v, <2>2, <2>5, <3>1 DEF PromisedStatus
    <3>3. verdict(errored) = "completed" => PromisedStarted = Cells
      <4>1. ASSUME verdict(errored) = "completed", NEW c \in Cells PROVE cell[c] # "pending"
        <5>1. ~Halted /\ ~errored
          BY <4>1 DEF verdict, Halted
        <5>2. next > NumCells
          <6>1. \E w \in Workers : TRUE
            BY SizesAssumption DEF Workers
          <6>2. QED BY <2>1, <5>1, <6>1 DEF PoolSettled, PoolInv, QueueInv
        <5>3. QED BY <1>0, <5>2, SizesAssumption DEF PoolInv, QueueInv, Cells
      <4>2. QED BY <4>1 DEF PromisedStarted
    <3>4. Promise!Verdicts = Verdicts
      BY DEF Promise!Verdicts, Verdicts
    <3>5. Promise!Conclude
      BY <1>p, <1>q, <1>t, <2>3, <3>1, <3>2, <3>3, <3>4, Zenon
      DEF Promise!Conclude, PromisedStarted, ThrownWorker
    <3>6. QED BY <3>5 DEF Promise!Next
  <2>6. QED BY <2>4, <2>5
<1>6. CASE ReportSettles
  <2>1. PICK settled \in {"rated", "failed"} : row' = Written([row EXCEPT !.rating = settled])
    BY <1>6 DEF ReportSettles
  <2>2. worker' = worker /\ cell' = cell
    BY <1>6 DEF ReportSettles
  <2>3. CASE ~row.present
    <3>1. row' = row
      BY <2>1, <2>3 DEF Written
    <3>2. QED BY <1>f, <2>2, <3>1
  <2>4. CASE row.present
    <3>1. /\ row'.status = row.status /\ row'.rating = settled /\ row'.present
          /\ row.status \in Verdicts /\ row.rating = "rating"
      BY <1>0, <1>6, <2>1, <2>4 DEF Written, Rows, RowInv, ReportSettles
    <3>2. PromisedStatus = row.status /\ PromisedStatus' = row.status
      BY <1>v, <2>4, <3>1 DEF PromisedStatus
    <3>3. Promise!Review
      BY <1>p, <1>q, <1>t, <2>2, <3>1, <3>2
      DEF Promise!Review, Promise!Verdicts, Promise!Reviewed, Verdicts, PromisedStarted,
          ThrownWorker
    <3>4. QED BY <3>3 DEF Promise!Next
  <2>5. QED BY <2>3, <2>4
<1>7. CASE Delete
  <2>1. /\ row'.status = row.status /\ row'.rating = row.rating /\ ~row'.present /\ row.present
        /\ row.status \notin {"none", "removed"}
        /\ worker' = worker /\ cell' = cell
    BY <1>0, <1>7 DEF Delete, Rows, RowInv, NoRow, Verdicts
  <2>2. PromisedStatus = row.status /\ PromisedStatus' = "removed"
    BY <2>1 DEF PromisedStatus
  <2>3. Promise!Remove
    BY <1>p, <1>q, <1>t, <2>1, <2>2 DEF Promise!Remove, PromisedStarted, ThrownWorker
  <2>4. QED BY <2>3 DEF Promise!Next
<1>8. CASE CrashRestart
  <2>1. ~ThrownWorker' /\ cell' = cell /\ PromisedStarted' = PromisedStarted
    BY <1>8, <1>q, WorkerFacts DEF CrashRestart, ThrownWorker
  <2>2. CASE row' = row
    <3>1. PromisedStatus' = PromisedStatus
      BY <2>2 DEF PromisedStatus
    <3>2. Promise!Forget
      BY <1>p, <2>1, <2>2, <3>1 DEF Promise!Forget, PromisedStarted, ThrownWorker
    <3>3. QED BY <3>2 DEF Promise!Next
  <2>3. CASE row' # row
    <3>1. row.present /\ row' = reconcileOrphans(row)
      BY <1>8, <2>3 DEF CrashRestart, Written
    <3>2. CASE row.status = "running"
      <4>1. row'.status = "error" /\ row'.rating = "skipped" /\ row'.present
        <5>1. row' = [row EXCEPT !.status = "error", !.rating = "skipped"]
          BY <3>1, <3>2 DEF reconcileOrphans, Verdicts
        <5>2. QED BY <1>0, <3>1, <5>1 DEF Rows
      <4>2. PromisedStatus = "running" /\ PromisedStatus' = "error"
        BY <3>1, <3>2, <4>1 DEF PromisedStatus
      <4>3. Promise!Conclude
        BY <1>p, <2>1, <4>1, <4>2
        DEF Promise!Conclude, Promise!Verdicts, PromisedStarted, ThrownWorker
      <4>4. QED BY <4>3 DEF Promise!Next
    <3>3. CASE row.status # "running"
      <4>1. /\ row.status \in Verdicts /\ row.rating \notin Reviewed
            /\ row'.status = row.status /\ row'.rating = "skipped" /\ row'.present
        BY <1>0, <2>3, <3>1, <3>3 DEF reconcileOrphans, Rows
      <4>2. row.rating = "rating"
        BY <1>0, <4>1 DEF RowInv
      <4>3. PromisedStatus = row.status /\ PromisedStatus' = row.status
        BY <1>v, <3>1, <4>1 DEF PromisedStatus
      <4>4. Promise!Review
        BY <1>p, <2>1, <4>1, <4>2, <4>3
        DEF Promise!Review, Promise!Verdicts, Promise!Reviewed, Verdicts, PromisedStarted,
            ThrownWorker
      <4>5. QED BY <4>4 DEF Promise!Next
    <3>4. QED BY <3>2, <3>3
  <2>4. QED BY <2>2, <2>3
<1>9. CASE AnalysisBegins \/ AnalysisSettles
  <2>1. /\ row'.status = row.status /\ row'.rating = row.rating /\ row'.present = row.present
        /\ worker' = worker /\ cell' = cell
    BY <1>0, <1>9 DEF AnalysisBegins, AnalysisSettles, Written, Rows
  <2>2. QED BY <1>f, <2>1
<1>10. CASE \/ Stop \/ AnalysisFails \/ UNCHANGED vars
            \/ \E c \in Cells : ChildEnds(c) \/ ChildReviewed(c) \/ StopChild(c) \/ DeleteChild(c)
  <2>1. row' = row /\ worker' = worker /\ cell' = cell
    BY <1>10 DEF Stop, AnalysisFails, vars, ChildEnds, ChildReviewed, StopChild, DeleteChild
  <2>2. QED BY <1>f, <2>1
<1>11. QED
  BY <1>1, <1>2, <1>3, <1>4, <1>5, <1>6, <1>7, <1>8, <1>9, <1>10 DEF Next, Promise!Next

\* The suite run implements the promise: one verdict, never a second one, "completed"
\* only for the whole matrix, one review after the verdict.
THEOREM ImplementsPromise == Spec => KeepsPromise
<1>1. PoolInv /\ [Next]_vars => [Promise!Next]_(Promise!promise)
  BY PromiseStep
<1>2. QED BY <1>1, PromiseInit, PoolInvariant, PTL DEF Spec, KeepsPromise, Promise!Spec

-----------------------------------------------------------------------------
(* What the runs of a matrix cost together. *)

\* A set of naturals has a least element; what follows by induction cites it.
LEMMA LeastNat ==
  ASSUME NEW S \in SUBSET Nat, S # {}
  PROVE  \E n \in S : \A m \in S : n <= m
<1>1. \E R : /\ IsWellFoundedOn(R, Nat)
             /\ \A m, n \in Nat : <<m, n>> \in R <=> m < n
  <2> DEFINE R == OpToRel(<, Nat)
  <2>1. IsWellFoundedOn(R, Nat)
    BY NatLessThanWellFounded
  <2>2. \A m, n \in Nat : <<m, n>> \in R <=> m < n
    BY DEF OpToRel
  <2> HIDE DEF R
  <2>3. QED BY <2>1, <2>2
<1>2. PICK R : /\ IsWellFoundedOn(R, Nat)
               /\ \A m, n \in Nat : <<m, n>> \in R <=> m < n
  BY <1>1
<1>3. IsWellFoundedOn(R, Nat) /\ S \subseteq Nat
  BY <1>2
<1>4. PICK n \in S : \A m \in S : ~ (<<m, n>> \in R)
  BY <1>3, WFMin
<1>5. ASSUME NEW m \in S
      PROVE  n <= m
  <2>1. m \in Nat /\ n \in Nat /\ ~(m < n)
    BY <1>2, <1>4
  <2>2. QED BY <2>1
<1>6. QED BY <1>5

\* The function over sets of cells by which FoldLeft is defined.
Iter(f, runs, n) ==
  f = [T \in SUBSET (1..n) |->
         IF T = {} THEN 0 ELSE AddKept(f[T \ {Max(T)}], runs[Max(T)])]

\* Such a function exists for a matrix of any size, by the least one without.
LEMMA IterExists ==
  ASSUME NEW runs, NEW n \in Nat
  PROVE  \E f : Iter(f, runs, n)
<1> DEFINE Bad == {k \in Nat : ~\E f : Iter(f, runs, k)}
<1>1. SUFFICES ASSUME Bad # {} PROVE FALSE
  OBVIOUS
<1>2. PICK k \in Bad : \A j \in Bad : k <= j
  BY <1>1, LeastNat
<1>3. k # 0
  <2>1. Iter([T \in SUBSET (1..0) |-> 0], runs, 0)
    <3>1. 1..0 = {}
      OBVIOUS
    <3>2. QED BY <3>1 DEF Iter
  <2>2. QED BY <1>2, <2>1
<1>4. k - 1 \in Nat /\ k - 1 \notin Bad
  BY <1>2, <1>3
<1>5. PICK f : Iter(f, runs, k - 1)
  BY <1>4
<1> DEFINE g == [T \in SUBSET (1..k) |-> IF k \in T THEN AddKept(f[T \ {k}], runs[k]) ELSE f[T]]
<1>6. Iter(g, runs, k)
  <2>1. ASSUME NEW T \in SUBSET (1..k)
        PROVE  g[T] = IF T = {} THEN 0 ELSE AddKept(g[T \ {Max(T)}], runs[Max(T)])
    <3>1. CASE k \in T
      <4>1. Max(T) = k
        <5>1. \A y \in T : k >= y
          BY <1>2
        <5>2. \A x \in T : (\A y \in T : x >= y) => x = k
          BY <1>2, <3>1
        <5>3. QED BY <3>1, <5>1, <5>2 DEF Max
      <4>2. T \ {k} \in SUBSET (1..(k - 1)) /\ T \ {k} \in SUBSET (1..k) /\ k \notin T \ {k}
        BY <1>2
      <4>3. g[T \ {k}] = f[T \ {k}]
        BY <4>2
      <4>4. QED BY <3>1, <4>1, <4>3
    <3>2. CASE k \notin T
      <4>0. \A x : T \ {x} \in SUBSET (1..k) /\ k \notin T \ {x}
        BY <3>2
      <4>1. T \in SUBSET (1..(k - 1)) /\ T \ {Max(T)} \in SUBSET (1..k) /\ k \notin T \ {Max(T)}
        <5>1. T \in SUBSET (1..(k - 1))
          BY <1>2, <3>2
        <5>2. QED BY <4>0, <5>1
      <4>2. f[T] = IF T = {} THEN 0 ELSE AddKept(f[T \ {Max(T)}], runs[Max(T)])
        BY <1>5, <4>1, Zenon DEF Iter
      <4>3. g[T \ {Max(T)}] = f[T \ {Max(T)}] /\ g[T] = f[T]
        BY <3>2, <4>1
      <4>4. QED BY <4>2, <4>3
    <3>3. QED BY <3>1, <3>2
  <2>2. g = [T \in SUBSET (1..k) |-> g[T]]
    OBVIOUS
  <2> HIDE DEF g
  <2>3. QED BY <2>1, <2>2 DEF Iter
<1>7. QED BY <1>2, <1>6

\* What one run adds.
Part(run) == IF run.kept THEN run.cost ELSE 0

\* No child costs more than MaxCost.
LEMMA PartType ==
  ASSUME NEW run \in Children
  PROVE  Part(run) \in 0..MaxCost /\ Part(run) <= MaxCost
BY SizesAssumption DEF Part, Children

\* The runs are added up cell by cell.
LEMMA SpendSteps ==
  ASSUME NEW runs \in [Cells -> Children]
  PROVE  \E f \in [0..NumCells -> Nat] :
           /\ f[0] = 0
           /\ \A n \in Cells : f[n] = f[n - 1] + Part(runs[n])
           /\ Spend(runs) = f[NumCells]
<1>0. NumCells \in Nat /\ Cells = 1..NumCells /\ DOMAIN runs = 1..NumCells
  BY SizesAssumption DEF Cells
<1>1. Spend(runs) = (CHOOSE f : Iter(f, runs, NumCells))[1..NumCells]
  BY <1>0 DEF Spend, FoldLeft, MapThenFoldSet, Iter
<1>2. PICK f : Iter(f, runs, NumCells) /\ Spend(runs) = f[1..NumCells]
  BY <1>0, <1>1, IterExists
<1> DEFINE h == [n \in 0..NumCells |-> f[1..n]]
<1>3. h[0] = 0
  <2>1. 1..0 = {} /\ {} \in SUBSET (1..NumCells)
    OBVIOUS
  <2>2. f[{}] = 0
    BY <1>2, <2>1, Zenon DEF Iter
  <2>3. QED BY <1>0, <2>1, <2>2
<1>4. ASSUME NEW n \in 1..NumCells
      PROVE  h[n] = h[n - 1] + Part(runs[n])
  <2>1. 1..n \in SUBSET (1..NumCells) /\ 1..n # {} /\ (1..n) \ {n} = 1..(n - 1)
    <3>1. \A i : i \in (1..n) \ {n} <=> i \in 1..(n - 1)
      BY <1>0
    <3>2. n \in 1..n /\ \A i \in 1..n : i \in 1..NumCells
      BY <1>0
    <3>3. (1..n) \ {n} = 1..(n - 1)
      BY <3>1, Zenon
    <3>4. QED BY <3>2, <3>3
  <2>2. Max(1..n) = n
    <3>1. n \in 1..n /\ \A y \in 1..n : n >= y
      BY <1>0
    <3>2. \A x \in 1..n : (\A y \in 1..n : x >= y) => x = n
      BY <1>0
    <3>3. QED BY <3>1, <3>2 DEF Max
  <2>3. f[1..n] = AddKept(f[(1..n) \ {Max(1..n)}], runs[Max(1..n)])
    BY <1>2, <2>1, Zenon DEF Iter
  <2>4. h[n] = f[1..n] /\ h[n - 1] = f[1..(n - 1)]
    BY <1>0
  <2>5. h[n] = AddKept(h[n - 1], runs[n])
    BY <2>1, <2>2, <2>3, <2>4
  <2>6. QED BY <2>5 DEF AddKept, Part
<1>5. Spend(runs) = h[NumCells] /\ h = [n \in 0..NumCells |-> h[n]]
  BY <1>0, <1>2
<1> HIDE DEF h
<1>6. \A n \in 0..NumCells : h[n] \in Nat
  <2> DEFINE Bad == {n \in 0..NumCells : h[n] \notin Nat}
  <2>1. SUFFICES ASSUME Bad # {} PROVE FALSE
    OBVIOUS
  <2>2. PICK n \in Bad : \A m \in Bad : n <= m
    <3>1. Bad \in SUBSET Nat
      BY <1>0
    <3> HIDE DEF Bad
    <3>2. QED BY <2>1, <3>1, LeastNat
  <2>3. n \in 1..NumCells /\ n - 1 \in 0..NumCells /\ h[n - 1] \in Nat
    BY <1>0, <1>3, <2>2
  <2>4. Part(runs[n]) \in Nat
    BY <1>0, <2>3, SizesAssumption DEF Part, Children
  <2>5. QED BY <1>4, <2>2, <2>3, <2>4
<1>7. QED BY <1>0, <1>3, <1>4, <1>5, <1>6

\* Runs that cost more cell by cell, by no more than slack grows, cost no more than
\* slack more together.
LEMMA SpendSlack ==
  ASSUME NEW runs \in [Cells -> Children], NEW more \in [Cells -> Children],
         NEW slack \in [0..NumCells -> Nat],
         \A n \in Cells : Part(more[n]) + slack[n - 1] <= Part(runs[n]) + slack[n]
  PROVE  /\ Spend(runs) \in Nat /\ Spend(more) \in Nat
         /\ Spend(more) <= Spend(runs) + slack[NumCells]
<1>0. NumCells \in Nat /\ Cells = 1..NumCells
  BY SizesAssumption DEF Cells
<1>1. PICK f \in [0..NumCells -> Nat] :
        /\ f[0] = 0
        /\ \A n \in Cells : f[n] = f[n - 1] + Part(runs[n])
        /\ Spend(runs) = f[NumCells]
  BY SpendSteps
<1>2. PICK g \in [0..NumCells -> Nat] :
        /\ g[0] = 0
        /\ \A n \in Cells : g[n] = g[n - 1] + Part(more[n])
        /\ Spend(more) = g[NumCells]
  BY SpendSteps
<1>3. \A n \in 0..NumCells : g[n] <= f[n] + slack[n]
  <2> DEFINE Bad == {n \in 0..NumCells : ~(g[n] <= f[n] + slack[n])}
  <2>1. SUFFICES ASSUME Bad # {} PROVE FALSE
    OBVIOUS
  <2>2. PICK n \in Bad : \A m \in Bad : n <= m
    <3>1. Bad \in SUBSET Nat
      BY <1>0
    <3> HIDE DEF Bad
    <3>2. QED BY <2>1, <3>1, LeastNat
  <2>3. n \in Cells /\ n - 1 \in 0..NumCells /\ n - 1 \notin Bad
    BY <1>0, <1>1, <1>2, <2>2
  <2>4. /\ g[n - 1] <= f[n - 1] + slack[n - 1]
        /\ Part(more[n]) + slack[n - 1] <= Part(runs[n]) + slack[n]
        /\ f[n] = f[n - 1] + Part(runs[n]) /\ g[n] = g[n - 1] + Part(more[n])
    BY <1>1, <1>2, <2>3
  <2>5. Part(more[n]) \in Nat /\ Part(runs[n]) \in Nat
    <3>1. more[n] \in Children /\ runs[n] \in Children
      BY <2>3
    <3>2. QED BY <3>1, PartType
  <2>6. f[n - 1] \in Nat /\ g[n - 1] \in Nat /\ slack[n - 1] \in Nat /\ slack[n] \in Nat
    BY <2>2, <2>3
  <2>7. g[n] <= f[n] + slack[n]
    BY <2>4, <2>5, <2>6
  <2>8. QED BY <2>2, <2>7
<1>4. QED BY <1>0, <1>1, <1>2, <1>3

\* Raising what one cell costs raises the whole by no more.
LEMMA SpendOneMore ==
  ASSUME NEW runs \in [Cells -> Children], NEW more \in [Cells -> Children],
         NEW c \in Cells, NEW k \in Nat, Part(more[c]) <= Part(runs[c]) + k,
         \A d \in Cells : d # c => Part(more[d]) <= Part(runs[d])
  PROVE  Spend(more) \in Nat /\ Spend(runs) \in Nat /\ Spend(more) <= Spend(runs) + k
<1> DEFINE slack == [n \in 0..NumCells |-> IF c <= n THEN k ELSE 0]
<1>0. NumCells \in Nat /\ Cells = 1..NumCells
  BY SizesAssumption DEF Cells
<1>1. slack \in [0..NumCells -> Nat] /\ slack[NumCells] = k
  BY <1>0
<1>2. ASSUME NEW n \in Cells
      PROVE  Part(more[n]) + slack[n - 1] <= Part(runs[n]) + slack[n]
  <2>1. Part(more[n]) \in Nat /\ Part(runs[n]) \in Nat
    BY SizesAssumption DEF Part, Children
  <2>2. CASE n = c
    <3>1. slack[n - 1] = 0 /\ slack[n] = k
      BY <1>0, <2>2
    <3>2. QED BY <2>1, <2>2, <3>1
  <2>3. CASE n # c
    <3>1. slack[n - 1] = slack[n] /\ slack[n] \in Nat
      BY <1>0, <2>3
    <3>2. QED BY <2>1, <2>3, <3>1
  <2>4. QED BY <2>2, <2>3
<1> HIDE DEF slack
<1>3. QED BY <1>1, <1>2, SpendSlack

\* Runs that cost no more anywhere cost no more together.
LEMMA SpendMonotone ==
  ASSUME NEW runs \in [Cells -> Children], NEW more \in [Cells -> Children],
         \A c \in Cells : Part(more[c]) <= Part(runs[c])
  PROVE  Spend(more) \in Nat /\ Spend(runs) \in Nat /\ Spend(more) <= Spend(runs)
<1>1. 1 \in Cells
  BY SizesAssumption DEF Cells
<1>2. Part(more[1]) <= Part(runs[1]) + 0
  <2>1. Part(more[1]) \in Nat /\ Part(runs[1]) \in Nat
    BY <1>1, SizesAssumption DEF Part, Children
  <2>2. QED BY <1>1, <2>1
<1>3. Spend(more) \in Nat /\ Spend(runs) \in Nat /\ Spend(more) <= Spend(runs) + 0
  BY <1>1, <1>2, SpendOneMore
<1>4. QED BY <1>3

\* Runs that cost more in the cells of S only cost at most MaxCost more for each.
LEMMA SpendOfSome ==
  ASSUME NEW runs \in [Cells -> Children], NEW more \in [Cells -> Children],
         NEW S \in SUBSET Cells, \A c \in Cells \ S : Part(more[c]) <= Part(runs[c])
  PROVE  /\ Spend(more) \in Nat /\ Spend(runs) \in Nat
         /\ Spend(more) <= Spend(runs) + MaxCost * Cardinality(S)
<1> DEFINE Below(n) == {c \in S : c <= n}
           slack == [n \in 0..NumCells |-> MaxCost * Cardinality(Below(n))]
<1>0. NumCells \in Nat /\ Cells = 1..NumCells /\ MaxCost \in Nat
  BY SizesAssumption DEF Cells
<1>1. \A n \in 0..NumCells : Cardinality(Below(n)) \in Nat /\ IsFiniteSet(Below(n))
  <2>1. \A n \in 0..NumCells : Below(n) \in SUBSET Cells
    OBVIOUS
  <2>2. QED BY <1>0, <2>1, CellCount
<1>2. slack \in [0..NumCells -> Nat]
  BY <1>0, <1>1
<1>3. slack[NumCells] = MaxCost * Cardinality(S)
  <2>1. \A c \in S : c <= NumCells
    BY <1>0
  <2>2. Below(NumCells) = S
    BY <2>1
  <2>3. QED BY <1>0, <2>2
<1>4. ASSUME NEW n \in Cells
      PROVE  Part(more[n]) + slack[n - 1] <= Part(runs[n]) + slack[n]
  <2>1. /\ Part(more[n]) \in Nat /\ Part(runs[n]) \in Nat /\ Part(more[n]) <= MaxCost
        /\ n \in 0..NumCells /\ n - 1 \in 0..NumCells
    BY <1>0 DEF Part, Children
  <2>2. CASE n \notin S
    <3>1. Below(n) = Below(n - 1)
      <4>1. \A c \in S : c <= n <=> c <= n - 1
        BY <1>0, <2>2
      <4>2. QED BY <4>1
    <3>2. slack[n] = slack[n - 1] /\ slack[n] \in Nat
      BY <1>2, <2>1, <3>1
    <3>3. Part(more[n]) <= Part(runs[n])
      BY <2>2
    <3>4. QED BY <2>1, <3>2, <3>3
  <2>3. CASE n \in S
    <3>1. Below(n) = Below(n - 1) \cup {n} /\ n \notin Below(n - 1)
      <4>1. \A c \in S : c <= n <=> c <= n - 1 \/ c = n
        BY <1>0
      <4>2. ~(n <= n - 1)
        BY <1>0
      <4>3. QED BY <2>3, <4>1, <4>2
    <3>2. Cardinality(Below(n)) = Cardinality(Below(n - 1)) + 1
      BY <1>1, <2>1, <3>1, FS_AddElement
    <3>3. slack[n] = slack[n - 1] + MaxCost /\ slack[n - 1] \in Nat
      <4>1. /\ slack[n] = MaxCost * Cardinality(Below(n))
            /\ slack[n - 1] = MaxCost * Cardinality(Below(n - 1))
        BY <2>1
      <4>2. \A a, b \in Nat : a * (b + 1) = a * b + a
        OBVIOUS
      <4>3. QED BY <1>0, <1>1, <1>2, <2>1, <3>2, <4>1, <4>2
    <3>4. QED BY <1>0, <2>1, <3>3
  <2>4. QED BY <2>2, <2>3
<1> HIDE DEF slack
<1>5. QED BY <1>2, <1>3, <1>4, SpendSlack

-----------------------------------------------------------------------------
(* What the matrix may still cost. *)

\* The cells that can still cost something, and what the settled ones did.
Running == {c \in Cells : cell[c] = "running"}
SettledRuns == [c \in Cells |-> IF cell[c] = "settled" THEN child[c] ELSE NoChild]

\* A settled cell's child is done, one that never started has none.
MatrixInv ==
  \A c \in Cells : /\ cell[c] = "settled" => child[c].at = "done"
                   /\ cell[c] = "error" => child[c] = NoChild

\* Worker f[c] is taken up by the running cell c: it awaits it, was lost on it, or died
\* with the process.
Holds(f) ==
  /\ \A c, d \in Running : f[c] = f[d] => c = d
  /\ \A c \in Running : worker[f[c]] = Awaits(c) \/ worker[f[c]].at \in {"threw", "off"}
HeldInv == \E f \in [Running -> Workers] : Holds(f)

\* What the settled cells cost, were every running one to cost the most, is in bounds.
ChargeInv ==
  Spend(SettledRuns) + MaxCost * Cardinality(Running) < CostCap + MaxConcurrency * MaxCost

\* While a worker may go on, what the settled cells cost was accrued; scheduling goes on
\* only below the cap.
AccruedInv ==
  /\ BusyWorker \/ job = "none" => Spend(SettledRuns) <= ctl.spent
  /\ ~ctl.capped => ctl.spent < CostCap

SpendInv == MatrixInv /\ HeldInv /\ ChargeInv /\ AccruedInv

\* What is kept of the settled runs is a run in every cell.
LEMMA RunsType ==
  ASSUME NEW status, NEW runs \in [Cells -> Children]
  PROVE  /\ [c \in Cells |-> IF status[c] = "settled" THEN runs[c] ELSE NoChild]
              \in [Cells -> Children]
         /\ Part(NoChild) = 0
<1>1. NoChild \in Children
  BY SizesAssumption DEF NoChild, Children
<1>2. QED BY <1>1 DEF Part, NoChild

\* The settled runs are runs, before and after a step.
LEMMA SettledType ==
  /\ TypeOK => /\ SettledRuns \in [Cells -> Children] /\ Spend(SettledRuns) \in Nat
               /\ Part(NoChild) = 0
  /\ TypeOK' => SettledRuns' \in [Cells -> Children] /\ Spend(SettledRuns') \in Nat
  /\ Cardinality(Running) \in Nat /\ IsFiniteSet(Running)
  /\ Cardinality(Running') \in Nat /\ IsFiniteSet(Running')
<1>1. ASSUME NEW runs \in [Cells -> Children] PROVE Spend(runs) \in Nat
  <2>1. \A c \in Cells : Part(runs[c]) <= Part(runs[c])
    BY PartType, SizesAssumption
  <2>2. QED BY <2>1, SpendMonotone
<1>2. TypeOK => SettledRuns \in [Cells -> Children] /\ Part(NoChild) = 0
  BY RunsType DEF SettledRuns, TypeOK
<1>3. TypeOK' => SettledRuns' \in [Cells -> Children]
  BY RunsType DEF SettledRuns, TypeOK
<1>4. /\ Cardinality(Running) \in Nat /\ IsFiniteSet(Running)
      /\ Cardinality(Running') \in Nat /\ IsFiniteSet(Running')
  BY CellCount DEF Running
<1>5. QED BY <1>1, <1>2, <1>3, <1>4

\* A child that is done costs no more later, and one there is none of costs nothing.
LEMMA DoneStays ==
  ASSUME TypeOK, [Next]_vars, NEW c \in Cells, c < next
  PROVE  /\ child[c].at = "done" => child'[c].at = "done" /\ Part(child'[c]) <= Part(child[c])
         /\ child[c] = NoChild => child'[c] = NoChild
<1> DEFINE Calm == /\ child[c].at = "done" => /\ child'[c].at = "done"
                                              /\ child'[c].cost = child[c].cost
                                              /\ child'[c].kept => child[c].kept
                   /\ child[c] = NoChild => child'[c] = NoChild
<1>0. child \in [Cells -> Children] /\ child[c] \in Children
  BY DEF TypeOK
<1>1. ASSUME \E d \in Cells : ChildEnds(d) \/ ChildReviewed(d) \/ StopChild(d) \/ DeleteChild(d)
      PROVE  Calm
  <2>1. PICK d \in Cells : ChildEnds(d) \/ ChildReviewed(d) \/ StopChild(d) \/ DeleteChild(d)
    BY <1>1
  <2>2. CASE d # c
    BY <1>0, <2>1, <2>2 DEF ChildEnds, ChildReviewed, StopChild, DeleteChild
  <2>3. CASE d = c /\ ~DeleteChild(d)
    <3>1. child[c].at \notin {"done", "none"}
      BY <2>1, <2>3 DEF ChildEnds, ChildReviewed, StopChild
    <3>2. QED BY <3>1 DEF NoChild
  <2>4. CASE d = c /\ DeleteChild(d)
    <3>1. /\ child[c].kept
          /\ child'[c] = [child[c] EXCEPT !.kept = FALSE, !.linked = FALSE,
                                          !.at = IF @ = "live" THEN "stopping" ELSE @]
      BY <1>0, <2>4 DEF DeleteChild
    <3>2. child[c] # NoChild
      BY <3>1 DEF NoChild
    <3>3. QED BY <1>0, <3>1, <3>2 DEF Children
  <2>5. QED BY <2>2, <2>3, <2>4
<1>2. ASSUME Stop \/ Delete PROVE Calm
  <2>1. child'[c] = StopChildren(child)[c] \/ child'[c] = [child[c] EXCEPT !.linked = FALSE]
          \/ child'[c] = [StopChildren(child)[c] EXCEPT !.linked = FALSE]
    BY <1>2 DEF Stop, Delete
  <2>2. child[c].at # "live" => StopChildren(child)[c] = child[c]
    BY DEF StopChildren
  <2>3. child[c] = NoChild => child[c].at = "none" /\ child[c].linked = FALSE
    BY DEF NoChild
  <2>4. child[c].linked = FALSE => [child[c] EXCEPT !.linked = FALSE] = child[c]
    BY <1>0 DEF Children
  <2>5. /\ [child[c] EXCEPT !.linked = FALSE].at = child[c].at
        /\ [child[c] EXCEPT !.linked = FALSE].cost = child[c].cost
        /\ [child[c] EXCEPT !.linked = FALSE].kept = child[c].kept
    BY <1>0 DEF Children
  <2>6. child[c].at # "live" => \/ child'[c] = child[c]
                               \/ child'[c] = [child[c] EXCEPT !.linked = FALSE]
    BY <2>1, <2>2
  <2>7. QED BY <2>3, <2>4, <2>5, <2>6
<1>3. ASSUME CrashRestart PROVE Calm
  <2>1. child'[c] = Orphaned(child[c])
    BY <1>3 DEF CrashRestart
  <2>2. child[c] = NoChild => child[c].at = "none"
    BY DEF NoChild
  <2>3. QED BY <1>0, <2>1, <2>2 DEF Orphaned, Children
<1>4. ASSUME \E w \in Workers : CellStarts(w) PROVE Calm
  <2>1. next \in Cells /\ c # next
    BY <1>4, SizesAssumption DEF CellStarts, Cells, TypeOK
  <2>2. child'[c] = child[c]
    BY <1>0, <1>4, <2>1 DEF CellStarts
  <2>3. QED BY <2>2
<1>5. ASSUME child' = child PROVE Calm
  BY <1>5
<1>6. Calm
  BY <1>1, <1>2, <1>3, <1>4, <1>5
     DEF Next, vars, Start, Return, CellFailsToStart, CellSettles, Finish, ReportSettles,
         AnalysisBegins, AnalysisSettles, AnalysisFails
<1>7. child[c].at = "done" => Part(child'[c]) <= Part(child[c])
  BY <1>0, <1>6, SizesAssumption DEF Part, Children
<1>8. QED BY <1>6, <1>7

\* What a step does to the matrix: a worker takes the next cell, settles one, or neither.
LEMMA CellSteps ==
  ASSUME TypeOK, QueueInv, [Next]_vars
  PROVE  \/ \E w \in Workers :
              /\ CellFailsToStart(w) \/ CellStarts(w)
              /\ next \in Cells /\ cell[next] = "pending" /\ child[next] = NoChild
              /\ \A c \in Cells : c # next => cell'[c] = cell[c] /\ child'[c] = child[c]
         \/ \E w \in Workers, c \in Cells :
              /\ CellSettles(w) /\ worker[w] = Awaits(c) /\ cell[c] = "running"
              /\ child[c].at = "done" /\ child' = child
              /\ cell' = [cell EXCEPT ![c] = "settled"]
              /\ ctl' = [ctl EXCEPT !.spent = Accrued(c), !.capped = @ \/ Accrued(c) >= CostCap]
              /\ \A v \in Workers : v # w => worker'[v] = worker[v]
         \/ /\ cell' = cell
            /\ \A w \in Workers : ~CellFailsToStart(w) /\ ~CellStarts(w) /\ ~CellSettles(w)
<1>0. /\ child \in [Cells -> Children] /\ worker \in [Workers -> WorkerStates]
      /\ cell \in [Cells -> {"pending", "running", "settled", "error"}]
  BY DEF TypeOK
<1>1. ASSUME NEW w \in Workers, CellFailsToStart(w) \/ CellStarts(w)
      PROVE  /\ next \in Cells /\ cell[next] = "pending" /\ child[next] = NoChild
             /\ \A c \in Cells : c # next => cell'[c] = cell[c] /\ child'[c] = child[c]
  <2>1. next \in Cells
    BY <1>1, SizesAssumption DEF CellFailsToStart, CellStarts, Cells, TypeOK
  <2>2. cell[next] = "pending" /\ child[next] = NoChild
    BY <2>1 DEF QueueInv, Cells
  <2>3. QED BY <1>0, <1>1, <2>1, <2>2 DEF CellFailsToStart, CellStarts
<1>2. ASSUME NEW w \in Workers, CellSettles(w)
      PROVE  \E c \in Cells :
              /\ CellSettles(w) /\ worker[w] = Awaits(c) /\ cell[c] = "running"
              /\ child[c].at = "done" /\ child' = child
              /\ cell' = [cell EXCEPT ![c] = "settled"]
              /\ ctl' = [ctl EXCEPT !.spent = Accrued(c), !.capped = @ \/ Accrued(c) >= CostCap]
              /\ \A v \in Workers : v # w => worker'[v] = worker[v]
  <2>1. PICK c \in Cells :
          /\ worker[w] = Awaits(c) /\ child[c].at = "done"
          /\ cell' = [cell EXCEPT ![c] = "settled"]
          /\ ctl' = [ctl EXCEPT !.spent = Accrued(c), !.capped = @ \/ Accrued(c) >= CostCap]
          /\ \E at \in {"free", "threw"} : worker' = [worker EXCEPT ![w] = Idle(at)]
    BY <1>2 DEF CellSettles
  <2>2. cell[c] = "running"
    BY <2>1, WorkerFacts DEF QueueInv
  <2>3. child' = child
    BY <1>2 DEF CellSettles
  <2>4. \A v \in Workers : v # w => worker'[v] = worker[v]
    BY <1>0, <2>1
  <2>5. QED BY <1>2, <2>1, <2>2, <2>3, <2>4
<1>3. CASE \A w \in Workers : ~CellFailsToStart(w) /\ ~CellStarts(w) /\ ~CellSettles(w)
  <2>1. cell' = cell
    BY <1>3
       DEF Next, vars, Start, Return, Finish, ReportSettles, ChildEnds, ChildReviewed, StopChild,
           DeleteChild, Stop, Delete, AnalysisBegins, AnalysisSettles, AnalysisFails, CrashRestart
  <2>2. QED BY <1>3, <2>1
<1>4. QED BY <1>1, <1>2, <1>3

\* A settled cell stays settled, its child done.
LEMMA MatrixStep ==
  ASSUME TypeOK, QueueInv, MatrixInv, [Next]_vars
  PROVE  MatrixInv'
<1>1. ASSUME NEW c \in Cells, cell'[c] = cell[c]
      PROVE  /\ cell'[c] = "settled" => child'[c].at = "done"
             /\ cell'[c] = "error" => child'[c] = NoChild
  <2>1. cell[c] \in {"settled", "error"} => c < next
    BY DEF QueueInv
  <2>2. QED BY <1>1, <2>1, DoneStays DEF MatrixInv
<1>2. ASSUME NEW w \in Workers, CellFailsToStart(w) \/ CellStarts(w), child[next] = NoChild,
             \A c \in Cells : c # next => cell'[c] = cell[c]
      PROVE  MatrixInv'
  <2>1. \/ cell' = [cell EXCEPT ![next] = "running"]
        \/ cell' = [cell EXCEPT ![next] = "error"] /\ child' = child
    <3>1. CASE CellFailsToStart(w)
      BY <3>1 DEF CellFailsToStart
    <3>2. CASE CellStarts(w)
      BY <3>2 DEF CellStarts
    <3>3. QED BY <1>2, <3>1, <3>2
  <2>2. next \in Cells => /\ cell'[next] \in {"running", "error"}
                          /\ cell'[next] = "error" => child'[next] = NoChild
    BY <1>2, <2>1 DEF TypeOK
  <2>3. QED BY <1>1, <1>2, <2>2 DEF MatrixInv
<1>3. ASSUME NEW c \in Cells, child' = child, cell' = [cell EXCEPT ![c] = "settled"],
             child[c].at = "done"
      PROVE  MatrixInv'
  BY <1>3 DEF MatrixInv, TypeOK
<1>4. CASE cell' = cell
  BY <1>1, <1>4 DEF MatrixInv
<1>5. QED BY <1>2, <1>3, <1>4, CellSteps

\* A cell that stops running frees its worker; the others keep theirs.
LEMMA HeldShrinks ==
  ASSUME HeldInv, Running' \in SUBSET Running,
         \A c \in Running' : \A w \in Workers :
           worker[w] = Awaits(c) \/ worker[w].at \in {"threw", "off"} =>
             worker'[w] = Awaits(c) \/ worker'[w].at \in {"threw", "off"}
  PROVE  HeldInv'
<1>1. PICK f \in [Running -> Workers] : Holds(f)
  BY DEF HeldInv
<1> DEFINE g == [c \in Running' |-> f[c]]
<1>2. g \in [Running' -> Workers]
  BY <1>1
<1>3. \A c, d \in Running' : g[c] = g[d] => c = d
  BY <1>1 DEF Holds
<1>4. \A c \in Running' : worker'[g[c]] = Awaits(c) \/ worker'[g[c]].at \in {"threw", "off"}
  BY <1>1 DEF Holds
<1>5. QED BY <1>2, <1>3, <1>4 DEF HeldInv, Holds

\* A cell that starts takes up the free worker that started it.
LEMMA HeldGrows ==
  ASSUME HeldInv, NEW w \in Workers, NEW n \in Cells,
         Running' = Running \cup {n}, n \notin Running,
         worker[w].at = "free",
         worker'[w] = Awaits(n) \/ worker'[w].at = "threw",
         \A v \in Workers : v # w => worker'[v] = worker[v]
  PROVE  HeldInv'
<1>1. PICK f \in [Running -> Workers] : Holds(f)
  BY DEF HeldInv
<1> DEFINE g == [c \in Running' |-> IF c = n THEN w ELSE f[c]]
<1>2. \A c \in Running : c \in Cells /\ f[c] \in Workers /\ f[c] # w
  BY <1>1, WorkerFacts DEF Holds, Running
<1>3. g \in [Running' -> Workers]
  BY <1>1
<1>4. \A c, d \in Running' : g[c] = g[d] => c = d
  BY <1>1, <1>2 DEF Holds
<1>5. \A c \in Running' : worker'[g[c]] = Awaits(c) \/ worker'[g[c]].at \in {"threw", "off"}
  BY <1>1, <1>2 DEF Holds
<1>6. QED BY <1>3, <1>4, <1>5 DEF HeldInv, Holds

\* Every running cell takes up a worker of its own, whatever the step.
LEMMA HeldStep ==
  ASSUME TypeOK, RowInv, QueueInv, HeldInv, [Next]_vars
  PROVE  HeldInv'
<1>0. /\ worker \in [Workers -> WorkerStates]
      /\ cell \in [Cells -> {"pending", "running", "settled", "error"}]
      /\ \A c \in Running : c \in Cells
  BY DEF TypeOK, Running
<1>1. ASSUME NEW w \in Workers, CellStarts(w), next \in Cells, cell[next] = "pending"
      PROVE  HeldInv'
  <2>1. /\ worker[w].at = "free"
        /\ \A v \in Workers : v # w => worker'[v] = worker[v]
        /\ worker'[w] = Awaits(next) \/ worker'[w] = Idle("threw")
        /\ cell' = [cell EXCEPT ![next] = "running"]
    BY <1>0, <1>1 DEF CellStarts
  <2>2. Running' = Running \cup {next} /\ next \notin Running
    BY <1>0, <1>1, <2>1 DEF Running
  <2>3. QED BY <1>1, <2>1, <2>2, HeldGrows, WorkerFacts
<1>2. ASSUME NEW w \in Workers, CellFailsToStart(w), next \in Cells, cell[next] = "pending"
      PROVE  HeldInv'
  <2>1. worker' = worker /\ cell' = [cell EXCEPT ![next] = "error"]
    BY <1>2 DEF CellFailsToStart
  <2>2. Running' \in SUBSET Running
    BY <1>0, <2>1 DEF Running
  <2>3. QED BY <2>1, <2>2, HeldShrinks
<1>3. ASSUME NEW w \in Workers, NEW c \in Cells, worker[w] = Awaits(c),
             cell' = [cell EXCEPT ![c] = "settled"],
             \A v \in Workers : v # w => worker'[v] = worker[v]
      PROVE  HeldInv'
  <2>1. Running' \in SUBSET Running /\ c \notin Running'
    BY <1>0, <1>3 DEF Running
  <2>2. QED BY <1>0, <1>3, <2>1, HeldShrinks, WorkerFacts
<1>4. CASE /\ cell' = cell
           /\ \A w \in Workers : ~CellFailsToStart(w) /\ ~CellStarts(w) /\ ~CellSettles(w)
  <2>0. Running' = Running
    BY <1>4 DEF Running
  <2>1. CASE Start
    <3>1. next = 1
      BY <2>1 DEF Start, RowInv
    <3>2. Running' = {}
      BY <2>0, <3>1 DEF QueueInv, Running, Cells
    <3>3. QED BY <2>0, <3>2, HeldShrinks
  <2>2. ASSUME NEW w \in Workers, Return(w) PROVE HeldInv'
    <3>1. worker[w].at = "free" /\ \A v \in Workers : v # w => worker'[v] = worker[v]
      BY <1>0, <2>2 DEF Return
    <3>2. QED BY <1>0, <2>0, <3>1, HeldShrinks, WorkerFacts
  <2>3. CASE CrashRestart
    <3>1. \A w \in Workers : worker'[w].at = "off"
      BY <2>3, WorkerFacts DEF CrashRestart
    <3>2. QED BY <2>0, <3>1, HeldShrinks
  <2>4. ASSUME worker' = worker PROVE HeldInv'
    BY <2>0, <2>4, HeldShrinks
  <2>5. QED
    BY <1>4, <2>1, <2>2, <2>3, <2>4
       DEF Next, vars, Finish, ReportSettles, ChildEnds, ChildReviewed, StopChild, DeleteChild,
           Stop, Delete, AnalysisBegins, AnalysisSettles, AnalysisFails
<1>5. QED BY <1>1, <1>2, <1>3, <1>4, CellSteps

\* Never more cells running than workers.
LEMMA HeldCount ==
  ASSUME NEW S \in SUBSET Cells, NEW f \in [S -> Workers], \A c, d \in S : f[c] = f[d] => c = d
  PROVE  Cardinality(S) \in 0..MaxConcurrency
<1>1. f \in Injection(S, Workers)
  BY DEF Injection, IsInjective
<1>2. Cardinality(S) <= Cardinality(Workers)
  BY <1>1, Sizes, FS_Injection
<1>3. Cardinality(S) \in Nat /\ Cardinality(Workers) \in Nat
  BY CellCount, Sizes, FS_CardinalityType
<1>4. QED BY <1>2, <1>3, Sizes, SizesAssumption

\* More cells running, a larger charge.
LEMMA ChargeMonotone ==
  ASSUME NEW a \in Nat, NEW b \in 0..a
  PROVE  MaxCost * b \in Nat /\ MaxCost * a \in Nat /\ MaxCost * b <= MaxCost * a
<1>1. MaxCost \in Nat
  BY SizesAssumption
<1>2. MaxCost * b <= a * MaxCost
  BY <1>1, SmallerShare
<1>3. QED BY <1>1, <1>2

\* A step that settles no cell raises what the settled ones cost by nothing.
LEMMA NothingSettles ==
  ASSUME TypeOK, TypeOK', QueueInv, MatrixInv, [Next]_vars,
         \A c \in Cells : cell'[c] = "settled" => cell[c] = "settled"
  PROVE  Spend(SettledRuns') <= Spend(SettledRuns)
<1>1. SettledRuns \in [Cells -> Children] /\ SettledRuns' \in [Cells -> Children]
      /\ Part(NoChild) = 0
  BY SettledType
<1>2. ASSUME NEW c \in Cells
      PROVE  Part(SettledRuns'[c]) <= Part(SettledRuns[c])
  <2>1. CASE cell'[c] = "settled"
    <3>1. c < next /\ cell[c] = "settled"
      BY <2>1 DEF QueueInv
    <3>2. Part(child'[c]) <= Part(child[c])
      BY <3>1, DoneStays DEF MatrixInv
    <3>3. QED BY <2>1, <3>1, <3>2 DEF SettledRuns
  <2>2. CASE cell'[c] # "settled"
    <3>1. SettledRuns'[c] = NoChild
      BY <2>2 DEF SettledRuns
    <3>2. SettledRuns[c] \in Children
      BY <1>1
    <3>3. Part(SettledRuns[c]) \in 0..MaxCost
      BY <3>2, PartType
    <3>4. QED BY <1>1, <3>1, <3>3, SizesAssumption
  <2>3. QED BY <2>1, <2>2
<1>3. QED BY <1>1, <1>2, SpendMonotone

\* A cell that settles raises it by what its child cost, which is what is accrued.
LEMMA OneSettles ==
  ASSUME TypeOK, TypeOK', NEW c \in Cells, cell[c] = "running", child' = child,
         cell' = [cell EXCEPT ![c] = "settled"]
  PROVE  /\ Spend(SettledRuns') <= Spend(SettledRuns) + Part(child[c])
         /\ Part(child[c]) \in 0..MaxCost
         /\ Accrued(c) = ctl.spent + Part(child[c])
         /\ Cardinality(Running) = Cardinality(Running') + 1
<1>1. SettledRuns \in [Cells -> Children] /\ SettledRuns' \in [Cells -> Children]
      /\ Part(NoChild) = 0 /\ IsFiniteSet(Running')
  BY SettledType
<1>2. Part(child[c]) \in 0..MaxCost
  BY PartType DEF TypeOK
<1>3. SettledRuns'[c] = child[c] /\ SettledRuns[c] = NoChild
  BY DEF SettledRuns, TypeOK
<1>4. \A d \in Cells : d # c => SettledRuns'[d] = SettledRuns[d]
  BY DEF SettledRuns, TypeOK
<1>5. \A d \in Cells : Part(SettledRuns[d]) \in Nat
  <2>1. \A d \in Cells : SettledRuns[d] \in Children
    BY <1>1
  <2>2. QED BY <2>1, PartType
<1>6. Spend(SettledRuns') <= Spend(SettledRuns) + Part(child[c])
  <2>1. Part(SettledRuns'[c]) <= Part(SettledRuns[c]) + Part(child[c])
    BY <1>1, <1>2, <1>3
  <2>2. \A d \in Cells : d # c => Part(SettledRuns'[d]) <= Part(SettledRuns[d])
    BY <1>4, <1>5
  <2>3. Part(child[c]) \in Nat
    BY <1>2, SizesAssumption
  <2>4. QED BY <1>1, <2>1, <2>2, <2>3, SpendOneMore
<1>7. Cardinality(Running) = Cardinality(Running') + 1
  <2>1. Running = Running' \cup {c} /\ c \notin Running'
    BY DEF Running, TypeOK
  <2>2. QED BY <1>1, <2>1, FS_AddElement
<1>8. Accrued(c) = ctl.spent + Part(child[c])
  BY DEF Accrued, Part
<1>9. QED BY <1>2, <1>6, <1>7, <1>8

\* A cell is started only below the cap, and then at most maxConcurrency run.
LEMMA ChargeStep ==
  ASSUME TypeOK, TypeOK', QueueInv, MatrixInv, HeldInv', ChargeInv, AccruedInv, [Next]_vars
  PROVE  ChargeInv'
<1>0. /\ Spend(SettledRuns) \in Nat /\ Spend(SettledRuns') \in Nat
      /\ Cardinality(Running) \in Nat /\ Cardinality(Running') \in Nat
      /\ MaxCost \in Nat /\ MaxConcurrency \in Nat /\ CostCap \in Nat /\ ctl.spent \in Nat
      /\ cell \in [Cells -> {"pending", "running", "settled", "error"}]
  BY SettledType, SizesAssumption DEF TypeOK, Controls
<1>h. Cardinality(Running') \in 0..MaxConcurrency
  <2>1. PICK f \in [Running' -> Workers] : \A c, d \in Running' : f[c] = f[d] => c = d
    BY DEF HeldInv, Holds
  <2>2. Running' \in SUBSET Cells
    BY DEF Running
  <2>3. QED BY <2>1, <2>2, HeldCount
<1>p. /\ MaxCost * Cardinality(Running) \in Nat /\ MaxCost * Cardinality(Running') \in Nat
      /\ MaxConcurrency * MaxCost \in Nat /\ MaxConcurrency * MaxCost = MaxCost * MaxConcurrency
      /\ MaxCost * Cardinality(Running') <= MaxCost * MaxConcurrency
  BY <1>0, <1>h, ChargeMonotone
<1>1. ASSUME NEW w \in Workers, CellStarts(w), next \in Cells, cell[next] = "pending"
      PROVE  ChargeInv'
  <2>1. /\ worker[w].at = "free" /\ ~ctl.capped
        /\ cell' = [cell EXCEPT ![next] = "running"]
    BY <1>1 DEF CellStarts, Halted
  <2>2. Spend(SettledRuns) < CostCap
    BY <1>0, <2>1 DEF AccruedInv, BusyWorker
  <2>3. Spend(SettledRuns') <= Spend(SettledRuns)
    BY <1>0, <1>1, <2>1, NothingSettles
  <2>4. QED BY <1>0, <1>p, <2>2, <2>3 DEF ChargeInv
<1>2. ASSUME NEW c \in Cells, cell[c] = "running", child' = child,
             cell' = [cell EXCEPT ![c] = "settled"]
      PROVE  ChargeInv'
  <2>1. /\ Spend(SettledRuns') <= Spend(SettledRuns) + MaxCost
        /\ Cardinality(Running) = Cardinality(Running') + 1
    <3>1. /\ Spend(SettledRuns') <= Spend(SettledRuns) + Part(child[c])
          /\ Part(child[c]) \in 0..MaxCost
          /\ Cardinality(Running) = Cardinality(Running') + 1
      BY <1>2, OneSettles
    <3>2. QED BY <1>0, <3>1
  <2>2. MaxCost * Cardinality(Running) = MaxCost * Cardinality(Running') + MaxCost
    BY <1>0, <2>1
  <2>3. QED BY <1>0, <1>p, <2>1, <2>2 DEF ChargeInv
<1>3. ASSUME Running' = Running, \A c \in Cells : cell'[c] = "settled" => cell[c] = "settled"
      PROVE  ChargeInv'
  <2>1. Spend(SettledRuns') <= Spend(SettledRuns)
    BY <1>3, NothingSettles
  <2>2. QED BY <1>0, <1>3, <1>p, <2>1 DEF ChargeInv
<1>4. ASSUME NEW w \in Workers, CellFailsToStart(w), next \in Cells, cell[next] = "pending"
      PROVE  ChargeInv'
  <2>1. cell' = [cell EXCEPT ![next] = "error"]
    BY <1>4 DEF CellFailsToStart
  <2>2. Running' = Running /\ \A c \in Cells : cell'[c] = "settled" => cell[c] = "settled"
    BY <1>0, <1>4, <2>1 DEF Running
  <2>3. QED BY <1>3, <2>2
<1>5. CASE cell' = cell
  BY <1>3, <1>5 DEF Running
<1>6. QED BY <1>1, <1>2, <1>4, <1>5, CellSteps

\* While workers go on, what the settled cells cost was accrued, and the cap judged on it.
LEMMA AccruedStep ==
  ASSUME TypeOK, TypeOK', RowInv, QueueInv, MatrixInv, AccruedInv, [Next]_vars
  PROVE  AccruedInv'
<1>0. /\ Spend(SettledRuns) \in Nat /\ Spend(SettledRuns') \in Nat
      /\ CostCap \in Nat \ {0} /\ ctl.spent \in Nat /\ ctl \in Controls
      /\ cell \in [Cells -> {"pending", "running", "settled", "error"}]
      /\ worker \in [Workers -> WorkerStates]
  BY SettledType, SizesAssumption DEF TypeOK, Controls
<1>1. ASSUME NEW w \in Workers, NEW c \in Cells, CellSettles(w), worker[w] = Awaits(c),
             cell[c] = "running", child' = child, cell' = [cell EXCEPT ![c] = "settled"],
             ctl' = [ctl EXCEPT !.spent = Accrued(c), !.capped = @ \/ Accrued(c) >= CostCap]
      PROVE  AccruedInv'
  <2>1. /\ Spend(SettledRuns') <= Spend(SettledRuns) + Part(child[c])
        /\ Part(child[c]) \in 0..MaxCost /\ Accrued(c) = ctl.spent + Part(child[c])
    BY <1>1, OneSettles
  <2>2. ctl'.spent = Accrued(c) /\ (~ctl'.capped => ~(Accrued(c) >= CostCap))
    BY <1>0, <1>1 DEF Controls
  <2>3. Spend(SettledRuns) <= ctl.spent
    <3>1. worker[w].at = "awaits"
      BY <1>1, WorkerFacts
    <3>2. QED BY <3>1 DEF AccruedInv, BusyWorker
  <2>4. Spend(SettledRuns') <= ctl'.spent
    BY <1>0, <2>1, <2>2, <2>3, SizesAssumption
  <2>5. ~ctl'.capped => ctl'.spent < CostCap
    BY <1>0, <2>1, <2>2, SizesAssumption
  <2>6. QED BY <2>4, <2>5 DEF AccruedInv
<1>2. ASSUME BusyWorker' \/ job' = "none" => BusyWorker \/ job = "none",
             ctl'.spent = ctl.spent, ctl'.capped = ctl.capped,
             \A c \in Cells : cell'[c] = "settled" => cell[c] = "settled"
      PROVE  AccruedInv'
  <2>1. Spend(SettledRuns') <= Spend(SettledRuns)
    BY <1>2, NothingSettles
  <2>2. QED BY <1>0, <1>2, <2>1 DEF AccruedInv
<1>3. ASSUME NEW w \in Workers, CellFailsToStart(w) \/ CellStarts(w), next \in Cells,
             cell[next] = "pending", \A c \in Cells : c # next => cell'[c] = cell[c]
      PROVE  AccruedInv'
  <2>1. ctl' = ctl /\ job' = job /\ worker[w].at = "free"
    BY <1>3 DEF CellFailsToStart, CellStarts
  <2>2. cell' = [cell EXCEPT ![next] = "running"] \/ cell' = [cell EXCEPT ![next] = "error"]
    BY <1>3 DEF CellFailsToStart, CellStarts
  <2>3. \A c \in Cells : cell'[c] = "settled" => cell[c] = "settled"
    BY <1>0, <2>2
  <2>4. BusyWorker
    BY <2>1 DEF BusyWorker
  <2>5. QED BY <1>2, <2>1, <2>3, <2>4
<1>4. CASE /\ cell' = cell
           /\ \A w \in Workers : ~CellFailsToStart(w) /\ ~CellStarts(w) /\ ~CellSettles(w)
  <2>1. CASE Start
    <3>1. /\ job = "none" /\ ctl'.spent = 0 /\ ctl.spent = 0
          /\ ctl'.capped = FALSE /\ ctl.capped = FALSE
      BY <2>1 DEF Start, RowInv, NoControl
    <3>2. QED BY <1>2, <1>4, <3>1
  <2>2. ASSUME NEW w \in Workers, Return(w) PROVE AccruedInv'
    <3>1. worker' = [worker EXCEPT ![w] = Idle("returned")] /\ worker[w].at = "free"
          /\ ctl' = ctl /\ job' = job
      BY <2>2 DEF Return
    <3>2. BusyWorker' => BusyWorker
      BY <3>1, WorkerFacts, WorkerMoves
    <3>3. QED BY <1>2, <1>4, <3>1, <3>2
  <2>3. CASE CrashRestart
    <3>1. ctl'.spent = 0 /\ job' = "over" /\ \A w \in Workers : worker'[w].at = "off"
      BY <2>3, WorkerFacts DEF CrashRestart, NoControl
    <3>2. ~BusyWorker'
      BY <3>1 DEF BusyWorker
    <3>3. QED BY <1>0, <3>1, <3>2 DEF AccruedInv
  <2>4. CASE Finish \/ Stop \/ Delete
    <3>1. /\ ctl'.spent = ctl.spent /\ ctl'.capped = ctl.capped /\ worker' = worker
          /\ job' = "none" => job = "none"
      BY <1>0, <2>4 DEF Finish, Stop, Delete, Controls
    <3>2. QED BY <1>2, <1>4, <3>1 DEF BusyWorker
  <2>5. ASSUME worker' = worker, ctl' = ctl, job' = "none" => job = "none" PROVE AccruedInv'
    BY <1>2, <1>4, <2>5 DEF BusyWorker
  <2>6. QED
    BY <1>4, <2>1, <2>2, <2>3, <2>4, <2>5
       DEF Next, vars, ReportSettles, ChildEnds, ChildReviewed, StopChild, DeleteChild,
           AnalysisBegins, AnalysisSettles, AnalysisFails
<1>5. QED BY <1>1, <1>3, <1>4, CellSteps

\* Nothing is spent yet.
LEMMA SpendInit == Init => SpendInv
<1> SUFFICES ASSUME Init PROVE SpendInv
  OBVIOUS
<1>0. TypeOK /\ Spend(SettledRuns) \in Nat
  BY TypeInit, SettledType
<1>1. MatrixInv
  BY DEF Init, MatrixInv
<1>2. Running = {}
  BY DEF Init, Running
<1>3. HeldInv
  <2> DEFINE f == [c \in Running |-> 1]
  <2>1. f \in [Running -> Workers] /\ Holds(f)
    BY <1>2 DEF Holds
  <2>2. QED BY <2>1 DEF HeldInv
<1>4. Spend(SettledRuns) = 0
  <2>1. /\ SettledRuns \in [Cells -> Children] /\ Part(NoChild) = 0
        /\ \A c \in Cells : SettledRuns[c] = NoChild
    BY <1>0, SettledType DEF Init, SettledRuns
  <2>2. PICK f \in [0..NumCells -> Nat] :
          /\ f[0] = 0
          /\ \A n \in Cells : f[n] = f[n - 1] + Part(SettledRuns[n])
          /\ Spend(SettledRuns) = f[NumCells]
    BY <2>1, SpendSteps
  <2>3. NumCells \in Nat /\ Cells = 1..NumCells
    BY SizesAssumption DEF Cells
  <2> DEFINE Bad == {n \in 0..NumCells : f[n] # 0}
  <2>4. SUFFICES ASSUME Bad # {} PROVE FALSE
    BY <2>2, <2>3
  <2>5. PICK n \in Bad : \A m \in Bad : n <= m
    <3>1. Bad \in SUBSET Nat
      BY <2>3
    <3> HIDE DEF Bad
    <3>2. QED BY <2>4, <3>1, LeastNat
  <2>6. n \in Cells /\ n - 1 \in 0..NumCells /\ n - 1 \notin Bad
    BY <2>2, <2>3, <2>5
  <2>7. f[n] = 0 + 0
    BY <2>1, <2>2, <2>6
  <2>8. QED BY <2>5, <2>7
<1>5. ChargeInv
  <2>1. Cardinality(Running) = 0
    BY <1>2, FS_EmptySet
  <2>2. MaxConcurrency * MaxCost \in Nat /\ MaxCost * 0 = 0
    BY SizesAssumption
  <2>3. QED BY <1>4, <2>1, <2>2, SizesAssumption DEF ChargeInv
<1>6. AccruedInv
  BY <1>4, SizesAssumption DEF Init, AccruedInv, NoControl
<1>7. QED BY <1>1, <1>3, <1>5, <1>6 DEF SpendInv

\* The soft cost cap (aggregateCostCapUsd, judged after every settled cell): what the
\* runs of a matrix that still exist cost together stays below the cap and one run more
\* for each worker, for every matrix, pool, cap and bound on a run's cost.
THEOREM SpendStaysBounded == Spec => []SpendBounded
<1>1. PoolInv /\ PoolInv' /\ SpendInv /\ [Next]_vars => SpendInv'
  BY MatrixStep, HeldStep, ChargeStep, AccruedStep DEF PoolInv, SpendInv
<1>2. ASSUME PoolInv, SpendInv PROVE SpendBounded
  <2>0. TypeOK /\ child \in [Cells -> Children]
    BY <1>2 DEF PoolInv, TypeOK
  <2>1. /\ SettledRuns \in [Cells -> Children] /\ Running \in SUBSET Cells
        /\ Cardinality(Running) \in Nat
    BY <2>0, SettledType DEF Running
  <2>2. ASSUME NEW c \in Cells \ Running
        PROVE  Part(child[c]) <= Part(SettledRuns[c])
    <3>1. cell[c] \in {"pending", "error"} => child[c] = NoChild
      BY <1>2 DEF PoolInv, QueueInv, SpendInv, MatrixInv
    <3>2. SettledRuns[c] = child[c]
      BY <2>0, <3>1 DEF SettledRuns, Running, TypeOK
    <3>3. Part(child[c]) \in Nat
      BY <2>0, PartType
    <3>4. QED BY <3>2, <3>3
  <2>3. /\ Spend(child) \in Nat /\ Spend(SettledRuns) \in Nat
        /\ Spend(child) <= Spend(SettledRuns) + MaxCost * Cardinality(Running)
    BY <2>0, <2>1, <2>2, SpendOfSome
  <2>4. MaxCost * Cardinality(Running) \in Nat /\ MaxConcurrency * MaxCost \in Nat
    BY <2>1, SizesAssumption
  <2>5. QED BY <1>2, <2>3, <2>4, SizesAssumption DEF SpendInv, ChargeInv, SpendBounded
<1>3. QED BY <1>1, <1>2, SpendInit, PoolInvariant, PTL DEF Spec

=============================================================================
