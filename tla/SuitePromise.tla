---------------------------- MODULE SuitePromise ----------------------------
(***************************************************************************)
(* What a suite run promises its operator, with no worker pool, no         *)
(* children and no process in sight: cells start while it runs, it reaches *)
(* one verdict, the verdict is reviewed once, and it can be removed at any *)
(* moment.  SuiteRun implements this.                                      *)
(***************************************************************************)
EXTENDS Naturals

CONSTANTS Cells

VARIABLES status,    \* "none" -> "running" -> a verdict; "removed" at any moment
          rating,    \* the review axis
          started,   \* the cells whose run was started
          failed     \* the scheduling loop itself failed: stragglers are possible

promise == <<status, rating, started, failed>>

Verdicts == {"completed", "capped", "stopped", "error"}
Reviewed == {"rated", "failed", "skipped"}

Init ==
  /\ status = "none"
  /\ rating = "pending"
  /\ started = {}
  /\ failed = FALSE

Begin ==
  /\ status = "none"
  /\ status' = "running"
  /\ UNCHANGED <<rating, started, failed>>

\* Each cell is started at most once, and only before the verdict.
StartCell ==
  /\ status = "running" \/ failed
  /\ \E cell \in Cells \ started : started' = started \cup {cell}
  /\ failed' \in {failed, TRUE}
  /\ UNCHANGED <<status, rating>>

Fail ==
  /\ status # "none"
  /\ failed' = TRUE
  /\ UNCHANGED <<status, rating, started>>

\* "completed" is only said of a matrix that was run whole, and only a crash
\* concludes a suite run with its review already over.
Conclude ==
  /\ status = "running"
  /\ status' \in Verdicts
  /\ status' = "completed" => started = Cells
  /\ \/ rating' = "rating"
     \/ rating' = "skipped" /\ status' = "error"
  /\ UNCHANGED started
  /\ failed' \in {failed, FALSE}

Review ==
  /\ rating = "rating"
  /\ status \in Verdicts
  /\ rating' \in Reviewed
  /\ failed' \in {failed, FALSE}
  /\ UNCHANGED <<status, started>>

Remove ==
  /\ status \notin {"none", "removed"}
  /\ status' = "removed"
  /\ UNCHANGED <<started, failed, rating>>

\* The process may die under anything; a straggler dies with it.
Forget ==
  /\ failed' = FALSE
  /\ UNCHANGED <<status, rating, started>>

Next == Begin \/ StartCell \/ Fail \/ Conclude \/ Review \/ Remove \/ Forget

Spec == Init /\ [][Next]_promise
=============================================================================
