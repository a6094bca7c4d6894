----------------------------- MODULE RunVerdicts -----------------------------
(***************************************************************************)
(* The vocabulary every run backend shares: the statuses of a run, the     *)
(* states of its review ("rating") axis, the phases a live run shows, and  *)
(* the one table that turns the cause of an ending into a verdict          *)
(* (testing/session-terminal.ts, testing/run-manager.ts).                  *)
(***************************************************************************)

TerminalStatuses == {"completed", "stopped", "error", "aborted", "ended"}
RunStatuses == {"pending", "running"} \cup TerminalStatuses
Terminal(status) == status \in TerminalStatuses

SettledRatings == {"rated", "failed", "skipped"}
RatingStates == {"pending", "rating"} \cup SettledRatings
Settled(rating) == rating \in SettledRatings

Outcomes == {"none", "completed", "stopped_guardrail", "context_overflow",
             "error", "aborted", "ended", "assertions_failed"}

Phases == {"none", "queued", "starting", "waiting_input", "stopping"}

\* The causes of TerminalCause, grouped by the verdict they lead to.
BudgetCauses == {"max_turns", "max_tool_calls", "max_tokens", "max_context_tokens", "max_cost"}
ClockCauses == {"max_duration", "stalled", "wait_expired"}
ErrorCauses == {"provider_error", "auth", "rate_limit"}
TerminalCauses == BudgetCauses \cup ClockCauses \cup ErrorCauses
                    \cup {"user_stop", "session_ended", "context_overflow"}

\* Mutation: a clock cause is its own outcome.
terminalForNamedCause(cause) ==
  CASE cause = "user_stop" -> [status |-> "aborted", outcome |-> "aborted"]
    [] cause = "session_ended" -> [status |-> "ended", outcome |-> "ended"]
    [] cause \in ErrorCauses -> [status |-> "error", outcome |-> "error"]
    [] OTHER -> [status |-> "stopped", outcome |-> cause]

\* terminalFor: the same cause ends every backend with the same verdict.
terminalFor(cause) ==
  CASE cause = "user_stop" -> [status |-> "aborted", outcome |-> "aborted"]
    [] cause = "session_ended" -> [status |-> "ended", outcome |-> "ended"]
    [] cause = "context_overflow" -> [status |-> "stopped", outcome |-> "context_overflow"]
    [] cause \in BudgetCauses \cup ClockCauses ->
         [status |-> "stopped", outcome |-> "stopped_guardrail"]
    [] cause \in ErrorCauses -> [status |-> "error", outcome |-> "error"]

\* The verdict of a run no cause ended: the model finished by itself.
CleanCompletion == [status |-> "completed", outcome |-> "completed"]

Verdicts == [status : TerminalStatuses, outcome : Outcomes]
=============================================================================
