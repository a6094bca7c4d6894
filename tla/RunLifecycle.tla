---------------------------- MODULE RunLifecycle ----------------------------
(***************************************************************************)
(* One test run of the workbench, from POST /api/runs to the settled       *)
(* review of its result: RunService, RunManager, RunRepository, the two    *)
(* executors (the AI-SDK engine and the Claude-subscription child) and the *)
(* operator's handlers (turns, stop, end, delete, prune, re-rate).  Every  *)
(* table these components keep is keyed by the run's id and no operation   *)
(* reads another run's entry, so one run is enough.                        *)
(*                                                                         *)
(* The process is single-threaded.  An action is one macrotask: a handler, *)
(* a timer or an awaited result together with the synchronous code and the *)
(* promise continuations it starts.  RunManager.emit hands every event to  *)
(* the repository in a microtask of its own; those wait in `micro` and run *)
(* (Persist) before any other macrotask, but a crash may come first.       *)
(***************************************************************************)
EXTENDS Naturals, Sequences, RunVerdicts

CONSTANTS
  Backends,     \* the executors a run may be given: "engine", "subscription"
  MaxSteps,     \* bound: telemetry events the executor emits
  MaxTurns,     \* bound: turns the operator posts
  MaxRerates    \* bound: POST /api/runs/:id/grade requests

ASSUME BackendsAssumption == Backends \subseteq {"engine", "subscription"}
ASSUME BoundsAssumption == MaxSteps \in Nat /\ MaxTurns \in Nat /\ MaxRerates \in Nat

VARIABLES
  opt,      \* how the run was started: its mode, its backend, whether it is graded
  row,      \* its row in `runs`
  log,      \* its `run_events` rows: the entries, and what MAX(idx)+1 returns
  cursor,   \* RunRepository's write cursor
  sent,     \* history: every event the manager stamped; event i carries seq i-1
  micro,    \* persistence microtasks not yet run
  mgr,      \* RunManager's entry
  ctl,      \* RunService's RunControl
  exec,     \* where the executor and the review chain are
  rerate,   \* re-rates: how many were posted, how many are being graded
  hist      \* history: turns posted, and whether an end was accepted, a re-rate was
            \* torn (by the review it overlapped or by a crash), the process crashed

vars == <<opt, row, log, cursor, sent, micro, mgr, ctl, exec, rerate, hist>>

Modes == {"automated", "interactive"}

-----------------------------------------------------------------------------
\* The events of a run.  "step" stands for every event without a lifecycle
\* meaning (step, delta, kpi, error, question ...).
StatusEvent(v) == [type |-> "status", val |-> v.status, outcome |-> v.outcome]
PhaseEvent(p) == [type |-> "phase", val |-> p, outcome |-> "none"]
RatingEvent(s) == [type |-> "rating", val |-> s, outcome |-> "none"]
StepEvent == [type |-> "step", val |-> "none", outcome |-> "none"]
RunningEvent == StatusEvent([status |-> "running", outcome |-> "none"])
TerminalEvent(cause) == StatusEvent(terminalFor(cause))

Events == [type : {"status"}, val : RunStatuses, outcome : Outcomes]
            \cup [type : {"phase"}, val : Phases, outcome : {"none"}]
            \cup [type : {"rating"}, val : RatingStates, outcome : {"none"}]
            \cup {StepEvent}

IsStatus(e) == e.type = "status"
IsTerminalStatus(e) == IsStatus(e) /\ Terminal(e.val)
IsSettledRating(e) == e.type = "rating" /\ Settled(e.val)

-----------------------------------------------------------------------------
\* RunManager.
NoEntry == [active |-> FALSE, terminal |-> FALSE, settled |-> FALSE]
NewEntry == [active |-> TRUE, terminal |-> FALSE, settled |-> FALSE]

\* The entry after the events evs: the cached status is that of the last
\* status event, and a terminal, settled entry is cleaned up.
AfterEvents(m, evs) ==
  LET statuses == {i \in DOMAIN evs : IsStatus(evs[i])}
      terminal == IF statuses = {} THEN m.terminal
                  ELSE \E i \in statuses : /\ Terminal(evs[i].val)
                                           /\ \A j \in statuses : j <= i
      settled == m.settled \/ \E i \in DOMAIN evs : IsSettledRating(evs[i])
  IN IF terminal /\ settled
     THEN NoEntry
     ELSE [active |-> TRUE, terminal |-> terminal, settled |-> settled]

\* RunManager.emit, for the events one macrotask emits: a no-op once the entry
\* is gone, else stamp, queue for persistence, and clean up when it is over.
EmitNothing == UNCHANGED <<sent, micro, mgr>>
Emit(evs) ==
  IF mgr.active
  THEN /\ sent' = sent \o evs
       /\ micro' = micro \o evs
       /\ mgr' = AfterEvents(mgr, evs)
  ELSE EmitNothing

\* The events evs, then RunManager.detach: listeners and entry dropped.
EmitAndDetach(evs) ==
  /\ IF mgr.active THEN sent' = sent \o evs /\ micro' = micro \o evs
                   ELSE UNCHANGED <<sent, micro>>
  /\ mgr' = NoEntry

-----------------------------------------------------------------------------
\* RunRepository.
NoRow == [present |-> FALSE, status |-> "pending", outcome |-> "none",
          phase |-> "none", ended |-> FALSE, rating |-> "pending"]
NewRow == [NoRow EXCEPT !.present = TRUE, !.status = "running"]
NoLog == [entries |-> <<>>, next |-> 0]
ClosedCursor == [open |-> FALSE, idx |-> 0]

\* One more run_events row at idx; idx is not unique in the schema.
appendEvent(l, idx, e) ==
  [entries |-> Append(l.entries, [idx |-> idx, ev |-> e]),
   next |-> IF idx + 1 > l.next THEN idx + 1 ELSE l.next]

finalize(r, e) ==
  [r EXCEPT !.status = e.val, !.outcome = e.outcome, !.phase = "none", !.ended = TRUE]

\* A row's review axis moves; nothing to update in a deleted row.
setRatingState(r, s) == IF r.present THEN [r EXCEPT !.rating = s] ELSE r

\* What onEvent does to the row, by the type of the event.
RowAfter(r, e) ==
  IF IsTerminalStatus(e) THEN finalize(r, e)
  ELSE IF IsStatus(e) THEN [r EXCEPT !.status = e.val]
  ELSE IF e.type = "phase" THEN [r EXCEPT !.phase = e.val]
  ELSE r

\* Mutation: the terminal status drops the cursor.
CursorAfterDroppedAtVerdict(c, e) ==
  IF IsTerminalStatus(e) THEN ClosedCursor ELSE [c EXCEPT !.idx = @ + 1]

\* The cursor outlives the terminal status, so that the review's events still
\* reach the log; the settled rating drops it.
CursorAfter(c, e) ==
  IF IsSettledRating(e) THEN ClosedCursor ELSE [c EXCEPT !.idx = @ + 1]

\* RunRepository.onEvent, run from the microtask queue: skipped without a cursor.
Persist ==
  /\ micro # <<>>
  /\ micro' = Tail(micro)
  /\ IF cursor.open
     THEN /\ log' = appendEvent(log, cursor.idx, Head(micro))
          /\ row' = RowAfter(row, Head(micro))
          /\ cursor' = CursorAfter(cursor, Head(micro))
     ELSE UNCHANGED <<log, row, cursor>>
  /\ UNCHANGED <<opt, sent, mgr, ctl, exec, rerate, hist>>

\* Microtasks drain before the next macrotask runs.
Quiet == micro = <<>>

-----------------------------------------------------------------------------
\* RunControl, and the executor.
NoControl == [live |-> FALSE, aborted |-> FALSE, waiting |-> FALSE, queued |-> 0]
NewControl == [NoControl EXCEPT !.live = TRUE]
Finished(c) == [c EXCEPT !.live = FALSE]

Pcs == {"none",        \* not started
        "resolving",   \* engine: opening MCP sessions, building the tools
        "gated",       \* subscription: before the concurrency gate
        "queued",      \* subscription: waiting for the gate, shown as queued
        "streaming",   \* a turn of the model is in progress
        "waiting",     \* interactive: blocked in nextTurn
        "cleanup",     \* subscription: removing the throwaway workspace
        "closing",     \* execute's finally: closing the MCP sessions
        "grading",     \* reviewRun is running the graders
        "done",        \* the promise chain of the run is over
        "down"}        \* the process that ran it crashed

IsEngine == opt.kind = "engine"
IsChild == opt.kind = "subscription"
IsInteractive == opt.mode = "interactive"

\* The executor moves to pc.
At(pc) == exec' = [exec EXCEPT !.pc = pc]
\* The executor returns with the verdict v; execute's finally drops the control.
Return(v) ==
  /\ exec' = [exec EXCEPT !.pc = "closing", !.result = v.status]
  /\ ctl' = Finished(ctl)
\* The subscription executor has its verdict v (Termination.settle, or the clean
\* completion, which does not settle) and tears its session down.
TearDown(v, settled) ==
  exec' = [exec EXCEPT !.pc = "cleanup", !.result = v.status, !.settled = settled]

\* RunService.start: the row, the cursor, the entry and the control exist before
\* the executor first awaits.
Start ==
  /\ exec.pc = "none"
  /\ \E mode \in Modes, kind \in Backends, rated \in BOOLEAN :
       /\ opt' = [mode |-> mode, kind |-> kind, rated |-> rated]
       /\ At(IF kind = "engine" THEN "resolving" ELSE "gated")
  /\ row' = NewRow
  /\ cursor' = [open |-> TRUE, idx |-> 0]
  /\ mgr' = NewEntry
  /\ ctl' = NewControl
  /\ UNCHANGED <<log, sent, micro, rerate, hist>>

\* execute's catch: resolving failed, or a cost cap on an unpriced model.
StartFails ==
  /\ Quiet
  /\ exec.pc \in {"resolving", "gated"}
  /\ Emit(<<StepEvent, TerminalEvent("provider_error")>>)
  /\ Return(terminalFor("provider_error"))
  /\ UNCHANGED <<opt, row, log, cursor, rerate, hist>>

\* runAgentLoop up to the first provider call.
EngineBegins ==
  /\ Quiet
  /\ exec.pc = "resolving"
  /\ Emit(<<PhaseEvent("starting"), RunningEvent, PhaseEvent("none")>>)
  /\ At("streaming")
  /\ UNCHANGED <<opt, row, log, cursor, ctl, rerate, hist>>

\* acquireGate, when the next acquire would have to wait.
GateQueues ==
  /\ Quiet
  /\ exec.pc = "gated"
  /\ Emit(<<PhaseEvent("queued")>>)
  /\ At("queued")
  /\ UNCHANGED <<opt, row, log, cursor, ctl, rerate, hist>>

\* Mutation: the abort signal is checked before running is emitted.
LifecycleEventsAbortFirst ==
  (IF ctl.aborted THEN <<TerminalEvent("user_stop")>> ELSE <<>>)
    \o <<RunningEvent, PhaseEvent("none")>>

\* Mutation: a signal that is aborted already is not looked at.
LifecycleEventsUnchecked == <<RunningEvent, PhaseEvent("none")>>

\* The events of startSessionLifecycle: running comes first, so that a run that
\* was stopped while queued is running before it is aborted.
LifecycleEvents ==
  <<RunningEvent, PhaseEvent("none")>>
    \o (IF ctl.aborted THEN <<TerminalEvent("user_stop")>> ELSE <<>>)

\* The permit is granted: acquireGate returns, startSessionLifecycle runs.  A run
\* that is stopped by then opens no session.
GateGrants ==
  /\ Quiet
  /\ exec.pc \in {"gated", "queued"}
  /\ Emit((IF exec.pc = "queued" THEN <<PhaseEvent("starting")>> ELSE <<>>) \o LifecycleEvents)
  /\ exec' = [exec EXCEPT !.pc = "streaming", !.settled = ctl.aborted, !.opens = ~ctl.aborted,
                          !.result = IF ctl.aborted THEN "aborted" ELSE @]
  /\ UNCHANGED <<opt, row, log, cursor, ctl, rerate, hist>>

\* The model or a tool reports something.
StreamStep ==
  /\ Quiet
  /\ exec.pc = "streaming"
  /\ exec.steps < MaxSteps
  /\ Emit(<<StepEvent>>)
  /\ exec' = [exec EXCEPT !.steps = @ + 1]
  /\ UNCHANGED <<opt, row, log, cursor, ctl, rerate, hist>>

\* nextTurn with nothing queued blocks; a queued turn is taken at once, so that
\* the model streams on.
AwaitTurn ==
  IF ctl.queued = 0
  THEN /\ Emit(<<PhaseEvent("waiting_input")>>)
       /\ At("waiting")
       /\ ctl' = [ctl EXCEPT !.waiting = TRUE]
  ELSE /\ Emit(<<PhaseEvent("waiting_input"), PhaseEvent("none")>>)
       /\ At("streaming")
       /\ ctl' = [ctl EXCEPT !.queued = @ - 1]

\* An engine turn ends with one of these; each stands for the causes of its verdict.
TurnEnds == {"clean", "max_turns", "context_overflow", "provider_error"}
\* What ends a turn of the child for good, besides a clean completion.
ChildStops == {"max_cost", "provider_error"}

\* The verdict of runAgentLoop: an abort wins over a fired clock, and both over
\* whatever ended the turn.
EngineVerdict(end) ==
  IF ctl.aborted THEN terminalFor("user_stop")
  ELSE IF exec.fired THEN terminalFor("stalled")
  ELSE IF end = "clean" THEN CleanCompletion
  ELSE terminalFor(end)

Undisturbed == ~ctl.aborted /\ ~exec.fired

\* finishReason is "stop", and an interactive run goes on with the next user turn.
EngineAwaits ==
  /\ Quiet
  /\ exec.pc = "streaming" /\ IsEngine
  /\ IsInteractive /\ Undisturbed
  /\ AwaitTurn
  /\ UNCHANGED <<opt, row, log, cursor, rerate, hist>>

\* Every other ending of an engine turn is the end of the run, also of an interactive
\* one whose turn was cut short without a trip or an error ("length", say): it is
\* completed.  Nothing awaits between emitTerminal and the finally of execute.
EngineEnds ==
  /\ Quiet
  /\ exec.pc = "streaming" /\ IsEngine
  /\ \E end \in TurnEnds :
       /\ Emit(<<StatusEvent(EngineVerdict(end))>>)
       /\ Return(EngineVerdict(end))
  /\ UNCHANGED <<opt, row, log, cursor, rerate, hist>>

\* The child's turn is done and the session waits for the next user turn.
ChildAwaits ==
  /\ Quiet
  /\ exec.pc = "streaming" /\ IsChild /\ ~exec.settled
  /\ IsInteractive
  /\ AwaitTurn
  /\ UNCHANGED <<opt, row, log, cursor, rerate, hist>>

\* An automated child is done: `completed` is emitted beside the termination.  One that
\* is not settled stays so while the workspace is removed; one that is settled is not
\* asked: a turn_done that still comes through after the kill completes the run.
ChildCompletes ==
  /\ Quiet
  /\ exec.pc = "streaming" /\ IsChild /\ exec.opens
  /\ ~IsInteractive
  /\ Emit(<<StatusEvent(CleanCompletion)>>)
  /\ TearDown(CleanCompletion, exec.settled)
  /\ UNCHANGED <<opt, row, log, cursor, ctl, rerate, hist>>

\* The child fails or reaches its cost cap: Termination.settle.
ChildSettles ==
  /\ Quiet
  /\ exec.pc = "streaming" /\ IsChild /\ ~exec.settled
  /\ \E cause \in ChildStops :
       /\ Emit(<<TerminalEvent(cause)>>)
       /\ TearDown(terminalFor(cause), TRUE)
  /\ UNCHANGED <<opt, row, log, cursor, ctl, rerate, hist>>

\* The killed child's stream ends; the verdict is already on the wire.
ChildWindsDown ==
  /\ Quiet
  /\ exec.pc = "streaming" /\ IsChild /\ exec.settled
  /\ At("cleanup")
  /\ UNCHANGED <<opt, row, log, cursor, sent, micro, mgr, ctl, rerate, hist>>

\* The workspace is gone, the gate's permit and the provider slot are released.
ChildCleanedUp ==
  /\ Quiet
  /\ exec.pc = "cleanup"
  /\ At("closing")
  /\ ctl' = Finished(ctl)
  /\ UNCHANGED <<opt, row, log, cursor, sent, micro, mgr, rerate, hist>>

-----------------------------------------------------------------------------
\* The SessionClock: stall, wait budget and wall cap.  Its timers are left out:
\* it may fire whenever it is running.

\* Engine, streaming: the cause is latched and the stream is told to stop.
ClockStopsStream ==
  /\ Quiet
  /\ exec.pc = "streaming" /\ IsEngine /\ ~exec.fired
  /\ Emit(<<PhaseEvent("stopping")>>)
  /\ exec' = [exec EXCEPT !.fired = TRUE]
  /\ UNCHANGED <<opt, row, log, cursor, ctl, rerate, hist>>

\* Engine, waiting: the wait loses the race and the loop ends at once.
ClockEndsWait ==
  /\ Quiet
  /\ exec.pc = "waiting" /\ IsEngine
  /\ Emit(<<PhaseEvent("stopping"), TerminalEvent("wait_expired")>>)
  /\ Return(terminalFor("wait_expired"))
  /\ UNCHANGED <<opt, row, log, cursor, rerate, hist>>

\* Subscription: the clock settles the termination, which kills the child; a
\* wait ends with the phase cleared, its resolver left behind.
ClockSettlesChild ==
  /\ Quiet
  /\ exec.pc \in {"streaming", "waiting"} /\ IsChild /\ ~exec.settled
  /\ \/ /\ exec.pc = "streaming"
        /\ Emit(<<TerminalEvent("stalled")>>)
        /\ exec' = [exec EXCEPT !.settled = TRUE, !.result = terminalFor("stalled").status]
     \/ /\ exec.pc = "waiting"
        /\ Emit(<<TerminalEvent("wait_expired"), PhaseEvent("none")>>)
        /\ TearDown(terminalFor("wait_expired"), TRUE)
  /\ UNCHANGED <<opt, row, log, cursor, ctl, rerate, hist>>

-----------------------------------------------------------------------------
\* The operator.

\* RunService.submitTurn: resume a waiting run, leave a stale resolver to
\* nobody, or queue the turn.
SubmitTurn ==
  /\ Quiet
  /\ ctl.live /\ IsInteractive /\ ~ctl.aborted
  /\ hist.posted < MaxTurns
  /\ hist' = [hist EXCEPT !.posted = @ + 1]
  /\ IF ctl.waiting
     THEN /\ ctl' = [ctl EXCEPT !.waiting = FALSE]
          /\ IF exec.pc = "waiting"
             THEN Emit(<<PhaseEvent("none")>>) /\ At("streaming")
             ELSE EmitNothing /\ UNCHANGED exec
     ELSE /\ ctl' = [ctl EXCEPT !.queued = @ + 1]
          /\ EmitNothing /\ UNCHANGED exec
  /\ UNCHANGED <<opt, row, log, cursor, rerate>>

\* The abort listener of the subscription executor is registered when its
\* lifecycle starts and never removed; it settles the termination unless that
\* is settled already.
Listening == IsChild /\ exec.pc \in {"streaming", "waiting", "cleanup"} /\ ~exec.settled

\* What abort() makes the executor emit before it returns ...
AbortEvents == IF Listening THEN <<TerminalEvent("user_stop")>> ELSE <<>>
\* ... and in the continuations that follow, the wait having been resolved.
AbortContinues ==
  CASE exec.pc # "waiting" -> <<>>
    [] exec.pc = "waiting" /\ IsChild -> <<PhaseEvent("none")>>
    [] exec.pc = "waiting" /\ ~IsChild -> <<PhaseEvent("none"), TerminalEvent("user_stop")>>

\* Where abort() leaves the control and the executor.
Abort ==
  LET endsWait == exec.pc = "waiting" /\ ~IsChild IN
  /\ ctl' = [ctl EXCEPT !.aborted = TRUE, !.waiting = FALSE, !.live = @ /\ ~endsWait]
  /\ exec' = [exec EXCEPT
       !.pc = IF endsWait THEN "closing" ELSE IF @ = "waiting" THEN "cleanup" ELSE @,
       !.settled = @ \/ Listening,
       !.result = IF endsWait \/ (Listening /\ exec.pc # "cleanup") THEN "aborted" ELSE @]

\* POST /api/runs/:id/stop; 404 once the control is finished.
Stop ==
  /\ Quiet
  /\ ctl.live /\ ~ctl.aborted
  /\ Emit(AbortEvents \o AbortContinues)
  /\ Abort
  /\ UNCHANGED <<opt, row, log, cursor, rerate, hist>>

\* RunService.detachActiveRun: abort first, then detach, so that only what
\* abort() emits before it returns still passes the manager.
Detach(before) ==
  /\ EmitAndDetach(before \o IF ctl.live /\ ~ctl.aborted THEN AbortEvents ELSE <<>>)
  /\ IF ctl.live /\ ~ctl.aborted THEN Abort ELSE UNCHANGED <<ctl, exec>>

\* Mutation: the row's status is not consulted.
CanEndWhileActive == row.present /\ IsInteractive /\ mgr.active
\* POST /api/runs/:id/end: the verdict is written, then the loop is signalled.
CanEnd == row.present /\ IsInteractive /\ ~Terminal(row.status) /\ mgr.active
End ==
  /\ Quiet
  /\ CanEnd
  /\ Detach(<<TerminalEvent("session_ended")>>)
  /\ row' = [row EXCEPT !.ended = TRUE]
  /\ hist' = [hist EXCEPT !.ended = TRUE]
  /\ UNCHANGED <<opt, log, cursor, rerate>>

\* RunRepository.delete: the row, its log and the write cursor.
DeleteRow ==
  /\ row' = NoRow
  /\ log' = NoLog
  /\ cursor' = ClosedCursor

\* DELETE /api/runs/:id: detach a live run, then delete; 404 without a row, but
\* a run still in the manager is detached all the same.
Delete ==
  /\ Quiet
  /\ row.present \/ mgr.active
  /\ IF mgr.active THEN Detach(<<>>) ELSE EmitNothing /\ UNCHANGED <<ctl, exec>>
  /\ IF row.present THEN DeleteRow ELSE UNCHANGED <<row, log, cursor>>
  /\ UNCHANGED <<opt, rerate, hist>>

\* POST /api/maintenance/prune-runs: a terminal row goes, the manager is not told.
CanPrune == row.present /\ Terminal(row.status)
Prune ==
  /\ Quiet
  /\ CanPrune
  /\ DeleteRow
  /\ UNCHANGED <<opt, sent, micro, mgr, ctl, exec, rerate, hist>>

-----------------------------------------------------------------------------
\* The review of a finished run, and re-rates.

\* markAssertionsFailedOutcome: only a clean completion can be flipped.
FlipOutcome(r) ==
  IF r.present /\ r.status = "completed" /\ r.outcome = "completed"
  THEN [r EXCEPT !.outcome = "assertions_failed"]
  ELSE r

\* transitionRating of the review: the row at once, the event through the manager.
\* reviewRun up to the graders; assertions are evaluated for a completed run.
ReviewBegins ==
  /\ Quiet
  /\ exec.pc = "closing"
  /\ At("grading")
  /\ \E violated \in BOOLEAN :
       LET rated == IF opt.rated THEN setRatingState(row, "rating") ELSE row IN
       row' = IF violated /\ exec.result = "completed" THEN FlipOutcome(rated) ELSE rated
  /\ IF opt.rated THEN Emit(<<RatingEvent("rating")>>) ELSE EmitNothing
  /\ UNCHANGED <<opt, log, cursor, ctl, rerate, hist>>

\* Where the review lands: skipped without graders, failed when they throw.
Landings == IF opt.rated THEN {"rated", "failed"} ELSE {"skipped"}

\* The graders are done; reviewRun's finally settles the axis.
ReviewSettles ==
  /\ Quiet
  /\ exec.pc = "grading"
  /\ At("done")
  /\ \E s \in Landings :
       /\ row' = setRatingState(row, s)
       /\ Emit(<<RatingEvent(s)>>)
  /\ UNCHANGED <<opt, log, cursor, ctl, rerate, hist>>

\* Mutation: a re-rate moves the row only.
appendRatingEventNot(s) == log' = log
\* appendRatingEvent: after the stored log, outside the cursor; no seq.
appendRatingEvent(s) == log' = IF row.present THEN appendEvent(log, log.next, RatingEvent(s)) ELSE log

\* The re-rate route's transition: row and log together, past the manager.
TransitionRerate(s) ==
  /\ row' = setRatingState(row, s)
  /\ appendRatingEvent(s)

\* POST /api/runs/:id/grade; it asks neither whether the run is over nor whether
\* it is being reviewed.
RerateBegins ==
  /\ Quiet
  /\ row.present
  /\ rerate.posted < MaxRerates
  /\ rerate' = [posted |-> rerate.posted + 1, open |-> rerate.open + 1]
  /\ TransitionRerate("rating")
  /\ hist' = [hist EXCEPT !.torn = @ \/ exec.pc \notin {"done", "down"}]
  /\ UNCHANGED <<opt, cursor, sent, micro, mgr, ctl, exec>>

RerateSettles ==
  /\ Quiet
  /\ rerate.open > 0
  /\ rerate' = [rerate EXCEPT !.open = @ - 1]
  /\ \E s \in {"rated", "failed"} : TransitionRerate(s)
  /\ UNCHANGED <<opt, cursor, sent, micro, mgr, ctl, exec, hist>>

-----------------------------------------------------------------------------
\* A crash at any point, and the boot that follows it.

\* Mutation: only running rows are reconciled.
abortOrphanedRunsRunningOnly(r) ==
  IF r.present /\ r.status = "running"
  THEN [r EXCEPT !.status = "aborted", !.rating = "skipped"]
  ELSE r

\* abortOrphanedRuns on one row: a running one is aborted, an unsettled review
\* of a finished one is skipped.
abortOrphanedRuns(r) ==
  IF r.present /\ r.status = "running"
  THEN [r EXCEPT !.status = "aborted", !.rating = "skipped"]
  ELSE IF r.present /\ Terminal(r.status) /\ ~Settled(r.rating)
  THEN [r EXCEPT !.rating = "skipped"]
  ELSE r

CrashRestart ==
  /\ exec.pc # "none"
  /\ exec.pc # "down" \/ rerate.open > 0
  /\ row' = abortOrphanedRuns(row)
  /\ cursor' = ClosedCursor
  /\ micro' = <<>>
  /\ mgr' = NoEntry
  /\ ctl' = NoControl
  /\ exec' = [exec EXCEPT !.pc = "down"]
  /\ rerate' = [rerate EXCEPT !.open = 0]
  /\ hist' = [hist EXCEPT !.crashed = TRUE, !.torn = @ \/ rerate.open > 0]
  /\ UNCHANGED <<opt, log, sent>>

-----------------------------------------------------------------------------
Init ==
  /\ opt = [mode |-> "automated", kind |-> "engine", rated |-> FALSE]
  /\ row = NoRow
  /\ log = NoLog
  /\ cursor = ClosedCursor
  /\ sent = <<>>
  /\ micro = <<>>
  /\ mgr = NoEntry
  /\ ctl = NoControl
  /\ exec = [pc |-> "none", steps |-> 0, fired |-> FALSE, settled |-> FALSE, opens |-> FALSE,
             result |-> "none"]
  /\ rerate = [posted |-> 0, open |-> 0]
  /\ hist = [posted |-> 0, ended |-> FALSE, torn |-> FALSE, crashed |-> FALSE]

\* What the run does by itself.
Executor ==
  \/ StartFails \/ EngineBegins \/ GateGrants
  \/ EngineAwaits \/ EngineEnds
  \/ ChildAwaits \/ ChildCompletes \/ ChildSettles \/ ChildWindsDown \/ ChildCleanedUp
  \/ ClockEndsWait \/ ClockSettlesChild

Review == ReviewBegins \/ ReviewSettles

Operator == SubmitTurn \/ Stop \/ End \/ Delete \/ Prune \/ RerateBegins

Next ==
  \/ Start \/ Persist \/ Executor \/ Review \/ Operator
  \/ GateQueues \/ StreamStep \/ ClockStopsStream
  \/ RerateSettles \/ CrashRestart

Spec == Init /\ [][Next]_vars

\* Microtasks run; awaited calls return or are timed out by the clock; a started
\* review and a started re-rate come to an end.
Fairness ==
  /\ WF_vars(Persist)
  /\ WF_vars(Executor)
  /\ WF_vars(Review)
  /\ WF_vars(RerateSettles)

FairSpec == Spec /\ Fairness

-----------------------------------------------------------------------------
Options == [mode : Modes, kind : {"engine", "subscription"}, rated : BOOLEAN]
Rows == [present : BOOLEAN, status : RunStatuses, outcome : Outcomes,
         phase : Phases, ended : BOOLEAN, rating : RatingStates]
LogEntries == [idx : Nat, ev : Events]
Logs == [entries : Seq(LogEntries), next : Nat]
Cursors == [open : BOOLEAN, idx : Nat]
Entries == [active : BOOLEAN, terminal : BOOLEAN, settled : BOOLEAN]
Controls == [live : BOOLEAN, aborted : BOOLEAN, waiting : BOOLEAN, queued : Nat]
Executions == [pc : Pcs, steps : Nat, fired : BOOLEAN, settled : BOOLEAN,
               opens : BOOLEAN, result : {"none"} \cup TerminalStatuses]
Rerates == [posted : Nat, open : Nat]
Histories == [posted : Nat, ended : BOOLEAN, torn : BOOLEAN, crashed : BOOLEAN]

TypeOK ==
  /\ opt \in Options
  /\ row \in Rows
  /\ log \in Logs
  /\ cursor \in Cursors
  /\ sent \in Seq(Events)
  /\ micro \in Seq(Events)
  /\ mgr \in Entries
  /\ ctl \in Controls
  /\ exec \in Executions
  /\ rerate \in Rerates
  /\ hist \in Histories

-----------------------------------------------------------------------------
\* Safety.

\* A verdict, once in the row, is never taken back: a terminal row never shows a
\* live status again, whatever the executor still emits while it winds down
\* (testing/claude-subscription-executor.ts, startSessionLifecycle's ordering).
TerminalNeverReopens ==
  [][row.present /\ Terminal(row.status) /\ row'.present => Terminal(row'.status)]_vars

KeepsVerdict ==
  row.present /\ Terminal(row.status) /\ row'.present =>
    /\ row'.status = row.status
    /\ \/ row'.outcome = row.outcome
       \/ row.outcome = "completed" /\ row'.outcome = "assertions_failed"

\* Stop ordering of the engine: the first verdict persisted stands, against a
\* stop, a clock, an end or a failing review; only the assertions may turn a
\* clean completion into assertions_failed (testing/engine.ts, run-service.ts).
EngineVerdictFinal == [][IsEngine => KeepsVerdict]_vars

\* Once the microtasks of POST /end have run, the row says `ended`: the aborted
\* loop can never overwrite it (testing/routes.ts, End session).  A crash may
\* still come before they run.
EndVerdictKept == hist.ended /\ row.present /\ Quiet /\ ~hist.crashed => row.status = "ended"

\* The assertions of a test never mask how a run really ended: only a row that
\* still says completed carries assertions_failed, also when an operator's stop
\* came between the completion and the review (run-repository.ts).
AssertionsNeverMask == row.outcome = "assertions_failed" => row.status = "completed"

\* The events of the log, in the order of their rows.
Logged == [i \in DOMAIN log.entries |-> log.entries[i].ev]

\* The replay log is what the manager stamped, without a gap, a repetition or a
\* reordering, verdict and review included; a re-rate of a reviewed run only appends (run-repository.ts, onEvent).
LogFaithful ==
  row.present /\ ~hist.torn =>
    /\ \A i \in DOMAIN log.entries : log.entries[i].idx = i - 1
    /\ ~hist.crashed => /\ Len(sent) <= Len(Logged \o micro)
                        /\ \A i \in DOMAIN sent : (Logged \o micro)[i] = sent[i]

\* What a client that replays the log ends up with: the last settled rating in
\* idx order (of two entries with one idx, either may come last), else the one
\* writePersistedReplay takes from the row.
SettledEntries == {i \in DOMAIN log.entries : IsSettledRating(log.entries[i].ev)}
ReplayedRatings ==
  IF SettledEntries = {} THEN {row.rating}
  ELSE {log.entries[i].ev.val : i \in
          {j \in SettledEntries : \A k \in SettledEntries :
             log.entries[k].idx <= log.entries[j].idx}}

ReplayAgrees ==
  row.present /\ Terminal(row.status) /\ Settled(row.rating) /\ ~mgr.active /\ Quiet
    => ReplayedRatings = {row.rating}

\* Clients that replay a finished run converge on the row's rating, through
\* crashes, detached reviews and re-rates, unless a re-rate is torn: posted
\* before the review was over, or cut off by a crash (testing/routes.ts,
\* writePersistedReplay).
ReplayConverges == ~hist.torn => ReplayAgrees

-----------------------------------------------------------------------------
\* Liveness.

\* Every finished run gets a settled review, also when its process crashed
\* between the verdict and the review (run-service.ts, reviewRun;
\* run-repository.ts, abortOrphanedRuns), and the manager's entry is always
\* released, so that it cannot leak (testing/run-manager.ts, emit's cleanup).
EventuallyReviewed ==
  row.present /\ Terminal(row.status) ~> ~row.present \/ Settled(row.rating)
EntryReleased == mgr.active ~> ~mgr.active
EventuallySettles == EventuallyReviewed /\ EntryReleased

\* A stopped run comes to a verdict, wherever the stop found it: resolving,
\* queued for the gate, streaming or waiting (run-service.ts, stop).
StopIsHonoured == ctl.aborted ~> ~row.present \/ Terminal(row.status)
=============================================================================
