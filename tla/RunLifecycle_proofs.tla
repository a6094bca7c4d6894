------------------------ MODULE RunLifecycle_proofs ------------------------
(***************************************************************************)
(* Proofs about RunLifecycle, for every set of backends and every bound.   *)
(***************************************************************************)
EXTENDS RunLifecycle, SequenceTheorems, TLAPS

-----------------------------------------------------------------------------
(* Sequences. *)

\* A concatenation is known by its elements.
LEMMA ConcatIs ==
  ASSUME NEW S, NEW s \in Seq(S), NEW t \in Seq(S), NEW u \in Seq(S),
         Len(u) = Len(s) + Len(t),
         \A i \in 1..Len(s) : u[i] = s[i],
         \A i \in 1..Len(t) : u[Len(s) + i] = t[i]
  PROVE  s \o t = u
<1>1. s \o t \in Seq(S) /\ Len(s \o t) = Len(u)
  BY ConcatProperties
<1>2. ASSUME NEW i \in 1..Len(u) PROVE (s \o t)[i] = u[i]
  <2>1. (s \o t)[i] = IF i <= Len(s) THEN s[i] ELSE t[i - Len(s)]
    BY ConcatProperties
  <2>2. CASE i <= Len(s)
    BY <2>1, <2>2
  <2>3. CASE ~(i <= Len(s))
    <3>1. i - Len(s) \in 1..Len(t) /\ Len(s) + (i - Len(s)) = i
      BY <2>3
    <3>2. QED BY <2>1, <2>3, <3>1
  <2>4. QED BY <2>2, <2>3
<1>3. QED BY <1>1, <1>2, SeqEqual

\* Short concatenations, computed.
LEMMA ConcatTuples ==
  ASSUME NEW S, NEW x \in S, NEW y \in S, NEW z \in S
  PROVE  /\ <<x>> \o <<y>> = <<x, y>>
         /\ <<x>> \o <<y, z>> = <<x, y, z>>
         /\ <<x, y>> \o <<z>> = <<x, y, z>>
<1>1. <<x>> \o <<y>> = <<x, y>>
  <2> DEFINE s == <<x>>
             t == <<y>>
             u == <<x, y>>
  <2>1. Len(s) = 1 /\ s[1] = x /\ s \in Seq(S)
    OBVIOUS
  <2>2. Len(t) = 1 /\ t[1] = y /\ t \in Seq(S)
    OBVIOUS
  <2>3. Len(u) = 2 /\ u[1] = x /\ u[2] = y /\ u \in Seq(S)
    OBVIOUS
  <2> HIDE DEF s, t, u
  <2>4. /\ Len(u) = Len(s) + Len(t)
        /\ \A i \in 1..Len(s) : u[i] = s[i]
        /\ \A i \in 1..Len(t) : u[Len(s) + i] = t[i]
    BY <2>1, <2>2, <2>3
  <2>5. s \o t = u
    BY <2>1, <2>2, <2>3, <2>4, ConcatIs, Zenon
  <2>6. QED BY <2>5, Zenon DEF s, t, u
<1>2. <<x>> \o <<y, z>> = <<x, y, z>>
  <2> DEFINE s == <<x>>
             t == <<y, z>>
             u == <<x, y, z>>
  <2>1. Len(s) = 1 /\ s[1] = x /\ s \in Seq(S)
    OBVIOUS
  <2>2. Len(t) = 2 /\ t[1] = y /\ t[2] = z /\ t \in Seq(S)
    OBVIOUS
  <2>3. Len(u) = 3 /\ u[1] = x /\ u[2] = y /\ u[3] = z /\ u \in Seq(S)
    OBVIOUS
  <2> HIDE DEF s, t, u
  <2>4. /\ Len(u) = Len(s) + Len(t)
        /\ \A i \in 1..Len(s) : u[i] = s[i]
        /\ \A i \in 1..Len(t) : u[Len(s) + i] = t[i]
    BY <2>1, <2>2, <2>3
  <2>5. s \o t = u
    BY <2>1, <2>2, <2>3, <2>4, ConcatIs, Zenon
  <2>6. QED BY <2>5, Zenon DEF s, t, u
<1>3. <<x, y>> \o <<z>> = <<x, y, z>>
  <2> DEFINE s == <<x, y>>
             t == <<z>>
             u == <<x, y, z>>
  <2>1. Len(s) = 2 /\ s[1] = x /\ s[2] = y /\ s \in Seq(S)
    OBVIOUS
  <2>2. Len(t) = 1 /\ t[1] = z /\ t \in Seq(S)
    OBVIOUS
  <2>3. Len(u) = 3 /\ u[1] = x /\ u[2] = y /\ u[3] = z /\ u \in Seq(S)
    OBVIOUS
  <2> HIDE DEF s, t, u
  <2>4. /\ Len(u) = Len(s) + Len(t)
        /\ \A i \in 1..Len(s) : u[i] = s[i]
        /\ \A i \in 1..Len(t) : u[Len(s) + i] = t[i]
    BY <2>1, <2>2, <2>3
  <2>5. s \o t = u
    BY <2>1, <2>2, <2>3, <2>4, ConcatIs, Zenon
  <2>6. QED BY <2>5, Zenon DEF s, t, u
<1>4. QED BY <1>1, <1>2, <1>3

\* One event put in front of three: the four in a row.
LEMMA ConcatFour ==
  ASSUME NEW S, NEW x \in S, NEW y \in S, NEW z \in S, NEW w \in S
  PROVE  <<x>> \o <<y, z, w>> = <<x, y, z, w>>
<1>1. <<x>> \o <<y, z, w>> = <<x, y, z, w>>
  <2> DEFINE s == <<x>>
             t == <<y, z, w>>
             u == <<x, y, z, w>>
  <2>1. Len(s) = 1 /\ s[1] = x /\ s \in Seq(S)
    OBVIOUS
  <2>2. Len(t) = 3 /\ t[1] = y /\ t[2] = z /\ t[3] = w /\ t \in Seq(S)
    OBVIOUS
  <2>3. Len(u) = 4 /\ u[1] = x /\ u[2] = y /\ u[3] = z /\ u[4] = w /\ u \in Seq(S)
    OBVIOUS
  <2> HIDE DEF s, t, u
  <2>4. /\ Len(u) = Len(s) + Len(t)
        /\ \A i \in 1..Len(s) : u[i] = s[i]
        /\ \A i \in 1..Len(t) : u[Len(s) + i] = t[i]
    BY <2>1, <2>2, <2>3
  <2>5. s \o t = u
    BY <2>1, <2>2, <2>3, <2>4, ConcatIs, Zenon
  <2>6. QED BY <2>5, Zenon DEF s, t, u
<1>2. QED BY <1>1

-----------------------------------------------------------------------------
(* What the vocabulary's operators return. *)

\* terminalFor gives every cause a terminal status and an outcome of its own;
\* no cause ends a run with the outcome of the assertions.
LEMMA VerdictType ==
  ASSUME NEW cause \in TerminalCauses
  PROVE  /\ terminalFor(cause) \in Verdicts
         /\ terminalFor(cause).outcome # "assertions_failed"
BY DEF terminalFor, Verdicts, TerminalCauses, BudgetCauses, ClockCauses, ErrorCauses,
       TerminalStatuses, Outcomes

\* The event of a cause is a terminal status event.
LEMMA TerminalEventType ==
  ASSUME NEW cause \in TerminalCauses
  PROVE  TerminalEvent(cause) \in Events
<1>1. terminalFor(cause) \in Verdicts
  BY VerdictType
<1>2. QED
  BY <1>1 DEF TerminalEvent, StatusEvent, Events, Verdicts, RunStatuses

\* The events the executors emit are events.
LEMMA EventTypes ==
  /\ \A p \in Phases : PhaseEvent(p) \in Events
  /\ \A s \in RatingStates : RatingEvent(s) \in Events
  /\ RunningEvent \in Events
  /\ StepEvent \in Events
  /\ StatusEvent(CleanCompletion) \in Events
BY DEF Events, PhaseEvent, RatingEvent, RunningEvent, StepEvent, StatusEvent, CleanCompletion,
       RunStatuses, TerminalStatuses, Outcomes

\* The entry stays an entry, or is cleaned up.
LEMMA AfterEventsType ==
  ASSUME NEW m \in Entries, NEW evs
  PROVE  AfterEvents(m, evs) \in Entries
<1> DEFINE statuses == {i \in DOMAIN evs : IsStatus(evs[i])}
           terminal == IF statuses = {} THEN m.terminal
                       ELSE \E i \in statuses : /\ Terminal(evs[i].val)
                                                /\ \A j \in statuses : j <= i
           settled == m.settled \/ \E i \in DOMAIN evs : IsSettledRating(evs[i])
<1>1. terminal \in BOOLEAN
  <2>1. m.terminal \in BOOLEAN
    BY DEF Entries
  <2>2. (\E i \in statuses : Terminal(evs[i].val) /\ \A j \in statuses : j <= i) \in BOOLEAN
    OBVIOUS
  <2>3. QED BY <2>1, <2>2
<1>2. settled \in BOOLEAN
  OBVIOUS
<1>3. AfterEvents(m, evs) = IF terminal /\ settled THEN NoEntry
                            ELSE [active |-> TRUE, terminal |-> terminal, settled |-> settled]
  BY DEF AfterEvents
<1> HIDE DEF statuses, terminal, settled
<1>4. NoEntry \in Entries
  BY DEF NoEntry, Entries
<1>5. [active |-> TRUE, terminal |-> terminal, settled |-> settled] \in Entries
  BY <1>1, <1>2, Zenon DEF Entries
<1>6. QED BY <1>3, <1>4, <1>5

\* Emitting keeps the types of what the manager and the microtask queue hold.
LEMMA EmitType ==
  ASSUME TypeOK, NEW evs \in Seq(Events), Emit(evs)
  PROVE  sent' \in Seq(Events) /\ micro' \in Seq(Events) /\ mgr' \in Entries
<1>1. sent \in Seq(Events) /\ micro \in Seq(Events) /\ mgr \in Entries
  BY DEF TypeOK
<1>2. AfterEvents(mgr, evs) \in Entries
  BY <1>1, AfterEventsType
<1>3. sent \o evs \in Seq(Events) /\ micro \o evs \in Seq(Events)
  BY <1>1, ConcatProperties
<1>4. QED
  BY <1>1, <1>2, <1>3, Zenon DEF Emit, EmitNothing

\* EmitAndDetach keeps the types of what it changes, as Emit does.
LEMMA EmitAndDetachType ==
  ASSUME TypeOK, NEW evs \in Seq(Events), EmitAndDetach(evs)
  PROVE  sent' \in Seq(Events) /\ micro' \in Seq(Events) /\ mgr' \in Entries
<1>1. sent \in Seq(Events) /\ micro \in Seq(Events)
  BY DEF TypeOK
<1>2. sent \o evs \in Seq(Events) /\ micro \o evs \in Seq(Events)
  BY <1>1, ConcatProperties
<1>3. NoEntry \in Entries
  BY DEF NoEntry, Entries
<1>4. QED
  BY <1>1, <1>2, <1>3, Zenon DEF EmitAndDetach

\* What a status, a phase and a rating event carry.
LEMMA EventFields ==
  ASSUME NEW e \in Events
  PROVE  /\ IsStatus(e) => e.val \in RunStatuses /\ e.outcome \in Outcomes
         /\ e.type = "phase" => e.val \in Phases
         /\ e.type = "rating" => e.val \in RatingStates
BY DEF Events, IsStatus, StepEvent

\* onEvent keeps the row a row.
LEMMA RowAfterType ==
  ASSUME NEW r \in Rows, NEW e \in Events
  PROVE  RowAfter(r, e) \in Rows
<1>1. CASE IsTerminalStatus(e)
  <2>1. e.val \in RunStatuses /\ e.outcome \in Outcomes
    BY <1>1, EventFields DEF IsTerminalStatus
  <2>2. finalize(r, e) \in Rows
    BY <2>1 DEF finalize, Rows, Phases
  <2>3. QED BY <1>1, <2>2, Zenon DEF RowAfter
<1>2. CASE ~IsTerminalStatus(e) /\ IsStatus(e)
  <2>1. [r EXCEPT !.status = e.val] \in Rows
    BY <1>2, EventFields DEF Rows
  <2>2. QED BY <1>2, <2>1, Zenon DEF RowAfter
<1>3. CASE ~IsTerminalStatus(e) /\ ~IsStatus(e) /\ e.type = "phase"
  <2>1. [r EXCEPT !.phase = e.val] \in Rows
    BY <1>3, EventFields DEF Rows
  <2>2. QED BY <1>3, <2>1, Zenon DEF RowAfter
<1>4. CASE ~IsTerminalStatus(e) /\ ~IsStatus(e) /\ e.type # "phase"
  BY <1>4, Zenon DEF RowAfter
<1>5. QED BY <1>1, <1>2, <1>3, <1>4

\* A cursor that is open stays one; closing it forgets its index.
LEMMA CursorAfterType ==
  ASSUME NEW c \in Cursors, NEW e
  PROVE  CursorAfter(c, e) \in Cursors
<1>1. [c EXCEPT !.idx = @ + 1] \in Cursors /\ ClosedCursor \in Cursors
  BY DEF Cursors, ClosedCursor
<1>2. QED BY <1>1, Zenon DEF CursorAfter

\* One more row keeps the log a log.
LEMMA AppendEventType ==
  ASSUME NEW l \in Logs, NEW idx \in Nat, NEW e \in Events
  PROVE  appendEvent(l, idx, e) \in Logs
<1>1. [idx |-> idx, ev |-> e] \in LogEntries
  BY DEF LogEntries
<1>2. Append(l.entries, [idx |-> idx, ev |-> e]) \in Seq(LogEntries)
  BY <1>1 DEF Logs
<1>3. (IF idx + 1 > l.next THEN idx + 1 ELSE l.next) \in Nat
  BY DEF Logs
<1>4. QED BY <1>2, <1>3, Zenon DEF appendEvent, Logs

\* onEvent (Persist) keeps the types of the row, the log and the cursor.
LEMMA PersistType ==
  ASSUME TypeOK, Persist
  PROVE  TypeOK'
<1>1. /\ micro # <<>>
      /\ micro' = Tail(micro)
      /\ UNCHANGED <<opt, sent, mgr, ctl, exec, rerate, hist>>
  BY DEF Persist
<1>2. micro \in Seq(Events) /\ row \in Rows /\ log \in Logs /\ cursor \in Cursors
  BY DEF TypeOK
<1>3. Head(micro) \in Events /\ micro' \in Seq(Events)
  BY <1>1, <1>2
<1>4. cursor.idx \in Nat
  BY <1>2 DEF Cursors
<1>5. /\ RowAfter(row, Head(micro)) \in Rows
      /\ CursorAfter(cursor, Head(micro)) \in Cursors
      /\ appendEvent(log, cursor.idx, Head(micro)) \in Logs
  BY <1>2, <1>3, <1>4, RowAfterType, CursorAfterType, AppendEventType
<1>6. row' \in Rows /\ log' \in Logs /\ cursor' \in Cursors
  BY <1>2, <1>5, Zenon DEF Persist
<1>7. QED BY <1>1, <1>3, <1>6 DEF TypeOK

-----------------------------------------------------------------------------
(* How the executor's helpers type the control and the executor. *)

\* Moving the executor to a known place keeps its type.
LEMMA AtType ==
  ASSUME TypeOK, NEW pc \in Pcs, At(pc)
  PROVE  exec' \in Executions
BY DEF TypeOK, At, Executions

\* Returning with a terminal verdict keeps the types of executor and control.
LEMMA ReturnType ==
  ASSUME TypeOK, NEW v \in Verdicts, Return(v)
  PROVE  exec' \in Executions /\ ctl' \in Controls
BY DEF TypeOK, Return, Finished, Executions, Controls, Verdicts, Pcs

\* Tearing the child down keeps the type of the executor.
LEMMA TearDownType ==
  ASSUME TypeOK, NEW v \in Verdicts, NEW settled \in BOOLEAN, TearDown(v, settled)
  PROVE  exec' \in Executions
BY DEF TypeOK, TearDown, Executions, Verdicts, Pcs

\* A clean completion is a verdict.
LEMMA CleanCompletionType == CleanCompletion \in Verdicts
BY DEF CleanCompletion, Verdicts, TerminalStatuses, Outcomes

\* The status event of a verdict is an event.
LEMMA StatusEventType ==
  ASSUME NEW v \in Verdicts
  PROVE  StatusEvent(v) \in Events
BY DEF StatusEvent, Events, Verdicts, RunStatuses

\* Whatever ends an engine turn, its verdict is one.
LEMMA EngineVerdictType ==
  ASSUME NEW end \in TurnEnds
  PROVE  EngineVerdict(end) \in Verdicts
<1>1. terminalFor("user_stop") \in Verdicts /\ terminalFor("stalled") \in Verdicts
  BY VerdictType DEF TerminalCauses, ClockCauses
<1>2. end # "clean" => terminalFor(end) \in Verdicts
  BY VerdictType DEF TurnEnds, TerminalCauses, BudgetCauses, ErrorCauses
<1>3. QED
  BY <1>1, <1>2, CleanCompletionType, Zenon DEF EngineVerdict

\* Blocking in nextTurn, or taking a queued turn, keeps the types.
LEMMA AwaitTurnType ==
  ASSUME TypeOK, AwaitTurn
  PROVE  /\ sent' \in Seq(Events) /\ micro' \in Seq(Events) /\ mgr' \in Entries
         /\ exec' \in Executions /\ ctl' \in Controls
<1>1. PhaseEvent("waiting_input") \in Events /\ PhaseEvent("none") \in Events
  BY EventTypes DEF Phases
<1>2. CASE ctl.queued = 0
  <2>1. /\ Emit(<<PhaseEvent("waiting_input")>>)
        /\ At("waiting")
        /\ ctl' = [ctl EXCEPT !.waiting = TRUE]
    BY <1>2 DEF AwaitTurn
  <2>2. <<PhaseEvent("waiting_input")>> \in Seq(Events)
    BY <1>1
  <2>3. "waiting" \in Pcs
    BY DEF Pcs
  <2>4. ctl' \in Controls
    BY <2>1 DEF TypeOK, Controls
  <2>5. QED BY <2>1, <2>2, <2>3, <2>4, EmitType, AtType
<1>3. CASE ctl.queued # 0
  <2>1. /\ Emit(<<PhaseEvent("waiting_input"), PhaseEvent("none")>>)
        /\ At("streaming")
        /\ ctl' = [ctl EXCEPT !.queued = @ - 1]
    BY <1>3 DEF AwaitTurn
  <2>2. <<PhaseEvent("waiting_input"), PhaseEvent("none")>> \in Seq(Events)
    BY <1>1
  <2>3. "streaming" \in Pcs
    BY DEF Pcs
  <2>4. ctl' \in Controls
    BY <2>1, <1>3 DEF TypeOK, Controls
  <2>5. QED BY <2>1, <2>2, <2>3, <2>4, EmitType, AtType
<1>4. QED BY <1>2, <1>3

\* What an abort makes the executor emit is a sequence of events.
LEMMA AbortEventsType ==
  AbortEvents \in Seq(Events) /\ AbortContinues \in Seq(Events)
<1>1. PhaseEvent("none") \in Events /\ TerminalEvent("user_stop") \in Events
  BY EventTypes, TerminalEventType DEF Phases, TerminalCauses
<1>2. /\ <<>> \in Seq(Events)
      /\ <<TerminalEvent("user_stop")>> \in Seq(Events)
      /\ <<PhaseEvent("none")>> \in Seq(Events)
      /\ <<PhaseEvent("none"), TerminalEvent("user_stop")>> \in Seq(Events)
  BY <1>1
<1>3. AbortEvents \in Seq(Events)
  BY <1>2, Zenon DEF AbortEvents
<1>4. AbortContinues \in Seq(Events)
  <2>1. CASE exec.pc # "waiting"
    BY <1>2, <2>1 DEF AbortContinues
  <2>2. CASE exec.pc = "waiting" /\ IsChild
    BY <1>2, <2>2 DEF AbortContinues
  <2>3. CASE exec.pc = "waiting" /\ ~IsChild
    BY <1>2, <2>3 DEF AbortContinues
  <2>4. QED BY <2>1, <2>2, <2>3
<1>5. QED BY <1>3, <1>4

\* abort() keeps the types of control and executor.
LEMMA AbortType ==
  ASSUME TypeOK, Abort
  PROVE  exec' \in Executions /\ ctl' \in Controls
<1> DEFINE endsWait == exec.pc = "waiting" /\ ~IsChild
           pc == IF endsWait THEN "closing" ELSE IF exec.pc = "waiting" THEN "cleanup" ELSE exec.pc
           settled == exec.settled \/ Listening
           result == IF endsWait \/ (Listening /\ exec.pc # "cleanup") THEN "aborted" ELSE exec.result
           live == ctl.live /\ ~endsWait
<1>1. /\ ctl' = [ctl EXCEPT !.aborted = TRUE, !.waiting = FALSE, !.live = live]
      /\ exec' = [exec EXCEPT !.pc = pc, !.settled = settled, !.result = result]
  BY DEF Abort
<1>2. exec \in Executions /\ ctl \in Controls
  BY DEF TypeOK
<1>3. pc \in Pcs
  BY <1>2 DEF Executions, Pcs
<1>4. settled \in BOOLEAN /\ live \in BOOLEAN
  OBVIOUS
<1>5. result \in {"none"} \cup TerminalStatuses
  <2>1. exec.result \in {"none"} \cup TerminalStatuses
    BY <1>2 DEF Executions
  <2>2. "aborted" \in {"none"} \cup TerminalStatuses
    BY DEF TerminalStatuses
  <2>3. QED BY <2>1, <2>2, Zenon
<1> HIDE DEF endsWait, pc, settled, result, live
<1>6. exec' \in Executions
  BY <1>1, <1>2, <1>3, <1>4, <1>5 DEF Executions
<1>7. ctl' \in Controls
  BY <1>1, <1>2, <1>4 DEF Controls
<1>8. QED BY <1>6, <1>7

\* Detaching, after the events of before.
LEMMA DetachType ==
  ASSUME TypeOK, NEW before \in Seq(Events), Detach(before)
  PROVE  /\ sent' \in Seq(Events) /\ micro' \in Seq(Events) /\ mgr' \in Entries
         /\ exec' \in Executions /\ ctl' \in Controls
<1> DEFINE evs == before \o IF ctl.live /\ ~ctl.aborted THEN AbortEvents ELSE <<>>
<1>1. EmitAndDetach(evs)
  BY DEF Detach
<1>2. (IF ctl.live /\ ~ctl.aborted THEN AbortEvents ELSE <<>>) \in Seq(Events)
  BY AbortEventsType
<1>3. evs \in Seq(Events)
  BY <1>2, ConcatProperties
<1> HIDE DEF evs
<1>4. sent' \in Seq(Events) /\ micro' \in Seq(Events) /\ mgr' \in Entries
  BY <1>1, <1>3, EmitAndDetachType
<1>5. CASE ctl.live /\ ~ctl.aborted
  <2>1. Abort
    BY <1>5, Zenon DEF Detach
  <2>2. QED BY <2>1, <1>4, AbortType
<1>6. CASE ~(ctl.live /\ ~ctl.aborted)
  <2>1. UNCHANGED <<ctl, exec>>
    BY <1>6, Zenon DEF Detach
  <2>2. QED BY <2>1, <1>4 DEF TypeOK
<1>7. QED BY <1>5, <1>6

\* The rows the review, a re-rate and the boot write.
LEMMA RowWriteTypes ==
  ASSUME NEW r \in Rows
  PROVE  /\ \A s \in RatingStates : setRatingState(r, s) \in Rows
         /\ FlipOutcome(r) \in Rows
         /\ abortOrphanedRuns(r) \in Rows
<1>1. \A s \in RatingStates : [r EXCEPT !.rating = s] \in Rows
  BY DEF Rows
<1>2. [r EXCEPT !.outcome = "assertions_failed"] \in Rows
  BY DEF Rows, Outcomes
<1>3. [r EXCEPT !.status = "aborted", !.rating = "skipped"] \in Rows
  BY DEF Rows, RunStatuses, TerminalStatuses, RatingStates, SettledRatings
<1>4. [r EXCEPT !.rating = "skipped"] \in Rows
  BY <1>1 DEF RatingStates, SettledRatings
<1>5. \A s \in RatingStates : setRatingState(r, s) \in Rows
  BY <1>1, Zenon DEF setRatingState
<1>6. FlipOutcome(r) \in Rows
  BY <1>2, Zenon DEF FlipOutcome
<1>7. abortOrphanedRuns(r) \in Rows
  BY <1>3, <1>4, Zenon DEF abortOrphanedRuns
<1>8. QED BY <1>5, <1>6, <1>7

\* A re-rate's transition writes a row and a log.
LEMMA TransitionRerateType ==
  ASSUME TypeOK, NEW s \in RatingStates, TransitionRerate(s)
  PROVE  row' \in Rows /\ log' \in Logs
<1>1. row \in Rows /\ log \in Logs
  BY DEF TypeOK
<1>2. row' \in Rows
  BY <1>1, RowWriteTypes DEF TransitionRerate
<1>3. log.next \in Nat
  BY <1>1 DEF Logs
<1>4. RatingEvent(s) \in Events
  BY EventTypes
<1>5. appendEvent(log, log.next, RatingEvent(s)) \in Logs
  BY <1>1, <1>3, <1>4, AppendEventType
<1>6. log' = IF row.present THEN appendEvent(log, log.next, RatingEvent(s)) ELSE log
  BY DEF TransitionRerate, appendRatingEvent
<1>7. QED BY <1>1, <1>2, <1>5, <1>6, Zenon

\* An empty row, log and cursor are well-typed.
LEMMA EmptyTypes ==
  /\ NoRow \in Rows /\ NewRow \in Rows
  /\ NoLog \in Logs
  /\ ClosedCursor \in Cursors /\ [open |-> TRUE, idx |-> 0] \in Cursors
  /\ NoEntry \in Entries /\ NewEntry \in Entries
  /\ NoControl \in Controls /\ NewControl \in Controls
<1>1. NoRow \in Rows /\ NewRow \in Rows
  BY DEF NoRow, NewRow, Rows, RunStatuses, TerminalStatuses, Outcomes, Phases, RatingStates
<1>2. NoLog \in Logs
  BY DEF NoLog, Logs
<1>3. QED
  BY <1>1, <1>2 DEF ClosedCursor, Cursors, NoEntry, NewEntry, Entries, NoControl, NewControl, Controls

-----------------------------------------------------------------------------
(* Type correctness. *)

\* The initial state is well typed.
LEMMA TypeOKInit == Init => TypeOK
<1> SUFFICES ASSUME Init PROVE TypeOK
  OBVIOUS
<1>1. /\ row \in Rows /\ log \in Logs /\ cursor \in Cursors /\ mgr \in Entries /\ ctl \in Controls
  BY EmptyTypes DEF Init
<1>2. opt \in Options /\ exec \in Executions /\ rerate \in Rerates /\ hist \in Histories
  BY DEF Init, Options, Modes, Executions, Pcs, Rerates, Histories
<1>3. sent \in Seq(Events) /\ micro \in Seq(Events)
  BY DEF Init
<1>4. QED BY <1>1, <1>2, <1>3 DEF TypeOK

\* The executor's own steps.
LEMMA TypeOKExecutor ==
  ASSUME TypeOK, Executor \/ GateQueues \/ StreamStep \/ ClockStopsStream
  PROVE  TypeOK'
<1> DEFINE Stream == sent' \in Seq(Events) /\ micro' \in Seq(Events) /\ mgr' \in Entries
<1> DEFINE Rest == UNCHANGED <<opt, row, log, cursor, rerate, hist>>
<1>e. /\ StepEvent \in Events /\ RunningEvent \in Events
      /\ \A p \in Phases : PhaseEvent(p) \in Events
      /\ \A c \in TerminalCauses : TerminalEvent(c) \in Events /\ terminalFor(c) \in Verdicts
      /\ CleanCompletion \in Verdicts /\ StatusEvent(CleanCompletion) \in Events
  BY EventTypes, TerminalEventType, VerdictType, CleanCompletionType
<1>p. {"none", "queued", "starting", "waiting_input", "stopping"} \subseteq Phases
  BY DEF Phases
<1>c. {"user_stop", "stalled", "wait_expired", "provider_error", "max_cost"} \subseteq TerminalCauses
  BY DEF TerminalCauses, BudgetCauses, ClockCauses, ErrorCauses
<1>q. ASSUME Rest, Stream, exec' \in Executions, ctl' \in Controls PROVE TypeOK'
  BY <1>q DEF TypeOK
<1>u. ASSUME UNCHANGED ctl PROVE ctl' \in Controls
  BY <1>u DEF TypeOK
<1>1. CASE StartFails
  <2>1. /\ Emit(<<StepEvent, TerminalEvent("provider_error")>>)
        /\ Return(terminalFor("provider_error")) /\ Rest
    BY <1>1 DEF StartFails
  <2>2. <<StepEvent, TerminalEvent("provider_error")>> \in Seq(Events)
    BY <1>e, <1>c
  <2>3. QED BY <2>1, <2>2, <1>e, <1>c, <1>q, EmitType, ReturnType
<1>2. CASE EngineBegins
  <2>1. /\ Emit(<<PhaseEvent("starting"), RunningEvent, PhaseEvent("none")>>)
        /\ At("streaming") /\ Rest /\ UNCHANGED ctl
    BY <1>2 DEF EngineBegins
  <2>2. <<PhaseEvent("starting"), RunningEvent, PhaseEvent("none")>> \in Seq(Events)
    BY <1>e, <1>p
  <2>3. "streaming" \in Pcs BY DEF Pcs
  <2>4. QED BY <2>1, <2>2, <2>3, <1>q, <1>u, EmitType, AtType
<1>3. CASE GateGrants
  <2> DEFINE queued == IF exec.pc = "queued" THEN <<PhaseEvent("starting")>> ELSE <<>>
  <2>1. /\ Emit(queued \o LifecycleEvents) /\ Rest /\ UNCHANGED ctl
        /\ exec' = [exec EXCEPT !.pc = "streaming", !.settled = ctl.aborted,
                                !.opens = ~ctl.aborted,
                                !.result = IF ctl.aborted THEN "aborted" ELSE @]
    BY <1>3 DEF GateGrants
  <2>2. queued \in Seq(Events)
    BY <1>e, <1>p
  <2>3. LifecycleEvents \in Seq(Events)
    <3>1. <<RunningEvent, PhaseEvent("none")>> \in Seq(Events)
      BY <1>e, <1>p
    <3>2. (IF ctl.aborted THEN <<TerminalEvent("user_stop")>> ELSE <<>>) \in Seq(Events)
      BY <1>e, <1>c
    <3>3. QED BY <3>1, <3>2, ConcatProperties DEF LifecycleEvents
  <2>4. queued \o LifecycleEvents \in Seq(Events)
    BY <2>2, <2>3, ConcatProperties
  <2>5. exec' \in Executions
    <3>1. exec \in Executions /\ ctl.aborted \in BOOLEAN
      BY DEF TypeOK, Controls
    <3>2. (IF ctl.aborted THEN "aborted" ELSE exec.result) \in {"none"} \cup TerminalStatuses
      BY <3>1 DEF Executions, TerminalStatuses
    <3>3. QED BY <2>1, <3>1, <3>2 DEF Executions, Pcs
  <2> HIDE DEF queued
  <2>6. QED BY <2>1, <2>4, <2>5, <1>q, <1>u, EmitType
<1>4. CASE EngineAwaits
  BY <1>4, <1>q, AwaitTurnType DEF EngineAwaits
<1>5. CASE EngineEnds
  <2>1. PICK end \in TurnEnds : /\ Emit(<<StatusEvent(EngineVerdict(end))>>)
                                /\ Return(EngineVerdict(end))
    BY <1>5 DEF EngineEnds
  <2>2. EngineVerdict(end) \in Verdicts
    BY EngineVerdictType
  <2>3. <<StatusEvent(EngineVerdict(end))>> \in Seq(Events)
    BY <2>2, StatusEventType
  <2>4. Rest
    BY <1>5 DEF EngineEnds
  <2>5. QED BY <2>1, <2>2, <2>3, <2>4, <1>q, EmitType, ReturnType
<1>6. CASE ChildAwaits
  BY <1>6, <1>q, AwaitTurnType DEF ChildAwaits
<1>7. CASE ChildCompletes
  <2>1. /\ Emit(<<StatusEvent(CleanCompletion)>>) /\ TearDown(CleanCompletion, exec.settled)
        /\ Rest /\ UNCHANGED ctl
    BY <1>7 DEF ChildCompletes
  <2>4. exec.settled \in BOOLEAN
    BY DEF TypeOK, Executions
  <2>2. <<StatusEvent(CleanCompletion)>> \in Seq(Events)
    BY <1>e
  <2>3. QED BY <2>1, <2>2, <2>4, <1>e, <1>q, <1>u, EmitType, TearDownType
<1>8. CASE ChildSettles
  <2>1. PICK cause \in ChildStops : /\ Emit(<<TerminalEvent(cause)>>)
                                    /\ TearDown(terminalFor(cause), TRUE)
    BY <1>8 DEF ChildSettles
  <2>2. cause \in TerminalCauses
    BY <1>c DEF ChildStops
  <2>3. <<TerminalEvent(cause)>> \in Seq(Events)
    BY <2>2, <1>e
  <2>4. Rest /\ UNCHANGED ctl
    BY <1>8 DEF ChildSettles
  <2>5. QED BY <2>1, <2>2, <2>3, <2>4, <1>e, <1>q, <1>u, EmitType, TearDownType
<1>9. CASE ChildWindsDown
  <2>1. "cleanup" \in Pcs BY DEF Pcs
  <2>2. QED BY <1>9, <2>1, AtType DEF ChildWindsDown, TypeOK
<1>10. CASE ChildCleanedUp
  <2>1. "closing" \in Pcs BY DEF Pcs
  <2>2. exec' \in Executions
    BY <1>10, <2>1, AtType DEF ChildCleanedUp
  <2>3. ctl' \in Controls
    BY <1>10 DEF ChildCleanedUp, Finished, Controls, TypeOK
  <2>4. QED BY <1>10, <2>2, <2>3 DEF ChildCleanedUp, TypeOK
<1>11. CASE ClockEndsWait
  <2>1. /\ Emit(<<PhaseEvent("stopping"), TerminalEvent("wait_expired")>>)
        /\ Return(terminalFor("wait_expired")) /\ Rest
    BY <1>11 DEF ClockEndsWait
  <2>2. <<PhaseEvent("stopping"), TerminalEvent("wait_expired")>> \in Seq(Events)
    BY <1>e, <1>p, <1>c
  <2>3. QED BY <2>1, <2>2, <1>e, <1>c, <1>q, EmitType, ReturnType
<1>12. CASE ClockSettlesChild
  <2>1. Rest /\ UNCHANGED ctl
    BY <1>12 DEF ClockSettlesChild
  <2>2. CASE /\ Emit(<<TerminalEvent("stalled")>>)
             /\ exec' = [exec EXCEPT !.settled = TRUE, !.result = terminalFor("stalled").status]
    <3>1. <<TerminalEvent("stalled")>> \in Seq(Events)
      BY <1>e, <1>c
    <3>2. terminalFor("stalled").status \in TerminalStatuses
      BY <1>e, <1>c DEF Verdicts
    <3>3. exec' \in Executions
      BY <2>2, <3>2 DEF Executions, TypeOK
    <3>4. QED BY <2>1, <2>2, <3>1, <3>3, <1>q, <1>u, EmitType
  <2>3. CASE /\ Emit(<<TerminalEvent("wait_expired"), PhaseEvent("none")>>)
             /\ TearDown(terminalFor("wait_expired"), TRUE)
    <3>1. <<TerminalEvent("wait_expired"), PhaseEvent("none")>> \in Seq(Events)
      BY <1>e, <1>c, <1>p
    <3>2. QED BY <2>1, <2>3, <3>1, <1>e, <1>c, <1>q, <1>u, EmitType, TearDownType
  <2>4. QED BY <1>12, <2>2, <2>3 DEF ClockSettlesChild
<1>13. CASE GateQueues
  <2>1. Emit(<<PhaseEvent("queued")>>) /\ At("queued") /\ Rest /\ UNCHANGED ctl
    BY <1>13 DEF GateQueues
  <2>2. <<PhaseEvent("queued")>> \in Seq(Events)
    BY <1>e, <1>p
  <2>3. "queued" \in Pcs BY DEF Pcs
  <2>4. QED BY <2>1, <2>2, <2>3, <1>q, <1>u, EmitType, AtType
<1>14. CASE StreamStep
  <2>1. /\ Emit(<<StepEvent>>) /\ exec' = [exec EXCEPT !.steps = @ + 1] /\ Rest /\ UNCHANGED ctl
    BY <1>14 DEF StreamStep
  <2>2. <<StepEvent>> \in Seq(Events)
    BY <1>e
  <2>3. exec \in Executions
    BY DEF TypeOK
  <2>4. exec' \in Executions
    BY <2>1, <2>3 DEF Executions
  <2>5. QED BY <2>1, <2>2, <2>4, <1>q, <1>u, EmitType
<1>15. CASE ClockStopsStream
  <2>1. /\ Emit(<<PhaseEvent("stopping")>>) /\ exec' = [exec EXCEPT !.fired = TRUE]
        /\ Rest /\ UNCHANGED ctl
    BY <1>15 DEF ClockStopsStream
  <2>2. <<PhaseEvent("stopping")>> \in Seq(Events)
    BY <1>e, <1>p
  <2>3. exec' \in Executions
    BY <2>1 DEF Executions, TypeOK
  <2>4. QED BY <2>1, <2>2, <2>3, <1>q, <1>u, EmitType
<1>16. QED
  BY <1>1, <1>2, <1>3, <1>4, <1>5, <1>6, <1>7, <1>8, <1>9, <1>10, <1>11, <1>12, <1>13,
     <1>14, <1>15 DEF Executor

\* What the operator does keeps every type.
LEMMA TypeOKOperator ==
  ASSUME TypeOK, Start \/ Operator
  PROVE  TypeOK'
<1>e. /\ \A p \in Phases : PhaseEvent(p) \in Events
      /\ \A c \in TerminalCauses : TerminalEvent(c) \in Events
  BY EventTypes, TerminalEventType
<1>t. /\ row \in Rows /\ log \in Logs /\ cursor \in Cursors /\ ctl \in Controls
      /\ exec \in Executions /\ rerate \in Rerates /\ hist \in Histories
  BY DEF TypeOK
<1>1. CASE Start
  <2>1. PICK mode \in Modes, kind \in Backends, rated \in BOOLEAN :
          /\ opt' = [mode |-> mode, kind |-> kind, rated |-> rated]
          /\ At(IF kind = "engine" THEN "resolving" ELSE "gated")
    BY <1>1 DEF Start
  <2>2. opt' \in Options
    BY <2>1, BackendsAssumption DEF Options
  <2>3. (IF kind = "engine" THEN "resolving" ELSE "gated") \in Pcs
    BY DEF Pcs
  <2>4. exec' \in Executions
    BY <2>1, <2>3, AtType
  <2>5. /\ row' = NewRow /\ cursor' = [open |-> TRUE, idx |-> 0] /\ mgr' = NewEntry
        /\ ctl' = NewControl /\ UNCHANGED <<log, sent, micro, rerate, hist>>
    BY <1>1 DEF Start
  <2>6. QED BY <2>2, <2>4, <2>5, EmptyTypes DEF TypeOK
<1>2. CASE SubmitTurn
  <2>1. hist' = [hist EXCEPT !.posted = @ + 1] /\ UNCHANGED <<opt, row, log, cursor, rerate>>
    BY <1>2 DEF SubmitTurn
  <2>2. hist' \in Histories
    BY <2>1, <1>t DEF Histories
  <2>3. CASE ctl.waiting /\ exec.pc = "waiting"
    <3>1. Emit(<<PhaseEvent("none")>>) /\ At("streaming") /\ ctl' = [ctl EXCEPT !.waiting = FALSE]
      BY <1>2, <2>3, Zenon DEF SubmitTurn
    <3>2. <<PhaseEvent("none")>> \in Seq(Events)
      BY <1>e DEF Phases
    <3>3. "streaming" \in Pcs /\ ctl' \in Controls
      BY <3>1, <1>t DEF Pcs, Controls
    <3>4. QED BY <2>1, <2>2, <3>1, <3>2, <3>3, EmitType, AtType DEF TypeOK
  <2>4. CASE ctl.waiting /\ exec.pc # "waiting"
    <3>1. EmitNothing /\ UNCHANGED exec /\ ctl' = [ctl EXCEPT !.waiting = FALSE]
      BY <1>2, <2>4, Zenon DEF SubmitTurn
    <3>2. ctl' \in Controls
      BY <3>1, <1>t DEF Controls
    <3>3. QED BY <2>1, <2>2, <3>1, <3>2 DEF TypeOK, EmitNothing
  <2>5. CASE ~ctl.waiting
    <3>1. EmitNothing /\ UNCHANGED exec /\ ctl' = [ctl EXCEPT !.queued = @ + 1]
      BY <1>2, <2>5, Zenon DEF SubmitTurn
    <3>2. ctl' \in Controls
      BY <3>1, <1>t DEF Controls
    <3>3. QED BY <2>1, <2>2, <3>1, <3>2 DEF TypeOK, EmitNothing
  <2>6. QED BY <2>3, <2>4, <2>5
<1>3. CASE Stop
  <2>1. /\ Emit(AbortEvents \o AbortContinues) /\ Abort
        /\ UNCHANGED <<opt, row, log, cursor, rerate, hist>>
    BY <1>3 DEF Stop
  <2>2. AbortEvents \o AbortContinues \in Seq(Events)
    BY AbortEventsType, ConcatProperties
  <2>3. sent' \in Seq(Events) /\ micro' \in Seq(Events) /\ mgr' \in Entries
    BY <2>1, <2>2, EmitType
  <2>4. QED BY <2>1, <2>3, AbortType DEF TypeOK
<1>4. CASE End
  <2>1. /\ Detach(<<TerminalEvent("session_ended")>>)
        /\ row' = [row EXCEPT !.ended = TRUE] /\ hist' = [hist EXCEPT !.ended = TRUE]
        /\ UNCHANGED <<opt, log, cursor, rerate>>
    BY <1>4 DEF End
  <2>2. <<TerminalEvent("session_ended")>> \in Seq(Events)
    BY <1>e DEF TerminalCauses
  <2>3. row' \in Rows /\ hist' \in Histories
    BY <2>1, <1>t DEF Rows, Histories
  <2>4. QED BY <2>1, <2>2, <2>3, DetachType DEF TypeOK
<1>5. CASE Delete
  <2>1. row' \in Rows /\ log' \in Logs /\ cursor' \in Cursors
    BY <1>5, <1>t, EmptyTypes, Zenon DEF Delete, DeleteRow
  <2>2. UNCHANGED <<opt, rerate, hist>>
    BY <1>5 DEF Delete
  <2>3. CASE mgr.active
    <3>1. Detach(<<>>)
      BY <1>5, <2>3, Zenon DEF Delete
    <3>2. <<>> \in Seq(Events)
      OBVIOUS
    <3>3. QED BY <2>1, <2>2, <3>1, <3>2, DetachType DEF TypeOK
  <2>4. CASE ~mgr.active
    <3>1. EmitNothing /\ UNCHANGED <<ctl, exec>>
      BY <1>5, <2>4, Zenon DEF Delete
    <3>2. QED BY <2>1, <2>2, <3>1 DEF TypeOK, EmitNothing
  <2>5. QED BY <2>3, <2>4
<1>6. CASE Prune
  BY <1>6, EmptyTypes DEF Prune, DeleteRow, TypeOK
<1>7. CASE RerateBegins
  <2>1. /\ rerate' = [posted |-> rerate.posted + 1, open |-> rerate.open + 1]
        /\ TransitionRerate("rating")
        /\ UNCHANGED <<opt, cursor, sent, micro, mgr, ctl, exec>>
    BY <1>7 DEF RerateBegins
  <2>2. PICK torn \in BOOLEAN : hist' = [hist EXCEPT !.torn = torn]
    BY <1>7 DEF RerateBegins
  <2>3. rerate' \in Rerates /\ hist' \in Histories
    BY <2>1, <2>2, <1>t DEF Rerates, Histories
  <2>4. "rating" \in RatingStates
    BY DEF RatingStates
  <2>5. row' \in Rows /\ log' \in Logs
    BY <2>1, <2>4, TransitionRerateType
  <2>6. QED BY <2>1, <2>3, <2>5 DEF TypeOK
<1>8. QED BY <1>1, <1>2, <1>3, <1>4, <1>5, <1>6, <1>7 DEF Operator

\* The review, a re-rate's end and a crash keep every type.
LEMMA TypeOKReview ==
  ASSUME TypeOK, Review \/ RerateSettles \/ CrashRestart
  PROVE  TypeOK'
<1>r. {"rating", "rated", "failed", "skipped"} \subseteq RatingStates
  BY DEF RatingStates, SettledRatings
<1>e. \A s \in RatingStates : RatingEvent(s) \in Events
  BY EventTypes
<1>t. /\ row \in Rows /\ log \in Logs /\ exec \in Executions
      /\ rerate \in Rerates /\ hist \in Histories
  BY DEF TypeOK
<1>1. CASE ReviewBegins
  <2> DEFINE rated == IF opt.rated THEN setRatingState(row, "rating") ELSE row
  <2>1. rated \in Rows
    BY <1>t, <1>r, RowWriteTypes
  <2>2. row' = FlipOutcome(rated) \/ row' = rated
    BY <1>1 DEF ReviewBegins
  <2> HIDE DEF rated
  <2>3. row' \in Rows
    BY <2>1, <2>2, RowWriteTypes
  <2>4. sent' \in Seq(Events) /\ micro' \in Seq(Events) /\ mgr' \in Entries
    <3>1. <<RatingEvent("rating")>> \in Seq(Events)
      BY <1>e, <1>r
    <3>2. CASE opt.rated
      <4>1. Emit(<<RatingEvent("rating")>>)
        BY <1>1, <3>2, Zenon DEF ReviewBegins
      <4>2. QED BY <3>1, <4>1, EmitType
    <3>3. CASE ~opt.rated
      <4>1. EmitNothing
        BY <1>1, <3>3, Zenon DEF ReviewBegins
      <4>2. QED BY <4>1 DEF EmitNothing, TypeOK
    <3>4. QED BY <3>2, <3>3
  <2>5. At("grading") /\ "grading" \in Pcs /\ UNCHANGED <<opt, log, cursor, ctl, rerate, hist>>
    BY <1>1 DEF ReviewBegins, Pcs
  <2>6. QED BY <2>3, <2>4, <2>5, AtType DEF TypeOK
<1>2. CASE ReviewSettles
  <2>1. PICK s \in Landings : row' = setRatingState(row, s) /\ Emit(<<RatingEvent(s)>>)
    BY <1>2 DEF ReviewSettles
  <2>2. s \in RatingStates
    BY <1>r DEF Landings
  <2>3. row' \in Rows /\ <<RatingEvent(s)>> \in Seq(Events)
    BY <2>1, <2>2, <1>t, <1>e, RowWriteTypes
  <2>4. sent' \in Seq(Events) /\ micro' \in Seq(Events) /\ mgr' \in Entries
    BY <2>1, <2>3, EmitType
  <2>5. At("done") /\ "done" \in Pcs /\ UNCHANGED <<opt, log, cursor, ctl, rerate, hist>>
    BY <1>2 DEF ReviewSettles, Pcs
  <2>6. QED BY <2>3, <2>4, <2>5, AtType DEF TypeOK
<1>3. CASE RerateSettles
  <2>1. PICK s \in {"rated", "failed"} : TransitionRerate(s)
    BY <1>3 DEF RerateSettles
  <2>2. s \in RatingStates
    BY <1>r
  <2>3. row' \in Rows /\ log' \in Logs
    BY <2>1, <2>2, TransitionRerateType
  <2>4. rerate' \in Rerates
    <3>1. rerate.open > 0 /\ rerate' = [rerate EXCEPT !.open = @ - 1]
      BY <1>3 DEF RerateSettles
    <3>2. QED BY <3>1, <1>t DEF Rerates
  <2>5. UNCHANGED <<opt, cursor, sent, micro, mgr, ctl, exec, hist>>
    BY <1>3 DEF RerateSettles
  <2>6. QED BY <2>3, <2>4, <2>5 DEF TypeOK
<1>4. CASE CrashRestart
  <2>1. /\ row' = abortOrphanedRuns(row) /\ cursor' = ClosedCursor /\ micro' = <<>>
        /\ mgr' = NoEntry /\ ctl' = NoControl /\ UNCHANGED <<opt, log, sent>>
        /\ exec' = [exec EXCEPT !.pc = "down"] /\ rerate' = [rerate EXCEPT !.open = 0]
    BY <1>4 DEF CrashRestart
  <2>2. PICK torn \in BOOLEAN : hist' = [hist EXCEPT !.crashed = TRUE, !.torn = torn]
    BY <1>4 DEF CrashRestart
  <2>3. exec' \in Executions /\ rerate' \in Rerates /\ hist' \in Histories
    BY <2>1, <2>2, <1>t DEF Executions, Rerates, Histories, Pcs
  <2>4. row' \in Rows
    BY <2>1, <1>t, RowWriteTypes
  <2>5. micro' \in Seq(Events)
    BY <2>1
  <2>6. QED BY <2>1, <2>3, <2>4, <2>5, EmptyTypes DEF TypeOK
<1>5. QED BY <1>1, <1>2, <1>3, <1>4 DEF Review

\* Every step keeps every type.
LEMMA TypeOKStep == TypeOK /\ [Next]_vars => TypeOK'
<1> SUFFICES ASSUME TypeOK, [Next]_vars PROVE TypeOK'
  OBVIOUS
<1>1. CASE UNCHANGED vars
  BY <1>1 DEF TypeOK, vars
<1>2. CASE Next
  BY <1>2, PersistType, TypeOKExecutor, TypeOKOperator, TypeOKReview DEF Next
<1>3. QED BY <1>1, <1>2

\* The row, the log, the manager's entry and the executor only ever hold values
\* of their types, for all backends, turns and re-rates.
THEOREM TypeCorrect == Spec => []TypeOK
BY TypeOKInit, TypeOKStep, PTL DEF Spec

-----------------------------------------------------------------------------
(* The verdict.  TerminalNeverReopens and AssertionsNeverMask are not       *)
(* inductive: what protects the row is what is still on its way to it.      *)

\* Before its first model call the executor has said nothing about the end; an
\* engine has not before it returns.
Early(pc) == \/ pc \in {"resolving", "gated", "queued"}
             \/ IsEngine /\ pc \in {"streaming", "waiting"}

\* No event of evs is a verdict.
NoVerdict(evs) == \A i \in DOMAIN evs : ~IsTerminalStatus(evs[i])

\* The events evs may follow a row that says status: no outcome of the
\* assertions, and neither a live status nor, from an engine, another verdict
\* after a verdict.
Sound(evs, status, engine) ==
  \A i \in DOMAIN evs : IsStatus(evs[i]) =>
    /\ evs[i].outcome # "assertions_failed"
    /\ engine \/ ~Terminal(evs[i].val) =>
         ~Terminal(status) /\ \A j \in 1..(i - 1) : ~IsTerminalStatus(evs[j])

VerdictInv ==
  /\ exec.pc = "none" => ~row.present /\ micro = <<>> /\ ~ctl.live /\ ~mgr.active
  /\ IsEngine => exec.pc \notin {"gated", "queued", "cleanup"}
  /\ mgr.active /\ Early(exec.pc) => ~Terminal(row.status) /\ NoVerdict(micro)
  /\ Sound(micro, row.status, IsEngine)
  /\ AssertionsNeverMask

\* Which events are a status, which a verdict.
LEMMA EventKinds ==
  /\ ~IsStatus(StepEvent)
  /\ \A p \in Phases : ~IsStatus(PhaseEvent(p))
  /\ \A s \in RatingStates : ~IsStatus(RatingEvent(s))
  /\ IsStatus(RunningEvent) /\ ~IsTerminalStatus(RunningEvent)
  /\ RunningEvent.outcome = "none"
BY DEF IsStatus, IsTerminalStatus, Terminal, TerminalStatuses, StepEvent, PhaseEvent,
       RatingEvent, RunningEvent, StatusEvent

\* The event of a verdict.
LEMMA VerdictEvent ==
  ASSUME NEW v \in Verdicts, v.outcome # "assertions_failed"
  PROVE  /\ IsStatus(StatusEvent(v)) /\ IsTerminalStatus(StatusEvent(v))
         /\ Terminal(StatusEvent(v).val)
         /\ StatusEvent(v).outcome # "assertions_failed"
BY DEF IsStatus, IsTerminalStatus, Terminal, StatusEvent, Verdicts

\* The event of a terminal cause is a terminal status event.
LEMMA CauseEvent ==
  ASSUME NEW cause \in TerminalCauses
  PROVE  /\ IsStatus(TerminalEvent(cause)) /\ IsTerminalStatus(TerminalEvent(cause))
         /\ Terminal(TerminalEvent(cause).val)
         /\ TerminalEvent(cause).outcome # "assertions_failed"
BY VerdictType, VerdictEvent DEF TerminalEvent

\* Events without a status may follow anything.
LEMMA SoundQuietly ==
  ASSUME NEW evs \in Seq(Events), \A i \in DOMAIN evs : ~IsStatus(evs[i]),
         NEW status, NEW engine \in BOOLEAN
  PROVE  Sound(evs, status, engine) /\ NoVerdict(evs)
BY DEF Sound, NoVerdict, IsTerminalStatus

\* A macrotask that emits evs keeps VerdictInv, when evs is sound, the row keeps
\* its status, and the executor does not go back before its verdict.
LEMMA EmitKeepsVerdict ==
  ASSUME TypeOK, VerdictInv, Quiet, NEW evs \in Seq(Events), Emit(evs),
         UNCHANGED opt, row'.status = row.status, AssertionsNeverMask',
         mgr.active => Sound(evs, row.status, IsEngine),
         exec'.pc # "none",
         IsEngine => exec'.pc \notin {"gated", "queued", "cleanup"},
         Early(exec'.pc) => Early(exec.pc) /\ NoVerdict(evs)
  PROVE  VerdictInv'
<1>1. IsEngine' = IsEngine
  BY DEF IsEngine
<1>2. CASE mgr.active
  <2>1. micro' = evs
    <3>1. micro' = micro \o evs /\ micro = <<>>
      BY <1>2, Zenon DEF Emit, Quiet
    <3>2. QED BY <3>1
  <2>2. Sound(micro', row'.status, IsEngine')
    BY <2>1, <1>1, <1>2
  <2>3. Early(exec.pc)' => ~Terminal(row'.status) /\ NoVerdict(micro')
    <3>1. Early(exec.pc)' => Early(exec.pc) /\ NoVerdict(evs)
      BY <1>1 DEF Early
    <3>2. Early(exec.pc) => ~Terminal(row.status)
      BY <1>2 DEF VerdictInv
    <3>3. QED BY <3>1, <3>2, <2>1
  <2>4. QED BY <1>1, <2>2, <2>3 DEF VerdictInv, Sound, NoVerdict
<1>3. CASE ~mgr.active
  <2>1. micro' = <<>> /\ ~mgr'.active
    <3>1. UNCHANGED <<micro, mgr>>
      BY <1>3, Zenon DEF Emit, EmitNothing
    <3>2. QED BY <3>1, <1>3 DEF Quiet
  <2>2. Sound(micro', row'.status, IsEngine')
    BY <2>1 DEF Sound
  <2>3. QED BY <1>1, <2>1, <2>2 DEF VerdictInv, Sound
<1>4. QED BY <1>2, <1>3

\* The same for a macrotask that emits evs and drops the entry.
LEMMA DetachKeepsVerdict ==
  ASSUME TypeOK, VerdictInv, Quiet, NEW evs \in Seq(Events), EmitAndDetach(evs),
         UNCHANGED opt, AssertionsNeverMask',
         Sound(evs, row'.status, IsEngine),
         exec'.pc # "none",
         IsEngine => exec'.pc \notin {"gated", "queued", "cleanup"}
  PROVE  VerdictInv'
<1>1. IsEngine' = IsEngine
  BY DEF IsEngine
<1>2. ~mgr'.active
  BY DEF EmitAndDetach, NoEntry
<1>3. micro' = evs \/ micro' = <<>>
  <2>1. micro' = micro \o evs \/ micro' = micro
    BY Zenon DEF EmitAndDetach
  <2>2. QED BY <2>1 DEF Quiet
<1>4. Sound(micro', row'.status, IsEngine')
  <2>1. Sound(<<>>, row'.status, IsEngine)
    BY DEF Sound
  <2>2. QED BY <1>1, <1>3, <2>1
<1>5. QED BY <1>1, <1>2, <1>4 DEF VerdictInv, Sound

\* One status among other events only has to fit the row.
LEMMA SoundOnce ==
  ASSUME NEW evs \in Seq(Events), NEW k \in DOMAIN evs,
         \A i \in DOMAIN evs : i # k => ~IsStatus(evs[i]),
         evs[k].outcome # "assertions_failed",
         NEW status, NEW engine \in BOOLEAN,
         engine \/ ~Terminal(evs[k].val) => ~Terminal(status)
  PROVE  Sound(evs, status, engine)
<1>1. \A i \in DOMAIN evs : \A j \in 1..(i - 1) : j \in DOMAIN evs
  OBVIOUS
<1>2. QED BY <1>1 DEF Sound, IsTerminalStatus

\* Events of the executor without a status.
LEMMA QuietStep ==
  ASSUME TypeOK, VerdictInv, Quiet, NEW evs \in Seq(Events), Emit(evs),
         \A i \in DOMAIN evs : ~IsStatus(evs[i]),
         UNCHANGED <<opt, row>>,
         exec'.pc # "none",
         IsEngine => exec'.pc \notin {"gated", "queued", "cleanup"},
         Early(exec'.pc) => Early(exec.pc)
  PROVE  VerdictInv'
<1>1. Sound(evs, row.status, IsEngine) /\ NoVerdict(evs)
  BY SoundQuietly DEF IsEngine
<1>2. AssertionsNeverMask'
  BY DEF VerdictInv, AssertionsNeverMask
<1>3. QED BY <1>1, <1>2, EmitKeepsVerdict

\* The verdict v, with other events around it, that takes the executor past it.
LEMMA VerdictStep ==
  ASSUME TypeOK, VerdictInv, Quiet, NEW evs \in Seq(Events), Emit(evs),
         NEW k \in DOMAIN evs, \A i \in DOMAIN evs : i # k => ~IsStatus(evs[i]),
         evs[k].outcome # "assertions_failed", Terminal(evs[k].val),
         UNCHANGED <<opt, row>>,
         IsEngine => Early(exec.pc),
         exec'.pc # "none",
         IsEngine => exec'.pc \notin {"gated", "queued", "cleanup"},
         ~Early(exec'.pc)
  PROVE  VerdictInv'
<1>1. mgr.active => Sound(evs, row.status, IsEngine)
  <2>1. mgr.active /\ IsEngine => ~Terminal(row.status)
    BY DEF VerdictInv
  <2>2. QED BY <2>1, SoundOnce DEF IsEngine
<1>2. AssertionsNeverMask'
  BY DEF VerdictInv, AssertionsNeverMask
<1>3. QED BY <1>1, <1>2, EmitKeepsVerdict

\* The kinds of executor.
LEMMA Kinds == ~(IsEngine /\ IsChild)
BY DEF IsEngine, IsChild

\* Waiting for a turn emits no status, so the verdict invariant survives it.
LEMMA AwaitTurnVerdict ==
  ASSUME TypeOK, VerdictInv, Quiet, AwaitTurn, exec.pc = "streaming", UNCHANGED <<opt, row>>
  PROVE  VerdictInv'
<1>e. PhaseEvent("waiting_input") \in Events /\ PhaseEvent("none") \in Events
  BY EventTypes DEF Phases
<1>k. ~IsStatus(PhaseEvent("waiting_input")) /\ ~IsStatus(PhaseEvent("none"))
  BY EventKinds DEF Phases
<1>x. exec \in Executions
  BY DEF TypeOK
<1>1. CASE ctl.queued = 0
  <2> DEFINE evs == <<PhaseEvent("waiting_input")>>
  <2>1. Emit(evs) /\ At("waiting")
    BY <1>1 DEF AwaitTurn
  <2>2. evs \in Seq(Events) /\ \A i \in DOMAIN evs : ~IsStatus(evs[i])
    BY <1>e, <1>k
  <2>3. exec'.pc = "waiting"
    BY <2>1, <1>x DEF At, Executions
  <2> HIDE DEF evs
  <2>4. QED BY <2>1, <2>2, <2>3, QuietStep DEF Early
<1>2. CASE ctl.queued # 0
  <2> DEFINE evs == <<PhaseEvent("waiting_input"), PhaseEvent("none")>>
  <2>1. Emit(evs) /\ At("streaming")
    BY <1>2 DEF AwaitTurn
  <2>2. evs \in Seq(Events) /\ \A i \in DOMAIN evs : ~IsStatus(evs[i])
    BY <1>e, <1>k
  <2>3. exec'.pc = "streaming"
    BY <2>1, <1>x DEF At, Executions
  <2> HIDE DEF evs
  <2>4. QED BY <2>1, <2>2, <2>3, QuietStep DEF Early
<1>3. QED BY <1>1, <1>2

\* The engine's verdict never is the assertions' outcome.
LEMMA EngineVerdictOutcome ==
  ASSUME NEW end \in TurnEnds
  PROVE  EngineVerdict(end).outcome # "assertions_failed"
<1>1. /\ terminalFor("user_stop").outcome # "assertions_failed"
      /\ terminalFor("stalled").outcome # "assertions_failed"
  BY VerdictType DEF TerminalCauses, ClockCauses
<1>2. end # "clean" => terminalFor(end).outcome # "assertions_failed"
  BY VerdictType DEF TurnEnds, TerminalCauses, BudgetCauses, ErrorCauses
<1>3. CleanCompletion.outcome # "assertions_failed"
  BY DEF CleanCompletion
<1>4. QED BY <1>1, <1>2, <1>3, Zenon DEF EngineVerdict

\* The executor's own steps keep VerdictInv.
LEMMA VerdictExecutor ==
  ASSUME TypeOK, VerdictInv, Executor \/ GateQueues \/ StreamStep \/ ClockStopsStream
  PROVE  VerdictInv'
<1>e. /\ StepEvent \in Events /\ RunningEvent \in Events
      /\ \A p \in Phases : PhaseEvent(p) \in Events /\ ~IsStatus(PhaseEvent(p))
      /\ \A c \in TerminalCauses : /\ TerminalEvent(c) \in Events
                                   /\ TerminalEvent(c).outcome # "assertions_failed"
                                   /\ Terminal(TerminalEvent(c).val)
      /\ ~IsStatus(StepEvent)
  BY EventTypes, TerminalEventType, EventKinds, CauseEvent
<1>p. {"none", "queued", "starting", "waiting_input", "stopping"} \subseteq Phases
  BY DEF Phases
<1>c. {"user_stop", "stalled", "wait_expired", "provider_error", "max_cost"} \subseteq TerminalCauses
  BY DEF TerminalCauses, BudgetCauses, ClockCauses, ErrorCauses
<1>x. exec \in Executions
  BY DEF TypeOK
<1>v. /\ IsEngine => exec.pc \notin {"gated", "queued", "cleanup"}
      /\ mgr.active /\ Early(exec.pc) => ~Terminal(row.status)
  BY DEF VerdictInv
<1>1. CASE StartFails
  <2> DEFINE evs == <<StepEvent, TerminalEvent("provider_error")>>
  <2>1. Emit(evs) /\ Return(terminalFor("provider_error")) /\ UNCHANGED <<opt, row>> /\ Quiet
        /\ exec.pc \in {"resolving", "gated"}
    BY <1>1 DEF StartFails
  <2>2. /\ evs \in Seq(Events) /\ 2 \in DOMAIN evs /\ \A i \in DOMAIN evs : i # 2 => ~IsStatus(evs[i])
        /\ evs[2].outcome # "assertions_failed" /\ Terminal(evs[2].val)
    BY <1>e, <1>c
  <2>3. exec'.pc = "closing"
    BY <2>1, <1>x DEF Return, Executions
  <2> HIDE DEF evs
  <2>4. QED BY <2>1, <2>2, <2>3, VerdictStep DEF Early
<1>2. CASE EngineBegins
  <2> DEFINE evs == <<PhaseEvent("starting"), RunningEvent, PhaseEvent("none")>>
  <2>1. Emit(evs) /\ At("streaming") /\ UNCHANGED <<opt, row>> /\ Quiet /\ exec.pc = "resolving"
    BY <1>2 DEF EngineBegins
  <2>2. /\ evs \in Seq(Events) /\ 2 \in DOMAIN evs /\ \A i \in DOMAIN evs : i # 2 => ~IsStatus(evs[i])
        /\ evs[2].outcome # "assertions_failed" /\ NoVerdict(evs)
    BY <1>e, <1>p, EventKinds DEF NoVerdict, IsTerminalStatus
  <2>3. exec'.pc = "streaming"
    BY <2>1, <1>x DEF At, Executions
  <2> HIDE DEF evs
  <2>4. mgr.active => Sound(evs, row.status, IsEngine)
    BY <2>1, <2>2, <1>v, SoundOnce DEF Early, IsEngine
  <2>5. AssertionsNeverMask'
    BY <2>1 DEF VerdictInv, AssertionsNeverMask
  <2>6. QED BY <2>1, <2>2, <2>3, <2>4, <2>5, EmitKeepsVerdict DEF Early
<1>3. CASE GateGrants
  <2> DEFINE stopped == IF ctl.aborted THEN <<TerminalEvent("user_stop")>> ELSE <<>>
             queued == IF exec.pc = "queued" THEN <<PhaseEvent("starting")>> ELSE <<>>
             evs == queued \o (<<RunningEvent, PhaseEvent("none")>> \o stopped)
  <2>1. Emit(evs) /\ UNCHANGED <<opt, row>> /\ Quiet /\ exec.pc \in {"gated", "queued"}
    BY <1>3 DEF GateGrants, LifecycleEvents
  <2>2. exec'.pc = "streaming"
    BY <1>3, <1>x DEF GateGrants, Executions
  <2>3. ~IsEngine
    BY <2>1, <1>v
  <2>4. /\ RunningEvent \in Events /\ RunningEvent.outcome # "assertions_failed"
        /\ IsStatus(RunningEvent) /\ ~IsTerminalStatus(RunningEvent)
        /\ ~IsStatus(PhaseEvent("none")) /\ ~IsStatus(PhaseEvent("starting"))
        /\ PhaseEvent("none") \in Events /\ PhaseEvent("starting") \in Events
        /\ TerminalEvent("user_stop") \in Events
        /\ TerminalEvent("user_stop").outcome # "assertions_failed"
        /\ Terminal(TerminalEvent("user_stop").val)
    BY <1>e, <1>p, <1>c, EventKinds
  <2>5. evs \in Seq(Events)
    <3>1. stopped \in Seq(Events) /\ queued \in Seq(Events)
          /\ <<RunningEvent, PhaseEvent("none")>> \in Seq(Events)
      BY <2>4
    <3>2. QED BY <3>1, ConcatProperties
  <2>6. ~Terminal(row.status) => Sound(evs, row.status, FALSE)
    <3> DEFINE s == PhaseEvent("starting")
               r == RunningEvent
               n == PhaseEvent("none")
               t == TerminalEvent("user_stop")
    <3>1. evs = <<r, n>> \/ evs = <<s, r, n>> \/ evs = <<r, n, t>> \/ evs = <<s, r, n, t>>
      <4>1. queued = <<>> \/ queued = <<s>>
        OBVIOUS
      <4>2. stopped = <<>> \/ stopped = <<t>>
        OBVIOUS
      <4>3. evs = queued \o (<<r, n>> \o stopped)
        OBVIOUS
      <4>e. s \in Events /\ r \in Events /\ n \in Events /\ t \in Events
        BY <2>4
      <4> HIDE DEF queued, stopped, evs, s, r, n, t
      <4>a. <<s>> \o <<r, n>> = <<s, r, n>>
        BY <4>e, ConcatTuples
      <4>b. <<r, n>> \o <<t>> = <<r, n, t>>
        BY <4>e, ConcatTuples
      <4>c. <<s>> \o <<r, n, t>> = <<s, r, n, t>>
        BY <4>e, ConcatFour, Zenon
      <4>4. CASE queued = <<>> /\ stopped = <<>>
        BY <4>3, <4>4, <4>a, <4>b, <4>c
      <4>5. CASE queued = <<s>> /\ stopped = <<>>
        BY <4>3, <4>5, <4>a, <4>b, <4>c
      <4>6. CASE queued = <<>> /\ stopped = <<t>>
        BY <4>3, <4>6, <4>a, <4>b, <4>c
      <4>7. CASE queued = <<s>> /\ stopped = <<t>>
        BY <4>3, <4>7, <4>a, <4>b, <4>c
      <4>8. QED BY <4>1, <4>2, <4>4, <4>5, <4>6, <4>7
    <3>2. /\ ~IsStatus(s) /\ ~IsStatus(n) /\ ~IsTerminalStatus(s) /\ ~IsTerminalStatus(n)
          /\ r.outcome # "assertions_failed" /\ ~IsTerminalStatus(r)
          /\ t.outcome # "assertions_failed" /\ Terminal(t.val)
      BY <2>4 DEF IsTerminalStatus
    <3> HIDE DEF evs, s, r, n, t
    <3>3. SUFFICES ASSUME ~Terminal(row.status), NEW i \in DOMAIN evs, IsStatus(evs[i])
                   PROVE  /\ evs[i].outcome # "assertions_failed"
                          /\ \/ Terminal(evs[i].val)
                             \/ \A j \in 1..(i - 1) : ~IsTerminalStatus(evs[j])
      BY DEF Sound
    <3>4. CASE evs = <<r, n>>
      BY <3>2, <3>3, <3>4
    <3>5. CASE evs = <<s, r, n>>
      BY <3>2, <3>3, <3>5
    <3>6. CASE evs = <<r, n, t>>
      BY <3>2, <3>3, <3>6
    <3>7. CASE evs = <<s, r, n, t>>
      BY <3>2, <3>3, <3>7
    <3>8. QED BY <3>1, <3>4, <3>5, <3>6, <3>7
  <2>7. mgr.active => Sound(evs, row.status, IsEngine)
    BY <2>1, <2>3, <2>6, <1>v DEF Early, IsEngine
  <2>8. AssertionsNeverMask'
    BY <2>1 DEF VerdictInv, AssertionsNeverMask
  <2> HIDE DEF evs
  <2>9. QED BY <2>1, <2>2, <2>3, <2>5, <2>7, <2>8, EmitKeepsVerdict DEF Early
<1>4. CASE EngineAwaits
  BY <1>4, AwaitTurnVerdict DEF EngineAwaits
<1>5. CASE EngineEnds
  <2>1. PICK end \in TurnEnds : /\ Emit(<<StatusEvent(EngineVerdict(end))>>)
                                /\ Return(EngineVerdict(end))
    BY <1>5 DEF EngineEnds
  <2> DEFINE evs == <<StatusEvent(EngineVerdict(end))>>
  <2>2. UNCHANGED <<opt, row>> /\ Quiet /\ exec.pc = "streaming" /\ IsEngine
    BY <1>5 DEF EngineEnds
  <2>3. /\ evs \in Seq(Events) /\ 1 \in DOMAIN evs /\ \A i \in DOMAIN evs : i # 1 => ~IsStatus(evs[i])
        /\ evs[1].outcome # "assertions_failed" /\ Terminal(evs[1].val)
    BY EngineVerdictType, EngineVerdictOutcome, VerdictEvent, StatusEventType
  <2>4. exec'.pc = "closing"
    BY <2>1, <1>x DEF Return, Executions
  <2>5. Emit(evs)
    BY <2>1
  <2> HIDE DEF evs
  <2>6. QED BY <2>5, <2>2, <2>3, <2>4, VerdictStep DEF Early
<1>6. CASE ChildAwaits
  BY <1>6, AwaitTurnVerdict DEF ChildAwaits
<1>7. CASE ChildCompletes
  <2> DEFINE evs == <<StatusEvent(CleanCompletion)>>
  <2>1. Emit(evs) /\ TearDown(CleanCompletion, exec.settled) /\ UNCHANGED <<opt, row>> /\ Quiet /\ IsChild
    BY <1>7 DEF ChildCompletes
  <2>2. /\ evs \in Seq(Events) /\ 1 \in DOMAIN evs /\ \A i \in DOMAIN evs : i # 1 => ~IsStatus(evs[i])
        /\ evs[1].outcome # "assertions_failed" /\ Terminal(evs[1].val)
    <3>1. CleanCompletion.outcome # "assertions_failed"
      BY DEF CleanCompletion
    <3>2. QED BY <3>1, CleanCompletionType, VerdictEvent, StatusEventType
  <2>3. exec'.pc = "cleanup"
    BY <2>1, <1>x DEF TearDown, Executions
  <2> HIDE DEF evs
  <2>4. QED BY <2>1, <2>2, <2>3, Kinds, VerdictStep DEF Early
<1>8. CASE ChildSettles
  <2>1. PICK cause \in ChildStops : Emit(<<TerminalEvent(cause)>>) /\ TearDown(terminalFor(cause), TRUE)
    BY <1>8 DEF ChildSettles
  <2> DEFINE evs == <<TerminalEvent(cause)>>
  <2>2. UNCHANGED <<opt, row>> /\ Quiet /\ IsChild
    BY <1>8 DEF ChildSettles
  <2>3. /\ evs \in Seq(Events) /\ 1 \in DOMAIN evs /\ \A i \in DOMAIN evs : i # 1 => ~IsStatus(evs[i])
        /\ evs[1].outcome # "assertions_failed" /\ Terminal(evs[1].val)
    BY <1>e, <1>c DEF ChildStops
  <2>4. exec'.pc = "cleanup"
    BY <2>1, <1>x DEF TearDown, Executions
  <2>5. Emit(evs)
    BY <2>1
  <2> HIDE DEF evs
  <2>6. QED BY <2>5, <2>2, <2>3, <2>4, Kinds, VerdictStep DEF Early
<1>9. CASE ChildWindsDown
  <2>1. exec'.pc = "cleanup"
    BY <1>9, <1>x DEF ChildWindsDown, At, Executions
  <2>2. UNCHANGED <<opt, row, micro, mgr>> /\ IsChild
    BY <1>9 DEF ChildWindsDown
  <2>3. QED BY <2>1, <2>2, Kinds DEF VerdictInv, Early, Sound, NoVerdict, AssertionsNeverMask, IsEngine
<1>10. CASE ChildCleanedUp
  <2>1. exec'.pc = "closing"
    BY <1>10, <1>x DEF ChildCleanedUp, At, Executions
  <2>2. UNCHANGED <<opt, row, micro, mgr>>
    BY <1>10 DEF ChildCleanedUp
  <2>3. QED BY <2>1, <2>2 DEF VerdictInv, Early, Sound, NoVerdict, AssertionsNeverMask, IsEngine
<1>11. CASE ClockEndsWait
  <2> DEFINE evs == <<PhaseEvent("stopping"), TerminalEvent("wait_expired")>>
  <2>1. Emit(evs) /\ Return(terminalFor("wait_expired")) /\ UNCHANGED <<opt, row>> /\ Quiet
        /\ exec.pc = "waiting" /\ IsEngine
    BY <1>11 DEF ClockEndsWait
  <2>2. /\ evs \in Seq(Events) /\ 2 \in DOMAIN evs /\ \A i \in DOMAIN evs : i # 2 => ~IsStatus(evs[i])
        /\ evs[2].outcome # "assertions_failed" /\ Terminal(evs[2].val)
    BY <1>e, <1>c, <1>p
  <2>3. exec'.pc = "closing"
    BY <2>1, <1>x DEF Return, Executions
  <2> HIDE DEF evs
  <2>4. QED BY <2>1, <2>2, <2>3, VerdictStep DEF Early
<1>12. CASE ClockSettlesChild
  <2>1. UNCHANGED <<opt, row>> /\ Quiet /\ IsChild /\ exec.pc \in {"streaming", "waiting"}
    BY <1>12 DEF ClockSettlesChild
  <2>2. CASE Emit(<<TerminalEvent("stalled")>>) /\ exec'.pc = exec.pc
    <3> DEFINE evs == <<TerminalEvent("stalled")>>
    <3>1. /\ evs \in Seq(Events) /\ 1 \in DOMAIN evs /\ \A i \in DOMAIN evs : i # 1 => ~IsStatus(evs[i])
          /\ evs[1].outcome # "assertions_failed" /\ Terminal(evs[1].val)
      BY <1>e, <1>c
    <3>2. Emit(evs)
      BY <2>2
    <3> HIDE DEF evs
    <3>3. QED BY <3>1, <3>2, <2>1, <2>2, Kinds, VerdictStep DEF Early
  <2>3. CASE Emit(<<TerminalEvent("wait_expired"), PhaseEvent("none")>>) /\ exec'.pc = "cleanup"
    <3> DEFINE evs == <<TerminalEvent("wait_expired"), PhaseEvent("none")>>
    <3>1. /\ evs \in Seq(Events) /\ 1 \in DOMAIN evs /\ \A i \in DOMAIN evs : i # 1 => ~IsStatus(evs[i])
          /\ evs[1].outcome # "assertions_failed" /\ Terminal(evs[1].val)
      BY <1>e, <1>c, <1>p
    <3>2. Emit(evs)
      BY <2>3
    <3> HIDE DEF evs
    <3>3. QED BY <3>1, <3>2, <2>1, <2>3, Kinds, VerdictStep DEF Early
  <2>4. QED BY <1>12, <1>x, <2>2, <2>3 DEF ClockSettlesChild, TearDown, Executions
<1>13. CASE GateQueues
  <2> DEFINE evs == <<PhaseEvent("queued")>>
  <2>1. Emit(evs) /\ At("queued") /\ UNCHANGED <<opt, row>> /\ Quiet /\ exec.pc = "gated"
    BY <1>13 DEF GateQueues
  <2>2. evs \in Seq(Events) /\ \A i \in DOMAIN evs : ~IsStatus(evs[i])
    BY <1>e, <1>p
  <2>3. exec'.pc = "queued"
    BY <2>1, <1>x DEF At, Executions
  <2> HIDE DEF evs
  <2>4. QED BY <2>1, <2>2, <2>3, <1>v, QuietStep DEF Early
<1>14. CASE StreamStep
  <2> DEFINE evs == <<StepEvent>>
  <2>1. Emit(evs) /\ UNCHANGED <<opt, row>> /\ Quiet /\ exec.pc = "streaming"
    BY <1>14 DEF StreamStep
  <2>2. evs \in Seq(Events) /\ \A i \in DOMAIN evs : ~IsStatus(evs[i])
    BY <1>e
  <2>3. exec'.pc = exec.pc
    BY <1>14, <1>x DEF StreamStep, Executions
  <2> HIDE DEF evs
  <2>4. QED BY <2>1, <2>2, <2>3, QuietStep
<1>15. CASE ClockStopsStream
  <2> DEFINE evs == <<PhaseEvent("stopping")>>
  <2>1. Emit(evs) /\ UNCHANGED <<opt, row>> /\ Quiet /\ exec.pc = "streaming"
    BY <1>15 DEF ClockStopsStream
  <2>2. evs \in Seq(Events) /\ \A i \in DOMAIN evs : ~IsStatus(evs[i])
    BY <1>e, <1>p
  <2>3. exec'.pc = exec.pc
    BY <1>15, <1>x DEF ClockStopsStream, Executions
  <2> HIDE DEF evs
  <2>4. QED BY <2>1, <2>2, <2>3, QuietStep
<1>16. QED
  BY <1>1, <1>2, <1>3, <1>4, <1>5, <1>6, <1>7, <1>8, <1>9, <1>10, <1>11, <1>12, <1>13,
     <1>14, <1>15 DEF Executor

\* What an abort emits, by what the executor is doing.
LEMMA AbortShape ==
  /\ AbortEvents = <<>> \/ (Listening /\ AbortEvents = <<TerminalEvent("user_stop")>>)
  /\ exec.pc # "waiting" => AbortContinues = <<>>
  /\ exec.pc = "waiting" /\ IsChild => AbortContinues = <<PhaseEvent("none")>>
  /\ exec.pc = "waiting" /\ ~IsChild =>
       AbortContinues = <<PhaseEvent("none"), TerminalEvent("user_stop")>>
  /\ ~Listening => AbortEvents = <<>>
<1>1. Listening => AbortEvents = <<TerminalEvent("user_stop")>>
  BY Zenon DEF AbortEvents
<1>2. ~Listening => AbortEvents = <<>>
  BY Zenon DEF AbortEvents
<1>3. exec.pc # "waiting" => AbortContinues = <<>>
  BY DEF AbortContinues
<1>4. exec.pc = "waiting" /\ IsChild => AbortContinues = <<PhaseEvent("none")>>
  BY DEF AbortContinues
<1>5. exec.pc = "waiting" /\ ~IsChild =>
        AbortContinues = <<PhaseEvent("none"), TerminalEvent("user_stop")>>
  BY DEF AbortContinues
<1>6. QED BY <1>1, <1>2, <1>3, <1>4, <1>5

\* Where an abort leaves the executor.
LEMMA AbortPc ==
  ASSUME TypeOK, Abort
  PROVE  /\ exec.pc = "waiting" /\ ~IsChild => exec'.pc = "closing"
         /\ exec.pc = "waiting" /\ IsChild => exec'.pc = "cleanup"
         /\ exec.pc # "waiting" => exec'.pc = exec.pc
BY DEF Abort, TypeOK, Executions

\* A stop keeps VerdictInv.
LEMMA VerdictStop ==
  ASSUME TypeOK, VerdictInv, Stop
  PROVE  VerdictInv'
<1> DEFINE t == TerminalEvent("user_stop")
           n == PhaseEvent("none")
           evs == AbortEvents \o AbortContinues
<1>1. Emit(evs) /\ Abort /\ UNCHANGED <<opt, row>> /\ Quiet /\ ctl.live
  BY DEF Stop
<1>2. evs \in Seq(Events)
  BY AbortEventsType, ConcatProperties
<1>e. /\ t \in Events /\ t.outcome # "assertions_failed" /\ Terminal(t.val)
      /\ n \in Events /\ ~IsStatus(n)
  BY EventTypes, TerminalEventType, EventKinds, CauseEvent DEF TerminalCauses, Phases
<1>a. AssertionsNeverMask'
  BY <1>1 DEF VerdictInv, AssertionsNeverMask
<1>c. <<t>> \o <<n>> = <<t, n>>
  BY <1>e, ConcatTuples, Zenon
<1>3. CASE exec.pc = "waiting" /\ ~IsChild
  <2>1. evs = <<n, t>>
    <3>1. AbortEvents = <<>> /\ AbortContinues = <<n, t>>
      BY <1>3, AbortShape DEF Listening
    <3> HIDE DEF n, t
    <3>2. QED BY <3>1
  <2>2. exec'.pc = "closing"
    BY <1>1, <1>3, AbortPc
  <2> HIDE DEF t, n
  <2>3. /\ 2 \in DOMAIN evs /\ \A i \in DOMAIN evs : i # 2 => ~IsStatus(evs[i])
        /\ evs[2].outcome # "assertions_failed" /\ Terminal(evs[2].val)
    BY <1>e, <2>1
  <2>4. Early(exec.pc) <=> IsEngine
    BY <1>3 DEF Early
  <2> HIDE DEF evs
  <2>5. QED BY <1>1, <1>2, <2>2, <2>3, <2>4, VerdictStep DEF Early
<1>4. CASE IsChild /\ Listening
  <2>1. evs = <<t>> \/ evs = <<t, n>>
    <3>1. AbortEvents = <<t>>
      BY <1>4, Zenon DEF AbortEvents
    <3>2. AbortContinues = <<>> \/ AbortContinues = <<n>>
      BY <1>4, AbortShape
    <3> HIDE DEF n, t
    <3>3. CASE AbortContinues = <<>>
      BY <3>1, <3>3
    <3>4. CASE AbortContinues = <<n>>
      BY <3>1, <3>4, <1>c
    <3>5. QED BY <3>2, <3>3, <3>4
  <2>2. exec'.pc \in {"streaming", "cleanup"}
    BY <1>1, <1>4, AbortPc DEF Listening
  <2> HIDE DEF t, n
  <2>3. /\ 1 \in DOMAIN evs /\ \A i \in DOMAIN evs : i # 1 => ~IsStatus(evs[i])
        /\ evs[1].outcome # "assertions_failed" /\ Terminal(evs[1].val)
    <3>1. CASE evs = <<t>>
      BY <1>e, <3>1
    <3>2. CASE evs = <<t, n>>
      BY <1>e, <3>2
    <3>3. QED BY <2>1, <3>1, <3>2
  <2> HIDE DEF evs
  <2>4. QED BY <1>1, <1>2, <1>4, <2>2, <2>3, Kinds, VerdictStep DEF Early
<1>5. CASE IsChild /\ ~Listening
  <2>1. evs = <<>> \/ evs = <<n>>
    <3>1. AbortEvents = <<>> /\ (AbortContinues = <<>> \/ AbortContinues = <<n>>)
      BY <1>5, AbortShape
    <3> HIDE DEF n
    <3>2. CASE AbortContinues = <<>>
      BY <3>1, <3>2
    <3>3. CASE AbortContinues = <<n>>
      BY <3>1, <3>3
    <3>4. QED BY <3>1, <3>2, <3>3
  <2> HIDE DEF n
  <2>2. \A i \in DOMAIN evs : ~IsStatus(evs[i])
    <3>1. CASE evs = <<>>
      BY <3>1
    <3>2. CASE evs = <<n>>
      BY <3>2, <1>e
    <3>3. QED BY <2>1, <3>1, <3>2
  <2>3. exec'.pc = exec.pc \/ exec'.pc = "cleanup"
    BY <1>1, <1>5, AbortPc
  <2>4. exec'.pc # "none"
    BY <1>1, <2>3 DEF VerdictInv
  <2> HIDE DEF evs
  <2>5. QED BY <1>1, <1>2, <1>5, <2>2, <2>3, <2>4, Kinds, QuietStep DEF Early
<1>6. CASE ~IsChild /\ exec.pc # "waiting"
  <2>1. evs = <<>>
    <3>1. AbortEvents = <<>> /\ AbortContinues = <<>>
      BY <1>6, AbortShape DEF Listening
    <3>2. QED BY <3>1
  <2>2. \A i \in DOMAIN evs : ~IsStatus(evs[i])
    BY <2>1
  <2>3. exec'.pc = exec.pc
    BY <1>1, <1>6, AbortPc
  <2>4. /\ exec'.pc # "none"
        /\ IsEngine => exec'.pc \notin {"gated", "queued", "cleanup"}
    BY <1>1, <2>3 DEF VerdictInv
  <2> HIDE DEF evs
  <2>5. QED BY <1>1, <1>2, <2>2, <2>3, <2>4, QuietStep
<1>7. QED BY <1>3, <1>4, <1>5, <1>6

\* Verdicts in a row are sound for the child, which only promises that they are
\* not the assertions'.
LEMMA SoundVerdicts ==
  ASSUME NEW evs \in Seq(Events), NEW status,
         \A i \in DOMAIN evs : Terminal(evs[i].val) /\ evs[i].outcome # "assertions_failed"
  PROVE  Sound(evs, status, FALSE)
BY DEF Sound

\* Where a detach leaves the executor.
LEMMA DetachPc ==
  ASSUME TypeOK, VerdictInv, NEW before, Detach(before), row.present \/ mgr.active
  PROVE  /\ exec'.pc # "none"
         /\ IsEngine => exec'.pc \notin {"gated", "queued", "cleanup"}
<1>1. exec.pc # "none" /\ (IsEngine => exec.pc \notin {"gated", "queued", "cleanup"})
  BY DEF VerdictInv
<1>2. exec' = exec \/ Abort
  BY Zenon DEF Detach
<1>3. CASE Abort
  BY <1>1, <1>3, AbortPc, Kinds
<1>4. QED BY <1>1, <1>2, <1>3

\* POST /end and DELETE keep VerdictInv.
LEMMA VerdictEnd ==
  ASSUME TypeOK, VerdictInv, End
  PROVE  VerdictInv'
<1> DEFINE e == TerminalEvent("session_ended")
           t == TerminalEvent("user_stop")
           abort == IF ctl.live /\ ~ctl.aborted THEN AbortEvents ELSE <<>>
           evs == <<e>> \o abort
<1>1. /\ Detach(<<e>>) /\ UNCHANGED opt /\ Quiet
      /\ row' = [row EXCEPT !.ended = TRUE] /\ ~Terminal(row.status) /\ row.present
  BY DEF End, CanEnd
<1>2. EmitAndDetach(evs)
  BY <1>1 DEF Detach
<1>3. row \in Rows
  BY DEF TypeOK
<1>4. row'.status = row.status /\ row'.outcome = row.outcome
  BY <1>1, <1>3 DEF Rows
<1>5. AssertionsNeverMask'
  BY <1>4 DEF VerdictInv, AssertionsNeverMask
<1>6. /\ e \in Events /\ e.outcome # "assertions_failed" /\ Terminal(e.val)
      /\ t \in Events /\ t.outcome # "assertions_failed" /\ Terminal(t.val)
  BY TerminalEventType, CauseEvent DEF TerminalCauses
<1>7. abort = <<>> \/ (IsChild /\ abort = <<t>>)
  BY AbortShape DEF Listening
<1>8. /\ abort = <<>> => evs = <<e>>
      /\ abort = <<t>> => evs = <<e, t>>
  <2>1. abort = <<>> => evs = <<e>>
    <3> HIDE DEF e, t, abort
    <3>1. QED OBVIOUS
  <2>2. abort = <<t>> => evs = <<e, t>>
    <3>1. evs = <<e>> \o abort
      OBVIOUS
    <3> HIDE DEF e, t, abort, evs
    <3>2. <<e>> \o <<t>> = <<e, t>>
      BY <1>6, ConcatTuples, Zenon
    <3>3. QED BY <3>1, <3>2
  <2>3. QED BY <2>1, <2>2
<1> HIDE DEF e, t, abort, evs
<1>9. evs \in Seq(Events) /\ Sound(evs, row'.status, IsEngine)
  <2>1. CASE evs = <<e>>
    <3>1. evs \in Seq(Events) /\ 1 \in DOMAIN evs /\ \A i \in DOMAIN evs : i # 1 => ~IsStatus(evs[i])
      BY <1>6, <2>1
    <3>2. QED BY <1>1, <1>4, <1>6, <2>1, <3>1, SoundOnce DEF IsEngine
  <2>2. CASE IsChild /\ evs = <<e, t>>
    <3>1. /\ evs \in Seq(Events)
          /\ \A i \in DOMAIN evs : Terminal(evs[i].val) /\ evs[i].outcome # "assertions_failed"
      BY <1>6, <2>2
    <3>2. IsEngine = FALSE
      BY <2>2, Kinds DEF IsEngine
    <3>3. QED BY <3>1, <3>2, SoundVerdicts
  <2>3. QED BY <1>7, <1>8, <2>1, <2>2
<1>10. QED BY <1>1, <1>2, <1>5, <1>9, DetachPc, DetachKeepsVerdict

\* DELETE: the row goes; the loop it aborts adds at most its own verdict.
LEMMA VerdictDelete ==
  ASSUME TypeOK, VerdictInv, Delete
  PROVE  VerdictInv'
<1> DEFINE t == TerminalEvent("user_stop")
           abort == IF ctl.live /\ ~ctl.aborted THEN AbortEvents ELSE <<>>
<1>1. Quiet /\ UNCHANGED opt /\ (row.present \/ mgr.active)
  BY DEF Delete
<1>2. row' = NoRow \/ row' = row
  BY Zenon DEF Delete, DeleteRow
<1>3. AssertionsNeverMask' /\ (Terminal(row'.status) => Terminal(row.status))
  BY <1>2 DEF VerdictInv, AssertionsNeverMask, NoRow, Terminal, TerminalStatuses
<1>4. CASE mgr.active
  <2>1. Detach(<<>>)
    BY <1>4, Zenon DEF Delete
  <2>2. EmitAndDetach(<<>> \o abort)
    BY <2>1 DEF Detach
  <2>3. abort = <<>> \/ (IsChild /\ abort = <<t>>)
    BY AbortShape DEF Listening
  <2>4. t \in Events /\ t.outcome # "assertions_failed" /\ Terminal(t.val)
    BY TerminalEventType, CauseEvent DEF TerminalCauses
  <2> HIDE DEF t, abort
  <2>5. abort \in Seq(Events) /\ <<>> \o abort = abort
    <3>1. abort \in Seq(Events)
      <4>1. CASE abort = <<>>
        BY <4>1
      <4>2. CASE abort = <<t>>
        BY <4>2, <2>4
      <4>3. QED BY <2>3, <4>1, <4>2
    <3>2. QED BY <3>1, ConcatEmptySeq
  <2>6. Sound(abort, row'.status, IsEngine)
    <3>1. CASE abort = <<>>
      BY <3>1 DEF Sound
    <3>2. CASE IsChild /\ abort = <<t>>
      <4>1. \A i \in DOMAIN abort : Terminal(abort[i].val) /\ abort[i].outcome # "assertions_failed"
        BY <2>4, <3>2
      <4>2. IsEngine = FALSE
        BY <3>2, Kinds DEF IsEngine
      <4>3. QED BY <2>5, <4>1, <4>2, SoundVerdicts
    <3>3. QED BY <2>3, <3>1, <3>2
  <2>7. EmitAndDetach(abort)
    BY <2>2, <2>5
  <2>8. QED BY <1>1, <1>3, <2>1, <2>5, <2>6, <2>7, DetachPc, DetachKeepsVerdict
<1>5. CASE ~mgr.active
  <2>1. UNCHANGED <<exec, micro, mgr>> /\ micro = <<>>
    BY <1>1, <1>5, Zenon DEF Delete, EmitNothing, Quiet
  <2>2. Sound(micro', row'.status, IsEngine') /\ exec'.pc # "none"
    BY <1>1, <2>1 DEF Sound, VerdictInv
  <2>3. QED BY <1>1, <1>3, <1>5, <2>1, <2>2 DEF VerdictInv, Sound, IsEngine
<1>6. QED BY <1>4, <1>5

\* The boot, and a prune, keep VerdictInv: nothing is on its way to the row.
LEMMA VerdictPrune ==
  ASSUME TypeOK, VerdictInv, Prune
  PROVE  VerdictInv'
<1>1. row' = NoRow /\ UNCHANGED <<opt, micro, mgr, ctl, exec>> /\ micro = <<>> /\ row.present
  BY DEF Prune, DeleteRow, Quiet, CanPrune
<1>2. ~Terminal(NoRow.status) /\ NoRow.outcome # "assertions_failed"
  BY DEF NoRow, Terminal, TerminalStatuses
<1>3. QED
  BY <1>1, <1>2 DEF VerdictInv, AssertionsNeverMask, Sound, NoVerdict, Early, IsEngine

\* An orphaned row: a settled verdict is not touched.
LEMMA AbortOrphanedKeeps ==
  ASSUME NEW r \in Rows
  PROVE  /\ abortOrphanedRuns(r).outcome = r.outcome
         /\ abortOrphanedRuns(r).present = r.present
         /\ Terminal(r.status) => abortOrphanedRuns(r).status = r.status
         /\ r.status = "completed" => abortOrphanedRuns(r).status = "completed"
<1>1. "running" \notin TerminalStatuses /\ "completed" # "running"
  BY DEF TerminalStatuses
<1>2. CASE r.present /\ r.status = "running"
  <2>1. abortOrphanedRuns(r) = [r EXCEPT !.status = "aborted", !.rating = "skipped"]
    BY <1>2, Zenon DEF abortOrphanedRuns
  <2>2. QED BY <1>1, <1>2, <2>1 DEF Rows, Terminal
<1>3. CASE ~(r.present /\ r.status = "running")
  <2>1. abortOrphanedRuns(r) = [r EXCEPT !.rating = "skipped"] \/ abortOrphanedRuns(r) = r
    BY <1>3, Zenon DEF abortOrphanedRuns
  <2>2. QED BY <2>1 DEF Rows
<1>4. QED BY <1>2, <1>3

\* A crash drops every queued event and entry; the boot only adds a verdict.
LEMMA VerdictCrash ==
  ASSUME TypeOK, VerdictInv, CrashRestart
  PROVE  VerdictInv'
<1>1. /\ row' = abortOrphanedRuns(row) /\ micro' = <<>> /\ mgr' = NoEntry
      /\ exec' = [exec EXCEPT !.pc = "down"] /\ UNCHANGED opt
  BY DEF CrashRestart
<1>2. row \in Rows /\ exec \in Executions
  BY DEF TypeOK
<1>3. exec'.pc = "down" /\ ~mgr'.active
  BY <1>1, <1>2 DEF Executions, NoEntry
<1>4. AssertionsNeverMask'
  BY <1>1, <1>2, AbortOrphanedKeeps DEF VerdictInv, AssertionsNeverMask
<1>5. QED BY <1>1, <1>3, <1>4 DEF VerdictInv, Sound

\* A start, a turn, a review and a re-rate keep VerdictInv.
LEMMA VerdictStart ==
  ASSUME TypeOK, VerdictInv, Start
  PROVE  VerdictInv'
<1>1. PICK mode \in Modes, kind \in Backends, rated \in BOOLEAN :
        /\ opt' = [mode |-> mode, kind |-> kind, rated |-> rated]
        /\ At(IF kind = "engine" THEN "resolving" ELSE "gated")
  BY DEF Start
<1>2. row' = NewRow /\ micro' = micro /\ micro = <<>>
  BY DEF Start, VerdictInv
<1>3. exec \in Executions
  BY DEF TypeOK
<1>4. exec'.pc = IF kind = "engine" THEN "resolving" ELSE "gated"
  BY <1>1, <1>3 DEF At, Executions
<1>5. IsEngine' <=> kind = "engine"
  BY <1>1 DEF IsEngine
<1>6. ~Terminal(row'.status) /\ row'.outcome = "none"
  BY <1>2 DEF NewRow, NoRow, Terminal, TerminalStatuses
<1>7. NoVerdict(micro)' /\ Sound(micro', row'.status, IsEngine')
  BY <1>2 DEF NoVerdict, Sound
<1>8. QED BY <1>4, <1>5, <1>6, <1>7 DEF VerdictInv, AssertionsNeverMask, NoVerdict, Sound

\* A posted turn emits phases only.
LEMMA VerdictTurn ==
  ASSUME TypeOK, VerdictInv, SubmitTurn
  PROVE  VerdictInv'
<1>1. UNCHANGED <<opt, row>> /\ Quiet /\ ctl.live
  BY DEF SubmitTurn
<1>2. CASE ctl.waiting /\ exec.pc = "waiting"
  <2> DEFINE evs == <<PhaseEvent("none")>>
  <2>1. Emit(evs) /\ At("streaming")
    BY <1>2, Zenon DEF SubmitTurn
  <2>2. evs \in Seq(Events) /\ \A i \in DOMAIN evs : ~IsStatus(evs[i])
    BY EventTypes, EventKinds DEF Phases
  <2>3. exec'.pc = "streaming"
    BY <2>1 DEF At, TypeOK, Executions
  <2> HIDE DEF evs
  <2>4. QED BY <1>1, <1>2, <2>1, <2>2, <2>3, QuietStep DEF Early
<1>3. CASE ~(ctl.waiting /\ exec.pc = "waiting")
  <2>1. UNCHANGED <<sent, micro, mgr, exec>>
    BY <1>3, Zenon DEF SubmitTurn, EmitNothing
  <2>2. exec.pc # "none"
    BY <1>1 DEF VerdictInv
  <2>3. QED BY <1>1, <2>1, <2>2 DEF VerdictInv, AssertionsNeverMask, Sound, NoVerdict, Early, IsEngine
<1>4. QED BY <1>2, <1>3

\* What the review and a re-rate write leaves the verdict alone, but for a clean
\* completion the assertions turn down.
LEMMA ReviewWrites ==
  ASSUME NEW r \in Rows
  PROVE  /\ \A s \in RatingStates : /\ setRatingState(r, s).status = r.status
                                    /\ setRatingState(r, s).outcome = r.outcome
                                    /\ setRatingState(r, s).present = r.present
         /\ FlipOutcome(r).status = r.status
         /\ FlipOutcome(r).present = r.present
         /\ \/ FlipOutcome(r).outcome = r.outcome
            \/ /\ r.status = "completed" /\ r.outcome = "completed"
               /\ FlipOutcome(r).outcome = "assertions_failed"
<1>1. ASSUME NEW s \in RatingStates
      PROVE  /\ setRatingState(r, s).status = r.status
             /\ setRatingState(r, s).outcome = r.outcome
             /\ setRatingState(r, s).present = r.present
  <2>1. setRatingState(r, s) = [r EXCEPT !.rating = s] \/ setRatingState(r, s) = r
    BY Zenon DEF setRatingState
  <2>2. QED BY <2>1 DEF Rows
<1>2. \/ FlipOutcome(r) = r
      \/ /\ r.status = "completed" /\ r.outcome = "completed"
         /\ FlipOutcome(r) = [r EXCEPT !.outcome = "assertions_failed"]
  BY Zenon DEF FlipOutcome
<1>3. QED BY <1>1, <1>2 DEF Rows

\* The row after the review's first write.
LEMMA ReviewBeginsRow ==
  ASSUME TypeOK, ReviewBegins
  PROVE  /\ row'.status = row.status /\ row'.present = row.present
         /\ \/ row'.outcome = row.outcome
            \/ /\ row.status = "completed" /\ row.outcome = "completed"
               /\ row'.outcome = "assertions_failed"
<1> DEFINE rated == IF opt.rated THEN setRatingState(row, "rating") ELSE row
<1>1. row' = FlipOutcome(rated) \/ row' = rated
  BY DEF ReviewBegins
<1>2. row \in Rows /\ "rating" \in RatingStates
  BY DEF TypeOK, RatingStates
<1>3. rated = setRatingState(row, "rating") \/ rated = row
  OBVIOUS
<1> HIDE DEF rated
<1>4. rated \in Rows /\ rated.status = row.status /\ rated.outcome = row.outcome
      /\ rated.present = row.present
  BY <1>2, <1>3, RowWriteTypes, ReviewWrites
<1>5. QED BY <1>1, <1>4, ReviewWrites

\* The review moves the rating and, after a clean completion, the outcome.
LEMMA VerdictReview ==
  ASSUME TypeOK, VerdictInv, Review
  PROVE  VerdictInv'
<1>r. {"rating", "rated", "failed", "skipped"} \subseteq RatingStates
  BY DEF RatingStates, SettledRatings
<1>e. \A s \in RatingStates : RatingEvent(s) \in Events /\ ~IsStatus(RatingEvent(s))
  BY EventTypes, EventKinds
<1>x. exec \in Executions /\ row \in Rows
  BY DEF TypeOK
<1>1. CASE ReviewBegins
  <2>1. Quiet /\ UNCHANGED opt /\ At("grading") /\ exec.pc = "closing"
    BY <1>1 DEF ReviewBegins
  <2>2. exec'.pc = "grading"
    BY <2>1, <1>x DEF At, Executions
  <2>3. row'.status = row.status /\ AssertionsNeverMask'
    BY <1>1, ReviewBeginsRow DEF VerdictInv, AssertionsNeverMask
  <2>4. CASE opt.rated
    <3> DEFINE evs == <<RatingEvent("rating")>>
    <3>1. Emit(evs)
      BY <1>1, <2>4, Zenon DEF ReviewBegins
    <3>2. evs \in Seq(Events) /\ \A i \in DOMAIN evs : ~IsStatus(evs[i])
      BY <1>r, <1>e
    <3> HIDE DEF evs
    <3>3. Sound(evs, row.status, IsEngine)
      BY <3>2, SoundQuietly DEF IsEngine
    <3>4. QED BY <2>1, <2>2, <2>3, <3>1, <3>2, <3>3, EmitKeepsVerdict DEF Early
  <2>5. CASE ~opt.rated
    <3>1. UNCHANGED <<micro, mgr>>
      BY <1>1, <2>5, Zenon DEF ReviewBegins, EmitNothing
    <3>2. QED BY <2>1, <2>2, <2>3, <3>1 DEF VerdictInv, Sound, NoVerdict, Early, IsEngine
  <2>6. QED BY <2>4, <2>5
<1>2. CASE ReviewSettles
  <2>1. PICK s \in Landings : row' = setRatingState(row, s) /\ Emit(<<RatingEvent(s)>>)
    BY <1>2 DEF ReviewSettles
  <2> DEFINE evs == <<RatingEvent(s)>>
  <2>2. Quiet /\ UNCHANGED opt /\ At("done")
    BY <1>2 DEF ReviewSettles
  <2>3. s \in RatingStates
    BY <1>r DEF Landings
  <2>4. row'.status = row.status /\ row'.outcome = row.outcome
    BY <2>1, <2>3, <1>x, ReviewWrites
  <2>5. exec'.pc = "done"
    BY <2>2, <1>x DEF At, Executions
  <2>6. AssertionsNeverMask'
    BY <2>4 DEF VerdictInv, AssertionsNeverMask
  <2>7. Emit(evs) /\ evs \in Seq(Events) /\ \A i \in DOMAIN evs : ~IsStatus(evs[i])
    BY <2>1, <2>3, <1>e
  <2> HIDE DEF evs
  <2>8. Sound(evs, row.status, IsEngine)
    BY <2>7, SoundQuietly DEF IsEngine
  <2>9. QED BY <2>2, <2>4, <2>5, <2>6, <2>7, <2>8, EmitKeepsVerdict DEF Early
<1>3. QED BY <1>1, <1>2 DEF Review

\* The row after a step of a re-rate.
LEMMA RerateRow ==
  ASSUME TypeOK, RerateBegins \/ RerateSettles
  PROVE  row'.status = row.status /\ row'.outcome = row.outcome /\ row'.present = row.present
<1>1. PICK s \in {"rating", "rated", "failed"} : row' = setRatingState(row, s)
  BY DEF RerateBegins, RerateSettles, TransitionRerate
<1>2. s \in RatingStates /\ row \in Rows
  BY DEF RatingStates, SettledRatings, TypeOK
<1>3. QED BY <1>1, <1>2, ReviewWrites

\* A re-rate moves the rating of row and log only.
LEMMA VerdictRerate ==
  ASSUME TypeOK, VerdictInv, RerateBegins \/ RerateSettles
  PROVE  VerdictInv'
<1>1. UNCHANGED <<opt, micro, mgr, ctl, exec>>
  BY DEF RerateBegins, RerateSettles
<1>2. QED
  BY <1>1, RerateRow DEF VerdictInv, AssertionsNeverMask, Sound, NoVerdict, Early, IsEngine

\* What a persisted event does to the verdict of the row.
LEMMA RowAfterFields ==
  ASSUME NEW r \in Rows, NEW e \in Events
  PROVE  /\ RowAfter(r, e).present = r.present
         /\ IsStatus(e) => RowAfter(r, e).status = e.val
         /\ IsTerminalStatus(e) => RowAfter(r, e).outcome = e.outcome
         /\ ~IsTerminalStatus(e) => RowAfter(r, e).outcome = r.outcome
         /\ ~IsStatus(e) => RowAfter(r, e).status = r.status
<1>1. CASE IsTerminalStatus(e)
  <2>1. RowAfter(r, e) = finalize(r, e)
    BY <1>1, Zenon DEF RowAfter
  <2>2. QED BY <1>1, <2>1 DEF finalize, Rows, IsTerminalStatus
<1>2. CASE ~IsTerminalStatus(e) /\ IsStatus(e)
  <2>1. RowAfter(r, e) = [r EXCEPT !.status = e.val]
    BY <1>2, Zenon DEF RowAfter
  <2>2. QED BY <1>2, <2>1 DEF Rows
<1>3. CASE ~IsTerminalStatus(e) /\ ~IsStatus(e)
  <2>1. RowAfter(r, e) = [r EXCEPT !.phase = e.val] \/ RowAfter(r, e) = r
    BY <1>3, Zenon DEF RowAfter
  <2>2. QED BY <1>3, <2>1 DEF Rows
<1>4. QED BY <1>1, <1>2, <1>3

\* The row after a microtask is the row, or what onEvent makes of it.
LEMMA PersistRow ==
  ASSUME TypeOK, Persist
  PROVE  row' = row \/ row' = RowAfter(row, Head(micro))
BY Zenon DEF Persist

\* The queued event reaches the row: the invariant knew which one it was.
LEMMA VerdictPersist ==
  ASSUME TypeOK, VerdictInv, Persist
  PROVE  VerdictInv'
<1> DEFINE h == Head(micro)
<1>1. /\ micro # <<>> /\ micro' = Tail(micro) /\ UNCHANGED <<opt, mgr, ctl, exec>>
      /\ micro \in Seq(Events) /\ row \in Rows
  BY DEF Persist, TypeOK
<1>2. /\ 1 \in DOMAIN micro /\ h = micro[1] /\ h \in Events
      /\ \A i \in DOMAIN micro' : i + 1 \in DOMAIN micro /\ micro'[i] = micro[i + 1]
      /\ \A i \in DOMAIN micro' : \A j \in 1..(i - 1) : micro'[j] = micro[j + 1] /\ j \in DOMAIN micro'
  BY <1>1
<1> HIDE DEF h
<1>3. row' = row \/ row' = RowAfter(row, h)
  BY PersistRow DEF h
<1>s. Sound(micro, row.status, IsEngine)
  BY DEF VerdictInv
<1>4. Terminal(row'.status) => Terminal(row.status) \/ IsTerminalStatus(h)
  BY <1>1, <1>2, <1>3, RowAfterFields DEF IsTerminalStatus
<1>5. Sound(micro', row'.status, IsEngine)
  <2>1. SUFFICES ASSUME NEW i \in DOMAIN micro', IsStatus(micro'[i])
                 PROVE  /\ micro'[i].outcome # "assertions_failed"
                        /\ IsEngine \/ ~Terminal(micro'[i].val) =>
                             /\ ~Terminal(row'.status)
                             /\ \A j \in 1..(i - 1) : ~IsTerminalStatus(micro'[j])
    BY DEF Sound
  <2>2. i + 1 \in DOMAIN micro /\ micro'[i] = micro[i + 1] /\ i \in Nat
    BY <1>1, <1>2
  <2>3. /\ micro[i + 1].outcome # "assertions_failed"
        /\ IsEngine \/ ~Terminal(micro[i + 1].val) =>
             /\ ~Terminal(row.status)
             /\ \A j \in 1..i : ~IsTerminalStatus(micro[j])
    <3>1. (i + 1) - 1 = i
      BY <2>2
    <3>2. QED BY <2>1, <2>2, <3>1, <1>s DEF Sound
  <2>4. ASSUME \A j \in 1..i : ~IsTerminalStatus(micro[j])
        PROVE  /\ ~IsTerminalStatus(h)
               /\ \A j \in 1..(i - 1) : ~IsTerminalStatus(micro'[j])
    <3>1. 1 \in 1..i /\ \A j \in 1..(i - 1) : j + 1 \in 1..i
      BY <1>1, <2>1, <2>2
    <3>2. QED BY <1>2, <2>1, <2>4, <3>1
  <2>5. QED BY <1>4, <2>2, <2>3, <2>4
<1>6. NoVerdict(micro) => ~IsTerminalStatus(h) /\ NoVerdict(micro')
  BY <1>2 DEF NoVerdict
<1>7. AssertionsNeverMask'
  <2>1. SUFFICES ASSUME row' = RowAfter(row, h), row'.outcome = "assertions_failed"
                 PROVE  row'.status = "completed"
    BY <1>3 DEF VerdictInv, AssertionsNeverMask
  <2>2. ~IsTerminalStatus(h)
    BY <1>1, <1>2, <1>s, <2>1, RowAfterFields DEF Sound, IsTerminalStatus
  <2>3. row.status = "completed"
    BY <1>1, <1>2, <2>1, <2>2, RowAfterFields DEF VerdictInv, AssertionsNeverMask
  <2>4. ~IsStatus(h)
    BY <1>2, <1>s, <2>2, <2>3 DEF Sound, IsTerminalStatus, Terminal, TerminalStatuses
  <2>5. QED BY <1>1, <1>2, <2>1, <2>3, <2>4, RowAfterFields
<1>8. IsEngine' = IsEngine
  BY <1>1 DEF IsEngine
<1>9. exec.pc # "none"
  BY <1>1 DEF VerdictInv
<1>10. mgr.active /\ Early(exec.pc) => ~Terminal(row'.status) /\ NoVerdict(micro')
  BY <1>4, <1>6 DEF VerdictInv
<1>11. QED
  BY <1>1, <1>5, <1>7, <1>8, <1>9, <1>10 DEF VerdictInv, Sound, NoVerdict, Early

-----------------------------------------------------------------------------
\* The verdict invariant holds before the run is started.
LEMMA VerdictInit == Init => VerdictInv
<1> SUFFICES ASSUME Init PROVE VerdictInv
  OBVIOUS
<1>1. /\ micro = <<>> /\ row = NoRow /\ mgr = NoEntry /\ ctl = NoControl /\ exec.pc = "none"
  BY DEF Init
<1>2. QED
  BY <1>1 DEF VerdictInv, AssertionsNeverMask, Sound, NoRow, NoEntry, NoControl

\* Every step preserves the verdict invariant: one case per action.
LEMMA VerdictStepInv == TypeOK /\ VerdictInv /\ [Next]_vars => VerdictInv'
<1> SUFFICES ASSUME TypeOK, VerdictInv, [Next]_vars PROVE VerdictInv'
  OBVIOUS
<1>1. CASE UNCHANGED vars
  BY <1>1 DEF vars, VerdictInv, AssertionsNeverMask, Sound, NoVerdict, Early, IsEngine
<1>2. CASE Next
  BY <1>2, VerdictStart, VerdictPersist, VerdictExecutor, VerdictReview, VerdictTurn, VerdictStop,
     VerdictEnd, VerdictDelete, VerdictPrune, VerdictRerate, VerdictCrash DEF Next, Operator
<1>3. QED BY <1>1, <1>2

\* What is on its way to the row is sound, in every reachable state.
THEOREM VerdictInvariant == Spec => [](TypeOK /\ VerdictInv)
BY TypeOKInit, TypeOKStep, VerdictInit, VerdictStepInv, PTL DEF Spec

\* Only a row that still says completed carries the assertions' outcome.
THEOREM AssertionsHonest == Spec => []AssertionsNeverMask
<1>1. VerdictInv => AssertionsNeverMask
  BY DEF VerdictInv
<1>2. QED BY <1>1, VerdictInvariant, PTL

\* Every step keeps a verdict, up to the assertions' flip, or replaces it by the
\* next verdict of a child.
LEMMA StepKeepsVerdict ==
  ASSUME TypeOK, VerdictInv, [Next]_vars, row.present, Terminal(row.status), row'.present
  PROVE  Terminal(row'.status) /\ (IsEngine => KeepsVerdict)
<1> DEFINE Kept == row'.status = row.status /\ row'.outcome = row.outcome
<1>k. Kept => Terminal(row'.status) /\ KeepsVerdict
  BY DEF KeepsVerdict
<1>t. row \in Rows
  BY DEF TypeOK
<1>1. CASE Persist
  <2> DEFINE h == Head(micro)
  <2>1. h \in Events /\ 1 \in DOMAIN micro /\ h = micro[1]
    BY <1>1 DEF Persist, TypeOK
  <2> HIDE DEF h
  <2>2. CASE row' = row
    BY <1>k, <2>2
  <2>3. CASE row' = RowAfter(row, h)
    <3>1. CASE IsStatus(h)
      <4>1. ~IsEngine /\ Terminal(h.val)
        BY <2>1, <3>1 DEF VerdictInv, Sound
      <4>2. QED BY <1>t, <2>1, <2>3, <3>1, <4>1, RowAfterFields
    <3>2. CASE ~IsStatus(h)
      <4>1. Kept
        BY <1>t, <2>1, <2>3, <3>2, RowAfterFields DEF IsTerminalStatus
      <4>2. QED BY <1>k, <4>1
    <3>3. QED BY <3>1, <3>2
  <2>4. QED BY <1>1, <2>2, <2>3, PersistRow DEF h
<1>2. CASE Start
  BY <1>2 DEF Start, VerdictInv
<1>3. CASE Executor \/ GateQueues \/ StreamStep \/ ClockStopsStream \/ SubmitTurn \/ Stop
           \/ UNCHANGED vars
  <2>1. row' = row
    BY <1>3 DEF Executor, StartFails, EngineBegins, GateGrants, EngineAwaits, EngineEnds,
       ChildAwaits, ChildCompletes, ChildSettles, ChildWindsDown, ChildCleanedUp, ClockEndsWait,
       ClockSettlesChild, GateQueues, StreamStep, ClockStopsStream, SubmitTurn, Stop, vars
  <2>2. QED BY <1>k, <2>1
<1>4. CASE End
  <2>1. row' = [row EXCEPT !.ended = TRUE]
    BY <1>4 DEF End
  <2>2. QED BY <1>k, <1>t, <2>1 DEF Rows
<1>5. CASE Delete \/ Prune
  <2>1. row' = NoRow \/ row' = row
    BY <1>5, Zenon DEF Delete, Prune, DeleteRow
  <2>2. QED BY <1>k, <2>1 DEF NoRow
<1>6. CASE ReviewBegins
  BY <1>6, ReviewBeginsRow DEF KeepsVerdict
<1>7. CASE ReviewSettles
  <2>1. PICK s \in Landings : row' = setRatingState(row, s)
    BY <1>7 DEF ReviewSettles
  <2>2. s \in RatingStates
    BY DEF Landings, RatingStates, SettledRatings
  <2>3. QED BY <1>k, <1>t, <2>1, <2>2, ReviewWrites
<1>8. CASE RerateBegins \/ RerateSettles
  BY <1>8, <1>k, RerateRow
<1>9. CASE CrashRestart
  <2>1. row' = abortOrphanedRuns(row)
    BY <1>9 DEF CrashRestart
  <2>2. QED BY <1>k, <1>t, <2>1, AbortOrphanedKeeps
<1>10. QED
  BY <1>1, <1>2, <1>3, <1>4, <1>5, <1>6, <1>7, <1>8, <1>9 DEF Next, Operator, Review

\* A terminal row never shows a live status again.
THEOREM VerdictNeverReopens == Spec => TerminalNeverReopens
<1>1. TypeOK /\ VerdictInv /\ [Next]_vars =>
        [row.present /\ Terminal(row.status) /\ row'.present => Terminal(row'.status)]_vars
  BY StepKeepsVerdict
<1>2. QED BY <1>1, VerdictInvariant, PTL DEF Spec, TerminalNeverReopens

\* The first verdict an engine run persists stands.
THEOREM EngineVerdictStands == Spec => EngineVerdictFinal
<1>1. TypeOK /\ VerdictInv /\ [Next]_vars => [IsEngine => KeepsVerdict]_vars
  BY StepKeepsVerdict DEF KeepsVerdict
<1>2. QED BY <1>1, VerdictInvariant, PTL DEF Spec, EngineVerdictFinal
=============================================================================
