---------------------------- MODULE HubTurn_proofs ----------------------------
(***************************************************************************)
(* Proofs about HubTurn, for any sessions, asks, permits and bounds.       *)
(***************************************************************************)
EXTENDS HubTurn, SequenceTheorems, FiniteSetTheorems, TLAPS

-----------------------------------------------------------------------------
(* Types. *)

RowType == [present : BOOLEAN, status : RunStatuses, phase : HubPhases]
TurnType == [pc : Pcs, aborted : BOOLEAN, settled : BOOLEAN]
AskType == [st : AskStates, owner : Sessions \cup {NoSession}, caller : Sessions \cup {NoSession}]
SteerType == [pending : Nat, stranded : Nat]
HitlType == [bound : SUBSET Sessions, route : Sessions \cup {NoSession}]
GateType == [free : Nat, queue : Seq(Sessions), lost : Nat]

\* The verdict of every cause ends the session.
LEMMA VerdictsEnd ==
  /\ \A cause \in PassCauses \cup {"user_stop", "stalled", "auth", "session_ended"} :
       StatusFor(cause) \in TerminalStatuses
  /\ TerminalStatuses \subseteq RunStatuses
  /\ "running" \notin TerminalStatuses
<1>1. \A cause \in PassCauses \cup {"user_stop", "stalled", "auth", "session_ended"} :
        StatusFor(cause) \in TerminalStatuses
  BY DEF StatusFor, PassCauses, terminalFor, CleanCompletion, TerminalStatuses, ErrorCauses,
         BudgetCauses, ClockCauses
<1> QED
  BY <1>1 DEF RunStatuses, TerminalStatuses

\* A new turn, a free ask and the row of a deleted session.
LEMMA BlanksTyped ==
  /\ \A pc \in Pcs : NewTurn(pc) \in TurnType
  /\ NoAsk \in AskType /\ NoRow \in RowType
BY DEF NewTurn, NoAsk, NoRow, TurnType, AskType, RowType, AskStates, RunStatuses, HubPhases

\* Closing and abandoning asks.
LEMMA AsksTyped ==
  ASSUME TypeOK, NEW s \in Sessions, NEW as \in SUBSET Asks
  PROVE  Close(as) \in [Asks -> AskType] /\ Abandoned(s) \in [Asks -> AskType]
<1>1. ask \in [Asks -> AskType]
  BY DEF TypeOK, AskType
<1>2. Close(as) \in [Asks -> AskType]
  BY <1>1, BlanksTyped DEF Close
<1>3. \A a \in Asks : [ask[a] EXCEPT !.st = "abandoned"] \in AskType
  BY <1>1 DEF AskType, AskStates
<1>4. Abandoned(s) \in [Asks -> AskType]
  BY <1>1, <1>3 DEF Abandoned
<1> QED
  BY <1>2, <1>4

\* The HITL state of a turn that is over.
LEMMA ReleaseTyped ==
  ASSUME TypeOK, NEW s \in Sessions, releaseTurn(s)
  PROVE  ask' \in [Asks -> AskType] /\ hitl' \in HitlType
<1>1. Mailboxes(s) \subseteq Asks
  BY DEF Mailboxes
<1>2. ask' \in [Asks -> AskType]
  BY <1>1, AsksTyped DEF releaseTurn
<1>3. hitl' \in HitlType
  BY DEF releaseTurn, TypeOK, HitlType
<1> QED
  BY <1>2, <1>3

\* The end of a turn, from any turn table.
LEMMA FinishTyped ==
  ASSUME TypeOK, NEW s \in Sessions, NEW turns \in [Sessions -> TurnType], Finish(s, turns)
  PROVE  /\ turn' \in [Sessions -> TurnType] /\ slot' \in [Sessions -> SlotStates]
         /\ steering' \in [Sessions -> SteerType]
         /\ ask' \in [Asks -> AskType] /\ hitl' \in HitlType
<1>1. turn' \in [Sessions -> TurnType]
  BY BlanksTyped DEF Finish, Pcs
<1>2. slot' \in [Sessions -> SlotStates]
  BY DEF Finish, scheduleRelease, TypeOK, SlotStates
<1>3. Strand(steering[s]) \in SteerType
  BY DEF Strand, TypeOK, SteerType
<1>4. steering' \in [Sessions -> SteerType]
  BY <1>3 DEF Finish, TypeOK, SteerType
<1> QED
  BY <1>1, <1>2, <1>4, ReleaseTyped DEF Finish

\* The end of an execution.
LEMMA ReturnTyped ==
  ASSUME TypeOK, NEW s \in Sessions, NEW turns \in [Sessions -> TurnType], Return(s, turns)
  PROVE  /\ turn' \in [Sessions -> TurnType] /\ slot' \in [Sessions -> SlotStates]
         /\ steering' \in [Sessions -> SteerType]
         /\ ask' \in [Asks -> AskType] /\ hitl' \in HitlType
<1>1. CASE Finish(s, turns)
  BY <1>1, FinishTyped
<1>2. CASE turn' = [turns EXCEPT ![s].pc = "routing"] /\ UNCHANGED <<slot, steering, ask, hitl>>
  <2>1. [turns[s] EXCEPT !.pc = "routing"] \in TurnType
    BY DEF TurnType, Pcs
  <2>2. turn' \in [Sessions -> TurnType]
    BY <1>2, <2>1
  <2> QED
    BY <1>2, <2>2 DEF TypeOK, SteerType, AskType, HitlType
<1> QED
  BY <1>1, <1>2 DEF Return

\* A permit given back.
LEMMA GateTyped ==
  ASSUME TypeOK
  PROVE  GateAfterRelease \in GateType /\ TurnsAfterRelease \in [Sessions -> TurnType]
<1>1. gate \in GateType /\ turn \in [Sessions -> TurnType]
  BY DEF TypeOK, GateType, TurnType
<1>2. CASE gate.queue = <<>>
  BY <1>1, <1>2 DEF GateAfterRelease, TurnsAfterRelease, GateType
<1>3. CASE gate.queue # <<>>
  <2>1. gate.queue \in Seq(Sessions)
    BY <1>1 DEF GateType
  <2>2. Head(gate.queue) \in Sessions /\ Tail(gate.queue) \in Seq(Sessions)
    BY <1>3, <2>1, HeadTailProperties
  <2>3. GateAfterRelease \in GateType
    BY <1>1, <1>3, <2>2 DEF GateAfterRelease, GateType
  <2>4. [turn[Head(gate.queue)] EXCEPT !.pc = "granted"] \in TurnType
    BY <1>1, <2>2 DEF TurnType, Pcs
  <2>5. TurnsAfterRelease \in [Sessions -> TurnType]
    BY <1>1, <1>3, <2>2, <2>4 DEF TurnsAfterRelease
  <2> QED
    BY <2>3, <2>5
<1> QED
  BY <1>2, <1>3

\* The verdict of a child.
LEMMA SettleTyped ==
  ASSUME TypeOK, NEW s \in Sessions, NEW pc \in Pcs,
         NEW cause \in PassCauses \cup {"user_stop", "stalled", "auth"}, Settle(s, cause, pc)
  PROVE  /\ row' \in [Sessions -> RowType] /\ clock' \in [Sessions -> ClockStates]
         /\ turn' \in [Sessions -> TurnType] /\ ask' \in [Asks -> AskType]
<1>1. StatusFor(cause) \in RunStatuses
  BY VerdictsEnd
<1>2. [row[s] EXCEPT !.status = StatusFor(cause), !.phase = "none"] \in RowType
  <2>1. row[s] \in RowType /\ "none" \in HubPhases
    BY DEF TypeOK, RowType, HubPhases
  <2> QED
    BY <1>1, <2>1 DEF RowType
<1>3. row' \in [Sessions -> RowType]
  BY <1>2 DEF Settle, TypeOK, RowType
<1>4. clock' \in [Sessions -> ClockStates]
  BY DEF Settle, TypeOK, ClockStates
<1>5. [turn[s] EXCEPT !.settled = TRUE, !.pc = pc] \in TurnType
  <2>1. turn[s] \in TurnType
    BY DEF TypeOK, TurnType
  <2> QED
    BY <2>1 DEF TurnType
<1>6. turn' \in [Sessions -> TurnType]
  BY <1>5 DEF Settle, TypeOK, TurnType
<1>7. ask' \in [Asks -> AskType]
  BY AsksTyped DEF Settle
<1> QED
  BY <1>3, <1>4, <1>6, <1>7


\* TypeOK, in the types above.
Typed ==
  /\ opt \in [backend : [Sessions -> Backends], grace : BOOLEAN, cap : Nat]
  /\ row \in [Sessions -> RowType]
  /\ slot \in [Sessions -> SlotStates]
  /\ turn \in [Sessions -> TurnType]
  /\ clock \in [Sessions -> ClockStates]
  /\ steering \in [Sessions -> SteerType]
  /\ ask \in [Asks -> AskType]
  /\ hitl \in HitlType
  /\ gate \in GateType
  /\ posted \in Nat /\ crashes \in Nat

\* It is TypeOK, in both states.
LEMMA TypedIsTypeOK == (TypeOK <=> Typed) /\ (TypeOK <=> Typed)'
<1>1. TypeOK <=> Typed
  BY DEF TypeOK, Typed, RowType, TurnType, SteerType, AskType, HitlType, GateType
<1>2. (TypeOK <=> Typed)'
  BY DEF TypeOK, Typed, RowType, TurnType, SteerType, AskType, HitlType, GateType
<1> QED
  BY <1>1, <1>2

\* One field of a row, a turn or a clock is written.
LEMMA WritesTyped ==
  ASSUME Typed, NEW s \in Sessions
  PROVE  /\ RunningRow(s) \in [Sessions -> RowType]
         /\ ClearWait(s) \in [Sessions -> RowType]
         /\ \A phase \in HubPhases : [row EXCEPT ![s].phase = phase] \in [Sessions -> RowType]
         /\ \A cause \in PassCauses \cup {"user_stop", "stalled", "auth", "session_ended"} :
              [row EXCEPT ![s].status = StatusFor(cause), ![s].phase = "none"] \in [Sessions -> RowType]
         /\ \A state \in ClockStates : [clock EXCEPT ![s] = state] \in [Sessions -> ClockStates]
         /\ \A pc \in Pcs : [turn EXCEPT ![s].pc = pc] \in [Sessions -> TurnType]
         /\ \A pc \in Pcs : [turn EXCEPT ![s] = NewTurn(pc)] \in [Sessions -> TurnType]
         /\ [turn EXCEPT ![s].aborted = TRUE] \in [Sessions -> TurnType]
         /\ [turn EXCEPT ![s].settled = TRUE, ![s].aborted = TRUE] \in [Sessions -> TurnType]
<1>1. row[s] \in RowType /\ turn[s] \in TurnType /\ row \in [Sessions -> RowType]
      /\ turn \in [Sessions -> TurnType] /\ clock \in [Sessions -> ClockStates]
  BY DEF Typed
<1>2. \A status \in RunStatuses, phase \in HubPhases :
        [row[s] EXCEPT !.status = status, !.phase = phase] \in RowType
  BY <1>1 DEF RowType
<1>3. "running" \in RunStatuses /\ "starting" \in HubPhases /\ "none" \in HubPhases
  BY DEF RunStatuses, HubPhases
<1>4. \A phase \in HubPhases : [row EXCEPT ![s].phase = phase] \in [Sessions -> RowType]
  <2>1. \A phase \in HubPhases : [row[s] EXCEPT !.phase = phase] \in RowType
    BY <1>1 DEF RowType
  <2> QED
    BY <1>1, <2>1
<1>5. \A status \in RunStatuses, phase \in HubPhases :
        [row EXCEPT ![s].status = status, ![s].phase = phase] \in [Sessions -> RowType]
  BY <1>1, <1>2
<1>6. RunningRow(s) \in [Sessions -> RowType]
  BY <1>3, <1>5 DEF RunningRow
<1>7. ClearWait(s) \in [Sessions -> RowType]
  BY <1>1, <1>3, <1>4 DEF ClearWait
<1>8. \A cause \in PassCauses \cup {"user_stop", "stalled", "auth", "session_ended"} :
        [row EXCEPT ![s].status = StatusFor(cause), ![s].phase = "none"] \in [Sessions -> RowType]
  BY <1>3, <1>5, VerdictsEnd
<1>9. \A state \in ClockStates : [clock EXCEPT ![s] = state] \in [Sessions -> ClockStates]
  BY <1>1
<1>10. \A pc \in Pcs : [turn EXCEPT ![s].pc = pc] \in [Sessions -> TurnType]
  <2>1. \A pc \in Pcs : [turn[s] EXCEPT !.pc = pc] \in TurnType
    BY <1>1 DEF TurnType
  <2> QED
    BY <1>1, <2>1
<1>11. \A pc \in Pcs : [turn EXCEPT ![s] = NewTurn(pc)] \in [Sessions -> TurnType]
  BY <1>1, BlanksTyped
<1>12. [turn EXCEPT ![s].aborted = TRUE] \in [Sessions -> TurnType]
  <2>1. [turn[s] EXCEPT !.aborted = TRUE] \in TurnType
    BY <1>1 DEF TurnType
  <2> QED
    BY <1>1, <2>1
<1>13. [turn EXCEPT ![s].settled = TRUE, ![s].aborted = TRUE] \in [Sessions -> TurnType]
  <2>1. [turn[s] EXCEPT !.settled = TRUE, !.aborted = TRUE] \in TurnType
    BY <1>1 DEF TurnType
  <2> QED
    BY <1>1, <2>1
<1> QED
  BY <1>4, <1>6, <1>7, <1>8, <1>9, <1>10, <1>11, <1>12, <1>13

\* The same of the next state.
LEMMA RowWritten ==
  ASSUME Typed, NEW s \in Sessions,
         \/ row' = row \/ row' = RunningRow(s) \/ row' = ClearWait(s)
         \/ row' = [row EXCEPT ![s] = NoRow]
         \/ \E phase \in HubPhases : row' = [row EXCEPT ![s].phase = phase]
         \/ \E cause \in PassCauses \cup {"user_stop", "stalled", "auth", "session_ended"} :
              row' = [row EXCEPT ![s].status = StatusFor(cause), ![s].phase = "none"]
  PROVE  row' \in [Sessions -> RowType]
<1>1. row \in [Sessions -> RowType] /\ [row EXCEPT ![s] = NoRow] \in [Sessions -> RowType]
  BY BlanksTyped DEF Typed
<1>2. CASE row' = row \/ row' = [row EXCEPT ![s] = NoRow]
  BY <1>1, <1>2
<1>3. CASE row' = RunningRow(s) \/ row' = ClearWait(s)
  <2>1. RunningRow(s) \in [Sessions -> RowType] /\ ClearWait(s) \in [Sessions -> RowType]
    BY WritesTyped
  <2> QED
    BY <1>3, <2>1
<1>4. CASE \E phase \in HubPhases : row' = [row EXCEPT ![s].phase = phase]
  <2>1. PICK phase \in HubPhases : row' = [row EXCEPT ![s].phase = phase]
    BY <1>4
  <2>2. [row EXCEPT ![s].phase = phase] \in [Sessions -> RowType]
    BY WritesTyped
  <2> QED
    BY <2>1, <2>2
<1>5. CASE \E cause \in PassCauses \cup {"user_stop", "stalled", "auth", "session_ended"} :
             row' = [row EXCEPT ![s].status = StatusFor(cause), ![s].phase = "none"]
  <2>1. PICK cause \in PassCauses \cup {"user_stop", "stalled", "auth", "session_ended"} :
          row' = [row EXCEPT ![s].status = StatusFor(cause), ![s].phase = "none"]
    BY <1>5
  <2>2. [row EXCEPT ![s].status = StatusFor(cause), ![s].phase = "none"] \in [Sessions -> RowType]
    BY WritesTyped
  <2> QED
    BY <2>1, <2>2
<1> QED
  BY <1>2, <1>3, <1>4, <1>5

\* A write of a session's clock ...
LEMMA ClockWritten ==
  ASSUME Typed, NEW s \in Sessions,
         clock' = clock \/ \E state \in ClockStates : clock' = [clock EXCEPT ![s] = state]
  PROVE  clock' \in [Sessions -> ClockStates]
<1>1. CASE clock' = clock
  BY <1>1 DEF Typed
<1>2. CASE \E state \in ClockStates : clock' = [clock EXCEPT ![s] = state]
  <2>1. PICK state \in ClockStates : clock' = [clock EXCEPT ![s] = state]
    BY <1>2
  <2>2. [clock EXCEPT ![s] = state] \in [Sessions -> ClockStates]
    BY WritesTyped
  <2> QED
    BY <2>1, <2>2
<1> QED
  BY <1>1, <1>2

\* ... and of its turn.
LEMMA TurnWritten ==
  ASSUME Typed, NEW s \in Sessions,
         \/ turn' = turn
         \/ \E pc \in Pcs : turn' = [turn EXCEPT ![s].pc = pc]
         \/ \E pc \in Pcs : turn' = [turn EXCEPT ![s] = NewTurn(pc)]
         \/ turn' = [turn EXCEPT ![s].aborted = TRUE]
         \/ turn' = [turn EXCEPT ![s].settled = TRUE, ![s].aborted = TRUE]
  PROVE  turn' \in [Sessions -> TurnType]
<1>1. CASE turn' = turn
  BY <1>1 DEF Typed
<1>2. CASE \E pc \in Pcs : turn' = [turn EXCEPT ![s].pc = pc]
  <2>1. PICK pc \in Pcs : turn' = [turn EXCEPT ![s].pc = pc]
    BY <1>2
  <2>2. [turn EXCEPT ![s].pc = pc] \in [Sessions -> TurnType]
    BY WritesTyped
  <2> QED
    BY <2>1, <2>2
<1>3. CASE \E pc \in Pcs : turn' = [turn EXCEPT ![s] = NewTurn(pc)]
  <2>1. PICK pc \in Pcs : turn' = [turn EXCEPT ![s] = NewTurn(pc)]
    BY <1>3
  <2>2. [turn EXCEPT ![s] = NewTurn(pc)] \in [Sessions -> TurnType]
    BY WritesTyped
  <2> QED
    BY <2>1, <2>2
<1>4. CASE turn' = [turn EXCEPT ![s].aborted = TRUE]
  <2>1. [turn EXCEPT ![s].aborted = TRUE] \in [Sessions -> TurnType]
    BY WritesTyped
  <2> QED
    BY <1>4, <2>1
<1>5. CASE turn' = [turn EXCEPT ![s].settled = TRUE, ![s].aborted = TRUE]
  <2>1. [turn EXCEPT ![s].settled = TRUE, ![s].aborted = TRUE] \in [Sessions -> TurnType]
    BY WritesTyped
  <2> QED
    BY <1>5, <2>1
<1> QED
  BY <1>1, <1>2, <1>3, <1>4, <1>5

\* A message keeps the types.
LEMMA SendTyped ==
  ASSUME Typed, NEW s \in Sessions, Send(s)
  PROVE  Typed'
<1>1. posted' \in Nat
  BY DEF Send, Typed
<1>2. CASE Steer(s)
  <2>1. steering' \in [Sessions -> SteerType]
    <3>1. [steering[s] EXCEPT !.pending = @ + 1] \in SteerType
      BY DEF Typed, SteerType
    <3> QED
      BY <1>2, <3>1 DEF Steer, Typed
  <2> QED
    BY <1>1, <1>2, <2>1 DEF Steer, Send, Typed
<1>3. CASE Dispatch(s)
  <2>1. slot' \in [Sessions -> SlotStates]
    BY <1>3 DEF Dispatch, Typed, SlotStates
  <2>2. "preparing" \in Pcs /\ "gate" \in Pcs /\ "running" \in ClockStates /\ "queued" \in HubPhases
    BY DEF Pcs, ClockStates, HubPhases
  <2>3. turn' \in [Sessions -> TurnType]
    <3>1. turn' = [turn EXCEPT ![s] = NewTurn("preparing")] \/ turn' = [turn EXCEPT ![s] = NewTurn("gate")]
      BY <1>3 DEF Dispatch
    <3> QED
      BY <2>2, <3>1, TurnWritten
  <2>4. row' \in [Sessions -> RowType] /\ clock' \in [Sessions -> ClockStates]
    <3>1. row' = row \/ row' = RunningRow(s) \/ row' = [row EXCEPT ![s].phase = "queued"]
      BY <1>3 DEF Dispatch
    <3>2. row' \in [Sessions -> RowType]
      BY <2>2, <3>1, RowWritten
    <3>3. clock' = clock \/ clock' = [clock EXCEPT ![s] = "running"]
      BY <1>3 DEF Dispatch
    <3> QED
      BY <2>2, <3>2, <3>3, ClockWritten
  <2>5. gate' \in GateType
    <3>1. gate \in GateType
      BY DEF Typed
    <3>2. gate.free > 0 => [gate EXCEPT !.free = @ - 1] \in GateType
      BY <3>1 DEF GateType
    <3>3. [gate EXCEPT !.queue = Append(@, s)] \in GateType
      BY <3>1 DEF GateType
    <3> QED
      BY <1>3, <3>1, <3>2, <3>3 DEF Dispatch
  <2> QED
    BY <1>1, <1>3, <2>1, <2>3, <2>4, <2>5 DEF Dispatch, Send, Typed
<1>4. CASE Refuse(s)
  BY <1>1, <1>4 DEF Refuse, Send, Typed
<1> QED
  BY <1>2, <1>3, <1>4 DEF Send

\* So do the steps of the engine's turn ...
LEMMA EngineTyped ==
  ASSUME Typed, NEW s \in Sessions,
         ToolsReady(s) \/ (\E cause \in PassCauses : SdkPassEnds(s, cause))
  PROVE  Typed'
<1>0. TypeOK /\ turn \in [Sessions -> TurnType]
  BY TypedIsTypeOK DEF Typed
<1>1. CASE ToolsReady(s)
  <2>1. "streaming" \in Pcs /\ "running" \in ClockStates
    BY DEF Pcs, ClockStates
  <2>2. clock' \in [Sessions -> ClockStates]
    BY <1>1, <2>1, WritesTyped DEF ToolsReady
  <2>3. CASE row[s].present
    <3>1. hitl' \in HitlType
      BY <1>1, <2>3 DEF ToolsReady, Typed, HitlType
    <3>2. turn' = [turn EXCEPT ![s].pc = "streaming"] /\ row' = RunningRow(s)
      BY <1>1, <2>3 DEF ToolsReady
    <3>3. turn' \in [Sessions -> TurnType] /\ row' \in [Sessions -> RowType]
      BY <2>1, <3>2, WritesTyped
    <3> QED
      BY <1>1, <2>2, <2>3, <3>1, <3>3 DEF ToolsReady, Typed
  <2>4. CASE ~row[s].present
    <3>1. Finish(s, turn) /\ UNCHANGED row
      BY <1>1, <2>4 DEF ToolsReady
    <3> QED
      BY <1>0, <1>1, <2>2, <3>1, FinishTyped DEF ToolsReady, Typed
  <2> QED
    BY <2>3, <2>4
<1>2. ASSUME NEW cause \in PassCauses, SdkPassEnds(s, cause)
      PROVE  Typed'
  <2>1. UNCHANGED <<opt, gate, posted, crashes>>
    BY <1>2 DEF SdkPassEnds
  <2>2. CASE ~row[s].present /\ Finish(s, turn) /\ UNCHANGED <<row, clock>>
    BY <1>0, <2>1, <2>2, FinishTyped DEF Typed
  <2>3. CASE /\ steering' = Injected(s, steering[s].pending)
             /\ UNCHANGED <<row, slot, turn, clock, ask, hitl>>
    <3>1. [steering[s] EXCEPT !.pending = @ - steering[s].pending] \in SteerType
      BY DEF Typed, SteerType
    <3>2. steering' \in [Sessions -> SteerType]
      BY <2>3, <3>1 DEF Injected, Typed
    <3> QED
      BY <2>1, <2>3, <3>2 DEF Typed
  <2>4. CASE /\ clock' = [clock EXCEPT ![s] = "stopped"]
             /\ row' = [row EXCEPT ![s].status = StatusFor(SdkCause(s, cause)), ![s].phase = "none"]
             /\ \/ /\ turn' = [turn EXCEPT ![s].pc = "routing"]
                   /\ releaseTurn(s)
                   /\ UNCHANGED <<slot, steering>>
                \/ Finish(s, turn)
    <3>1. SdkCause(s, cause) \in PassCauses \cup {"user_stop", "stalled", "auth", "session_ended"}
      BY <1>2 DEF SdkCause
    <3>2. row' \in [Sessions -> RowType] /\ clock' \in [Sessions -> ClockStates]
      BY <2>4, <3>1, WritesTyped DEF ClockStates
    <3>3. /\ turn' \in [Sessions -> TurnType] /\ slot' \in [Sessions -> SlotStates]
          /\ steering' \in [Sessions -> SteerType]
          /\ ask' \in [Asks -> AskType] /\ hitl' \in HitlType
      <4>1. CASE Finish(s, turn)
        BY <1>0, <4>1, FinishTyped
      <4>2. CASE turn' = [turn EXCEPT ![s].pc = "routing"] /\ releaseTurn(s) /\ UNCHANGED <<slot, steering>>
        BY <1>0, <4>2, ReleaseTyped, WritesTyped DEF Typed, Pcs
      <4> QED
        BY <2>4, <4>1, <4>2
    <3> QED
      BY <2>1, <3>2, <3>3 DEF Typed
  <2> QED
    BY <1>2, <2>2, <2>3, <2>4 DEF SdkPassEnds
<1> QED
  BY <1>1, <1>2

\* ... of the child's ...
LEMMA ChildTyped ==
  ASSUME Typed, NEW s \in Sessions,
         \/ GateGranted(s) \/ ChildReady(s) \/ CleanupDone(s) \/ RoutingDone(s)
         \/ \E cause \in PassCauses : ChildPassEnds(s, cause)
  PROVE  Typed'
<1>0. TypeOK /\ turn \in [Sessions -> TurnType] /\ gate \in GateType
  BY TypedIsTypeOK DEF Typed
<1>1. CASE GateGranted(s)
  <2>1. UNCHANGED <<opt, posted, crashes>>
    BY <1>1 DEF GateGranted
  <2>2. CASE GrantedDeleted(s)
    <3>1. gate' \in GateType
      BY <2>2 DEF GrantedDeleted, Typed, GateType
    <3> QED
      BY <1>0, <2>1, <2>2, <3>1, FinishTyped DEF GrantedDeleted, Typed
  <2>3. CASE GrantedStopped(s)
    <3>1. row' \in [Sessions -> RowType] /\ clock' \in [Sessions -> ClockStates]
      BY <2>3, WritesTyped DEF GrantedStopped, StopQueued, ClockStates
    <3> QED
      BY <1>0, <2>1, <2>3, <3>1, GateTyped, ReturnTyped DEF GrantedStopped, Typed
  <2>4. CASE GrantedStarts(s)
    BY <2>1, <2>4, WritesTyped DEF GrantedStarts, Typed, ClockStates, Pcs
  <2> QED
    BY <1>1, <2>2, <2>3, <2>4 DEF GateGranted
<1>2. CASE ChildReady(s)
  <2>1. CASE /\ turn' = [turn EXCEPT ![s].pc = IF turn[s].settled THEN "cleaning" ELSE "streaming"]
             /\ UNCHANGED <<row, clock, ask>>
    BY <1>2, <2>1, WritesTyped DEF ChildReady, Typed, Pcs
  <2>2. CASE Settle(s, "auth", "cleaning")
    <3>1. "cleaning" \in Pcs
      BY DEF Pcs
    <3> QED
      BY <1>0, <1>2, <2>2, <3>1, SettleTyped DEF ChildReady, Typed
  <2> QED
    BY <1>2, <2>1, <2>2 DEF ChildReady
<1>3. CASE CleanupDone(s)
  BY <1>0, <1>3, GateTyped, ReturnTyped DEF CleanupDone, Typed
<1>4. CASE RoutingDone(s)
  BY <1>0, <1>4, FinishTyped DEF RoutingDone, Typed
<1>5. ASSUME NEW cause \in PassCauses, ChildPassEnds(s, cause)
      PROVE  Typed'
  <2>1. UNCHANGED <<opt, slot, hitl, gate, posted, crashes>>
    BY <1>5 DEF ChildPassEnds
  <2>2. CASE /\ turn' = [turn EXCEPT ![s].pc = "cleaning"]
             /\ UNCHANGED <<row, clock, steering, ask>>
    BY <2>1, <2>2, WritesTyped DEF Typed, Pcs
  <2>3. CASE Steers(s, cause) /\ steering' = Injected(s, 1) /\ UNCHANGED <<row, turn, clock, ask>>
    <3>1. [steering[s] EXCEPT !.pending = @ - 1] \in SteerType
      BY <2>3 DEF Steers, Typed, SteerType
    <3>2. steering' \in [Sessions -> SteerType]
      BY <2>3, <3>1 DEF Injected, Typed
    <3> QED
      BY <2>1, <2>3, <3>2 DEF Typed
  <2>4. CASE Settle(s, cause, "cleaning") /\ UNCHANGED steering
    <3>1. "cleaning" \in Pcs
      BY DEF Pcs
    <3> QED
      BY <1>0, <2>1, <2>4, <3>1, SettleTyped DEF Typed
  <2> QED
    BY <1>5, <2>2, <2>3, <2>4 DEF ChildPassEnds
<1> QED
  BY <1>1, <1>2, <1>3, <1>4, <1>5


\* ... of the asks ...
LEMMA AsksKeepTypes ==
  ASSUME Typed, NEW a \in Asks,
         Answer(a) \/ (\E s \in Sessions : AskUser(s, a) \/ Elicit(s, a))
  PROVE  Typed'
<1>0. "running" \in ClockStates /\ "waiting" \in ClockStates /\ "none" \in HubPhases
      /\ "waiting_input" \in HubPhases
  BY DEF ClockStates, HubPhases
<1>1. ASSUME NEW owner \in Sessions, NEW caller \in Sessions, BeginWait(a, owner, caller)
      PROVE  Typed'
  <2>1. [st |-> "waiting", owner |-> owner, caller |-> caller] \in AskType
    BY DEF AskType, AskStates
  <2>2. ask' \in [Asks -> AskType]
    BY <1>1, <2>1 DEF BeginWait, Typed
  <2>3. row' \in [Sessions -> RowType] /\ clock' \in [Sessions -> ClockStates]
    BY <1>0, <1>1, WritesTyped DEF BeginWait
  <2> QED
    BY <1>1, <2>2, <2>3 DEF BeginWait, Typed
<1>2. CASE \E s \in Sessions : AskUser(s, a)
  BY <1>1, <1>2 DEF AskUser
<1>3. CASE \E s \in Sessions : Elicit(s, a)
  <2>1. PICK s \in Sessions : Elicit(s, a)
    BY <1>3
  <2>2. hitl.route \in Sessions /\ BeginWait(a, hitl.route, s)
    BY <2>1 DEF Elicit, Typed, HitlType
  <2> QED
    BY <1>1, <2>2
<1>4. CASE Answer(a)
  <2>1. ask' \in [Asks -> AskType]
    <3>1. ask' = Close({a}) /\ TypeOK
      BY <1>4, TypedIsTypeOK DEF Answer
    <3>2. \A b \in Asks : (IF b \in {a} THEN NoAsk ELSE ask[b]) \in AskType
      BY BlanksTyped DEF Typed
    <3> QED
      BY <3>1, <3>2 DEF Close
  <2>2. row' \in [Sessions -> RowType] /\ clock' \in [Sessions -> ClockStates]
    <3> DEFINE s == ask[a].owner
    <3>1. /\ clock' = [clock EXCEPT ![s] = "running"] \/ clock' = clock
          /\ row' = [row EXCEPT ![s].phase = "none"] \/ row' = row
      BY <1>4 DEF Answer
    <3> HIDE DEF s
    <3>2. CASE s \in Sessions
      BY <1>0, <3>1, <3>2, RowWritten, ClockWritten
    <3>3. CASE s \notin Sessions
      <4>1. [clock EXCEPT ![s] = "running"] = clock /\ [row EXCEPT ![s].phase = "none"] = row
        BY <3>3 DEF Typed
      <4> QED
        BY <3>1, <4>1 DEF Typed
    <3> QED
      BY <3>2, <3>3
  <2> QED
    BY <1>4, <2>1, <2>2 DEF Answer, Typed
<1> QED
  BY <1>2, <1>3, <1>4

\* ... of the clock and the operator ...
LEMMA OperatorTyped ==
  ASSUME Typed, NEW s \in Sessions,
         ClockFires(s) \/ Stop(s) \/ End(s) \/ Delete(s) \/ release(s)
  PROVE  Typed'
<1>0. /\ TypeOK /\ "running" \in ClockStates /\ "stopped" \in ClockStates /\ "fired" \in ClockStates
      /\ turn[s].pc \in Pcs /\ Abandoned(s) \in [Asks -> AskType]
  <2>1. TypeOK
    BY TypedIsTypeOK
  <2>2. turn[s].pc \in Pcs
    BY DEF Typed, TurnType
  <2>3. Abandoned(s) \in [Asks -> AskType]
    BY <2>1, AsksTyped
  <2> QED
    BY <2>1, <2>2, <2>3 DEF ClockStates
<1>1. CASE ClockFires(s)
  <2>1. CASE IsSdk(s)
    <3>1. /\ clock' = [clock EXCEPT ![s] = "fired"] /\ ask' = Abandoned(s) /\ row' = ClearWait(s)
          /\ UNCHANGED turn
      BY <1>1, <2>1 DEF ClockFires
    <3>2. clock' \in [Sessions -> ClockStates] /\ row' \in [Sessions -> RowType]
      BY <1>0, <3>1, WritesTyped
    <3> QED
      BY <1>0, <1>1, <3>1, <3>2 DEF ClockFires, Typed
  <2>2. CASE ~IsSdk(s)
    <3>1. Settle(s, "stalled", turn[s].pc)
      BY <1>1, <2>2 DEF ClockFires
    <3> QED
      BY <1>0, <1>1, <3>1, SettleTyped DEF ClockFires, Typed
  <2> QED
    BY <2>1, <2>2
<1>2. CASE Stop(s)
  <2>1. ask' = Abandoned(s) /\ UNCHANGED <<opt, slot, steering, hitl, gate, posted, crashes>>
    BY <1>2 DEF Stop, Abort
  <2>2. /\ \/ row' = [row EXCEPT ![s].status = StatusFor("user_stop"), ![s].phase = "none"]
           \/ row' = ClearWait(s)
        /\ \/ clock' = clock \/ clock' = [clock EXCEPT ![s] = "stopped"]
           \/ clock' = [clock EXCEPT ![s] = "running"]
        /\ \/ turn' = turn \/ turn' = [turn EXCEPT ![s].aborted = TRUE]
           \/ turn' = [turn EXCEPT ![s].settled = TRUE, ![s].aborted = TRUE]
    BY <1>2 DEF Stop, Abort
  <2>3. row' \in [Sessions -> RowType]
    BY <2>2, RowWritten
  <2>4. clock' \in [Sessions -> ClockStates]
    BY <1>0, <2>2, ClockWritten
  <2>5. turn' \in [Sessions -> TurnType]
    BY <2>2, TurnWritten
  <2> QED
    BY <1>0, <2>1, <2>3, <2>4, <2>5 DEF Typed
<1>3. CASE End(s)
  <2>1. row' \in [Sessions -> RowType]
    BY <1>3, WritesTyped DEF End
  <2> QED
    BY <1>3, <2>1 DEF End, Typed
<1>4. CASE Delete(s)
  <2>1. ask' = Abandoned(s) /\ UNCHANGED <<opt, slot, steering, hitl, gate, posted, crashes>>
    BY <1>4 DEF Delete
  <2>2. /\ row' = [row EXCEPT ![s] = NoRow]
        /\ \/ clock' = clock \/ clock' = [clock EXCEPT ![s] = "stopped"]
           \/ clock' = [clock EXCEPT ![s] = "running"]
        /\ \/ turn' = turn \/ turn' = [turn EXCEPT ![s].aborted = TRUE]
           \/ turn' = [turn EXCEPT ![s].settled = TRUE, ![s].aborted = TRUE]
    BY <1>4 DEF Delete
  <2>3. row' \in [Sessions -> RowType]
    BY <2>2, RowWritten
  <2>4. clock' \in [Sessions -> ClockStates]
    BY <1>0, <2>2, ClockWritten
  <2>5. turn' \in [Sessions -> TurnType]
    BY <2>2, TurnWritten
  <2> QED
    BY <1>0, <2>1, <2>3, <2>4, <2>5 DEF Typed
<1>5. CASE release(s)
  BY <1>5 DEF release, Typed, SlotStates
<1> QED
  BY <1>1, <1>2, <1>3, <1>4, <1>5

\* ... and of a restart.
LEMMA RebootTyped ==
  ASSUME Typed, Reboot, crashes' \in Nat
  PROVE  Typed'
<1>1. row' \in [Sessions -> RowType]
  <2>1. \A s \in Sessions : row[s] \in RowType
    BY DEF Typed
  <2>2. "aborted" \in RunStatuses /\ "none" \in HubPhases
    BY DEF RunStatuses, TerminalStatuses, HubPhases
  <2>3. \A s \in Sessions : [row[s] EXCEPT !.status = "aborted", !.phase = "none"] \in RowType
    BY <2>1, <2>2 DEF RowType
  <2> QED
    BY <2>1, <2>3 DEF Reboot, Reconcile
<1>2. turn' \in [Sessions -> TurnType]
  BY BlanksTyped DEF Reboot, Pcs
<1>3. slot' \in [Sessions -> SlotStates] /\ clock' \in [Sessions -> ClockStates]
  BY DEF Reboot, SlotStates, ClockStates
<1>4. steering' \in [Sessions -> SteerType]
  <2>1. \A s \in Sessions : Strand(steering[s]) \in SteerType
    BY DEF Strand, Typed, SteerType
  <2> QED
    BY <2>1 DEF Reboot
<1>5. ask' \in [Asks -> AskType] /\ hitl' \in HitlType
  BY BlanksTyped DEF Reboot, HitlType
<1>6. gate' \in GateType
  <2>1. <<>> \in Seq(Sessions) /\ 0 \in Nat /\ Permits \in Nat
    BY PermitsAssumption, EmptySeq
  <2> QED
    BY <2>1 DEF Reboot, GateType
<1> QED
  BY <1>1, <1>2, <1>3, <1>4, <1>5, <1>6 DEF Reboot, Typed

\* The initial state is typed ...
LEMMA InitTyped == Init => TypeOK
<1> SUFFICES ASSUME Init PROVE Typed
  BY TypedIsTypeOK
<1>1. opt \in [backend : [Sessions -> Backends], grace : BOOLEAN, cap : Nat]
  <2>1. Cardinality(Sessions) \in Nat
    BY SessionsAssumption, FS_CardinalityType
  <2>2. 1..Cardinality(Sessions) \subseteq Nat
    BY <2>1
  <2> HIDE DEF Backends
  <2> QED
    BY <2>2 DEF Init
<1>2. row \in [Sessions -> RowType]
  <2>1. [NoRow EXCEPT !.present = TRUE] \in RowType
    BY BlanksTyped DEF RowType
  <2> QED
    BY <2>1 DEF Init
<1>3. turn \in [Sessions -> TurnType] /\ slot \in [Sessions -> SlotStates]
      /\ clock \in [Sessions -> ClockStates]
  BY BlanksTyped DEF Init, Pcs, SlotStates, ClockStates
<1>4. steering \in [Sessions -> SteerType] /\ ask \in [Asks -> AskType] /\ hitl \in HitlType
  BY BlanksTyped DEF Init, SteerType, HitlType
<1>5. gate \in GateType
  <2>1. <<>> \in Seq(Sessions) /\ 0 \in Nat /\ Permits \in Nat
    BY PermitsAssumption, EmptySeq
  <2> QED
    BY <2>1 DEF Init, GateType
<1> QED
  BY <1>1, <1>2, <1>3, <1>4, <1>5 DEF Init, Typed

\* ... and every step keeps the types.
LEMMA StepTyped == TypeOK /\ [Next]_vars => TypeOK'
<1> SUFFICES ASSUME Typed, [Next]_vars PROVE Typed'
  BY TypedIsTypeOK
<1>1. CASE UNCHANGED vars
  BY <1>1 DEF vars, Typed
<1>2. ASSUME NEW s \in Sessions, Send(s) \/ release(s) \/ ClockFires(s) \/ Stop(s) \/ End(s) \/ Delete(s)
      PROVE  Typed'
  BY <1>2, SendTyped, OperatorTyped
<1>3. ASSUME NEW s \in Sessions, Executor(s) \/ PassEnds(s)
      PROVE  Typed'
  BY <1>3, EngineTyped, ChildTyped DEF Executor, PassEnds
<1>4. ASSUME NEW s \in Sessions, OrphanTimerFires(s)
      PROVE  Typed'
  BY <1>4, RebootTyped DEF OrphanTimerFires, Typed
<1>5. CASE CrashRestart
  BY <1>5, RebootTyped DEF CrashRestart, Typed
<1>6. ASSUME NEW a \in Asks, Answer(a) \/ (\E s \in Sessions : AskUser(s, a) \/ Elicit(s, a))
      PROVE  Typed'
  BY <1>6, AsksKeepTypes
<1> QED
  BY <1>1, <1>2, <1>3, <1>4, <1>5, <1>6 DEF Next

\* Whatever sessions are sent, stopped, deleted or cut off by a crash: every row, slot, turn,
\* clock, ask and permit count is one that the code can hold.
THEOREM TypeCorrect == Spec => []TypeOK
BY InitTyped, StepTyped, PTL DEF Spec

-----------------------------------------------------------------------------
(* The permits of the subscription gate. *)

Elems(q) == {q[i] : i \in DOMAIN q}
Distinct(q) == \A i, j \in DOMAIN q : q[i] = q[j] => i = j

\* The head of a queue without duplicates leaves it for good.
LEMMA HeadLeaves ==
  ASSUME NEW S, NEW q \in Seq(S), q # <<>>, Distinct(q)
  PROVE  /\ Distinct(Tail(q)) /\ Head(q) \in Elems(q)
         /\ Elems(Tail(q)) = Elems(q) \ {Head(q)}
<1>1. Len(q) \in Nat \ {0} /\ DOMAIN q = 1..Len(q)
  BY EmptySeq, LenProperties
<1>2. Head(q) = q[1]
  <2>1. 1 \in 1..Len(q) /\ Len(q) \in 1..Len(q)
    BY <1>1
  <2>2. Head(SubSeq(q, 1, Len(q))) = q[1]
    BY <2>1, HeadTailOfSubSeq
  <2> QED
    BY <2>2, SubSeqFull
<1>3. Tail(q) \in Seq(S) /\ Len(Tail(q)) = Len(q) - 1
      /\ \A i \in 1..Len(Tail(q)) : Tail(q)[i] = q[i + 1]
  BY HeadTailProperties
<1>4. DOMAIN Tail(q) = 1..(Len(q) - 1)
  BY <1>3, LenProperties
<1> DEFINE t == Tail(q)
<1>5. /\ DOMAIN t = 1..(Len(q) - 1)
      /\ \A i \in DOMAIN t : i \in Nat /\ t[i] = q[i + 1] /\ i + 1 \in DOMAIN q /\ i + 1 # 1
  BY <1>1, <1>3, <1>4
<1> HIDE DEF t
<1>6. Distinct(t)
  BY <1>5 DEF Distinct
<1>7. \A i \in DOMAIN q : i = 1 \/ (i - 1 \in DOMAIN t /\ t[i - 1] = q[i])
  <2> SUFFICES ASSUME NEW i \in DOMAIN q, i # 1 PROVE i - 1 \in DOMAIN t /\ t[i - 1] = q[i]
    OBVIOUS
  <2>1. i - 1 \in DOMAIN t /\ (i - 1) + 1 = i
    BY <1>1, <1>5
  <2> QED
    BY <1>5, <2>1
<1>8. 1 \in DOMAIN q
  BY <1>1
<1>9. Elems(t) = Elems(q) \ {q[1]}
  <2>1. ASSUME NEW i \in DOMAIN t PROVE t[i] \in Elems(q) /\ t[i] # q[1]
    BY <1>5, <1>8, <2>1 DEF Elems, Distinct
  <2>2. ASSUME NEW i \in DOMAIN q, q[i] # q[1] PROVE q[i] \in Elems(t)
    BY <1>7, <2>2 DEF Elems
  <2> QED
    BY <2>1, <2>2 DEF Elems
<1>10. q[1] \in Elems(q)
  BY <1>8 DEF Elems
<1> QED
  BY <1>2, <1>6, <1>9, <1>10 DEF t

\* A newcomer joins it.
LEMMA NewcomerJoins ==
  ASSUME NEW S, NEW q \in Seq(S), NEW x \in S, x \notin Elems(q), Distinct(q)
  PROVE  Distinct(Append(q, x)) /\ Elems(Append(q, x)) = Elems(q) \cup {x} /\ Append(q, x) # <<>>
<1> DEFINE t == Append(q, x)
<1>1. Len(q) \in Nat /\ DOMAIN q = 1..Len(q)
  BY LenProperties
<1>2. t \in Seq(S) /\ Len(t) = Len(q) + 1 /\ t[Len(q) + 1] = x
      /\ \A i \in 1..Len(q) : t[i] = q[i]
  BY AppendProperties
<1>3. DOMAIN t = 1..(Len(q) + 1)
  BY <1>2, LenProperties
<1> HIDE DEF t
<1>4. /\ \A i \in DOMAIN t : (i \in DOMAIN q /\ t[i] = q[i]) \/ (i = Len(q) + 1 /\ t[i] = x)
      /\ \A i \in DOMAIN q : i \in DOMAIN t
      /\ Len(q) + 1 \in DOMAIN t
  BY <1>1, <1>2, <1>3
<1>5. Distinct(t)
  BY <1>4 DEF Distinct, Elems
<1>6. Elems(t) = Elems(q) \cup {x}
  <2>1. ASSUME NEW i \in DOMAIN t PROVE t[i] \in Elems(q) \cup {x}
    BY <1>4 DEF Elems
  <2>2. ASSUME NEW i \in DOMAIN q PROVE q[i] \in Elems(t)
    BY <1>1, <1>2, <1>4 DEF Elems
  <2>3. x \in Elems(t)
    BY <1>2, <1>4 DEF Elems
  <2> QED
    BY <2>1, <2>2, <2>3 DEF Elems
<1>7. t # <<>>
  BY <1>1, <1>2, EmptySeq
<1> QED
  BY <1>5, <1>6, <1>7 DEF t

Queued == {s \in Sessions : turn[s].pc = "gate"}
HolderPcs == {"granted", "preparing", "streaming", "cleaning"}

\* PermitsConserved, and nobody queues twice.
PermitInv ==
  /\ gate.free + Cardinality(Holders) + gate.lost = Permits
  /\ gate.queue # <<>> => gate.free = 0
  /\ Elems(gate.queue) = Queued
  /\ Distinct(gate.queue)

\* The slot runs as long as the turn lives; only a child queues, is granted a permit or
\* cleans up.
KindInv ==
  \A s \in Sessions :
    /\ slot[s] = "running" <=> Live(s)
    /\ turn[s].pc \in {"gate", "granted", "cleaning"} => ~IsSdk(s)
    /\ turn[s].settled => ~IsSdk(s)

\* Holders are finitely many.
LEMMA HoldersFinite ==
  /\ IsFiniteSet(Holders) /\ Cardinality(Holders) \in Nat
  /\ IsFiniteSet(Holders') /\ Cardinality(Holders') \in Nat
<1>1. Holders \in SUBSET Sessions /\ Holders' \in SUBSET Sessions
  BY DEF Holders
<1>2. IsFiniteSet(Holders) /\ IsFiniteSet(Holders')
  BY <1>1, SessionsAssumption, FS_Subset
<1> QED
  BY <1>2, FS_CardinalityType

\* One holder more or less.
LEMMA OneMore ==
  ASSUME NEW s, s \notin Holders, Holders' = Holders \cup {s}
  PROVE  Cardinality(Holders') = Cardinality(Holders) + 1
BY HoldersFinite, FS_AddElement

\* ... and one less.
LEMMA OneLess ==
  ASSUME NEW s, s \in Holders, Holders' = Holders \ {s}
  PROVE  Cardinality(Holders') = Cardinality(Holders) - 1
BY HoldersFinite, FS_RemoveElement

\* A permit is taken from the free ones ...
LEMMA PermitTaken ==
  ASSUME Typed, PermitInv, NEW s \in Sessions, s \notin Holders, Holders' = Holders \cup {s},
         gate.free > 0, gate' = [gate EXCEPT !.free = @ - 1], Queued' = Queued
  PROVE  PermitInv'
<1>1. gate \in GateType /\ Permits \in Nat
  BY PermitsAssumption DEF Typed
<1>2. gate'.free = gate.free - 1 /\ gate'.queue = gate.queue /\ gate'.lost = gate.lost
      /\ gate.free \in Nat /\ gate.lost \in Nat
  BY <1>1 DEF GateType
<1>3. gate.queue = <<>>
  BY <1>2 DEF PermitInv
<1>4. Cardinality(Holders') = Cardinality(Holders) + 1 /\ Cardinality(Holders) \in Nat
  BY HoldersFinite, OneMore
<1>5. gate'.free + Cardinality(Holders') + gate'.lost = Permits
  <2>1. gate.free + Cardinality(Holders) + gate.lost = Permits
    BY DEF PermitInv
  <2> QED
    BY <1>1, <1>2, <1>4, <2>1
<1>6. Elems(gate'.queue) = Queued' /\ Distinct(gate'.queue) /\ gate'.queue = <<>>
  BY <1>2, <1>3 DEF PermitInv
<1> QED
  BY <1>5, <1>6 DEF PermitInv

\* ... somebody queues for one ...
LEMMA PermitAwaited ==
  ASSUME Typed, PermitInv, NEW s \in Sessions, s \notin Queued, Queued' = Queued \cup {s},
         gate.free = 0, gate' = [gate EXCEPT !.queue = Append(@, s)], Holders' = Holders
  PROVE  PermitInv'
<1>1. gate \in GateType /\ gate.queue \in Seq(Sessions)
  BY DEF Typed, GateType
<1>2. gate'.free = gate.free /\ gate'.queue = Append(gate.queue, s) /\ gate'.lost = gate.lost
  BY <1>1 DEF GateType
<1>3. Distinct(gate'.queue) /\ Elems(gate'.queue) = Queued'
  BY <1>1, <1>2, NewcomerJoins DEF PermitInv
<1> QED
  BY <1>2, <1>3 DEF PermitInv

\* ... it is lost with its session ...
LEMMA PermitLost ==
  ASSUME Typed, PermitInv, NEW s \in Sessions, s \in Holders, Holders' = Holders \ {s},
         gate' = [gate EXCEPT !.lost = @ + 1], Queued' = Queued
  PROVE  PermitInv'
<1>1. gate \in GateType /\ Permits \in Nat
  BY PermitsAssumption DEF Typed
<1>2. gate'.free = gate.free /\ gate'.queue = gate.queue /\ gate'.lost = gate.lost + 1
      /\ gate.free \in Nat /\ gate.lost \in Nat
  BY <1>1 DEF GateType
<1>3. Cardinality(Holders') = Cardinality(Holders) - 1 /\ Cardinality(Holders) \in Nat
  BY HoldersFinite, OneLess
<1>4. gate'.free + Cardinality(Holders') + gate'.lost = Permits
  <2>1. gate.free + Cardinality(Holders) + gate.lost = Permits
    BY DEF PermitInv
  <2> QED
    BY <1>1, <1>2, <1>3, <2>1
<1>5. Elems(gate'.queue) = Queued' /\ Distinct(gate'.queue) /\ (gate'.queue # <<>> => gate'.free = 0)
  BY <1>2 DEF PermitInv
<1> QED
  BY <1>4, <1>5 DEF PermitInv

\* ... or given back, to the first in the queue if there is one.
LEMMA PermitReleased ==
  ASSUME Typed, PermitInv, NEW s \in Sessions, s \in Holders, gate' = GateAfterRelease,
         gate.queue = <<>> => Holders' = Holders \ {s} /\ Queued' = Queued,
         gate.queue # <<>> => /\ Head(gate.queue) \notin Holders
                              /\ Holders' = (Holders \ {s}) \cup {Head(gate.queue)}
                              /\ Queued' = Queued \ {Head(gate.queue)}
  PROVE  PermitInv'
<1>1. gate \in GateType /\ gate.queue \in Seq(Sessions) /\ Permits \in Nat
      /\ gate.free \in Nat /\ gate.lost \in Nat
  BY PermitsAssumption DEF Typed, GateType
<1>2. CASE gate.queue = <<>>
  <2>1. gate'.free = gate.free + 1 /\ gate'.queue = gate.queue /\ gate'.lost = gate.lost
    BY <1>1, <1>2 DEF GateAfterRelease, GateType
  <2> QED
    BY <1>1, <1>2, <2>1, HoldersFinite, OneLess DEF PermitInv
<1>3. CASE gate.queue # <<>>
  <2>1. gate'.free = gate.free /\ gate'.queue = Tail(gate.queue) /\ gate'.lost = gate.lost
    BY <1>1, <1>3 DEF GateAfterRelease, GateType
  <2>2. Distinct(gate'.queue) /\ Elems(gate'.queue) = Queued'
    BY <1>1, <1>3, <2>1, HeadLeaves DEF PermitInv
  <2>3. Cardinality(Holders') = Cardinality(Holders)
    <3> DEFINE rest == Holders \ {s}
    <3>1. IsFiniteSet(rest) /\ Cardinality(rest) = Cardinality(Holders) - 1
      BY HoldersFinite, FS_RemoveElement
    <3>2. Head(gate.queue) \notin rest /\ Holders' = rest \cup {Head(gate.queue)}
      BY <1>3
    <3> HIDE DEF rest
    <3>3. Cardinality(Holders') = Cardinality(rest) + 1
      BY <3>1, <3>2, FS_AddElement
    <3> QED
      BY <3>1, <3>3, HoldersFinite
  <2> QED
    BY <1>3, <2>1, <2>2, <2>3 DEF PermitInv
<1> QED
  BY <1>2, <1>3

\* Nobody's turn moves at the gate.
LEMMA PermitsUntouched ==
  ASSUME PermitInv, gate' = gate, Holders' = Holders, Queued' = Queued
  PROVE  PermitInv'
BY DEF PermitInv

\* A step that leaves every turn at its place, or moves one within its kind of place,
\* leaves the holders and the queue alone.
LEMMA PlacesKept ==
  ASSUME Typed, Typed', opt' = opt, NEW s \in Sessions,
         \A t \in Sessions : t # s => turn'[t].pc = turn[t].pc,
         turn'[s].pc = "gate" <=> turn[s].pc = "gate",
         IsSdk(s) \/ (turn'[s].pc \in HolderPcs <=> turn[s].pc \in HolderPcs)
  PROVE  Holders' = Holders /\ Queued' = Queued
<1>1. \A t \in Sessions : IsSdk(t)' <=> IsSdk(t)
  BY DEF IsSdk
<1>2. \A t \in Sessions : turn'[t].pc = "gate" <=> turn[t].pc = "gate"
  OBVIOUS
<1>3. \A t \in Sessions : (~IsSdk(t) /\ turn'[t].pc \in HolderPcs) <=> (~IsSdk(t) /\ turn[t].pc \in HolderPcs)
  OBVIOUS
<1>4. Holders' = Holders
  BY <1>1, <1>3 DEF Holders, HolderPcs
<1> QED
  BY <1>2, <1>4 DEF Queued

\* Sending.
LEMMA SendPermits ==
  ASSUME Typed, Typed', KindInv, PermitInv, NEW s \in Sessions, Send(s)
  PROVE  PermitInv' /\ KindInv'
<1>1. opt' = opt
  BY DEF Send
<1>2. CASE Steer(s) \/ Refuse(s)
  <2>1. UNCHANGED <<slot, turn, gate>>
    BY <1>2 DEF Steer, Refuse
  <2>2. Holders' = Holders /\ Queued' = Queued
    BY <1>1, <2>1, PlacesKept
  <2>3. KindInv'
    BY <1>1, <2>1 DEF KindInv, IsSdk, Live
  <2> QED
    BY <2>1, <2>2, <2>3, PermitsUntouched
<1>3. CASE Dispatch(s)
  <2>1. turn[s].pc = "idle" /\ slot' = [slot EXCEPT ![s] = "running"]
    BY <1>3 DEF Dispatch, KindInv, Live
  <2>2. turn' = [turn EXCEPT ![s] = NewTurn("preparing")]
        \/ (~IsSdk(s) /\ turn' = [turn EXCEPT ![s] = NewTurn("gate")])
    BY <1>3 DEF Dispatch
  <2>3. /\ \A t \in Sessions : t # s => turn'[t] = turn[t] /\ slot'[t] = slot[t]
        /\ slot'[s] = "running" /\ ~turn'[s].settled
        /\ turn'[s].pc = "preparing" \/ (~IsSdk(s) /\ turn'[s].pc = "gate")
    BY <2>1, <2>2 DEF NewTurn, Typed
  <2>4. KindInv'
    BY <1>1, <2>3 DEF KindInv, IsSdk, Live
  <2>5. s \notin Holders /\ s \notin Queued
    BY <2>1 DEF Holders, Queued
  <2>6. CASE IsSdk(s) /\ UNCHANGED gate /\ turn' = [turn EXCEPT ![s] = NewTurn("preparing")]
    <3>1. turn'[s].pc = "preparing"
      BY <2>6 DEF NewTurn, Typed
    <3>2. Holders' = Holders /\ Queued' = Queued
      BY <1>1, <2>1, <2>3, <2>6, <3>1, PlacesKept
    <3> QED
      BY <2>4, <2>6, <3>2, PermitsUntouched
  <2>7. CASE /\ ~IsSdk(s) /\ gate.free > 0 /\ gate' = [gate EXCEPT !.free = @ - 1]
             /\ turn' = [turn EXCEPT ![s] = NewTurn("preparing")]
    <3>1. turn'[s].pc = "preparing"
      BY <2>7 DEF NewTurn, Typed
    <3>2. Holders' = Holders \cup {s}
      BY <1>1, <2>3, <2>7, <3>1 DEF Holders, IsSdk
    <3>3. Queued' = Queued
      BY <2>1, <2>3, <3>1 DEF Queued
    <3> QED
      BY <2>4, <2>5, <2>7, <3>2, <3>3, PermitTaken
  <2>8. CASE /\ ~IsSdk(s) /\ gate.free = 0 /\ gate' = [gate EXCEPT !.queue = Append(@, s)]
             /\ turn' = [turn EXCEPT ![s] = NewTurn("gate")]
    <3>1. turn'[s].pc = "gate"
      BY <2>8 DEF NewTurn, Typed
    <3>2. Holders' = Holders
      BY <1>1, <2>1, <2>3, <3>1 DEF Holders, IsSdk
    <3>3. Queued' = Queued \cup {s}
      BY <2>3, <3>1 DEF Queued
    <3> QED
      BY <2>4, <2>5, <2>8, <3>2, <3>3, PermitAwaited
  <2> QED
    BY <1>3, <2>6, <2>7, <2>8 DEF Dispatch
<1> QED
  BY <1>2, <1>3 DEF Send

\* What the end of a turn leaves of it.
LEMMA FinishIdles ==
  ASSUME Typed, NEW s \in Sessions, NEW turns \in [Sessions -> TurnType], Finish(s, turns)
  PROVE  /\ turn'[s].pc = "idle" /\ ~turn'[s].settled /\ slot'[s] \in {"grace", "none"}
         /\ \A t \in Sessions : t # s => turn'[t] = turns[t] /\ slot'[t] = slot[t]
BY DEF Finish, scheduleRelease, NewTurn, Typed

\* The end of an execution releases the turn or lets it route.
LEMMA ReturnLeaves ==
  ASSUME Typed, NEW s \in Sessions, NEW turns \in [Sessions -> TurnType], Return(s, turns)
  PROVE  /\ \A t \in Sessions : t # s => turn'[t] = turns[t] /\ slot'[t] = slot[t]
         /\ \/ turn'[s].pc = "idle" /\ ~turn'[s].settled /\ slot'[s] \in {"grace", "none"}
            \/ turn'[s].pc = "routing" /\ turn'[s].settled = turns[s].settled /\ slot'[s] = slot[s]
<1>1. CASE Finish(s, turns)
  BY <1>1, FinishIdles
<1>2. CASE turn' = [turns EXCEPT ![s].pc = "routing"] /\ UNCHANGED <<slot, steering, ask, hitl>>
  BY <1>2 DEF TurnType
<1> QED
  BY <1>1, <1>2 DEF Return

\* A permit that comes back moves the first of the queue.
LEMMA GrantedNext ==
  ASSUME Typed, KindInv, PermitInv, gate.queue # <<>>
  PROVE  LET h == Head(gate.queue)
         IN /\ h \in Sessions /\ turn[h].pc = "gate" /\ ~IsSdk(h)
            /\ TurnsAfterRelease[h].pc = "granted" /\ TurnsAfterRelease[h].settled = turn[h].settled
            /\ TurnsAfterRelease[h].aborted = turn[h].aborted
            /\ \A t \in Sessions : t # h => TurnsAfterRelease[t] = turn[t]
<1> DEFINE h == Head(gate.queue)
<1>1. gate.queue \in Seq(Sessions)
  BY DEF Typed, GateType
<1>2. h \in Queued
  BY <1>1, HeadLeaves DEF PermitInv
<1>3. h \in Sessions /\ turn[h].pc = "gate" /\ ~IsSdk(h)
  BY <1>2 DEF Queued, KindInv
<1>4. TurnsAfterRelease = [turn EXCEPT ![h].pc = "granted"]
  BY DEF TurnsAfterRelease
<1> HIDE DEF h
<1>5. /\ TurnsAfterRelease[h].pc = "granted" /\ TurnsAfterRelease[h].settled = turn[h].settled
      /\ TurnsAfterRelease[h].aborted = turn[h].aborted
      /\ \A t \in Sessions : t # h => TurnsAfterRelease[t] = turn[t]
  BY <1>3, <1>4 DEF Typed, TurnType
<1> QED
  BY <1>3, <1>5 DEF h

\* A child that held a permit gives it back and returns.
LEMMA ReturnPermits ==
  ASSUME Typed, Typed', KindInv, PermitInv, NEW s \in Sessions, opt' = opt,
         turn[s].pc \in {"granted", "cleaning"},
         gate' = GateAfterRelease, Return(s, TurnsAfterRelease)
  PROVE  PermitInv' /\ KindInv'
<1>1. ~IsSdk(s) /\ s \in Holders /\ slot[s] = "running" /\ TurnsAfterRelease \in [Sessions -> TurnType]
  <2>1. TypeOK
    BY TypedIsTypeOK
  <2> QED
    BY <2>1, GateTyped DEF KindInv, Holders, Live
<1>2. \A t \in Sessions : t # s => turn'[t] = TurnsAfterRelease[t] /\ slot'[t] = slot[t]
  BY <1>1, ReturnLeaves
<1>3. /\ turn'[s].pc \in {"idle", "routing"}
      /\ slot'[s] = "running" <=> turn'[s].pc # "idle"
  BY <1>1, ReturnLeaves
<1>4. CASE gate.queue = <<>>
  <2>1. TurnsAfterRelease = turn
    BY <1>4 DEF TurnsAfterRelease
  <2>2. Holders' = Holders \ {s} /\ Queued' = Queued
    <3>1. \A t \in Sessions : t # s => turn'[t].pc = turn[t].pc
      BY <1>2, <2>1
    <3>2. Holders' = Holders \ {s}
      BY <1>3, <3>1 DEF Holders, IsSdk
    <3>3. Queued' = Queued
      BY <1>3, <3>1 DEF Queued
    <3> QED
      BY <3>2, <3>3
  <2>3. PermitInv'
    BY <1>1, <1>4, <2>2, PermitReleased
  <2>4. KindInv'
    BY <1>1, <1>2, <1>3, <2>1 DEF KindInv, IsSdk, Live
  <2> QED
    BY <2>3, <2>4
<1>5. CASE gate.queue # <<>>
  <2> DEFINE h == Head(gate.queue)
  <2>1. /\ h \in Sessions /\ turn[h].pc = "gate" /\ ~IsSdk(h) /\ TurnsAfterRelease[h].pc = "granted"
        /\ TurnsAfterRelease[h].settled = turn[h].settled
        /\ \A t \in Sessions : t # h => TurnsAfterRelease[t] = turn[t]
    BY <1>5, GrantedNext
  <2> HIDE DEF h
  <2>2. h # s /\ turn'[h].pc = "granted" /\ \A t \in Sessions : t \notin {s, h} => turn'[t] = turn[t]
    BY <1>2, <2>1
  <2>3. Holders' = (Holders \ {s}) \cup {h} /\ h \notin Holders
    BY <1>3, <2>1, <2>2 DEF Holders, IsSdk
  <2>4. Queued' = Queued \ {h}
    BY <1>3, <2>1, <2>2 DEF Queued
  <2>5. PermitInv'
    BY <1>1, <1>5, <2>3, <2>4, PermitReleased DEF h
  <2>6. slot'[h] = slot[h] /\ turn'[h].settled = turn[h].settled
    BY <1>2, <2>1, <2>2
  <2>7. KindInv'
    BY <1>1, <1>2, <1>3, <2>1, <2>2, <2>6 DEF KindInv, IsSdk, Live
  <2> QED
    BY <2>5, <2>7
<1> QED
  BY <1>4, <1>5

\* One turn moves within its kind of place.
LEMMA OneTurnMoves ==
  ASSUME Typed, Typed', KindInv, PermitInv, NEW s \in Sessions, opt' = opt, gate' = gate,
         \A t \in Sessions : t # s => turn'[t] = turn[t] /\ slot'[t] = slot[t],
         slot'[s] = "running" <=> turn'[s].pc # "idle",
         turn'[s].pc \in {"gate", "granted", "cleaning"} => ~IsSdk(s),
         turn'[s].settled => ~IsSdk(s),
         turn'[s].pc = "gate" <=> turn[s].pc = "gate",
         IsSdk(s) \/ (turn'[s].pc \in HolderPcs <=> turn[s].pc \in HolderPcs)
  PROVE  PermitInv' /\ KindInv'
<1>1. Holders' = Holders /\ Queued' = Queued
  BY PlacesKept
<1>2. KindInv'
  BY DEF KindInv, IsSdk, Live
<1> QED
  BY <1>1, <1>2, PermitsUntouched

\* The steps of the engine hold no permit.
LEMMA EnginePermits ==
  ASSUME Typed, Typed', KindInv, PermitInv, NEW s \in Sessions,
         ToolsReady(s) \/ (\E cause \in PassCauses : SdkPassEnds(s, cause))
  PROVE  PermitInv' /\ KindInv'
<1>1. opt' = opt /\ gate' = gate /\ IsSdk(s) /\ turn[s].pc \in {"preparing", "streaming"}
  BY DEF ToolsReady, SdkPassEnds
<1>2. slot[s] = "running" /\ ~turn[s].settled /\ turn \in [Sessions -> TurnType]
  BY <1>1 DEF KindInv, Live, Typed
<1>3. \/ Finish(s, turn)
      \/ UNCHANGED <<turn, slot>>
      \/ turn' = [turn EXCEPT ![s].pc = "streaming"] /\ UNCHANGED slot
      \/ turn' = [turn EXCEPT ![s].pc = "routing"] /\ UNCHANGED slot
  BY DEF ToolsReady, SdkPassEnds
<1>4. /\ \A t \in Sessions : t # s => turn'[t] = turn[t] /\ slot'[t] = slot[t]
      /\ slot'[s] = "running" <=> turn'[s].pc # "idle"
      /\ turn'[s].pc \in {"idle", "preparing", "streaming", "routing"}
      /\ ~turn'[s].settled
  <2>1. CASE Finish(s, turn)
    BY <1>2, <2>1, FinishIdles
  <2>2. CASE UNCHANGED <<turn, slot>>
    BY <1>1, <1>2, <2>2
  <2>3. CASE \/ turn' = [turn EXCEPT ![s].pc = "streaming"] /\ UNCHANGED slot
             \/ turn' = [turn EXCEPT ![s].pc = "routing"] /\ UNCHANGED slot
    BY <1>2, <2>3 DEF TurnType
  <2> QED
    BY <1>3, <2>1, <2>2, <2>3
<1> QED
  BY <1>1, <1>4, OneTurnMoves

\* The continuation of a granted permit.
LEMMA GrantPermits ==
  ASSUME Typed, Typed', KindInv, PermitInv, NEW s \in Sessions, GateGranted(s)
  PROVE  PermitInv' /\ KindInv'
<1>1. opt' = opt /\ turn[s].pc = "granted" /\ ~IsSdk(s) /\ slot[s] = "running"
      /\ s \in Holders /\ turn \in [Sessions -> TurnType]
  BY DEF GateGranted, KindInv, Live, Holders, Typed
<1>2. CASE GrantedDeleted(s)
  <2>1. gate' = [gate EXCEPT !.lost = @ + 1] /\ Finish(s, turn)
    BY <1>2 DEF GrantedDeleted
  <2>2. /\ turn'[s].pc = "idle" /\ ~turn'[s].settled /\ slot'[s] # "running"
        /\ \A t \in Sessions : t # s => turn'[t] = turn[t] /\ slot'[t] = slot[t]
    BY <1>1, <2>1, FinishIdles
  <2>3. Holders' = Holders \ {s}
    BY <1>1, <2>2 DEF Holders, IsSdk
  <2>4. Queued' = Queued
    BY <1>1, <2>2 DEF Queued
  <2>5. KindInv'
    BY <1>1, <2>2 DEF KindInv, IsSdk, Live
  <2> QED
    BY <1>1, <2>1, <2>3, <2>4, <2>5, PermitLost
<1>3. CASE GrantedStopped(s)
  BY <1>1, <1>3, ReturnPermits DEF GrantedStopped
<1>4. CASE GrantedStarts(s)
  <2>1. turn' = [turn EXCEPT ![s].pc = "preparing"] /\ UNCHANGED <<slot, gate>>
    BY <1>4 DEF GrantedStarts
  <2>2. turn'[s].pc = "preparing" /\ \A t \in Sessions : t # s => turn'[t] = turn[t]
    BY <1>1, <2>1 DEF TurnType
  <2> QED
    BY <1>1, <2>1, <2>2, OneTurnMoves DEF HolderPcs
<1> QED
  BY <1>2, <1>3, <1>4 DEF GateGranted

\* The other steps of a child.
LEMMA ChildPermits ==
  ASSUME Typed, Typed', KindInv, PermitInv, NEW s \in Sessions,
         \/ ChildReady(s) \/ CleanupDone(s) \/ RoutingDone(s)
         \/ \E cause \in PassCauses : ChildPassEnds(s, cause)
  PROVE  PermitInv' /\ KindInv'
<1>0. turn \in [Sessions -> TurnType]
  BY DEF Typed
<1>1. CASE CleanupDone(s)
  <2>1. opt' = opt /\ turn[s].pc = "cleaning" /\ gate' = GateAfterRelease /\ Return(s, TurnsAfterRelease)
    BY <1>1 DEF CleanupDone
  <2> QED
    BY <2>1, ReturnPermits
<1>2. CASE RoutingDone(s)
  <2>1. opt' = opt /\ gate' = gate /\ turn[s].pc = "routing" /\ Finish(s, turn)
    BY <1>2 DEF RoutingDone
  <2>2. /\ turn'[s].pc = "idle" /\ ~turn'[s].settled /\ slot'[s] # "running"
        /\ \A t \in Sessions : t # s => turn'[t] = turn[t] /\ slot'[t] = slot[t]
    BY <1>0, <2>1, FinishIdles
  <2> QED
    BY <2>1, <2>2, OneTurnMoves DEF HolderPcs
<1>3. CASE ChildReady(s) \/ \E cause \in PassCauses : ChildPassEnds(s, cause)
  <2>1. /\ opt' = opt /\ gate' = gate /\ slot' = slot /\ ~IsSdk(s)
        /\ turn[s].pc \in {"preparing", "streaming"} /\ slot[s] = "running"
    BY <1>3 DEF ChildReady, ChildPassEnds, KindInv, Live
  <2>2. \/ turn' = turn
        \/ turn' = [turn EXCEPT ![s].pc = "streaming"] \/ turn' = [turn EXCEPT ![s].pc = "cleaning"]
        \/ turn' = [turn EXCEPT ![s].settled = TRUE, ![s].pc = "cleaning"]
    <3>1. CASE ChildReady(s)
      BY <3>1 DEF ChildReady, Settle
    <3>2. CASE \E cause \in PassCauses : ChildPassEnds(s, cause)
      BY <3>2 DEF ChildPassEnds, Settle
    <3> QED
      BY <1>3, <3>1, <3>2
  <2>3. /\ \A t \in Sessions : t # s => turn'[t] = turn[t]
        /\ turn'[s].pc \in {"preparing", "streaming", "cleaning"}
    BY <1>0, <2>1, <2>2 DEF TurnType
  <2> QED
    BY <2>1, <2>3, OneTurnMoves DEF HolderPcs
<1> QED
  BY <1>1, <1>2, <1>3

\* The operator, the clock and the asks move no turn.
LEMMA OperatorPermits ==
  ASSUME Typed, Typed', KindInv, PermitInv, NEW s \in Sessions,
         \/ ClockFires(s) \/ Stop(s) \/ End(s) \/ Delete(s) \/ release(s)
         \/ \E a \in Asks : AskUser(s, a) \/ Elicit(s, a)
  PROVE  PermitInv' /\ KindInv'
<1>0. turn \in [Sessions -> TurnType] /\ (slot[s] = "running" <=> turn[s].pc # "idle")
  BY DEF Typed, KindInv, Live
<1>1. CASE release(s)
  <2>1. opt' = opt /\ gate' = gate /\ turn' = turn /\ slot' = [slot EXCEPT ![s] = "none"] /\ slot[s] = "grace"
    BY <1>1 DEF release
  <2>2. slot'[s] = "none" /\ \A t \in Sessions : t # s => slot'[t] = slot[t]
    BY <2>1 DEF Typed
  <2> QED
    BY <1>0, <2>1, <2>2, OneTurnMoves DEF KindInv
<1>2. CASE ~release(s)
  <2>1. opt' = opt /\ gate' = gate /\ slot' = slot
    BY <1>2 DEF ClockFires, Stop, End, Delete, AskUser, Elicit, BeginWait
  <2>2. \/ turn' = turn
        \/ turn' = [turn EXCEPT ![s].aborted = TRUE]
        \/ ~IsSdk(s) /\ turn' = [turn EXCEPT ![s].settled = TRUE, ![s].aborted = TRUE]
        \/ ~IsSdk(s) /\ turn' = [turn EXCEPT ![s].settled = TRUE, ![s].pc = turn[s].pc]
    <3>1. CASE ClockFires(s)
      BY <3>1 DEF ClockFires, Settle
    <3>2. CASE Stop(s)
      BY <3>2 DEF Stop, Abort, Settleable
    <3>3. CASE Delete(s)
      BY <3>3 DEF Delete, Settleable
    <3>4. CASE End(s) \/ \E a \in Asks : AskUser(s, a) \/ Elicit(s, a)
      BY <3>4 DEF End, AskUser, Elicit, BeginWait
    <3> QED
      BY <1>2, <3>1, <3>2, <3>3, <3>4
  <2>3. /\ \A t \in Sessions : t # s => turn'[t] = turn[t]
        /\ turn'[s].pc = turn[s].pc
        /\ turn'[s].settled = turn[s].settled \/ ~IsSdk(s)
    <3>1. CASE turn' = turn
      BY <3>1
    <3>2. CASE turn' = [turn EXCEPT ![s].aborted = TRUE]
      BY <1>0, <3>2 DEF TurnType
    <3>3. CASE \/ ~IsSdk(s) /\ turn' = [turn EXCEPT ![s].settled = TRUE, ![s].aborted = TRUE]
               \/ ~IsSdk(s) /\ turn' = [turn EXCEPT ![s].settled = TRUE, ![s].pc = turn[s].pc]
      BY <1>0, <3>3 DEF TurnType
    <3> QED
      BY <2>2, <3>1, <3>2, <3>3
  <2>4. /\ turn'[s].pc \in {"gate", "granted", "cleaning"} => ~IsSdk(s)
        /\ turn'[s].settled => ~IsSdk(s)
        /\ slot'[s] = "running" <=> turn'[s].pc # "idle"
        /\ turn'[s].pc = "gate" <=> turn[s].pc = "gate"
        /\ turn'[s].pc \in HolderPcs <=> turn[s].pc \in HolderPcs
    BY <1>0, <2>1, <2>3 DEF KindInv
  <2> QED
    BY <2>1, <2>3, <2>4, OneTurnMoves
<1> QED
  BY <1>1, <1>2

\* A restart gives every permit back.
LEMMA RebootPermits ==
  ASSUME Typed, Reboot
  PROVE  PermitInv' /\ KindInv'
<1>1. /\ \A s \in Sessions : turn'[s].pc = "idle" /\ ~turn'[s].settled /\ slot'[s] = "none"
      /\ gate'.free = Permits /\ gate'.queue = <<>> /\ gate'.lost = 0
  BY DEF Reboot, NewTurn
<1>2. Holders' = {} /\ Queued' = {}
  BY <1>1 DEF Holders, Queued
<1>3. Elems(gate'.queue) = {} /\ Distinct(gate'.queue)
  BY <1>1 DEF Elems, Distinct
<1>4. Cardinality(Holders') = 0 /\ Permits \in Nat
  BY <1>2, FS_EmptySet, PermitsAssumption
<1>5. gate'.free + Cardinality(Holders') + gate'.lost = Permits
  BY <1>1, <1>4
<1>6. PermitInv'
  BY <1>1, <1>2, <1>3, <1>5 DEF PermitInv
<1>7. KindInv'
  BY <1>1 DEF KindInv, Live
<1> QED
  BY <1>6, <1>7

\* Initially every permit is free ...
LEMMA InitPermits == Init => PermitInv /\ KindInv
<1> SUFFICES ASSUME Init PROVE PermitInv /\ KindInv
  OBVIOUS
<1>1. /\ \A s \in Sessions : turn[s].pc = "idle" /\ ~turn[s].settled /\ slot[s] = "none"
      /\ gate.free = Permits /\ gate.queue = <<>> /\ gate.lost = 0
  BY DEF Init, NewTurn
<1>2. Holders = {} /\ Queued = {}
  BY <1>1 DEF Holders, Queued
<1>3. Elems(gate.queue) = {} /\ Distinct(gate.queue)
  BY <1>1 DEF Elems, Distinct
<1>4. Cardinality(Holders) = 0 /\ Permits \in Nat
  BY <1>2, FS_EmptySet, PermitsAssumption
<1>5. gate.free + Cardinality(Holders) + gate.lost = Permits
  BY <1>1, <1>4
<1>6. PermitInv
  BY <1>1, <1>2, <1>3, <1>5 DEF PermitInv
<1>7. KindInv
  BY <1>1 DEF KindInv, Live
<1> QED
  BY <1>6, <1>7

\* ... and every step of the system conserves them.
LEMMA StepPermits ==
  ASSUME Typed, Typed', KindInv, PermitInv, [Next]_vars
  PROVE  PermitInv' /\ KindInv'
<1>1. CASE UNCHANGED vars
  <2>1. Holders' = Holders /\ Queued' = Queued
    BY <1>1 DEF vars, Holders, Queued, IsSdk
  <2>2. PermitInv'
    BY <1>1, <2>1, PermitsUntouched DEF vars
  <2>3. KindInv'
    BY <1>1 DEF vars, KindInv, Live, IsSdk
  <2> QED
    BY <2>2, <2>3
<1>2. ASSUME NEW a \in Asks, Answer(a) PROVE PermitInv' /\ KindInv'
  <2>1. UNCHANGED <<opt, slot, turn, gate>>
    BY <1>2 DEF Answer
  <2>2. Holders' = Holders /\ Queued' = Queued
    BY <2>1 DEF Holders, Queued, IsSdk
  <2>3. KindInv'
    BY <2>1 DEF KindInv, Live, IsSdk
  <2> QED
    BY <2>1, <2>2, <2>3, PermitsUntouched
<1>3. ASSUME NEW s \in Sessions,
             \/ Send(s) \/ release(s) \/ ClockFires(s) \/ Stop(s) \/ End(s) \/ Delete(s)
             \/ \E a \in Asks : AskUser(s, a) \/ Elicit(s, a)
      PROVE  PermitInv' /\ KindInv'
  BY <1>3, SendPermits, OperatorPermits
<1>4. ASSUME NEW s \in Sessions, Executor(s) \/ PassEnds(s)
      PROVE  PermitInv' /\ KindInv'
  BY <1>4, EnginePermits, GrantPermits, ChildPermits DEF Executor, PassEnds
<1>5. CASE CrashRestart \/ \E s \in Sessions : OrphanTimerFires(s)
  BY <1>5, RebootPermits DEF CrashRestart, OrphanTimerFires
<1> QED
  BY <1>1, <1>2, <1>3, <1>4, <1>5 DEF Next

\* Through queueing, stops, deletions, cleanups and restarts the gate neither loses nor
\* duplicates a permit, but for sessions deleted while their turn was queued; nobody queues
\* while a permit is free.
THEOREM PermitsHold == Spec => []PermitsConserved
<1> DEFINE Inv == TypeOK /\ KindInv /\ PermitInv
<1>1. Init => Inv
  BY InitTyped, InitPermits
<1>2. Inv /\ [Next]_vars => Inv'
  <2> SUFFICES ASSUME Inv, [Next]_vars PROVE Inv'
    OBVIOUS
  <2>1. TypeOK' /\ Typed /\ Typed'
    BY StepTyped, TypedIsTypeOK
  <2> QED
    BY <2>1, StepPermits
<1>3. Inv => PermitsConserved
  BY DEF PermitInv, PermitsConserved, Elems, Queued
<1> QED
  BY <1>1, <1>2, <1>3, PTL DEF Spec

-----------------------------------------------------------------------------
(* Asks, clocks and rows. *)

\* An open ask has an owner.
OwnersInv == \A a \in Asks : ask[a].st # "free" => ask[a].owner \in Sessions

\* The asks, the clock, the turn and the row of a session agree: RunningIsTimed and the
\* waits of WaitsBracketed, and where in the turn a status can be what it is.
TimedInv(s) ==
  /\ clock[s] = "waiting" <=> Waiting(s) # {}
  /\ Waiting(s) # {} => turn[s].pc = "streaming" /\ ~CutOff(s)
  /\ Mailboxes(s) # {} => Live(s)
  /\ Live(s) /\ ~row[s].present => turn[s].aborted
  /\ turn[s].pc \in {"gate", "granted"} => ~turn[s].settled
  /\ ~IsSdk(s) => clock[s] # "fired"
  /\ ~IsSdk(s) /\ turn[s].pc \in {"preparing", "streaming"} => (turn[s].aborted => turn[s].settled)
  /\ row[s].present =>
       /\ row[s].status = "running" <=> clock[s] \in {"running", "waiting", "fired"}
       /\ row[s].phase = "waiting_input" <=> clock[s] = "waiting"
       /\ turn[s].pc \in {"idle", "gate", "granted", "cleaning", "routing"} => row[s].status # "running"
       /\ turn[s].settled => row[s].status # "running"
       /\ turn[s].pc = "streaming" /\ ~turn[s].settled => row[s].status = "running"
       /\ ~IsSdk(s) /\ turn[s].pc = "preparing" /\ ~turn[s].settled => row[s].status = "running"

\* An MCP server is routed to a streaming turn of the engine.
RouteInv ==
  /\ hitl.bound = {s \in Sessions : IsSdk(s) /\ turn[s].pc = "streaming"}
  /\ hitl.route # NoSession => hitl.route \in hitl.bound

\* The asks of t stay as they are.
AsksKept(t) == Waiting(t)' = Waiting(t) /\ Mailboxes(t)' = Mailboxes(t)

\* What abandoning ...
LEMMA AsksAbandoned ==
  ASSUME Typed, OwnersInv, NEW s \in Sessions, ask' = Abandoned(s)
  PROVE  /\ Waiting(s)' = {} /\ Mailboxes(s)' = Mailboxes(s) /\ OwnersInv'
         /\ \A t \in Sessions : t # s => AsksKept(t)
<1>1. \A a \in Asks : /\ a \in Waiting(s) => ask'[a].st = "abandoned" /\ ask'[a].owner = ask[a].owner
                      /\ a \notin Waiting(s) => ask'[a] = ask[a]
  BY DEF Abandoned, Typed, AskType
<1>2. \A a \in Waiting(s) : a \in Asks /\ ask[a].owner = s /\ ask[a].st = "waiting"
  BY DEF Waiting
<1>3. Waiting(s)' = {}
  BY <1>1, <1>2 DEF Waiting
<1>4. Mailboxes(s)' = Mailboxes(s)
  BY <1>1, <1>2 DEF Mailboxes
<1>5. OwnersInv'
  BY <1>1, <1>2 DEF OwnersInv
<1>6. \A t \in Sessions : t # s => AsksKept(t)
  BY <1>1, <1>2 DEF AsksKept, Waiting, Mailboxes
<1> QED
  BY <1>3, <1>4, <1>5, <1>6

\* ... closing ...
LEMMA AsksClosed ==
  ASSUME Typed, OwnersInv, NEW s \in Sessions, ask' = Close(Mailboxes(s))
  PROVE  /\ Waiting(s)' = {} /\ Mailboxes(s)' = {} /\ OwnersInv'
         /\ \A t \in Sessions : t # s => AsksKept(t)
<1>1. \A a \in Asks : /\ a \in Mailboxes(s) => ask'[a].st = "free" /\ ask'[a].owner = NoSession
                      /\ a \notin Mailboxes(s) => ask'[a] = ask[a]
  BY DEF Close, NoAsk
<1>2. \A a \in Asks : a \in Mailboxes(s) <=> ask[a].owner = s /\ ask[a].st \in {"waiting", "abandoned"}
  BY DEF Mailboxes
<1>3. Waiting(s)' = {} /\ Mailboxes(s)' = {}
  BY <1>1, <1>2 DEF Waiting, Mailboxes
<1>4. OwnersInv'
  BY <1>1 DEF OwnersInv
<1>5. \A t \in Sessions : t # s => AsksKept(t)
  BY <1>1, <1>2 DEF AsksKept, Waiting, Mailboxes
<1> QED
  BY <1>3, <1>4, <1>5

\* ... opening ...
LEMMA AskOpened ==
  ASSUME Typed, OwnersInv, NEW a \in Asks, NEW owner \in Sessions, NEW caller, ask[a].st = "free",
         ask' = [ask EXCEPT ![a] = [st |-> "waiting", owner |-> owner, caller |-> caller]]
  PROVE  /\ Waiting(owner)' # {} /\ OwnersInv'
         /\ \A t \in Sessions : t # owner => AsksKept(t)
<1>1. /\ ask'[a].st = "waiting" /\ ask'[a].owner = owner
      /\ \A b \in Asks : b # a => ask'[b] = ask[b]
  BY DEF Typed
<1>2. a \in Waiting(owner)'
  BY <1>1 DEF Waiting
<1>3. OwnersInv'
  BY <1>1 DEF OwnersInv
<1>4. \A t \in Sessions : t # owner => AsksKept(t)
  BY <1>1 DEF AsksKept, Waiting, Mailboxes
<1> QED
  BY <1>2, <1>3, <1>4

\* ... and answering does to the asks of a session.
LEMMA AskAnswered ==
  ASSUME Typed, OwnersInv, NEW a \in Asks, NEW s \in Sessions, ask[a].owner = s,
         ask[a].st \in {"waiting", "abandoned"}, ask' = Close({a})
  PROVE  /\ ask[a].st = "waiting" => Waiting(s) # {} /\ Waiting(s)' = Waiting(s) \ {a}
         /\ ask[a].st # "waiting" => Waiting(s)' = Waiting(s)
         /\ Mailboxes(s) # {} /\ OwnersInv'
         /\ \A t \in Sessions : t # s => AsksKept(t)
<1>1. /\ ask'[a].st = "free" /\ ask'[a].owner = NoSession
      /\ \A b \in Asks : b # a => ask'[b] = ask[b]
  BY DEF Close, NoAsk
<1>2. a \in Mailboxes(s) /\ (ask[a].st = "waiting" => a \in Waiting(s))
  BY DEF Mailboxes, Waiting
<1>3. Waiting(s)' = Waiting(s) \ {a}
  BY <1>1 DEF Waiting
<1>4. ask[a].st # "waiting" => a \notin Waiting(s)
  BY DEF Waiting
<1>5. OwnersInv'
  BY <1>1 DEF OwnersInv
<1>6. \A t \in Sessions : t # s => AsksKept(t)
  BY <1>1 DEF AsksKept, Waiting, Mailboxes
<1> QED
  BY <1>2, <1>3, <1>4, <1>5, <1>6

\* Nor does a step that leaves the asks alone.
LEMMA AsksSame ==
  ASSUME OwnersInv, ask' = ask
  PROVE  OwnersInv' /\ \A t : AsksKept(t)
BY DEF OwnersInv, AsksKept, Waiting, Mailboxes

\* A session that a step does not touch, or only grants a permit.
Untouched(t) ==
  /\ clock'[t] = clock[t] /\ row'[t] = row[t]
  /\ turn'[t].aborted = turn[t].aborted /\ turn'[t].settled = turn[t].settled
  /\ turn'[t].pc = turn[t].pc \/ (turn[t].pc = "gate" /\ turn'[t].pc = "granted")

\* Such a session stays in agreement.
LEMMA UntouchedTimed ==
  ASSUME NEW t \in Sessions, TimedInv(t), Untouched(t), AsksKept(t), opt' = opt
  PROVE  TimedInv(t)'
BY DEF TimedInv, Untouched, AsksKept, CutOff, Live, IsSdk

\* No route changes.
LEMMA RouteKept ==
  ASSUME RouteInv, hitl' = hitl, opt' = opt,
         \A t \in Sessions : IsSdk(t) => (turn'[t].pc = "streaming" <=> turn[t].pc = "streaming")
  PROVE  RouteInv'
BY DEF RouteInv, IsSdk

\* The routes to a turn go with it.
LEMMA RouteReleased ==
  ASSUME Typed, RouteInv, opt' = opt, NEW s \in Sessions, releaseTurn(s), turn'[s].pc # "streaming",
         \A t \in Sessions : t # s => (IsSdk(t) => (turn'[t].pc = "streaming" <=> turn[t].pc = "streaming"))
  PROVE  RouteInv'
<1>1. hitl'.bound = hitl.bound \ {s} /\ hitl'.route = (IF hitl.route = s THEN NoSession ELSE hitl.route)
  BY DEF releaseTurn
<1>2. hitl'.bound = {t \in Sessions : IsSdk(t)' /\ turn'[t].pc = "streaming"}
  BY <1>1 DEF RouteInv, IsSdk
<1>3. hitl'.route # NoSession => hitl'.route \in hitl'.bound
  BY <1>1 DEF RouteInv
<1> QED
  BY <1>2, <1>3 DEF RouteInv

AgreeInv == OwnersInv /\ RouteInv /\ \A s \in Sessions : TimedInv(s)

\* A step of one session that leaves asks and routes alone.
LEMMA OneSessionAgrees ==
  ASSUME Typed, AgreeInv, opt' = opt, NEW s \in Sessions,
         \A t \in Sessions : t # s => Untouched(t) /\ AsksKept(t),
         TimedInv(s)', OwnersInv', RouteInv'
  PROVE  AgreeInv'
BY UntouchedTimed DEF AgreeInv

\* A message steers, starts a turn or is refused.
LEMMA SendAgrees ==
  ASSUME Typed, KindInv, AgreeInv, NEW s \in Sessions, Send(s)
  PROVE  AgreeInv'
<1>1. opt' = opt /\ ask' = ask /\ hitl' = hitl /\ row[s].present
      /\ row \in [Sessions -> RowType] /\ turn \in [Sessions -> TurnType]
      /\ clock \in [Sessions -> ClockStates] /\ TimedInv(s) /\ OwnersInv /\ RouteInv
  BY DEF Send, Typed, AgreeInv
<1>2. OwnersInv' /\ \A t : AsksKept(t)
  BY <1>1, AsksSame
<1>3. CASE Steer(s) \/ Refuse(s)
  <2>1. UNCHANGED <<row, turn, clock>>
    BY <1>3 DEF Steer, Refuse
  <2>2. \A t \in Sessions : Untouched(t)
    BY <2>1 DEF Untouched
  <2>3. RouteInv'
    BY <1>1, <2>1, RouteKept
  <2> QED
    BY <1>1, <1>2, <2>2, <2>3, UntouchedTimed DEF AgreeInv
<1>4. CASE Dispatch(s)
  <2>1. turn[s].pc = "idle"
    BY <1>4 DEF Dispatch, KindInv, Live
  <2>2. clock[s] # "waiting" /\ Waiting(s) = {} /\ Mailboxes(s) = {} /\ row[s].status # "running"
        /\ row[s].phase # "waiting_input" /\ clock[s] \notin {"running", "waiting", "fired"}
    BY <1>1, <2>1 DEF TimedInv, Live
  <2>3. Waiting(s)' = {} /\ Mailboxes(s)' = {}
    BY <1>2, <2>2 DEF AsksKept
  <2>4. \/ /\ IsSdk(s) /\ turn' = [turn EXCEPT ![s] = NewTurn("preparing")]
           /\ row' = row /\ clock' = clock
        \/ /\ ~IsSdk(s) /\ turn' = [turn EXCEPT ![s] = NewTurn("preparing")]
           /\ row' = RunningRow(s) /\ clock' = [clock EXCEPT ![s] = "running"]
        \/ /\ ~IsSdk(s) /\ turn' = [turn EXCEPT ![s] = NewTurn("gate")]
           /\ row' = [row EXCEPT ![s].phase = "queued"] /\ clock' = clock
    BY <1>4 DEF Dispatch
  <2>5. /\ turn'[s].pc \in {"preparing", "gate"} /\ ~turn'[s].settled /\ ~turn'[s].aborted /\ row'[s].present
        /\ \/ /\ IsSdk(s) /\ turn'[s].pc = "preparing" /\ row'[s] = row[s] /\ clock'[s] = clock[s]
           \/ /\ ~IsSdk(s) /\ turn'[s].pc = "preparing" /\ row'[s].status = "running"
              /\ row'[s].phase = "starting" /\ clock'[s] = "running"
           \/ /\ ~IsSdk(s) /\ turn'[s].pc = "gate" /\ row'[s].status = row[s].status
              /\ row'[s].phase = "queued" /\ clock'[s] = clock[s]
    BY <1>1, <2>4 DEF NewTurn, RunningRow, RowType
  <2>6. \A t \in Sessions : t # s => Untouched(t)
    BY <1>1, <2>4 DEF Untouched, RunningRow
  <2>7. TimedInv(s)'
    BY <1>1, <2>2, <2>3, <2>5 DEF TimedInv, Live, IsSdk
  <2>8. RouteInv'
    <3>1. \A t \in Sessions : turn'[t].pc = "streaming" <=> turn[t].pc = "streaming"
      BY <2>1, <2>5, <2>4, <1>1
    <3> QED
      BY <1>1, <3>1, RouteKept
  <2> QED
    BY <1>1, <1>2, <2>6, <2>7, <2>8, OneSessionAgrees
<1> QED
  BY <1>3, <1>4 DEF Send

\* The end of a turn, from the turn table as it is or with a permit handed on: what the step
\* leaves in the row of s must be at rest.
LEMMA FinishAgrees ==
  ASSUME Typed, AgreeInv, opt' = opt, NEW s \in Sessions, NEW turns \in [Sessions -> TurnType],
         Finish(s, turns),
         \A t \in Sessions : t # s =>
           /\ clock'[t] = clock[t] /\ row'[t] = row[t]
           /\ turns[t].aborted = turn[t].aborted /\ turns[t].settled = turn[t].settled
           /\ turns[t].pc = turn[t].pc \/ (turn[t].pc = "gate" /\ turns[t].pc = "granted"),
         clock'[s] # "waiting", clock'[s] = "fired" => IsSdk(s),
         row'[s].present => /\ row'[s].status # "running" /\ row'[s].phase # "waiting_input"
                            /\ clock'[s] \notin {"running", "waiting", "fired"}
  PROVE  AgreeInv'
<1>1. /\ turn'[s].pc = "idle" /\ ~turn'[s].settled
      /\ \A t \in Sessions : t # s => turn'[t] = turns[t]
  BY FinishIdles
<1>2. releaseTurn(s) /\ ask' = Close(Mailboxes(s))
  BY DEF Finish, releaseTurn
<1>3. /\ Waiting(s)' = {} /\ Mailboxes(s)' = {} /\ OwnersInv'
      /\ \A t \in Sessions : t # s => AsksKept(t)
  BY <1>2, AsksClosed DEF AgreeInv
<1>4. \A t \in Sessions : t # s => Untouched(t)
  BY <1>1 DEF Untouched
<1>5. TimedInv(s)'
  BY <1>1, <1>3 DEF TimedInv, Live, IsSdk
<1>6. RouteInv'
  BY <1>1, <1>2, RouteReleased DEF AgreeInv
<1> QED
  BY <1>3, <1>4, <1>5, <1>6, OneSessionAgrees

\* The engine's tools are there.
LEMMA ToolsAgree ==
  ASSUME Typed, KindInv, AgreeInv, NEW s \in Sessions, ToolsReady(s)
  PROVE  AgreeInv'
<1>1. opt' = opt /\ IsSdk(s) /\ turn[s].pc = "preparing" /\ clock' = [clock EXCEPT ![s] = "running"]
      /\ row \in [Sessions -> RowType] /\ turn \in [Sessions -> TurnType]
      /\ clock \in [Sessions -> ClockStates] /\ TimedInv(s) /\ OwnersInv /\ RouteInv /\ ~turn[s].settled
  BY DEF ToolsReady, Typed, AgreeInv, KindInv
<1>2. clock'[s] = "running" /\ \A t \in Sessions : t # s => clock'[t] = clock[t]
  BY <1>1
<1>3. CASE row[s].present
  <2>1. /\ turn' = [turn EXCEPT ![s].pc = "streaming"] /\ row' = RunningRow(s)
        /\ hitl' = [bound |-> hitl.bound \cup {s}, route |-> s] /\ ask' = ask
    BY <1>3 DEF ToolsReady
  <2>2. OwnersInv' /\ \A t : AsksKept(t)
    BY <1>1, <2>1, AsksSame
  <2>3. /\ turn'[s].pc = "streaming" /\ ~turn'[s].settled /\ row'[s].present
        /\ row'[s].status = "running" /\ row'[s].phase = "starting"
    BY <1>1, <1>3, <2>1 DEF RunningRow, RowType, TurnType
  <2>4. \A t \in Sessions : t # s => turn'[t] = turn[t] /\ row'[t] = row[t]
    BY <1>1, <2>1 DEF RunningRow
  <2>5. \A t \in Sessions : t # s => Untouched(t)
    BY <1>2, <2>4 DEF Untouched
  <2>6. Waiting(s)' = {}
    BY <1>1, <2>2 DEF TimedInv, AsksKept
  <2>7. TimedInv(s)'
    BY <1>1, <1>2, <2>3, <2>6 DEF TimedInv, Live, IsSdk
  <2>8. RouteInv'
    BY <1>1, <2>1, <2>3, <2>4 DEF RouteInv, IsSdk
  <2> QED
    BY <1>1, <2>2, <2>5, <2>7, <2>8, OneSessionAgrees
<1>4. CASE ~row[s].present
  <2>1. Finish(s, turn) /\ row' = row
    BY <1>4 DEF ToolsReady
  <2> QED
    BY <1>1, <1>2, <1>4, <2>1, FinishAgrees
<1> QED
  BY <1>3, <1>4

\* A pass of the engine is over.
LEMMA SdkPassAgrees ==
  ASSUME Typed, KindInv, AgreeInv, NEW s \in Sessions, NEW cause \in PassCauses, SdkPassEnds(s, cause)
  PROVE  AgreeInv'
<1>1. opt' = opt /\ IsSdk(s) /\ turn[s].pc = "streaming"
      /\ row \in [Sessions -> RowType] /\ turn \in [Sessions -> TurnType]
      /\ clock \in [Sessions -> ClockStates] /\ TimedInv(s) /\ OwnersInv /\ RouteInv /\ ~turn[s].settled
  BY DEF SdkPassEnds, Typed, AgreeInv, KindInv
<1>2. CASE ~row[s].present /\ Finish(s, turn) /\ UNCHANGED <<row, clock>>
  <2>1. clock[s] # "waiting"
    BY <1>1, <1>2 DEF TimedInv, CutOff, Live
  <2> QED
    BY <1>1, <1>2, <2>1, FinishAgrees
<1>3. CASE UNCHANGED <<row, slot, turn, clock, ask, hitl>>
  <2>1. OwnersInv' /\ \A t : AsksKept(t)
    BY <1>1, <1>3, AsksSame
  <2>2. \A t \in Sessions : Untouched(t)
    BY <1>3 DEF Untouched
  <2>3. RouteInv'
    BY <1>1, <1>3, RouteKept
  <2> QED
    BY <1>1, <2>1, <2>2, <2>3, UntouchedTimed DEF AgreeInv
<1>4. CASE /\ clock' = [clock EXCEPT ![s] = "stopped"]
           /\ row' = [row EXCEPT ![s].status = StatusFor(SdkCause(s, cause)), ![s].phase = "none"]
           /\ \/ /\ turn' = [turn EXCEPT ![s].pc = "routing"]
                 /\ releaseTurn(s)
                 /\ UNCHANGED <<slot, steering>>
              \/ Finish(s, turn)
  <2>1. SdkCause(s, cause) \in PassCauses \cup {"user_stop", "stalled", "auth", "session_ended"}
    BY DEF SdkCause
  <2>2. StatusFor(SdkCause(s, cause)) # "running"
    BY <2>1, VerdictsEnd
  <2>3. /\ clock'[s] = "stopped" /\ row'[s].status # "running" /\ row'[s].phase = "none"
        /\ \A t \in Sessions : t # s => clock'[t] = clock[t] /\ row'[t] = row[t]
    BY <1>1, <1>4, <2>2 DEF RowType
  <2>4. CASE Finish(s, turn)
    BY <1>1, <2>3, <2>4, FinishAgrees
  <2>5. CASE turn' = [turn EXCEPT ![s].pc = "routing"] /\ releaseTurn(s)
    <3>1. turn'[s].pc = "routing" /\ turn'[s].aborted = turn[s].aborted
          /\ \A t \in Sessions : t # s => turn'[t] = turn[t]
      BY <1>1, <2>5 DEF TurnType
    <3>2. row'[s].present = row[s].present
      BY <1>1, <1>4 DEF RowType
    <3>3. /\ Waiting(s)' = {} /\ Mailboxes(s)' = {} /\ OwnersInv'
          /\ \A t \in Sessions : t # s => AsksKept(t)
      BY <1>1, <2>5, AsksClosed DEF releaseTurn
    <3>4. \A t \in Sessions : t # s => Untouched(t)
      BY <2>3, <3>1 DEF Untouched
    <3>5. TimedInv(s)'
      BY <1>1, <2>3, <3>1, <3>2, <3>3 DEF TimedInv, Live
    <3>6. RouteInv'
      BY <1>1, <2>5, <3>1, RouteReleased
    <3> QED
      BY <1>1, <3>3, <3>4, <3>5, <3>6, OneSessionAgrees
  <2> QED
    BY <1>4, <2>4, <2>5
<1> QED
  BY <1>2, <1>3, <1>4 DEF SdkPassEnds

\* A child's execution returns: its row is at rest, and it releases or routes.
LEMMA ReturnAgrees ==
  ASSUME Typed, KindInv, AgreeInv, opt' = opt, NEW s \in Sessions, NEW turns \in [Sessions -> TurnType],
         ~IsSdk(s), Live(s), Return(s, turns), turns[s].aborted = turn[s].aborted,
         turn[s].pc # "streaming",
         \A t \in Sessions : t # s =>
           /\ clock'[t] = clock[t] /\ row'[t] = row[t]
           /\ turns[t].aborted = turn[t].aborted /\ turns[t].settled = turn[t].settled
           /\ turns[t].pc = turn[t].pc \/ (turn[t].pc = "gate" /\ turns[t].pc = "granted"),
         clock'[s] \notin {"waiting", "fired"}, row'[s].present = row[s].present,
         row'[s].present => /\ row'[s].status # "running" /\ row'[s].phase # "waiting_input"
                            /\ clock'[s] \notin {"running", "waiting", "fired"}
  PROVE  AgreeInv'
<1>1. CASE Finish(s, turns)
  BY <1>1, FinishAgrees
<1>2. CASE turn' = [turns EXCEPT ![s].pc = "routing"] /\ UNCHANGED <<slot, steering, ask, hitl>>
  <2>1. turn'[s].pc = "routing" /\ turn'[s].aborted = turn[s].aborted
        /\ \A t \in Sessions : t # s => turn'[t] = turns[t]
    BY <1>2 DEF TurnType
  <2>2. TimedInv(s) /\ OwnersInv /\ RouteInv
    BY DEF AgreeInv
  <2>3. OwnersInv' /\ \A t : AsksKept(t)
    BY <1>2, <2>2, AsksSame
  <2>4. \A t \in Sessions : t # s => Untouched(t)
    BY <2>1 DEF Untouched
  <2>5. Waiting(s)' = {}
    BY <2>2, <2>3 DEF TimedInv, AsksKept
  <2>6. TimedInv(s)'
    BY <2>1, <2>2, <2>5 DEF TimedInv, Live, IsSdk
  <2>7. \A t \in Sessions : IsSdk(t) => (turn'[t].pc = "streaming" <=> turn[t].pc = "streaming")
    BY <2>1
  <2>8. RouteInv'
    BY <1>2, <2>2, <2>7, RouteKept
  <2> QED
    BY <2>3, <2>4, <2>6, <2>8, OneSessionAgrees
<1> QED
  BY <1>1, <1>2 DEF Return

\* The turn table after a release moves at most the first of the queue.
LEMMA ReleaseMoves ==
  ASSUME Typed, KindInv, PermitInv
  PROVE  /\ TurnsAfterRelease \in [Sessions -> TurnType]
         /\ \A t \in Sessions :
              /\ TurnsAfterRelease[t].aborted = turn[t].aborted
              /\ TurnsAfterRelease[t].settled = turn[t].settled
              /\ \/ TurnsAfterRelease[t].pc = turn[t].pc
                 \/ turn[t].pc = "gate" /\ TurnsAfterRelease[t].pc = "granted"
<1>1. TurnsAfterRelease \in [Sessions -> TurnType]
  BY TypedIsTypeOK, GateTyped
<1>2. CASE gate.queue = <<>>
  BY <1>1, <1>2 DEF TurnsAfterRelease
<1>3. CASE gate.queue # <<>>
  BY <1>1, <1>3, GrantedNext
<1> QED
  BY <1>1, <1>2, <1>3

\* The continuation of a granted permit.
LEMMA GrantAgrees ==
  ASSUME Typed, KindInv, PermitInv, AgreeInv, NEW s \in Sessions, GateGranted(s)
  PROVE  AgreeInv'
<1>1. opt' = opt /\ ~IsSdk(s) /\ turn[s].pc = "granted" /\ Live(s)
      /\ row \in [Sessions -> RowType] /\ turn \in [Sessions -> TurnType]
      /\ clock \in [Sessions -> ClockStates] /\ TimedInv(s) /\ OwnersInv /\ RouteInv
  BY DEF GateGranted, Typed, AgreeInv, KindInv, Live
<1>2. clock[s] \notin {"waiting", "fired"} /\ Waiting(s) = {}
  BY <1>1 DEF TimedInv
<1>3. CASE GrantedDeleted(s)
  BY <1>1, <1>2, <1>3, FinishAgrees DEF GrantedDeleted
<1>4. CASE GrantedStopped(s)
  <2>1. /\ row' = [row EXCEPT ![s].status = StatusFor("user_stop"), ![s].phase = "none"]
        /\ clock' = [clock EXCEPT ![s] = "stopped"] /\ Return(s, TurnsAfterRelease)
    BY <1>4 DEF GrantedStopped, StopQueued
  <2>2. StatusFor("user_stop") # "running"
    BY VerdictsEnd
  <2>3. /\ clock'[s] = "stopped" /\ row'[s].status # "running" /\ row'[s].phase = "none"
        /\ row'[s].present = row[s].present
        /\ \A t \in Sessions : t # s => clock'[t] = clock[t] /\ row'[t] = row[t]
    BY <1>1, <2>1, <2>2 DEF RowType
  <2> QED
    BY <1>1, <2>1, <2>3, ReleaseMoves, ReturnAgrees
<1>5. CASE GrantedStarts(s)
  <2>1. /\ ~turn[s].aborted /\ row[s].present /\ row' = RunningRow(s) /\ clock' = [clock EXCEPT ![s] = "running"]
        /\ turn' = [turn EXCEPT ![s].pc = "preparing"] /\ ask' = ask /\ hitl' = hitl
    BY <1>5 DEF GrantedStarts
  <2>2. OwnersInv' /\ \A t : AsksKept(t)
    BY <1>1, <2>1, AsksSame
  <2>3. /\ turn'[s].pc = "preparing" /\ ~turn'[s].settled /\ ~turn'[s].aborted /\ row'[s].present /\ clock'[s] = "running"
        /\ row'[s].status = "running" /\ row'[s].phase = "starting"
    BY <1>1, <2>1 DEF RunningRow, RowType, TurnType, TimedInv
  <2>4. \A t \in Sessions : t # s => turn'[t] = turn[t] /\ row'[t] = row[t] /\ clock'[t] = clock[t]
    BY <1>1, <2>1 DEF RunningRow
  <2>5. \A t \in Sessions : t # s => Untouched(t)
    BY <2>4 DEF Untouched
  <2>6. Waiting(s)' = {}
    BY <1>2, <2>2 DEF AsksKept
  <2>7. TimedInv(s)'
    BY <1>1, <2>3, <2>6 DEF TimedInv, Live, IsSdk
  <2>8. RouteInv'
    BY <1>1, <2>1, <2>3, <2>4, RouteKept
  <2> QED
    BY <1>1, <2>2, <2>5, <2>7, <2>8, OneSessionAgrees
<1> QED
  BY <1>3, <1>4, <1>5 DEF GateGranted

\* A child's verdict: its row is at rest and its asks are abandoned.
LEMMA SettleAgrees ==
  ASSUME Typed, AgreeInv, opt' = opt, hitl' = hitl, NEW s \in Sessions, ~IsSdk(s), Live(s),
         NEW cause \in PassCauses \cup {"user_stop", "stalled", "auth"}, NEW pc \in Pcs,
         pc \notin {"idle", "gate", "granted"}, Settle(s, cause, pc)
  PROVE  AgreeInv'
<1>1. row \in [Sessions -> RowType] /\ turn \in [Sessions -> TurnType]
      /\ clock \in [Sessions -> ClockStates] /\ TimedInv(s) /\ OwnersInv /\ RouteInv
  BY DEF Typed, AgreeInv
<1>2. StatusFor(cause) # "running"
  BY VerdictsEnd
<1>3. /\ clock'[s] = "stopped" /\ row'[s].status # "running" /\ row'[s].phase = "none"
      /\ row'[s].present = row[s].present
      /\ turn'[s].settled /\ turn'[s].pc = pc /\ turn'[s].aborted = turn[s].aborted
  BY <1>1, <1>2 DEF Settle, RowType, TurnType
<1>4. \A t \in Sessions : t # s => turn'[t] = turn[t] /\ row'[t] = row[t] /\ clock'[t] = clock[t]
  BY <1>1 DEF Settle
<1>5. /\ Waiting(s)' = {} /\ Mailboxes(s)' = Mailboxes(s) /\ OwnersInv'
      /\ \A t \in Sessions : t # s => AsksKept(t)
  BY <1>1, AsksAbandoned DEF Settle
<1>6. \A t \in Sessions : t # s => Untouched(t)
  BY <1>4 DEF Untouched
<1>7. TimedInv(s)'
  BY <1>1, <1>3, <1>5 DEF TimedInv, Live
<1>8. \A t \in Sessions : IsSdk(t) => (turn'[t].pc = "streaming" <=> turn[t].pc = "streaming")
  BY <1>4
<1>9. RouteInv'
  BY <1>1, <1>8, RouteKept
<1> QED
  BY <1>5, <1>6, <1>7, <1>9, OneSessionAgrees

\* The other steps of a child.
LEMMA ChildAgrees ==
  ASSUME Typed, KindInv, PermitInv, AgreeInv, NEW s \in Sessions,
         \/ ChildReady(s) \/ CleanupDone(s) \/ RoutingDone(s)
         \/ \E cause \in PassCauses : ChildPassEnds(s, cause)
  PROVE  AgreeInv'
<1>0. row \in [Sessions -> RowType] /\ turn \in [Sessions -> TurnType]
      /\ clock \in [Sessions -> ClockStates] /\ TimedInv(s) /\ OwnersInv /\ RouteInv
  BY DEF Typed, AgreeInv
<1>1. CASE CleanupDone(s)
  <2>1. opt' = opt /\ turn[s].pc = "cleaning" /\ row' = row /\ clock' = clock /\ Return(s, TurnsAfterRelease)
    BY <1>1 DEF CleanupDone
  <2>2. ~IsSdk(s) /\ Live(s) /\ clock[s] \notin {"waiting", "fired"}
        /\ (row[s].present => /\ row[s].status # "running" /\ row[s].phase # "waiting_input"
                              /\ clock[s] \notin {"running", "waiting", "fired"})
    BY <1>0, <2>1 DEF KindInv, TimedInv, Live
  <2> QED
    BY <2>1, <2>2, ReleaseMoves, ReturnAgrees
<1>2. CASE RoutingDone(s)
  <2>1. opt' = opt /\ turn[s].pc = "routing" /\ row' = row /\ clock' = clock /\ Finish(s, turn)
    BY <1>2 DEF RoutingDone
  <2>2. clock[s] # "waiting" /\ (clock[s] = "fired" => IsSdk(s))
        /\ (row[s].present => /\ row[s].status # "running" /\ row[s].phase # "waiting_input"
                              /\ clock[s] \notin {"running", "waiting", "fired"})
    BY <1>0, <2>1 DEF TimedInv
  <2> QED
    BY <1>0, <2>1, <2>2, FinishAgrees
<1>3. ASSUME opt' = opt, hitl' = hitl, ~IsSdk(s), turn[s].pc \in {"preparing", "streaming"},
             UNCHANGED <<row, clock, ask>>,
             \/ turn' = turn
             \/ turn[s].settled /\ turn' = [turn EXCEPT ![s].pc = "cleaning"]
             \/ ~turn[s].settled /\ turn' = [turn EXCEPT ![s].pc = "streaming"]
      PROVE  AgreeInv'
  <2>1. OwnersInv' /\ \A t : AsksKept(t)
    BY <1>0, <1>3, AsksSame
  <2>2. \A t \in Sessions : t # s => turn'[t] = turn[t]
    BY <1>0, <1>3
  <2>3. \A t \in Sessions : t # s => Untouched(t)
    BY <1>3, <2>2 DEF Untouched
  <2>4. /\ turn'[s].aborted = turn[s].aborted /\ turn'[s].settled = turn[s].settled
        /\ \/ turn'[s].pc = turn[s].pc
           \/ turn[s].settled /\ turn'[s].pc = "cleaning"
           \/ ~turn[s].settled /\ turn'[s].pc = "streaming"
    BY <1>0, <1>3 DEF TurnType
  <2>5. turn[s].settled /\ row[s].present => row[s].status # "running"
    BY <1>0 DEF TimedInv
  <2>6. TimedInv(s)'
    BY <1>0, <1>3, <2>1, <2>4, <2>5 DEF TimedInv, AsksKept, Live, IsSdk, CutOff
  <2>7. \A t \in Sessions : IsSdk(t) => (turn'[t].pc = "streaming" <=> turn[t].pc = "streaming")
    BY <1>3, <2>2
  <2>8. RouteInv'
    BY <1>0, <1>3, <2>7, RouteKept
  <2> QED
    BY <1>3, <2>1, <2>3, <2>6, <2>8, OneSessionAgrees
<1>4. CASE ChildReady(s)
  <2>1. opt' = opt /\ hitl' = hitl /\ ~IsSdk(s) /\ turn[s].pc = "preparing" /\ Live(s) /\ "cleaning" \in Pcs
    BY <1>4 DEF ChildReady, Live, Pcs
  <2>2. CASE Settle(s, "auth", "cleaning")
    BY <2>1, <2>2, SettleAgrees
  <2>3. CASE /\ turn' = [turn EXCEPT ![s].pc = IF turn[s].settled THEN "cleaning" ELSE "streaming"]
             /\ UNCHANGED <<row, clock, ask>>
    <3>1. turn[s].settled \in BOOLEAN
      BY <1>0 DEF TurnType
    <3> QED
      BY <1>3, <2>1, <2>3, <3>1
  <2> QED
    BY <1>4, <2>2, <2>3 DEF ChildReady
<1>5. ASSUME NEW cause \in PassCauses, ChildPassEnds(s, cause)
      PROVE  AgreeInv'
  <2>1. opt' = opt /\ hitl' = hitl /\ ~IsSdk(s) /\ turn[s].pc = "streaming" /\ Live(s) /\ "cleaning" \in Pcs
    BY <1>5 DEF ChildPassEnds, Live, Pcs
  <2>2. CASE Settle(s, cause, "cleaning")
    BY <2>1, <2>2, SettleAgrees
  <2>3. CASE /\ turn[s].settled /\ turn' = [turn EXCEPT ![s].pc = "cleaning"]
             /\ UNCHANGED <<row, clock, ask>>
    BY <1>3, <2>1, <2>3
  <2>4. CASE UNCHANGED <<row, turn, clock, ask>>
    BY <1>3, <2>1, <2>4
  <2> QED
    BY <1>5, <2>2, <2>3, <2>4 DEF ChildPassEnds
<1> QED
  BY <1>1, <1>2, <1>4, <1>5

\* The clock fires in a turn of the engine or of a child.
LEMMA ClockAgrees ==
  ASSUME Typed, KindInv, AgreeInv, NEW s \in Sessions, ClockFires(s)
  PROVE  AgreeInv'
<1>1. /\ opt' = opt /\ hitl' = hitl /\ row[s].present /\ clock[s] \in {"running", "waiting"}
      /\ row \in [Sessions -> RowType] /\ turn \in [Sessions -> TurnType]
      /\ clock \in [Sessions -> ClockStates] /\ TimedInv(s) /\ OwnersInv /\ RouteInv
  BY DEF ClockFires, TimerIsDue, Armed, Typed, AgreeInv
<1>2. row[s].status = "running" /\ turn[s].pc \notin {"idle", "gate", "granted"} /\ turn[s].pc \in Pcs
  BY <1>1 DEF TimedInv, TurnType
<1>3. CASE IsSdk(s)
  <2>1. /\ clock' = [clock EXCEPT ![s] = "fired"] /\ ask' = Abandoned(s)
        /\ row' = ClearWait(s) /\ turn' = turn
    BY <1>3 DEF ClockFires
  <2>2. /\ clock'[s] = "fired" /\ row'[s].present /\ row'[s].status = row[s].status
        /\ row'[s].phase # "waiting_input"
        /\ \A t \in Sessions : t # s => row'[t] = row[t] /\ clock'[t] = clock[t]
    BY <1>1, <2>1 DEF ClearWait, RowType
  <2>3. /\ Waiting(s)' = {} /\ Mailboxes(s)' = Mailboxes(s) /\ OwnersInv'
        /\ \A t \in Sessions : t # s => AsksKept(t)
    BY <1>1, <2>1, AsksAbandoned
  <2>4. \A t \in Sessions : t # s => Untouched(t)
    BY <2>1, <2>2 DEF Untouched
  <2>5. TimedInv(s)'
    BY <1>1, <1>2, <1>3, <2>1, <2>2, <2>3 DEF TimedInv, Live, IsSdk
  <2>6. RouteInv'
    BY <1>1, <2>1, RouteKept
  <2> QED
    BY <1>1, <2>3, <2>4, <2>5, <2>6, OneSessionAgrees
<1>4. CASE ~IsSdk(s)
  <2>1. Settle(s, "stalled", turn[s].pc)
    BY <1>4 DEF ClockFires
  <2>2. Live(s)
    BY <1>2 DEF Live
  <2> QED
    BY <1>1, <1>2, <1>4, <2>1, <2>2, SettleAgrees
<1> QED
  BY <1>3, <1>4

\* What an abort leaves of the clock, and of the row unless that goes: the two ways of it.
LEMMA AbortAgrees ==
  ASSUME Typed, KindInv, AgreeInv, opt' = opt, hitl' = hitl, NEW s \in Sessions, row[s].present,
         ask' = Abandoned(s), \A t \in Sessions : t # s => row'[t] = row[t],
         row'[s].present => /\ row'[s].phase # "waiting_input"
                            /\ Settleable(s) => row'[s].status # "running"
                            /\ ~Settleable(s) => row'[s].status = row[s].status,
         \/ /\ Settleable(s)
            /\ clock' = [clock EXCEPT ![s] = "stopped"]
            /\ turn' = [turn EXCEPT ![s].settled = TRUE, ![s].aborted = TRUE]
         \/ /\ ~Settleable(s)
            /\ turn' = IF Live(s) THEN [turn EXCEPT ![s].aborted = TRUE] ELSE turn
            /\ clock' = IF clock[s] = "waiting" THEN [clock EXCEPT ![s] = "running"] ELSE clock
  PROVE  AgreeInv'
<1>1. /\ row \in [Sessions -> RowType] /\ turn \in [Sessions -> TurnType]
      /\ clock \in [Sessions -> ClockStates] /\ TimedInv(s) /\ OwnersInv /\ RouteInv
  BY DEF Typed, AgreeInv
<1>2. /\ Waiting(s)' = {} /\ Mailboxes(s)' = Mailboxes(s) /\ OwnersInv'
      /\ \A t \in Sessions : t # s => AsksKept(t)
  BY <1>1, AsksAbandoned
<1>3. \A t \in Sessions : t # s => turn'[t] = turn[t] /\ clock'[t] = clock[t]
  BY <1>1
<1>4. turn'[s].pc = turn[s].pc /\ (Live(s) => turn'[s].aborted) /\ clock'[s] # "waiting"
      /\ (Settleable(s) => turn'[s].settled /\ clock'[s] = "stopped")
  BY <1>1 DEF TurnType, Settleable, Live
<1>5. ~Settleable(s) => /\ turn'[s].settled = turn[s].settled
                        /\ clock'[s] = "fired" <=> clock[s] = "fired"
                        /\ clock'[s] \in {"running", "waiting", "fired"}
                             <=> clock[s] \in {"running", "waiting", "fired"}
  BY <1>1 DEF TurnType
<1>6. \A t \in Sessions : t # s => Untouched(t)
  BY <1>3 DEF Untouched
<1>7. TimedInv(s)'
  <2>1. CASE Settleable(s)
    BY <1>1, <1>2, <1>4, <2>1 DEF TimedInv, Live, IsSdk, Settleable
  <2>2. CASE ~Settleable(s)
    <3>1. ~IsSdk(s) /\ turn[s].pc \in {"preparing", "streaming"} => turn[s].settled
      BY <1>1, <2>2 DEF Settleable, TurnType
    <3> QED
      BY <1>1, <1>2, <1>4, <1>5, <2>2, <3>1 DEF TimedInv, Live, IsSdk
  <2> QED
    BY <2>1, <2>2
<1>8. RouteInv'
  BY <1>1, <1>3, <1>4, RouteKept
<1> QED
  BY <1>2, <1>6, <1>7, <1>8, OneSessionAgrees

\* The operator stops, ends or deletes a session.
LEMMA OperatorAgrees ==
  ASSUME Typed, KindInv, AgreeInv, NEW s \in Sessions, Stop(s) \/ End(s) \/ Delete(s)
  PROVE  AgreeInv'
<1>1. /\ opt' = opt /\ hitl' = hitl /\ row[s].present
      /\ row \in [Sessions -> RowType] /\ turn \in [Sessions -> TurnType]
      /\ clock \in [Sessions -> ClockStates] /\ TimedInv(s) /\ OwnersInv /\ RouteInv
  BY DEF Stop, End, Delete, Typed, AgreeInv
<1>2. CASE Stop(s)
  <2>1. Abort(s)
    BY <1>2 DEF Stop
  <2>2. /\ \A t \in Sessions : t # s => row'[t] = row[t]
        /\ row'[s].phase # "waiting_input"
        /\ Settleable(s) => row'[s].status # "running"
        /\ ~Settleable(s) => row'[s].status = row[s].status
    <3>1. CASE Settleable(s)
      <4>1. row' = [row EXCEPT ![s].status = StatusFor("user_stop"), ![s].phase = "none"]
        BY <2>1, <3>1 DEF Abort
      <4>2. StatusFor("user_stop") # "running"
        BY VerdictsEnd
      <4> QED
        BY <1>1, <3>1, <4>1, <4>2 DEF RowType
    <3>2. CASE ~Settleable(s)
      <4>1. row' = ClearWait(s)
        BY <2>1, <3>2 DEF Abort
      <4> QED
        BY <1>1, <3>2, <4>1 DEF ClearWait, RowType
    <3> QED
      BY <3>1, <3>2
  <2>3. ask' = Abandoned(s)
    BY <2>1 DEF Abort
  <2>4. \/ /\ Settleable(s)
           /\ clock' = [clock EXCEPT ![s] = "stopped"]
           /\ turn' = [turn EXCEPT ![s].settled = TRUE, ![s].aborted = TRUE]
        \/ /\ ~Settleable(s)
           /\ turn' = IF Live(s) THEN [turn EXCEPT ![s].aborted = TRUE] ELSE turn
           /\ clock' = IF clock[s] = "waiting" THEN [clock EXCEPT ![s] = "running"] ELSE clock
    BY <2>1 DEF Abort
  <2> QED
    BY <1>1, <2>2, <2>3, <2>4, AbortAgrees
<1>3. CASE End(s)
  <2>1. /\ row' = [row EXCEPT ![s].status = StatusFor("session_ended"), ![s].phase = "none"]
        /\ UNCHANGED <<turn, clock, ask>> /\ slot[s] # "running"
    BY <1>3 DEF End
  <2>2. StatusFor("session_ended") # "running"
    BY VerdictsEnd
  <2>3. /\ row'[s].status # "running" /\ row'[s].phase = "none" /\ row'[s].present
        /\ \A t \in Sessions : t # s => row'[t] = row[t]
    BY <1>1, <2>1, <2>2 DEF RowType
  <2>4. turn[s].pc = "idle"
    BY <2>1 DEF KindInv, Live
  <2>5. OwnersInv' /\ \A t : AsksKept(t)
    BY <1>1, <2>1, AsksSame
  <2>6. clock[s] \notin {"running", "waiting", "fired"} /\ Waiting(s)' = {} /\ Mailboxes(s)' = {}
    BY <1>1, <2>4, <2>5 DEF TimedInv, Live, AsksKept
  <2>7. TimedInv(s)'
    BY <2>1, <2>3, <2>4, <2>6 DEF TimedInv, Live
  <2>8. \A t \in Sessions : t # s => Untouched(t)
    BY <2>1, <2>3 DEF Untouched
  <2>9. RouteInv'
    BY <1>1, <2>1, RouteKept
  <2> QED
    BY <1>1, <2>5, <2>7, <2>8, <2>9, OneSessionAgrees
<1>4. CASE Delete(s)
  <2>1. row' = [row EXCEPT ![s] = NoRow] /\ ask' = Abandoned(s)
    BY <1>4 DEF Delete
  <2>2. ~row'[s].present /\ \A t \in Sessions : t # s => row'[t] = row[t]
    BY <1>1, <2>1 DEF NoRow
  <2>3. \/ /\ Settleable(s)
           /\ clock' = [clock EXCEPT ![s] = "stopped"]
           /\ turn' = [turn EXCEPT ![s].settled = TRUE, ![s].aborted = TRUE]
        \/ /\ ~Settleable(s)
           /\ turn' = IF Live(s) THEN [turn EXCEPT ![s].aborted = TRUE] ELSE turn
           /\ clock' = IF clock[s] = "waiting" THEN [clock EXCEPT ![s] = "running"] ELSE clock
    BY <1>4 DEF Delete
  <2> QED
    BY <1>1, <2>1, <2>2, <2>3, AbortAgrees
<1> QED
  BY <1>2, <1>3, <1>4

\* A question or an elicitation of the owner's turn opens.
LEMMA WaitAgrees ==
  ASSUME Typed, KindInv, AgreeInv, NEW a \in Asks, NEW owner \in Sessions, NEW caller \in Sessions,
         ask[a].st = "free", turn[owner].pc = "streaming", ~CutOff(owner),
         BeginWait(a, owner, caller)
  PROVE  AgreeInv'
<1>1. /\ opt' = opt /\ hitl' = hitl /\ turn' = turn
      /\ ask' = [ask EXCEPT ![a] = [st |-> "waiting", owner |-> owner, caller |-> caller]]
      /\ clock' = [clock EXCEPT ![owner] = "waiting"]
      /\ row' = [row EXCEPT ![owner].phase = "waiting_input"]
      /\ row \in [Sessions -> RowType] /\ turn \in [Sessions -> TurnType]
      /\ clock \in [Sessions -> ClockStates] /\ TimedInv(owner) /\ OwnersInv /\ RouteInv
  BY DEF BeginWait, Typed, AgreeInv
<1>2. row[owner].present /\ row[owner].status = "running" /\ Live(owner)
  BY <1>1 DEF TimedInv, CutOff, Live
<1>3. /\ clock'[owner] = "waiting" /\ row'[owner].phase = "waiting_input"
      /\ row'[owner].present /\ row'[owner].status = "running"
      /\ \A t \in Sessions : t # owner => clock'[t] = clock[t] /\ row'[t] = row[t]
  BY <1>1, <1>2 DEF RowType
<1>4. Waiting(owner)' # {} /\ OwnersInv' /\ \A t \in Sessions : t # owner => AsksKept(t)
  BY <1>1, AskOpened
<1>5. \A t \in Sessions : t # owner => Untouched(t)
  BY <1>1, <1>3 DEF Untouched
<1>6. TimedInv(owner)'
  BY <1>1, <1>2, <1>3, <1>4 DEF TimedInv, CutOff, Live, IsSdk
<1>7. RouteInv'
  BY <1>1, RouteKept
<1> QED
  BY <1>1, <1>4, <1>5, <1>6, <1>7, OneSessionAgrees

\* The model asks, or a tool's server elicits from the session that was bound last.
LEMMA AskingAgrees ==
  ASSUME Typed, KindInv, AgreeInv, NEW s \in Sessions, NEW a \in Asks, AskUser(s, a) \/ Elicit(s, a)
  PROVE  AgreeInv'
<1>1. CASE AskUser(s, a)
  BY <1>1, WaitAgrees DEF AskUser
<1>2. CASE Elicit(s, a)
  <2>1. hitl.route \in hitl.bound /\ ~CutOff(hitl.route) /\ ask[a].st = "free"
        /\ BeginWait(a, hitl.route, s)
    BY <1>2 DEF Elicit
  <2>2. hitl.route \in Sessions /\ turn[hitl.route].pc = "streaming"
    BY <2>1 DEF AgreeInv, RouteInv
  <2> QED
    BY <2>1, <2>2, WaitAgrees
<1> QED
  BY <1>1, <1>2

\* The operator answers.
LEMMA AnswerAgrees ==
  ASSUME Typed, KindInv, AgreeInv, NEW a \in Asks, Answer(a)
  PROVE  AgreeInv'
<1>1. PICK s \in Sessions : ask[a].owner = s
  BY DEF Answer, AgreeInv, OwnersInv
<1>2. /\ opt' = opt /\ hitl' = hitl /\ turn' = turn /\ ask' = Close({a}) /\ row[s].present
      /\ ask[a].st \in {"waiting", "abandoned"}
      /\ row \in [Sessions -> RowType] /\ turn \in [Sessions -> TurnType]
      /\ clock \in [Sessions -> ClockStates] /\ TimedInv(s) /\ OwnersInv /\ RouteInv
  BY <1>1 DEF Answer, Typed, AgreeInv
<1>3. IF ask[a].st = "waiting" /\ EndsWait(s, a)
      THEN clock' = [clock EXCEPT ![s] = "running"] /\ row' = [row EXCEPT ![s].phase = "none"]
      ELSE UNCHANGED <<clock, row>>
  BY <1>1 DEF Answer
<1>5. /\ ask[a].st = "waiting" => Waiting(s) # {} /\ Waiting(s)' = Waiting(s) \ {a}
      /\ ask[a].st # "waiting" => Waiting(s)' = Waiting(s)
      /\ Mailboxes(s) # {} /\ OwnersInv'
      /\ \A t \in Sessions : t # s => AsksKept(t)
  BY <1>1, <1>2, AskAnswered
<1>6. Live(s) /\ Live(s)'
  BY <1>2, <1>5 DEF TimedInv, Live
<1>7. \A t \in Sessions : t # s => clock'[t] = clock[t] /\ row'[t] = row[t]
  BY <1>1, <1>2, <1>3
<1>8. TimedInv(s)'
  <2>1. CASE ask[a].st = "waiting" /\ EndsWait(s, a)
    <3>1. Waiting(s)' = {} /\ clock[s] = "waiting"
      BY <1>2, <1>5, <2>1 DEF EndsWait, TimedInv
    <3>2. /\ clock'[s] = "running" /\ row'[s].phase = "none" /\ row'[s].present
          /\ row'[s].status = row[s].status
      BY <1>1, <1>2, <1>3, <2>1 DEF RowType
    <3> QED
      BY <1>2, <1>6, <3>1, <3>2 DEF TimedInv, IsSdk
  <2>2. CASE ~(ask[a].st = "waiting" /\ EndsWait(s, a))
    <3>1. Waiting(s)' # {} <=> Waiting(s) # {}
      BY <1>5, <2>2 DEF EndsWait
    <3>2. row' = row /\ clock' = clock
      BY <1>3, <2>2
    <3> QED
      BY <1>2, <1>6, <3>1, <3>2 DEF TimedInv, IsSdk, CutOff
  <2> QED
    BY <2>1, <2>2
<1>9. \A t \in Sessions : t # s => Untouched(t)
  BY <1>2, <1>7 DEF Untouched
<1>10. RouteInv'
  BY <1>2, RouteKept
<1> QED
  BY <1>1, <1>2, <1>5, <1>8, <1>9, <1>10, OneSessionAgrees

\* After a restart no turn, no clock and no ask is left, and no row says running.
LEMMA RebootAgrees ==
  ASSUME Typed, AgreeInv, Reboot
  PROVE  AgreeInv'
<1>1. /\ \A s \in Sessions : turn'[s].pc = "idle" /\ ~turn'[s].settled /\ clock'[s] = "off"
      /\ \A a \in Asks : ask'[a] = NoAsk
      /\ hitl' = [bound |-> {}, route |-> NoSession]
      /\ row' = Reconcile
  BY DEF Reboot, NewTurn
<1>2. OwnersInv' /\ \A s \in Sessions : Waiting(s)' = {} /\ Mailboxes(s)' = {}
  BY <1>1 DEF OwnersInv, Waiting, Mailboxes, NoAsk
<1>3. RouteInv'
  BY <1>1 DEF RouteInv
<1>4. ASSUME NEW s \in Sessions PROVE TimedInv(s)'
  <2>1. row[s] \in RowType /\ TimedInv(s)
    BY DEF Typed, AgreeInv
  <2>2. row'[s].present => row'[s].status # "running" /\ row'[s].phase # "waiting_input"
    <3>1. CASE row[s].status = "running"
      BY <1>1, <2>1, <3>1 DEF Reconcile, RowType
    <3>2. CASE row[s].status # "running"
      BY <1>1, <2>1, <3>2 DEF Reconcile, TimedInv
    <3> QED
      BY <3>1, <3>2
  <2> QED
    BY <1>1, <1>2, <2>2 DEF TimedInv, Live
<1> QED
  BY <1>2, <1>3, <1>4 DEF AgreeInv

\* Initially nothing runs.
LEMMA InitAgrees == Init => AgreeInv
<1> SUFFICES ASSUME Init PROVE AgreeInv
  OBVIOUS
<1>1. /\ \A s \in Sessions : /\ turn[s].pc = "idle" /\ ~turn[s].settled /\ clock[s] = "off"
                             /\ row[s].status = "pending" /\ row[s].phase = "none"
      /\ \A a \in Asks : ask[a] = NoAsk
      /\ hitl = [bound |-> {}, route |-> NoSession]
  BY DEF Init, NewTurn, NoRow
<1>2. OwnersInv /\ \A s \in Sessions : Waiting(s) = {} /\ Mailboxes(s) = {}
  BY <1>1 DEF OwnersInv, Waiting, Mailboxes, NoAsk
<1>3. RouteInv
  BY <1>1 DEF RouteInv
<1>4. \A s \in Sessions : TimedInv(s)
  BY <1>1, <1>2 DEF TimedInv, Live
<1> QED
  BY <1>2, <1>3, <1>4 DEF AgreeInv

\* Every step keeps asks, clocks, turns and rows in agreement.
LEMMA StepAgrees ==
  ASSUME Typed, KindInv, PermitInv, AgreeInv, [Next]_vars
  PROVE  AgreeInv'
<1>1. ASSUME UNCHANGED <<opt, row, turn, clock, ask, hitl>> PROVE AgreeInv'
  <2>1. OwnersInv' /\ \A t : AsksKept(t)
    BY <1>1, AsksSame DEF AgreeInv
  <2>2. \A t \in Sessions : Untouched(t)
    BY <1>1 DEF Untouched
  <2>3. RouteInv'
    BY <1>1, RouteKept DEF AgreeInv
  <2> QED
    BY <1>1, <2>1, <2>2, <2>3, UntouchedTimed DEF AgreeInv
<1>2. CASE UNCHANGED vars
  BY <1>1, <1>2 DEF vars
<1>3. ASSUME NEW s \in Sessions, Send(s) \/ release(s) \/ ClockFires(s) PROVE AgreeInv'
  BY <1>1, <1>3, SendAgrees, ClockAgrees DEF release
<1>4. ASSUME NEW s \in Sessions, Executor(s) \/ PassEnds(s) PROVE AgreeInv'
  BY <1>4, ToolsAgree, GrantAgrees, ChildAgrees, SdkPassAgrees DEF Executor, PassEnds
<1>5. ASSUME NEW s \in Sessions,
             Stop(s) \/ End(s) \/ Delete(s) \/ \E a \in Asks : AskUser(s, a) \/ Elicit(s, a)
      PROVE  AgreeInv'
  BY <1>5, OperatorAgrees, AskingAgrees
<1>6. CASE CrashRestart \/ \E s \in Sessions : OrphanTimerFires(s)
  BY <1>6, RebootAgrees DEF CrashRestart, OrphanTimerFires
<1> QED
  BY <1>2, <1>3, <1>4, <1>5, <1>6, AnswerAgrees DEF Next

\* The invariant that carries both theorems below: types, permits, asks, clocks and rows.
Agreed == TypeOK /\ KindInv /\ PermitInv /\ AgreeInv

\* It holds initially and every step keeps it.
LEMMA AgreedIsInductive == (Init => Agreed) /\ (Agreed /\ [Next]_vars => Agreed')
<1>1. Init => Agreed
  BY InitTyped, InitPermits, InitAgrees DEF Agreed
<1>2. Agreed /\ [Next]_vars => Agreed'
  <2> SUFFICES ASSUME Agreed, [Next]_vars PROVE Agreed'
    OBVIOUS
  <2>1. TypeOK' /\ Typed /\ Typed'
    BY StepTyped, TypedIsTypeOK DEF Agreed
  <2>2. PermitInv' /\ KindInv'
    BY <2>1, StepPermits DEF Agreed
  <2>3. AgreeInv'
    BY <2>1, StepAgrees DEF Agreed
  <2> QED
    BY <2>1, <2>2, <2>3 DEF Agreed
<1> QED
  BY <1>1, <1>2

\* A session says running exactly while a turn of its own with a clock executes, and
\* waiting_input exactly while that clock is paused: through steering, stops in the queue,
\* deletions, clocks that fire and restarts.
THEOREM RunningTimed == Spec => []RunningIsTimed
<1>1. Agreed => RunningIsTimed
  BY DEF Agreed, AgreeInv, TimedInv, RunningIsTimed, Live
<1> QED
  BY <1>1, AgreedIsInductive, PTL DEF Spec

\* A turn's clock is paused exactly while one of its asks is open, no mailbox outlives its
\* turn, and an MCP server is routed only to a streaming turn.
THEOREM WaitsHold == Spec => []WaitsBracketed
<1>1. Agreed => WaitsBracketed
  BY DEF Agreed, AgreeInv, TimedInv, RouteInv, WaitsBracketed
<1> QED
  BY <1>1, AgreedIsInductive, PTL DEF Spec

-----------------------------------------------------------------------------
(* Steering. *)

\* Only a turn without a cause of its own completes.
LEMMA CauseOfCompletion ==
  \A cause \in PassCauses \cup {"user_stop", "stalled", "auth", "session_ended"} :
    StatusFor(cause) = "completed" => cause = "none"
BY DEF StatusFor, PassCauses, terminalFor, CleanCompletion, ErrorCauses, BudgetCauses, ClockCauses

\* The status of t, written as a verdict of s.
LEMMA VerdictOf ==
  ASSUME Typed, NEW s \in Sessions, NEW t \in Sessions,
         NEW cause \in PassCauses \cup {"user_stop", "stalled", "auth", "session_ended"},
         row' = [row EXCEPT ![s].status = StatusFor(cause), ![s].phase = "none"],
         row[t].status = "running", row'[t].status = "completed"
  PROVE  t = s /\ cause = "none"
<1>1. row[t] \in RowType /\ row[s] \in RowType /\ row \in [Sessions -> RowType]
  BY DEF Typed
<1>2. t = s
  BY <1>1
<1>3. StatusFor(cause) = "completed"
  BY <1>1, <1>2 DEF RowType
<1> QED
  BY <1>2, <1>3, CauseOfCompletion

\* A pass whose verdict completes the turn found no pending message.
LEMMA PassDrains ==
  ASSUME Typed, KindInv, AgreeInv, NEW s \in Sessions, NEW t \in Sessions,
         NEW cause \in PassCauses, SdkPassEnds(s, cause) \/ ChildPassEnds(s, cause),
         row[t].status = "running", row'[t].status = "completed"
  PROVE  steering[t].pending = 0
<1>1. steering[s].pending \in Nat /\ TimedInv(s)
  BY DEF Typed, SteerType, AgreeInv
<1>2. CASE SdkPassEnds(s, cause)
  <2>1. /\ row' = [row EXCEPT ![s].status = StatusFor(SdkCause(s, cause)), ![s].phase = "none"]
        /\ ~Steers(s, cause) /\ IsSdk(s)
    BY <1>2 DEF SdkPassEnds
  <2>2. SdkCause(s, cause) \in PassCauses \cup {"user_stop", "stalled", "auth", "session_ended"}
    BY DEF SdkCause
  <2>3. t = s /\ SdkCause(s, cause) = "none"
    BY <2>1, <2>2, VerdictOf
  <2>4. cause = "none" /\ ~CutOff(s)
    BY <2>1, <2>3 DEF SdkCause, CutOff, KindInv
  <2> QED
    BY <1>1, <2>1, <2>3, <2>4 DEF Steers
<1>3. CASE ChildPassEnds(s, cause)
  <2>1. /\ Settle(s, cause, "cleaning") /\ ~turn[s].settled /\ ~Steers(s, cause)
        /\ ~IsSdk(s) /\ turn[s].pc = "streaming"
    BY <1>3 DEF ChildPassEnds
  <2>2. t = s /\ cause = "none"
    <3>1. row' = [row EXCEPT ![s].status = StatusFor(cause), ![s].phase = "none"]
      BY <2>1 DEF Settle
    <3>2. cause \in PassCauses \cup {"user_stop", "stalled", "auth", "session_ended"}
      OBVIOUS
    <3> QED
      BY <3>1, <3>2, VerdictOf
  <2>3. ~CutOff(s)
    BY <1>1, <2>1 DEF TimedInv, CutOff
  <2> QED
    BY <1>1, <2>1, <2>2, <2>3 DEF Steers
<1> QED
  BY <1>2, <1>3

\* No other step completes a turn.
LEMMA OnlyPassesComplete ==
  ASSUME Typed, [Next]_vars, \A s \in Sessions : ~PassEnds(s), NEW t \in Sessions,
         row[t].status = "running"
  PROVE  row'[t].status # "completed"
<1>1. row \in [Sessions -> RowType] /\ row[t] \in RowType
  BY DEF Typed
<1>2. CASE row' = row
  BY <1>2
<1>3. ASSUME NEW s \in Sessions, NEW cause \in {"user_stop", "stalled", "auth", "session_ended"},
             row' = [row EXCEPT ![s].status = StatusFor(cause), ![s].phase = "none"]
      PROVE  row'[t].status # "completed"
  BY <1>1, <1>3, VerdictOf
<1>4. ASSUME NEW s \in Sessions,
             \/ row' = RunningRow(s) \/ row' = ClearWait(s) \/ row' = [row EXCEPT ![s] = NoRow]
             \/ \E phase \in HubPhases : row' = [row EXCEPT ![s].phase = phase]
      PROVE  row'[t].status # "completed"
  <2>1. CASE row' = RunningRow(s)
    BY <1>1, <2>1 DEF RunningRow, RowType
  <2>2. CASE row' = [row EXCEPT ![s] = NoRow]
    BY <1>1, <2>2 DEF NoRow
  <2>3. CASE row' = ClearWait(s) \/ \E phase \in HubPhases : row' = [row EXCEPT ![s].phase = phase]
    BY <1>1, <2>3 DEF ClearWait, RowType
  <2> QED
    BY <1>4, <2>1, <2>2, <2>3
<1>5. CASE UNCHANGED vars
  BY <1>2, <1>5 DEF vars
<1>6. ASSUME NEW s \in Sessions, Send(s) \/ release(s) \/ Executor(s)
      PROVE  row'[t].status # "completed"
  <2>1. CASE Send(s)
    <3>1. row' = row \/ row' = RunningRow(s) \/ row' = [row EXCEPT ![s].phase = "queued"]
      BY <2>1 DEF Send, Steer, Dispatch, Refuse
    <3> QED
      BY <1>2, <1>4, <3>1 DEF HubPhases
  <2>2. CASE release(s) \/ CleanupDone(s) \/ RoutingDone(s)
    BY <1>2, <2>2 DEF release, CleanupDone, RoutingDone
  <2>3. CASE ToolsReady(s)
    <3>1. row' = row \/ row' = RunningRow(s)
      BY <2>3 DEF ToolsReady
    <3> QED
      BY <1>2, <1>4, <3>1
  <2>4. CASE GateGranted(s)
    <3>1. \/ row' = row \/ row' = RunningRow(s)
          \/ row' = [row EXCEPT ![s].status = StatusFor("user_stop"), ![s].phase = "none"]
      BY <2>4 DEF GateGranted, GrantedDeleted, GrantedStopped, StopQueued, GrantedStarts
    <3> QED
      BY <1>2, <1>3, <1>4, <3>1
  <2>5. CASE ChildReady(s)
    <3>1. row' = row \/ row' = [row EXCEPT ![s].status = StatusFor("auth"), ![s].phase = "none"]
      BY <2>5 DEF ChildReady, Settle
    <3> QED
      BY <1>2, <1>3, <3>1
  <2> QED
    BY <1>6, <2>1, <2>2, <2>3, <2>4, <2>5 DEF Executor
<1>7. ASSUME NEW s \in Sessions, ClockFires(s) \/ Stop(s) \/ End(s) \/ Delete(s)
      PROVE  row'[t].status # "completed"
  <2>1. \/ row' = ClearWait(s) \/ row' = [row EXCEPT ![s] = NoRow]
        \/ \E cause \in {"user_stop", "stalled", "auth", "session_ended"} :
             row' = [row EXCEPT ![s].status = StatusFor(cause), ![s].phase = "none"]
    BY <1>7 DEF ClockFires, Settle, Stop, Abort, End, Delete
  <2> QED
    BY <1>3, <1>4, <2>1
<1>8. ASSUME NEW s \in Sessions, NEW a \in Asks, AskUser(s, a) \/ Elicit(s, a)
      PROVE  row'[t].status # "completed"
  <2>1. row' = [row EXCEPT ![s].phase = "waiting_input"]
        \/ row' = [row EXCEPT ![hitl.route].phase = "waiting_input"]
    BY <1>8 DEF AskUser, Elicit, BeginWait
  <2>2. row'[t].status = row[t].status
    BY <1>1, <2>1 DEF RowType
  <2> QED
    BY <2>2
<1>9. ASSUME NEW a \in Asks, Answer(a) PROVE row'[t].status # "completed"
  <2>1. row' = row \/ row' = [row EXCEPT ![ask[a].owner].phase = "none"]
    BY <1>9 DEF Answer
  <2>2. row'[t].status = row[t].status
    BY <1>1, <2>1 DEF RowType
  <2> QED
    BY <2>2
<1>10. CASE CrashRestart \/ \E s \in Sessions : OrphanTimerFires(s)
  <2>1. row' = Reconcile
    BY <1>10 DEF CrashRestart, OrphanTimerFires, Reboot
  <2>2. row'[t].status = "aborted"
    BY <1>1, <2>1 DEF Reconcile, RowType
  <2> QED
    BY <2>2
<1> QED
  BY <1>5, <1>6, <1>7, <1>8, <1>9, <1>10 DEF Next

\* A turn completes only when every message that steered it was injected, on either
\* executor and whatever stops, clocks and restarts come between.
THEOREM CompletionsDrain == Spec => CompletionDrains
<1>1. Agreed /\ [Next]_vars =>
        [\A s \in Sessions :
           row[s].status = "running" /\ row'[s].status = "completed" => steering[s].pending = 0]_vars
  <2> SUFFICES ASSUME Agreed, [Next]_vars, NEW s \in Sessions,
                      row[s].status = "running", row'[s].status = "completed"
               PROVE  steering[s].pending = 0
    OBVIOUS
  <2>1. Typed /\ KindInv /\ AgreeInv
    BY TypedIsTypeOK DEF Agreed
  <2>2. PICK t \in Sessions : PassEnds(t)
    BY <2>1, OnlyPassesComplete
  <2> QED
    BY <2>1, <2>2, PassDrains DEF PassEnds
<1> QED
  BY <1>1, AgreedIsInductive, PTL DEF Spec, CompletionDrains
=============================================================================
