------------------------------- MODULE HubTurn -------------------------------
(***************************************************************************)
(* The foreground turns of the Assistant hub: HubSessionService's live     *)
(* slots and its dispatch, the two turn executors (the AI-SDK engine and   *)
(* the Claude-subscription child behind its concurrency gate), the steering*)
(* queue, the human-in-the-loop registry, the session clock and the        *)
(* handlers that send, stop, end, delete and answer.                       *)
(*                                                                         *)
(* The process is single-threaded.  An action is one macrotask with the    *)
(* promise continuations it starts; the model resolver of production is    *)
(* synchronous, so a message is dispatched in one macrotask.               *)
(***************************************************************************)
EXTENDS Naturals, Sequences, FiniteSets, RunVerdicts

CONSTANTS
  Sessions,     \* the hub sessions
  NoSession,    \* no session
  Asks,         \* the asks (questions, elicitations) that can be open at a time
  Permits,      \* permits of the subscription gate
  MaxMessages,  \* bound: messages posted
  MaxCrashes    \* bound: crashes of the process

ASSUME SessionsAssumption == IsFiniteSet(Sessions) /\ NoSession \notin Sessions
ASSUME PermitsAssumption == Permits \in Nat \ {0}
ASSUME MaxAssumption == MaxMessages \in Nat /\ MaxCrashes \in Nat

VARIABLES
  opt,      \* configuration: each session's backend, the grace window, the slot cap
  row,      \* the hub_sessions rows
  slot,     \* HubSessionService.live
  turn,     \* where each session's turn is
  clock,    \* the SessionClock of each session's latest turn
  steering, \* per session: messages pending in its steering queue, and messages
            \* persisted as queued that no queue holds any more
  ask,      \* the open questions and elicitations, with their mailboxes
  hitl,     \* the bound elicitation responders, and the session an MCP server is routed to
  gate,     \* the subscription gate
  posted,   \* how many messages were posted
  crashes   \* how often the process crashed

vars == <<opt, row, slot, turn, clock, steering, ask, hitl, gate, posted, crashes>>

Backends == {"sdk", "subscription"}
SlotStates == {"none", "running", "grace"}
Pcs == {"idle", "gate", "granted", "preparing", "streaming", "cleaning", "routing"}
ClockStates == {"off", "running", "waiting", "fired", "stopped"}
HubPhases == {"none", "queued", "starting", "waiting_input"}
\* The causes the executors report by themselves: one per verdict.
PassCauses == {"none", "provider_error", "max_cost"}

IsSdk(s) == opt.backend[s] = "sdk"
Live(s) == turn[s].pc # "idle"
Armed(s) == clock[s] \in {"running", "waiting"}
NewTurn(pc) == [pc |-> pc, aborted |-> FALSE, settled |-> FALSE]
NoAsk == [st |-> "free", owner |-> NoSession, caller |-> NoSession]
\* Mutation: the row gets the outcome of the verdict.
OutcomeFor(cause) == IF cause = "none" THEN CleanCompletion.outcome ELSE terminalFor(cause).outcome
StatusFor(cause) == IF cause = "none" THEN CleanCompletion.status ELSE terminalFor(cause).status

-----------------------------------------------------------------------------
\* HubHitlCoordinator.

\* The asks s owns that the operator can still answer: the mailbox is there.
Mailboxes(s) == {a \in Asks : ask[a].owner = s /\ ask[a].st \in {"waiting", "abandoned"}}
Waiting(s) == {a \in Asks : ask[a].owner = s /\ ask[a].st = "waiting"}
Close(as) == [a \in Asks |-> IF a \in as THEN NoAsk ELSE ask[a]]

\* raceAbort: an abort gives every tool call that waits its default; the mailboxes stay.
Abandoned(s) ==
  [a \in Asks |-> IF a \in Waiting(s) THEN [ask[a] EXCEPT !.st = "abandoned"] ELSE ask[a]]

\* releaseTurn: the responder, the routes to it and every mailbox of s go.
releaseTurn(s) ==
  /\ ask' = Close(Mailboxes(s))
  /\ hitl' = [bound |-> hitl.bound \ {s},
              route |-> IF hitl.route = s THEN NoSession ELSE hitl.route]

-----------------------------------------------------------------------------
\* Slots and the steering queue.

\* The queue of s after n of its messages were injected, and when its slot is gone.
Injected(s, n) == [steering EXCEPT ![s].pending = @ - n]
Strand(q) == [pending |-> 0, stranded |-> q.stranded + q.pending]

\* The slot after its turn: released at once or after the grace window.
scheduleRelease(s) == slot' = [slot EXCEPT ![s] = IF opt.grace THEN "grace" ELSE "none"]

\* dispatchMessage's finally: the slot, the HITL state and the pending list of s
\* go (a slot reused within its grace window gets a new list); turns is the turn
\* table to start from.
Finish(s, turns) ==
  /\ turn' = [turns EXCEPT ![s] = NewTurn("idle")]
  /\ scheduleRelease(s)
  /\ steering' = [steering EXCEPT ![s] = Strand(@)]
  /\ releaseTurn(s)

\* The executor returned: an `auto` session whose turn proposed a mission awaits
\* maybeRouteAutoMission first.
Return(s, turns) ==
  \/ /\ turn' = [turns EXCEPT ![s].pc = "routing"]
     /\ UNCHANGED <<slot, steering, ask, hitl>>
  \/ Finish(s, turns)

-----------------------------------------------------------------------------
\* The subscription gate (AsyncSemaphore).
Holders == {s \in Sessions : ~IsSdk(s) /\ turn[s].pc \in {"granted", "preparing", "streaming", "cleaning"}}

\* release() hands the permit to the first waiter or returns it.
GateAfterRelease ==
  IF gate.queue = <<>> THEN [gate EXCEPT !.free = @ + 1] ELSE [gate EXCEPT !.queue = Tail(@)]
TurnsAfterRelease ==
  IF gate.queue = <<>> THEN turn ELSE [turn EXCEPT ![Head(gate.queue)].pc = "granted"]

\* The child's `running` row and its clock.
RunningRow(s) == [row EXCEPT ![s].status = "running", ![s].phase = "starting"]

-----------------------------------------------------------------------------
\* Sending.  A message to a running turn steers it ...
Steer(s) ==
  /\ slot[s] = "running"
  /\ steering' = [steering EXCEPT ![s].pending = @ + 1]
  /\ UNCHANGED <<row, slot, turn, clock, gate>>

\* acquireSlot: an in-grace slot is reused, a new one is subject to the cap.
CanAcquire(s) ==
  \/ slot[s] = "grace"
  \/ slot[s] = "none" /\ Cardinality({t \in Sessions : slot[t] # "none"}) < opt.cap

\* ... a message to an idle session starts a turn: the engine's tools are resolved
\* first, the child goes through the gate ...
Dispatch(s) ==
  /\ slot[s] # "running" /\ CanAcquire(s)
  /\ slot' = [slot EXCEPT ![s] = "running"]
  /\ UNCHANGED steering
  /\ \/ /\ IsSdk(s)
        /\ turn' = [turn EXCEPT ![s] = NewTurn("preparing")]
        /\ UNCHANGED <<row, clock, gate>>
     \/ /\ ~IsSdk(s) /\ gate.free > 0
        /\ gate' = [gate EXCEPT !.free = @ - 1]
        /\ turn' = [turn EXCEPT ![s] = NewTurn("preparing")]
        /\ row' = RunningRow(s)
        /\ clock' = [clock EXCEPT ![s] = "running"]
     \/ /\ ~IsSdk(s) /\ gate.free = 0
        /\ gate' = [gate EXCEPT !.queue = Append(@, s)]
        /\ turn' = [turn EXCEPT ![s] = NewTurn("gate")]
        /\ row' = [row EXCEPT ![s].phase = "queued"]
        /\ UNCHANGED clock

\* ... and a session over the cap is refused after the 202.
Refuse(s) ==
  /\ slot[s] # "running" /\ ~CanAcquire(s)
  /\ UNCHANGED <<row, slot, turn, clock, steering, gate>>

Send(s) ==
  /\ row[s].present /\ posted < MaxMessages
  /\ posted' = posted + 1
  /\ Steer(s) \/ Dispatch(s) \/ Refuse(s)
  /\ UNCHANGED <<opt, ask, hitl, crashes>>

-----------------------------------------------------------------------------
\* The engine's turn (runHubTurn).

\* The toolset is resolved: the clock starts, the responder is bound to the
\* servers granted, the row says running.  A row deleted meanwhile makes the
\* write throw, with the clock running.
ToolsReady(s) ==
  /\ IsSdk(s) /\ turn[s].pc = "preparing"
  /\ clock' = [clock EXCEPT ![s] = "running"]
  /\ IF row[s].present
     THEN /\ turn' = [turn EXCEPT ![s].pc = "streaming"]
          /\ row' = RunningRow(s)
          /\ hitl' = [bound |-> hitl.bound \cup {s}, route |-> s]
          /\ UNCHANGED <<slot, steering, ask>>
     ELSE Finish(s, turn) /\ UNCHANGED row
  /\ UNCHANGED <<opt, gate, posted, crashes>>

\* An abort lets the stream end whatever it waits for.
CutOff(s) == turn[s].aborted \/ turn[s].settled \/ clock[s] = "fired"
ToolsAnswered(s) == \A a \in Asks : ask[a].caller = s => ask[a].st # "waiting"

\* The verdict of the turn whose last pass ended with cause.
SdkCause(s, cause) ==
  IF turn[s].aborted THEN "user_stop" ELSE IF clock[s] = "fired" THEN "stalled" ELSE cause

\* Mutation: the loop does not look for messages that came during the last pass.
SteersOnNothing(s, cause) == FALSE
\* The steering loop goes on: nothing abnormal, and a message came meanwhile.
Steers(s, cause) == ~CutOff(s) /\ cause = "none" /\ steering[s].pending > 0

\* A pass is over: its reply is persisted, which throws if the row is gone; the
\* pending messages are injected and a new pass begins; or the turn gets its
\* verdict, its clock stopped and its HITL state released.
SdkPassEnds(s, cause) ==
  /\ IsSdk(s) /\ turn[s].pc = "streaming"
  /\ CutOff(s) \/ ToolsAnswered(s)
  /\ \/ /\ ~row[s].present
        /\ Finish(s, turn)
        /\ UNCHANGED <<row, clock>>
     \/ /\ row[s].present /\ Steers(s, cause)
        /\ steering' = Injected(s, steering[s].pending)
        /\ UNCHANGED <<row, slot, turn, clock, ask, hitl>>
     \/ /\ row[s].present /\ ~Steers(s, cause)
        /\ clock' = [clock EXCEPT ![s] = "stopped"]
        /\ row' = [row EXCEPT ![s].status = StatusFor(SdkCause(s, cause)), ![s].phase = "none"]
        /\ \/ /\ turn' = [turn EXCEPT ![s].pc = "routing"]
              /\ releaseTurn(s)
              /\ UNCHANGED <<slot, steering>>
           \/ Finish(s, turn)
  /\ UNCHANGED <<opt, gate, posted, crashes>>

-----------------------------------------------------------------------------
\* The child's turn (runHubSubscriptionTurn).

\* stopFor and finalize: the verdict is written and the clock stopped before the
\* child is aborted; idempotent.
Settle(s, cause, pc) ==
  /\ row' = [row EXCEPT ![s].status = StatusFor(cause), ![s].phase = "none"]
  /\ clock' = [clock EXCEPT ![s] = "stopped"]
  /\ turn' = [turn EXCEPT ![s].settled = TRUE, ![s].pc = pc]
  /\ ask' = Abandoned(s)

\* The continuation of release() for a queued turn.  The `starting` event throws
\* outside the try if the row is gone;
GrantedDeleted(s) ==
  /\ ~row[s].present
  /\ gate' = [gate EXCEPT !.lost = @ + 1]
  /\ Finish(s, turn)
  /\ UNCHANGED <<row, clock>>

StopQueued(s) ==
  /\ row[s].present /\ turn[s].aborted
  /\ row' = [row EXCEPT ![s].status = StatusFor("user_stop"), ![s].phase = "none"]
  /\ clock' = [clock EXCEPT ![s] = "stopped"]

\* Mutation: it returns without a release.
GrantedStoppedEarly(s) == StopQueued(s) /\ Return(s, turn) /\ UNCHANGED gate
\* a turn stopped meanwhile is settled and gives the permit back;
GrantedStopped(s) == StopQueued(s) /\ Return(s, TurnsAfterRelease) /\ gate' = GateAfterRelease

\* any other begins.
GrantedStarts(s) ==
  /\ row[s].present /\ ~turn[s].aborted
  /\ row' = RunningRow(s)
  /\ clock' = [clock EXCEPT ![s] = "running"]
  /\ turn' = [turn EXCEPT ![s].pc = "preparing"]
  /\ UNCHANGED <<slot, steering, ask, hitl, gate>>

GateGranted(s) ==
  /\ turn[s].pc = "granted"
  /\ GrantedDeleted(s) \/ GrantedStopped(s) \/ GrantedStarts(s)
  /\ UNCHANGED <<opt, posted, crashes>>

\* The workspace and the tools are there, or cannot be had; a settled turn only
\* cleans up.
ChildReady(s) ==
  /\ ~IsSdk(s) /\ turn[s].pc = "preparing"
  /\ \/ /\ turn' = [turn EXCEPT ![s].pc = IF turn[s].settled THEN "cleaning" ELSE "streaming"]
        /\ UNCHANGED <<row, clock, ask>>
     \/ ~turn[s].settled /\ Settle(s, "auth", "cleaning")
  /\ UNCHANGED <<opt, slot, steering, hitl, gate, posted, crashes>>

\* One send on the warm child is over: queued messages follow one at a time.
ChildPassEnds(s, cause) ==
  /\ ~IsSdk(s) /\ turn[s].pc = "streaming"
  /\ CutOff(s) \/ ToolsAnswered(s)
  /\ \/ /\ turn[s].settled
        /\ turn' = [turn EXCEPT ![s].pc = "cleaning"]
        /\ UNCHANGED <<row, clock, steering, ask>>
     \/ /\ Steers(s, cause)
        /\ steering' = Injected(s, 1)
        /\ UNCHANGED <<row, turn, clock, ask>>
     \/ /\ ~turn[s].settled /\ ~Steers(s, cause)
        /\ Settle(s, cause, "cleaning")
        /\ UNCHANGED steering
  /\ UNCHANGED <<opt, slot, hitl, gate, posted, crashes>>

\* The workspace is removed and the permit released.
CleanupDone(s) ==
  /\ turn[s].pc = "cleaning"
  /\ gate' = GateAfterRelease
  /\ Return(s, TurnsAfterRelease)
  /\ UNCHANGED <<opt, row, clock, posted, crashes>>

RoutingDone(s) ==
  /\ turn[s].pc = "routing"
  /\ Finish(s, turn)
  /\ UNCHANGED <<opt, row, clock, gate, posted, crashes>>

\* The grace window is over.
release(s) ==
  /\ slot[s] = "grace"
  /\ slot' = [slot EXCEPT ![s] = "none"]
  /\ UNCHANGED <<opt, row, turn, clock, steering, ask, hitl, gate, posted, crashes>>

-----------------------------------------------------------------------------
\* Human in the loop.

\* beginWait: the first wait of a turn pauses its clock.
BeginWait(a, owner, caller) ==
  /\ ask' = [ask EXCEPT ![a] = [st |-> "waiting", owner |-> owner, caller |-> caller]]
  /\ clock' = [clock EXCEPT ![owner] = "waiting"]
  /\ row' = [row EXCEPT ![owner].phase = "waiting_input"]
  /\ UNCHANGED <<opt, slot, turn, steering, hitl, gate, posted, crashes>>

\* The model of s asks the operator (ask_user); a child blocks on one call at a time.
AskUser(s, a) ==
  /\ ask[a].st = "free" /\ turn[s].pc = "streaming" /\ ~CutOff(s)
  /\ IsSdk(s) \/ clock[s] = "running"
  /\ BeginWait(a, s, s)

\* A tool of s makes the pooled server elicit: handleElicitation routes to the
\* session that was bound to the server last, and declines if none is.
Elicit(s, a) ==
  LET owner == hitl.route
  IN /\ ask[a].st = "free" /\ IsSdk(s) /\ turn[s].pc = "streaming" /\ ~CutOff(s)
     /\ owner \in hitl.bound /\ ~CutOff(owner)
     /\ BeginWait(a, owner, s)

\* Mutation: the wait is not counted: the first answer resumes the clock.
EndWaitAtOnce(s, a) == TRUE
\* endWait: the last wait of a turn resumes its clock.
EndsWait(s, a) == Waiting(s) = {a}

\* The operator answers: a mailbox is resolved, also one whose tool call has
\* taken its default already.
Answer(a) ==
  LET s == ask[a].owner
  IN /\ ask[a].st \in {"waiting", "abandoned"} /\ row[s].present
     /\ ask' = Close({a})
     /\ IF ask[a].st = "waiting" /\ EndsWait(s, a)
        THEN /\ clock' = [clock EXCEPT ![s] = "running"]
             /\ row' = [row EXCEPT ![s].phase = "none"]
        ELSE UNCHANGED <<clock, row>>
     /\ UNCHANGED <<opt, slot, turn, steering, hitl, gate, posted, crashes>>

-----------------------------------------------------------------------------
\* The clock and the operator.

ClearWait(s) == IF row[s].phase = "waiting_input" THEN [row EXCEPT ![s].phase = "none"] ELSE row

\* Mutation: a wait has no budget.
StallIsDue(s) == clock[s] = "running"
\* The stall, wait or cap timer of a turn is due: onFire.
TimerIsDue(s) == Armed(s)
ClockFires(s) ==
  /\ row[s].present /\ TimerIsDue(s)
  /\ IF IsSdk(s)
     THEN /\ clock' = [clock EXCEPT ![s] = "fired"]
          /\ ask' = Abandoned(s)
          /\ row' = ClearWait(s)
          /\ UNCHANGED turn
     ELSE Settle(s, "stalled", turn[s].pc)
  /\ UNCHANGED <<opt, slot, steering, hitl, gate, posted, crashes>>

\* The child's abort listener is attached once its row says running.
Settleable(s) == ~IsSdk(s) /\ turn[s].pc \in {"preparing", "streaming"} /\ ~turn[s].settled

\* stop(): the slot's controller is aborted.
Abort(s) ==
  IF Settleable(s)
  THEN /\ row' = [row EXCEPT ![s].status = StatusFor("user_stop"), ![s].phase = "none"]
       /\ clock' = [clock EXCEPT ![s] = "stopped"]
       /\ turn' = [turn EXCEPT ![s].settled = TRUE, ![s].aborted = TRUE]
       /\ ask' = Abandoned(s)
  ELSE /\ turn' = IF Live(s) THEN [turn EXCEPT ![s].aborted = TRUE] ELSE turn
       /\ clock' = IF clock[s] = "waiting" THEN [clock EXCEPT ![s] = "running"] ELSE clock
       /\ ask' = Abandoned(s)
       /\ row' = ClearWait(s)

Stop(s) ==
  /\ row[s].present /\ slot[s] = "running" /\ ~turn[s].aborted
  /\ Abort(s)
  /\ UNCHANGED <<opt, slot, steering, hitl, gate, posted, crashes>>

\* POST /end is refused while a turn runs.
End(s) ==
  /\ row[s].present /\ slot[s] # "running" /\ row[s].status # "ended"
  /\ row' = [row EXCEPT ![s].status = StatusFor("session_ended"), ![s].phase = "none"]
  /\ UNCHANGED <<opt, slot, turn, clock, steering, ask, hitl, gate, posted, crashes>>

NoRow == [present |-> FALSE, status |-> "pending", phase |-> "none"]

\* DELETE: stop(), then the rows go.
Delete(s) ==
  /\ row[s].present
  /\ row' = [row EXCEPT ![s] = NoRow]
  /\ IF Settleable(s)
     THEN /\ clock' = [clock EXCEPT ![s] = "stopped"]
          /\ turn' = [turn EXCEPT ![s].settled = TRUE, ![s].aborted = TRUE]
     ELSE /\ turn' = IF Live(s) THEN [turn EXCEPT ![s].aborted = TRUE] ELSE turn
          /\ clock' = IF clock[s] = "waiting" THEN [clock EXCEPT ![s] = "running"] ELSE clock
  /\ ask' = Abandoned(s)
  /\ UNCHANGED <<opt, slot, steering, hitl, gate, posted, crashes>>

-----------------------------------------------------------------------------
\* Mutation: the boot leaves the rows alone.
ReconcileNothing == row
\* reconcileOrphanHubSessions: sessions left running are aborted.
Reconcile ==
  [s \in Sessions |-> IF row[s].status = "running"
                      THEN [row[s] EXCEPT !.status = "aborted", !.phase = "none"]
                      ELSE row[s]]

\* The process is gone and boots again: nothing seeds the steering queues.
Reboot ==
  /\ slot' = [s \in Sessions |-> "none"]
  /\ turn' = [s \in Sessions |-> NewTurn("idle")]
  /\ clock' = [s \in Sessions |-> "off"]
  /\ steering' = [s \in Sessions |-> Strand(steering[s])]
  /\ ask' = [a \in Asks |-> NoAsk]
  /\ hitl' = [bound |-> {}, route |-> NoSession]
  /\ gate' = [free |-> Permits, queue |-> <<>>, lost |-> 0]
  /\ row' = Reconcile
  /\ UNCHANGED <<opt, posted>>

CrashRestart ==
  /\ crashes < MaxCrashes
  /\ crashes' = crashes + 1
  /\ Reboot

\* A timer that outlived the row of its session: onFire's append throws in the
\* timer callback and nothing catches it, so the process dies.
OrphanTimerFires(s) ==
  /\ ~row[s].present /\ Armed(s)
  /\ Reboot
  /\ UNCHANGED crashes

-----------------------------------------------------------------------------
Init ==
  /\ opt \in [backend : [Sessions -> Backends], grace : BOOLEAN, cap : 1..Cardinality(Sessions)]
  /\ row = [s \in Sessions |-> [NoRow EXCEPT !.present = TRUE]]
  /\ slot = [s \in Sessions |-> "none"]
  /\ turn = [s \in Sessions |-> NewTurn("idle")]
  /\ clock = [s \in Sessions |-> "off"]
  /\ steering = [s \in Sessions |-> [pending |-> 0, stranded |-> 0]]
  /\ ask = [a \in Asks |-> NoAsk]
  /\ hitl = [bound |-> {}, route |-> NoSession]
  /\ gate = [free |-> Permits, queue |-> <<>>, lost |-> 0]
  /\ posted = 0
  /\ crashes = 0

PassEnds(s) == \E cause \in PassCauses : SdkPassEnds(s, cause) \/ ChildPassEnds(s, cause)

Executor(s) == ToolsReady(s) \/ GateGranted(s) \/ ChildReady(s) \/ CleanupDone(s) \/ RoutingDone(s)

Next ==
  \/ \E s \in Sessions :
       \/ Send(s) \/ Executor(s) \/ PassEnds(s) \/ release(s)
       \/ ClockFires(s) \/ OrphanTimerFires(s)
       \/ Stop(s) \/ End(s) \/ Delete(s)
       \/ \E a \in Asks : AskUser(s, a) \/ Elicit(s, a)
  \/ \E a \in Asks : Answer(a)
  \/ CrashRestart

Spec == Init /\ [][Next]_vars

\* Awaited calls return; timers that are due fire; a stream that was cut off
\* ends.  Nothing is assumed of the operator, nor of a stream that runs.
Fairness ==
  \A s \in Sessions :
    /\ WF_vars(Executor(s))
    /\ WF_vars(ClockFires(s))
    /\ WF_vars(CutOff(s) /\ PassEnds(s))

FairSpec == Spec /\ Fairness

-----------------------------------------------------------------------------
AskStates == {"free", "waiting", "abandoned"}

TypeOK ==
  /\ opt \in [backend : [Sessions -> Backends], grace : BOOLEAN, cap : Nat]
  /\ row \in [Sessions -> [present : BOOLEAN, status : RunStatuses, phase : HubPhases]]
  /\ slot \in [Sessions -> SlotStates]
  /\ turn \in [Sessions -> [pc : Pcs, aborted : BOOLEAN, settled : BOOLEAN]]
  /\ clock \in [Sessions -> ClockStates]
  /\ steering \in [Sessions -> [pending : Nat, stranded : Nat]]
  /\ ask \in [Asks -> [st : AskStates, owner : Sessions \cup {NoSession},
                       caller : Sessions \cup {NoSession}]]
  /\ hitl \in [bound : SUBSET Sessions, route : Sessions \cup {NoSession}]
  /\ gate \in [free : Nat, queue : Seq(Sessions), lost : Nat]
  /\ posted \in Nat
  /\ crashes \in Nat

\* A session says running exactly while a turn of its own with a clock is
\* executing, so that something will end it: also after a stop in the queue and
\* a reboot; and it says waiting_input exactly while that clock is paused
\* (turn-engine.ts, subscription-adapter.ts, routes.ts reconcileOrphanHubSessions).
RunningIsTimed ==
  \A s \in Sessions : row[s].present =>
    /\ row[s].status = "running" <=> clock[s] \in {"running", "waiting", "fired"}
    /\ row[s].status = "running" => Live(s)
    /\ row[s].phase = "waiting_input" <=> clock[s] = "waiting"

\* However the turns interleave, a turn's clock is paused exactly while one of
\* its asks is open, no mailbox outlives its turn, and an MCP server is routed
\* only to a streaming turn (turn-engine.ts beginWait/endWait, hitl.ts).
WaitsBracketed ==
  /\ \A s \in Sessions : clock[s] = "waiting" <=> Waiting(s) # {}
  /\ \A s \in Sessions : Mailboxes(s) # {} => Live(s)
  /\ hitl.bound = {s \in Sessions : IsSdk(s) /\ turn[s].pc = "streaming"}
  /\ hitl.route # NoSession => hitl.route \in hitl.bound

\* Permits are neither lost nor duplicated but for sessions deleted while their
\* turn was queued; nobody queues while a permit is free
\* (subscription-concurrency.ts, subscription-adapter.ts).
PermitsConserved ==
  /\ gate.free + Cardinality(Holders) + gate.lost = Permits
  /\ gate.queue # <<>> => gate.free = 0
  /\ {gate.queue[i] : i \in DOMAIN gate.queue} = {s \in Sessions : turn[s].pc = "gate"}

\* A turn completes only when every message that steered it was injected
\* (turn-engine.ts, the steering loop).
CompletionDrains ==
  [][\A s \in Sessions :
       row[s].status = "running" /\ row'[s].status = "completed" => steering[s].pending = 0]_vars

\* Every turn comes to its end, whatever the model, the tools and the operator
\* do, unless a permit was lost.
TurnsEnd == \A s \in Sessions : Live(s) ~> ~Live(s) \/ gate.lost > 0

-----------------------------------------------------------------------------
\* What the documentation says, and the code does not do.

\* The queue's contract: losing a queued message is a bug.
SteeringSurvives == \A s \in Sessions : row[s].present => steering[s].stranded = 0
=============================================================================
