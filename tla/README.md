# Verification of the workbench's concurrent machinery

TLA+ models, TLC runs and TLAPS proofs about the API server of the AI
workbench (`apps/api`) - its runs, suite runs, hub turns, hub missions, watch
rules and assistant dock - and the run console of its web client. Line numbers are
those of the sources named in `PROJECT.json`, which maps every definition to
the code it stands for.

## 1. Inventory

The server is one Node process over one SQLite file. JavaScript runs on one
thread, so a handler is atomic up to its first `await`; everything hard here
lives between two `await`s, between an `emit` and the microtask that persists
it, between the abort of a loop and the moment the loop notices, and between
two steps that a crash separates.

| Component | State it keeps | Operations | What makes it correct |
| --- | --- | --- | --- |
| Run service (`testing/run-service.ts`) | a `RunControl` per live run: abort controller, pending turn, queued turns, pending questions | start, submitTurn, answerQuestion, stop, detach, review | one verdict per run, a settled review after it, stops honoured |
| Engine and subscription executor (`testing/engine.ts`, `claude-subscription-executor.ts`) | the loop of one run, its session clock, its child process | stream, wait for a turn, end | first cause wins; verdict before kill |
| Run manager (`testing/run-manager.ts`) | entry per run: emitter, cached status, bounded buffer, event counter | create, emit, subscribe, detach | order, no leak, no event after the end |
| Run repository (`testing/run-repository.ts`) | `runs`, `run_steps`, `run_events`, a write cursor per run | onEvent, finalize, rating writes, delete, prune, boot reconciliation | the log is what was emitted; every row settles |
| Run stream (`testing/routes.ts`, `use-run-stream.ts`) | watermark and close flags per connection; applied `seq` in the console | connect, resume, replay, close; dedupe, watchdog | a console converges on the finished run and loses nothing |
| Re-rate (`grading/routes.ts`) | the review axis of a row | grade again | row and replay agree |
| Suite orchestrator (`suites/orchestrator.ts`) | `SuiteControl`: queue, in-flight runs, spend, flags | start, worker, stop, delete, finish, report | bounded concurrency and spend, one truthful verdict |
| Suite repository and manager | `suite_runs`, an entry per suite run | writes, delete with unlinking, reconcile, emit | no dangling links, no leak |
| Failure analysis (`grading/failure-buckets.ts`) | none across calls, but a snapshot across its judge call | analyze | cached aggregates stay those of the matrix |
| Session clock, `ask_user` | wait and stall timers, pending questions | enter and resume waiting, fire, stop | one fire, no question without a waiter |
| Concurrency gates (`subscription-concurrency.ts`, judge chain) | permits and waiter queues | acquire, release | no permit lost, fixed lock order |
| Hub sessions and human-in-the-loop (`hub/session-service.ts`, `turn-engine.ts`, `hitl.ts`) | slots, steering queues, pending decisions | dispatch, steer, stop, approve, release | one live turn per session, every decision settled |
| Hub missions (`hub/missions/orchestrator.ts`) | tree of crews, shared limiter, budget | approve, run, trip, stop, reconcile | spend and parallelism bounded tree-wide |
| Assistant dock (`assistant/session-manager.ts`) | one registered child per thread, permissions, park timers | send, release, park, detach, retry, stop | no child uncounted, what is shown is served, every slot comes back |
| Watch rules (`watch/engine.ts`, `scheduler.ts`) | rules, audit, evaluation baseline | on-terminal and windowed evaluation | cooldown and interval hold across restarts |
| Data pack (`data-pack/fetcher.ts`) | cache, staging and retired directories | fetch, verify, swap | always a whole pack |
| Git sync (`collections/git-sync.ts`) | clone, binding, last synced commit | sync, resolve | serialized, converges, never forces |
| Rating issues (`grading/issue-service.ts`) | issues and occurrences | process a run, triage | one issue per problem |
| Everything else (CRUD, scans, compatibility, advisor, reports, providers, OAuth, MCP client and server, CLI, web) | rows | single synchronous transactions or pure functions | left out; see section 8 |

How they interact: a route calls the run service, which starts an executor;
the executor emits events through the run manager, which stamps them, fans
them out to open streams and hands each to the repository in a microtask; the
promise of the run goes on to the review chain (assertions, graders), which
settles the rating axis and so lets the manager drop its entry. The suite
orchestrator starts ordinary runs and awaits exactly that promise, and the watch
engine is called with every run that settled. The hub has its own turns, which
share the session clock and the subscription gate with runs; a mission drives a
tree of child sessions, each of which runs such turns. A boot reconciles every
row a dead process left behind.

`PROJECT.json` lists the hazards at the lines where they bite, with the
properties that would catch each of them, or why none does.

## 2. Modules

| Module | What it is |
| --- | --- |
| `RunVerdicts` | statuses, outcomes, ratings, phases, and `terminalFor`, the table every backend shares |
| `RunLifecycle` | one run from `POST /api/runs` to its settled review, both executors, every operator request, re-rates, a crash |
| `RunLifecycle_proofs` | the theorems about its types and its verdicts |
| `RunLog_proofs` | the theorems about its replay log |
| `RunEventStream` | the run's events on their way to one console: buffer, connection, wire, `EventSource`, watchdog |
| `RunEventStream_proofs` | the theorems about it |
| `SuitePromise` | what a suite run promises, with no pool and no process in sight |
| `SuiteRun` | the orchestrator, its children, row, manager entry, report hook, failure analysis, crash; implements `SuitePromise` |
| `SuiteRun_proofs` | the theorems about it, the refinement included |
| `HubTurn` | two or more hub sessions: slots, steering, both turn executors, the gate, asks, the clock, stop, end, delete, a crash |
| `HubTurn_proofs` | the theorems about it |
| `MissionTree` | one session's missions: propose, approve, levels and topologies, limiter, budgets, stop, child deletion, a crash |
| `MissionTree_proofs` | the theorems about it |
| `WatchRules` | one watch rule: windowed evaluation over its audit log, the on-terminal engine, edits, a crash |
| `WatchRules_proofs` | the theorems about it |
| `AssistantDock` | the assistant's threads, their registered and winding-down children, release and park timers, gated writes, sign-out, a restart |
| `AssistantDock_proofs` | the theorems about it |
| `MC*` | the modules TLC is given |

**An action is one macrotask**: a request, a timer or the return of an awaited
call, together with the synchronous code it runs and the promise continuations
that follow at once. In `RunLifecycle` the persistence microtasks are visible
(`micro`, `Persist`), because a crash can come before them and because `/end`
detaches a run whose verdict is still queued; every other macrotask waits for
`Quiet`. In `SuiteRun` the continuations of the workers and `finish` are the
microtasks, and requests wait for `Quiescent`.

**RunLifecycle** keeps `row`, `log` and `cursor` (repository), `sent` (what the
manager stamped), `micro`, `mgr` (entry), `ctl` (control), `exec` (where the
executor stands) and `hist` (what happened, for the properties). The executor's
actions are named after what ends: `EngineAwaits`, `EngineEnds`, `ChildAwaits`,
`ChildCompletes`, `ChildSettles`, `ChildWindsDown`, `ChildCleanedUp`, and the
three things a clock fire does (`ClockStopsStream`, `ClockEndsWait`,
`ClockSettlesChild`). The operator's are `SubmitTurn`, `Stop`, `End`, `Delete`,
`Prune`, `RerateBegins`. One run is enough: every table is keyed by the run and
no operation reads another run's entry.

**RunEventStream** reduces the run to events, a terminal status and a settled
rating, and keeps both ends of one connection: the server's (`forward`, its
watermark and close condition), the wire, and the console's (`lastSeq` for the
dedupe, `lastId` for the resume). A connection may break (`Drop`), hang
(`Hang`), or go `mute`: its socket is open and its listener is gone. Connections
share nothing, so one console is enough.

**SuiteRun** takes of a child what `RunLifecycle` shows of one run: it ends, its
review settles, and only then does the awaited promise resolve. The deliberate
disturbances are a database error in a worker, a failure analysis, and a stop or
delete of one child.

**HubTurn** keeps what `HubSessionService` and the executors keep per session
(`slot`, `turn`, `clock`, `steering`) beside the row, and the two registries that
sessions share: `hitl` (who is bound, where a server is routed) with the open
`ask`s, and `gate`. A message steers a running turn, starts one, or is refused by
the cap (`Send`). The engine's turn is `ToolsReady`, `SdkPassEnds`; the child's is
`GateGranted`, `ChildReady`, `ChildPassEnds`, `CleanupDone`; a turn that proposed a
mission awaits the routing (`RoutingDone`). `Finish` is the `finally` all of them
come to. `OrphanTimerFires` is a timer whose session was deleted: its callback
throws and the process goes down, which is a reboot. The production model resolver
is synchronous, so that a dispatch is one macrotask.

**MissionTree** takes the tree of a plan as a constant and keeps the mission rows,
the strategy of each level (`level`), the child sessions (`kid`: row and slot), the
abort controllers, the shared `limiter`, the `ledger` of each level and the `meter`
of the tree. `Launch`, `Begin`, `NextRound` and `Conclude` are continuations and
come before the next outside event; the answers of agents, judge and synthesis, the
requests and a crash wait for `Quiescent`. An agent run is opaque here: it answers
with a report, without one, or throws; inside, it is a turn of `HubTurn`.

**WatchRules** counts time in window widths and decides what the metrics say of a
window when it is first asked (`read`). `Tick`, `Scan`, `WindowSent` and
`EvaluationEnds` are one windowed evaluation, which begins by reading its state back
from `audit` (`getWindowState`); `RunSettles`, `RunChecked` and `RunSent` are the
on-terminal one. A catch-up at boot is a `Tick`.

**AssistantDock** keeps the `assistant_threads` rows (`thread`), the manager's map
of registered sessions (`live`) and every child with what the manager holds of it
(`session`). A child is registered from `startSession` to `park`, `detachThread` or
`teardownLive`, and lives on after the first two: aborted but not detached, it still
delivers events to the pump (`TurnDone`, `TurnFails`, `TurnReportsError`), while the
thread may have a new session, until `StreamEnds`. `SessionDies` is a child that
fails by itself and says so; `StreamRunsOut` is one whose stream just ends, without an
error and without an abort (`session-driver.ts:354-367`): the pump tears the session down
(`session-manager.ts:837`) and writes no status. Whether the release is immediate or after a grace window (`grace`)
is chosen at the start. `left` notes the threads whose turn a sign-out or such a stream
cut off, whose rows nothing corrects. `Sessions` is the number of children there can be at one time,
those that wind down included; a slot whose stream is over and whose requests are
settled is used again.

## 3. Runs

Bounds are constants of the modules and are given in the `.cfg` files.

| Run | Question | Size |
| --- | --- | --- |
| `run_lifecycle` | do verdicts, review, log and replay fit together under every interleaving, for both backends? | 414,737 states |
| `run_event_stream` | does a console lose nothing on a resume, is it closed only when all was sent, does it settle? | 18,931 states |
| `suite_run` | does a suite run keep its promise, its bounds and its links? | 442,465 states |
| `hub_turn` | do two sessions that share gate, cap and elicitation route keep rows, clocks, waits and permits consistent, and does every turn end? | 117,084 states |
| `mission_tree` | does a tree of crews keep its limiter, stop and trip everywhere it is linked, mark what is partial, and come to rest? | 69,179 states |
| `watch_rules` | do cooldown, interval and baseline survive pauses, catch-ups and crashes when the audit log is the only memory? | 610,625 states |
| `assistant_dock` | do two threads that share one slot keep children counted and what is shown served, and does every slot come back, for both release settings? | 459,446 states |
| `run_end_overwritten`, `stream_never_closes`, `suite_aggregates_stale`, `hub_steering_lost`, `mission_one_live` | a sentence of the code's own comments that the code does not keep (section 7) | stop at the counterexample |

Why the bounds are enough:

- `run_lifecycle`: one telemetry event, one operator turn and one re-rate.
  Telemetry events are alike and only keep the executor busy; one turn reaches
  the pending, the queued and the stale resolver; one re-rate meets every phase
  of the run, its review and a crash. Stop, end, delete, prune, clock fires and
  the crash are limited by the run's own state, not by a bound.
- `run_event_stream`: a buffer of 2, up to 4 events before the terminal one and
  2 broken or hanging connections, so that events are evicted behind a cursor,
  exactly at it and past it, during a first connect and during a resume, and so
  that a reconnect can itself be disturbed.
- `suite_run`: 3 cells on 2 workers, so that the queue is longer than the pool;
  a cap that one child reaches, so that it is reached with another child in
  flight; 2 disturbances, so that one can hit the consequences of the other.
- `hub_turn`: two sessions of any backends, slots for one or both, one permit, so
  that one queues for what the other holds; two asks, so that waits of one turn
  overlap or one turn's tool pauses the other's clock; two messages, so that a turn
  can be steered, reused within its grace window, or contended; one crash.
- `mission_tree`: a root of two crews, one of two leaves and one of a single leaf,
  on two permits, so that a leaf of one crew queues behind the other; five plans
  that put every topology on a level and let one run, two runs or two crews spend
  the budget; two rounds of debate; one deleted child or crash. Stops are not bounded.
  Larger and deeper trees are what the theorems are for; with two leaves in each crew
  (330,836 states) the safety properties have been checked as well.
- `watch_rules`: four windows of any state with a catch-up of two, so that windows
  are skipped, a cooldown of three and none, so that a fire is suppressed, escalates,
  recovers and fires again after it; two runs within and outside an interval; one
  edit and one crash. Symmetry is not used.
- `assistant_dock`: two threads for one slot, so that each can be refused for the
  other; two children, so that one winds down beside the next, of its own thread or
  of the other; three messages, so that a thread is resumed, switched and sent
  again; one request per child and one sign-out or restart; both release settings.

Deadlock checking is off because a reviewed run, a closed console, a concluded
suite run, an idle session, a mission at rest, a rule after its last window and a
dock whose bounds are used up have nothing left to do.

## 4. Properties

`RunLifecycle`: `TypeOK`; `LogFaithful` (the replay log is the emitted sequence, in
order and without gaps); `ReplayConverges` (a replay ends on the row's rating); the
action properties `TerminalNeverReopens` and `EngineVerdictFinal`; the liveness
properties `StopIsHonoured` and `EventuallySettles` (a finished run is reviewed, and
the manager's entry is released). `AssertionsNeverMask` (only a completed row carries
the flip of the assertions) is part of the inductive invariant and a theorem.

`RunEventStream`: `TypeOK`; `StreamsComplete` (nothing is lost on a resume, and a
stream ends only with everything on it); `UndisturbedConsoleSettles`.

`SuiteRun`: `TypeOK`; `InFlightBounded`; `SpendBounded`; `ConcludedAtRest`;
`LinksResolve`; `AggregatesComplete`; `KeepsPromise` (the refinement of
`SuitePromise`: one verdict, never a second, `completed` only of a whole matrix,
review after verdict, each cell started at most once); `AlwaysConcludes` (a suite run
concludes and is reviewed, and an accepted stop ends it as stopped).

`HubTurn`: `TypeOK`; `RunningIsTimed` (a row says running exactly while a turn with
a clock executes, and waiting_input exactly while that clock is paused);
`WaitsBracketed` (a clock is paused exactly while an ask of its session is open, no
mailbox or route outlives its turn); `PermitsConserved`; the action property
`CompletionDrains` (no turn completes over a message it accepted); `TurnsEnd`.

`MissionTree`: `TypeOK`; `PermitsConserved`; `QuietAtRest` (nothing below a mission
at rest still runs); `NeverSilentlyTruncated` (an answer not marked partial stands on
every planned agent, at every depth); `StopReachesAll` (a stop is in force at every slot
in flight that is linked to it); the action property
`NothingStartsLate` (a tree overshoots its budget by runs that held a permit, never by
one that queued, and no run begins below a stop it is linked to); `MissionsEnd`.

`WatchRules`: `TypeOK`; `CooldownHolds`; `NoSilentBreach` (behind every breached
window stands a fire that covers it); `IntervalKept`; `WindowsEvaluated`.

`AssistantDock`: `TypeOK`; `ChildrenCounted` (the children nobody has told to stop are
the registered sessions, each its own thread's, and no more than the cap, which counts
registrations only); `ShownIsServed` (a thread that says running has a session with that
turn in flight, unless it is in `left`; while the release is immediate a child owes at
most one result, and a request waits only for a registered session or one whose stream
just ended); the liveness property `SlotsReturn`.

Some are qualified, and the qualification says where the code's guarantee ends:
`torn` (a re-rate overlapped the review or a crash: the log then ends on another
rating than the row), `behind` (a connect without a cursor found events evicted: the
console never gets them), `threw` (a worker of the pool threw, after which stragglers
are possible), `liveAnalysis` (a failure analysis was asked for mid-run), `gate.lost`
(a session was deleted while its turn was queued: its permit is granted to nobody and
never comes back), a child session `deleted` under a mission (settling it throws, and
siblings run on), `Linked` (a nested level that threw is unlinked from the missions
above it: its leaves run on, and new ones start there, whatever is stopped above),
`cut` (a crash between a window's marker and the baseline: the window
is evaluated and may fire again), `overlap` (a run was checked while another dispatch was
under way: both dispatch), `left` (a sign-out, or a stream that just ended, ended a turn:
the row goes on saying running until the next message or boot), `RanOut` (the writes such
a stream leaves behind wait until they are decided, time out or are settled with a later
session of their thread), `grace` (with a release window a message is taken after
an error and before the result of the failed turn: the child then owes two).
`EngineVerdictFinal` excepts subscription runs, where a stop
during the workspace cleanup turns completed into aborted and a late turn result turns a
stopped or stalled run into a completed one, and
`UndisturbedConsoleSettles` excepts a crash, after which an open console reconnects for
ever because the reconciled run has no terminal event in its log.

## 5. Fairness

- Microtasks always run: `Persist`, a worker's continuations, `Finish`.
- The executor moves on: provider and tool calls return, and a session clock
  with a stall window and a wait budget bounds a stream and a wait. Only the
  disjunction of the executor's actions is fair, so no particular outcome is
  promised. `GateQueues`, `StreamStep` and `ClockStopsStream` are not fair:
  nothing forces a run to queue, to emit or to have its clock fire.
- A review and a re-rate end: graders run under timeouts and the chain settles
  in a `finally`. The suite's report hook likewise.
- The gate grants its permit eventually: holders are runs, and runs end.
- In `HubTurn` awaited calls return, an armed timer fires (a turn without a budget
  still has a stall window, and a wait has one), and a stream that was cut off ends.
  A stream that runs on, an ask and an answer are not fair. That is enough for
  `TurnsEnd`: whatever the model does, the clock is armed or the turn is cut off.
- In `MissionTree` continuations run, and the planner, an agent run, the judge and a
  synthesis answer or fail: an agent's turn is one that ends (`HubTurn`), extraction
  and synthesis are provider calls under timeouts.
- In `WatchRules` the scheduler's interval ticks and awaited actions come back
  (webhooks have timeouts). Nothing makes a window complete or a run settle.
- In `AssistantDock` timers fire, the stream of an aborted child ends, and a turn ends
  that reported no error. The last is strong fairness: requests for a decision, which
  time out, interrupt the turn, and `maxTurns` bounds how often. After an error the
  child owes nothing: that it may say nothing more is the case `SlotsReturn` is about.
  A child that hangs without reporting an error is outside this assumption; nothing in
  the code ends such a turn but the owner's stop, deletion or sign-out.
  Nothing makes a stream run out by itself (`StreamRunsOut`).
- In `RunEventStream` requests are served and messages arrive unless the
  connection breaks or hangs, and the watchdog's timer fires.

No operator request, disconnection or crash is fair.

## 6. Proofs

`RunLifecycle_proofs` proves, for every set of backends and every bound:

| Theorem | Statement |
| --- | --- |
| `TypeCorrect` | `Spec => []TypeOK` |
| `VerdictInvariant` | `Spec => [](TypeOK /\ VerdictInv)` |
| `AssertionsHonest` | `Spec => []AssertionsNeverMask` |
| `VerdictNeverReopens` | `Spec => TerminalNeverReopens` |
| `EngineVerdictStands` | `Spec => EngineVerdictFinal` |

The argument. That a terminal row never goes back, and that an engine run keeps
its first verdict, is not inductive: between the emission of a verdict and its
persistence the row still says running while the verdict waits in `micro`, and
what may still be emitted depends on where the executor stands. `VerdictInv`
therefore relates four things: the verdicts that wait in `micro`, whether a
non-terminal status may still follow one, the row, and the executor's place
(`exec.pc`, the settled termination). The proof has one lemma per action, under
which the effect of `Emit` on the queue is reduced to three facts about the
emitted events (what their verdicts are, whether they are quiet after it, how
many there are). `StepKeepsVerdict` then reads the two action properties off the
invariant: the only step that moves the status is `Persist`, and it does so with
the event at the head of the queue. Sequence facts are in a first group of
lemmas, the types of every helper in a second.

These proofs use the assumptions `BackendsAssumption` and `BoundsAssumption` only.

`RunLog_proofs` extends it and proves, under the same assumptions:

| Theorem | Statement |
| --- | --- |
| `LogIsFaithful` | `Spec => []LogFaithful` |
| `ReplaysConverge` | `Spec => []ReplayConverges` |

The argument. Neither is inductive, since an event is stamped, logged and reflected in
the row in three different places. `ReplayInv` has three parts. `EntryInv`: the
manager's entry is terminal once the executor has its verdict, and gone once the
promise chain is over. `LogInv`: while an event may still reach the log the cursor is
open and stands where the log ends, what was stamped is in the log or queued behind
it, and a settled rating, whose persistence closes the cursor, is the last event of a
run - so no later event can find the cursor closed. `RatingInv`: before the promise
chain is over nothing in the log, the queue or the row is settled, and from then on
the settled rating is either still queued with the row's value or the last one in the
log. `VerdictInv` supplies what may wait in the queue. Each handler is then reduced to
one of four things it does to the log: it emits ordinary events, it leaves the log
alone, it detaches the entry, or it writes a rating. Both properties except a log that
a re-rate has torn (`hist.torn`).

`SuiteRun_proofs` proves, for every matrix, pool size, cap and bound
(`SizesAssumption`):

| Theorem | Statement |
| --- | --- |
| `TypeCorrect` | `Spec => []TypeOK` |
| `PoolBounded` | `Spec => []InFlightBounded` |
| `VerdictAtRest` | `Spec => []ConcludedAtRest` |
| `NoDanglingLink` | `Spec => []LinksResolve` |
| `AggregatesWhole` | `Spec => []AggregatesComplete` |
| `SpendStaysBounded` | `Spec => []SpendBounded` |
| `ImplementsPromise` | `Spec => KeepsPromise`, the refinement of `SuitePromise` |

The argument. None of these is inductive; the strengthening has five parts.
`RowInv` ties the row, the control and the orchestrator's promise together: while
the pool runs, a row that is there has an unfinished control and a row that was
deleted has a stopped one, and a busy worker means that the pool still runs or
that a worker threw. `QueueInv` splits the matrix at the head of the queue, gives
every awaited cell one worker, and says that a worker only returns from a halted
or drained queue. `OccupancyInv` says that an injection from the children in
flight into the workers exists, each child on the worker that awaits it or on the
one that was lost with it: counting workers in a state cannot bound the children,
because a thrown worker forgets its child. `CostInv` accrues each settled cell
once. `CacheInv` says that a pending analysis that was asked for after the verdict
holds the aggregates of the verdict, so that writing them back changes nothing.
`ChildrenShrink` (only a start adds a child) and `NothingStarts` (after a verdict
without a throw nothing starts) carry what is at rest through every later step.
The refinement has one step per action: an action of the pool, the operator or a
crash is an action of the promise, an analysis and a child's own steps are none of
its business.

`SpendBounded` is about a sum over the children, which the cap does not see: the control
accrues each cost once, when the cell settles, if the run still exists then, and forgets
everything in a crash. `SpendInv` splits the sum. `ChargeInv` is the bound for what the
settled cells cost with every running cell charged `MaxCost`; it can only rise when a
cell starts, and then `AccruedInv` says that the settled cells cost no more than was
accrued, which is below the cap, and `HeldInv` that no more cells run than there are
workers (a running cell, unlike a child in flight, holds its worker until it is
settled, or was lost with it). `MatrixInv` freezes the cost of a settled cell. The sum
itself is a left fold over the matrix: `SpendSteps` unfolds it cell by cell, and
`SpendSlack` compares two sums by the least cell at which they would come apart.

`RunEventStream_proofs` proves, for every size of the buffer, any length of the run and any
number of disturbances (`BufferAssumption`, `StreamBoundsAssumption`,
`DisturbancesAssumption`):

| Theorem | Statement |
| --- | --- |
| `TypeCorrect` | `Spec => []TypeOK` |
| `StreamsAreComplete` | `Spec => []StreamsComplete` |

The argument. That nothing is lost is a fact about the console, but where it could be lost
depends on the wire. `StreamInv` follows an event along its way. `RunInv`: while the run
is live no settled rating was emitted, and the console and the wire hold only what was.
`CursorInv`: the ids a console resumes from are ids it has seen. `ConnInv`: a closed
socket carries nothing, a live connection stands at the last event emitted and has not yet
carried both terminal status and settled rating, and one that ended on a terminal status
carried both. `WireInv`: what is on the wire is contiguous, begins at most one past what
the console knows, and ends where the watermark stands. A resume replays the log or the
buffer through `forward` one event after another; `Forwarded`, the fold of the code's
loop, is followed by induction on the backlog (`LeastNat` gives the first event that would
break the claim).

`HubTurn_proofs` proves, for any sessions, backends, asks, permits, slot cap and
bounds (`SessionsAssumption`, `PermitsAssumption`):

| Theorem | Statement |
| --- | --- |
| `TypeCorrect` | `Spec => []TypeOK` |
| `PermitsHold` | `Spec => []PermitsConserved` |
| `RunningTimed` | `Spec => []RunningIsTimed` |
| `WaitsHold` | `Spec => []WaitsBracketed` |
| `CompletionsDrain` | `Spec => CompletionDrains` |

The argument. `KindInv` says which turns can be where (only a child is in the
queue, holds a permit or is settled; a slot runs exactly while its turn lives).
`PermitInv` adds to `PermitsConserved` that nobody is in the queue twice: without
it the hand-over of a permit to the head would leave a second copy behind. The
steps are reduced to five things that can happen to the permits (taken, awaited,
given back or handed on, lost, untouched), each one fact about the cardinality of
the holders. `AgreeInv` is what `RunningIsTimed` and `WaitsBracketed` need to be
inductive, session by session (`TimedInv`): an open ask has a streaming turn that
nothing cut off; a live turn without a row was aborted, which is why a deleted
session cannot ask any more; a settled child's row is at rest, and a child that is
aborted once it runs is settled; a turn that queues, cleans up or routes says
nothing of running. A step touches the asks, clock, turn and row of one session and
at most grants a permit to another (`Untouched`), so that each step needs an
argument for one session only (`OneSessionAgrees`). `CompletionsDrain` follows from
the same invariant: the only steps that write `completed` are the ends of a pass,
with a turn that nothing cut off, and there the steering loop goes on while a
message is pending.

`MissionTree_proofs` proves, for every plan, crews nested to any depth, every topology,
width and cost (`PlanAssumption`, `NestingAssumption`, `BudgetAssumption`,
`CrewsAssumption`):

| Theorem | Statement |
| --- | --- |
| `TypeCorrect` | `Spec => []TypeOK` |
| `PermitsHold` | `Spec => []PermitsConserved` |
| `StopsReach` | `Spec => []StopReachesAll` |
| `RestIsQuiet` | `Spec => []QuietAtRest` |
| `NeverTruncated` | `Spec => []NeverSilentlyTruncated` |
| `NoLateStart` | `Spec => NothingStartsLate` |

The argument. Four of the properties speak of whole subtrees, the code only ever of a level
and its slots, and so does the invariant: `State` is the types and `TreeInv`, whose parts
relate a mission to its row, its level and its own slots. `PermitInv`: the waiters of a
root's limiter are its queued leaves, each once, the permits taken are the leaves that hold
one, and nobody waits while one is free. `LevelInv`: a level launches each slot once a
round. `StatusInv`: row, level and container of a mission agree, and a level that threw
had a slot deleted. `RestInv`: a level that is over left no row open. `OnceInv`: a nested
mission is opened once. `WholeInv`: what an unmarked answer stands on, one level down.
`AbortInv`: a stop is in force at the slots of its level, a trip at every leaf of its tree.
`MeterInv` keeps the subtotals natural numbers. Each action is first reduced to its effect
(the `...Effect` lemmas), and then shown to keep each part (the `...Step` lemmas), with one
lemma per part for what is untouched (`...Kept`). The step from levels to subtrees is
`TopDown`: what holds of the roots, and of a slot whenever it holds of its home, holds
everywhere, because every set of crews has one whose home is not in it
(`NestingAssumption`: a plan's nesting ends). `Above`, a recursive function, is given its
equation the same way (`AroundStep`, `AboveEquation`), and the fold that keeps a debate
going (`StillActive`) by induction on the list. `NothingStartsLate` follows from `AbortInv`
by `OnlyBegins`: no step but `Begin` lets a run start.

`WatchRules_proofs` proves, for every cooldown, interval and bound
(`ConfigAssumption`):

| Theorem | Statement |
| --- | --- |
| `TypeCorrect` | `Spec => []TypeOK` |
| `IntervalHolds` | `Spec => []IntervalKept` |
| `CooldownKept` | `Spec => []CooldownHolds` |
| `NeverSilent` | `Spec => []NoSilentBreach` |

The argument. `IntervalKept` needs `OverlapInv`: of two dispatches under way at
least one is in `overlap`, and one that is not is an interval past every row of the
other runs. `CooldownHolds` is
about the log of one evaluation after another, each of which rebuilds its state
from the log. `MemoryInv` carries it: the markers are ordered, the baseline of an
idle rule is past all of them, and during an evaluation the state in memory
agrees with the log (`Mirrors`: armed only behind a recovery, no fire later than the
last one remembered) while the windows that are
left lie ahead of every marker (`Ahead`); `Spaced` is the property over the markers
in that order.

`NoSilentBreach` is the converse: what is not in the log has a reason that is. `Told` says
so of the log: every marker is of a window that was read so (`Truthful`), every window read
as a breach has a fire that stands for it (`Covered`), every breach that ended has its
recovery (`Closed`), and there are a latest marker and a latest fire to read the state back
from (`Topped`). `InOrder` says which windows may have been read - those in order, but for
what a catch-up leaves out for good. During an evaluation `Underway` places its cursor among
them and `Recalls` ties its memory to the log: an armed evaluation saw every earlier breach
recover, one that is not remembers the latest fire and saw nothing recover since. The
delicate steps are the two that read the state back (`SeedRecalls`), and an evaluation that
was cut between a marker and the baseline: the same windows are read again, over their own
markers, and the second fire must still be in order.

`AssistantDock_proofs` proves, for any threads, children, cap, release settings and
bounds (`ConfigAssumption`):

| Theorem | Statement |
| --- | --- |
| `TypeCorrect` | `Spec => []TypeOK` |
| `NoChildUncounted` | `Spec => []ChildrenCounted` |
| `WhatIsShownIsServed` | `Spec => []ShownIsServed` |

The argument. `Agree` relates the map of registrations to the children: a registered
session is open, not aborted and of that thread, an open session that is not aborted is
registered, and there are at most `MaxActive` registrations; `Immediate` adds what an
immediate release gives. `RowsServed` relates the rows to both. The handlers are reduced
to four things done to the two tables - a message delivered, threads detached, a thread
parked, a session gone, of its own accord or not - with one lemma each; a park is by thread, and the lemma about it
shows why a late event of an older child cannot park a session in the middle of its turn.
The cap holds for a source switch because the thread gives its own registration back
before it competes for one. `ChildrenCounted` bounds children, not registrations: the map
from a child to its thread is an injection into the registrations.

Every safety invariant and action property that a passing run checks is a theorem.
Model-checked only: the liveness properties (`StopIsHonoured`, `EventuallySettles`,
`UndisturbedConsoleSettles`, `AlwaysConcludes`, `TurnsEnd`, `MissionsEnd`,
`WindowsEvaluated`, `SlotsReturn`), since fairness and `ENABLED` are out of the proof
system's reach.

Where the proofs need induction over data - a fold over a list, a sum over a matrix, a tree
of crews - no induction theorem with an operator as parameter can be used. They argue by a
least counterexample instead: `LeastNat`, from the well-foundedness of `<` on the naturals,
for lists and matrices, and `NestingAssumption` for trees. `LeastNat` and the existence of
the function behind a fold (`IterExists`) are therefore stated once per module of proofs,
each for the operator that is folded.

## 7. Where the code and its comments disagree

1. `run_end_overwritten`: `/end` on a subscription run is overwritten by the
   aborted verdict its own detach provokes.
2. `stream_never_closes`: `/end` and `DELETE` drop the listeners of open streams
   and leave the sockets open.
3. `suite_aggregates_stale`: a failure analysis asked for mid-run overwrites the
   final aggregates.
4. `hub_steering_lost`: a message queued on a turn that is stopped, fails or is cut
   off by a crash is never injected, though "losing one is a bug".
5. `mission_one_live`: two proposals, or a settled nested mission that hides its
   running root, give a session two live missions.

Met on the way and visible in the models, without a run of their own: the
exceptions named in section 4; the aggregate spend of a mission may pass its cap by
the runs in flight when it trips (`orchestrator.ts:1411` says it is guaranteed below
it); the pending children of a mission that had failed before a restart stay
pending; a nested crew's synthesis is in its container's cost and not in the root's;
deleting a session does not stop its mission. What is called a nested level's own spend
(`orchestrator.ts:1312`, `Subtotal`) is a difference of the tree's meter and includes what
its siblings spent meanwhile. A nested level that threw, because the child session of
one of its slots was deleted, is unlinked from the missions above it while its other leaves
run on (`orchestrator.ts:1370` and 1612), so that a stop of the root does not reach them;
416 says that it "still halts the whole tree". The proof of `StopReachesAll` found this:
`Linked` is what the property had to except.

In a subscription run that is automated: a result that comes through after a stop or a
clock fire has settled the run still emits `completed`, which overwrites the verdict on
the wire (`claude-subscription-executor.ts:1071-1072` does not ask `termination.settled`, against
539-540, that the child's end can never "reclassify" it); `ChildCompletes` has
it, and `StopIsHonoured` asks that a stopped run ends, not how.

In the assistant dock: a child whose stream ends without an error and without an abort
leaves a row that says running with no session behind it, and its gated writes waiting
until they time out (`session-driver.ts:354-367`, `session-manager.ts:830-839`); the
executor of subscription runs, on the same driver, makes an error of such a stream
(`claude-subscription-executor.ts:895`). With a release window, an error that comes before its turn's
result lets a second message reach the same child, and the first result ends the wrong
turn (`session-manager.ts:818`, against 420-421); events of a session that was released
before a source switch land behind the switch (544, against 542-543); the switch is
recorded although the cap refuses to send the message again (548, against 512). Outside
the model: the title one-shot replaces a title the owner gave before the first turn ended
(939, against 922), and retention deletes threads without closing the streams that follow
them (`retention.ts:55`, against `routes.ts:284`).

## 8. What is not modelled

Pure computation (accounting, guardrail arithmetic, compatibility rules,
advisor, skill flows, security analysis, reports, search), single synchronous
transactions (CRUD), protocol I/O (MCP, OAuth, GitHub, provider calls) and
presentation make up most of the repository: it is a wide application around a few
concurrent services, so that the share of its lines that state machines can say
something about is small. Of the concurrent services the data pack's swap, Git sync and
the rating issues are left out; `PROJECT.json` lists their hazards.

Within the modelled components:

- Runs: the content of steps, questions and grades; several runs at once (they share
  only the gates); timers as numbers (a clock fire is an event); the search index;
  pinned runs and retention windows; the provider slot.
- Hub turns: compaction, forks, write approvals apart from other asks, the model
  pick, the choice of `SSE` subscribers; runs that take permits of the same gate.
- Missions: editing the plan, steering an agent, the board, report texts, the tree
  caps beyond "this slot does not run", turns inside an agent run, and deletions of
  sessions other than a leaf's: that of the container of a nested crew or of the chat
  makes the later writes of its level throw (`orchestrator.ts:1654`, 1683, 2196), and
  nothing is claimed of missions it happens to.
- Watch rules: edits of anything but `enabled`, the pause and the rule's existence: the
  trigger, thresholds, policy, cooldown and interval are the same from one evaluation to
  the next, and the properties that name them are about a rule left so; the catch-up's
  summary row, exceptions of the metric queries, a window whose data changes after it was
  evaluated, several rules (they share nothing), the delivery of an action.
- Assistant dock: titles and the title one-shot, streams and their channels (those of
  runs are in `RunEventStream`), workspaces, envelopes and write scopes, tools that need
  no decision, auto-accept; the catch branch of the pump, which the production driver
  never reaches because it turns its failures into events; a fallback key that is not
  configured.

## 9. Possible extensions

A composition of runs and hub turns over one gate
with the provider slots; the data pack's two renames and Git sync's half-done steps
as crash models; the composition of a mission's agents with the hub turns they are.
