---------------------------- MODULE AssistantDock ----------------------------
(***************************************************************************)
(* The Assistant dock: threads kept in SQLite, and for each at most one    *)
(* registered session, a child process that answers one message at a time, *)
(* is released when its turn ends and resumed by the next message.         *)
(*                                                                         *)
(* The child is the Agent SDK's.  Its events reach the pump of its         *)
(* session, one handler call an event; an aborted child may still deliver  *)
(* some before its stream ends.  The API-key fallback is configured        *)
(* throughout; the subscription comes and goes with the sign-in.  What is  *)
(* said, titles, and the tools that need no decision are left out.         *)
(***************************************************************************)
EXTENDS Naturals, FiniteSets

CONSTANTS
  Threads, Sessions,     \* bound: the children that run or wind down at one time
  NoThread, NoSession,
  MaxActive,             \* maxActiveSessions
  Graces,                \* bound: whether releaseGraceMs > 0, the settings looked at
  MaxMessages, MaxAsks, MaxOutages   \* bounds; an outage is a sign-out or a restart

Sources == {"subscription", "api_key"}
Statuses == {"idle", "running", "error"}

ASSUME ConfigAssumption ==
  /\ IsFiniteSet(Threads) /\ NoThread \notin Threads /\ NoSession \notin Sessions
  /\ MaxActive \in Nat /\ Graces \subseteq BOOLEAN
  /\ MaxMessages \in Nat /\ MaxAsks \in Nat /\ MaxOutages \in Nat

VARIABLES
  thread,     \* the assistant_threads rows, with what their logs say that the code asks of them
  live,       \* the registered session of every thread
  session,    \* every child and what the manager keeps of it
  grace,      \* a session outlives its turn by the grace window
  signedIn,   \* a subscription credential is stored
  left,       \* the threads whose running turn was cut off and whose row was not told
  messages, outages

vars == <<thread, live, session, grace, signedIn, left, messages, outages>>
counters == <<messages, outages>>
world == <<grace, signedIn, left, counters>>

-----------------------------------------------------------------------------
\* Sessions.

\* owes: the messages it was sent and has reported no result of.
\* asks: its gated writes that wait for a decision.
Blank == [st |-> "none", of |-> NoThread, aborted |-> FALSE, detached |-> FALSE,
          inFlight |-> FALSE, errored |-> FALSE, timer |-> FALSE, owes |-> 0, asks |-> 0]
Started(t) == [Blank EXCEPT !.st = "open", !.of = t]
\* A session whose stream is over stays while a write of it waits for a decision.
Kept(x) == IF x.st = "over" /\ x.asks = 0 THEN Blank ELSE x
Answered(x) == Kept([x EXCEPT !.asks = @ - 1])
\* The abort listener denies what the session still asks.
Aborted(x) == [x EXCEPT !.aborted = TRUE, !.timer = FALSE, !.asks = 0]
Cut(x) == [Aborted(x) EXCEPT !.detached = TRUE]
\* Mutation: an error leaves the turn in flight.
ErroredInFlight(x) == [x EXCEPT !.errored = TRUE]
Errored(x) == [x EXCEPT !.errored = TRUE, !.inFlight = FALSE]
TurnOver(x) == [x EXCEPT !.inFlight = FALSE, !.errored = FALSE, !.owes = @ - 1]

\* settleThreadPermissions: what the thread asks is denied.
Settled(x) == Kept([x EXCEPT !.asks = 0])
\* detachThread, of each of these threads that has a session.
Detached(ts) ==
  [s \in Sessions |->
     LET x == session[s] IN
     IF x.of \notin ts \/ live[x.of] = NoSession THEN x
     ELSE IF live[x.of] = s THEN Cut(x) ELSE Settled(x)]

\* park: by thread, and never in the middle of a turn.
Parks(t, ss) == live[t] # NoSession /\ ~ss[live[t]].inFlight
Parked(t, ss) == IF Parks(t, ss) THEN [ss EXCEPT ![live[t]] = Aborted(@)] ELSE ss
LiveParked(t, ss) == IF Parks(t, ss) THEN [live EXCEPT ![t] = NoSession] ELSE live

\* scheduleRelease.
Released(s, ss) ==
  IF grace THEN [ss EXCEPT ![s].timer = TRUE] ELSE Parked(ss[s].of, ss)
LiveReleased(s, ss) == IF grace THEN live ELSE LiveParked(ss[s].of, ss)

\* teardownLive drops the session of the thread only when it is this one.
\* Mutation: it drops whichever is registered.
AnyTornDown(s, lv) == [lv EXCEPT ![session[s].of] = NoSession]
TornDown(s, lv) == IF lv[session[s].of] = s THEN [lv EXCEPT ![session[s].of] = NoSession] ELSE lv

-----------------------------------------------------------------------------
\* Threads.

\* asked: its log holds a message.
Row(source) == [there |-> "there", status |-> "idle", source |-> source, asked |-> FALSE]
Unborn == [Row("subscription") EXCEPT !.there = "unborn"]
Exists(t) == thread[t].there = "there"
\* safeSetStatus and appendAndFan: a row that is gone takes neither.
WithStatus(t, status) == IF Exists(t) THEN [thread EXCEPT ![t].status = status] ELSE thread
Usable(source) == source = "api_key" \/ signedIn

createThread(t) ==
  /\ thread[t].there = "unborn"
  /\ \E source \in Sources : thread' = [thread EXCEPT ![t] = Row(source)]
  /\ UNCHANGED <<live, session, world>>

-----------------------------------------------------------------------------
\* Messages.

\* The 409 of a turn in flight.
Busy(t) == live[t] # NoSession /\ session[live[t]].inFlight
Registered(lv) == {t \in Threads : lv[t] # NoSession}
HasRoom(t, lv) == lv[t] # NoSession \/ Cardinality(Registered(lv)) < MaxActive
Prompted(r) == [r EXCEPT !.asked = TRUE, !.status = "running"]

Taken(x) == [x EXCEPT !.inFlight = TRUE, !.errored = FALSE, !.timer = FALSE, !.owes = @ + 1]
\* The registered session, or a new one, takes the message.
Deliver(t, ss, lv) ==
  \E s \in Sessions :
    /\ IF lv[t] = NoSession THEN ss[s] = Blank ELSE s = lv[t]
    /\ session' = [u \in Sessions |->
         IF u # s THEN ss[u]
         ELSE Taken(IF lv[t] = NoSession THEN Started(t) ELSE ss[u])]
    /\ live' = [lv EXCEPT ![t] = s]

sendMessage(t) ==
  /\ messages < MaxMessages
  /\ Exists(t) /\ Usable(thread[t].source) /\ ~Busy(t) /\ HasRoom(t, live)
  /\ Deliver(t, session, live)
  /\ thread' = [thread EXCEPT ![t] = Prompted(@)]
  /\ left' = left \ {t} /\ messages' = messages + 1
  /\ UNCHANGED <<grace, signedIn, outages>>

Other(source) == CHOOSE x \in Sources : x # source

\* The switch is recorded before the last message is sent again, which the cap may refuse.
retrySource(t) ==
  LET source == Other(thread[t].source)
      lv == [live EXCEPT ![t] = NoSession]
      switched == [thread[t] EXCEPT !.source = source]
      resends == switched.asked /\ HasRoom(t, lv)
  IN /\ messages < MaxMessages
     /\ Exists(t) /\ Usable(source)
     /\ IF resends THEN Deliver(t, Detached({t}), lv)
                   ELSE session' = Detached({t}) /\ live' = lv
     /\ thread' = [thread EXCEPT ![t] = IF resends THEN Prompted(switched) ELSE switched]
     /\ left' = IF resends THEN left \ {t} ELSE left
     /\ messages' = messages + 1
     /\ UNCHANGED <<grace, signedIn, outages>>

-----------------------------------------------------------------------------
\* The events of a child, handled by the pump; those of a detached one are dropped.

Pumped(s) == session[s].st = "open" /\ ~session[s].detached /\ session[s].owes > 0

\* turn_done, after a result without an error.
TurnDone(s) ==
  LET t == session[s].of
      ss == [session EXCEPT ![s] = TurnOver(@)]
  IN /\ Pumped(s) /\ session[s].asks = 0
     /\ thread' = IF session[s].errored THEN thread ELSE WithStatus(t, "idle")
     /\ session' = Released(s, ss) /\ live' = LiveReleased(s, ss)
     /\ UNCHANGED world

\* A result that carries an error: error and turn_done at once.
TurnFails(s) ==
  LET t == session[s].of
      ss == [session EXCEPT ![s] = TurnOver(@)]
  IN /\ Pumped(s) /\ session[s].asks = 0
     /\ thread' = WithStatus(t, "error")
     /\ session' = Released(s, ss) /\ live' = LiveReleased(s, ss)
     /\ UNCHANGED world

\* error or limit_error before any result, which may come later or not at all.
TurnReportsError(s) ==
  LET ss == [session EXCEPT ![s] = Errored(@)]
  IN /\ Pumped(s)
     /\ thread' = WithStatus(session[s].of, "error")
     /\ session' = Released(s, ss) /\ live' = LiveReleased(s, ss)
     /\ UNCHANGED world

Gone(x) == Kept([x EXCEPT !.st = "over", !.timer = FALSE, !.owes = 0])

\* The child fails by itself: its stream reports an error and ends.
SessionDies(s) ==
  LET ss == [session EXCEPT ![s] = Errored(@)]
  IN /\ session[s].st = "open" /\ ~session[s].aborted
     /\ thread' = WithStatus(session[s].of, "error")
     /\ session' = [Released(s, ss) EXCEPT ![s] = Gone(@)]
     /\ live' = TornDown(s, LiveReleased(s, ss))
     /\ UNCHANGED world

\* The stream of a child nobody aborted just ends: no event, no status, no answer to its writes.
StreamRunsOut(s) ==
  /\ session[s].st = "open" /\ ~session[s].aborted
  /\ session' = [session EXCEPT ![s] = Gone(@)]
  /\ live' = TornDown(s, live)
  /\ left' = left \cup {t \in {session[s].of} : thread[t].status = "running"}
  /\ UNCHANGED <<thread, grace, signedIn, counters>>

\* The stream of an aborted child ends.
StreamEnds(s) ==
  /\ session[s].st = "open" /\ session[s].aborted
  /\ session' = [session EXCEPT ![s] = Gone(@)]
  /\ live' = TornDown(s, live)
  /\ UNCHANGED <<thread, world>>

\* The release or the idle timer.
TimerFires(s) ==
  LET ss == [session EXCEPT ![s].timer = FALSE]
  IN /\ session[s].timer
     /\ session' = Parked(session[s].of, ss) /\ live' = LiveParked(session[s].of, ss)
     /\ UNCHANGED <<thread, world>>

-----------------------------------------------------------------------------
\* Gated writes.

\* Mutation: an ask of an aborted session waits like any other.
AskedAnyway(x) == [x EXCEPT !.asks = @ + 1]
awaitDecision(x) == IF x.aborted THEN x ELSE [x EXCEPT !.asks = @ + 1]
\* A tool call that needs a decision.
handlePermission(s) ==
  /\ session[s].st = "open" /\ session[s].owes > 0 /\ session[s].asks < MaxAsks
  /\ session' = [session EXCEPT ![s] = awaitDecision(@)]
  /\ UNCHANGED <<thread, live, world>>

\* Mutation: a decision on a request that is settled is taken too.
AnyRequest(s) == session[s].st # "none"
Pending(s) == session[s].asks > 0
settlePermission(s) ==
  /\ Pending(s)
  /\ session' = [session EXCEPT ![s] = Answered(@)]
  /\ UNCHANGED <<thread, live, world>>
\* The owner may decide; the timer does in any case.
decidePermission(s) == settlePermission(s)
AskTimesOut(s) == settlePermission(s)

\* Stop denies what waits; the interrupted turn then ends like any other.
stop(t) ==
  /\ live[t] # NoSession
  /\ session' = [s \in Sessions |-> IF session[s].of = t THEN Settled(session[s]) ELSE session[s]]
  /\ UNCHANGED <<thread, live, world>>

-----------------------------------------------------------------------------
\* The rest of a thread's life.

deleteThread(t) ==
  /\ Exists(t)
  /\ session' = Detached({t}) /\ live' = [live EXCEPT ![t] = NoSession]
  /\ thread' = [thread EXCEPT ![t].there = "gone"]
  /\ UNCHANGED world

\* Retention, days after whatever the thread last did has come to an end.
Prune(t) ==
  /\ Exists(t) /\ live[t] = NoSession /\ \A s \in Sessions : session[s].of # t
  /\ thread' = [thread EXCEPT ![t].there = "gone"]
  /\ UNCHANGED <<live, session, world>>

\* killAllSessions detaches every registered session; the rows keep their status.
signOut ==
  /\ signedIn /\ outages < MaxOutages
  /\ session' = Detached(Threads)
  /\ live' = [t \in Threads |-> NoSession]
  /\ signedIn' = FALSE /\ outages' = outages + 1
  /\ left' = left \cup {t \in Registered(live) : thread[t].status = "running"}
  /\ UNCHANGED <<thread, grace, messages>>
SignIn ==
  /\ ~signedIn /\ signedIn' = TRUE
  /\ UNCHANGED <<thread, live, session, grace, left, counters>>

\* reconcileOrphanThreads.
Reconciled(r) == IF r.there = "there" /\ r.status = "running" THEN [r EXCEPT !.status = "idle"] ELSE r
Reboot ==
  /\ outages < MaxOutages
  /\ thread' = [t \in Threads |-> Reconciled(thread[t])]
  /\ live' = [t \in Threads |-> NoSession]
  /\ session' = [s \in Sessions |-> Blank]
  /\ left' = {} /\ outages' = outages + 1
  /\ UNCHANGED <<grace, signedIn, messages>>

-----------------------------------------------------------------------------
Init ==
  /\ thread = [t \in Threads |-> Unborn]
  /\ live = [t \in Threads |-> NoSession]
  /\ session = [s \in Sessions |-> Blank]
  /\ grace \in Graces /\ signedIn = TRUE /\ left = {}
  /\ messages = 0 /\ outages = 0

OwnerSteps ==
  \/ signOut \/ SignIn
  \/ \E t \in Threads : createThread(t) \/ sendMessage(t) \/ retrySource(t) \/ stop(t)
                        \/ deleteThread(t) \/ Prune(t)
  \/ \E s \in Sessions : decidePermission(s)
ChildSteps ==
  \E s \in Sessions : TurnDone(s) \/ TurnFails(s) \/ TurnReportsError(s) \/ SessionDies(s)
                      \/ StreamRunsOut(s) \/ StreamEnds(s) \/ handlePermission(s)
TimerSteps == \E s \in Sessions : TimerFires(s) \/ AskTimesOut(s)
Next == OwnerSteps \/ ChildSteps \/ TimerSteps \/ Reboot
Spec == Init /\ [][Next]_vars

\* A turn whose tool calls are bounded by maxTurns ends, unless it has reported an error: then
\* the child may say nothing more.
TurnEnds(s) == ~session[s].errored /\ (TurnDone(s) \/ TurnFails(s))
Fairness ==
  \A s \in Sessions : SF_vars(TurnEnds(s)) /\ WF_vars(StreamEnds(s))
                      /\ WF_vars(TimerFires(s)) /\ WF_vars(AskTimesOut(s))
FairSpec == Spec /\ Fairness

-----------------------------------------------------------------------------
\* Every variable keeps its type.
SessionType ==
  [st : {"none", "open", "over"}, of : Threads \cup {NoThread}, aborted : BOOLEAN,
   detached : BOOLEAN, inFlight : BOOLEAN, errored : BOOLEAN, timer : BOOLEAN,
   owes : Nat, asks : 0..MaxAsks]
ThreadType ==
  [there : {"unborn", "there", "gone"}, status : Statuses, source : Sources, asked : BOOLEAN]
TypeOK ==
  /\ thread \in [Threads -> ThreadType]
  /\ live \in [Threads -> Sessions \cup {NoSession}]
  /\ session \in [Sessions -> SessionType]
  /\ grace \in BOOLEAN /\ signedIn \in BOOLEAN /\ left \subseteq Threads
  /\ messages \in Nat /\ outages \in Nat

\* maxActiveSessions counts registrations and bounds processes, and a message is only handed to
\* a child that reads it: the children nobody has told to stop are exactly the registered
\* sessions, each its own thread's, which exists, and never more than the cap -- while sessions
\* of one thread replace each other and wind down beside the next one.
Alive == {s \in Sessions : session[s].st = "open" /\ ~session[s].aborted}
ChildrenCounted ==
  /\ \A s \in Alive : live[session[s].of] = s
  /\ \A t \in Registered(live) : live[t] \in Alive /\ session[live[t]].of = t /\ Exists(t)
  /\ Cardinality(Alive) <= MaxActive

\* What the owner is shown has a child behind it that will serve it.  A thread that says running
\* has a session with that turn in flight, unless a sign-out cut it off or its stream just ended;
\* and while the release is immediate, its child owes that one result and no write waits for a
\* decision that a session released, dropped or dead would never use -- but those of a stream
\* that just ended, which nobody settles with it.
RanOut(x) == x.st = "over" /\ ~x.aborted
ShownIsServed ==
  /\ \A t \in Threads \ left : Exists(t) /\ thread[t].status = "running" =>
       /\ live[t] # NoSession
       /\ session[live[t]].inFlight /\ session[live[t]].owes > 0
  /\ ~grace => \A s \in Sessions :
       /\ session[s].owes <= 1
       /\ session[s].asks > 0 =>
            \/ RanOut(session[s])
            \/ session[s].st = "open" /\ live[session[s].of] = s

\* No session holds its slot for ever, whatever its child reports, and also when the child says
\* nothing more after an error.
SlotsReturn == \A t \in Threads : (live[t] # NoSession) ~> (live[t] = NoSession)
=============================================================================
