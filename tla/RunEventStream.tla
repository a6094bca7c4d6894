--------------------------- MODULE RunEventStream ---------------------------
(***************************************************************************)
(* One run's events on their way to one console: the manager's bounded     *)
(* replay buffer, GET /api/runs/:id/stream with its cursor, gap-fill and   *)
(* close condition (testing/routes.ts), and the web console's EventSource  *)
(* with its dedupe and its staleness watchdog (use-run-stream.ts).  What   *)
(* the run does is reduced to what a stream can tell apart: events, the    *)
(* terminal status, the settled rating, and the ways a run leaves the      *)
(* manager early (POST /end, DELETE, a crash).  Connections share nothing, *)
(* so one console is enough.                                               *)
(***************************************************************************)
EXTENDS Integers, Sequences, SequencesExt

CONSTANTS
  MaxBuffered,    \* MAX_BUFFERED_EVENTS
  MaxSteps,       \* bound: events before the terminal status
  MaxDrops,       \* bound: connections the network breaks or leaves hanging
  Disturbances    \* which of "end", "delete", "crash" may happen

ASSUME BufferAssumption == MaxBuffered \in Nat \ {0}
ASSUME StreamBoundsAssumption == MaxSteps \in Nat /\ MaxDrops \in Nat
ASSUME DisturbancesAssumption == Disturbances \subseteq {"end", "delete", "crash"}

VARIABLES
  emitted,   \* the events the manager stamped; event i carries seq i-1
  logged,    \* how many of them the persistence microtasks have stored
  run,       \* the manager's entry and the run's row
  conn,      \* the console's current connection, both ends and the wire
  client,    \* the console
  hist       \* history: broken connections; whether the run was disturbed, and
             \* whether the console connected afresh behind the buffer

vars == <<emitted, logged, run, conn, client, hist>>

NoSeq == -1        \* an event without a seq; a request without Last-Event-ID

-----------------------------------------------------------------------------
\* The manager.
Events == [seq : Nat \cup {NoSeq}, kind : {"step", "terminal", "rating"}]
Event(i) == [seq |-> i - 1, kind |-> emitted[i]]
HasEmitted(kind) == \E i \in DOMAIN emitted : emitted[i] = kind

\* The events of the sequence from seq lo on.
EventsFrom(lo) == [i \in 1..(Len(emitted) - lo) |-> Event(lo + i)]
\* The bounded replay buffer: the newest MaxBuffered events.
OldestBuffered == IF Len(emitted) > MaxBuffered THEN Len(emitted) - MaxBuffered ELSE 0
Buffered == EventsFrom(OldestBuffered)
\* getRun: the stored events (handlers only run once the microtasks have).
StoredEvents == [i \in 1..logged |-> Event(i)]

-----------------------------------------------------------------------------
\* The server's end of a connection.
States == {"none",        \* never opened, or given up by the console
           "requested",   \* GET /stream is under way
           "live",        \* the listener is attached
           "mute",        \* the socket is open, its listener was dropped
           "ended",       \* the server ended the response
           "refused"}     \* 404
NoConn == [state |-> "none", cursor |-> NoSeq, mark |-> NoSeq, terminal |-> FALSE,
           settled |-> FALSE, hung |-> FALSE, wire |-> <<>>]
Requested(cursor) == [NoConn EXCEPT !.state = "requested", !.cursor = cursor]
SocketOpen == conn.state \in {"live", "mute", "ended"}

\* forward: the watermark drops what this connection was sent, the rest is
\* written, and the terminal status and the settled rating together end it.
forward(c, e) ==
  IF c.state = "ended" \/ (e.seq # NoSeq /\ e.seq <= c.mark) THEN c
  ELSE LET terminal == c.terminal \/ e.kind = "terminal"
           settled == c.settled \/ e.kind = "rating"
       IN [c EXCEPT !.mark = IF e.seq = NoSeq THEN @ ELSE e.seq,
                    !.wire = IF c.hung THEN @ ELSE Append(@, e),
                    !.terminal = terminal,
                    !.settled = settled,
                    !.state = IF terminal /\ settled THEN "ended" ELSE @]

\* Mutation: one event short.
bufferCoversCursorLoosely(cursor) == cursor = NoSeq \/ OldestBuffered <= cursor + 2
\* Nothing between the cursor and the buffer was evicted; a plain connect always
\* takes the buffer as it is.
bufferCoversCursor(cursor) == cursor = NoSeq \/ OldestBuffered <= cursor + 1

\* forward, one event after the other.
Forwarded(c, events) == FoldLeft(forward, c, events)

\* streamRun on a live run: gap-fill from the log, the buffer, then the listener.
StreamLive ==
  LET attached == [conn EXCEPT !.state = "live", !.mark = conn.cursor]
      backlog == (IF bufferCoversCursor(conn.cursor) THEN <<>> ELSE StoredEvents) \o Buffered
  IN conn' = Forwarded(attached, backlog)

\* The settled rating is taken from the row when the log lacks one.
Synthesizes == run.rated /\ ~\E i \in 1..logged : emitted[i] = "rating"

\* streamRun on a finished run (writePersistedReplay): the log past the cursor
\* (seq is one less than the place), the row's rating, the end.
writePersistedReplay ==
  LET unseen == SubSeq(StoredEvents, conn.cursor + 2, logged)
      rating == IF Synthesizes THEN <<[seq |-> NoSeq, kind |-> "rating"]>> ELSE <<>>
  IN conn' = [conn EXCEPT !.state = "ended", !.wire = unseen \o rating]

Quiet == logged = Len(emitted)

\* GET /api/runs/:id/stream reaches the server.
StreamRun ==
  /\ Quiet
  /\ conn.state = "requested"
  /\ \/ run.active /\ StreamLive
     \/ ~run.active /\ run.present /\ writePersistedReplay
     \/ ~run.active /\ ~run.present /\ conn' = [conn EXCEPT !.state = "refused"]
  /\ hist' = [hist EXCEPT !.behind = @ \/ /\ run.active /\ conn.cursor = NoSeq
                                          /\ OldestBuffered > client.lastSeq + 1]
  /\ UNCHANGED <<emitted, logged, run, client>>

-----------------------------------------------------------------------------
\* The run.

\* Mutation: the entry is cleaned up before the last event is fanned out.
EmitCleaningUpFirst(kind) ==
  /\ emitted' = Append(emitted, kind)
  /\ conn' = IF conn.state = "live" /\ kind # "rating"
             THEN forward(conn, [seq |-> Len(emitted), kind |-> kind])
             ELSE conn

\* RunManager.emit: stamped, buffered, fanned out to an attached listener.
Emit(kind) ==
  /\ emitted' = Append(emitted, kind)
  /\ conn' = IF conn.state = "live"
             THEN forward(conn, [seq |-> Len(emitted), kind |-> kind])
             ELSE conn

\* The listeners are dropped; nobody ends the responses they wrote to.
DropListeners(c) == IF c.state = "live" THEN [c EXCEPT !.state = "mute"] ELSE c

EmitStep ==
  /\ Quiet
  /\ run.active /\ ~HasEmitted("terminal")
  /\ Len(emitted) < MaxSteps
  /\ Emit("step")
  /\ UNCHANGED <<logged, run, client, hist>>

EmitTerminal ==
  /\ Quiet
  /\ run.active /\ ~HasEmitted("terminal")
  /\ Emit("terminal")
  /\ UNCHANGED <<logged, run, client, hist>>

\* The review settles: the row, then the event through the manager, which drops
\* the entry; a detached run has no manager to emit through.
Settle ==
  /\ Quiet
  /\ HasEmitted("terminal") /\ ~run.rated
  /\ run' = [run EXCEPT !.rated = run.present, !.active = FALSE]
  /\ run.active \/ run.present
  /\ IF run.active THEN Emit("rating") ELSE UNCHANGED <<emitted, conn>>
  /\ UNCHANGED <<logged, client, hist>>

\* Mutation: the microtask of an event runs again.
PersistAgain ==
  /\ logged < MaxSteps + 2
  /\ logged' = logged + 1
  /\ UNCHANGED <<emitted, run, conn, client, hist>>

\* RunRepository.onEvent, in the microtask of the event.
Persist ==
  /\ ~Quiet
  /\ logged' = logged + 1
  /\ UNCHANGED <<emitted, run, conn, client, hist>>

\* POST /end: the verdict through the manager, then detach.
End ==
  /\ "end" \in Disturbances
  /\ Quiet
  /\ run.active /\ ~HasEmitted("terminal")
  /\ emitted' = Append(emitted, "terminal")
  /\ conn' = DropListeners(IF conn.state = "live"
                           THEN forward(conn, [seq |-> Len(emitted), kind |-> "terminal"])
                           ELSE conn)
  /\ run' = [run EXCEPT !.active = FALSE]
  /\ hist' = [hist EXCEPT !.disturbed = TRUE]
  /\ UNCHANGED <<logged, client>>

\* DELETE: detach a live run, drop the row and its log.
Delete ==
  /\ "delete" \in Disturbances
  /\ Quiet
  /\ run.present
  /\ run' = [run EXCEPT !.active = FALSE, !.present = FALSE]
  /\ conn' = DropListeners(conn)
  /\ hist' = [hist EXCEPT !.disturbed = TRUE]
  /\ UNCHANGED <<emitted, logged, client>>

-----------------------------------------------------------------------------
\* The console.

\* handleError: after the terminal status the console gives the stream up, before
\* it the EventSource reconnects with the last id it saw.
LoseConnection ==
  IF client.terminal
  THEN conn' = NoConn /\ client' = [client EXCEPT !.open = FALSE]
  ELSE conn' = Requested(client.lastId) /\ UNCHANGED client

\* useRunStream mounts.
Mount ==
  /\ ~client.mounted
  /\ client' = [client EXCEPT !.mounted = TRUE, !.open = TRUE]
  /\ conn' = Requested(NoSeq)
  /\ UNCHANGED <<emitted, logged, run, hist>>

\* handleMessage: what was applied before is dropped, the rest folded in; the
\* terminal status and the settled rating together close the stream.
Deliver ==
  /\ SocketOpen /\ conn.wire # <<>>
  /\ LET e == Head(conn.wire)
         stale == e.seq # NoSeq /\ e.seq <= client.lastSeq
         terminal == client.terminal \/ (~stale /\ e.kind = "terminal")
         settled == client.settled \/ (~stale /\ e.kind = "rating")
         done == terminal /\ settled /\ ~stale
     IN /\ client' = [client EXCEPT
             !.lastId = IF e.seq = NoSeq THEN @ ELSE e.seq,
             !.lastSeq = IF stale \/ e.seq = NoSeq THEN @ ELSE e.seq,
             !.applied = IF stale \/ e.seq = NoSeq THEN @ ELSE @ \cup {e.seq},
             !.terminal = terminal, !.settled = settled, !.open = ~done]
        /\ conn' = IF done THEN NoConn ELSE [conn EXCEPT !.wire = Tail(@)]
  /\ UNCHANGED <<emitted, logged, run, hist>>

\* The end of the response reaches the console.
EndOfStream ==
  /\ conn.state = "ended" /\ conn.wire = <<>> /\ ~conn.hung
  /\ LoseConnection
  /\ UNCHANGED <<emitted, logged, run, hist>>

\* The network breaks the connection; what was on the wire is lost ...
Drop ==
  /\ SocketOpen /\ hist.drops < MaxDrops
  /\ LoseConnection
  /\ hist' = [hist EXCEPT !.drops = @ + 1]
  /\ UNCHANGED <<emitted, logged, run>>

\* ... or leaves it hanging, which neither end is told.
Hang ==
  /\ SocketOpen /\ ~conn.hung /\ hist.drops < MaxDrops
  /\ conn' = [conn EXCEPT !.hung = TRUE, !.wire = <<>>]
  /\ hist' = [hist EXCEPT !.drops = @ + 1]
  /\ UNCHANGED <<emitted, logged, run, client>>

\* The watchdog: 45 s without a message or a ping, before the terminal status.  It is
\* also all that tries again after a 404, which fails the EventSource for good.
\* It opens a new EventSource, which knows no last id.
Watchdog ==
  /\ ~client.terminal
  /\ conn.hung \/ conn.state = "refused"
  /\ conn' = Requested(NoSeq)
  /\ client' = [client EXCEPT !.lastId = NoSeq]
  /\ UNCHANGED <<emitted, logged, run, hist>>

\* The process crashes and boots: the row is reconciled (abortOrphanedRuns), what
\* the microtasks had not stored is lost, no status event is written.
Crash ==
  /\ "crash" \in Disturbances
  /\ run.active \/ (run.present /\ ~run.rated)
  /\ run' = [run EXCEPT !.active = FALSE, !.rated = TRUE]
  /\ emitted' = SubSeq(emitted, 1, logged)
  /\ IF SocketOpen /\ ~conn.hung THEN LoseConnection ELSE UNCHANGED <<conn, client>>
  /\ hist' = [hist EXCEPT !.disturbed = TRUE]
  /\ UNCHANGED logged

-----------------------------------------------------------------------------
Init ==
  /\ emitted = <<>>
  /\ logged = 0
  /\ run = [active |-> TRUE, present |-> TRUE, rated |-> FALSE]
  /\ conn = NoConn
  /\ client = [mounted |-> FALSE, open |-> FALSE, lastSeq |-> NoSeq, lastId |-> NoSeq,
               applied |-> {}, terminal |-> FALSE, settled |-> FALSE]
  /\ hist = [drops |-> 0, disturbed |-> FALSE, behind |-> FALSE]

Server == EmitTerminal \/ Settle
Console == StreamRun \/ Deliver \/ EndOfStream \/ Watchdog

Next ==
  \/ EmitStep \/ Server \/ Persist \/ End \/ Delete \/ Crash
  \/ Mount \/ Console \/ Drop \/ Hang

Spec == Init /\ [][Next]_vars

\* The run ends and its review settles (RunLifecycle); requests are served,
\* messages and the end of a response arrive unless the connection breaks, and the
\* watchdog's timer fires.
Fairness == WF_vars(Persist) /\ WF_vars(Server) /\ WF_vars(Console)

FairSpec == Spec /\ Fairness

-----------------------------------------------------------------------------
TypeOK ==
  /\ emitted \in Seq({"step", "terminal", "rating"})
  /\ logged \in 0..Len(emitted)
  /\ run \in [active : BOOLEAN, present : BOOLEAN, rated : BOOLEAN]
  /\ conn \in [state : States, cursor : Nat \cup {NoSeq}, mark : Nat \cup {NoSeq},
               terminal : BOOLEAN, settled : BOOLEAN, hung : BOOLEAN, wire : Seq(Events)]
  /\ client \in [mounted : BOOLEAN, open : BOOLEAN, lastSeq : Nat \cup {NoSeq},
                 lastId : Nat \cup {NoSeq}, applied : SUBSET Nat, terminal : BOOLEAN,
                 settled : BOOLEAN]
  /\ hist \in [drops : Nat, disturbed : BOOLEAN, behind : BOOLEAN]

\* The console holds an unbroken prefix of the run, whatever was dropped, evicted,
\* replayed or gap-filled on the way (testing/routes.ts, streamRun's cursor resume).
NothingLost == client.applied = 0..client.lastSeq

\* The server ends the stream of a live run only when everything it will ever
\* emit, the settled rating last, is on this connection (streamRun's close).
EndsComplete ==
  conn.state = "ended" /\ conn.terminal =>
    conn.settled /\ conn.mark = Len(emitted) - 1

\* A console loses nothing as long as no connect without a cursor finds events
\* evicted that it still lacks, and no stream ends before it carried everything.
StreamsComplete == (~hist.behind => NothingLost) /\ EndsComplete

\* Every stream of a live run comes to its end: a settled rating follows every
\* terminal status, so the socket needs no timeout (testing/routes.ts, streamRun).
StreamsClose == conn.state \in {"live", "mute"} ~> conn.state \notin {"live", "mute"}

\* What a console comes to when the run ends by itself: it shows the verdict and
\* where the review landed, and closes.  A connection that breaks after the
\* verdict closes the console with the review unknown, one that hangs after it
\* leaves the verdict showing (use-run-stream.ts, handleError).
UndisturbedConsoleSettles ==
  client.open ~> \/ ~client.open /\ client.terminal /\ (client.settled \/ hist.drops > 0)
                 \/ conn.hung /\ client.terminal
                 \/ hist.disturbed
=============================================================================
