---------------------------- MODULE RunLog_proofs ----------------------------
(***************************************************************************)
(* The replay log of a run: LogFaithful and ReplayConverges, for every set *)
(* of backends and every bound.  Neither is inductive.  Behind the first:  *)
(* a live entry of the manager keeps the cursor open and in step with what *)
(* was stamped, and the settled rating, which closes the cursor, is the    *)
(* last event a run ever emits, because its entry is terminal by then.     *)
(* Behind the second: before the review lands nothing in the log or in the *)
(* row is settled, and from then on the two move together.                 *)
(***************************************************************************)
EXTENDS RunLifecycle_proofs

\* Places of the executor.
Unstarted == {"none", "resolving", "gated", "queued"}
Over == {"done", "down"}
Ending == {"cleanup", "closing", "grading"}

\* The executor has its verdict.
Late(x) == x.settled \/ x.pc \in Ending

\* The manager knows of every verdict the executor has, and its entry goes away
\* no later than the run's promise chain.
EntryInv ==
  /\ mgr.active => ~mgr.settled
  /\ mgr.active /\ Late(exec) => mgr.terminal
  /\ exec.pc \in {"none"} \cup Over => ~mgr.active
  /\ exec.pc \in Unstarted => ~exec.settled

\* An event may still reach the log.
Pending == mgr.active \/ micro # <<>>

\* The log's rows carry the idx of their place.
Numbered ==
  /\ log.next = Len(log.entries)
  /\ \A i \in 1..Len(log.entries) : log.entries[i].idx = i - 1

\* While events may come, the cursor is where the log ends.
InStep ==
  Pending => /\ cursor.open /\ cursor.idx = Len(log.entries)
             /\ Len(sent) = Len(log.entries) + Len(micro)

\* What was stamped is in the log, or queued behind it.
Traced ==
  /\ Len(sent) <= Len(log.entries) + Len(micro)
  /\ \A i \in 1..Len(sent) :
       sent[i] = IF i <= Len(log.entries) THEN log.entries[i].ev ELSE micro[i - Len(log.entries)]

\* A settled rating is the last event of a run.
LastWord == \A i \in 1..Len(micro) : IsSettledRating(micro[i]) => i = Len(micro) /\ ~mgr.active

LogInv ==
  /\ exec.pc = "none" => /\ log = NoLog /\ sent = <<>> /\ micro = <<>>
                         /\ ~row.present /\ rerate.open = 0 /\ ~hist.crashed
  /\ hist.crashed => ~mgr.active /\ micro = <<>>
  /\ row.present /\ ~hist.torn =>
       /\ Numbered /\ InStep /\ LastWord
       /\ hist.crashed \/ Traced
       /\ rerate.open > 0 => exec.pc \in Over

HasVerdict(evs) == \E i \in 1..Len(evs) : IsTerminalStatus(evs[i])

\* A rating is settled in the log; entry i is the last such.
SettledAt(l, i) == IsSettledRating(l.entries[i].ev)
NothingSettled(l) == \A i \in 1..Len(l.entries) : ~SettledAt(l, i)
LastSettled(l, i) ==
  SettledAt(l, i) /\ \A k \in 1..Len(l.entries) : SettledAt(l, k) => k <= i

\* Log, queue and row agree on the rating.
Agrees ==
  \/ /\ NothingSettled(log)
     /\ \A i \in 1..Len(micro) : IsSettledRating(micro[i]) => micro[i].val = row.rating
  \/ /\ \A i \in 1..Len(micro) : ~IsSettledRating(micro[i])
     /\ \E i \in 1..Len(log.entries) : LastSettled(log, i) /\ log.entries[i].ev.val = row.rating

\* The verdict is in the row, or queued behind it, as soon as the manager has it.
Reported == mgr.terminal \/ ~mgr.active => Terminal(row.status) \/ HasVerdict(micro)

RatingInv ==
  /\ exec.pc = "down" <=> hist.crashed
  /\ row.present /\ ~hist.torn =>
       /\ hist.crashed \/ Reported
       /\ exec.pc \in {"grading", "done"} => Terminal(row.status)
       /\ exec.pc \notin Over => /\ ~Settled(row.rating) /\ NothingSettled(log)
                                 /\ \A i \in 1..Len(micro) : ~IsSettledRating(micro[i])
       /\ exec.pc \in Over => /\ row.status # "running"
                              /\ rerate.open = 0 /\ Terminal(row.status) => Settled(row.rating)
                              /\ Settled(row.rating) => Agrees

ReplayInv == EntryInv /\ LogInv /\ RatingInv

-----------------------------------------------------------------------------
(* The events. *)

\* No rating of evs is settled.
Ordinary(evs) == \A i \in DOMAIN evs : ~IsSettledRating(evs[i])
Silent(evs) == \A i \in DOMAIN evs : ~IsStatus(evs[i])
\* The last status of evs is a verdict.
Ends(evs) == \E i \in DOMAIN evs : /\ IsTerminalStatus(evs[i])
                                   /\ \A j \in DOMAIN evs : IsStatus(evs[j]) => j <= i

\* Only the end of a review is a settled rating.
LEMMA OrdinaryEvents ==
  /\ ~IsSettledRating(StepEvent) /\ ~IsStatus(StepEvent)
  /\ \A p \in Phases : ~IsSettledRating(PhaseEvent(p)) /\ ~IsStatus(PhaseEvent(p))
  /\ ~IsSettledRating(RunningEvent)
  /\ ~IsSettledRating(RatingEvent("rating")) /\ ~IsStatus(RatingEvent("rating"))
  /\ \A v \in Verdicts : /\ ~IsSettledRating(StatusEvent(v)) /\ IsStatus(StatusEvent(v))
                         /\ IsTerminalStatus(StatusEvent(v))
  /\ \A s \in RatingStates : ~IsStatus(RatingEvent(s))
BY DEF IsSettledRating, Settled, SettledRatings, IsStatus, IsTerminalStatus, Terminal, Verdicts,
       StepEvent, PhaseEvent, RunningEvent, RatingEvent, StatusEvent

\* The event of a cause is a verdict and no rating.
LEMMA CauseOrdinary ==
  ASSUME NEW cause \in TerminalCauses
  PROVE  /\ ~IsSettledRating(TerminalEvent(cause)) /\ IsStatus(TerminalEvent(cause))
         /\ IsTerminalStatus(TerminalEvent(cause))
BY VerdictType, OrdinaryEvents DEF TerminalEvent

\* What emitting ordinary events does to a live entry.
LEMMA EntryAfterOrdinary ==
  ASSUME NEW m \in Entries, ~m.settled, NEW evs \in Seq(Events), Ordinary(evs)
  PROVE  /\ AfterEvents(m, evs).active /\ ~AfterEvents(m, evs).settled
         /\ Ends(evs) => AfterEvents(m, evs).terminal
         /\ Silent(evs) => AfterEvents(m, evs).terminal = m.terminal
         /\ AfterEvents(m, evs).terminal => m.terminal \/ HasVerdict(evs)
<1> DEFINE statuses == {i \in DOMAIN evs : IsStatus(evs[i])}
           terminal == IF statuses = {} THEN m.terminal
                       ELSE \E i \in statuses : /\ Terminal(evs[i].val)
                                                /\ \A j \in statuses : j <= i
           settled == m.settled \/ \E i \in DOMAIN evs : IsSettledRating(evs[i])
<1>1. ~settled
  BY DEF Ordinary
<1>2. AfterEvents(m, evs) = IF terminal /\ settled THEN NoEntry
                            ELSE [active |-> TRUE, terminal |-> terminal, settled |-> settled]
  BY DEF AfterEvents
<1>3. AfterEvents(m, evs) = [active |-> TRUE, terminal |-> terminal, settled |-> settled]
  BY <1>1, <1>2, Zenon
<1>4. Ends(evs) => terminal
  BY DEF Ends, IsTerminalStatus
<1>5. Silent(evs) => terminal = m.terminal
  BY DEF Silent
<1>9. terminal => m.terminal \/ HasVerdict(evs)
  BY DEF HasVerdict, IsTerminalStatus
<1> HIDE DEF statuses, terminal, settled
<1>6. /\ AfterEvents(m, evs).active = TRUE
      /\ AfterEvents(m, evs).terminal = terminal
      /\ AfterEvents(m, evs).settled = settled
  BY <1>3
<1>7. AfterEvents(m, evs).active /\ ~AfterEvents(m, evs).settled
  BY <1>1, <1>6
<1>8. QED BY <1>4, <1>5, <1>6, <1>7, <1>9, Zenon

\* The settled rating of a terminal entry cleans it up.
LEMMA EntryAfterRating ==
  ASSUME NEW m \in Entries, m.terminal, NEW s \in SettledRatings
  PROVE  AfterEvents(m, <<RatingEvent(s)>>) = NoEntry
<1> DEFINE evs == <<RatingEvent(s)>>
           statuses == {i \in DOMAIN evs : IsStatus(evs[i])}
<1>1. IsSettledRating(evs[1]) /\ ~IsStatus(evs[1]) /\ DOMAIN evs = {1}
  BY DEF RatingEvent, IsSettledRating, IsStatus, Settled
<1>2. statuses = {}
  BY <1>1
<1>3. \E i \in DOMAIN evs : IsSettledRating(evs[i])
  BY <1>1
<1> HIDE DEF evs
<1>4. AfterEvents(m, evs) = NoEntry
  BY <1>2, <1>3, Zenon DEF AfterEvents
<1>5. QED BY <1>4 DEF evs

-----------------------------------------------------------------------------
(* A macrotask that emits. *)

\* The events evs are stamped and queued, or the entry is gone and nothing is.
Stamps(evs) ==
  \/ mgr.active /\ sent' = sent \o evs /\ micro' = micro \o evs
  \/ ~mgr.active /\ ~mgr'.active /\ UNCHANGED <<sent, micro>>

\* The log stays where it is, while the executor moves on from a run not over.
Elsewhere ==
  /\ UNCHANGED <<log, cursor, rerate>>
  /\ row'.present = row.present /\ row'.status = row.status
  /\ hist'.torn = hist.torn /\ hist'.crashed = hist.crashed
  /\ exec.pc # "none" /\ exec'.pc # "none"
  /\ exec.pc \in Over => exec'.pc \in Over
  /\ exec'.pc = "down" <=> exec.pc = "down"

\* No rating is settled by the way.
RatingKept == row'.rating = row.rating \/ (exec.pc \notin Over /\ ~Settled(row'.rating))

\* Stamped events keep LogInv, when only the last may be a settled rating, and
\* then with the entry gone.
LEMMA StampsKeepsLog ==
  ASSUME TypeOK, LogInv, Quiet, NEW evs \in Seq(Events), Stamps(evs), Elsewhere,
         \A i \in 1..Len(evs) : IsSettledRating(evs[i]) => i = Len(evs) /\ ~mgr'.active
  PROVE  LogInv'
<1> DEFINE n == Len(log.entries)
<1>t. /\ sent \in Seq(Events) /\ micro \in Seq(Events) /\ micro = <<>> /\ Len(micro) = 0
      /\ log.entries \in Seq(LogEntries) /\ n \in Nat
  BY DEF TypeOK, Quiet, Logs
<1>1. CASE ~mgr.active
  <2>1. ~mgr'.active /\ UNCHANGED <<sent, micro>>
    BY <1>1 DEF Stamps
  <2>2. ~Pending'
    BY <1>t, <2>1 DEF Pending
  <2>3. QED BY <1>t, <2>1, <2>2 DEF LogInv, Elsewhere, Numbered, InStep, Traced, LastWord
<1>2. CASE mgr.active
  <2>1. sent' = sent \o evs /\ micro' = evs /\ ~hist.crashed
    <3>1. sent' = sent \o evs /\ micro' = micro \o evs
      BY <1>2 DEF Stamps
    <3>2. QED BY <1>2, <1>t, <3>1 DEF LogInv
  <2>2. /\ Len(sent') = Len(sent) + Len(evs)
        /\ \A i \in 1..Len(sent') : sent'[i] = IF i <= Len(sent) THEN sent[i] ELSE evs[i - Len(sent)]
    BY <1>t, <2>1, ConcatProperties
  <2>3. SUFFICES ASSUME row.present, ~hist.torn
                 PROVE  (/\ Numbered /\ InStep /\ LastWord /\ Traced
                         /\ rerate.open > 0 => exec.pc \in Over)'
    BY <2>1 DEF LogInv, Elsewhere
  <2>4. /\ Numbered /\ Traced /\ cursor.open /\ cursor.idx = n /\ Len(sent) = n
        /\ rerate.open > 0 => exec.pc \in Over
    BY <1>2, <1>t, <2>1, <2>3 DEF LogInv, InStep, Pending
  <2>5. Numbered' /\ (rerate.open > 0 => exec.pc \in Over)'
    BY <2>4 DEF Numbered, Elsewhere
  <2>6. InStep'
    BY <2>1, <2>2, <2>4 DEF InStep, Elsewhere
  <2>7. LastWord'
    BY <2>1 DEF LastWord
  <2>8. Traced'
    <3>1. Len(sent') <= Len(log'.entries) + Len(micro')
      BY <2>1, <2>2, <2>4 DEF Elsewhere
    <3>2. \A i \in 1..Len(sent) : sent[i] = log.entries[i].ev
      BY <1>t, <2>4 DEF Traced
    <3>3. QED BY <1>t, <2>1, <2>2, <2>4, <3>1, <3>2 DEF Traced, Elsewhere
  <2>9. QED BY <2>5, <2>6, <2>7, <2>8
<1>3. QED BY <1>1, <1>2

\* What the executor may do to its place beside emitting evs.
Moves(evs) ==
  /\ exec'.pc \notin {"none"} \cup Over
  /\ exec'.pc \in Unstarted => ~exec'.settled
  /\ exec'.pc = "grading" => Late(exec)
  /\ \/ Ends(evs)
     \/ ~Late(exec')
     \/ Silent(evs) /\ Late(exec)

\* Ordinary events keep ReplayInv, when a move past the verdict emits it.
LEMMA EmitKeepsReplay ==
  ASSUME TypeOK, ReplayInv, Quiet, NEW evs \in Seq(Events), Emit(evs), Ordinary(evs),
         Elsewhere, RatingKept, Moves(evs)
  PROVE  ReplayInv'
<1>1. mgr \in Entries
  BY DEF TypeOK
<1>2. /\ mgr.active => sent' = sent \o evs /\ micro' = micro \o evs /\ mgr' = AfterEvents(mgr, evs)
      /\ ~mgr.active => UNCHANGED <<sent, micro, mgr>>
  BY Zenon DEF Emit, EmitNothing
<1>3. LogInv'
  <2>1. Stamps(evs)
    BY <1>2 DEF Stamps
  <2>2. QED BY <2>1, StampsKeepsLog DEF ReplayInv, Ordinary
<1>4. EntryInv'
  <2>1. CASE mgr.active
    <3>1. /\ mgr'.active /\ ~mgr'.settled
          /\ Ends(evs) => mgr'.terminal
          /\ Silent(evs) => mgr'.terminal = mgr.terminal
      BY <1>1, <1>2, <2>1, EntryAfterOrdinary DEF ReplayInv, EntryInv
    <3>2. Late(exec') => mgr'.terminal
      BY <2>1, <3>1 DEF Moves, ReplayInv, EntryInv
    <3>3. QED BY <3>1, <3>2 DEF EntryInv, Moves, Late
  <2>2. CASE ~mgr.active
    BY <1>2, <2>2 DEF EntryInv, Moves
  <2>3. QED BY <2>1, <2>2
<1>5. RatingInv'
  <2>1. micro = <<>> /\ Len(micro) = 0 /\ micro \in Seq(Events) /\ exec.pc \notin Over
    BY DEF Quiet, TypeOK, Elsewhere, Moves
  <2>2. micro' = evs \/ (micro' = <<>> /\ ~mgr.active)
    <3>1. <<>> \o evs = evs
      OBVIOUS
    <3>2. QED BY <1>2, <2>1, <3>1
  <2>3. \A i \in 1..Len(micro') : ~IsSettledRating(micro'[i])
    BY <2>2 DEF Ordinary
  <2>4. SUFFICES ASSUME row.present, ~hist.torn
                 PROVE  /\ hist.crashed \/ Reported'
                        /\ exec'.pc = "grading" => Terminal(row.status)
                        /\ ~Settled(row'.rating) /\ NothingSettled(log)
    BY <2>3 DEF RatingInv, Elsewhere, Moves, Over, NothingSettled, SettledAt, ReplayInv
  <2>5. (hist.crashed \/ Reported) /\ ~Settled(row.rating) /\ NothingSettled(log)
    BY <2>1, <2>4 DEF ReplayInv, RatingInv
  <2>6. ~HasVerdict(micro)
    BY <2>1 DEF HasVerdict
  <2>7. hist.crashed \/ Reported'
    <3>1. CASE mgr.active
      <4>1. mgr' = AfterEvents(mgr, evs) /\ micro' = evs
        BY <1>2, <2>2, <3>1, <2>1
      <4>2. mgr'.active /\ (mgr'.terminal => mgr.terminal \/ HasVerdict(evs))
        BY <1>1, <3>1, <4>1, EntryAfterOrdinary DEF ReplayInv, EntryInv
      <4>3. QED BY <2>5, <2>6, <4>1, <4>2 DEF Reported, HasVerdict, Elsewhere
    <3>2. CASE ~mgr.active
      <4>1. UNCHANGED <<micro, mgr>>
        BY <1>2, <3>2
      <4>2. QED BY <2>5, <4>1 DEF Reported, HasVerdict, Elsewhere
    <3>3. QED BY <3>1, <3>2
  <2>8. exec'.pc = "grading" => Terminal(row.status)
    <3>1. SUFFICES ASSUME Late(exec) PROVE Terminal(row.status)
      BY DEF Moves
    <3>2. mgr.terminal \/ ~mgr.active
      BY <3>1 DEF ReplayInv, EntryInv
    <3>3. ~hist.crashed
      BY <2>1 DEF ReplayInv, RatingInv, Over
    <3>4. QED BY <2>5, <2>6, <3>2, <3>3 DEF Reported
  <2>9. QED BY <2>5, <2>7, <2>8 DEF RatingKept
<1>6. QED BY <1>3, <1>4, <1>5 DEF ReplayInv

\* Steps that leave the manager alone keep ReplayInv.
LEMMA StillKeepsReplay ==
  ASSUME TypeOK, ReplayInv, Quiet, UNCHANGED <<sent, micro, mgr>>, Elsewhere, RatingKept,
         exec'.pc = "grading" => Late(exec), exec'.pc = "done" => exec.pc = "done",
         exec'.pc \in {"none"} \cup Over => ~mgr.active,
         exec'.pc \in Unstarted => ~exec'.settled,
         Late(exec') => Late(exec)
  PROVE  ReplayInv'
<1>1. EntryInv'
  BY DEF ReplayInv, EntryInv, Late
<1>2. LogInv'
  BY DEF ReplayInv, LogInv, Elsewhere, Numbered, InStep, Pending, Traced, LastWord
<1>3. RatingInv'
  <2>1. micro = <<>> /\ Len(micro) = 0
    BY DEF Quiet
  <2>2. SUFFICES ASSUME row.present, ~hist.torn
                 PROVE  (/\ hist.crashed \/ Reported
                         /\ exec.pc \in {"grading", "done"} => Terminal(row.status)
                         /\ exec.pc \notin Over => /\ ~Settled(row.rating) /\ NothingSettled(log)
                                                   /\ \A i \in 1..Len(micro) : ~IsSettledRating(micro[i])
                         /\ exec.pc \in Over => /\ row.status # "running"
                                                /\ rerate.open = 0 /\ Terminal(row.status) => Settled(row.rating)
                                                /\ Settled(row.rating) => Agrees)'
    BY DEF ReplayInv, RatingInv, Elsewhere
  <2>3. hist.crashed \/ Reported
    BY <2>2 DEF ReplayInv, RatingInv
  <2>4. (hist.crashed \/ Reported)'
    BY <2>3 DEF Reported, HasVerdict, Elsewhere
  <2>5. CASE exec.pc \in Over
    <3>1. exec'.pc = exec.pc /\ row'.rating = row.rating
      BY <2>5 DEF Over, Elsewhere, RatingKept
    <3>2. QED
      BY <2>2, <2>4, <2>5, <3>1
      DEF ReplayInv, RatingInv, Elsewhere, Agrees, NothingSettled, LastSettled, SettledAt
  <2>6. CASE exec.pc \notin Over
    <3>1. exec'.pc \notin Over /\ ~hist.crashed
      BY <2>6 DEF Over, Elsewhere, ReplayInv, RatingInv
    <3>2. ~Settled(row'.rating) /\ NothingSettled(log)
      BY <2>2, <2>6 DEF ReplayInv, RatingInv, RatingKept
    <3>3. exec'.pc = "grading" => Terminal(row.status)
      <4>1. Late(exec) => mgr.terminal \/ ~mgr.active
        BY DEF ReplayInv, EntryInv
      <4>2. QED BY <2>1, <2>3, <3>1, <4>1 DEF Reported, HasVerdict
    <3>4. QED
      BY <2>1, <2>4, <3>1, <3>2, <3>3 DEF Elsewhere, NothingSettled, SettledAt, Over
  <2>7. QED BY <2>5, <2>6
<1>4. QED BY <1>1, <1>2, <1>3 DEF ReplayInv

-----------------------------------------------------------------------------
(* One lemma per action or group of actions. *)

\* Start opens an empty log, a cursor at its end and a live entry.
LEMMA ReplayStart ==
  ASSUME TypeOK, ReplayInv, Start
  PROVE  ReplayInv'
<1>1. exec.pc = "none" /\ exec \in Executions
  BY DEF Start, TypeOK
<1>2. PICK pc \in {"resolving", "gated"} : At(pc)
  BY DEF Start
<1>3. exec'.pc = pc /\ exec'.settled = exec.settled
  BY <1>1, <1>2 DEF At, Executions
<1>4. /\ row' = NewRow /\ cursor' = [open |-> TRUE, idx |-> 0] /\ mgr' = NewEntry
      /\ log' = NoLog /\ sent' = <<>> /\ micro' = <<>>
      /\ ~hist'.crashed /\ rerate'.open = 0
  BY <1>1 DEF Start, ReplayInv, LogInv
<1>5. mgr'.active /\ ~mgr'.settled
  BY <1>4 DEF NewEntry
<1>6. /\ log'.next = 0 /\ Len(log'.entries) = 0 /\ Len(sent') = 0 /\ Len(micro') = 0
      /\ cursor'.open /\ cursor'.idx = 0
  BY <1>4 DEF NoLog
<1>7. EntryInv'
  BY <1>1, <1>3, <1>5 DEF EntryInv, Late, Ending, Over, Unstarted, ReplayInv
<1>8. LogInv'
  BY <1>3, <1>4, <1>6 DEF LogInv, Numbered, InStep, Traced, LastWord
<1>9. ~Settled(row'.rating) /\ ~mgr'.terminal
  BY <1>4 DEF NewRow, NoRow, NewEntry, Settled, SettledRatings
<1>10. RatingInv'
  BY <1>3, <1>4, <1>5, <1>6, <1>9 DEF RatingInv, Reported, NothingSettled, Over
<1>11. QED BY <1>7, <1>8, <1>10 DEF ReplayInv

\* A running row has no verdict.
LEMMA LiveStatuses == ~Terminal("running")
BY DEF Terminal, TerminalStatuses

\* onEvent leaves the review axis to the review.
LEMMA RowAfterRating ==
  ASSUME NEW r \in Rows, NEW e \in Events
  PROVE  RowAfter(r, e).rating = r.rating
<1>1. \/ RowAfter(r, e) = finalize(r, e)
      \/ RowAfter(r, e) = [r EXCEPT !.status = e.val]
      \/ RowAfter(r, e) = [r EXCEPT !.phase = e.val]
      \/ RowAfter(r, e) = r
  BY Zenon DEF RowAfter
<1>2. QED BY <1>1 DEF finalize, Rows

\* Where onEvent puts the head of the queue.
LEMMA PersistLog ==
  ASSUME TypeOK, LogInv, Persist, row.present, ~hist.torn
  PROVE  LET n == Len(log.entries)
             h == Head(micro)
         IN /\ Len(log'.entries) = n + 1 /\ log'.next = n + 1
            /\ \A i \in 1..n : log'.entries[i] = log.entries[i]
            /\ log'.entries[n + 1].idx = n /\ log'.entries[n + 1].ev = h
            /\ cursor' = CursorAfter(cursor, h)
            /\ row' = RowAfter(row, h)
<1> DEFINE n == Len(log.entries)
           h == Head(micro)
           e == [idx |-> n, ev |-> h]
<1>1. micro # <<>> /\ micro \in Seq(Events) /\ log.entries \in Seq(LogEntries) /\ n \in Nat
  BY DEF Persist, TypeOK, Logs
<1>2. h \in Events
  BY <1>1
<1>3. cursor.open /\ cursor.idx = n /\ log.next = n
  BY <1>1 DEF LogInv, InStep, Pending, Numbered
<1>4. /\ log' = appendEvent(log, cursor.idx, h)
      /\ cursor' = CursorAfter(cursor, h) /\ row' = RowAfter(row, h)
  BY <1>3, Zenon DEF Persist
<1>5. log'.entries = Append(log.entries, e) /\ log'.next = n + 1
  BY <1>1, <1>3, <1>4 DEF appendEvent
<1>6. e \in LogEntries /\ e.idx = n /\ e.ev = h
  BY <1>1, <1>2 DEF LogEntries
<1> HIDE DEF e
<1>7. /\ Len(log'.entries) = n + 1
      /\ \A i \in 1..n : log'.entries[i] = log.entries[i]
      /\ log'.entries[n + 1] = e
  BY <1>1, <1>5, <1>6
<1>8. QED BY <1>4, <1>5, <1>6, <1>7

\* onEvent moves the head of the queue to the end of the log.
LEMMA ReplayPersist ==
  ASSUME TypeOK, VerdictInv, ReplayInv, Persist
  PROVE  ReplayInv'
<1> DEFINE h == Head(micro)
           n == Len(log.entries)
<1>1. /\ micro # <<>> /\ micro' = Tail(micro)
      /\ UNCHANGED <<opt, sent, mgr, ctl, exec, rerate, hist>>
  BY DEF Persist
<1>t. /\ micro \in Seq(Events) /\ sent \in Seq(Events) /\ row \in Rows /\ cursor \in Cursors
      /\ log.entries \in Seq(LogEntries) /\ n \in Nat
  BY DEF TypeOK, Logs
<1>2. /\ h \in Events /\ h = micro[1] /\ Len(micro') = Len(micro) - 1 /\ Len(micro) \in Nat \ {0}
      /\ \A i \in 1..Len(micro') : micro'[i] = micro[i + 1]
  BY <1>1, <1>t
<1> HIDE DEF h
<1>3. row'.present = row.present
  BY <1>t, <1>2, PersistRow, RowAfterFields DEF h
<1>4. EntryInv'
  BY <1>1 DEF ReplayInv, EntryInv, Late
<1>5. exec.pc # "none" /\ ~hist.crashed
  BY <1>1 DEF ReplayInv, LogInv
<1>6. ASSUME row.present, ~hist.torn
      PROVE  (/\ Numbered /\ InStep /\ LastWord /\ Traced
              /\ rerate.open > 0 => exec.pc \in Over)'
  <2>1. /\ Numbered /\ LastWord /\ Traced /\ cursor.open /\ cursor.idx = n
        /\ Len(sent) = n + Len(micro)
        /\ rerate.open > 0 => exec.pc \in Over
    BY <1>1, <1>5, <1>6 DEF ReplayInv, LogInv, InStep, Pending
  <2>2. /\ Len(log'.entries) = n + 1 /\ log'.next = n + 1
        /\ \A i \in 1..n : log'.entries[i] = log.entries[i]
        /\ log'.entries[n + 1].idx = n /\ log'.entries[n + 1].ev = h
        /\ cursor' = CursorAfter(cursor, h)
    BY <1>6, PersistLog DEF h, ReplayInv
  <2>6. Numbered'
    <3>1. ASSUME NEW i \in 1..(n + 1) PROVE log'.entries[i].idx = i - 1
      <4>1. CASE i = n + 1
        BY <1>t, <2>2, <4>1
      <4>2. CASE i # n + 1
        <5>1. i \in 1..n
          BY <1>t, <4>2
        <5>2. QED BY <2>1, <2>2, <5>1 DEF Numbered
      <4>3. QED BY <4>1, <4>2
    <3>2. QED BY <2>2, <3>1 DEF Numbered
  <2>7. LastWord'
    <3>1. SUFFICES ASSUME NEW i \in 1..Len(micro'), IsSettledRating(micro'[i])
                   PROVE  i = Len(micro') /\ ~mgr'.active
      BY DEF LastWord
    <3>2. i + 1 \in 1..Len(micro) /\ IsSettledRating(micro[i + 1])
      BY <1>2, <3>1
    <3>3. i + 1 = Len(micro) /\ ~mgr.active
      BY <2>1, <3>2 DEF LastWord
    <3>4. mgr' = mgr /\ i \in Nat
      BY <1>1, <3>1
    <3>5. QED BY <1>2, <3>3, <3>4
  <2>8. InStep'
    <3>1. CASE IsSettledRating(h)
      <4>1. Len(micro) = 1 /\ ~mgr.active
        BY <1>2, <2>1, <3>1 DEF LastWord
      <4>2. micro' = <<>>
        BY <1>1, <1>t, <4>1
      <4>3. QED BY <1>1, <4>1, <4>2 DEF InStep, Pending
    <3>2. CASE ~IsSettledRating(h)
      <4>1. cursor' = [cursor EXCEPT !.idx = @ + 1]
        BY <2>2, <3>2, Zenon DEF CursorAfter
      <4>2. cursor'.open /\ cursor'.idx = n + 1
        BY <1>t, <2>1, <4>1 DEF Cursors
      <4>3. QED BY <1>1, <1>t, <1>2, <2>1, <2>2, <4>2 DEF InStep
    <3>3. QED BY <3>1, <3>2
  <2>9. Traced'
    <3>1. ASSUME NEW i \in 1..Len(sent)
          PROVE  sent[i] = IF i <= n + 1 THEN log'.entries[i].ev ELSE micro'[i - (n + 1)]
      <4>1. sent[i] = IF i <= n THEN log.entries[i].ev ELSE micro[i - n]
        BY <2>1 DEF Traced
      <4>2. CASE i <= n
        BY <1>t, <2>2, <4>1, <4>2
      <4>3. CASE i = n + 1
        BY <1>t, <1>2, <2>2, <4>1, <4>3
      <4>4. CASE i > n + 1
        <5>1. i - (n + 1) \in 1..Len(micro') /\ (i - (n + 1)) + 1 = i - n
          BY <1>t, <1>2, <2>1, <4>4
        <5>2. micro'[i - (n + 1)] = micro[i - n]
          BY <1>2, <5>1
        <5>3. QED BY <1>t, <4>1, <4>4, <5>2
      <4>5. QED BY <1>t, <4>2, <4>3, <4>4
    <3>2. Len(sent) <= (n + 1) + Len(micro')
      BY <1>t, <1>2, <2>1
    <3>3. QED BY <1>1, <2>2, <3>1, <3>2 DEF Traced
  <2>10. QED BY <1>1, <2>1, <2>6, <2>7, <2>8, <2>9
<1>7. LogInv'
  BY <1>1, <1>3, <1>5, <1>6 DEF LogInv
<1>8. RatingInv'
  <2>1. SUFFICES ASSUME row.present, ~hist.torn
                 PROVE  (/\ Reported
                         /\ exec.pc \in {"grading", "done"} => Terminal(row.status)
                         /\ exec.pc \notin Over => /\ ~Settled(row.rating) /\ NothingSettled(log)
                                                   /\ \A i \in 1..Len(micro) : ~IsSettledRating(micro[i])
                         /\ exec.pc = "done" => /\ rerate.open = 0 => Settled(row.rating)
                                                /\ Settled(row.rating) => Agrees)'
    BY <1>1, <1>3, <1>5, LiveStatuses DEF ReplayInv, RatingInv, Over
  <2>2. /\ Len(log'.entries) = n + 1
        /\ \A i \in 1..n : log'.entries[i] = log.entries[i]
        /\ log'.entries[n + 1].ev = h
        /\ row' = RowAfter(row, h)
    BY <2>1, PersistLog DEF h, ReplayInv
  <2>3. row'.rating = row.rating
    BY <1>t, <1>2, <2>2, RowAfterRating
  <2>4. Terminal(row.status) => Terminal(row'.status)
    BY <1>3, <2>1, StepKeepsVerdict DEF Next
  <2>5. Reported'
    <3>1. SUFFICES ASSUME mgr.terminal \/ ~mgr.active
                   PROVE  Terminal(row'.status) \/ HasVerdict(micro')
      BY <1>1 DEF Reported
    <3>2. CASE Terminal(row.status)
      BY <2>4, <3>2
    <3>3. CASE HasVerdict(micro)
      <4>1. PICK i \in 1..Len(micro) : IsTerminalStatus(micro[i])
        BY <3>3 DEF HasVerdict
      <4>2. CASE i = 1
        BY <1>t, <1>2, <2>2, <4>1, <4>2, RowAfterFields DEF IsTerminalStatus
      <4>3. CASE i # 1
        <5>1. i - 1 \in 1..Len(micro') /\ (i - 1) + 1 = i
          BY <1>2, <4>1, <4>3
        <5>2. IsTerminalStatus(micro'[i - 1])
          BY <1>2, <4>1, <5>1
        <5>3. QED BY <5>1, <5>2 DEF HasVerdict
      <4>4. QED BY <4>2, <4>3
    <3>4. QED BY <1>5, <2>1, <3>1, <3>2, <3>3 DEF ReplayInv, RatingInv, Reported
  <2>6. exec.pc \in {"grading", "done"} => Terminal(row'.status)
    BY <2>1, <2>4 DEF ReplayInv, RatingInv
  <2>7. \A i \in 1..Len(micro') : i + 1 \in 1..Len(micro) /\ micro'[i] = micro[i + 1]
    BY <1>2
  <2>k. \A k \in 1..(n + 1) : k \in 1..n \/ k = n + 1
    BY <1>t
  <2>r. /\ \A k \in 1..n : SettledAt(log', k) <=> SettledAt(log, k)
        /\ SettledAt(log', n + 1) <=> IsSettledRating(h)
    BY <2>2 DEF SettledAt
  <2>8. ~IsSettledRating(h) /\ NothingSettled(log) => NothingSettled(log')
    BY <2>2, <2>k, <2>r DEF NothingSettled
  <2>9. exec.pc \notin Over => /\ ~Settled(row'.rating) /\ NothingSettled(log')
                              /\ \A i \in 1..Len(micro') : ~IsSettledRating(micro'[i])
    <3>1. SUFFICES ASSUME exec.pc \notin Over
                   PROVE  /\ ~Settled(row'.rating) /\ NothingSettled(log')
                          /\ \A i \in 1..Len(micro') : ~IsSettledRating(micro'[i])
      OBVIOUS
    <3>2. /\ ~Settled(row.rating) /\ NothingSettled(log)
          /\ \A i \in 1..Len(micro) : ~IsSettledRating(micro[i])
      BY <2>1, <3>1 DEF ReplayInv, RatingInv
    <3>3. ~IsSettledRating(h)
      BY <1>2, <3>2
    <3>4. QED BY <2>3, <2>7, <2>8, <3>2, <3>3
  <2>10. ASSUME exec.pc = "done"
         PROVE  /\ rerate.open = 0 => Settled(row'.rating)
                /\ Settled(row'.rating) => Agrees'
    <3>1. /\ rerate.open = 0 => Settled(row.rating)
          /\ Settled(row.rating) => Agrees
      BY <2>1, <2>10 DEF ReplayInv, RatingInv, Over
    <3>2. ASSUME /\ NothingSettled(log)
                 /\ \A i \in 1..Len(micro) : IsSettledRating(micro[i]) => micro[i].val = row.rating
          PROVE  Agrees'
      <4>1. CASE IsSettledRating(h)
        <5>1. Len(micro') = 0
          BY <1>2, <2>1, <4>1 DEF ReplayInv, LogInv, LastWord
        <5>2. SettledAt(log', n + 1) /\ \A k \in 1..(n + 1) : k <= n + 1
          BY <1>t, <2>r, <4>1
        <5>3. log'.entries[n + 1].ev.val = row'.rating
          BY <1>2, <2>2, <2>3, <3>2, <4>1
        <5>4. n + 1 \in 1..Len(log'.entries) /\ LastSettled(log', n + 1)
          BY <1>t, <2>2, <5>2 DEF LastSettled
        <5>5. \A i \in 1..Len(micro') : ~IsSettledRating(micro'[i])
          BY <5>1
        <5>6. QED BY <5>3, <5>4, <5>5 DEF Agrees
      <4>2. CASE ~IsSettledRating(h)
        BY <2>3, <2>7, <2>8, <3>2, <4>2 DEF Agrees
      <4>3. QED BY <4>1, <4>2
    <3>3. ASSUME \A i \in 1..Len(micro) : ~IsSettledRating(micro[i]),
                 NEW i \in 1..n, LastSettled(log, i), log.entries[i].ev.val = row.rating
          PROVE  Agrees'
      <4>1. ~IsSettledRating(h)
        BY <1>2, <3>3
      <4>2. i \in 1..(n + 1) /\ LastSettled(log', i) /\ log'.entries[i].ev.val = row'.rating
        <5>1. i \in 1..(n + 1)
          BY <1>t
        <5>2. SettledAt(log', i) /\ \A k \in 1..(n + 1) : SettledAt(log', k) => k <= i
          BY <2>k, <2>r, <3>3, <4>1 DEF LastSettled
        <5>3. QED BY <2>2, <2>3, <3>3, <5>1, <5>2 DEF LastSettled
      <4>3. \A k \in 1..Len(micro') : ~IsSettledRating(micro'[k])
        BY <2>7, <3>3
      <4>4. QED BY <2>2, <4>2, <4>3 DEF Agrees
    <3>4. QED BY <2>3, <3>1, <3>2, <3>3 DEF Agrees
  <2>11. QED BY <1>1, <2>5, <2>6, <2>9, <2>10
<1>9. QED BY <1>4, <1>7, <1>8 DEF ReplayInv

\* A run that is under way stays where its log is.
LEMMA UnderWay ==
  ASSUME UNCHANGED <<row, log, cursor, rerate, hist>>,
         exec.pc \notin {"none"} \cup Over, exec'.pc \notin {"none"} \cup Over
  PROVE  Elsewhere /\ RatingKept
BY DEF Elsewhere, RatingKept, Over

\* Waiting for a turn emits phases.
LEMMA AwaitTurnReplay ==
  ASSUME TypeOK, ReplayInv, Quiet, AwaitTurn, exec.pc = "streaming",
         UNCHANGED <<row, log, cursor, rerate, hist>>
  PROVE  ReplayInv'
<1>x. exec \in Executions
  BY DEF TypeOK
<1>e. /\ PhaseEvent("waiting_input") \in Events /\ PhaseEvent("none") \in Events
      /\ ~IsStatus(PhaseEvent("waiting_input")) /\ ~IsSettledRating(PhaseEvent("waiting_input"))
      /\ ~IsStatus(PhaseEvent("none")) /\ ~IsSettledRating(PhaseEvent("none"))
  BY EventTypes, OrdinaryEvents DEF Phases
<1>1. ASSUME NEW evs \in Seq(Events), Emit(evs), Silent(evs), Ordinary(evs),
             NEW pc \in {"waiting", "streaming"}, At(pc)
      PROVE  ReplayInv'
  <2>1. exec'.pc = pc /\ exec'.settled = exec.settled
    BY <1>x, <1>1 DEF At, Executions
  <2>2. Elsewhere /\ RatingKept
    BY <2>1, UnderWay DEF Over
  <2>3. Moves(evs)
    BY <2>1, <1>1 DEF Moves, Late, Ending, Over, Unstarted
  <2>4. QED BY <1>1, <2>2, <2>3, EmitKeepsReplay
<1>2. CASE ctl.queued = 0
  <2> DEFINE evs == <<PhaseEvent("waiting_input")>>
  <2>1. Emit(evs) /\ At("waiting")
    BY <1>2 DEF AwaitTurn
  <2>2. evs \in Seq(Events) /\ Silent(evs) /\ Ordinary(evs)
    BY <1>e DEF Silent, Ordinary
  <2> HIDE DEF evs
  <2>3. QED BY <1>1, <2>1, <2>2
<1>3. CASE ctl.queued # 0
  <2> DEFINE evs == <<PhaseEvent("waiting_input"), PhaseEvent("none")>>
  <2>1. Emit(evs) /\ At("streaming")
    BY <1>3 DEF AwaitTurn
  <2>2. evs \in Seq(Events) /\ Silent(evs) /\ Ordinary(evs)
    BY <1>e DEF Silent, Ordinary
  <2> HIDE DEF evs
  <2>3. QED BY <1>1, <2>1, <2>2
<1>4. QED BY <1>2, <1>3

\* The executor's own steps: past a verdict only with its event.
LEMMA ReplayExecutor ==
  ASSUME TypeOK, ReplayInv, Executor \/ GateQueues \/ StreamStep \/ ClockStopsStream
  PROVE  ReplayInv'
<1>e. /\ StepEvent \in Events /\ RunningEvent \in Events
      /\ ~IsStatus(StepEvent) /\ ~IsSettledRating(StepEvent) /\ ~IsSettledRating(RunningEvent)
      /\ \A p \in Phases : /\ PhaseEvent(p) \in Events
                           /\ ~IsStatus(PhaseEvent(p)) /\ ~IsSettledRating(PhaseEvent(p))
      /\ \A c \in TerminalCauses : /\ TerminalEvent(c) \in Events
                                   /\ IsTerminalStatus(TerminalEvent(c))
                                   /\ ~IsSettledRating(TerminalEvent(c))
      /\ \A v \in Verdicts : /\ StatusEvent(v) \in Events
                             /\ IsTerminalStatus(StatusEvent(v))
                             /\ ~IsSettledRating(StatusEvent(v))
  BY EventTypes, TerminalEventType, StatusEventType, OrdinaryEvents, CauseOrdinary
<1>p. {"none", "queued", "starting", "waiting_input", "stopping"} \subseteq Phases
  BY DEF Phases
<1>c. {"user_stop", "stalled", "wait_expired", "provider_error", "max_cost"} \subseteq TerminalCauses
  BY DEF TerminalCauses, BudgetCauses, ClockCauses, ErrorCauses
<1>x. exec \in Executions
  BY DEF TypeOK
<1>v. /\ exec.pc \in Unstarted => ~exec.settled
      /\ mgr.active => ~mgr.settled
      /\ mgr.active /\ Late(exec) => mgr.terminal
  BY DEF ReplayInv, EntryInv
<1> DEFINE Rest == Quiet /\ UNCHANGED <<row, log, cursor, rerate, hist>>
\* A verdict in evs lets the executor move on.
<1>y. ASSUME Rest, exec.pc \notin {"none"} \cup Over, exec'.pc \in {"streaming", "cleanup", "closing"},
             NEW evs \in Seq(Events), Emit(evs), Ordinary(evs), Ends(evs)
      PROVE  ReplayInv'
  <2>1. Moves(evs)
    BY <1>y DEF Moves, Ending, Over, Unstarted
  <2>2. Elsewhere /\ RatingKept
    BY <1>y, UnderWay DEF Ending, Over
  <2>3. QED BY <1>y, <2>1, <2>2, EmitKeepsReplay
\* Silent events do not take it past a verdict.
<1>z. ASSUME Rest, exec.pc \notin {"none"} \cup Over, exec'.pc \in {"queued", "streaming", "waiting"},
             exec'.settled = exec.settled, exec'.pc = "queued" => exec.pc \in Unstarted,
             NEW evs \in Seq(Events), Emit(evs), Ordinary(evs),
             Silent(evs) \/ exec.pc \in Unstarted
      PROVE  ReplayInv'
  <2>1. Moves(evs)
    BY <1>z, <1>v DEF Moves, Late, Ending, Over, Unstarted
  <2>2. Elsewhere /\ RatingKept
    BY <1>z, UnderWay DEF Over
  <2>3. QED BY <1>z, <2>1, <2>2, EmitKeepsReplay
<1>1. CASE StartFails
  <2> DEFINE evs == <<StepEvent, TerminalEvent("provider_error")>>
  <2>1. Emit(evs) /\ Return(terminalFor("provider_error")) /\ Rest
        /\ exec.pc \in {"resolving", "gated"}
    BY <1>1 DEF StartFails
  <2>2. evs \in Seq(Events) /\ Ordinary(evs) /\ Ends(evs)
    BY <1>e, <1>c DEF Ordinary, Ends
  <2>3. exec'.pc = "closing"
    BY <2>1, <1>x DEF Return, Executions
  <2> HIDE DEF evs
  <2>4. QED BY <2>1, <2>2, <2>3, <1>y DEF Over, Ending
<1>2. CASE EngineBegins
  <2> DEFINE evs == <<PhaseEvent("starting"), RunningEvent, PhaseEvent("none")>>
  <2>1. Emit(evs) /\ At("streaming") /\ Rest /\ exec.pc = "resolving"
    BY <1>2 DEF EngineBegins
  <2>2. evs \in Seq(Events) /\ Ordinary(evs)
    BY <1>e, <1>p DEF Ordinary
  <2>3. exec'.pc = "streaming" /\ exec'.settled = exec.settled
    BY <2>1, <1>x DEF At, Executions
  <2> HIDE DEF evs
  <2>4. QED BY <2>1, <2>2, <2>3, <1>z DEF Over, Unstarted
<1>3. CASE GateGrants
  <2> DEFINE stopped == IF ctl.aborted THEN <<TerminalEvent("user_stop")>> ELSE <<>>
             queued == IF exec.pc = "queued" THEN <<PhaseEvent("starting")>> ELSE <<>>
             s == PhaseEvent("starting")
             r == RunningEvent
             n == PhaseEvent("none")
             t == TerminalEvent("user_stop")
             evs == queued \o (<<r, n>> \o stopped)
  <2>1. Emit(evs) /\ Rest /\ exec.pc \in {"gated", "queued"}
    BY <1>3 DEF GateGrants, LifecycleEvents
  <2>2. exec'.pc = "streaming" /\ exec'.settled = ctl.aborted
    BY <1>3, <1>x DEF GateGrants, Executions
  <2>e. /\ s \in Events /\ r \in Events /\ n \in Events /\ t \in Events
        /\ ~IsSettledRating(s) /\ ~IsSettledRating(r) /\ ~IsSettledRating(n) /\ ~IsSettledRating(t)
        /\ IsTerminalStatus(t)
    BY <1>e, <1>p, <1>c
  <2>3. /\ ~ctl.aborted => evs = <<r, n>> \/ evs = <<s, r, n>>
        /\ ctl.aborted => evs = <<r, n, t>> \/ evs = <<s, r, n, t>>
    <3>1. /\ queued = <<>> \/ queued = <<s>>
          /\ ctl.aborted => stopped = <<t>>
          /\ ~ctl.aborted => stopped = <<>>
      OBVIOUS
    <3>2. evs = queued \o (<<r, n>> \o stopped)
      OBVIOUS
    <3> HIDE DEF queued, stopped, evs, s, r, n, t
    <3>3. /\ <<s>> \o <<r, n>> = <<s, r, n>>
          /\ <<r, n>> \o <<t>> = <<r, n, t>>
          /\ <<s>> \o <<r, n, t>> = <<s, r, n, t>>
      <4>1. <<s>> \o <<r, n>> = <<s, r, n>>
        BY <2>e, ConcatTuples
      <4>2. <<r, n>> \o <<t>> = <<r, n, t>>
        BY <2>e, ConcatTuples
      <4>3. <<s>> \o <<r, n, t>> = <<s, r, n, t>>
        BY <2>e, ConcatFour, Zenon
      <4>4. QED BY <4>1, <4>2, <4>3, Zenon
    <3>4. <<r, n>> \o <<>> = <<r, n>> /\ <<>> \o <<r, n>> = <<r, n>>
          /\ <<>> \o <<r, n, t>> = <<r, n, t>>
      OBVIOUS
    <3>5. QED BY <3>1, <3>2, <3>3, <3>4, Zenon
  <2> HIDE DEF evs, s, r, n, t
  <2>4. evs \in Seq(Events) /\ Ordinary(evs) /\ (ctl.aborted => Ends(evs))
    <3>1. CASE evs = <<r, n>> \/ evs = <<s, r, n>>
      <4>1. ~ctl.aborted \/ evs = <<r, n, t>> \/ evs = <<s, r, n, t>>
        BY <2>3
      <4>2. evs \in Seq(Events) /\ Ordinary(evs)
        <5>1. CASE evs = <<r, n>>
          BY <2>e, <5>1 DEF Ordinary
        <5>2. CASE evs = <<s, r, n>>
          BY <2>e, <5>2 DEF Ordinary
        <5>3. QED BY <3>1, <5>1, <5>2
      <4>3. CASE ~ctl.aborted
        BY <4>2, <4>3
      <4>4. CASE evs = <<r, n, t>> \/ evs = <<s, r, n, t>>
        BY <2>e, <4>2, <4>4 DEF Ends
      <4>5. QED BY <4>1, <4>3, <4>4
    <3>2. CASE evs = <<r, n, t>>
      BY <2>e, <3>2 DEF Ordinary, Ends
    <3>3. CASE evs = <<s, r, n, t>>
      BY <2>e, <3>3 DEF Ordinary, Ends
    <3>4. QED BY <2>3, <3>1, <3>2, <3>3
  <2>5. Moves(evs)
    BY <2>2, <2>4 DEF Moves, Late, Ending, Over, Unstarted
  <2>6. Elsewhere /\ RatingKept
    BY <2>1, <2>2, UnderWay DEF Over
  <2>7. QED BY <2>1, <2>4, <2>5, <2>6, EmitKeepsReplay
<1>4. CASE EngineAwaits \/ ChildAwaits
  BY <1>4, AwaitTurnReplay DEF EngineAwaits, ChildAwaits
<1>5. CASE EngineEnds
  <2>1. PICK end \in TurnEnds : /\ Emit(<<StatusEvent(EngineVerdict(end))>>)
                                /\ Return(EngineVerdict(end))
    BY <1>5 DEF EngineEnds
  <2> DEFINE evs == <<StatusEvent(EngineVerdict(end))>>
  <2>2. Rest /\ exec.pc = "streaming"
    BY <1>5 DEF EngineEnds
  <2>3. Emit(evs) /\ evs \in Seq(Events) /\ Ordinary(evs) /\ Ends(evs)
    BY <2>1, <1>e, EngineVerdictType DEF Ordinary, Ends
  <2>4. exec'.pc = "closing"
    BY <2>1, <1>x DEF Return, Executions
  <2> HIDE DEF evs
  <2>5. QED BY <2>2, <2>3, <2>4, <1>y DEF Over, Ending
<1>7. CASE ChildCompletes
  <2> DEFINE evs == <<StatusEvent(CleanCompletion)>>
  <2>1. Emit(evs) /\ TearDown(CleanCompletion, exec.settled) /\ Rest /\ exec.pc = "streaming"
    BY <1>7 DEF ChildCompletes
  <2>2. evs \in Seq(Events) /\ Ordinary(evs) /\ Ends(evs)
    BY <1>e, CleanCompletionType DEF Ordinary, Ends
  <2>3. exec'.pc = "cleanup"
    BY <2>1, <1>x DEF TearDown, Executions
  <2> HIDE DEF evs
  <2>4. QED BY <2>1, <2>2, <2>3, <1>y DEF Over, Ending
<1>8. CASE ChildSettles
  <2>1. PICK cause \in ChildStops : Emit(<<TerminalEvent(cause)>>) /\ TearDown(terminalFor(cause), TRUE)
    BY <1>8 DEF ChildSettles
  <2> DEFINE evs == <<TerminalEvent(cause)>>
  <2>2. Rest /\ exec.pc = "streaming"
    BY <1>8 DEF ChildSettles
  <2>3. Emit(evs) /\ evs \in Seq(Events) /\ Ordinary(evs) /\ Ends(evs)
    BY <2>1, <1>e, <1>c DEF ChildStops, Ordinary, Ends
  <2>4. exec'.pc = "cleanup"
    BY <2>1, <1>x DEF TearDown, Executions
  <2> HIDE DEF evs
  <2>5. QED BY <2>2, <2>3, <2>4, <1>y DEF Over, Ending
<1>9. CASE ChildWindsDown \/ ChildCleanedUp
  <2>1. /\ Rest /\ UNCHANGED <<sent, micro, mgr>>
        /\ exec.pc \notin {"none"} \cup Over /\ Late(exec)
    BY <1>9 DEF ChildWindsDown, ChildCleanedUp, Late, Ending, Over
  <2>2. exec'.pc \in {"cleanup", "closing"}
    BY <1>9, <1>x DEF ChildWindsDown, ChildCleanedUp, At, Executions
  <2>3. Elsewhere /\ RatingKept
    BY <2>1, <2>2, UnderWay DEF Over
  <2>4. QED BY <2>1, <2>2, <2>3, StillKeepsReplay DEF Over, Unstarted
<1>11. CASE ClockEndsWait
  <2> DEFINE evs == <<PhaseEvent("stopping"), TerminalEvent("wait_expired")>>
  <2>1. Emit(evs) /\ Return(terminalFor("wait_expired")) /\ Rest /\ exec.pc = "waiting"
    BY <1>11 DEF ClockEndsWait
  <2>2. evs \in Seq(Events) /\ Ordinary(evs) /\ Ends(evs)
    BY <1>e, <1>c, <1>p DEF Ordinary, Ends
  <2>3. exec'.pc = "closing"
    BY <2>1, <1>x DEF Return, Executions
  <2> HIDE DEF evs
  <2>4. QED BY <2>1, <2>2, <2>3, <1>y DEF Over, Ending
<1>12. CASE ClockSettlesChild
  <2>1. Rest /\ exec.pc \in {"streaming", "waiting"}
    BY <1>12 DEF ClockSettlesChild
  <2>2. CASE exec.pc = "streaming" /\ Emit(<<TerminalEvent("stalled")>>) /\ exec'.pc = exec.pc
    <3> DEFINE evs == <<TerminalEvent("stalled")>>
    <3>1. Emit(evs) /\ evs \in Seq(Events) /\ Ordinary(evs) /\ Ends(evs)
      BY <2>2, <1>e, <1>c DEF Ordinary, Ends
    <3> HIDE DEF evs
    <3>2. QED BY <2>1, <2>2, <3>1, <1>y DEF Over
  <2>3. CASE Emit(<<TerminalEvent("wait_expired"), PhaseEvent("none")>>) /\ exec'.pc = "cleanup"
    <3> DEFINE evs == <<TerminalEvent("wait_expired"), PhaseEvent("none")>>
    <3>1. Emit(evs) /\ evs \in Seq(Events) /\ Ordinary(evs) /\ Ends(evs)
      BY <2>3, <1>e, <1>c, <1>p DEF Ordinary, Ends
    <3> HIDE DEF evs
    <3>2. QED BY <2>1, <2>3, <3>1, <1>y DEF Over, Ending
  <2>4. QED BY <1>12, <1>x, <2>2, <2>3 DEF ClockSettlesChild, TearDown, Executions
<1>13. CASE GateQueues
  <2> DEFINE evs == <<PhaseEvent("queued")>>
  <2>1. Emit(evs) /\ At("queued") /\ Rest /\ exec.pc = "gated"
    BY <1>13 DEF GateQueues
  <2>2. evs \in Seq(Events) /\ Ordinary(evs)
    BY <1>e, <1>p DEF Ordinary
  <2>3. exec'.pc = "queued" /\ exec'.settled = exec.settled
    BY <2>1, <1>x DEF At, Executions
  <2> HIDE DEF evs
  <2>4. QED BY <2>1, <2>2, <2>3, <1>z DEF Over, Unstarted
<1>14. CASE StreamStep
  <2> DEFINE evs == <<StepEvent>>
  <2>1. Emit(evs) /\ Rest /\ exec.pc = "streaming"
    BY <1>14 DEF StreamStep
  <2>2. evs \in Seq(Events) /\ Ordinary(evs) /\ Silent(evs)
    BY <1>e DEF Ordinary, Silent
  <2>3. exec'.pc = exec.pc /\ exec'.settled = exec.settled
    BY <1>14, <1>x DEF StreamStep, Executions
  <2> HIDE DEF evs
  <2>4. QED BY <2>1, <2>2, <2>3, <1>z DEF Over
<1>15. CASE ClockStopsStream
  <2> DEFINE evs == <<PhaseEvent("stopping")>>
  <2>1. Emit(evs) /\ Rest /\ exec.pc = "streaming"
    BY <1>15 DEF ClockStopsStream
  <2>2. evs \in Seq(Events) /\ Ordinary(evs) /\ Silent(evs)
    BY <1>e, <1>p DEF Ordinary, Silent
  <2>3. exec'.pc = exec.pc /\ exec'.settled = exec.settled
    BY <1>15, <1>x DEF ClockStopsStream, Executions
  <2> HIDE DEF evs
  <2>4. QED BY <2>1, <2>2, <2>3, <1>z DEF Over
<1>16. QED
  BY <1>1, <1>2, <1>3, <1>4, <1>5, <1>7, <1>8, <1>9, <1>11, <1>12, <1>13, <1>14, <1>15 DEF Executor

\* A posted turn emits a phase or nothing.
LEMMA ReplayTurn ==
  ASSUME TypeOK, ReplayInv, SubmitTurn
  PROVE  ReplayInv'
<1>1. /\ UNCHANGED <<row, log, cursor, rerate>> /\ Quiet
      /\ hist' = [hist EXCEPT !.posted = @ + 1]
  BY DEF SubmitTurn
<1>x. exec \in Executions /\ hist \in Histories
  BY DEF TypeOK
<1>2. hist'.torn = hist.torn /\ hist'.crashed = hist.crashed
  BY <1>1, <1>x DEF Histories
<1>3. CASE ctl.waiting /\ exec.pc = "waiting"
  <2> DEFINE evs == <<PhaseEvent("none")>>
  <2>1. Emit(evs) /\ At("streaming")
    BY <1>3, Zenon DEF SubmitTurn
  <2>2. evs \in Seq(Events) /\ Silent(evs) /\ Ordinary(evs)
    BY EventTypes, OrdinaryEvents DEF Phases, Silent, Ordinary
  <2>3. exec'.pc = "streaming" /\ exec'.settled = exec.settled
    BY <2>1, <1>x DEF At, Executions
  <2>4. Elsewhere /\ RatingKept
    BY <1>1, <1>2, <1>3, <2>3 DEF Elsewhere, RatingKept, Over
  <2> HIDE DEF evs
  <2>5. Moves(evs)
    BY <1>3, <2>2, <2>3 DEF Moves, Late, Ending, Over, Unstarted
  <2>6. QED BY <1>1, <2>1, <2>2, <2>4, <2>5, EmitKeepsReplay
<1>4. CASE ~(ctl.waiting /\ exec.pc = "waiting")
  <2>1. UNCHANGED <<sent, micro, mgr, exec>>
    BY <1>4, Zenon DEF SubmitTurn, EmitNothing
  <2>2. QED
    BY <1>1, <1>2, <2>1
    DEF ReplayInv, EntryInv, Late, LogInv, Numbered, InStep, Pending, Traced, LastWord,
        RatingInv, Reported, HasVerdict, Agrees, NothingSettled, LastSettled, SettledAt
<1>5. QED BY <1>3, <1>4

\* A stop emits the verdict of whoever listens to it, or a phase.
LEMMA ReplayStop ==
  ASSUME TypeOK, VerdictInv, ReplayInv, Stop
  PROVE  ReplayInv'
<1> DEFINE t == TerminalEvent("user_stop")
           n == PhaseEvent("none")
           evs == AbortEvents \o AbortContinues
<1>1. /\ Emit(evs) /\ Abort /\ Quiet /\ ctl.live
      /\ UNCHANGED <<row, log, cursor, rerate, hist>>
  BY DEF Stop
<1>2. evs \in Seq(Events)
  BY AbortEventsType, ConcatProperties
<1>x. exec \in Executions
  BY DEF TypeOK
<1>e. /\ t \in Events /\ IsTerminalStatus(t) /\ ~IsSettledRating(t)
      /\ n \in Events /\ ~IsStatus(n) /\ ~IsSettledRating(n)
  BY EventTypes, TerminalEventType, OrdinaryEvents, CauseOrdinary DEF TerminalCauses, Phases
<1>n. exec.pc # "none"
  BY <1>1 DEF VerdictInv
<1>c. <<t>> \o <<n>> = <<t, n>>
  BY <1>e, ConcatTuples, Zenon
<1>s. exec'.settled = (exec.settled \/ Listening)
  BY <1>1, <1>x DEF Abort, Executions
<1>pc. /\ exec.pc = "waiting" /\ ~IsChild => exec'.pc = "closing"
       /\ exec.pc = "waiting" /\ IsChild => exec'.pc = "cleanup"
       /\ exec.pc # "waiting" => exec'.pc = exec.pc
  BY <1>1, AbortPc
<1>w. Elsewhere /\ RatingKept
  BY <1>1, <1>n, <1>pc DEF Elsewhere, RatingKept, Over
<1>q. CASE exec.pc \in Over
  <2>1. ~mgr.active /\ exec'.pc = exec.pc
    BY <1>q, <1>pc DEF ReplayInv, EntryInv, Over
  <2>2. UNCHANGED <<sent, micro, mgr>>
    BY <1>1, <2>1, Zenon DEF Emit, EmitNothing
  <2>3. ~Listening
    BY <1>q DEF Listening, Over
  <2>4. QED
    BY <1>1, <1>q, <1>s, <1>w, <2>1, <2>2, <2>3, StillKeepsReplay DEF Late, Over, Unstarted
<1>r. CASE exec.pc \notin Over
  <2>m. /\ exec'.pc \notin {"none"} \cup Over /\ (exec'.pc \in Unstarted => ~exec'.settled)
        /\ exec'.pc = "grading" => Late(exec)
    BY <1>n, <1>pc, <1>r, <1>s
    DEF Over, Unstarted, Listening, ReplayInv, EntryInv, Late, Ending
  <2>1. CASE exec.pc = "waiting" /\ ~IsChild
    <3>1. evs = <<n, t>>
      <4>1. AbortEvents = <<>> /\ AbortContinues = <<n, t>>
        BY <2>1, AbortShape DEF Listening
      <4> HIDE DEF n, t
      <4>2. QED BY <4>1
    <3> HIDE DEF n, t, evs
    <3>2. Ordinary(evs) /\ Ends(evs)
      BY <1>e, <3>1 DEF Ordinary, Ends
    <3>3. Moves(evs)
      BY <2>m, <3>2 DEF Moves
    <3>4. QED BY <1>1, <1>2, <1>w, <3>2, <3>3, EmitKeepsReplay
  <2>2. CASE Listening
    <3>1. evs = <<t>> \/ evs = <<t, n>>
      <4>1. AbortEvents = <<t>>
        BY <2>2, Zenon DEF AbortEvents
      <4>2. AbortContinues = <<>> \/ AbortContinues = <<n>>
        BY <2>2, AbortShape DEF Listening
      <4> HIDE DEF n, t
      <4>3. CASE AbortContinues = <<>>
        BY <4>1, <4>3
      <4>4. CASE AbortContinues = <<n>>
        BY <4>1, <4>4, <1>c
      <4>5. QED BY <4>2, <4>3, <4>4
    <3> HIDE DEF n, t, evs
    <3>2. Ordinary(evs) /\ Ends(evs)
      <4>1. CASE evs = <<t>>
        BY <1>e, <4>1 DEF Ordinary, Ends
      <4>2. CASE evs = <<t, n>>
        BY <1>e, <4>2 DEF Ordinary, Ends
      <4>3. QED BY <3>1, <4>1, <4>2
    <3>3. Moves(evs)
      BY <2>m, <3>2 DEF Moves
    <3>4. QED BY <1>1, <1>2, <1>w, <3>2, <3>3, EmitKeepsReplay
  <2>3. CASE ~Listening /\ ~(exec.pc = "waiting" /\ ~IsChild)
    <3>1. evs = <<>> \/ evs = <<n>>
      <4>1. AbortEvents = <<>> /\ (AbortContinues = <<>> \/ AbortContinues = <<n>>)
        BY <2>3, AbortShape
      <4> HIDE DEF n
      <4>2. CASE AbortContinues = <<>>
        BY <4>1, <4>2
      <4>3. CASE AbortContinues = <<n>>
        BY <4>1, <4>3
      <4>4. QED BY <4>1, <4>2, <4>3
    <3> HIDE DEF n, t, evs
    <3>2. Ordinary(evs) /\ Silent(evs)
      <4>1. CASE evs = <<>>
        BY <4>1 DEF Ordinary, Silent
      <4>2. CASE evs = <<n>>
        BY <1>e, <4>2 DEF Ordinary, Silent
      <4>3. QED BY <3>1, <4>1, <4>2
    <3>3. Late(exec') => Late(exec)
      BY <1>s, <1>pc, <2>3 DEF Late, Ending, Listening
    <3>4. Moves(evs)
      BY <2>m, <3>2, <3>3 DEF Moves
    <3>5. QED BY <1>1, <1>2, <1>w, <3>2, <3>4, EmitKeepsReplay
  <2>4. QED BY <2>1, <2>2, <2>3
<1>5. QED BY <1>q, <1>r

\* Dropping the entry after ordinary events.
LEMMA DetachKeepsReplay ==
  ASSUME TypeOK, VerdictInv, ReplayInv, Quiet, mgr.active,
         NEW before \in Seq(Events), Ordinary(before), Detach(before),
         UNCHANGED <<log, cursor, rerate>>, row'.present = row.present,
         row'.status = row.status, row'.rating = row.rating,
         hist'.torn = hist.torn, hist'.crashed = hist.crashed,
         row.present => HasVerdict(before)
  PROVE  ReplayInv'
<1> DEFINE abort == IF ctl.live /\ ~ctl.aborted THEN AbortEvents ELSE <<>>
           evs == before \o abort
<1>x. exec \in Executions
  BY DEF TypeOK
<1>1. EmitAndDetach(evs)
  BY DEF Detach
<1>2. abort \in Seq(Events) /\ Ordinary(abort)
  <2>1. abort = <<>> \/ abort = <<TerminalEvent("user_stop")>>
    BY Zenon DEF AbortEvents
  <2>2. /\ TerminalEvent("user_stop") \in Events
        /\ ~IsSettledRating(TerminalEvent("user_stop"))
    BY TerminalEventType, CauseOrdinary DEF TerminalCauses
  <2> HIDE DEF abort
  <2>3. CASE abort = <<>>
    BY <2>3 DEF Ordinary
  <2>4. CASE abort = <<TerminalEvent("user_stop")>>
    BY <2>2, <2>4 DEF Ordinary
  <2>5. QED BY <2>1, <2>3, <2>4
<1> HIDE DEF abort
<1>3. /\ evs \in Seq(Events) /\ \A i \in 1..Len(evs) : ~IsSettledRating(evs[i])
      /\ HasVerdict(before) => HasVerdict(evs)
  <2>1. /\ evs \in Seq(Events) /\ Len(evs) = Len(before) + Len(abort)
        /\ \A i \in 1..Len(evs) : evs[i] = IF i <= Len(before) THEN before[i] ELSE abort[i - Len(before)]
    BY <1>2, ConcatProperties
  <2> HIDE DEF evs
  <2>2. HasVerdict(before) => HasVerdict(evs)
    <3>1. \A i \in 1..Len(before) : i \in 1..Len(evs) /\ evs[i] = before[i]
      BY <1>2, <2>1
    <3>2. QED BY <3>1 DEF HasVerdict
  <2>3. ASSUME NEW i \in 1..Len(evs) PROVE ~IsSettledRating(evs[i])
    <3>1. CASE i <= Len(before)
      BY <2>1, <3>1 DEF Ordinary
    <3>2. CASE ~(i <= Len(before))
      <4>1. i - Len(before) \in 1..Len(abort)
        BY <1>2, <2>1, <3>2
      <4>2. QED BY <1>2, <2>1, <3>2, <4>1 DEF Ordinary
    <3>3. QED BY <3>1, <3>2
  <2>4. QED BY <2>1, <2>2, <2>3
<1> HIDE DEF evs
<1>4. ~mgr'.active /\ Stamps(evs)
  BY <1>1 DEF EmitAndDetach, Stamps, NoEntry
<1>5. exec.pc \notin {"none"} \cup Over
  BY DEF ReplayInv, EntryInv
<1>6. exec' = exec \/ Abort
  BY Zenon DEF Detach
<1>7. /\ exec'.pc \notin {"none"} \cup Over /\ (exec'.pc \in Unstarted => ~exec'.settled)
      /\ exec'.pc = "grading" => exec.pc = "grading"
  <2>1. CASE exec' = exec
    BY <1>5, <2>1 DEF ReplayInv, EntryInv
  <2>2. CASE Abort
    <3>1. exec'.settled = (exec.settled \/ Listening)
      BY <1>x, <2>2 DEF Abort, Executions
    <3>2. QED
      BY <1>5, <2>2, <3>1, AbortPc DEF Unstarted, Over, Listening, ReplayInv, EntryInv
  <2>3. QED BY <1>6, <2>1, <2>2
<1>8. Elsewhere
  BY <1>5, <1>7 DEF Elsewhere, Over
<1>9. LogInv'
  BY <1>3, <1>4, <1>8, StampsKeepsLog DEF ReplayInv
<1>10. RatingInv'
  <2>1. micro = <<>> /\ micro' = evs
    <3>1. micro = <<>> /\ micro' = micro \o evs
      BY <1>4 DEF Quiet, Stamps
    <3>2. QED BY <1>3, <3>1
  <2>2. SUFFICES ASSUME row.present, ~hist.torn
                 PROVE  /\ HasVerdict(micro')
                        /\ exec'.pc = "grading" => Terminal(row.status)
                        /\ ~Settled(row.rating) /\ NothingSettled(log)
    BY <1>3, <1>5, <1>7, <2>1
    DEF ReplayInv, RatingInv, Reported, Over, NothingSettled, SettledAt
  <2>3. QED BY <1>3, <1>5, <1>7, <2>1, <2>2 DEF ReplayInv, RatingInv
<1>11. QED BY <1>4, <1>7, <1>9, <1>10 DEF ReplayInv, EntryInv

\* POST /end.
LEMMA ReplayEnd ==
  ASSUME TypeOK, VerdictInv, ReplayInv, End
  PROVE  ReplayInv'
<1> DEFINE before == <<TerminalEvent("session_ended")>>
<1>1. /\ Quiet /\ mgr.active /\ Detach(before) /\ UNCHANGED <<log, cursor, rerate>>
      /\ row' = [row EXCEPT !.ended = TRUE] /\ hist' = [hist EXCEPT !.ended = TRUE]
  BY DEF End, CanEnd
<1>2. /\ row'.present = row.present /\ row'.status = row.status /\ row'.rating = row.rating
      /\ hist'.torn = hist.torn /\ hist'.crashed = hist.crashed
  BY <1>1 DEF TypeOK, Rows, Histories
<1>3. before \in Seq(Events) /\ Ordinary(before) /\ HasVerdict(before)
  BY TerminalEventType, CauseOrdinary DEF TerminalCauses, Ordinary, HasVerdict
<1> HIDE DEF before
<1>4. QED BY <1>1, <1>2, <1>3, DetachKeepsReplay

\* DELETE: without a row the log promises nothing.
LEMMA ReplayDelete ==
  ASSUME TypeOK, VerdictInv, ReplayInv, Delete
  PROVE  ReplayInv'
<1>1. Quiet /\ UNCHANGED <<rerate, hist>>
  BY DEF Delete
<1>x. exec \in Executions
  BY DEF TypeOK
<1>2. CASE ~row.present
  <2>1. mgr.active /\ UNCHANGED <<row, log, cursor>>
    BY <1>2 DEF Delete
  <2>2. Detach(<<>>)
    BY <2>1, Zenon DEF Delete
  <2>3. <<>> \in Seq(Events) /\ Ordinary(<<>>)
    BY DEF Ordinary
  <2>4. QED BY <1>1, <1>2, <2>1, <2>2, <2>3, DetachKeepsReplay
<1>3. CASE row.present
  <2>1. ~row'.present
    <3>1. row' = NoRow
      BY <1>3, Zenon DEF Delete, DeleteRow
    <3>2. QED BY <3>1 DEF NoRow
  <2>2. exec.pc # "none"
    BY <1>3 DEF ReplayInv, LogInv
  <2>3. CASE mgr.active
    <3>1. Detach(<<>>)
      BY <2>3, Zenon DEF Delete
    <3>2. ~mgr'.active
      BY <3>1 DEF Detach, EmitAndDetach, NoEntry
    <3>3. ~hist'.crashed
      BY <1>1, <2>3 DEF ReplayInv, LogInv
    <3>4. exec' = exec \/ Abort
      BY <3>1, Zenon DEF Detach
    <3>5. /\ exec'.pc # "none" /\ (exec'.pc \in Unstarted => ~exec'.settled)
          /\ exec'.pc = "down" <=> exec.pc = "down"
      <4>1. CASE exec' = exec
        BY <2>2, <4>1 DEF ReplayInv, EntryInv
      <4>2. CASE Abort
        <5>1. exec'.settled = (exec.settled \/ Listening)
          BY <1>x, <4>2 DEF Abort, Executions
        <5>2. QED
          BY <2>2, <4>2, <5>1, AbortPc DEF Unstarted, Listening, ReplayInv, EntryInv
      <4>3. QED BY <3>4, <4>1, <4>2
    <3>6. QED BY <1>1, <2>1, <3>2, <3>3, <3>5 DEF ReplayInv, EntryInv, LogInv, RatingInv
  <2>4. CASE ~mgr.active
    <3>1. UNCHANGED <<sent, micro, mgr, exec>>
      BY <2>4, Zenon DEF Delete, EmitNothing
    <3>2. QED BY <1>1, <2>1, <2>2, <3>1 DEF ReplayInv, EntryInv, Late, LogInv, RatingInv
  <2>5. QED BY <2>3, <2>4
<1>4. QED BY <1>2, <1>3

\* A prune removes the row and its log.
LEMMA ReplayPrune ==
  ASSUME TypeOK, ReplayInv, Prune
  PROVE  ReplayInv'
<1>1. /\ ~row'.present /\ row.present /\ UNCHANGED <<sent, micro, mgr, exec, rerate, hist>>
  BY DEF Prune, CanPrune, DeleteRow, NoRow
<1>2. exec.pc # "none"
  BY <1>1 DEF ReplayInv, LogInv
<1>3. QED BY <1>1, <1>2 DEF ReplayInv, EntryInv, Late, LogInv, RatingInv

\* What the writes of the review and of the boot do to the rating.
LEMMA RatingWrites ==
  ASSUME NEW r \in Rows, r.present
  PROVE  /\ \A s \in RatingStates : setRatingState(r, s).rating = s
         /\ FlipOutcome(r).rating = r.rating
         /\ abortOrphanedRuns(r).status # "running"
         /\ Terminal(abortOrphanedRuns(r).status) => Settled(abortOrphanedRuns(r).rating)
         /\ r.status # "running" /\ (Terminal(r.status) => Settled(r.rating)) => abortOrphanedRuns(r) = r
<1>1. ASSUME NEW s \in RatingStates PROVE setRatingState(r, s).rating = s
  <2>1. setRatingState(r, s) = [r EXCEPT !.rating = s]
    BY Zenon DEF setRatingState
  <2>2. QED BY <2>1 DEF Rows
<1>2. FlipOutcome(r).rating = r.rating
  <2>1. FlipOutcome(r) = r \/ FlipOutcome(r) = [r EXCEPT !.outcome = "assertions_failed"]
    BY Zenon DEF FlipOutcome
  <2>2. QED BY <2>1 DEF Rows
<1>3. Settled("skipped") /\ "aborted" # "running" /\ ~Terminal("running")
  BY DEF Settled, SettledRatings, Terminal, TerminalStatuses
<1>4. CASE r.status = "running"
  <2>1. abortOrphanedRuns(r) = [r EXCEPT !.status = "aborted", !.rating = "skipped"]
    BY <1>4, Zenon DEF abortOrphanedRuns
  <2>2. abortOrphanedRuns(r).status = "aborted" /\ abortOrphanedRuns(r).rating = "skipped"
    BY <2>1 DEF Rows
  <2>3. QED BY <1>1, <1>2, <1>3, <1>4, <2>2
<1>5. CASE r.status # "running" /\ Terminal(r.status) /\ ~Settled(r.rating)
  <2>1. abortOrphanedRuns(r) = [r EXCEPT !.rating = "skipped"]
    BY <1>5, Zenon DEF abortOrphanedRuns
  <2>2. abortOrphanedRuns(r).status = r.status /\ abortOrphanedRuns(r).rating = "skipped"
    BY <2>1 DEF Rows
  <2>3. QED BY <1>1, <1>2, <1>3, <1>5, <2>2
<1>6. CASE r.status # "running" /\ ~(Terminal(r.status) /\ ~Settled(r.rating))
  <2>1. abortOrphanedRuns(r) = r
    BY <1>6, Zenon DEF abortOrphanedRuns
  <2>2. QED BY <1>1, <1>2, <1>6, <2>1
<1>7. QED BY <1>4, <1>5, <1>6

\* The review's first write does not settle the rating.
LEMMA ReviewBeginsRating ==
  ASSUME TypeOK, ReviewBegins
  PROVE  row'.rating = row.rating \/ ~Settled(row'.rating)
<1> DEFINE rated == IF opt.rated THEN setRatingState(row, "rating") ELSE row
<1>1. row' = FlipOutcome(rated) \/ row' = rated
  BY DEF ReviewBegins
<1>2. row \in Rows /\ "rating" \in RatingStates /\ ~Settled("rating")
  BY DEF TypeOK, RatingStates, Settled, SettledRatings
<1>3. rated = row \/ (row.present /\ rated = setRatingState(row, "rating"))
  BY DEF setRatingState
<1> HIDE DEF rated
<1>4. rated \in Rows /\ rated.present = row.present
  BY <1>2, <1>3, RowWriteTypes, ReviewWrites
<1>5. rated = row \/ rated.rating = "rating"
  BY <1>2, <1>3, RatingWrites
<1>6. row'.rating = rated.rating
  <2>1. CASE rated.present
    BY <1>1, <1>4, <2>1, RatingWrites
  <2>2. CASE ~rated.present
    <3>1. FlipOutcome(rated) = rated
      BY <2>2, Zenon DEF FlipOutcome
    <3>2. QED BY <1>1, <3>1
  <2>3. QED BY <2>1, <2>2
<1>7. QED BY <1>2, <1>5, <1>6

\* The review: its settled rating finds the entry terminal and ends it.
LEMMA ReplayReview ==
  ASSUME TypeOK, ReplayInv, Review
  PROVE  ReplayInv'
<1>x. exec \in Executions /\ row \in Rows /\ mgr \in Entries
  BY DEF TypeOK
<1>r. {"rating", "rated", "failed", "skipped"} \subseteq RatingStates
  BY DEF RatingStates, SettledRatings
<1>1. CASE ReviewBegins
  <2>1. Quiet /\ At("grading") /\ exec.pc = "closing" /\ UNCHANGED <<log, cursor, rerate, hist>>
    BY <1>1 DEF ReviewBegins
  <2>2. exec'.pc = "grading" /\ exec'.settled = exec.settled
    BY <2>1, <1>x DEF At, Executions
  <2>3. Elsewhere /\ RatingKept
    BY <1>1, <2>1, <2>2, ReviewBeginsRow, ReviewBeginsRating DEF Elsewhere, RatingKept, Over
  <2>4. Late(exec)
    BY <2>1 DEF Late, Ending
  <2>5. CASE opt.rated
    <3> DEFINE evs == <<RatingEvent("rating")>>
    <3>1. Emit(evs)
      BY <1>1, <2>5, Zenon DEF ReviewBegins
    <3>2. evs \in Seq(Events) /\ Ordinary(evs) /\ Silent(evs)
      BY <1>r, EventTypes, OrdinaryEvents DEF Ordinary, Silent
    <3> HIDE DEF evs
    <3>3. Moves(evs)
      BY <2>2, <2>4, <3>2 DEF Moves, Over, Unstarted
    <3>4. QED BY <2>1, <2>3, <3>1, <3>2, <3>3, EmitKeepsReplay
  <2>6. CASE ~opt.rated
    <3>1. UNCHANGED <<sent, micro, mgr>>
      BY <1>1, <2>6, Zenon DEF ReviewBegins, EmitNothing
    <3>2. QED BY <2>1, <2>2, <2>3, <2>4, <3>1, StillKeepsReplay DEF Over, Unstarted
  <2>7. QED BY <2>5, <2>6
<1>2. CASE ReviewSettles
  <2>1. PICK s \in Landings : row' = setRatingState(row, s) /\ Emit(<<RatingEvent(s)>>)
    BY <1>2 DEF ReviewSettles
  <2> DEFINE evs == <<RatingEvent(s)>>
  <2>2. Quiet /\ At("done") /\ exec.pc = "grading" /\ UNCHANGED <<log, cursor, rerate, hist>>
    BY <1>2 DEF ReviewSettles
  <2>3. s \in SettledRatings /\ s \in RatingStates
    BY DEF Landings, RatingStates, SettledRatings
  <2>4. exec'.pc = "done"
    BY <2>2, <1>x DEF At, Executions
  <2>5. Elsewhere
    BY <1>x, <2>1, <2>2, <2>3, <2>4, ReviewWrites DEF Elsewhere, Over
  <2>6. Emit(evs) /\ evs \in Seq(Events) /\ Len(evs) = 1
    BY <2>1, <2>3, EventTypes
  <2>7. mgr.active => mgr' = NoEntry
    <3>1. mgr.active => mgr.terminal
      BY <2>2 DEF ReplayInv, EntryInv, Late, Ending
    <3>2. mgr.active => mgr' = AfterEvents(mgr, evs)
      BY <2>6, Zenon DEF Emit
    <3>3. QED BY <1>x, <2>3, <3>1, <3>2, EntryAfterRating
  <2> HIDE DEF evs
  <2>8. ~mgr'.active /\ Stamps(evs)
    <3>1. CASE mgr.active
      <4>1. sent' = sent \o evs /\ micro' = micro \o evs
        BY <2>6, <3>1, Zenon DEF Emit
      <4>2. QED BY <2>7, <3>1, <4>1 DEF Stamps, NoEntry
    <3>2. CASE ~mgr.active
      <4>1. UNCHANGED <<sent, micro, mgr>>
        BY <2>6, <3>2, Zenon DEF Emit, EmitNothing
      <4>2. QED BY <3>2, <4>1 DEF Stamps
    <3>3. QED BY <3>1, <3>2
  <2>9. LogInv'
    <3>1. \A i \in 1..Len(evs) : IsSettledRating(evs[i]) => i = Len(evs) /\ ~mgr'.active
      BY <2>6, <2>8
    <3>2. QED BY <2>2, <2>5, <2>6, <2>8, <3>1, StampsKeepsLog DEF ReplayInv
  <2>10. RatingInv'
    <3>1. SUFFICES ASSUME row.present, ~hist.torn
                   PROVE  Terminal(row.status) /\ Settled(row'.rating) /\ Agrees'
      BY <2>4, <2>5, LiveStatuses DEF RatingInv, Elsewhere, Reported, Over, ReplayInv
    <3>2. Terminal(row.status) /\ NothingSettled(log)
      BY <2>2, <3>1 DEF ReplayInv, RatingInv, Over
    <3>3. row'.rating = s /\ Settled(s)
      BY <1>x, <2>1, <2>3, <3>1, RatingWrites DEF Settled
    <3>4. \A i \in 1..Len(micro') : micro'[i].val = s
      <4>1. micro = <<>> /\ (micro' = micro \o evs \/ micro' = micro)
        BY <2>2, <2>8 DEF Quiet, Stamps
      <4>2. micro' = evs \/ micro' = <<>>
        BY <2>6, <4>1
      <4>3. \A i \in 1..Len(evs) : evs[i].val = s
        BY <2>6 DEF evs, RatingEvent
      <4>4. QED BY <4>2, <4>3
    <3>5. NothingSettled(log')
      BY <2>2, <3>2 DEF NothingSettled, SettledAt
    <3>6. QED BY <3>2, <3>3, <3>4, <3>5 DEF Agrees
  <2>11. QED BY <2>4, <2>8, <2>9, <2>10 DEF ReplayInv, EntryInv, Unstarted
<1>3. QED BY <1>1, <1>2 DEF Review

\* A re-rate of a run that is over appends behind a log that is complete.
LEMMA ReplayRerate ==
  ASSUME TypeOK, ReplayInv, RerateBegins \/ RerateSettles
  PROVE  ReplayInv'
<1> DEFINE n == Len(log.entries)
<1>1. UNCHANGED <<cursor, sent, micro, mgr, exec>> /\ Quiet
  BY DEF RerateBegins, RerateSettles
<1>2. row'.present = row.present
  BY RerateRow
<1>t. /\ log \in Logs /\ log.entries \in Seq(LogEntries) /\ n \in Nat /\ rerate \in Rerates
      /\ hist \in Histories /\ micro = <<>> /\ Len(micro) = 0 /\ sent \in Seq(Events)
  BY <1>1 DEF TypeOK, Logs, Quiet
<1>3. PICK s \in RatingStates : log' = IF row.present THEN appendEvent(log, log.next, RatingEvent(s)) ELSE log
  BY DEF RerateBegins, RerateSettles, TransitionRerate, appendRatingEvent, RatingStates,
     SettledRatings
<1>4. /\ hist'.crashed = hist.crashed
      /\ ~hist'.torn => ~hist.torn
      /\ row.present /\ ~hist'.torn => exec.pc \in Over
  <2>1. CASE RerateBegins
    BY <1>t, <2>1 DEF RerateBegins, Histories, Over
  <2>2. CASE RerateSettles
    <3>1. rerate.open > 0 /\ hist' = hist
      BY <2>2 DEF RerateSettles
    <3>2. QED BY <3>1 DEF ReplayInv, LogInv
  <2>3. QED BY <2>1, <2>2
<1>5. exec.pc # "none"
  <2>1. CASE RerateBegins
    BY <2>1 DEF RerateBegins, ReplayInv, LogInv
  <2>2. CASE RerateSettles
    BY <2>2 DEF RerateSettles, ReplayInv, LogInv
  <2>3. QED BY <2>1, <2>2
<1>6. ASSUME row.present, ~hist'.torn
      PROVE  (/\ Numbered /\ InStep /\ LastWord
              /\ hist.crashed \/ Traced
              /\ rerate.open > 0 => exec.pc \in Over)'
  <2>1. exec.pc \in Over /\ ~mgr.active /\ ~Pending /\ Numbered /\ (hist.crashed \/ Traced)
    BY <1>1, <1>4, <1>6, <1>t DEF ReplayInv, EntryInv, LogInv, Pending
  <2> DEFINE e == [idx |-> n, ev |-> RatingEvent(s)]
  <2>2. log'.entries = Append(log.entries, e) /\ log'.next = n + 1
    BY <1>3, <1>6, <1>t, <2>1 DEF appendEvent, Numbered
  <2>3. e \in LogEntries /\ e.idx = n
    BY <1>t, EventTypes DEF LogEntries
  <2> HIDE DEF e
  <2>4. /\ Len(log'.entries) = n + 1
        /\ \A i \in 1..n : log'.entries[i] = log.entries[i]
        /\ log'.entries[n + 1] = e
    BY <1>t, <2>2, <2>3
  <2>5. Numbered'
    BY <1>t, <2>1, <2>2, <2>3, <2>4 DEF Numbered
  <2>6. InStep' /\ LastWord'
    BY <1>1, <1>t, <2>1 DEF InStep, Pending, LastWord
  <2>7. Traced => Traced'
    BY <1>1, <1>t, <2>4 DEF Traced
  <2>8. QED BY <1>1, <1>4, <2>1, <2>5, <2>6, <2>7
<1>7. LogInv'
  BY <1>1, <1>2, <1>4, <1>5, <1>6 DEF LogInv, ReplayInv
<1>8. EntryInv'
  BY <1>1 DEF ReplayInv, EntryInv, Late
<1>9. RatingInv'
  <2>1. row \in Rows /\ row'.status = row.status
    BY RerateRow DEF TypeOK
  <2>2. SUFFICES ASSUME row.present, ~hist'.torn
                 PROVE  /\ rerate'.open = 0 /\ Terminal(row.status) => Settled(row'.rating)
                        /\ Settled(row'.rating) => Agrees'
    BY <1>1, <1>2, <1>4, <2>1 DEF ReplayInv, RatingInv, Reported, HasVerdict, Over
  <2>3. CASE RerateBegins
    <3>1. row' = setRatingState(row, "rating") /\ rerate'.open = rerate.open + 1
      BY <2>3 DEF RerateBegins, TransitionRerate
    <3>2. ~Settled(row'.rating)
      BY <2>1, <2>2, <3>1, RatingWrites DEF Settled, SettledRatings, RatingStates
    <3>3. rerate'.open # 0
      BY <1>t, <3>1 DEF Rerates
    <3>4. QED BY <3>2, <3>3
  <2>4. CASE RerateSettles
    <3>1. PICK v \in {"rated", "failed"} : TransitionRerate(v)
      BY <2>4 DEF RerateSettles
    <3>2. v \in RatingStates /\ Settled(v)
      BY DEF RatingStates, Settled, SettledRatings
    <3>3. row'.rating = v
      BY <2>1, <2>2, <3>1, <3>2, RatingWrites DEF TransitionRerate
    <3>4. log' = appendEvent(log, log.next, RatingEvent(v))
      BY <2>2, <3>1 DEF TransitionRerate, appendRatingEvent
    <3> DEFINE e == [idx |-> log.next, ev |-> RatingEvent(v)]
    <3>5. log'.entries = Append(log.entries, e)
      BY <3>4 DEF appendEvent
    <3>6. e \in LogEntries /\ e.ev = RatingEvent(v)
      BY <1>t, <3>2, EventTypes DEF LogEntries, Logs
    <3>7. RatingEvent(v).val = v /\ IsSettledRating(RatingEvent(v))
      BY <3>2 DEF RatingEvent, IsSettledRating
    <3> HIDE DEF e
    <3>8. Len(log'.entries) = n + 1 /\ log'.entries[n + 1] = e
      BY <1>t, <3>5, <3>6
    <3>9. log'.entries[n + 1].ev.val = row'.rating
      BY <3>3, <3>6, <3>7, <3>8
    <3>10. Agrees'
      <4>1. SettledAt(log', n + 1) /\ \A k \in 1..(n + 1) : k <= n + 1
        BY <1>t, <3>6, <3>7, <3>8 DEF SettledAt
      <4>2. n + 1 \in 1..Len(log'.entries) /\ LastSettled(log', n + 1)
        BY <1>t, <3>8, <4>1 DEF LastSettled
      <4>3. \A i \in 1..Len(micro') : ~IsSettledRating(micro'[i])
        BY <1>1, <1>t
      <4>4. QED BY <3>9, <4>2, <4>3 DEF Agrees
    <3>11. QED BY <3>2, <3>3, <3>10
  <2>5. QED BY <2>3, <2>4
<1>10. QED BY <1>7, <1>8, <1>9 DEF ReplayInv

\* A crash drops what is queued; the log keeps its numbers.
LEMMA ReplayCrash ==
  ASSUME TypeOK, ReplayInv, CrashRestart
  PROVE  ReplayInv'
<1>1. /\ row' = abortOrphanedRuns(row) /\ micro' = <<>> /\ mgr' = NoEntry /\ UNCHANGED <<log, sent>>
      /\ exec' = [exec EXCEPT !.pc = "down"] /\ rerate' = [rerate EXCEPT !.open = 0]
      /\ hist' = [hist EXCEPT !.crashed = TRUE, !.torn = @ \/ rerate.open > 0]
  BY DEF CrashRestart
<1>t. row \in Rows /\ exec \in Executions /\ rerate \in Rerates /\ hist \in Histories
  BY DEF TypeOK
<1>2. /\ row'.present = row.present /\ exec'.pc = "down" /\ ~mgr'.active /\ rerate'.open = 0
      /\ hist'.crashed /\ (~hist'.torn => ~hist.torn)
  BY <1>1, <1>t, AbortOrphanedKeeps DEF Executions, NoEntry, Rerates, Histories
<1>3. EntryInv'
  BY <1>2 DEF EntryInv, Unstarted
<1>4. ASSUME row.present, ~hist.torn
      PROVE  (Numbered /\ InStep /\ LastWord)'
  <2>1. Numbered
    BY <1>4 DEF ReplayInv, LogInv
  <2>2. QED BY <1>1, <1>2, <2>1 DEF Numbered, InStep, Pending, LastWord
<1>5. LogInv'
  BY <1>1, <1>2, <1>4 DEF LogInv
<1>6. RatingInv'
  <2>1. SUFFICES ASSUME row.present, ~hist'.torn
                 PROVE  /\ row'.status # "running"
                        /\ Terminal(row'.status) => Settled(row'.rating)
                        /\ Settled(row'.rating) => Agrees'
    BY <1>2 DEF RatingInv, Over
  <2>2. ~hist.torn /\ rerate.open = 0
    <3>1. hist'.torn = (hist.torn \/ rerate.open > 0)
      BY <1>1, <1>t DEF Histories
    <3>2. ~hist.torn /\ ~(rerate.open > 0)
      BY <2>1, <3>1, Zenon
    <3>3. QED BY <1>t, <3>2 DEF Rerates
  <2>3. /\ row'.status # "running" /\ (Terminal(row'.status) => Settled(row'.rating))
        /\ row.status # "running" /\ (Terminal(row.status) => Settled(row.rating)) => row' = row
    BY <1>1, <1>t, <2>1, RatingWrites
  <2>4. micro' = <<>> /\ Len(micro') = 0 /\ log' = log
    BY <1>1
  <2>5. CASE exec.pc \notin Over
    <3>1. NothingSettled(log)
      BY <2>1, <2>2, <2>5 DEF ReplayInv, RatingInv
    <3>2. QED BY <2>3, <2>4, <3>1 DEF Agrees, NothingSettled, SettledAt
  <2>6. CASE exec.pc \in Over
    <3>1. row' = row /\ (Terminal(row.status) => Settled(row.rating))
      BY <2>1, <2>2, <2>3, <2>6 DEF ReplayInv, RatingInv
    <3>2. QED
      BY <2>1, <2>2, <2>3, <2>4, <2>6, <3>1
      DEF ReplayInv, RatingInv, Agrees, NothingSettled, LastSettled, SettledAt
  <2>7. QED BY <2>5, <2>6
<1>7. QED BY <1>3, <1>5, <1>6 DEF ReplayInv

-----------------------------------------------------------------------------
\* Nothing is logged before the run is started.
LEMMA ReplayInit == Init => ReplayInv
<1> SUFFICES ASSUME Init PROVE ReplayInv
  OBVIOUS
<1>1. /\ row = NoRow /\ log = NoLog /\ sent = <<>> /\ micro = <<>> /\ mgr = NoEntry
      /\ exec.pc = "none" /\ ~exec.settled /\ rerate.open = 0 /\ ~hist.crashed
  BY DEF Init
<1>2. ~mgr.active /\ ~row.present
  BY <1>1 DEF NoEntry, NoRow
<1>3. QED BY <1>1, <1>2 DEF ReplayInv, EntryInv, Late, Ending, LogInv, RatingInv

\* Every step preserves the replay invariant.
LEMMA ReplayStepInv == TypeOK /\ VerdictInv /\ ReplayInv /\ [Next]_vars => ReplayInv'
<1> SUFFICES ASSUME TypeOK, VerdictInv, ReplayInv, [Next]_vars PROVE ReplayInv'
  OBVIOUS
<1>1. CASE UNCHANGED vars
  BY <1>1 DEF vars, ReplayInv, EntryInv, Late, LogInv, Numbered, InStep, Pending, Traced, LastWord,
              RatingInv, Reported, HasVerdict, Agrees, NothingSettled, LastSettled, SettledAt
<1>2. CASE Next
  BY <1>2, ReplayStart, ReplayPersist, ReplayExecutor, ReplayReview, ReplayTurn, ReplayStop,
     ReplayEnd, ReplayDelete, ReplayPrune, ReplayRerate, ReplayCrash DEF Next, Operator
<1>3. QED BY <1>1, <1>2

\* The invariant gives LogFaithful.
LEMMA ReplayImplies == TypeOK /\ ReplayInv => LogFaithful
<1> SUFFICES ASSUME TypeOK, ReplayInv, row.present, ~hist.torn
             PROVE  /\ \A i \in DOMAIN log.entries : log.entries[i].idx = i - 1
                    /\ ~hist.crashed => /\ Len(sent) <= Len(Logged \o micro)
                                        /\ \A i \in DOMAIN sent : (Logged \o micro)[i] = sent[i]
  BY DEF LogFaithful
<1> DEFINE n == Len(log.entries)
<1>t. /\ log.entries \in Seq(LogEntries) /\ n \in Nat /\ DOMAIN log.entries = 1..n
      /\ sent \in Seq(Events) /\ micro \in Seq(Events) /\ DOMAIN sent = 1..Len(sent)
  BY DEF TypeOK, Logs
<1>1. \A i \in DOMAIN log.entries : log.entries[i].idx = i - 1
  BY <1>t DEF ReplayInv, LogInv, Numbered
<1>2. /\ Logged \in Seq(Events) /\ Len(Logged) = n
      /\ \A i \in 1..n : Logged[i] = log.entries[i].ev
  <2>1. Logged = [i \in 1..n |-> log.entries[i].ev]
    BY <1>t DEF Logged
  <2>2. ASSUME NEW i \in 1..n PROVE log.entries[i].ev \in Events
    <3>1. log.entries[i] \in LogEntries
      BY <1>t
    <3>2. QED BY <3>1 DEF LogEntries
  <2>3. QED BY <1>t, <2>1, <2>2
<1>3. /\ Len(Logged \o micro) = n + Len(micro)
      /\ \A i \in 1..(n + Len(micro)) :
           (Logged \o micro)[i] = IF i <= n THEN Logged[i] ELSE micro[i - n]
  <2>1. /\ Len(Logged \o micro) = Len(Logged) + Len(micro)
        /\ \A i \in 1..(Len(Logged) + Len(micro)) :
             (Logged \o micro)[i] = IF i <= Len(Logged) THEN Logged[i] ELSE micro[i - Len(Logged)]
    <3>1. Logged \in Seq(Events) /\ micro \in Seq(Events)
      BY <1>2, <1>t
    <3>2. QED BY <3>1, ConcatProperties, Zenon
  <2>2. QED BY <1>2, <2>1
<1>4. ASSUME ~hist.crashed
      PROVE  /\ Len(sent) <= Len(Logged \o micro)
             /\ \A i \in DOMAIN sent : (Logged \o micro)[i] = sent[i]
  <2>1. Len(sent) <= n + Len(micro)
    BY <1>4 DEF ReplayInv, LogInv, Traced
  <2>2. \A i \in 1..Len(sent) : sent[i] = IF i <= n THEN log.entries[i].ev ELSE micro[i - n]
    BY <1>4 DEF ReplayInv, LogInv, Traced
  <2> HIDE DEF n
  <2>3. ASSUME NEW i \in 1..Len(sent) PROVE (Logged \o micro)[i] = sent[i]
    <3>1. i \in 1..(n + Len(micro))
      BY <1>t, <2>1
    <3>2. (Logged \o micro)[i] = IF i <= n THEN Logged[i] ELSE micro[i - n]
      BY <1>3, <3>1
    <3>3. i <= n => Logged[i] = log.entries[i].ev
      BY <1>t, <1>2, <3>1
    <3>4. QED BY <2>2, <3>2, <3>3
  <2>4. QED BY <1>t, <1>3, <2>1, <2>3
<1>5. QED BY <1>1, <1>4

\* The invariant gives ReplayConverges.
LEMMA ReplayAgreement == TypeOK /\ ReplayInv => ReplayConverges
<1> SUFFICES ASSUME TypeOK, ReplayInv, ~hist.torn, row.present, Settled(row.rating), Quiet
             PROVE  ReplayedRatings = {row.rating}
  BY DEF ReplayConverges, ReplayAgrees
<1> DEFINE n == Len(log.entries)
<1>t. /\ log.entries \in Seq(LogEntries) /\ n \in Nat /\ DOMAIN log.entries = 1..n /\ Len(micro) = 0
  BY DEF TypeOK, Logs, Quiet
<1>1. Numbered /\ Agrees
  BY DEF ReplayInv, LogInv, RatingInv
<1>2. SettledEntries = {i \in 1..n : SettledAt(log, i)}
  BY <1>t DEF SettledEntries, SettledAt
<1>3. CASE NothingSettled(log)
  <2>1. SettledEntries = {}
    BY <1>2, <1>3 DEF NothingSettled
  <2>2. QED BY <2>1, Zenon DEF ReplayedRatings
<1>4. ASSUME NEW i \in 1..n, LastSettled(log, i), log.entries[i].ev.val = row.rating
      PROVE  ReplayedRatings = {row.rating}
  <2> DEFINE last == {j \in SettledEntries : \A k \in SettledEntries :
                        log.entries[k].idx <= log.entries[j].idx}
  <2>1. i \in SettledEntries /\ \A k \in SettledEntries : k \in 1..n /\ k <= i
    BY <1>2, <1>4 DEF LastSettled
  <2>2. \A k \in 1..n : log.entries[k].idx = k - 1
    BY <1>1 DEF Numbered
  <2>3. last = {i}
    <3>1. i \in last
      BY <1>t, <2>1, <2>2
    <3>2. ASSUME NEW j \in last PROVE j = i
      <4>1. j \in 1..n /\ j <= i /\ log.entries[i].idx <= log.entries[j].idx
        BY <2>1
      <4>2. QED BY <1>t, <2>2, <4>1
    <3>3. QED BY <3>1, <3>2
  <2>4. ReplayedRatings = {log.entries[j].ev.val : j \in last}
    <3>1. SettledEntries # {}
      BY <2>1
    <3>2. QED BY <3>1, Zenon DEF ReplayedRatings
  <2> HIDE DEF last
  <2>5. QED BY <1>4, <2>3, <2>4
<1>5. QED BY <1>1, <1>3, <1>4 DEF Agrees

\* The invariant and what it rests on, in every reachable state.
LEMMA ReplayInvariant == Spec => [](TypeOK /\ VerdictInv /\ ReplayInv)
<1>1. Init => TypeOK /\ VerdictInv /\ ReplayInv
  BY TypeOKInit, VerdictInit, ReplayInit
<1>2. TypeOK /\ VerdictInv /\ ReplayInv /\ [Next]_vars => (TypeOK /\ VerdictInv /\ ReplayInv)'
  BY TypeOKStep, VerdictStepInv, ReplayStepInv
<1>3. QED BY <1>1, <1>2, PTL DEF Spec

\* The replay log is what the manager stamped, for all backends, turns and
\* re-rates, until a re-rate is torn.
THEOREM LogIsFaithful == Spec => []LogFaithful
BY ReplayImplies, ReplayInvariant, PTL

\* Whoever replays a finished run sees the rating of its row, until a re-rate is
\* torn.
THEOREM ReplaysConverge == Spec => []ReplayConverges
BY ReplayAgreement, ReplayInvariant, PTL
=============================================================================
