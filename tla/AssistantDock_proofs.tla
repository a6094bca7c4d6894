------------------------ MODULE AssistantDock_proofs ------------------------
(***************************************************************************)
(* Proofs about AssistantDock, for any threads, children and bounds.       *)
(***************************************************************************)
EXTENDS AssistantDock, FiniteSetTheorems, TLAPS

-----------------------------------------------------------------------------
(* Types. *)

Table == [Sessions -> SessionType]
Registry == [Threads -> Sessions \cup {NoSession}]

\* What the manager does to a session record gives one.
LEMMA RecordsTyped ==
  ASSUME NEW x \in SessionType
  PROVE  /\ Blank \in SessionType
         /\ \A t \in Threads : Started(t) \in SessionType
         /\ Kept(x) \in SessionType /\ Aborted(x) \in SessionType /\ Cut(x) \in SessionType
         /\ Errored(x) \in SessionType /\ Settled(x) \in SessionType
         /\ Gone(x) \in SessionType /\ Taken(x) \in SessionType
         /\ [x EXCEPT !.timer = TRUE] \in SessionType /\ [x EXCEPT !.timer = FALSE] \in SessionType
         /\ x.owes > 0 => TurnOver(x) \in SessionType
         /\ x.asks > 0 => Answered(x) \in SessionType
         /\ x.asks < MaxAsks => awaitDecision(x) \in SessionType
<1>1. MaxAsks \in Nat
  BY ConfigAssumption
<1>2. Blank \in SessionType
  BY <1>1 DEF SessionType, Blank
<1>3. \A t \in Threads : Started(t) \in SessionType
  BY <1>2 DEF SessionType, Started
<1>4. \A y \in SessionType : Kept(y) \in SessionType
  BY <1>2 DEF Kept
<1>9. \A y \in SessionType :
        /\ [y EXCEPT !.aborted = TRUE] \in SessionType
        /\ [y EXCEPT !.timer = FALSE] \in SessionType
        /\ [y EXCEPT !.errored = FALSE] \in SessionType
  BY DEF SessionType
<1>14. \A y \in SessionType :
        /\ [y EXCEPT !.detached = TRUE] \in SessionType
        /\ [y EXCEPT !.timer = TRUE] \in SessionType
  BY DEF SessionType
<1>15. \A y \in SessionType :
        /\ [y EXCEPT !.inFlight = FALSE] \in SessionType
        /\ [y EXCEPT !.inFlight = TRUE] \in SessionType
  BY DEF SessionType
<1>16. \A y \in SessionType :
        /\ [y EXCEPT !.asks = 0] \in SessionType
        /\ [y EXCEPT !.owes = 0] \in SessionType
        /\ [y EXCEPT !.owes = @ + 1] \in SessionType
        /\ y.owes > 0 => [y EXCEPT !.owes = @ - 1] \in SessionType
        /\ [y EXCEPT !.st = "over"] \in SessionType
  BY <1>1 DEF SessionType
<1>5. Aborted(x) \in SessionType
  <2>1. Aborted(x) = [[[x EXCEPT !.aborted = TRUE] EXCEPT !.timer = FALSE] EXCEPT !.asks = 0]
    BY DEF Aborted
  <2> QED
    BY <2>1, <1>9, <1>16
<1>12. [x EXCEPT !.st = "over", !.timer = FALSE, !.owes = 0] \in SessionType
  <2>1. [x EXCEPT !.st = "over", !.timer = FALSE, !.owes = 0]
         = [[[x EXCEPT !.st = "over"] EXCEPT !.timer = FALSE] EXCEPT !.owes = 0]
    OBVIOUS
  <2> QED
    BY <2>1, <1>9, <1>16
<1>6. Taken(x) \in SessionType
  <2> DEFINE y == [[[x EXCEPT !.inFlight = TRUE] EXCEPT !.errored = FALSE] EXCEPT !.timer = FALSE]
  <2>1. Taken(x) = [y EXCEPT !.owes = @ + 1]
    BY DEF Taken
  <2>2. y \in SessionType
    BY <1>9, <1>15
  <2> QED
    BY <2>1, <2>2, <1>16
<1>13. x.owes > 0 => TurnOver(x) \in SessionType
  <2> DEFINE y == [[x EXCEPT !.inFlight = FALSE] EXCEPT !.errored = FALSE]
  <2>1. TurnOver(x) = [y EXCEPT !.owes = @ - 1]
    BY DEF TurnOver
  <2>2. y \in SessionType /\ y.owes = x.owes
    BY <1>9, <1>15 DEF SessionType
  <2> QED
    BY <2>1, <2>2, <1>16
<1>7. /\ x.asks > 0 => [x EXCEPT !.asks = @ - 1] \in SessionType
      /\ x.asks < MaxAsks => awaitDecision(x) \in SessionType
  BY <1>1 DEF SessionType, awaitDecision
<1>8. /\ Errored(x) \in SessionType
      /\ [x EXCEPT !.timer = TRUE] \in SessionType /\ [x EXCEPT !.timer = FALSE] \in SessionType
  BY DEF SessionType, Errored
<1>10. Cut(x) \in SessionType
  BY <1>5, <1>14 DEF Cut
<1> QED
  BY <1>2, <1>3, <1>4, <1>5, <1>6, <1>7, <1>8, <1>10, <1>16, <1>12, <1>13 DEF Settled, Gone, Answered

\* What an abort leaves alone.
LEMMA AbortedKeeps ==
  ASSUME NEW x \in SessionType
  PROVE  /\ Aborted(x).st = x.st /\ Aborted(x).of = x.of /\ Aborted(x).aborted
         /\ ~Aborted(x).timer /\ Aborted(x).errored = x.errored
         /\ Aborted(x).inFlight = x.inFlight /\ Aborted(x).owes = x.owes /\ Aborted(x).asks = 0
BY DEF Aborted, SessionType

\* park, session by session and thread by thread.
LEMMA ParkedAt ==
  ASSUME TypeOK, NEW t \in Threads, NEW ss \in Table
  PROVE  /\ Parked(t, ss) \in Table /\ LiveParked(t, ss) \in Registry
         /\ \A u \in Sessions :
              Parked(t, ss)[u] = IF live[t] = u /\ ~ss[u].inFlight THEN Aborted(ss[u]) ELSE ss[u]
         /\ \A v \in Threads :
              LiveParked(t, ss)[v] = IF v = t /\ Parks(t, ss) THEN NoSession ELSE live[v]
<1>1. live \in Registry /\ NoSession \notin Sessions
  BY ConfigAssumption DEF TypeOK, Registry
<1>2. \A u \in Sessions : Aborted(ss[u]) \in SessionType
  BY RecordsTyped DEF Table
<1> QED
  BY <1>1, <1>2 DEF Parked, LiveParked, Parks, Table, Registry

\* detachThread.
LEMMA DetachedTyped ==
  ASSUME TypeOK, NEW ts
  PROVE  Detached(ts) \in Table
BY RecordsTyped DEF TypeOK, Detached, Table

-----------------------------------------------------------------------------
(* The invariant: sessions and registrations agree, and rows with both. *)

\* What holds of every record of a session.
Sane(x) ==
  /\ x.st = "open" => x.of \in Threads
  /\ x.timer => x.st = "open"
  /\ x.errored => ~x.inFlight
  /\ x.st = "open" /\ x.inFlight => x.owes > 0

\* While the release is immediate a registered session is in its one turn, and no other asks
\* but one whose stream just ended.
Immediate(ss, lv) ==
  /\ \A v \in Threads : lv[v] # NoSession => ss[lv[v]].inFlight
  /\ \A u \in Sessions :
       /\ ss[u].owes <= 1
       /\ ss[u].asks > 0 => RanOut(ss[u]) \/ (ss[u].st = "open" /\ lv[ss[u].of] = u)

\* The sessions nobody has told to stop are the registered ones, within the cap.
Agree(ss, lv) ==
  /\ \A u \in Sessions :
       Sane(ss[u]) /\ (ss[u].st = "open" /\ ~ss[u].aborted => lv[ss[u].of] = u)
  /\ \A v \in Threads : lv[v] # NoSession =>
       ss[lv[v]].st = "open" /\ ~ss[lv[v]].aborted /\ ss[lv[v]].of = v
  /\ Cardinality(Registered(lv)) <= MaxActive
  /\ ~grace => Immediate(ss, lv)

\* Only a thread that exists has a session; one that runs was asked, and is served.
RowsServed ==
  \A v \in Threads :
    /\ live[v] # NoSession => Exists(v)
    /\ thread[v].status = "running" => thread[v].asked
    /\ v \notin left /\ Exists(v) /\ thread[v].status = "running" =>
         live[v] # NoSession /\ session[live[v]].inFlight

Inv == TypeOK /\ Agree(session, live) /\ RowsServed

\* The registered threads are finitely many, and dropping registrations leaves fewer.
LEMMA FewerRegistered ==
  ASSUME NEW lv, NEW lw, \A v \in Threads : lw[v] # NoSession => lv[v] # NoSession
  PROVE  /\ IsFiniteSet(Registered(lv)) /\ Cardinality(Registered(lv)) \in Nat
         /\ Cardinality(Registered(lw)) \in Nat
         /\ Cardinality(Registered(lw)) <= Cardinality(Registered(lv))
         /\ \A v \in Threads : lv[v] # NoSession /\ lw[v] = NoSession =>
              Cardinality(Registered(lw)) < Cardinality(Registered(lv))
<1>1. IsFiniteSet(Registered(lv))
  BY ConfigAssumption, FS_Subset DEF Registered
<1>2. Registered(lw) \subseteq Registered(lv)
  BY DEF Registered
<1>3. ASSUME NEW v \in Threads, lv[v] # NoSession, lw[v] = NoSession
      PROVE  Registered(lw) # Registered(lv)
  BY <1>3 DEF Registered
<1>4. /\ IsFiniteSet(Registered(lw))
      /\ Cardinality(Registered(lw)) <= Cardinality(Registered(lv))
      /\ Cardinality(Registered(lw)) = Cardinality(Registered(lv)) => Registered(lw) = Registered(lv)
  BY <1>1, <1>2, FS_Subset
<1>5. Cardinality(Registered(lv)) \in Nat /\ Cardinality(Registered(lw)) \in Nat
  BY <1>1, <1>4, FS_CardinalityType
<1> QED
  BY <1>1, <1>3, <1>4, <1>5

\* One more registration is one more at most.
LEMMA OneMoreRegistered ==
  ASSUME NEW lv \in Registry, NEW t \in Threads, NEW s \in Sessions
  PROVE  Cardinality(Registered([lv EXCEPT ![t] = s]))
           = IF lv[t] = NoSession THEN Cardinality(Registered(lv)) + 1
                                  ELSE Cardinality(Registered(lv))
<1> DEFINE lw == [lv EXCEPT ![t] = s]
<1>1. Registered(lw) = Registered(lv) \cup {t} /\ (t \in Registered(lv) <=> lv[t] # NoSession)
  BY ConfigAssumption DEF Registered, Registry
<1>2. IsFiniteSet(Registered(lv))
  BY ConfigAssumption, FS_Subset DEF Registered
<1>3. CASE lv[t] = NoSession
  BY <1>1, <1>2, <1>3, FS_AddElement
<1>4. CASE lv[t] # NoSession
  BY <1>1, <1>4
<1> QED
  BY <1>3, <1>4

\* detachThread of some threads keeps the agreement.
LEMMA DetachAgrees ==
  ASSUME TypeOK, Agree(session, live), NEW ts \in SUBSET Threads, NEW lv \in Registry,
         \A v \in Threads : lv[v] = IF v \in ts THEN NoSession ELSE live[v]
  PROVE  /\ Detached(ts) \in Table /\ Agree(Detached(ts), lv)
         /\ \A v \in Threads : lv[v] # NoSession => Detached(ts)[lv[v]] = session[lv[v]]
<1> DEFINE ss == Detached(ts)
<1>1. ss \in Table /\ session \in Table /\ live \in Registry
  BY DetachedTyped DEF TypeOK, Table, Registry
<1>2. NoThread \notin Threads /\ NoSession \notin Sessions
  BY ConfigAssumption
<1>3. \A u \in Sessions :
        ss[u] = IF session[u].of \notin ts \/ live[session[u].of] = NoSession THEN session[u]
                ELSE IF live[session[u].of] = u THEN Cut(session[u]) ELSE Settled(session[u])
  BY DEF Detached
<1>4. ASSUME NEW u \in Sessions
      PROVE  /\ Sane(ss[u]) /\ (ss[u].st = "open" /\ ~ss[u].aborted => lv[ss[u].of] = u)
             /\ ~grace => /\ ss[u].owes <= 1
                          /\ ss[u].asks > 0 => RanOut(ss[u]) \/ (ss[u].st = "open" /\ lv[ss[u].of] = u)
  <2>1. session[u] \in SessionType /\ Sane(session[u])
        /\ (session[u].st = "open" /\ ~session[u].aborted => live[session[u].of] = u)
        /\ (~grace => /\ session[u].owes <= 1
                      /\ session[u].asks > 0 =>
                           RanOut(session[u]) \/ (session[u].st = "open" /\ live[session[u].of] = u))
    BY <1>1 DEF Agree, Immediate, Table
  <2>2. CASE session[u].of \notin ts \/ live[session[u].of] = NoSession
    <3>1. ss[u] = session[u]
      BY <1>3, <2>2
    <3> QED
      BY <2>1, <2>2, <3>1, <1>2 DEF Sane
  <2>3. CASE session[u].of \in ts /\ live[session[u].of] = u
    <3>1. ss[u] = Cut(session[u])
      BY <1>2, <1>3, <2>3
    <3>2. /\ ss[u].st = session[u].st /\ ss[u].of = session[u].of /\ ss[u].aborted /\ ~ss[u].timer
          /\ ss[u].errored = session[u].errored /\ ss[u].inFlight = session[u].inFlight
          /\ ss[u].owes = session[u].owes /\ ss[u].asks = 0
      BY <2>1, <3>1 DEF Cut, Aborted, SessionType
    <3> QED
      BY <2>1, <3>2 DEF Sane
  <2>4. CASE session[u].of \in ts /\ live[session[u].of] # NoSession /\ live[session[u].of] # u
    <3>1. ss[u] = Settled(session[u])
      BY <1>3, <2>4
    <3>2. \/ ss[u] = Blank
          \/ /\ ss[u].st = session[u].st /\ ss[u].of = session[u].of
             /\ ss[u].aborted = session[u].aborted /\ ss[u].timer = session[u].timer
             /\ ss[u].errored = session[u].errored /\ ss[u].inFlight = session[u].inFlight
             /\ ss[u].owes = session[u].owes /\ ss[u].asks = 0
      BY <2>1, <3>1 DEF Settled, Kept, SessionType
    <3> QED
      BY <2>1, <2>4, <3>2 DEF Sane, Blank
  <2> QED
    BY <2>2, <2>3, <2>4
<1>5. ASSUME NEW v \in Threads, lv[v] # NoSession
      PROVE  ss[lv[v]] = session[lv[v]]
  <2>1. v \notin ts /\ lv[v] = live[v] /\ live[v] \in Sessions
    BY <1>1, <1>5 DEF Registry
  <2>2. session[live[v]].of = v
    BY <1>5, <2>1 DEF Agree
  <2> QED
    BY <1>3, <2>1, <2>2
<1>6. Cardinality(Registered(lv)) <= MaxActive
  <2>1. \A v \in Threads : lv[v] # NoSession => live[v] # NoSession
    OBVIOUS
  <2> QED
    BY <2>1, FewerRegistered, ConfigAssumption DEF Agree
<1>7. \A v \in Threads : lv[v] # NoSession => live[v] = lv[v]
  OBVIOUS
<1> QED
  BY <1>1, <1>4, <1>5, <1>6, <1>7 DEF Agree, Immediate

\* A message delivered to the registered session, or to a new one when there is room.
LEMMA DeliverAgrees ==
  ASSUME NEW t \in Threads, NEW ss \in Table, NEW lv \in Registry, Agree(ss, lv),
         lv[t] # NoSession => grace /\ ~ss[lv[t]].inFlight,
         HasRoom(t, lv), Deliver(t, ss, lv)
  PROVE  /\ session' \in Table /\ live' \in Registry /\ Agree(session', live')
         /\ live'[t] # NoSession /\ session'[live'[t]].inFlight
         /\ \A v \in Threads : v # t /\ lv[v] # NoSession =>
              live'[v] = lv[v] /\ session'[live'[v]] = ss[lv[v]]
         /\ \A v \in Threads : v # t => live'[v] = lv[v]
<1>1. NoThread \notin Threads /\ NoSession \notin Sessions /\ MaxActive \in Nat
  BY ConfigAssumption
<1>2. PICK s \in Sessions :
        /\ IF lv[t] = NoSession THEN ss[s] = Blank ELSE s = lv[t]
        /\ session' = [u \in Sessions |->
             IF u # s THEN ss[u] ELSE Taken(IF lv[t] = NoSession THEN Started(t) ELSE ss[u])]
        /\ live' = [lv EXCEPT ![t] = s]
  BY DEF Deliver
<1> DEFINE x == IF lv[t] = NoSession THEN Started(t) ELSE ss[s]
<1>3. /\ x \in SessionType /\ Taken(x) \in SessionType
      /\ x.st = "open" /\ x.of = t /\ ~x.aborted /\ x.owes \in Nat
      /\ lv[t] = NoSession => x.owes = 0 /\ x.asks = 0
  <2>1. Started(t) \in SessionType
    BY RecordsTyped, <1>2 DEF Table
  <2>2. CASE lv[t] = NoSession
    <3>1. x = Started(t)
      BY <2>2
    <3>2. /\ x.st = "open" /\ x.of = t /\ ~x.aborted /\ x.owes = 0 /\ x.asks = 0
      BY <3>1 DEF Started, Blank
    <3>3. Taken(Started(t)) \in SessionType
      BY <2>1, RecordsTyped
    <3> QED
      BY <2>1, <2>2, <3>1, <3>2, <3>3
  <2>3. CASE lv[t] # NoSession
    <3>1. x = ss[s] /\ s = lv[t] /\ x \in SessionType
      BY <1>2, <2>3 DEF Table
    <3>2. x.st = "open" /\ x.of = t /\ ~x.aborted /\ x.owes \in Nat
      BY <2>3, <3>1 DEF Agree, SessionType
    <3> QED
      BY <2>3, <3>1, <3>2, RecordsTyped
  <2> QED
    BY <2>2, <2>3
<1>4. /\ Taken(x).st = "open" /\ Taken(x).of = t /\ ~Taken(x).aborted /\ Taken(x).inFlight
      /\ ~Taken(x).errored /\ ~Taken(x).timer /\ Taken(x).owes = x.owes + 1
      /\ Taken(x).asks = x.asks
  BY <1>3 DEF Taken, SessionType
<1>5. /\ session'[s] = Taken(x) /\ live'[t] = s
      /\ \A u \in Sessions : u # s => session'[u] = ss[u]
      /\ \A v \in Threads : v # t => live'[v] = lv[v]
  BY <1>2 DEF Registry
<1>6. session' \in Table /\ live' \in Registry
  BY <1>2, <1>3 DEF Table, Registry
<1>7. \A v \in Threads : v # t /\ lv[v] # NoSession => lv[v] # s /\ lv[v] \in Sessions
  <2> SUFFICES ASSUME NEW v \in Threads, v # t, lv[v] # NoSession PROVE lv[v] # s /\ lv[v] \in Sessions
    OBVIOUS
  <2>1. lv[v] \in Sessions /\ ss[lv[v]].st = "open" /\ ss[lv[v]].of = v
    BY DEF Agree, Registry
  <2>2. CASE lv[t] = NoSession
    BY <1>2, <2>1, <2>2 DEF Blank
  <2>3. CASE lv[t] # NoSession
    <3>1. s = lv[t] /\ ss[s].of = t
      BY <1>2, <2>3 DEF Agree
    <3> QED
      BY <2>1, <3>1
  <2> QED
    BY <2>2, <2>3
<1>8. Cardinality(Registered(live')) <= MaxActive
  <2>1. Cardinality(Registered(lv)) \in Nat /\ Cardinality(Registered(lv)) <= MaxActive
    BY FewerRegistered DEF Agree
  <2>2. Cardinality(Registered(live'))
         = IF lv[t] = NoSession THEN Cardinality(Registered(lv)) + 1 ELSE Cardinality(Registered(lv))
    BY <1>2, OneMoreRegistered
  <2> QED
    BY <1>1, <2>1, <2>2 DEF HasRoom
<1>9. ASSUME NEW u \in Sessions
      PROVE  /\ Sane(session'[u])
             /\ session'[u].st = "open" /\ ~session'[u].aborted => live'[session'[u].of] = u
             /\ ~grace => /\ session'[u].owes <= 1
                          /\ session'[u].asks > 0 => RanOut(session'[u]) \/ (session'[u].st = "open" /\ live'[session'[u].of] = u)
  <2>1. CASE u = s
    BY <1>3, <1>4, <1>5, <2>1 DEF Sane
  <2>2. CASE u # s
    <3>1. session'[u] = ss[u] /\ Sane(ss[u])
      BY <1>5, <2>2 DEF Agree
    <3>2. ss[u].st = "open" /\ lv[ss[u].of] = u => ss[u].of \in Threads /\ live'[ss[u].of] = u
      <4> SUFFICES ASSUME ss[u].st = "open", lv[ss[u].of] = u PROVE ss[u].of \in Threads /\ live'[ss[u].of] = u
        OBVIOUS
      <4>1. ss[u].of \in Threads
        BY <3>1 DEF Sane
      <4>2. ss[u].of # t
        BY <1>1, <1>2, <2>2
      <4> QED
        BY <1>5, <4>1, <4>2
    <3> QED
      BY <3>1, <3>2 DEF Agree, Immediate
  <2> QED
    BY <2>1, <2>2
<1>10. ASSUME NEW v \in Threads, live'[v] # NoSession
       PROVE  /\ session'[live'[v]].st = "open" /\ ~session'[live'[v]].aborted
              /\ session'[live'[v]].of = v /\ (~grace => session'[live'[v]].inFlight)
  <2>1. CASE v = t
    BY <1>4, <1>5, <2>1
  <2>2. CASE v # t
    <3>1. live'[v] = lv[v] /\ lv[v] # NoSession /\ session'[live'[v]] = ss[lv[v]]
      BY <1>5, <1>7, <1>10, <2>2
    <3> QED
      BY <3>1 DEF Agree, Immediate
  <2> QED
    BY <2>1, <2>2
<1>11. Agree(session', live')
  BY <1>8, <1>9, <1>10 DEF Agree, Immediate
<1>12. \A v \in Threads : v # t /\ lv[v] # NoSession =>
              live'[v] = lv[v] /\ session'[live'[v]] = ss[lv[v]]
  BY <1>5, <1>7
<1> QED
  BY <1>1, <1>4, <1>5, <1>6, <1>11, <1>12

\* One session changes without being told to stop, and its thread may then be parked.
ChildStep(s, t, y, parks, ss) ==
  /\ session[s].st = "open" /\ session[s].of = t /\ Sane(y)
  /\ y.st = "open" /\ y.of = t /\ y.aborted = session[s].aborted /\ y.owes <= session[s].owes
  /\ y.asks > 0 => session[s].asks > 0 \/ ~session[s].aborted
  /\ ~grace /\ ~parks /\ session[s].inFlight => y.inFlight
  /\ ss = [session EXCEPT ![s] = y]
  /\ session' = IF parks THEN Parked(t, ss) ELSE ss
  /\ live' = IF parks THEN LiveParked(t, ss) ELSE live

\* Such a step keeps the agreement and every turn in flight but the session's own.
LEMMA ChildAgrees ==
  ASSUME TypeOK, Agree(session, live), NEW s \in Sessions, NEW t \in Threads,
         NEW y \in SessionType, NEW parks \in BOOLEAN, NEW ss \in Table,
         ChildStep(s, t, y, parks, ss)
  PROVE  /\ session' \in Table /\ live' \in Registry /\ Agree(session', live')
         /\ \A v \in Threads : live'[v] # NoSession => live'[v] = live[v]
         /\ \A v \in Threads : live[v] # NoSession /\ session[live[v]].inFlight
              /\ (live[v] = s => y.inFlight) =>
              live'[v] # NoSession /\ session'[live'[v]].inFlight
<1> USE DEF ChildStep
<1>1. NoThread \notin Threads /\ NoSession \notin Sessions /\ MaxActive \in Nat
  BY ConfigAssumption
<1>2. /\ session \in Table /\ live \in Registry /\ ss[s] = y
      /\ \A u \in Sessions : u # s => ss[u] = session[u]
  BY DEF TypeOK, Table, Registry
<1> DEFINE Stops(u) == parks /\ live[t] = u /\ ~ss[u].inFlight
<1>3. /\ session' \in Table /\ live' \in Registry
      /\ \A u \in Sessions : session'[u] = IF Stops(u) THEN Aborted(ss[u]) ELSE ss[u]
      /\ \A v \in Threads :
           live'[v] = IF v = t /\ live[t] # NoSession /\ Stops(live[t]) THEN NoSession ELSE live[v]
  <2>1. CASE parks
    <3>1. session' = Parked(t, ss) /\ live' = LiveParked(t, ss)
      BY <2>1
    <3>2. /\ Parked(t, ss) \in Table /\ LiveParked(t, ss) \in Registry
          /\ \A u \in Sessions : Parked(t, ss)[u]
               = IF live[t] = u /\ ~ss[u].inFlight THEN Aborted(ss[u]) ELSE ss[u]
          /\ \A v \in Threads :
               LiveParked(t, ss)[v] = IF v = t /\ Parks(t, ss) THEN NoSession ELSE live[v]
      BY ParkedAt
    <3> QED
      BY <2>1, <3>1, <3>2 DEF Parks
  <2>2. CASE ~parks
    BY <1>2, <2>2
  <2> QED
    BY <2>1, <2>2
<1>4. ASSUME NEW u \in Sessions
      PROVE  /\ ss[u] \in SessionType /\ Sane(ss[u]) /\ ss[u].owes <= session[u].owes
             /\ ss[u].st = session[u].st /\ ss[u].of = session[u].of
             /\ ss[u].aborted = session[u].aborted
             /\ ss[u].st = "open" /\ ~ss[u].aborted => live[ss[u].of] = u
             /\ ~grace => /\ ss[u].owes <= 1
                          /\ ss[u].asks > 0 => RanOut(ss[u]) \/ (ss[u].st = "open" /\ live[ss[u].of] = u)
  <2>1. CASE u = s
    <3>1. y.owes \in Nat /\ session[s].owes \in Nat
      BY <1>2 DEF SessionType, Table
    <3>2. ~session[s].aborted => live[t] = s
      BY DEF Agree
    <3>3. ~grace => session[s].owes <= 1 /\ (session[s].asks > 0 => live[t] = s)
      BY DEF Agree, Immediate, RanOut
    <3> QED
      BY <1>2, <2>1, <3>1, <3>2, <3>3
  <2>2. CASE u # s
    <3>1. ss[u] = session[u] /\ session[u] \in SessionType /\ session[u].owes \in Nat
      BY <1>2, <2>2 DEF Table, SessionType
    <3> QED
      BY <3>1 DEF Agree, Immediate
  <2> QED
    BY <2>1, <2>2
<1>5. ASSUME NEW u \in Sessions
      PROVE  /\ Sane(session'[u])
             /\ session'[u].st = "open" /\ ~session'[u].aborted => live'[session'[u].of] = u
             /\ ~grace => /\ session'[u].owes <= 1
                          /\ session'[u].asks > 0 => RanOut(session'[u]) \/ (session'[u].st = "open" /\ live'[session'[u].of] = u)
  <2>1. CASE Stops(u)
    <3>1. session'[u] = Aborted(ss[u]) /\ ss[u] \in SessionType
      BY <1>3, <1>4, <2>1
    <3>2. /\ session'[u].st = ss[u].st /\ session'[u].of = ss[u].of /\ session'[u].aborted
          /\ ~session'[u].timer /\ session'[u].errored = ss[u].errored
          /\ session'[u].inFlight = ss[u].inFlight /\ session'[u].owes = ss[u].owes
          /\ session'[u].asks = 0
      BY <3>1, AbortedKeeps
    <3> QED
      BY <1>4, <3>2 DEF Sane
  <2>2. CASE ~Stops(u)
    <3>1. session'[u] = ss[u]
      BY <1>3, <2>2
    <3>2. ss[u].st = "open" /\ live[ss[u].of] = u => live'[ss[u].of] = u
      <4> SUFFICES ASSUME ss[u].st = "open", live[ss[u].of] = u PROVE live'[ss[u].of] = u
        OBVIOUS
      <4>1. ss[u].of \in Threads
        BY <1>4 DEF Sane
      <4> QED
        BY <1>3, <2>2, <4>1
    <3> QED
      BY <1>4, <3>1, <3>2
  <2> QED
    BY <2>1, <2>2
<1>6. \A v \in Threads : live'[v] # NoSession =>
        live'[v] = live[v] /\ live[v] \in Sessions /\ ~Stops(live[v])
  <2> SUFFICES ASSUME NEW v \in Threads, live'[v] # NoSession
               PROVE  live'[v] = live[v] /\ live[v] \in Sessions /\ ~Stops(live[v])
    OBVIOUS
  <2>3. live'[v] = live[v]
    BY <1>3
  <2>1. live'[v] = live[v] /\ live[v] \in Sessions
    BY <1>2, <2>3 DEF Registry
  <2>2. v # t => live[t] # live[v]
    BY <2>1, <1>1 DEF Agree
  <2> QED
    BY <1>3, <2>1, <2>2
<1>7. ASSUME NEW v \in Threads, live'[v] # NoSession
      PROVE  /\ session'[live'[v]].st = "open" /\ ~session'[live'[v]].aborted
             /\ session'[live'[v]].of = v /\ (~grace => session'[live'[v]].inFlight)
  <2>4. live'[v] = live[v] /\ live[v] \in Sessions /\ ~Stops(live[v])
    BY <1>6, <1>7
  <2>5. session'[live[v]] = ss[live[v]]
    BY <1>3, <2>4
  <2>1. live'[v] = live[v] /\ live[v] \in Sessions /\ session'[live'[v]] = ss[live[v]]
    BY <2>4, <2>5
  <2>2. /\ session[live[v]].st = "open" /\ ~session[live[v]].aborted /\ session[live[v]].of = v
        /\ ~grace => session[live[v]].inFlight
    BY <2>1, <1>1 DEF Agree, Immediate
  <2>3. ~grace => ss[live[v]].inFlight
    <3>1. CASE live[v] # s
      BY <1>2, <2>1, <2>2, <3>1
    <3>2. CASE live[v] = s /\ ~parks
      BY <1>2, <2>1, <2>2, <3>2
    <3>3. CASE live[v] = s /\ parks
      <4>1. v = t
        BY <2>2, <3>3
      <4> QED
        BY <1>6, <1>7, <2>1, <3>3, <4>1
    <3> QED
      BY <3>1, <3>2, <3>3
  <2> QED
    BY <1>4, <2>1, <2>2, <2>3
<1>8. Cardinality(Registered(live')) <= MaxActive
  <2>1. \A v \in Threads : live'[v] # NoSession => live[v] # NoSession
    BY <1>6
  <2>2. /\ Cardinality(Registered(live)) \in Nat /\ Cardinality(Registered(live')) \in Nat
        /\ Cardinality(Registered(live')) <= Cardinality(Registered(live))
    BY <2>1, FewerRegistered
  <2>3. Cardinality(Registered(live)) <= MaxActive
    BY DEF Agree
  <2> QED
    BY <1>1, <2>2, <2>3
<1>9. Agree(session', live')
  BY <1>5, <1>7, <1>8 DEF Agree, Immediate
<1>10. ASSUME NEW v \in Threads, live[v] # NoSession, session[live[v]].inFlight,
              live[v] = s => y.inFlight
       PROVE  live'[v] # NoSession /\ session'[live'[v]].inFlight
  <2>1. live[v] \in Sessions /\ ss[live[v]].inFlight
    BY <1>2, <1>10 DEF Registry
  <2>2. ~Stops(live[v])
    BY <2>1
  <2>3. live'[v] = live[v] /\ session'[live[v]] = ss[live[v]]
    BY <1>3, <2>1, <2>2
  <2> QED
    BY <1>10, <2>1, <2>3
<1> QED
  BY <1>3, <1>6, <1>9, <1>10

\* A session whose stream ends is registered no longer.
LEMMA GoneAgrees ==
  ASSUME TypeOK, Agree(session, live), NEW s \in Sessions, NEW z \in SessionType,
         session[s].st = "open", z.st # "open", ~z.timer, z.owes = 0, z.errored => ~z.inFlight,
         ~grace /\ z.asks > 0 => RanOut(z),
         session' = [session EXCEPT ![s] = z], live' \in Registry,
         \A v \in Threads : live'[v] = IF live[v] = s THEN NoSession ELSE live[v]
  PROVE  /\ session' \in Table /\ Agree(session', live')
         /\ \A v \in Threads : live'[v] # NoSession =>
              live'[v] = live[v] /\ session'[live'[v]] = session[live[v]]
<1>1. NoThread \notin Threads /\ NoSession \notin Sessions /\ MaxActive \in Nat
  BY ConfigAssumption
<1>2. /\ session \in Table /\ live \in Registry /\ session' \in Table /\ session'[s] = z
      /\ \A u \in Sessions : u # s => session'[u] = session[u]
  BY DEF TypeOK, Table, Registry
<1>3. \A v \in Threads : live'[v] # NoSession =>
        live'[v] = live[v] /\ live[v] \in Sessions /\ session'[live'[v]] = session[live[v]]
  <2> SUFFICES ASSUME NEW v \in Threads, live'[v] # NoSession
               PROVE  live'[v] = live[v] /\ live[v] \in Sessions /\ session'[live'[v]] = session[live[v]]
    OBVIOUS
  <2>1. live'[v] = live[v] /\ live[v] # s
    OBVIOUS
  <2>2. live[v] \in Sessions
    BY <1>2, <2>1 DEF Registry
  <2> QED
    BY <1>2, <2>1, <2>2
<1>4. ASSUME NEW u \in Sessions
      PROVE  /\ Sane(session'[u])
             /\ session'[u].st = "open" /\ ~session'[u].aborted => live'[session'[u].of] = u
             /\ ~grace => /\ session'[u].owes <= 1
                          /\ session'[u].asks > 0 => RanOut(session'[u]) \/ (session'[u].st = "open" /\ live'[session'[u].of] = u)
  <2>1. CASE u = s
    BY <1>2, <2>1 DEF Sane
  <2>2. CASE u # s
    <3>1. session'[u] = session[u] /\ Sane(session[u])
      BY <1>2, <2>2 DEF Agree
    <3>2. session[u].st = "open" /\ live[session[u].of] = u => live'[session[u].of] = u
      BY <2>2, <3>1 DEF Sane
    <3> QED
      BY <3>1, <3>2 DEF Agree, Immediate
  <2> QED
    BY <2>1, <2>2
<1>5. ASSUME NEW v \in Threads, live'[v] # NoSession
      PROVE  /\ session'[live'[v]].st = "open" /\ ~session'[live'[v]].aborted
             /\ session'[live'[v]].of = v /\ (~grace => session'[live'[v]].inFlight)
  BY <1>1, <1>3, <1>5 DEF Agree, Immediate
<1>6. Cardinality(Registered(live')) <= MaxActive
  <2>1. \A v \in Threads : live'[v] # NoSession => live[v] # NoSession
    BY <1>3
  <2>2. /\ Cardinality(Registered(live)) \in Nat /\ Cardinality(Registered(live')) \in Nat
        /\ Cardinality(Registered(live')) <= Cardinality(Registered(live))
    BY <2>1, FewerRegistered
  <2>3. Cardinality(Registered(live)) <= MaxActive
    BY DEF Agree
  <2> QED
    BY <1>1, <2>2, <2>3
<1> QED
  BY <1>2, <1>3, <1>4, <1>5, <1>6 DEF Agree, Immediate

\* Decisions on what waits leave everything else alone.
LEMMA DecisionsAgree ==
  ASSUME TypeOK, Agree(session, live), session' \in Table, live' = live,
         \A u \in Sessions :
           \/ session'[u] = session[u]
           \/ session[u].st = "over" /\ session'[u] = Blank
           \/ /\ session'[u].st = session[u].st /\ session'[u].of = session[u].of
              /\ session'[u].aborted = session[u].aborted /\ session'[u].timer = session[u].timer
              /\ session'[u].errored = session[u].errored
              /\ session'[u].inFlight = session[u].inFlight /\ session'[u].owes = session[u].owes
              /\ session'[u].asks > 0 => session[u].asks > 0
  PROVE  /\ Agree(session', live')
         /\ \A v \in Threads : live[v] # NoSession =>
              (session'[live[v]].inFlight <=> session[live[v]].inFlight)
<1>1. ASSUME NEW u \in Sessions
      PROVE  /\ Sane(session'[u])
             /\ session'[u].st = "open" /\ ~session'[u].aborted => live'[session'[u].of] = u
             /\ ~grace => /\ session'[u].owes <= 1
                          /\ session'[u].asks > 0 => RanOut(session'[u]) \/ (session'[u].st = "open" /\ live'[session'[u].of] = u)
             /\ session[u].st = "open" =>
                  /\ session'[u].st = "open" /\ session'[u].of = session[u].of
                  /\ session'[u].aborted = session[u].aborted
                  /\ session'[u].inFlight = session[u].inFlight
  BY DEF Agree, Immediate, Sane, Blank, RanOut
<1>2. ASSUME NEW v \in Threads, live[v] # NoSession
      PROVE  live[v] \in Sessions /\ session[live[v]].st = "open"
  BY <1>2 DEF Agree, TypeOK
<1> QED
  BY <1>1, <1>2 DEF Agree, Immediate

\* The agreement after a step that leaves the setting alone.
LEMMA AgreePrimed ==
  ASSUME grace' = grace, Agree(session', live')
  PROVE  Agree(session, live)'
BY DEF Agree, Immediate

-----------------------------------------------------------------------------
(* The steps. *)

LEMMA InitHolds == Init => Inv
<1> SUFFICES ASSUME Init PROVE Inv
  OBVIOUS
<1>1. NoThread \notin Threads /\ MaxActive \in Nat /\ MaxAsks \in Nat /\ Graces \subseteq BOOLEAN
  BY ConfigAssumption
<1>2. Blank \in SessionType
  BY <1>1 DEF Blank, SessionType
<1>3. Unborn \in ThreadType /\ Unborn.status = "idle"
  BY DEF Unborn, Row, ThreadType, Statuses, Sources
<1>4. TypeOK
  BY <1>1, <1>2, <1>3 DEF Init, TypeOK
<1>5. Registered(live) = {}
  BY DEF Init, Registered
<1>6. Cardinality(Registered(live)) <= MaxActive
  BY <1>1, <1>5, FS_EmptySet
<1>7. Agree(session, live)
  BY <1>6 DEF Init, Agree, Immediate, Sane, Blank
<1>8. RowsServed
  BY <1>3 DEF Init, RowsServed
<1> QED
  BY <1>4, <1>7, <1>8 DEF Inv

\* No row comes or goes or begins to run.
RowsStill ==
  /\ thread' \in [Threads -> ThreadType]
  /\ \A v \in Threads :
       /\ thread'[v].there = thread[v].there /\ thread'[v].asked = thread[v].asked
       /\ thread'[v].status = "running" => thread[v].status = "running"

\* What a safe write of a status does to the rows.
LEMMA StatusWritten ==
  ASSUME TypeOK, NEW t \in Threads, NEW status \in Statuses \ {"running"}
  PROVE  /\ WithStatus(t, status) \in [Threads -> ThreadType]
         /\ \A v \in Threads :
              /\ WithStatus(t, status)[v].there = thread[v].there
              /\ WithStatus(t, status)[v].asked = thread[v].asked
              /\ WithStatus(t, status)[v].status = "running" => thread[v].status = "running"
         /\ Exists(t) => WithStatus(t, status)[t].status # "running"
BY DEF WithStatus, TypeOK, ThreadType, Exists

\* A session's event or its timer: one session changes, and its thread may be parked.
LEMMA ChildKeeps ==
  ASSUME Inv, NEW s \in Sessions, NEW t \in Threads,
         NEW y \in SessionType, NEW parks \in BOOLEAN, NEW ss \in Table,
         ChildStep(s, t, y, parks, ss),
         RowsStill,
         Exists(t) /\ session[s].inFlight /\ ~y.inFlight => thread'[t].status # "running",
         UNCHANGED world
  PROVE  Inv'
<1>1. TypeOK /\ Agree(session, live) /\ RowsServed
  BY DEF Inv
<1>2. /\ grace' = grace /\ left' = left /\ signedIn' = signedIn /\ messages' = messages
      /\ outages' = outages
  BY DEF world, counters
<1>3. /\ session' \in Table /\ live' \in Registry /\ Agree(session', live')
      /\ \A v \in Threads : live'[v] # NoSession => live'[v] = live[v]
      /\ \A v \in Threads : live[v] # NoSession /\ session[live[v]].inFlight
              /\ (live[v] = s => y.inFlight) =>
              live'[v] # NoSession /\ session'[live'[v]].inFlight
  BY <1>1, ChildAgrees
<1>4. TypeOK'
  BY <1>1, <1>2, <1>3 DEF TypeOK, Table, Registry, RowsStill
<1>5. RowsServed'
  <2> SUFFICES ASSUME NEW v \in Threads
               PROVE  /\ live'[v] # NoSession => Exists(v)'
                      /\ thread'[v].status = "running" => thread'[v].asked
                      /\ v \notin left' /\ Exists(v)' /\ thread'[v].status = "running" =>
                           live'[v] # NoSession /\ session'[live'[v]].inFlight
    BY DEF RowsServed
  <2>1. /\ Exists(v)' <=> Exists(v)
        /\ thread'[v].asked = thread[v].asked
        /\ thread'[v].status = "running" => thread[v].status = "running"
    BY DEF Exists, RowsStill
  <2>2. ASSUME v \notin left, Exists(v), thread'[v].status = "running"
        PROVE  live'[v] # NoSession /\ session'[live'[v]].inFlight
    <3>1. live[v] # NoSession /\ session[live[v]].inFlight
      BY <1>1, <2>1, <2>2 DEF RowsServed
    <3>2. live[v] = s => v = t
      BY <1>1, <3>1 DEF Agree, ChildStep
    <3>3. live[v] = s => y.inFlight
      BY <2>2, <3>1, <3>2
    <3> QED
      BY <1>3, <3>1, <3>3
  <2>3. live'[v] # NoSession => live[v] # NoSession
    BY <1>3
  <2> QED
    BY <1>1, <1>2, <2>1, <2>2, <2>3 DEF RowsServed
<1> QED
  BY <1>2, <1>3, <1>4, <1>5, AgreePrimed DEF Inv

\* An event that ends or fails the turn of a session, and its release.
LEMMA ReleaseKeeps ==
  ASSUME Inv, NEW s \in Sessions, NEW t, t = session[s].of, NEW x \in SessionType,
         session[s].st = "open", Sane(x), ~x.inFlight,
         x.st = "open", x.of = t, x.aborted = session[s].aborted, x.owes <= session[s].owes,
         x.asks = session[s].asks,
         NEW ss, ss = [session EXCEPT ![s] = x],
         session' = Released(s, ss), live' = LiveReleased(s, ss),
         RowsStill,
         Exists(t) /\ session[s].inFlight => thread'[t].status # "running",
         UNCHANGED world
  PROVE  Inv'
<1>1. TypeOK /\ Agree(session, live) /\ session \in Table /\ t \in Threads
  BY DEF Inv, Agree, Sane, TypeOK, Table
<1>2. ss \in Table /\ ss[s] = x /\ x.asks \in Nat /\ session[s].asks \in Nat
  BY <1>1, ConfigAssumption DEF Table, SessionType
<1>3. CASE grace
  <2> DEFINE y == [x EXCEPT !.timer = TRUE]
             zz == [session EXCEPT ![s] = y]
  <2>1. y \in SessionType /\ zz \in Table
    BY <1>1, RecordsTyped DEF Table
  <2>2. /\ y.st = x.st /\ y.of = x.of /\ y.aborted = x.aborted /\ y.owes = x.owes
        /\ y.asks = x.asks /\ y.inFlight = x.inFlight /\ y.errored = x.errored
    BY DEF SessionType
  <2>3. Sane(y)
    BY <2>2 DEF Sane
  <2>4. session' = zz /\ live' = live
    BY <1>1, <1>2, <1>3 DEF Released, LiveReleased, Table
  <2>5. ChildStep(s, t, y, FALSE, zz)
    BY <1>2, <1>3, <2>2, <2>3, <2>4 DEF ChildStep
  <2> HIDE DEF y, zz
  <2> QED
    BY <1>1, <2>1, <2>5, ChildKeeps
<1>4. CASE ~grace
  <2>1. session' = Parked(t, ss) /\ live' = LiveParked(t, ss)
    BY <1>2, <1>4 DEF Released, LiveReleased
  <2>2. ChildStep(s, t, x, TRUE, ss)
    BY <1>2, <1>4, <2>1 DEF ChildStep
  <2> QED
    BY <1>1, <1>2, <2>2, ChildKeeps
<1> QED
  BY <1>3, <1>4

LEMMA TurnEndsKeep ==
  ASSUME Inv, NEW s \in Sessions, TurnDone(s) \/ TurnFails(s)
  PROVE  Inv'
<1> DEFINE t == session[s].of
           x == TurnOver(session[s])
           ss == [session EXCEPT ![s] = TurnOver(@)]
<1>1. /\ TypeOK /\ Sane(session[s]) /\ session[s] \in SessionType
      /\ session[s].st = "open" /\ session[s].owes > 0 /\ t \in Threads
  BY DEF Inv, Agree, Sane, TypeOK, TurnDone, TurnFails, Pumped
<1>2. x \in SessionType
  BY <1>1, RecordsTyped
<1>3. /\ x.st = "open" /\ x.of = t /\ x.aborted = session[s].aborted /\ x.owes <= session[s].owes
      /\ x.asks = session[s].asks /\ ~x.inFlight /\ ~x.errored /\ x.timer = session[s].timer
  BY <1>1 DEF TurnOver, SessionType
<1>4. Sane(x)
  BY <1>1, <1>3 DEF Sane
<1>5. ss = [session EXCEPT ![s] = x]
  BY <1>1
<1>6. session' = Released(s, ss) /\ live' = LiveReleased(s, ss) /\ UNCHANGED world
  BY DEF TurnDone, TurnFails
<1>7. \/ thread' = thread /\ ~session[s].inFlight
      \/ thread' = WithStatus(t, "idle") \/ thread' = WithStatus(t, "error")
  BY <1>1 DEF TurnDone, TurnFails, Sane
<1>8. RowsStill /\ (Exists(t) /\ session[s].inFlight => thread'[t].status # "running")
  <2>1. CASE thread' = thread /\ ~session[s].inFlight
    BY <1>1, <2>1 DEF TypeOK, RowsStill
  <2>2. ASSUME NEW status \in {"idle", "error"}, thread' = WithStatus(t, status)
        PROVE  RowsStill /\ (Exists(t) => thread'[t].status # "running")
    BY <1>1, <2>2, StatusWritten DEF Statuses, RowsStill
  <2> QED
    BY <1>7, <2>1, <2>2
<1> HIDE DEF t, x, ss
<1> QED
  BY <1>1, <1>2, <1>3, <1>4, <1>5, <1>6, <1>8, ReleaseKeeps DEF t

LEMMA ErrorKeeps ==
  ASSUME Inv, NEW s \in Sessions, TurnReportsError(s)
  PROVE  Inv'
<1> DEFINE t == session[s].of
           x == Errored(session[s])
           ss == [session EXCEPT ![s] = Errored(@)]
<1>1. /\ TypeOK /\ Sane(session[s]) /\ session[s] \in SessionType
      /\ session[s].st = "open" /\ t \in Threads
  BY DEF Inv, Agree, Sane, TypeOK, TurnReportsError, Pumped
<1>2. x \in SessionType
  BY <1>1, RecordsTyped
<1>3. /\ x.st = "open" /\ x.of = t /\ x.aborted = session[s].aborted /\ x.owes = session[s].owes
      /\ x.asks = session[s].asks /\ ~x.inFlight /\ x.timer = session[s].timer
      /\ x.owes \in Nat
  BY <1>1 DEF Errored, SessionType
<1>4. Sane(x) /\ x.owes <= session[s].owes
  BY <1>1, <1>3 DEF Sane
<1>5. ss = [session EXCEPT ![s] = x]
  BY <1>1
<1>6. session' = Released(s, ss) /\ live' = LiveReleased(s, ss) /\ UNCHANGED world
  BY DEF TurnReportsError
<1>7. RowsStill /\ (Exists(t) => thread'[t].status # "running")
  <2>1. thread' = WithStatus(t, "error")
    BY DEF TurnReportsError
  <2> QED
    BY <1>1, <2>1, StatusWritten DEF Statuses, RowsStill
<1> HIDE DEF t, x, ss
<1> QED
  BY <1>1, <1>2, <1>3, <1>4, <1>5, <1>6, <1>7, ReleaseKeeps DEF t

\* A session whose stream ends, however it does.
LEMMA GoneKeeps ==
  ASSUME Inv, NEW s \in Sessions, NEW z \in SessionType, NEW t, t = session[s].of,
         session[s].st = "open", z.st # "open", ~z.timer, z.owes = 0, z.errored => ~z.inFlight,
         ~grace /\ z.asks > 0 => RanOut(z),
         session' = [session EXCEPT ![s] = z],
         live' = IF live[t] = s THEN [live EXCEPT ![t] = NoSession] ELSE live,
         RowsStill, left \subseteq left', left' \subseteq Threads,
         live[t] = s /\ Exists(t) => t \in left' \/ thread'[t].status # "running",
         UNCHANGED <<grace, signedIn, counters>>
  PROVE  Inv'
<1>1. TypeOK /\ Agree(session, live) /\ RowsServed /\ t \in Threads /\ live \in Registry
  BY DEF Inv, Agree, Sane, TypeOK, Registry
<1>2. NoSession \notin Sessions
  BY ConfigAssumption
<1>3. /\ grace' = grace /\ signedIn' = signedIn /\ messages' = messages /\ outages' = outages
  BY DEF counters
<1>4. \A v \in Threads : live[v] = s => v = t
  BY <1>1, <1>2 DEF Agree
<1>5. live' \in Registry /\ \A v \in Threads : live'[v] = IF live[v] = s THEN NoSession ELSE live[v]
  BY <1>1, <1>4 DEF Registry
<1>6. /\ session' \in Table /\ Agree(session', live')
      /\ \A v \in Threads : live'[v] # NoSession =>
              live'[v] = live[v] /\ session'[live'[v]] = session[live[v]]
  BY <1>1, <1>5, GoneAgrees
<1>7. TypeOK'
  BY <1>1, <1>3, <1>5, <1>6 DEF TypeOK, Table, Registry, RowsStill
<1>8. RowsServed'
  <2> SUFFICES ASSUME NEW v \in Threads
               PROVE  /\ live'[v] # NoSession => Exists(v)'
                      /\ thread'[v].status = "running" => thread'[v].asked
                      /\ v \notin left' /\ Exists(v)' /\ thread'[v].status = "running" =>
                           live'[v] # NoSession /\ session'[live'[v]].inFlight
    BY DEF RowsServed
  <2>1. /\ Exists(v)' <=> Exists(v)
        /\ thread'[v].asked = thread[v].asked
        /\ thread'[v].status = "running" => thread[v].status = "running"
    BY DEF Exists, RowsStill
  <2>2. CASE live[v] = s
    BY <1>1, <1>4, <1>5, <2>1, <2>2 DEF RowsServed
  <2>3. CASE live[v] # s
    <3>1. live'[v] = live[v]
      BY <1>5, <2>3
    <3> QED
      BY <1>1, <1>3, <1>6, <2>1, <3>1 DEF RowsServed
  <2> QED
    BY <2>2, <2>3
<1> QED
  BY <1>3, <1>6, <1>7, <1>8, AgreePrimed DEF Inv

\* What is left of a session whose stream is over.
LEMMA GoneFields ==
  ASSUME NEW x \in SessionType, x.errored => ~x.inFlight
  PROVE  /\ Gone(x) \in SessionType /\ Gone(x).st # "open" /\ ~Gone(x).timer /\ Gone(x).owes = 0
         /\ Gone(x).errored => ~Gone(x).inFlight
         /\ Gone(x).asks = x.asks
         /\ Gone(x).asks > 0 /\ ~x.aborted => RanOut(Gone(x))
<1> DEFINE y == [x EXCEPT !.st = "over", !.timer = FALSE, !.owes = 0]
<1>1. /\ y.st = "over" /\ ~y.timer /\ y.owes = 0 /\ y.asks = x.asks
      /\ y.aborted = x.aborted /\ y.errored = x.errored /\ y.inFlight = x.inFlight
  BY DEF SessionType
<1>2. Gone(x) = y \/ Gone(x) = Blank
  BY DEF Gone, Kept
<1>6. Gone(x) = Blank => x.asks = 0
  BY <1>1 DEF Gone, Kept, Blank
<1>3. Gone(x) \in SessionType
  BY RecordsTyped
<1>4. CASE Gone(x) = y
  BY <1>1, <1>3, <1>4 DEF RanOut
<1>5. CASE Gone(x) = Blank
  BY <1>3, <1>5, <1>6 DEF Blank
<1> QED
  BY <1>2, <1>4, <1>5

LEMMA StreamEndKeeps ==
  ASSUME Inv, NEW s \in Sessions, StreamEnds(s)
  PROVE  Inv'
<1> DEFINE t == session[s].of
           z == Gone(session[s])
<1>1. /\ TypeOK /\ Agree(session, live) /\ Sane(session[s]) /\ session[s] \in SessionType
      /\ session[s].st = "open" /\ t \in Threads /\ session[s].aborted
  BY DEF Inv, Agree, Sane, TypeOK, StreamEnds
<1>2. live[t] # s
  BY <1>1, ConfigAssumption DEF Agree
<1>3. session[s].asks \in Nat /\ (~grace => session[s].asks = 0)
  BY <1>1, <1>2, ConfigAssumption DEF Agree, Immediate, SessionType, RanOut
<1>4. /\ z \in SessionType /\ z.st # "open" /\ ~z.timer /\ z.owes = 0
      /\ z.errored => ~z.inFlight
      /\ z.asks = session[s].asks
  BY <1>1, GoneFields DEF Sane
<1>5. /\ session' = [session EXCEPT ![s] = z]
      /\ live' = live /\ thread' = thread /\ left' = left
      /\ UNCHANGED <<grace, signedIn, counters>>
  BY <1>1, <1>2 DEF StreamEnds, TornDown, world
<1>6. RowsStill /\ left \subseteq left' /\ left' \subseteq Threads
  BY <1>1, <1>5 DEF RowsStill, TypeOK
<1>7. ~grace => ~(z.asks > 0)
  BY <1>3, <1>4
<1> HIDE DEF z, t
<1> QED
  BY <1>1, <1>2, <1>4, <1>5, <1>6, <1>7, GoneKeeps DEF t

LEMMA StreamRunsOutKeeps ==
  ASSUME Inv, NEW s \in Sessions, StreamRunsOut(s)
  PROVE  Inv'
<1> DEFINE t == session[s].of
           z == Gone(session[s])
<1>1. /\ TypeOK /\ Agree(session, live) /\ Sane(session[s]) /\ session[s] \in SessionType
      /\ session[s].st = "open" /\ t \in Threads /\ ~session[s].aborted
  BY DEF Inv, Agree, Sane, TypeOK, StreamRunsOut
<1>2. /\ z \in SessionType /\ z.st # "open" /\ ~z.timer /\ z.owes = 0
      /\ z.errored => ~z.inFlight
      /\ z.asks > 0 => RanOut(z)
  BY <1>1, GoneFields DEF Sane
<1>3. /\ session' = [session EXCEPT ![s] = z]
      /\ live' = IF live[t] = s THEN [live EXCEPT ![t] = NoSession] ELSE live
      /\ thread' = thread /\ UNCHANGED <<grace, signedIn, counters>>
  BY <1>1 DEF StreamRunsOut, TornDown
<1>4. left' = left \cup {v \in {t} : thread[v].status = "running"}
  BY DEF StreamRunsOut
<1>5. RowsStill
  BY <1>1, <1>3 DEF RowsStill, TypeOK
<1>6. /\ left \subseteq left' /\ left' \subseteq Threads
      /\ t \in left' \/ thread'[t].status # "running"
  BY <1>1, <1>3, <1>4 DEF TypeOK
<1> HIDE DEF z, t
<1> QED
  BY <1>1, <1>2, <1>3, <1>5, <1>6, GoneKeeps DEF t

LEMMA DeathKeeps ==
  ASSUME Inv, NEW s \in Sessions, SessionDies(s)
  PROVE  Inv'
<1> DEFINE t == session[s].of
           x == Errored(session[s])
           ss == [session EXCEPT ![s] = Errored(@)]
           z == Gone(Released(s, ss)[s])
<1>1. /\ TypeOK /\ Agree(session, live) /\ Sane(session[s]) /\ session[s] \in SessionType
      /\ session[s].st = "open" /\ t \in Threads /\ ~session[s].aborted
      /\ session \in Table /\ live \in Registry /\ NoSession \notin Sessions
  BY ConfigAssumption DEF Inv, Agree, Sane, TypeOK, SessionDies, Table, Registry
<1>2. live[t] = s
  BY <1>1 DEF Agree
<1>3. x \in SessionType /\ ss \in Table /\ ss[s] = x
      /\ \A u \in Sessions : u # s => ss[u] = session[u]
  BY <1>1, RecordsTyped DEF Table
<1>4. x.of = t /\ ~x.inFlight
  BY <1>1 DEF Errored, SessionType
<1>5. /\ Released(s, ss) \in Table
      /\ \A u \in Sessions : u # s => Released(s, ss)[u] = session[u]
      /\ ~Released(s, ss)[s].inFlight
      /\ ~grace => Released(s, ss)[s].asks = 0
      /\ live' = [live EXCEPT ![t] = NoSession]
  <2>1. live' = TornDown(s, LiveReleased(s, ss))
    BY DEF SessionDies
  <2>2. CASE grace
    <3>1. Released(s, ss) = [ss EXCEPT ![s] = [x EXCEPT !.timer = TRUE]]
      BY <1>3, <2>2 DEF Released, Table
    <3>2. [x EXCEPT !.timer = TRUE] \in SessionType /\ ~[x EXCEPT !.timer = TRUE].inFlight
      BY <1>3, <1>4, RecordsTyped DEF SessionType
    <3>3. live' = [live EXCEPT ![t] = NoSession]
      BY <1>2, <2>1, <2>2 DEF LiveReleased, TornDown
    <3> QED
      BY <1>3, <2>2, <3>1, <3>2, <3>3 DEF Table
  <2>3. CASE ~grace
    <3>1. Released(s, ss) = Parked(t, ss) /\ LiveReleased(s, ss) = LiveParked(t, ss)
      BY <1>3, <1>4, <2>3 DEF Released, LiveReleased
    <3>2. /\ Parked(t, ss) \in Table
          /\ \A u \in Sessions : Parked(t, ss)[u]
               = IF live[t] = u /\ ~ss[u].inFlight THEN Aborted(ss[u]) ELSE ss[u]
      BY <1>1, <1>3, ParkedAt
    <3>3. LiveParked(t, ss) = [live EXCEPT ![t] = NoSession]
      BY <1>1, <1>2, <1>3, <1>4 DEF LiveParked, Parks
    <3>4. live' = [live EXCEPT ![t] = NoSession]
      BY <1>1, <2>1, <3>1, <3>3 DEF TornDown, Registry
    <3>5. Parked(t, ss)[s] = Aborted(x)
      BY <1>2, <1>3, <1>4, <3>2
    <3>6. ~Aborted(x).inFlight /\ Aborted(x).asks = 0
      BY <1>3, <1>4, AbortedKeeps
    <3> QED
      BY <1>2, <1>3, <3>1, <3>2, <3>4, <3>5, <3>6
  <2> QED
    BY <2>2, <2>3
<1>6. /\ z \in SessionType /\ z.st # "open" /\ ~z.timer /\ z.owes = 0
      /\ z.errored => ~z.inFlight
      /\ ~grace => ~(z.asks > 0)
  <2>1. Released(s, ss)[s] \in SessionType
    BY <1>5 DEF Table
  <2> QED
    BY <1>5, <2>1, GoneFields
<1>7. session' = [session EXCEPT ![s] = z]
  <2>1. session' = [Released(s, ss) EXCEPT ![s] = z]
    BY <1>5 DEF SessionDies, Table
  <2> HIDE DEF z, ss
  <2> QED
    BY <1>1, <1>5, <2>1 DEF Table
<1>8. /\ RowsStill /\ (Exists(t) => thread'[t].status # "running")
      /\ left \subseteq left' /\ left' \subseteq Threads
      /\ UNCHANGED <<grace, signedIn, counters>>
  <2>1. /\ thread' = WithStatus(t, "error") /\ left' = left
        /\ UNCHANGED <<grace, signedIn, counters>>
    BY DEF SessionDies, world
  <2>2. left \subseteq Threads
    BY <1>1 DEF TypeOK
  <2> QED
    BY <1>1, <2>1, <2>2, StatusWritten DEF Statuses, RowsStill
<1> HIDE DEF z, t, ss, x
<1> QED
  BY <1>1, <1>2, <1>5, <1>6, <1>7, <1>8, GoneKeeps DEF t

LEMMA TimerKeeps ==
  ASSUME Inv, NEW s \in Sessions, TimerFires(s)
  PROVE  Inv'
<1> DEFINE t == session[s].of
           y == [session[s] EXCEPT !.timer = FALSE]
           ss == [session EXCEPT ![s].timer = FALSE]
<1>1. /\ TypeOK /\ Agree(session, live) /\ Sane(session[s]) /\ session[s] \in SessionType
      /\ session[s].st = "open" /\ t \in Threads /\ session \in Table
  BY DEF Inv, Agree, Sane, TypeOK, TimerFires, Table
<1>2. y \in SessionType /\ ss \in Table /\ ss = [session EXCEPT ![s] = y]
  BY <1>1, RecordsTyped DEF Table
<1>3. /\ y.st = "open" /\ y.of = t /\ y.aborted = session[s].aborted /\ y.owes = session[s].owes
      /\ y.asks = session[s].asks /\ y.inFlight = session[s].inFlight
      /\ y.errored = session[s].errored /\ ~y.timer /\ y.owes \in Nat
  BY <1>1 DEF SessionType
<1>4. Sane(y) /\ y.owes <= session[s].owes
  BY <1>1, <1>3 DEF Sane
<1>5. session' = Parked(t, ss) /\ live' = LiveParked(t, ss) /\ thread' = thread /\ UNCHANGED world
  BY DEF TimerFires
<1>6. ChildStep(s, t, y, TRUE, ss)
  BY <1>1, <1>2, <1>3, <1>4, <1>5 DEF ChildStep
<1>7. RowsStill
  BY <1>1, <1>5 DEF RowsStill, TypeOK
<1> HIDE DEF y, t, ss
<1> QED
  BY <1>1, <1>2, <1>3, <1>5, <1>6, <1>7, ChildKeeps

LEMMA PermissionKeeps ==
  ASSUME Inv, NEW s \in Sessions, handlePermission(s)
  PROVE  Inv'
<1> DEFINE t == session[s].of
           y == awaitDecision(session[s])
           ss == [session EXCEPT ![s] = awaitDecision(@)]
<1>1. /\ TypeOK /\ Agree(session, live) /\ Sane(session[s]) /\ session[s] \in SessionType
      /\ session[s].st = "open" /\ t \in Threads /\ session \in Table
      /\ session[s].asks < MaxAsks
  BY DEF Inv, Agree, Sane, TypeOK, handlePermission, Table
<1>2. y \in SessionType /\ ss \in Table /\ ss = [session EXCEPT ![s] = y]
  BY <1>1, RecordsTyped DEF Table
<1>3. /\ y.st = "open" /\ y.of = t /\ y.aborted = session[s].aborted /\ y.owes = session[s].owes
      /\ y.inFlight = session[s].inFlight /\ y.owes \in Nat
      /\ y.errored = session[s].errored /\ y.timer = session[s].timer
      /\ y.asks = session[s].asks \/ ~session[s].aborted
  BY <1>1 DEF SessionType, awaitDecision
<1>4. Sane(y) /\ y.owes <= session[s].owes
  BY <1>1, <1>3 DEF Sane
<1>5. session' = ss /\ live' = live /\ thread' = thread /\ UNCHANGED world
  BY DEF handlePermission
<1>6. ChildStep(s, t, y, FALSE, ss)
  BY <1>1, <1>2, <1>3, <1>4, <1>5 DEF ChildStep
<1>7. RowsStill
  BY <1>1, <1>5 DEF RowsStill, TypeOK
<1> HIDE DEF y, t, ss
<1> QED
  BY <1>1, <1>2, <1>3, <1>5, <1>6, <1>7, ChildKeeps

\* What a decision makes of a session.
LEMMA SettledFields ==
  ASSUME NEW x \in SessionType, NEW y, y = Settled(x) \/ (x.asks > 0 /\ y = Answered(x))
  PROVE  /\ y \in SessionType
         /\ \/ x.st = "over" /\ y = Blank
            \/ /\ y.st = x.st /\ y.of = x.of /\ y.aborted = x.aborted /\ y.timer = x.timer
               /\ y.errored = x.errored /\ y.inFlight = x.inFlight /\ y.owes = x.owes
               /\ y.asks > 0 => x.asks > 0
<1>1. y \in SessionType
  BY RecordsTyped
<1>2. PICK n \in {0, x.asks - 1} : y = Kept([x EXCEPT !.asks = n]) /\ (n > 0 => x.asks > 0)
  BY DEF Settled, Answered, SessionType
<1> DEFINE w == [x EXCEPT !.asks = n]
<1>3. /\ w.st = x.st /\ w.of = x.of /\ w.aborted = x.aborted /\ w.timer = x.timer
      /\ w.errored = x.errored /\ w.inFlight = x.inFlight /\ w.owes = x.owes /\ w.asks = n
  BY DEF SessionType
<1>4. y = w \/ (x.st = "over" /\ y = Blank)
  BY <1>2, <1>3 DEF Kept
<1> HIDE DEF w
<1> QED
  BY <1>1, <1>2, <1>3, <1>4

LEMMA DecisionKeeps ==
  ASSUME Inv, (\E s \in Sessions : settlePermission(s)) \/ (\E t \in Threads : stop(t))
  PROVE  Inv'
<1>1. TypeOK /\ Agree(session, live) /\ RowsServed /\ session \in Table
  BY DEF Inv, TypeOK, Table
<1>2. live' = live /\ thread' = thread /\ UNCHANGED world
  BY DEF settlePermission, stop
<1>3. /\ DOMAIN session' = Sessions /\ session' = [u \in Sessions |-> session'[u]]
      /\ \A u \in Sessions :
           \/ session'[u] = session[u]
           \/ session'[u] = Settled(session[u])
           \/ session[u].asks > 0 /\ session'[u] = Answered(session[u])
  <2>1. CASE \E s \in Sessions : settlePermission(s)
    BY <1>1, <2>1 DEF settlePermission, Pending, Table
  <2>2. CASE \E t \in Threads : stop(t)
    BY <1>1, <2>2 DEF stop, Table
  <2> QED
    BY <2>1, <2>2
<1>4. ASSUME NEW u \in Sessions
      PROVE  /\ session'[u] \in SessionType
             /\ \/ session'[u] = session[u]
                \/ session[u].st = "over" /\ session'[u] = Blank
                \/ /\ session'[u].st = session[u].st /\ session'[u].of = session[u].of
                   /\ session'[u].aborted = session[u].aborted
                   /\ session'[u].timer = session[u].timer
                   /\ session'[u].errored = session[u].errored
                   /\ session'[u].inFlight = session[u].inFlight
                   /\ session'[u].owes = session[u].owes
                   /\ session'[u].asks > 0 => session[u].asks > 0
  <2>1. session[u] \in SessionType
    BY <1>1 DEF Table
  <2>2. CASE session'[u] = session[u]
    BY <2>1, <2>2
  <2>3. CASE session'[u] = Settled(session[u])
                \/ (session[u].asks > 0 /\ session'[u] = Answered(session[u]))
    BY <2>1, <2>3, SettledFields
  <2> QED
    BY <1>3, <2>2, <2>3
<1>5. session' \in Table
  BY <1>3, <1>4 DEF Table
<1>6. /\ Agree(session', live')
      /\ \A v \in Threads : live[v] # NoSession =>
           (session'[live[v]].inFlight <=> session[live[v]].inFlight)
  BY <1>1, <1>2, <1>4, <1>5, DecisionsAgree
<1>7. TypeOK'
  BY <1>1, <1>2, <1>5 DEF TypeOK, Table, world, counters
<1>8. RowsServed'
  BY <1>1, <1>2, <1>6 DEF RowsServed, Exists, world
<1> QED
  BY <1>2, <1>6, <1>7, <1>8, AgreePrimed DEF Inv, world

LEMMA SendKeeps ==
  ASSUME Inv, NEW t \in Threads, sendMessage(t)
  PROVE  Inv'
<1>1. TypeOK /\ Agree(session, live) /\ RowsServed /\ session \in Table /\ live \in Registry
  BY DEF Inv, TypeOK, Table, Registry
<1>2. /\ Exists(t) /\ HasRoom(t, live) /\ Deliver(t, session, live)
      /\ grace' = grace /\ signedIn' = signedIn /\ outages' = outages
      /\ left' = left \ {t} /\ messages' = messages + 1
      /\ thread' = [thread EXCEPT ![t] = Prompted(@)]
  BY DEF sendMessage
<1>3. live[t] # NoSession => grace /\ ~session[live[t]].inFlight
  BY <1>1 DEF sendMessage, Busy, Agree, Immediate
<1>4. /\ session' \in Table /\ live' \in Registry /\ Agree(session', live')
      /\ live'[t] # NoSession /\ session'[live'[t]].inFlight
      /\ \A v \in Threads : v # t /\ live[v] # NoSession =>
           live'[v] = live[v] /\ session'[live'[v]] = session[live[v]]
      /\ \A v \in Threads : v # t => live'[v] = live[v]
  BY <1>1, <1>2, <1>3, DeliverAgrees
<1>5. /\ thread' \in [Threads -> ThreadType]
      /\ thread'[t].there = thread[t].there /\ thread'[t].asked
      /\ \A v \in Threads : v # t => thread'[v] = thread[v]
  BY <1>1, <1>2 DEF TypeOK, ThreadType, Prompted, Statuses
<1>6. TypeOK'
  BY <1>1, <1>2, <1>4, <1>5 DEF TypeOK, Table, Registry
<1>7. RowsServed'
  BY <1>1, <1>2, <1>4, <1>5 DEF RowsServed, Exists
<1> QED
  BY <1>2, <1>4, <1>6, <1>7, AgreePrimed DEF Inv

LEMMA RetryKeeps ==
  ASSUME Inv, NEW t \in Threads, retrySource(t)
  PROVE  Inv'
<1> DEFINE source == Other(thread[t].source)
           lv == [live EXCEPT ![t] = NoSession]
           ss == Detached({t})
           switched == [thread[t] EXCEPT !.source = source]
           resends == switched.asked /\ HasRoom(t, lv)
<1>1. /\ TypeOK /\ Agree(session, live) /\ RowsServed /\ session \in Table /\ live \in Registry
      /\ MaxActive \in Nat
  BY ConfigAssumption DEF Inv, TypeOK, Table, Registry
<1>2. /\ Exists(t) /\ grace' = grace /\ signedIn' = signedIn /\ outages' = outages
      /\ messages' = messages + 1
      /\ IF resends THEN Deliver(t, ss, lv) ELSE session' = ss /\ live' = lv
      /\ thread' = [thread EXCEPT ![t] = IF resends THEN Prompted(switched) ELSE switched]
      /\ left' = IF resends THEN left \ {t} ELSE left
  BY DEF retrySource
<1>3. /\ lv \in Registry /\ lv[t] = NoSession
      /\ \A v \in Threads : lv[v] = IF v \in {t} THEN NoSession ELSE live[v]
  BY <1>1 DEF Registry
<1>4. /\ ss \in Table /\ Agree(ss, lv)
      /\ \A v \in Threads : lv[v] # NoSession => ss[lv[v]] = session[lv[v]]
  <2>1. {t} \in SUBSET Threads
    OBVIOUS
  <2> HIDE DEF lv
  <2> QED
    BY <1>1, <1>3, <2>1, DetachAgrees
<1>5. source \in Sources
  BY DEF Other, Sources
<1>6. /\ switched \in ThreadType /\ switched.there = "there"
      /\ switched.asked = thread[t].asked /\ switched.status = thread[t].status
  BY <1>1, <1>2, <1>5 DEF TypeOK, ThreadType, Exists
<1> HIDE DEF lv, ss, switched, source
<1>7. CASE resends
  <2>1. Deliver(t, ss, lv) /\ HasRoom(t, lv)
    BY <1>2, <1>7
  <2>2. /\ session' \in Table /\ live' \in Registry /\ Agree(session', live')
        /\ live'[t] # NoSession /\ session'[live'[t]].inFlight
        /\ \A v \in Threads : v # t /\ lv[v] # NoSession =>
             live'[v] = lv[v] /\ session'[live'[v]] = ss[lv[v]]
        /\ \A v \in Threads : v # t => live'[v] = lv[v]
    BY <1>3, <1>4, <2>1, DeliverAgrees
  <2>3. \A v \in Threads : v # t /\ live[v] # NoSession =>
             live'[v] = live[v] /\ session'[live'[v]] = session[live[v]]
    BY <1>3, <1>4, <2>2
  <2>4. Prompted(switched) \in ThreadType /\ Prompted(switched).there = "there"
        /\ Prompted(switched).asked
    BY <1>6 DEF Prompted, ThreadType, Statuses
  <2>5. /\ thread' \in [Threads -> ThreadType] /\ thread'[t].there = "there" /\ thread'[t].asked
        /\ \A v \in Threads : v # t => thread'[v] = thread[v]
    BY <1>1, <1>2, <1>7, <2>4 DEF TypeOK
  <2>6. left' = left \ {t}
    BY <1>2, <1>7
  <2>7. TypeOK'
    BY <1>1, <1>2, <2>2, <2>5, <2>6 DEF TypeOK, Table, Registry
  <2>8. RowsServed'
    BY <1>1, <1>3, <2>2, <2>3, <2>5, <2>6 DEF RowsServed, Exists
  <2> QED
    BY <1>2, <2>2, <2>7, <2>8, AgreePrimed DEF Inv
<1>8. CASE ~resends
  <2>1. /\ session' = ss /\ live' = lv /\ left' = left
        /\ thread' = [thread EXCEPT ![t] = switched]
    BY <1>2, <1>8
  <2>2. /\ thread' \in [Threads -> ThreadType] /\ thread'[t] = switched
        /\ \A v \in Threads : v # t => thread'[v] = thread[v]
    BY <1>1, <1>6, <2>1 DEF TypeOK
  <2>3. TypeOK'
    BY <1>1, <1>2, <1>3, <1>4, <2>1, <2>2 DEF TypeOK, Table, Registry
  \* A turn in flight leaves room for its own retry.
  <2>4. thread[t].status = "running" => t \in left
    <3> SUFFICES ASSUME thread[t].status = "running", t \notin left PROVE FALSE
      OBVIOUS
    <3>1. thread[t].asked /\ live[t] # NoSession
      BY <1>1, <1>2 DEF RowsServed
    <3>2. \A v \in Threads : lv[v] # NoSession => live[v] # NoSession
      BY <1>3
    <3>3. /\ Cardinality(Registered(lv)) < Cardinality(Registered(live))
          /\ Cardinality(Registered(lv)) \in Nat /\ Cardinality(Registered(live)) \in Nat
      BY <1>3, <3>1, <3>2, FewerRegistered
    <3>4. Cardinality(Registered(live)) <= MaxActive
      BY <1>1 DEF Agree
    <3>5. HasRoom(t, lv)
      BY <1>1, <3>3, <3>4 DEF HasRoom
    <3> QED
      BY <1>6, <1>8, <3>1, <3>5
  <2>5. RowsServed'
    BY <1>1, <1>3, <1>4, <1>6, <2>1, <2>2, <2>4 DEF RowsServed, Exists
  <2> QED
    BY <1>2, <1>4, <2>1, <2>3, <2>5, AgreePrimed DEF Inv
<1> QED
  BY <1>7, <1>8

LEMMA RowStepsKeep ==
  ASSUME Inv, NEW t \in Threads, createThread(t) \/ Prune(t)
  PROVE  Inv'
<1>1. TypeOK /\ Agree(session, live) /\ RowsServed
  BY DEF Inv
<1>2. /\ live' = live /\ session' = session /\ grace' = grace /\ signedIn' = signedIn
      /\ left' = left /\ messages' = messages /\ outages' = outages
      /\ live[t] = NoSession
  BY <1>1 DEF createThread, Prune, world, counters, RowsServed, Exists
<1>3. /\ thread' \in [Threads -> ThreadType]
      /\ \A v \in Threads : v # t => thread'[v] = thread[v]
      /\ \/ /\ thread'[t].there = "gone" /\ thread'[t].status = thread[t].status
            /\ thread'[t].asked = thread[t].asked
         \/ thread'[t].status = "idle"
  <2>1. CASE createThread(t)
    <3>1. PICK source \in Sources : thread' = [thread EXCEPT ![t] = Row(source)]
      BY <2>1 DEF createThread
    <3>2. Row(source) \in ThreadType /\ Row(source).status = "idle"
      BY DEF Row, ThreadType, Statuses
    <3> QED
      BY <1>1, <3>1, <3>2 DEF TypeOK
  <2>2. CASE Prune(t)
    <3>1. thread[t] \in ThreadType /\ thread' = [thread EXCEPT ![t] = [thread[t] EXCEPT !.there = "gone"]]
      BY <1>1, <2>2 DEF Prune, TypeOK
    <3>2. /\ [thread[t] EXCEPT !.there = "gone"] \in ThreadType
          /\ [thread[t] EXCEPT !.there = "gone"].there = "gone"
          /\ [thread[t] EXCEPT !.there = "gone"].status = thread[t].status
          /\ [thread[t] EXCEPT !.there = "gone"].asked = thread[t].asked
      BY <3>1 DEF ThreadType
    <3> QED
      BY <1>1, <3>1, <3>2 DEF TypeOK
  <2> QED
    BY <2>1, <2>2
<1>4. TypeOK'
  BY <1>1, <1>2, <1>3 DEF TypeOK
<1>5. RowsServed'
  BY <1>1, <1>2, <1>3 DEF RowsServed, Exists
<1> QED
  BY <1>1, <1>2, <1>4, <1>5, AgreePrimed DEF Inv

LEMMA DeleteKeeps ==
  ASSUME Inv, NEW t \in Threads, deleteThread(t)
  PROVE  Inv'
<1>1. TypeOK /\ Agree(session, live) /\ RowsServed /\ live \in Registry
  BY DEF Inv, TypeOK, Registry
<1>2. /\ session' = Detached({t}) /\ live' = [live EXCEPT ![t] = NoSession]
      /\ thread' = [thread EXCEPT ![t].there = "gone"]
      /\ grace' = grace /\ signedIn' = signedIn /\ left' = left
      /\ messages' = messages /\ outages' = outages
  BY DEF deleteThread, world, counters
<1>3. /\ live' \in Registry
      /\ \A v \in Threads : live'[v] = IF v \in {t} THEN NoSession ELSE live[v]
  BY <1>1, <1>2 DEF Registry
<1>4. /\ session' \in Table /\ Agree(session', live')
      /\ \A v \in Threads : live'[v] # NoSession => session'[live'[v]] = session[live'[v]]
  <2>1. {t} \in SUBSET Threads
    OBVIOUS
  <2> QED
    BY <1>1, <1>2, <1>3, <2>1, DetachAgrees
<1>5. /\ thread' \in [Threads -> ThreadType]
      /\ \A v \in Threads : v # t => thread'[v] = thread[v]
      /\ thread'[t].there = "gone" /\ thread'[t].status = thread[t].status
      /\ thread'[t].asked = thread[t].asked
  BY <1>1, <1>2 DEF TypeOK, ThreadType
<1>6. TypeOK'
  BY <1>1, <1>2, <1>3, <1>4, <1>5 DEF TypeOK, Table, Registry
<1>7. RowsServed'
  <2> SUFFICES ASSUME NEW v \in Threads
               PROVE  /\ live'[v] # NoSession => Exists(v)'
                      /\ thread'[v].status = "running" => thread'[v].asked
                      /\ v \notin left' /\ Exists(v)' /\ thread'[v].status = "running" =>
                           live'[v] # NoSession /\ session'[live'[v]].inFlight
    BY DEF RowsServed
  <2>1. CASE v = t
    BY <1>1, <1>3, <1>5, <2>1 DEF RowsServed, Exists
  <2>2. CASE v # t
    <3>1. live'[v] = live[v] /\ thread'[v] = thread[v] /\ left' = left
      BY <1>2, <1>3, <1>5, <2>2
    <3>2. live[v] # NoSession => session'[live'[v]] = session[live[v]]
      BY <1>4, <3>1
    <3> QED
      BY <1>1, <3>1, <3>2 DEF RowsServed, Exists
  <2> QED
    BY <2>1, <2>2
<1> QED
  BY <1>2, <1>4, <1>6, <1>7, AgreePrimed DEF Inv

LEMMA SignOutKeeps ==
  ASSUME Inv, signOut
  PROVE  Inv'
<1>1. TypeOK /\ Agree(session, live) /\ RowsServed /\ live \in Registry
  BY DEF Inv, TypeOK, Registry
<1>2. /\ session' = Detached(Threads) /\ live' = [v \in Threads |-> NoSession]
      /\ thread' = thread /\ grace' = grace /\ signedIn' = FALSE
      /\ messages' = messages /\ outages' = outages + 1
      /\ left' = left \cup {v \in Registered(live) : thread[v].status = "running"}
  BY DEF signOut
<1>3. /\ live' \in Registry
      /\ \A v \in Threads : live'[v] = IF v \in Threads THEN NoSession ELSE live[v]
  BY <1>2 DEF Registry
<1>4. session' \in Table /\ Agree(session', live')
  <2>1. Threads \in SUBSET Threads
    OBVIOUS
  <2> QED
    BY <1>1, <1>2, <1>3, <2>1, DetachAgrees
<1>5. left' \subseteq Threads
  BY <1>1, <1>2 DEF TypeOK, Registered
<1>6. thread' \in [Threads -> ThreadType] /\ session' \in [Sessions -> SessionType]
  BY <1>1, <1>2, <1>4 DEF TypeOK, Table
<1>7. live' \in [Threads -> Sessions \cup {NoSession}]
  BY <1>3 DEF Registry
<1>8. messages' \in Nat /\ outages' \in Nat
  <2>1. messages \in Nat /\ outages \in Nat
    BY <1>1 DEF TypeOK
  <2>2. messages' = messages /\ outages' = outages + 1
    BY <1>2
  <2> QED
    BY <2>1, <2>2
<1>9. grace' \in BOOLEAN /\ signedIn' \in BOOLEAN
  <2>1. grace \in BOOLEAN
    BY <1>1 DEF TypeOK
  <2>2. grace' = grace /\ signedIn' = FALSE
    BY DEF signOut
  <2> QED
    BY <2>1, <2>2
<1>10. TypeOK'
  BY <1>5, <1>6, <1>7, <1>8, <1>9 DEF TypeOK
<1>11. RowsServed'
  BY <1>1, <1>2 DEF RowsServed, Exists, Registered
<1> QED
  BY <1>2, <1>4, <1>10, <1>11, AgreePrimed DEF Inv

LEMMA RebootKeeps ==
  ASSUME Inv, Reboot
  PROVE  Inv'
<1>1. TypeOK /\ Agree(session, live) /\ RowsServed /\ MaxActive \in Nat
      /\ NoThread \notin Threads
  BY ConfigAssumption DEF Inv
<1>2. /\ session' = [u \in Sessions |-> Blank] /\ live' = [v \in Threads |-> NoSession]
      /\ thread' = [v \in Threads |-> Reconciled(thread[v])]
      /\ grace' = grace /\ signedIn' = signedIn /\ left' = {}
      /\ messages' = messages /\ outages' = outages + 1
  BY DEF Reboot
<1>3. Blank \in SessionType
  BY ConfigAssumption DEF Blank, SessionType
<1>4. ASSUME NEW v \in Threads
      PROVE  /\ thread'[v] \in ThreadType /\ thread'[v].asked = thread[v].asked
             /\ thread'[v].there = thread[v].there
             /\ thread'[v].status = "running" => thread[v].status = "running" /\ ~Exists(v)
  <2>1. thread[v] \in ThreadType /\ thread'[v] = Reconciled(thread[v])
    BY <1>1, <1>2 DEF TypeOK
  <2> QED
    BY <2>1 DEF Reconciled, ThreadType, Statuses, Exists
<1>5. TypeOK'
  BY <1>1, <1>2, <1>3, <1>4 DEF TypeOK
<1>6. Cardinality(Registered(live')) <= MaxActive
  <2>1. Registered(live') = {}
    BY <1>2 DEF Registered
  <2> QED
    BY <1>1, <2>1, FS_EmptySet
<1>7. Agree(session', live')
  BY <1>2, <1>6 DEF Agree, Immediate, Sane, Blank
<1>8. RowsServed'
  BY <1>1, <1>2, <1>4 DEF RowsServed, Exists
<1> QED
  BY <1>2, <1>5, <1>7, <1>8, AgreePrimed DEF Inv

LEMMA StillKeeps ==
  ASSUME Inv, SignIn \/ UNCHANGED vars
  PROVE  Inv'
<1>1. /\ session' = session /\ live' = live /\ thread' = thread /\ grace' = grace
      /\ left' = left /\ messages' = messages /\ outages' = outages /\ signedIn' \in BOOLEAN
  BY DEF SignIn, vars, counters, Inv, TypeOK
<1>2. TypeOK'
  BY <1>1 DEF Inv, TypeOK
<1>3. RowsServed'
  BY <1>1 DEF Inv, RowsServed, Exists
<1> QED
  BY <1>1, <1>2, <1>3, AgreePrimed DEF Inv

LEMMA StepKeeps == Inv /\ [Next]_vars => Inv'
<1> SUFFICES ASSUME Inv, [Next]_vars PROVE Inv'
  OBVIOUS
<1>1. ASSUME NEW t \in Threads,
             createThread(t) \/ sendMessage(t) \/ retrySource(t) \/ stop(t) \/ deleteThread(t) \/ Prune(t)
      PROVE  Inv'
  BY <1>1, RowStepsKeep, SendKeeps, RetryKeeps, DecisionKeeps, DeleteKeeps
<1>2. ASSUME NEW s \in Sessions,
             TurnDone(s) \/ TurnFails(s) \/ TurnReportsError(s) \/ SessionDies(s)
             \/ StreamRunsOut(s) \/ StreamEnds(s) \/ handlePermission(s) \/ TimerFires(s)
      PROVE  Inv'
  BY <1>2, TurnEndsKeep, ErrorKeeps, DeathKeeps, StreamRunsOutKeeps, StreamEndKeeps,
     PermissionKeeps, TimerKeeps
<1>3. ASSUME NEW s \in Sessions, decidePermission(s) \/ AskTimesOut(s)
      PROVE  Inv'
  BY <1>3, DecisionKeeps DEF decidePermission, AskTimesOut
<1>4. CASE Reboot \/ signOut
  BY <1>4, RebootKeeps, SignOutKeeps
<1>5. CASE SignIn \/ UNCHANGED vars
  BY <1>5, StillKeeps
<1> QED
  BY <1>1, <1>2, <1>3, <1>4, <1>5 DEF Next, OwnerSteps, ChildSteps, TimerSteps

-----------------------------------------------------------------------------
(* The theorems. *)

LEMMA InvHolds == Spec => []Inv
BY InitHolds, StepKeeps, PTL DEF Spec

\* Every variable keeps its type.
THEOREM TypeCorrect == Spec => []TypeOK
<1>1. Inv => TypeOK
  BY DEF Inv
<1> QED
  BY <1>1, InvHolds, PTL

\* Whatever the releases, failures, switches, sign-outs and late streams: the children that
\* nobody has told to stop are the registered sessions, and no more than the cap.
THEOREM NoChildUncounted == Spec => []ChildrenCounted
<1>1. Inv => ChildrenCounted
  <2> SUFFICES ASSUME Inv PROVE ChildrenCounted
    OBVIOUS
  <2>1. TypeOK /\ Agree(session, live) /\ RowsServed
    BY DEF Inv
  <2>2. /\ \A s \in Alive : live[session[s].of] = s /\ session[s].of \in Threads
        /\ \A t \in Registered(live) : live[t] \in Alive /\ session[live[t]].of = t /\ Exists(t)
    BY <2>1 DEF Agree, Sane, Alive, Registered, RowsServed, TypeOK
  <2>3. IsFiniteSet(Registered(live)) /\ Cardinality(Registered(live)) \in Nat
    BY FewerRegistered
  <2>4. Cardinality(Alive) <= Cardinality(Registered(live)) /\ Cardinality(Alive) \in Nat
    <3> DEFINE of == [s \in Alive |-> session[s].of]
    <3>1. of \in [Alive -> Registered(live)]
      BY <2>2, ConfigAssumption DEF Registered, Alive
    <3>2. of \in Injection(Alive, Registered(live))
      BY <2>2, <3>1 DEF Injection, IsInjective
    <3>3. IsFiniteSet(Alive) /\ Cardinality(Alive) <= Cardinality(Registered(live))
      BY <2>3, <3>2, FS_Injection
    <3> QED
      BY <3>3, FS_CardinalityType
  <2>5. Cardinality(Alive) <= MaxActive
    BY <2>1, <2>3, <2>4, ConfigAssumption DEF Agree
  <2> QED
    BY <2>2, <2>5 DEF ChildrenCounted
<1> QED
  BY <1>1, InvHolds, PTL

\* What the owner is shown as running has its turn in flight, unless a sign-out or a stream that
\* just ended left it behind; while the release is immediate a child owes one result, and no
\* request waits for a session that is gone but those of a stream that just ended.
THEOREM WhatIsShownIsServed == Spec => []ShownIsServed
<1>1. Inv => ShownIsServed
  <2> SUFFICES ASSUME Inv PROVE ShownIsServed
    OBVIOUS
  <2>1. ASSUME NEW t \in Threads, t \notin left, Exists(t), thread[t].status = "running"
        PROVE  live[t] # NoSession /\ session[live[t]].inFlight /\ session[live[t]].owes > 0
    <3>1. live[t] # NoSession /\ session[live[t]].inFlight
      BY <2>1 DEF Inv, RowsServed
    <3>2. live[t] \in Sessions
      BY <3>1 DEF Inv, TypeOK
    <3>3. session[live[t]].st = "open" /\ Sane(session[live[t]])
      BY <3>1, <3>2 DEF Inv, Agree
    <3> QED
      BY <3>1, <3>3 DEF Sane
  <2>2. ~grace => \A s \in Sessions :
          /\ session[s].owes <= 1
          /\ session[s].asks > 0 =>
               \/ RanOut(session[s])
               \/ session[s].st = "open" /\ live[session[s].of] = s
    BY DEF Inv, Agree, Immediate
  <2> QED
    BY <2>1, <2>2 DEF ShownIsServed
<1> QED
  BY <1>1, InvHolds, PTL
=============================================================================
