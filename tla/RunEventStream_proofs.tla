------------------------- MODULE RunEventStream_proofs -------------------------
(***************************************************************************)
(* Proofs about RunEventStream, for every size of the replay buffer, any   *)
(* length of run, and any connections that break or hang.  The fold over   *)
(* the backlog is followed by induction: LeastNat gives the first event    *)
(* that would break the claim, and there is none.                          *)
(***************************************************************************)
EXTENDS RunEventStream, SequenceTheorems, WellFoundedInduction, TLAPS

Kinds == {"step", "terminal", "rating"}
Seqs == Nat \cup {NoSeq}
Conns == [state : States, cursor : Seqs, mark : Seqs, terminal : BOOLEAN,
          settled : BOOLEAN, hung : BOOLEAN, wire : Seq(Events)]

\* Without the settled rating the run is still live, and what any console knows of
\* it is part of what was emitted.
RunInv ==
  run.active =>
    /\ ~HasEmitted("rating")
    /\ client.lastSeq < Len(emitted)
    /\ \A i \in 1..Len(conn.wire) : conn.wire[i].seq < Len(emitted)

\* Ids the console sends are ids it has seen.
CursorInv == client.lastId <= client.lastSeq /\ conn.cursor <= client.lastSeq

\* What a connection in each of its states looks like.
ConnInv ==
  /\ ~SocketOpen =>
       conn.mark = NoSeq /\ ~conn.terminal /\ ~conn.settled /\ ~conn.hung /\ conn.wire = <<>>
  /\ conn.hung => conn.wire = <<>>
  /\ conn.state = "live" =>
       /\ ~(conn.terminal /\ conn.settled)
       /\ run.active => ~conn.settled /\ conn.mark = Len(emitted) - 1
  /\ conn.state = "ended" /\ conn.terminal =>
       /\ ~run.active /\ (run.rated \/ ~run.present)
       /\ conn.settled /\ conn.mark = Len(emitted) - 1

Contiguous(w) ==
  \A i, j \in 1..Len(w) : i < j /\ w[j].seq # NoSeq => w[i].seq = w[j].seq - (j - i)

\* The wire goes on where the console stands.
WireInv ==
  /\ Contiguous(conn.wire)
  /\ conn.state = "live" /\ run.active /\ ~conn.hung =>
       IF conn.wire = <<>> THEN conn.mark <= client.lastSeq
       ELSE conn.mark # NoSeq /\ conn.wire[Len(conn.wire)].seq = conn.mark
  /\ ~hist.behind /\ conn.wire # <<>> => conn.wire[1].seq <= client.lastSeq + 1
  /\ ~hist.behind => NothingLost

StreamInv == RunInv /\ CursorInv /\ ConnInv /\ WireInv

-----------------------------------------------------------------------------
(* Induction and the fold. *)

\* A set of naturals has a least element; what follows by induction cites it.
LEMMA LeastNat ==
  ASSUME NEW S \in SUBSET Nat, S # {}
  PROVE  \E n \in S : \A m \in S : n <= m
<1>1. \E R : /\ IsWellFoundedOn(R, Nat)
             /\ \A m, n \in Nat : <<m, n>> \in R <=> m < n
  <2> DEFINE R == OpToRel(<, Nat)
  <2>1. IsWellFoundedOn(R, Nat)
    BY NatLessThanWellFounded
  <2>2. \A m, n \in Nat : <<m, n>> \in R <=> m < n
    BY DEF OpToRel
  <2> HIDE DEF R
  <2>3. QED BY <2>1, <2>2
<1>2. PICK R : /\ IsWellFoundedOn(R, Nat)
               /\ \A m, n \in Nat : <<m, n>> \in R <=> m < n
  BY <1>1
<1>3. IsWellFoundedOn(R, Nat) /\ S \subseteq Nat
  BY <1>2
<1>4. PICK n \in S : \A m \in S : ~ (<<m, n>> \in R)
  BY <1>3, WFMin
<1>5. ASSUME NEW m \in S
      PROVE  n <= m
  <2>1. m \in Nat /\ n \in Nat /\ ~(m < n)
    BY <1>2, <1>4
  <2>2. QED BY <2>1
<1>6. QED BY <1>5

\* The function over subsets of places by which FoldLeft is defined.
Iter(f, c, s, n) ==
  f = [T \in SUBSET (1..n) |->
         IF T = {} THEN c ELSE forward(f[T \ {Max(T)}], s[Max(T)])]

\* Such a function exists for a sequence of any length, by the least one without.
LEMMA IterExists ==
  ASSUME NEW c, NEW s, NEW n \in Nat
  PROVE  \E f : Iter(f, c, s, n)
<1> DEFINE Bad == {k \in Nat : ~\E f : Iter(f, c, s, k)}
<1>1. SUFFICES ASSUME Bad # {} PROVE FALSE
  OBVIOUS
<1>2. PICK k \in Bad : \A j \in Bad : k <= j
  BY <1>1, LeastNat
<1>3. k # 0
  <2>1. Iter([T \in SUBSET (1..0) |-> c], c, s, 0)
    <3>1. 1..0 = {}
      OBVIOUS
    <3>2. QED BY <3>1 DEF Iter
  <2>2. QED BY <1>2, <2>1
<1>4. k - 1 \in Nat /\ k - 1 \notin Bad
  BY <1>2, <1>3
<1>5. PICK f : Iter(f, c, s, k - 1)
  BY <1>4
<1> DEFINE g == [T \in SUBSET (1..k) |-> IF k \in T THEN forward(f[T \ {k}], s[k]) ELSE f[T]]
<1>6. Iter(g, c, s, k)
  <2>1. ASSUME NEW T \in SUBSET (1..k)
        PROVE  g[T] = IF T = {} THEN c ELSE forward(g[T \ {Max(T)}], s[Max(T)])
    <3>1. CASE k \in T
      <4>1. Max(T) = k
        <5>1. \A y \in T : k >= y
          BY <1>2
        <5>2. \A x \in T : (\A y \in T : x >= y) => x = k
          BY <1>2, <3>1
        <5>3. QED BY <3>1, <5>1, <5>2 DEF Max
      <4>2. T \ {k} \in SUBSET (1..(k - 1)) /\ T \ {k} \in SUBSET (1..k) /\ k \notin T \ {k}
        BY <1>2
      <4>3. g[T \ {k}] = f[T \ {k}]
        BY <4>2
      <4>4. QED BY <3>1, <4>1, <4>3
    <3>2. CASE k \notin T
      <4>0. \A x : T \ {x} \in SUBSET (1..k) /\ k \notin T \ {x}
        BY <3>2
      <4>1. T \in SUBSET (1..(k - 1)) /\ T \ {Max(T)} \in SUBSET (1..k) /\ k \notin T \ {Max(T)}
        <5>1. T \in SUBSET (1..(k - 1))
          BY <1>2, <3>2
        <5>2. QED BY <4>0, <5>1
      <4>2. f[T] = IF T = {} THEN c ELSE forward(f[T \ {Max(T)}], s[Max(T)])
        BY <1>5, <4>1, Zenon DEF Iter
      <4>3. g[T \ {Max(T)}] = f[T \ {Max(T)}] /\ g[T] = f[T]
        BY <3>2, <4>1
      <4>4. QED BY <4>2, <4>3
    <3>3. QED BY <3>1, <3>2
  <2>2. g = [T \in SUBSET (1..k) |-> g[T]]
    OBVIOUS
  <2> HIDE DEF g
  <2>3. QED BY <2>1, <2>2 DEF Iter
<1>7. QED BY <1>2, <1>6

\* A fold over a sequence goes through it from left to right.
LEMMA FoldSteps ==
  ASSUME NEW c, NEW s, Len(s) \in Nat, DOMAIN s = 1..Len(s)
  PROVE  \E f : /\ f[0] = c
                /\ \A n \in 1..Len(s) : f[n] = forward(f[n - 1], s[n])
                /\ Forwarded(c, s) = f[Len(s)]
<1>1. Forwarded(c, s) = (CHOOSE f : Iter(f, c, s, Len(s)))[1..Len(s)]
  BY DEF Forwarded, FoldLeft, MapThenFoldSet, Iter
<1>2. PICK f : Iter(f, c, s, Len(s)) /\ Forwarded(c, s) = f[1..Len(s)]
  BY <1>1, IterExists
<1> DEFINE h == [n \in 0..Len(s) |-> f[1..n]]
<1>3. h[0] = c
  <2>1. 1..0 = {} /\ {} \in SUBSET (1..Len(s))
    OBVIOUS
  <2>2. f[{}] = c
    BY <1>2, <2>1, Zenon DEF Iter
  <2>3. QED BY <2>1, <2>2
<1>4. ASSUME NEW n \in 1..Len(s)
      PROVE  h[n] = forward(h[n - 1], s[n])
  <2>1. 1..n \in SUBSET (1..Len(s)) /\ 1..n # {} /\ (1..n) \ {n} = 1..(n - 1)
    <3>1. \A i : i \in (1..n) \ {n} <=> i \in 1..(n - 1)
      OBVIOUS
    <3>2. n \in 1..n /\ \A i \in 1..n : i \in 1..Len(s)
      OBVIOUS
    <3>3. (1..n) \ {n} = 1..(n - 1)
      BY <3>1, Zenon
    <3>4. QED BY <3>2, <3>3
  <2>2. Max(1..n) = n
    <3>1. n \in 1..n /\ \A y \in 1..n : n >= y
      OBVIOUS
    <3>2. \A x \in 1..n : (\A y \in 1..n : x >= y) => x = n
      OBVIOUS
    <3>3. QED BY <3>1, <3>2 DEF Max
  <2>3. f[1..n] = forward(f[(1..n) \ {Max(1..n)}], s[Max(1..n)])
    BY <1>2, <2>1, Zenon DEF Iter
  <2>4. h[n] = f[1..n] /\ h[n - 1] = f[1..(n - 1)]
    OBVIOUS
  <2>5. QED BY <2>1, <2>2, <2>3, <2>4
<1>5. Forwarded(c, s) = h[Len(s)]
  BY <1>2
<1> HIDE DEF h
<1>6. QED BY <1>3, <1>4, <1>5

-----------------------------------------------------------------------------
(* What forward does to a connection. *)

\* forward keeps a connection a connection.
LEMMA ForwardType ==
  ASSUME NEW c \in Conns, NEW e \in Events
  PROVE  forward(c, e) \in Conns
<1>1. Append(c.wire, e) \in Seq(Events)
  BY DEF Conns
<1>2. e.seq \in Seqs /\ "ended" \in States
  BY DEF Events, Seqs, States
<1>3. QED BY <1>1, <1>2 DEF Conns, forward

\* An event that the connection was sent is dropped.
LEMMA ForwardSeen ==
  ASSUME NEW c \in Conns, NEW e \in Events, e.seq # NoSeq, e.seq <= c.mark
  PROVE  forward(c, e) = c
BY DEF forward

\* Any other event is written, but to a hanging connection, and moves the watermark.
LEMMA ForwardFresh ==
  ASSUME NEW c \in Conns, NEW e \in Events, c.state = "live",
         e.seq \in Nat, c.mark < e.seq, NEW d, d = forward(c, e)
  PROVE  /\ d.cursor = c.cursor /\ d.hung = c.hung
         /\ d.mark = e.seq
         /\ d.wire = IF c.hung THEN c.wire ELSE Append(c.wire, e)
         /\ d.terminal = (c.terminal \/ e.kind = "terminal")
         /\ d.settled = (c.settled \/ e.kind = "rating")
         /\ d.state = IF d.terminal /\ d.settled THEN "ended" ELSE "live"
<1>1. ~(c.state = "ended" \/ (e.seq # NoSeq /\ e.seq <= c.mark)) /\ e.seq # NoSeq
  BY DEF Conns, Seqs, NoSeq
<1>2. QED BY <1>1 DEF forward, Conns

-----------------------------------------------------------------------------
(* The backlog of a new connection. *)

\* d is c after k events from seq start on were written to it.
Went(d, c, start, k) ==
  /\ d \in Conns /\ d.state = "live" /\ ~d.settled /\ ~d.hung /\ d.cursor = c.cursor
  /\ d.mark = IF k = 0 THEN c.mark ELSE start + k - 1
  /\ Len(d.wire) = k
  /\ \A i \in 1..k : d.wire[i] = Event(start + i)

\* Events of s that the connection lacks follow one another from start on.
Gapless(c, start, s) ==
  \A i \in 1..Len(s) :
    \/ s[i].seq <= c.mark
    \/ s[i].seq = start
    \/ \E j \in 1..(i - 1) : s[j].seq = s[i].seq - 1 /\ start <= s[j].seq

\* What a fresh connection has after a backlog: each event from start on once, and
\* the watermark at the newest.
LEMMA ForwardAll ==
  ASSUME NEW c \in Conns, c.state = "live", ~c.settled, ~c.hung, c.wire = <<>>,
         NEW start \in Nat, c.mark < start, NEW s \in Seq(Events),
         \A i \in 1..Len(s) : /\ s[i].seq \in Nat /\ s[i] = Event(s[i].seq + 1)
                              /\ s[i].kind # "rating",
         Gapless(c, start, s)
  PROVE  LET d == Forwarded(c, s)
         IN \E k \in Nat :
              /\ Went(d, c, start, k)
              /\ \A j \in 1..Len(s) : s[j].seq <= d.mark
              /\ k > 0 => \E j \in 1..Len(s) : s[j].seq = d.mark
<1>1. Len(s) \in Nat /\ DOMAIN s = 1..Len(s)
  OBVIOUS
<1>2. PICK f : /\ f[0] = c
               /\ \A n \in 1..Len(s) : f[n] = forward(f[n - 1], s[n])
               /\ Forwarded(c, s) = f[Len(s)]
  BY <1>1, FoldSteps
<1> DEFINE Upto(n, k) == /\ Went(f[n], c, start, k)
                         /\ \A j \in 1..n : s[j].seq <= f[n].mark
                         /\ k > 0 => \E j \in 1..n : s[j].seq = f[n].mark
           Bad == {n \in 0..Len(s) : ~\E k \in Nat : Upto(n, k)}
<1>3. SUFFICES ASSUME Bad # {} PROVE FALSE
  <2>1. Len(s) \in 0..Len(s)
    BY <1>1
  <2>2. QED BY <1>2, <1>3, <2>1
<1>4. PICK n \in Bad : \A m \in Bad : n <= m
  <2>1. Bad \in SUBSET Nat
    BY <1>1
  <2> HIDE DEF Bad
  <2>2. QED BY <1>3, <2>1, LeastNat
<1>5. n # 0
  <2>1. Upto(0, 0)
    BY <1>2 DEF Went
  <2>2. QED BY <1>4, <2>1
<1>6. n \in 1..Len(s) /\ n - 1 \in 0..Len(s) /\ n - 1 \notin Bad
  <2>1. n \in 0..Len(s)
    BY <1>4
  <2>2. n \in 1..Len(s) /\ n - 1 \in 0..Len(s) /\ ~(n <= n - 1)
    BY <1>1, <1>5, <2>1
  <2> HIDE DEF Bad
  <2>3. QED BY <1>4, <2>2
<1>7. PICK k \in Nat : Upto(n - 1, k)
  BY <1>6
<1> DEFINE b == f[n - 1]
           e == s[n]
<1>8. /\ b \in Conns /\ b.state = "live" /\ ~b.settled /\ ~b.hung /\ b.cursor = c.cursor
      /\ b.mark = IF k = 0 THEN c.mark ELSE start + k - 1
      /\ Len(b.wire) = k /\ \A i \in 1..k : b.wire[i] = Event(start + i)
      /\ \A j \in 1..(n - 1) : s[j].seq <= b.mark
      /\ k > 0 => \E j \in 1..(n - 1) : s[j].seq = b.mark
  BY <1>7 DEF Went
<1>9. e \in Events /\ e.seq \in Nat /\ e = Event(e.seq + 1) /\ e.kind # "rating"
  BY <1>6
<1>10. f[n] = forward(b, e)
  BY <1>2, <1>6
<1>11. b.mark \in Int /\ c.mark \in Int /\ c.mark <= b.mark
  <2>1. b.mark \in Int /\ c.mark \in Int
    BY <1>8 DEF Conns, Seqs, NoSeq
  <2>2. b.mark = c.mark \/ (k # 0 /\ b.mark = start + k - 1)
    BY <1>8
  <2> HIDE DEF b
  <2>3. QED BY <2>1, <2>2
<1>12. \A j \in 1..n : j # n => j \in 1..(n - 1)
  BY <1>6
<1>13. \A j \in 1..(n - 1) : s[j].seq \in Nat
  BY <1>6
<1> HIDE DEF b, e
<1>14. CASE e.seq <= b.mark
  <2>1. f[n] = b
    BY <1>8, <1>9, <1>10, <1>14, ForwardSeen DEF NoSeq
  <2>2. Went(f[n], c, start, k)
    BY <1>8, <2>1 DEF Went
  <2>3. \A j \in 1..n : s[j].seq <= f[n].mark
    BY <1>8, <1>12, <1>14, <2>1 DEF e
  <2>4. k > 0 => \E j \in 1..n : s[j].seq = f[n].mark
    <3>1. \A j \in 1..(n - 1) : j \in 1..n
      BY <1>6
    <3>2. QED BY <1>8, <2>1, <3>1
  <2>5. Upto(n, k)
    BY <2>2, <2>3, <2>4
  <2>6. QED BY <1>4, <2>5
<1>15. CASE b.mark < e.seq
  <2>1. e.seq = start + k
    <3>1. \/ e.seq <= c.mark
          \/ e.seq = start
          \/ \E j \in 1..(n - 1) : s[j].seq = e.seq - 1 /\ start <= s[j].seq
      BY <1>6 DEF Gapless, e
    <3>2. CASE e.seq = start
      BY <1>8, <1>9, <1>15, <3>2
    <3>3. ASSUME NEW j \in 1..(n - 1), s[j].seq = e.seq - 1, start <= s[j].seq
          PROVE  e.seq = start + k
      <4>1. s[j].seq <= b.mark /\ s[j].seq \in Nat
        BY <1>8, <1>13
      <4>2. e.seq - 1 <= b.mark /\ start <= b.mark
        BY <1>9, <1>11, <3>3, <4>1
      <4>3. e.seq = b.mark + 1
        BY <1>9, <1>11, <1>15, <4>2
      <4>4. k # 0
        BY <1>8, <1>11, <4>2
      <4>5. QED BY <1>8, <4>3, <4>4
    <3>4. CASE e.seq <= c.mark
      BY <1>9, <1>11, <1>15, <3>4
    <3>5. QED BY <3>1, <3>2, <3>3, <3>4
  <2>2. /\ f[n].cursor = b.cursor /\ f[n].hung = b.hung
        /\ f[n].mark = e.seq
        /\ f[n].wire = Append(b.wire, e)
        /\ ~f[n].settled /\ f[n].state = "live"
    <3>1. e.kind # "terminal" \/ e.kind # "rating"
      BY <1>9
    <3>2. /\ f[n].cursor = b.cursor /\ f[n].hung = b.hung
          /\ f[n].mark = e.seq
          /\ f[n].wire = IF b.hung THEN b.wire ELSE Append(b.wire, e)
          /\ f[n].settled = (b.settled \/ e.kind = "rating")
          /\ f[n].state = IF f[n].terminal /\ f[n].settled THEN "ended" ELSE "live"
      <4>1. b \in Conns /\ e \in Events /\ b.state = "live" /\ e.seq \in Nat /\ b.mark < e.seq
        BY <1>8, <1>9, <1>15
      <4>2. QED BY <1>10, <4>1, ForwardFresh
    <3>3. ~f[n].settled
      BY <1>8, <1>9, <3>2
    <3>4. QED BY <1>8, <3>2, <3>3
  <2>3. f[n] \in Conns
    BY <1>8, <1>9, <1>10, ForwardType
  <2>4. b.wire \in Seq(Events)
    BY <1>8 DEF Conns
  <2>5. Len(f[n].wire) = k + 1
    BY <1>8, <2>2, <2>4
  <2>6. ASSUME NEW i \in 1..(k + 1)
        PROVE  f[n].wire[i] = Event(start + i)
    <3>1. CASE i = k + 1
      <4>1. f[n].wire[i] = e
        BY <1>8, <2>2, <2>4, <3>1
      <4>2. e.seq + 1 = start + i
        BY <2>1, <3>1
      <4>3. QED BY <1>9, <4>1, <4>2
    <3>2. CASE i # k + 1
      <4>1. i \in 1..k
        BY <3>2
      <4>2. f[n].wire[i] = b.wire[i]
        BY <1>8, <2>2, <2>4, <4>1
      <4>3. QED BY <1>8, <4>1, <4>2
    <3>3. QED BY <3>1, <3>2
  <2>7. Went(f[n], c, start, k + 1)
    <3>1. f[n].mark = IF k + 1 = 0 THEN c.mark ELSE start + (k + 1) - 1
      BY <2>1, <2>2
    <3>2. ~f[n].hung /\ f[n].cursor = c.cursor
      BY <1>8, <2>2
    <3>3. QED BY <2>2, <2>3, <2>5, <2>6, <3>1, <3>2 DEF Went
  <2>8. \A j \in 1..n : s[j].seq <= f[n].mark
    <3>1. ASSUME NEW j \in 1..(n - 1) PROVE s[j].seq <= f[n].mark
      <4>1. s[j].seq \in Nat /\ s[j].seq <= b.mark
        BY <1>8, <1>13
      <4>2. QED BY <1>9, <1>11, <1>15, <2>2, <4>1
    <3>2. s[n].seq <= f[n].mark
      BY <1>9, <2>2 DEF e
    <3>3. QED BY <1>12, <3>1, <3>2
  <2>9. \E j \in 1..n : s[j].seq = f[n].mark
    <3>1. n \in 1..n /\ s[n].seq = f[n].mark
      BY <1>6, <2>2 DEF e
    <3>2. QED BY <3>1
  <2>10. Upto(n, k + 1)
    BY <2>7, <2>8, <2>9
  <2>11. QED BY <1>4, <2>10
<1>16. QED BY <1>9, <1>11, <1>14, <1>15

-----------------------------------------------------------------------------
(* GET /stream on a live run. *)

\* An emitted event carries its place less one.
LEMMA EventSeq ==
  ASSUME NEW i
  PROVE  Event(i).seq = i - 1
BY DEF Event

\* The events of the run are well typed and numbered by their place.
LEMMA EventFacts ==
  ASSUME TypeOK, NEW i \in 1..Len(emitted)
  PROVE  /\ Event(i) \in Events /\ Event(i).seq = i - 1
         /\ Event(i).kind = emitted[i] /\ Event((i - 1) + 1) = Event(i)
<1>1. emitted[i] \in Kinds
  BY DEF TypeOK, Kinds
<1>2. QED BY <1>1 DEF Event, Events, Kinds

\* The newest events, from lo on.
LEMMA FromFacts ==
  ASSUME TypeOK, NEW lo \in 0..Len(emitted)
  PROVE  /\ EventsFrom(lo) \in Seq(Events) /\ Len(EventsFrom(lo)) = Len(emitted) - lo
         /\ \A i \in 1..(Len(emitted) - lo) : EventsFrom(lo)[i] = Event(lo + i)
<1>0. Len(emitted) \in Nat
  BY DEF TypeOK
<1>1. \A i \in 1..(Len(emitted) - lo) : lo + i \in 1..Len(emitted)
  BY <1>0
<1>2. \A i \in 1..(Len(emitted) - lo) : Event(lo + i) \in Events
  BY <1>1, EventFacts
<1>3. Len(emitted) - lo \in Nat
  BY <1>0
<1>4. QED BY <1>2, <1>3 DEF EventsFrom

\* What the buffer and the log hold, by sequence number.
LEMMA BufferFacts ==
  ASSUME TypeOK
  PROVE  /\ OldestBuffered \in 0..Len(emitted)
         /\ Len(emitted) > 0 => OldestBuffered < Len(emitted)
BY BufferAssumption DEF TypeOK, OldestBuffered

\* An attached connection: everything from the first event it lacks on, once.
Attached(start, k) ==
  /\ Went(conn', [conn EXCEPT !.state = "live", !.mark = conn.cursor], start, k)
  /\ conn'.mark = Len(emitted) - 1
  /\ start = conn.cursor + 1 \/ (conn.cursor = NoSeq /\ start = OldestBuffered)

\* What an attached connection is after the backlog.
LEMMA AttachedBy ==
  ASSUME TypeOK, StreamInv, conn.state = "requested", run.active,
         NEW s \in Seq(Events), NEW start \in Nat, conn.cursor < start,
         start = conn.cursor + 1 \/ (conn.cursor = NoSeq /\ start = OldestBuffered),
         \A i \in 1..Len(s) : /\ s[i].seq \in 0..(Len(emitted) - 1)
                              /\ s[i] = Event(s[i].seq + 1),
         Len(emitted) > 0 => \E i \in 1..Len(s) : s[i].seq = Len(emitted) - 1,
         Gapless([conn EXCEPT !.state = "live", !.mark = conn.cursor], start, s),
         conn' = Forwarded([conn EXCEPT !.state = "live", !.mark = conn.cursor], s)
  PROVE  \E k \in Nat : Attached(start, k)
<1> DEFINE c == [conn EXCEPT !.state = "live", !.mark = conn.cursor]
<1>1. /\ c \in Conns /\ c.state = "live" /\ ~c.settled /\ ~c.hung /\ c.wire = <<>>
      /\ c.mark = conn.cursor /\ c.mark < start
  BY DEF TypeOK, Conns, StreamInv, ConnInv, SocketOpen, Seqs, States
<1>2. Len(emitted) \in Nat /\ conn.cursor \in Seqs /\ conn.cursor < Len(emitted)
  BY DEF TypeOK, Seqs, StreamInv, RunInv, CursorInv, NoSeq
<1>3. \A i \in 1..Len(s) : s[i].seq \in Nat /\ s[i] = Event(s[i].seq + 1) /\ s[i].kind # "rating"
  <2>1. ASSUME NEW i \in 1..Len(s)
        PROVE  s[i].kind # "rating"
    <3>1. s[i].seq + 1 \in 1..Len(emitted)
      BY <1>2
    <3>2. s[i].kind = emitted[s[i].seq + 1]
      BY <3>1, EventFacts
    <3>3. QED BY <3>1, <3>2 DEF StreamInv, RunInv, HasEmitted
  <2>2. QED BY <1>2, <2>1
<1> HIDE DEF c
<1>4. PICK k \in Nat : /\ Went(conn', c, start, k)
                       /\ \A j \in 1..Len(s) : s[j].seq <= conn'.mark
                       /\ k > 0 => \E j \in 1..Len(s) : s[j].seq = conn'.mark
  BY <1>1, <1>3, ForwardAll DEF c
<1>5. conn'.mark = Len(emitted) - 1
  <2>1. conn'.mark = IF k = 0 THEN conn.cursor ELSE start + k - 1
    BY <1>1, <1>4 DEF Went
  <2>2. CASE k = 0
    <3>1. conn'.mark = conn.cursor /\ conn.cursor \in Int
      BY <1>2, <2>1, <2>2 DEF Seqs, NoSeq
    <3>2. CASE Len(emitted) = 0
      BY <1>2, <3>1, <3>2 DEF Seqs, NoSeq
    <3>3. CASE Len(emitted) > 0
      <4>1. Len(emitted) - 1 <= conn'.mark
        BY <1>4, <3>3
      <4>2. QED BY <1>2, <3>1, <4>1
    <3>4. QED BY <1>2, <3>2, <3>3
  <2>3. CASE k > 0
    <3>1. PICK j \in 1..Len(s) : s[j].seq = conn'.mark
      BY <1>4, <2>3
    <3>2. conn'.mark \in 0..(Len(emitted) - 1)
      BY <3>1
    <3>3. Len(emitted) > 0
      BY <1>2, <3>2
    <3>4. Len(emitted) - 1 <= conn'.mark
      BY <1>4, <3>3
    <3>5. QED BY <1>2, <3>2, <3>4
  <2>4. QED BY <2>2, <2>3
<1>6. QED BY <1>4, <1>5 DEF Attached, c

\* A connect to a live run is caught up, wherever its cursor stood.
LEMMA AttachFacts ==
  ASSUME TypeOK, StreamInv, Quiet, conn.state = "requested", run.active, StreamLive
  PROVE  \E start, k \in Nat : Attached(start, k)
<1> DEFINE c == [conn EXCEPT !.state = "live", !.mark = conn.cursor]
           L == Len(emitted)
           old == OldestBuffered
<1>1. L \in Nat /\ conn.cursor \in Seqs /\ conn.cursor < L /\ conn.cursor \in Int
  BY DEF TypeOK, Seqs, StreamInv, RunInv, CursorInv, NoSeq
<1>2. old \in 0..L /\ (L > 0 => old < L)
  BY BufferFacts
<1>3. c.mark = conn.cursor
  BY DEF TypeOK
<1>4. /\ Buffered \in Seq(Events) /\ Len(Buffered) = L - old
      /\ \A i \in 1..(L - old) : Buffered[i] = Event(old + i)
  BY <1>2, FromFacts DEF Buffered
<1>5. \A i \in 1..L : Event(i) \in Events /\ Event(i).seq = i - 1 /\ Event((i - 1) + 1) = Event(i)
  BY EventFacts
<1>6. \A i \in 1..(L - old) : old + i \in 1..L /\ Buffered[i].seq = old + i - 1
                              /\ Buffered[i] = Event(Buffered[i].seq + 1)
  <2>1. ASSUME NEW i \in 1..(L - old)
        PROVE  old + i \in 1..L /\ Buffered[i].seq = old + i - 1
               /\ Buffered[i] = Event(Buffered[i].seq + 1)
    <3>1. old + i \in 1..L
      BY <1>1, <1>2
    <3>2. Buffered[i] = Event(old + i)
      BY <1>4
    <3>3. Event(old + i).seq = old + i - 1 /\ Event((old + i - 1) + 1) = Event(old + i)
      <4>1. Event(old + i).seq = old + i - 1
        BY <1>2, EventSeq
      <4>2. (old + i - 1) + 1 = old + i
        BY <1>2
      <4>3. QED BY <4>1, <4>2
    <3>4. QED BY <3>1, <3>2, <3>3
  <2>2. QED BY <2>1
<1> HIDE DEF c, L, old
<1>7. CASE bufferCoversCursor(conn.cursor)
  <2>1. conn' = Forwarded(c, Buffered)
    <3>1. conn' = Forwarded(c, <<>> \o Buffered)
      BY <1>7 DEF StreamLive, c
    <3>2. <<>> \o Buffered = Buffered
      BY <1>4
    <3>3. QED BY <3>1, <3>2
  <2>2. PICK start \in Nat :
           /\ conn.cursor < start /\ old <= start
           /\ start = conn.cursor + 1 \/ (conn.cursor = NoSeq /\ start = old)
           /\ start = conn.cursor + 1 \/ start = old
    <3>1. CASE old <= conn.cursor + 1
      BY <1>1, <3>1 DEF Seqs, NoSeq
    <3>2. CASE conn.cursor = NoSeq
      BY <1>1, <1>2, <3>2 DEF NoSeq
    <3>3. QED BY <1>7, <3>1, <3>2 DEF bufferCoversCursor, old
  <2>3. Gapless(c, start, Buffered)
    <3>1. ASSUME NEW i \in 1..Len(Buffered)
          PROVE  \/ Buffered[i].seq <= c.mark
                 \/ Buffered[i].seq = start
                 \/ \E j \in 1..(i - 1) : Buffered[j].seq = Buffered[i].seq - 1 /\ start <= Buffered[j].seq
      <4>1. Buffered[i].seq = old + i - 1
        BY <1>4, <1>6
      <4>2. CASE i = 1
        BY <1>1, <1>2, <1>3, <2>2, <4>1, <4>2
      <4>3. CASE i > 1 /\ start < Buffered[i].seq
        <5>1. i - 1 \in 1..(i - 1) /\ i - 1 \in 1..(L - old)
          BY <1>1, <1>2, <1>4, <4>3
        <5>2. Buffered[i - 1].seq = old + (i - 1) - 1
          BY <1>6, <5>1
        <5>3. QED BY <1>2, <4>1, <4>3, <5>1, <5>2
      <4>4. CASE ~(start < Buffered[i].seq)
        <5>1. Buffered[i].seq \in Int /\ Buffered[i].seq <= start /\ old <= Buffered[i].seq
          BY <1>2, <4>1, <4>4
        <5>2. CASE start = old
          BY <1>2, <5>1, <5>2
        <5>3. CASE start = conn.cursor + 1
          BY <1>1, <1>3, <5>1, <5>3
        <5>4. QED BY <2>2, <5>2, <5>3
      <4>5. QED BY <1>1, <1>4, <4>2, <4>3, <4>4
    <3>2. QED BY <3>1 DEF Gapless
  <2>4. \A i \in 1..Len(Buffered) : /\ Buffered[i].seq \in 0..(L - 1)
                                    /\ Buffered[i] = Event(Buffered[i].seq + 1)
    BY <1>1, <1>2, <1>4, <1>6
  <2>5. L > 0 => \E i \in 1..Len(Buffered) : Buffered[i].seq = L - 1
    <3>1. SUFFICES ASSUME L > 0 PROVE \E i \in 1..Len(Buffered) : Buffered[i].seq = L - 1
      OBVIOUS
    <3>2. L - old \in 1..(L - old) /\ old + (L - old) - 1 = L - 1
      BY <1>1, <1>2, <3>1
    <3>3. QED BY <1>4, <1>6, <3>2
  <2>6. \E k \in Nat : Attached(start, k)
    BY <1>4, <2>1, <2>2, <2>3, <2>4, <2>5, AttachedBy DEF c, L, old
  <2>7. QED BY <2>6
<1>8. CASE ~bufferCoversCursor(conn.cursor)
  <2> DEFINE s == StoredEvents \o Buffered
             start == conn.cursor + 1
  <2>1. conn' = Forwarded(c, s)
    BY <1>8 DEF StreamLive, c
  <2>2. start \in Nat /\ conn.cursor < start
    BY <1>1 DEF Seqs, NoSeq
  <2>3. /\ StoredEvents \in Seq(Events) /\ Len(StoredEvents) = L
        /\ \A i \in 1..L : StoredEvents[i] = Event(i)
    BY <1>1, <1>5 DEF StoredEvents, Quiet, L
  <2>4. s \in Seq(Events) /\ Len(s) = L + (L - old)
    BY <1>4, <2>3
  <2>5. \A i \in 1..L : s[i] = Event(i) /\ s[i].seq = i - 1 /\ s[i] = Event(s[i].seq + 1)
    BY <1>4, <1>5, <2>3
  <2>6. \A i \in 1..(L - old) : s[L + i] = Buffered[i]
    BY <1>1, <1>4, <2>3
  <2>7. ASSUME NEW i \in 1..Len(s), ~(i \in 1..L)
        PROVE  i - L \in 1..(L - old) /\ s[i] = Buffered[i - L]
    <3>1. i - L \in 1..(L - old) /\ L + (i - L) = i
      BY <1>1, <1>2, <2>4, <2>7
    <3>2. QED BY <2>6, <3>1
  <2> HIDE DEF s, start
  <2>8. \A i \in 1..Len(s) : s[i].seq \in 0..(L - 1) /\ s[i] = Event(s[i].seq + 1)
    <3>1. ASSUME NEW i \in 1..Len(s)
          PROVE  s[i].seq \in 0..(L - 1) /\ s[i] = Event(s[i].seq + 1)
      <4>1. CASE i \in 1..L
        BY <1>1, <2>5, <4>1
      <4>2. CASE ~(i \in 1..L)
        BY <1>1, <1>2, <1>6, <2>7, <4>2
      <4>3. QED BY <4>1, <4>2
    <3>2. QED BY <3>1
  <2>9. Gapless(c, start, s)
    <3>1. ASSUME NEW i \in 1..Len(s)
          PROVE  \/ s[i].seq <= c.mark
                 \/ s[i].seq = start
                 \/ \E j \in 1..(i - 1) : s[j].seq = s[i].seq - 1 /\ start <= s[j].seq
      <4>1. s[i].seq \in 0..(L - 1)
        BY <2>8
      <4>2. CASE s[i].seq <= start
        BY <1>1, <1>3, <2>2, <4>1, <4>2 DEF start
      <4>3. CASE start < s[i].seq
        <5>1. s[i].seq \in 1..L /\ s[i].seq \in 1..(i - 1)
          <6>1. CASE i \in 1..L
            BY <1>1, <2>2, <2>5, <4>1, <4>3, <6>1
          <6>2. CASE ~(i \in 1..L)
            BY <1>1, <2>2, <2>4, <4>1, <4>3, <6>2
          <6>3. QED BY <6>1, <6>2
        <5>2. s[s[i].seq].seq = s[i].seq - 1
          BY <2>5, <5>1
        <5>3. start <= s[s[i].seq].seq
          BY <2>2, <4>1, <4>3, <5>2
        <5>4. QED BY <5>1, <5>2, <5>3
      <4>4. QED BY <1>1, <2>2, <4>1, <4>2, <4>3
    <3>2. QED BY <3>1 DEF Gapless
  <2>10. L > 0 => \E i \in 1..Len(s) : s[i].seq = L - 1
    <3>1. L > 0 => L \in 1..L /\ L \in 1..Len(s)
      BY <1>1, <1>2, <2>4
    <3>2. QED BY <2>5, <3>1
  <2>11. \E k \in Nat : Attached(start, k)
    BY <2>1, <2>2, <2>4, <2>8, <2>9, <2>10, AttachedBy DEF c, L, start
  <2>12. QED BY <2>2, <2>11
<1>9. QED BY <1>7, <1>8

-----------------------------------------------------------------------------
(* The actions. *)

\* One lemma per action follows.
\* StreamRun: live, persisted, or refused.
LEMMA StreamRunKeeps ==
  ASSUME TypeOK, StreamInv, StreamRun
  PROVE  TypeOK' /\ StreamInv'
<1>t. /\ conn \in Conns /\ Len(emitted) \in Nat /\ logged = Len(emitted)
      /\ client.lastSeq \in Seqs /\ client.lastId \in Seqs /\ conn.cursor \in Seqs
      /\ conn.cursor <= client.lastSeq /\ hist.behind \in BOOLEAN
  BY DEF TypeOK, Conns, Seqs, StreamInv, CursorInv, StreamRun, Quiet
<1>1. /\ UNCHANGED <<emitted, logged, run, client>> /\ conn.state = "requested"
      /\ hist'.behind = (hist.behind \/ /\ run.active /\ conn.cursor = NoSeq
                                        /\ OldestBuffered > client.lastSeq + 1)
      /\ hist' \in [drops : Nat, disturbed : BOOLEAN, behind : BOOLEAN]
  BY DEF StreamRun, TypeOK
<1>2. RunInv /\ CursorInv /\ ConnInv /\ WireInv
  BY DEF StreamInv
<1>3. conn.mark = NoSeq /\ ~conn.terminal /\ ~conn.settled /\ ~conn.hung /\ conn.wire = <<>>
  BY <1>1, <1>2 DEF ConnInv, SocketOpen
<1>4. HasEmitted("rating")' = HasEmitted("rating")
  BY <1>1 DEF HasEmitted
<1>5. ~hist'.behind => client'.applied = 0..client'.lastSeq
  BY <1>1, <1>2 DEF WireInv, NothingLost
<1>6. CASE run.active /\ StreamLive
  <2>1. PICK start \in Nat, k \in Nat : Attached(start, k)
    BY <1>6, AttachFacts DEF StreamRun
  <2>2. /\ conn' \in Conns /\ conn'.state = "live" /\ ~conn'.settled /\ ~conn'.hung
        /\ conn'.cursor = conn.cursor /\ Len(conn'.wire) = k
        /\ \A i \in 1..k : conn'.wire[i] = Event(start + i)
        /\ conn'.mark = IF k = 0 THEN conn.cursor ELSE start + k - 1
        /\ conn'.mark = Len(emitted) - 1
    BY <1>t, <2>1 DEF Attached, Went, Conns
  <2>3. \A i \in 1..k : conn'.wire[i].seq = start + i - 1
    BY <2>2, EventSeq
  <2>4. ~hist'.behind => start <= client.lastSeq + 1
    <3>1. start = conn.cursor + 1 \/ (conn.cursor = NoSeq /\ start = OldestBuffered)
      BY <2>1 DEF Attached
    <3>2. QED BY <1>t, <1>1, <1>6, <3>1 DEF Seqs, NoSeq
  <2>5. TypeOK'
    BY <1>1, <2>2 DEF TypeOK, Conns, Seqs
  <2>6. RunInv'
    <3>1. \A i \in 1..k : conn'.wire[i].seq < Len(emitted)
      BY <1>t, <2>2, <2>3
    <3>2. QED BY <1>1, <1>2, <1>4, <2>2, <3>1 DEF RunInv
  <2>7. CursorInv'
    BY <1>1, <1>2, <2>2 DEF CursorInv
  <2>8. ConnInv'
    BY <1>1, <2>2 DEF ConnInv, SocketOpen
  <2>9. Contiguous(conn'.wire)
    <3>1. ASSUME NEW i \in 1..k, NEW j \in 1..k
          PROVE  conn'.wire[i].seq = conn'.wire[j].seq - (j - i)
      <4>1. conn'.wire[i].seq = start + i - 1 /\ conn'.wire[j].seq = start + j - 1
        BY <2>3
      <4>2. QED BY <4>1
    <3>2. QED BY <2>2, <3>1 DEF Contiguous
  <2>10. conn'.wire = <<>> <=> k = 0
    BY <2>2 DEF Conns
  <2>11. WireInv'
    <3>1. IF conn'.wire = <<>> THEN conn'.mark <= client.lastSeq
          ELSE conn'.mark # NoSeq /\ conn'.wire[Len(conn'.wire)].seq = conn'.mark
      <4>1. CASE k = 0
        BY <1>t, <2>2, <2>10, <4>1
      <4>2. CASE k # 0
        <5>1. conn'.mark # NoSeq
          BY <2>2, <4>2 DEF NoSeq
        <5>2. QED BY <2>2, <2>3, <2>10, <4>2, <5>1
      <4>3. QED BY <4>1, <4>2
    <3>2. ~hist'.behind /\ conn'.wire # <<>> => conn'.wire[1].seq <= client.lastSeq + 1
      BY <1>t, <2>2, <2>3, <2>4, <2>10
    <3>3. QED BY <1>1, <1>5, <2>9, <3>1, <3>2 DEF WireInv, NothingLost
  <2>12. QED BY <2>5, <2>6, <2>7, <2>8, <2>11 DEF StreamInv
<1>7. CASE ~run.active /\ run.present /\ writePersistedReplay
  <2> DEFINE unseen == SubSeq(StoredEvents, conn.cursor + 2, logged)
             rating == IF Synthesizes THEN <<[seq |-> NoSeq, kind |-> "rating"]>> ELSE <<>>
             n == logged - (conn.cursor + 1)
  <2>1. conn' = [conn EXCEPT !.state = "ended", !.wire = unseen \o rating]
    BY <1>7 DEF writePersistedReplay
  <2>2. /\ StoredEvents \in Seq(Events) /\ Len(StoredEvents) = logged
        /\ \A i \in 1..logged : StoredEvents[i].seq = i - 1
    <3>1. \A i \in 1..logged : Event(i) \in Events /\ Event(i).seq = i - 1
      BY <1>t, EventFacts
    <3>2. QED BY <1>t, <3>1 DEF StoredEvents
  <2>3. /\ unseen \in Seq(Events) /\ Len(unseen) = IF n > 0 THEN n ELSE 0
        /\ \A i \in 1..Len(unseen) : unseen[i].seq = conn.cursor + i
    <3>1. conn.cursor + 2 \in Nat \ {0} /\ logged \in Nat /\ n \in Int /\ conn.cursor \in Int
      BY <1>t DEF Seqs, NoSeq
    <3>2. \A i \in (conn.cursor + 2)..logged : StoredEvents[i] \in Events
      BY <2>2, <3>1
    <3>3. /\ unseen \in Seq(Events)
          /\ Len(unseen) = IF conn.cursor + 2 <= logged THEN logged - (conn.cursor + 2) + 1 ELSE 0
          /\ \A i \in 1..(logged - (conn.cursor + 2) + 1) :
               unseen[i] = StoredEvents[conn.cursor + 2 + i - 1]
      BY <3>1, <3>2, SubSeqProperties
    <3>4. Len(unseen) = IF n > 0 THEN n ELSE 0
      BY <3>1, <3>3
    <3>5. ASSUME NEW i \in 1..Len(unseen)
          PROVE  unseen[i].seq = conn.cursor + i
      <4>1. i \in 1..(logged - (conn.cursor + 2) + 1)
        BY <3>1, <3>4
      <4>2. PICK j \in 1..logged : j = conn.cursor + 2 + i - 1
        BY <3>1, <4>1
      <4>3. unseen[i] = StoredEvents[j]
        BY <3>3, <4>1, <4>2
      <4>4. StoredEvents[j].seq = j - 1
        BY <2>2
      <4>5. j - 1 = conn.cursor + i
        BY <3>1, <4>1, <4>2
      <4>6. QED BY <4>3, <4>4, <4>5
    <3>6. QED BY <3>3, <3>4, <3>5
  <2>4. rating \in Seq(Events) /\ Len(rating) \in 0..1 /\ \A i \in 1..Len(rating) : rating[i].seq = NoSeq
    <3>1. [seq |-> NoSeq, kind |-> "rating"] \in Events
      BY DEF Events
    <3>2. CASE Synthesizes
      BY <3>1, <3>2
    <3>3. CASE ~Synthesizes
      BY <3>3
    <3>4. QED BY <3>2, <3>3
  <2> HIDE DEF unseen, rating
  <2> DEFINE w == unseen \o rating
  <2>5. /\ w \in Seq(Events) /\ Len(w) = Len(unseen) + Len(rating)
        /\ \A i \in 1..Len(w) : w[i] = IF i <= Len(unseen) THEN unseen[i] ELSE rating[i - Len(unseen)]
    BY <2>3, <2>4
  <2>6. /\ conn'.state = "ended" /\ conn'.wire = w /\ conn'.cursor = conn.cursor
        /\ conn'.mark = NoSeq /\ ~conn'.terminal /\ ~conn'.settled /\ ~conn'.hung
        /\ conn' \in Conns
    BY <1>t, <1>3, <2>1, <2>5 DEF Conns, States
  <2> HIDE DEF w
  <2>7. \A i \in 1..Len(w) : w[i].seq = conn.cursor + i \/ (w[i].seq = NoSeq /\ i = Len(w))
    <3>1. ASSUME NEW i \in 1..Len(w)
          PROVE  w[i].seq = conn.cursor + i \/ (w[i].seq = NoSeq /\ i = Len(w))
      <4>0. Len(unseen) \in Nat /\ Len(rating) \in 0..1 /\ Len(w) = Len(unseen) + Len(rating)
        BY <2>3, <2>4, <2>5
      <4>1. CASE i <= Len(unseen)
        BY <2>3, <2>5, <4>0, <4>1
      <4>2. CASE ~(i <= Len(unseen))
        <5>1. i - Len(unseen) = 1 /\ Len(rating) = 1 /\ i = Len(w)
          <6>1. ASSUME NEW u \in Nat, NEW r \in 0..1, Len(w) = u + r, ~(i <= u)
                PROVE  i - u = 1 /\ r = 1 /\ i = Len(w)
            BY <6>1
          <6>2. QED BY <4>0, <4>2, <6>1
        <5>2. QED BY <2>4, <2>5, <4>2, <5>1
      <4>3. QED BY <4>1, <4>2
    <3>2. QED BY <3>1
  <2>8. Contiguous(w)
    <3>1. ASSUME NEW i \in 1..Len(w), NEW j \in 1..Len(w), i < j, w[j].seq # NoSeq
          PROVE  w[i].seq = w[j].seq - (j - i)
      <4>1. conn.cursor \in Int /\ i # Len(w)
        BY <1>t, <2>5, <3>1 DEF Seqs, NoSeq
      <4>2. w[i].seq = conn.cursor + i /\ w[j].seq = conn.cursor + j
        BY <2>7, <3>1, <4>1
      <4>3. QED BY <4>1, <4>2
    <3>2. QED BY <3>1 DEF Contiguous
  <2>9. w # <<>> => w[1].seq <= client.lastSeq + 1
    <3>1. w # <<>> => 1 \in 1..Len(w)
      BY <2>5
    <3>2. QED BY <1>t, <2>7, <3>1 DEF Seqs, NoSeq
  <2>10. TypeOK'
    BY <1>1, <2>6 DEF TypeOK, Conns, Seqs
  <2>11. RunInv' /\ CursorInv' /\ ConnInv'
    BY <1>1, <1>2, <1>7, <2>6 DEF RunInv, CursorInv, ConnInv, SocketOpen
  <2>12. WireInv'
    BY <1>1, <1>5, <2>6, <2>8, <2>9 DEF WireInv, NothingLost
  <2>13. QED BY <2>10, <2>11, <2>12 DEF StreamInv
<1>8. CASE ~run.active /\ ~run.present /\ conn' = [conn EXCEPT !.state = "refused"]
  <2>1. /\ conn'.state = "refused" /\ conn'.wire = <<>> /\ conn'.cursor = conn.cursor
        /\ conn'.mark = NoSeq /\ ~conn'.terminal /\ ~conn'.settled /\ ~conn'.hung
        /\ conn' \in Conns
    BY <1>t, <1>3, <1>8 DEF Conns, States
  <2>2. TypeOK'
    BY <1>1, <2>1 DEF TypeOK, Conns, Seqs
  <2>3. RunInv' /\ CursorInv' /\ ConnInv'
    BY <1>1, <1>2, <1>8, <2>1 DEF RunInv, CursorInv, ConnInv, SocketOpen
  <2>4. WireInv'
    BY <1>1, <1>5, <2>1 DEF WireInv, NothingLost, Contiguous
  <2>5. QED BY <2>2, <2>3, <2>4 DEF StreamInv
<1>9. QED BY <1>6, <1>7, <1>8 DEF StreamRun

\* One more event at the end of what was on the wire.
LEMMA AppendContiguous ==
  ASSUME NEW w \in Seq(Events), Contiguous(w), NEW e \in Events, e.seq \in Nat,
         w # <<>> => w[Len(w)].seq = e.seq - 1 /\ w[Len(w)].seq # NoSeq
  PROVE  Contiguous(Append(w, e))
<1> DEFINE v == Append(w, e)
<1>1. /\ Len(w) \in Nat /\ Len(v) = Len(w) + 1 /\ v[Len(w) + 1] = e
      /\ \A i \in 1..Len(w) : v[i] = w[i]
  OBVIOUS
<1> HIDE DEF v
<1>2. ASSUME NEW i \in 1..Len(v), NEW j \in 1..Len(v), i < j, v[j].seq # NoSeq
      PROVE  v[i].seq = v[j].seq - (j - i)
  <2>1. i \in 1..Len(w)
    BY <1>1, <1>2
  <2>2. CASE j \in 1..Len(w)
    BY <1>1, <1>2, <2>1, <2>2 DEF Contiguous
  <2>3. CASE j = Len(w) + 1
    <3>1. w # <<>> /\ Len(w) \in 1..Len(w) /\ w[Len(w)].seq = e.seq - 1
      BY <1>1, <2>1
    <3>2. w[Len(w)].seq # NoSeq
      BY <3>1
    <3>3. i # Len(w) => w[i].seq = w[Len(w)].seq - (Len(w) - i)
      BY <2>1, <3>1, <3>2 DEF Contiguous
    <3>4. v[i].seq = w[i].seq /\ v[j].seq = e.seq
      BY <1>1, <2>1, <2>3
    <3>5. QED BY <1>1, <2>1, <2>3, <3>1, <3>3, <3>4
  <2>4. QED BY <1>1, <2>2, <2>3
<1>3. QED BY <1>2 DEF Contiguous, v

\* What an event does to the connection and the log of a live run.
LEMMA EmitFacts ==
  ASSUME TypeOK, StreamInv, run.active, NEW kind \in Kinds, Emit(kind)
  PROVE  /\ emitted' \in Seq(Kinds) /\ Len(emitted') = Len(emitted) + 1
         /\ emitted'[Len(emitted) + 1] = kind
         /\ \A i \in 1..Len(emitted) : emitted'[i] = emitted[i]
         /\ kind # "rating" => ~HasEmitted("rating")'
         /\ conn' \in Conns /\ conn'.cursor = conn.cursor /\ conn'.hung = conn.hung
         /\ conn.state # "live" => conn' = conn
         /\ conn.state = "live" =>
              /\ conn'.mark = Len(emitted)
              /\ conn'.terminal = (conn.terminal \/ kind = "terminal")
              /\ conn'.settled = (kind = "rating")
              /\ conn'.state = IF conn'.terminal /\ conn'.settled THEN "ended" ELSE "live"
              /\ conn'.wire = IF conn.hung THEN conn.wire
                              ELSE Append(conn.wire, [seq |-> Len(emitted), kind |-> kind])
         /\ Contiguous(conn'.wire)
         /\ \A i \in 1..Len(conn'.wire) : conn'.wire[i].seq < Len(emitted) + 1
         /\ ~conn.hung /\ conn.state = "live" =>
              /\ conn'.wire # <<>> /\ conn'.mark # NoSeq
              /\ conn'.wire[Len(conn'.wire)].seq = conn'.mark
         /\ ~hist.behind /\ conn'.wire # <<>> => conn'.wire[1].seq <= client.lastSeq + 1
<1> DEFINE e == [seq |-> Len(emitted), kind |-> kind]
<1>1. /\ emitted \in Seq(Kinds) /\ Len(emitted) \in Nat /\ conn \in Conns
      /\ client.lastSeq \in Seqs
  BY DEF TypeOK, Kinds, Conns, Seqs
<1>2. RunInv /\ ConnInv /\ WireInv /\ ~HasEmitted("rating")
  BY DEF StreamInv, RunInv
<1>3. /\ emitted' = Append(emitted, kind)
      /\ conn' = IF conn.state = "live" THEN forward(conn, e) ELSE conn
  BY DEF Emit
<1>4. /\ emitted' \in Seq(Kinds) /\ Len(emitted') = Len(emitted) + 1
      /\ emitted'[Len(emitted) + 1] = kind
      /\ \A i \in 1..Len(emitted) : emitted'[i] = emitted[i]
  BY <1>1, <1>3
<1>5. kind # "rating" => ~HasEmitted("rating")'
  BY <1>1, <1>2, <1>4 DEF HasEmitted
<1>6. CASE conn.state # "live"
  <2>1. conn' = conn
    BY <1>3, <1>6
  <2>2. \A i \in 1..Len(conn.wire) : conn.wire[i].seq < Len(emitted) + 1
    <3>1. \A i \in 1..Len(conn.wire) : conn.wire[i].seq \in Int /\ conn.wire[i].seq < Len(emitted)
      <4>1. \A i \in 1..Len(conn.wire) : conn.wire[i] \in Events
        BY <1>1 DEF Conns
      <4>2. \A x \in Events : x.seq \in Int
        BY DEF Events, NoSeq
      <4>3. QED BY <1>2, <4>1, <4>2 DEF RunInv
    <3>2. QED BY <1>1, <3>1
  <2>3. QED BY <1>1, <1>2, <1>4, <1>5, <1>6, <2>1, <2>2 DEF WireInv
<1>7. CASE conn.state = "live"
  <2>1. e \in Events /\ e.seq = Len(emitted) /\ e.seq \in Nat /\ e.kind = kind
    BY <1>1 DEF Events, Kinds
  <2>2. /\ ~conn.settled /\ ~(conn.terminal /\ conn.settled) /\ conn.mark = Len(emitted) - 1
        /\ conn.mark < e.seq
    BY <1>1, <1>2, <1>7, <2>1 DEF ConnInv
  <2>3. conn' = forward(conn, e)
    BY <1>3, <1>7
  <2> HIDE DEF e
  <2>4. /\ conn'.cursor = conn.cursor /\ conn'.hung = conn.hung
        /\ conn'.mark = e.seq
        /\ conn'.wire = IF conn.hung THEN conn.wire ELSE Append(conn.wire, e)
        /\ conn'.terminal = (conn.terminal \/ e.kind = "terminal")
        /\ conn'.settled = (conn.settled \/ e.kind = "rating")
        /\ conn'.state = IF conn'.terminal /\ conn'.settled THEN "ended" ELSE "live"
    BY <1>1, <1>7, <2>1, <2>2, <2>3, ForwardFresh
  <2>5. conn' \in Conns
    BY <1>1, <2>1, <2>3, ForwardType
  <2>6. conn'.settled = (kind = "rating")
    BY <2>1, <2>2, <2>4
  <2>7. conn.wire \in Seq(Events) /\ (conn.hung => conn.wire = <<>>)
    BY <1>1, <1>2 DEF Conns, ConnInv
  <2>8. CASE conn.hung
    <3>1. conn'.wire = <<>>
      BY <2>4, <2>7, <2>8
    <3>2. QED BY <1>4, <1>5, <1>7, <2>1, <2>4, <2>5, <2>6, <2>8, <3>1 DEF Contiguous, e
  <2>9. CASE ~conn.hung
    <3>1. IF conn.wire = <<>> THEN conn.mark <= client.lastSeq
          ELSE conn.mark # NoSeq /\ conn.wire[Len(conn.wire)].seq = conn.mark
      BY <1>2, <1>7, <2>9 DEF WireInv
    <3>2. conn'.wire = Append(conn.wire, e) /\ Contiguous(conn.wire)
      BY <1>2, <2>4, <2>9 DEF WireInv
    <3>3. Contiguous(conn'.wire)
      BY <2>1, <2>2, <2>7, <3>1, <3>2, AppendContiguous
    <3>4. /\ conn'.wire # <<>> /\ conn'.wire[Len(conn'.wire)].seq = conn'.mark
          /\ conn'.mark # NoSeq
          /\ Len(conn'.wire) = Len(conn.wire) + 1
          /\ conn'.wire[Len(conn.wire) + 1] = e
          /\ \A i \in 1..Len(conn.wire) : conn'.wire[i] = conn.wire[i]
      <4>1. conn'.mark # NoSeq
        BY <2>1, <2>4 DEF NoSeq
      <4>2. QED BY <2>4, <2>7, <3>2, <4>1
    <3>5. \A i \in 1..Len(conn'.wire) : conn'.wire[i].seq < Len(emitted) + 1
      <4>1. ASSUME NEW i \in 1..Len(conn.wire)
            PROVE  conn'.wire[i].seq < Len(emitted) + 1
        <5>1. conn.wire[i].seq \in Int /\ conn.wire[i].seq < Len(emitted)
          <6>1. conn.wire[i] \in Events
            BY <2>7
          <6>2. conn.wire[i].seq \in Int
            BY <6>1 DEF Events, NoSeq
          <6>3. QED BY <1>2, <6>2 DEF RunInv
        <5>2. QED BY <1>1, <3>4, <5>1
      <4>2. conn'.wire[Len(conn.wire) + 1].seq < Len(emitted) + 1
        BY <1>1, <2>1, <3>4
      <4>3. Len(conn.wire) \in Nat
        BY <2>7
      <4>4. \A i \in 1..(Len(conn.wire) + 1) : i \in 1..Len(conn.wire) \/ i = Len(conn.wire) + 1
        BY <4>3
      <4>5. QED BY <3>4, <4>1, <4>2, <4>4
    <3>6. ~hist.behind /\ conn'.wire # <<>> => conn'.wire[1].seq <= client.lastSeq + 1
      <4>1. CASE conn.wire = <<>>
        <5>1. conn'.wire[1] = e /\ e.seq = conn.mark + 1 /\ conn.mark <= client.lastSeq
          BY <1>1, <2>1, <2>2, <3>1, <3>4, <4>1
        <5>2. QED BY <1>1, <2>1, <2>2, <5>1 DEF Seqs, NoSeq
      <4>2. CASE conn.wire # <<>>
        BY <1>2, <2>7, <3>4, <4>2 DEF WireInv
      <4>3. QED BY <4>1, <4>2
    <3>7. conn'.wire = Append(conn.wire, [seq |-> Len(emitted), kind |-> kind])
      BY <3>2 DEF e
    <3>8. QED BY <1>4, <1>5, <1>7, <2>1, <2>4, <2>5, <2>6, <2>9, <3>3, <3>4, <3>5, <3>6, <3>7
  <2>10. QED BY <2>8, <2>9
<1>8. QED BY <1>6, <1>7

\* An event of a live run; with the settled rating the run leaves the manager.
LEMMA EmitKeeps ==
  ASSUME TypeOK, StreamInv, run.active, NEW kind \in Kinds, Emit(kind),
         UNCHANGED <<logged, client, hist>>,
         run' \in [active : BOOLEAN, present : BOOLEAN, rated : BOOLEAN],
         kind # "rating" => run' = run,
         kind = "rating" => ~run'.active /\ (run'.rated \/ ~run'.present)
  PROVE  TypeOK' /\ StreamInv'
<1>1. Len(emitted) \in Nat /\ logged \in 0..Len(emitted) /\ client.lastSeq \in Seqs
  BY DEF TypeOK, Seqs
<1>2. RunInv /\ CursorInv /\ ConnInv /\ WireInv /\ client.lastSeq < Len(emitted)
  BY DEF StreamInv, RunInv
<1>3. TypeOK'
  <2>1. /\ emitted' \in Seq(Kinds) /\ Len(emitted') = Len(emitted) + 1 /\ conn' \in Conns
    BY EmitFacts
  <2>2. logged' \in 0..Len(emitted')
    BY <1>1, <2>1
  <2>3. QED BY <2>1, <2>2 DEF TypeOK, Kinds, Conns, Seqs
<1>4. RunInv'
  <2>1. Len(emitted') = Len(emitted) + 1
    BY EmitFacts
  <2>2. client'.lastSeq < Len(emitted')
    BY <1>1, <1>2, <2>1 DEF Seqs, NoSeq
  <2>3. \A i \in 1..Len(conn'.wire) : conn'.wire[i].seq < Len(emitted')
    BY <2>1, EmitFacts
  <2>4. run'.active => ~HasEmitted("rating")'
    BY EmitFacts
  <2>5. QED BY <2>2, <2>3, <2>4 DEF RunInv
<1>5. CursorInv'
  <2>1. conn'.cursor = conn.cursor
    BY EmitFacts
  <2>2. QED BY <1>2, <2>1 DEF CursorInv
<1>6. CASE conn.state # "live"
  <2>1. conn' = conn
    BY <1>6, EmitFacts
  <2>2. ConnInv'
    BY <1>2, <1>6, <2>1 DEF ConnInv, SocketOpen
  <2>3. WireInv'
    BY <1>2, <1>6, <2>1 DEF WireInv, NothingLost
  <2>4. QED BY <1>3, <1>4, <1>5, <2>2, <2>3 DEF StreamInv
<1>7. CASE conn.state = "live"
  <2>1. /\ conn'.mark = Len(emitted) /\ conn'.settled = (kind = "rating")
        /\ conn'.state = IF conn'.terminal /\ conn'.settled THEN "ended" ELSE "live"
        /\ conn'.hung = conn.hung
        /\ conn'.terminal = (conn.terminal \/ kind = "terminal")
        /\ conn.hung => conn'.wire = conn.wire
        /\ Len(emitted') = Len(emitted) + 1
    BY <1>7, EmitFacts
  <2>2. conn'.state \in {"ended", "live"} /\ (conn'.hung => conn'.wire = <<>>)
    BY <1>2, <2>1 DEF ConnInv
  <2>3. conn'.mark = Len(emitted') - 1
    BY <1>1, <2>1
  <2>4. kind = "rating" \/ run'.active
    OBVIOUS
  <2>5. ConnInv'
    BY <2>1, <2>2, <2>3 DEF ConnInv, SocketOpen
  <2>6. WireInv'
    <3>1. /\ Contiguous(conn'.wire)
          /\ ~conn.hung => /\ conn'.wire # <<>> /\ conn'.mark # NoSeq
                           /\ conn'.wire[Len(conn'.wire)].seq = conn'.mark
          /\ ~hist.behind /\ conn'.wire # <<>> => conn'.wire[1].seq <= client.lastSeq + 1
      BY <1>7, EmitFacts
    <3>2. QED BY <1>2, <2>1, <3>1 DEF WireInv, NothingLost
  <2>7. QED BY <1>3, <1>4, <1>5, <2>5, <2>6 DEF StreamInv
<1>8. QED BY <1>6, <1>7

\* An event that is neither the terminal status nor the rating.
LEMMA EmitStepKeeps ==
  ASSUME TypeOK, StreamInv, EmitStep \/ EmitTerminal
  PROVE  TypeOK' /\ StreamInv'
<1>1. CASE EmitStep
  <2>1. /\ run.active /\ Emit("step") /\ "step" \in Kinds
        /\ UNCHANGED <<logged, client, hist>> /\ run' = run
        /\ run' \in [active : BOOLEAN, present : BOOLEAN, rated : BOOLEAN]
    BY <1>1 DEF EmitStep, Kinds, TypeOK
  <2>2. QED BY <2>1, EmitKeeps
<1>2. CASE EmitTerminal
  <2>1. /\ run.active /\ Emit("terminal") /\ "terminal" \in Kinds
        /\ UNCHANGED <<logged, client, hist>> /\ run' = run
        /\ run' \in [active : BOOLEAN, present : BOOLEAN, rated : BOOLEAN]
    BY <1>2 DEF EmitTerminal, Kinds, TypeOK
  <2>2. QED BY <2>1, EmitKeeps
<1>3. QED BY <1>1, <1>2

\* The settled rating, which ends a live stream.
LEMMA SettleKeeps ==
  ASSUME TypeOK, StreamInv, Settle
  PROVE  TypeOK' /\ StreamInv'
<1>1. /\ run' = [run EXCEPT !.rated = run.present, !.active = FALSE]
      /\ run' \in [active : BOOLEAN, present : BOOLEAN, rated : BOOLEAN]
      /\ ~run'.active /\ (run'.rated \/ ~run'.present)
      /\ UNCHANGED <<logged, client, hist>>
  BY DEF Settle, TypeOK
<1>2. CASE run.active
  <2>1. Emit("rating") /\ "rating" \in Kinds
    BY <1>2 DEF Settle, Kinds
  <2>2. QED BY <1>1, <1>2, <2>1, EmitKeeps
<1>3. CASE ~run.active
  <2>1. UNCHANGED <<emitted, conn>>
    BY <1>3 DEF Settle
  <2>2. TypeOK'
    BY <1>1, <2>1 DEF TypeOK
  <2>3. RunInv' /\ CursorInv' /\ ConnInv' /\ WireInv'
    BY <1>1, <1>3, <2>1
    DEF StreamInv, RunInv, CursorInv, ConnInv, WireInv, NothingLost, SocketOpen
  <2>4. QED BY <2>2, <2>3 DEF StreamInv
<1>4. QED BY <1>2, <1>3

\* Storing an event touches no connection.
LEMMA PersistKeeps ==
  ASSUME TypeOK, StreamInv, Persist
  PROVE  TypeOK' /\ StreamInv'
<1>1. UNCHANGED <<emitted, run, conn, client, hist>>
  BY DEF Persist
<1>2. logged' \in 0..Len(emitted)
  BY DEF Persist, Quiet, TypeOK
<1>3. TypeOK'
  BY <1>1, <1>2 DEF TypeOK
<1>4. RunInv' /\ CursorInv' /\ ConnInv' /\ WireInv'
  BY <1>1 DEF StreamInv, RunInv, CursorInv, ConnInv, WireInv, NothingLost, SocketOpen, HasEmitted
<1>5. QED BY <1>3, <1>4 DEF StreamInv

\* POST /end writes the verdict and drops the listeners.
LEMMA EndKeeps ==
  ASSUME TypeOK, StreamInv, End
  PROVE  TypeOK' /\ StreamInv'
<1>1. /\ run.active /\ run' = [run EXCEPT !.active = FALSE] /\ ~run'.active
      /\ run' \in [active : BOOLEAN, present : BOOLEAN, rated : BOOLEAN]
      /\ hist'.behind = hist.behind
      /\ hist' \in [drops : Nat, disturbed : BOOLEAN, behind : BOOLEAN]
      /\ UNCHANGED <<logged, client>> /\ emitted' = Append(emitted, "terminal")
  BY DEF End, TypeOK
<1>2. CursorInv /\ ConnInv /\ WireInv
  BY DEF StreamInv
<1>3. emitted \in Seq(Kinds) /\ "terminal" \in Kinds /\ conn \in Conns /\ logged \in 0..Len(emitted)
  BY DEF TypeOK, Kinds, Conns, Seqs
<1>4. emitted' \in Seq(Kinds) /\ logged' \in 0..Len(emitted')
  BY <1>1, <1>3
<1>5. ~hist'.behind => client'.applied = 0..client'.lastSeq
  BY <1>1, <1>2 DEF WireInv, NothingLost
<1>6. CASE conn.state = "live"
  <2> DEFINE d == forward(conn, [seq |-> Len(emitted), kind |-> "terminal"])
  <2>1. conn' = DropListeners(d)
    BY <1>6 DEF End
  <2>2. /\ d \in Conns /\ d.state = "live" /\ ~d.settled /\ d.cursor = conn.cursor
        /\ d.hung => d.wire = <<>>
        /\ Contiguous(d.wire)
        /\ ~hist.behind /\ d.wire # <<>> => d.wire[1].seq <= client.lastSeq + 1
    <3>1. [seq |-> Len(emitted), kind |-> "terminal"] \in Events
      BY <1>3 DEF Events
    <3>2. /\ ~conn.settled /\ conn.mark = Len(emitted) - 1
      BY <1>1, <1>2, <1>6 DEF ConnInv
    <3>3. conn.mark < Len(emitted) /\ Len(emitted) \in Nat
      BY <1>3, <3>2
    <3> DEFINE e == [seq |-> Len(emitted), kind |-> "terminal"]
    <3>4. e.seq = Len(emitted) /\ e.kind = "terminal" /\ e \in Events
      BY <3>1
    <3> HIDE DEF e
    <3>5. /\ d.cursor = conn.cursor /\ d.hung = conn.hung
          /\ d.wire = IF conn.hung THEN conn.wire ELSE Append(conn.wire, e)
          /\ d.settled = (conn.settled \/ e.kind = "rating")
          /\ d.state = IF d.terminal /\ d.settled THEN "ended" ELSE "live"
      BY <1>3, <1>6, <3>3, <3>4, ForwardFresh DEF e
    <3>6. d \in Conns
      BY <1>3, <3>1, ForwardType
    <3>7. ~d.settled /\ d.state = "live"
      BY <3>2, <3>4, <3>5
    <3>8. conn.wire \in Seq(Events)
      BY <1>3 DEF Conns
    <3>9. CASE conn.hung
      <4>1. d.wire = <<>> /\ d.wire = conn.wire
        BY <1>2, <3>5, <3>9 DEF ConnInv
      <4>2. QED BY <1>2, <3>5, <3>6, <3>7, <4>1 DEF WireInv
    <3>10. CASE ~conn.hung
      <4>1. IF conn.wire = <<>> THEN conn.mark <= client.lastSeq
            ELSE conn.mark # NoSeq /\ conn.wire[Len(conn.wire)].seq = conn.mark
        BY <1>1, <1>2, <1>6, <3>10 DEF WireInv
      <4>2. d.wire = Append(conn.wire, e) /\ Contiguous(conn.wire) /\ ~d.hung
        BY <1>2, <3>5, <3>10 DEF WireInv
      <4>3. Contiguous(d.wire)
        BY <3>2, <3>3, <3>4, <3>8, <4>1, <4>2, AppendContiguous
      <4>4. ~hist.behind /\ d.wire # <<>> => d.wire[1].seq <= client.lastSeq + 1
        <5>1. CASE conn.wire = <<>>
          <6>1. d.wire[1] = e
            BY <3>4, <3>8, <4>2, <5>1
          <6>2. client.lastSeq \in Int
            BY DEF TypeOK, NoSeq
          <6>3. QED BY <3>2, <3>3, <3>4, <4>1, <5>1, <6>1, <6>2
        <5>2. CASE conn.wire # <<>>
          <6>1. d.wire[1] = conn.wire[1]
            BY <3>8, <4>2, <5>2
          <6>2. QED BY <1>2, <5>2, <6>1 DEF WireInv
        <5>3. QED BY <5>1, <5>2
      <4>5. QED BY <3>5, <3>6, <3>7, <4>2, <4>3, <4>4
    <3>11. QED BY <3>9, <3>10
  <2> HIDE DEF d
  <2>3. /\ conn' \in Conns /\ conn'.state = "mute" /\ conn'.cursor = conn.cursor
        /\ conn'.wire = d.wire /\ conn'.hung = d.hung
    BY <2>1, <2>2 DEF DropListeners, Conns, States
  <2>4. TypeOK'
    BY <1>1, <1>4, <2>3 DEF TypeOK, Conns, Seqs, Kinds
  <2>5. RunInv' /\ CursorInv' /\ ConnInv' /\ WireInv'
    BY <1>1, <1>2, <1>5, <2>2, <2>3 DEF RunInv, CursorInv, ConnInv, WireInv, NothingLost, SocketOpen
  <2>6. QED BY <2>4, <2>5 DEF StreamInv
<1>7. CASE conn.state # "live"
  <2>1. conn' = conn
    BY <1>7 DEF End, DropListeners
  <2>2. TypeOK'
    BY <1>1, <1>4, <2>1 DEF TypeOK, Kinds
  <2>3. RunInv' /\ CursorInv' /\ ConnInv' /\ WireInv'
    BY <1>1, <1>2, <1>5, <1>7, <2>1 DEF RunInv, CursorInv, ConnInv, WireInv, NothingLost, SocketOpen
  <2>4. QED BY <2>2, <2>3 DEF StreamInv
<1>8. QED BY <1>6, <1>7

\* DELETE drops the listeners.
LEMMA DeleteKeeps ==
  ASSUME TypeOK, StreamInv, Delete
  PROVE  TypeOK' /\ StreamInv'
<1>1. /\ run' = [run EXCEPT !.active = FALSE, !.present = FALSE]
      /\ run' \in [active : BOOLEAN, present : BOOLEAN, rated : BOOLEAN]
      /\ ~run'.active /\ ~run'.present
      /\ hist'.behind = hist.behind
      /\ hist' \in [drops : Nat, disturbed : BOOLEAN, behind : BOOLEAN]
      /\ UNCHANGED <<emitted, logged, client>> /\ conn' = DropListeners(conn)
  BY DEF Delete, TypeOK
<1>2. /\ conn' \in Conns /\ conn'.cursor = conn.cursor /\ conn'.wire = conn.wire
      /\ conn'.hung = conn.hung /\ conn'.terminal = conn.terminal /\ conn'.settled = conn.settled
      /\ conn'.mark = conn.mark
      /\ conn'.state = IF conn.state = "live" THEN "mute" ELSE conn.state
  BY <1>1 DEF TypeOK, Conns, Seqs, DropListeners, States
<1>3. TypeOK'
  BY <1>1, <1>2 DEF TypeOK, Conns, Seqs
<1>4. RunInv' /\ CursorInv' /\ WireInv'
  BY <1>1, <1>2 DEF StreamInv, RunInv, CursorInv, WireInv, NothingLost
<1>5. ConnInv'
  BY <1>1, <1>2 DEF StreamInv, ConnInv, SocketOpen
<1>6. QED BY <1>3, <1>4, <1>5 DEF StreamInv

\* A connection that the console gave up, or asks for anew.
LEMMA ClosedKeeps ==
  ASSUME StreamInv, conn' = NoConn \/ conn' = Requested(client.lastId),
         client'.lastSeq = client.lastSeq, client'.applied = client.applied,
         client'.lastId = client.lastId,
         run'.active => run.active /\ emitted' = emitted,
         hist'.behind = hist.behind,
         client.lastSeq \in Seqs, client.lastId \in Seqs
  PROVE  StreamInv' /\ conn' \in Conns
<1>1. /\ conn' \in Conns /\ conn'.cursor \in {NoSeq, client.lastId} /\ conn'.wire = <<>>
      /\ ~conn'.hung /\ ~conn'.terminal /\ ~conn'.settled /\ conn'.mark = NoSeq
      /\ conn'.state \in {"none", "requested"}
  <2>1. /\ NoConn \in Conns /\ NoConn.cursor = NoSeq /\ NoConn.wire = <<>> /\ ~NoConn.hung
        /\ ~NoConn.terminal /\ ~NoConn.settled /\ NoConn.mark = NoSeq /\ NoConn.state = "none"
    BY DEF NoConn, Conns, States, Seqs
  <2>2. CASE conn' = NoConn
    BY <2>1, <2>2
  <2>3. CASE conn' = Requested(client.lastId)
    <3>1. conn' = [NoConn EXCEPT !.state = "requested", !.cursor = client.lastId]
      BY <2>3 DEF Requested
    <3> HIDE DEF NoConn
    <3>2. QED BY <2>1, <3>1 DEF Conns, States
  <2>4. QED BY <2>2, <2>3
<1>2. RunInv /\ CursorInv /\ WireInv
  BY DEF StreamInv
<1>3. RunInv'
  BY <1>1, <1>2 DEF RunInv, HasEmitted
<1>4. CursorInv'
  BY <1>1, <1>2 DEF CursorInv, Seqs, NoSeq
<1>5. ConnInv' /\ WireInv'
  BY <1>1, <1>2 DEF ConnInv, SocketOpen, WireInv, NothingLost, Contiguous
<1>6. QED BY <1>1, <1>3, <1>4, <1>5 DEF StreamInv

\* Whatever closes a connection keeps what the console knows.
LEMMA LostKeeps ==
  ASSUME TypeOK, StreamInv, LoseConnection,
         run'.active => run.active /\ emitted' = emitted, hist'.behind = hist.behind
  PROVE  /\ StreamInv' /\ conn' \in Conns
         /\ client' \in [mounted : BOOLEAN, open : BOOLEAN, lastSeq : Seqs, lastId : Seqs,
                         applied : SUBSET Nat, terminal : BOOLEAN, settled : BOOLEAN]
<1>1. client \in [mounted : BOOLEAN, open : BOOLEAN, lastSeq : Seqs, lastId : Seqs,
                  applied : SUBSET Nat, terminal : BOOLEAN, settled : BOOLEAN]
  BY DEF TypeOK, Seqs
<1>2. /\ conn' = NoConn \/ conn' = Requested(client.lastId)
      /\ client' = client \/ client' = [client EXCEPT !.open = FALSE]
  BY DEF LoseConnection
<1>3. /\ client'.lastSeq = client.lastSeq /\ client'.applied = client.applied
      /\ client'.lastId = client.lastId
      /\ client' \in [mounted : BOOLEAN, open : BOOLEAN, lastSeq : Seqs, lastId : Seqs,
                      applied : SUBSET Nat, terminal : BOOLEAN, settled : BOOLEAN]
  BY <1>1, <1>2
<1>4. QED BY <1>1, <1>2, <1>3, ClosedKeeps

\* A connection that a console has just asked for.
LEMMA RequestedFacts ==
  ASSUME NEW cursor \in Seqs, NEW c, c = Requested(cursor)
  PROVE  /\ c \in Conns /\ c.cursor = cursor /\ c.wire = <<>> /\ c.mark = NoSeq
         /\ ~c.hung /\ ~c.terminal /\ ~c.settled /\ c.state = "requested"
<1>1. /\ NoConn \in Conns /\ NoConn.wire = <<>> /\ NoConn.mark = NoSeq
      /\ ~NoConn.hung /\ ~NoConn.terminal /\ ~NoConn.settled
  BY DEF NoConn, Conns, States, Seqs
<1>2. c = [NoConn EXCEPT !.state = "requested", !.cursor = cursor] /\ "requested" \in States
  BY DEF Requested, States
<1> HIDE DEF NoConn
<1>3. QED BY <1>1, <1>2 DEF Conns

\* The first connect.
LEMMA MountKeeps ==
  ASSUME TypeOK, StreamInv, Mount
  PROVE  TypeOK' /\ StreamInv'
<1>1. /\ conn' = Requested(NoSeq) /\ UNCHANGED <<emitted, logged, run, hist>>
      /\ client' = [client EXCEPT !.mounted = TRUE, !.open = TRUE]
  BY DEF Mount
<1>2. /\ conn' \in Conns /\ conn'.cursor = NoSeq /\ conn'.wire = <<>>
      /\ ~conn'.hung /\ ~conn'.terminal /\ ~conn'.settled /\ conn'.mark = NoSeq
      /\ conn'.state = "requested"
  <2>1. NoSeq \in Seqs
    BY DEF Seqs
  <2>2. QED BY <1>1, <2>1, RequestedFacts
<1>3. TypeOK'
  BY <1>1, <1>2 DEF TypeOK, Conns, Seqs
<1>4. client'.lastSeq = client.lastSeq /\ client'.lastId = client.lastId
      /\ client'.applied = client.applied
  BY <1>1 DEF TypeOK
<1>5. RunInv' /\ CursorInv'
  BY <1>1, <1>2, <1>4 DEF StreamInv, RunInv, CursorInv, HasEmitted, TypeOK, NoSeq
<1>6. ConnInv' /\ WireInv'
  BY <1>1, <1>2, <1>4 DEF StreamInv, ConnInv, SocketOpen, WireInv, NothingLost, Contiguous
<1>7. QED BY <1>3, <1>5, <1>6 DEF StreamInv

\* The watchdog connects without a cursor.
LEMMA WatchdogKeeps ==
  ASSUME TypeOK, StreamInv, Watchdog
  PROVE  TypeOK' /\ StreamInv'
<1>1. /\ conn' = Requested(NoSeq) /\ UNCHANGED <<emitted, logged, run, hist>>
      /\ client' = [client EXCEPT !.lastId = NoSeq]
  BY DEF Watchdog
<1>2. /\ conn' \in Conns /\ conn'.cursor = NoSeq /\ conn'.wire = <<>>
      /\ ~conn'.hung /\ ~conn'.terminal /\ ~conn'.settled /\ conn'.mark = NoSeq
      /\ conn'.state = "requested"
  <2>1. NoSeq \in Seqs
    BY DEF Seqs
  <2>2. QED BY <1>1, <2>1, RequestedFacts
<1>3. TypeOK'
  BY <1>1, <1>2 DEF TypeOK, Conns, Seqs
<1>4. client'.lastSeq = client.lastSeq /\ client'.lastId = NoSeq
      /\ client'.applied = client.applied
  BY <1>1 DEF TypeOK
<1>5. RunInv' /\ CursorInv'
  BY <1>1, <1>2, <1>4 DEF StreamInv, RunInv, CursorInv, HasEmitted, TypeOK, NoSeq
<1>6. ConnInv' /\ WireInv'
  BY <1>1, <1>2, <1>4 DEF StreamInv, ConnInv, SocketOpen, WireInv, NothingLost, Contiguous
<1>7. QED BY <1>3, <1>5, <1>6 DEF StreamInv

\* The end of a response and a broken connection.
LEMMA BrokenKeeps ==
  ASSUME TypeOK, StreamInv, EndOfStream \/ Drop
  PROVE  TypeOK' /\ StreamInv'
<1>1. /\ LoseConnection /\ UNCHANGED <<emitted, logged, run>>
      /\ hist'.behind = hist.behind
      /\ hist' \in [drops : Nat, disturbed : BOOLEAN, behind : BOOLEAN]
  BY DEF EndOfStream, Drop, TypeOK
<1>2. /\ StreamInv' /\ conn' \in Conns
      /\ client' \in [mounted : BOOLEAN, open : BOOLEAN, lastSeq : Seqs, lastId : Seqs,
                      applied : SUBSET Nat, terminal : BOOLEAN, settled : BOOLEAN]
  BY <1>1, LostKeeps
<1>3. TypeOK'
  BY <1>1, <1>2 DEF TypeOK, Conns, Seqs
<1>4. QED BY <1>2, <1>3

\* A connection that hangs carries nothing more.
LEMMA HangKeeps ==
  ASSUME TypeOK, StreamInv, Hang
  PROVE  TypeOK' /\ StreamInv'
<1>1. /\ UNCHANGED <<emitted, logged, run, client>>
      /\ hist'.behind = hist.behind
      /\ hist' \in [drops : Nat, disturbed : BOOLEAN, behind : BOOLEAN]
      /\ SocketOpen
  BY DEF Hang, TypeOK
<1>2. /\ conn' \in Conns /\ conn'.wire = <<>> /\ conn'.hung
      /\ conn'.state = conn.state /\ conn'.cursor = conn.cursor /\ conn'.mark = conn.mark
      /\ conn'.terminal = conn.terminal /\ conn'.settled = conn.settled
  <2>1. conn \in Conns /\ conn' = [conn EXCEPT !.hung = TRUE, !.wire = <<>>]
    BY DEF Hang, TypeOK, Conns, Seqs
  <2>2. <<>> \in Seq(Events)
    OBVIOUS
  <2>3. QED BY <2>1, <2>2 DEF Conns
<1>3. TypeOK'
  BY <1>1, <1>2 DEF TypeOK, Conns, Seqs
<1>4. RunInv' /\ CursorInv' /\ WireInv'
  BY <1>1, <1>2
  DEF StreamInv, RunInv, CursorInv, WireInv, NothingLost, Contiguous, HasEmitted
<1>5. ConnInv'
  BY <1>1, <1>2 DEF StreamInv, ConnInv, SocketOpen
<1>6. QED BY <1>3, <1>4, <1>5 DEF StreamInv

\* A crash cuts the run to its log.
LEMMA CrashKeeps ==
  ASSUME TypeOK, StreamInv, Crash
  PROVE  TypeOK' /\ StreamInv'
<1>1. /\ run.active \/ (run.present /\ ~run.rated)
      /\ run' = [run EXCEPT !.active = FALSE, !.rated = TRUE] /\ ~run'.active
      /\ run' \in [active : BOOLEAN, present : BOOLEAN, rated : BOOLEAN]
      /\ hist'.behind = hist.behind
      /\ hist' \in [drops : Nat, disturbed : BOOLEAN, behind : BOOLEAN]
      /\ emitted' = SubSeq(emitted, 1, logged) /\ logged' = logged
  BY DEF Crash, TypeOK
<1>2. emitted' \in Seq(Kinds) /\ logged' \in 0..Len(emitted')
  <2>1. emitted \in Seq(Kinds) /\ logged \in 0..Len(emitted)
    BY DEF TypeOK, Kinds
  <2>2. \A i \in 1..logged : emitted[i] \in Kinds
    BY <2>1
  <2>3. /\ SubSeq(emitted, 1, logged) \in Seq(Kinds)
        /\ Len(SubSeq(emitted, 1, logged)) = IF 1 <= logged THEN logged - 1 + 1 ELSE 0
    <3>1. logged \in Int /\ 1 \in Int
      BY <2>1
    <3>2. QED BY <2>2, <3>1, SubSeqProperties
  <2>4. QED BY <1>1, <2>1, <2>3
<1>3. CASE SocketOpen /\ ~conn.hung
  <2>1. LoseConnection
    BY <1>3 DEF Crash
  <2>2. /\ StreamInv' /\ conn' \in Conns
        /\ client' \in [mounted : BOOLEAN, open : BOOLEAN, lastSeq : Seqs, lastId : Seqs,
                        applied : SUBSET Nat, terminal : BOOLEAN, settled : BOOLEAN]
    BY <1>1, <2>1, LostKeeps
  <2>3. TypeOK'
    BY <1>1, <1>2, <2>2 DEF TypeOK, Conns, Seqs, Kinds
  <2>4. QED BY <2>2, <2>3
<1>4. CASE ~(SocketOpen /\ ~conn.hung)
  <2>1. UNCHANGED <<conn, client>>
    BY <1>4 DEF Crash
  <2>2. TypeOK'
    BY <1>1, <1>2, <2>1 DEF TypeOK, Kinds
  <2>3. RunInv' /\ CursorInv' /\ WireInv'
    BY <1>1, <2>1 DEF StreamInv, RunInv, CursorInv, WireInv, NothingLost
  <2>4. ConnInv'
    BY <1>1, <2>1 DEF StreamInv, ConnInv, SocketOpen
  <2>5. QED BY <2>2, <2>3, <2>4 DEF StreamInv
<1>5. QED BY <1>3, <1>4

\* One event is read from the wire.
LEMMA DeliverKeeps ==
  ASSUME TypeOK, StreamInv, Deliver
  PROVE  TypeOK' /\ StreamInv'
<1> DEFINE e == Head(conn.wire)
           stale == e.seq # NoSeq /\ e.seq <= client.lastSeq
           terminal == client.terminal \/ (~stale /\ e.kind = "terminal")
           settled == client.settled \/ (~stale /\ e.kind = "rating")
           done == terminal /\ settled /\ ~stale
<1>1. /\ conn \in Conns /\ conn.wire \in Seq(Events) /\ conn.wire # <<>>
      /\ Len(conn.wire) \in Nat \ {0} /\ e = conn.wire[1] /\ e \in Events
      /\ Len(emitted) \in Nat
  BY DEF TypeOK, Conns, Seqs, Deliver
<1>2. e.seq \in Seqs /\ e.seq \in Int
  <2>1. \A x \in Events : x.seq \in Seqs /\ x.seq \in Int
    BY DEF Events, Seqs, NoSeq
  <2> HIDE DEF e
  <2>2. QED BY <1>1, <2>1
<1>3. /\ client \in [mounted : BOOLEAN, open : BOOLEAN, lastSeq : Seqs, lastId : Seqs,
                     applied : SUBSET Nat, terminal : BOOLEAN, settled : BOOLEAN]
      /\ client.lastSeq \in Int
  BY DEF TypeOK, Seqs, NoSeq
<1>4. /\ client' = [client EXCEPT
             !.lastId = IF e.seq = NoSeq THEN @ ELSE e.seq,
             !.lastSeq = IF stale \/ e.seq = NoSeq THEN @ ELSE e.seq,
             !.applied = IF stale \/ e.seq = NoSeq THEN @ ELSE @ \cup {e.seq},
             !.terminal = terminal, !.settled = settled, !.open = ~done]
      /\ conn' = IF done THEN NoConn ELSE [conn EXCEPT !.wire = Tail(@)]
      /\ UNCHANGED <<emitted, logged, run, hist>>
  BY DEF Deliver
<1>5. done \in BOOLEAN /\ terminal \in BOOLEAN /\ settled \in BOOLEAN /\ stale \in BOOLEAN
  BY <1>3
<1> HIDE DEF e, stale, terminal, settled, done
<1>6. /\ client' \in [mounted : BOOLEAN, open : BOOLEAN, lastSeq : Seqs, lastId : Seqs,
                      applied : SUBSET Nat, terminal : BOOLEAN, settled : BOOLEAN]
      /\ client'.lastId = IF e.seq = NoSeq THEN client.lastId ELSE e.seq
      /\ client'.lastSeq = IF stale \/ e.seq = NoSeq THEN client.lastSeq ELSE e.seq
      /\ client'.applied = IF stale \/ e.seq = NoSeq THEN client.applied
                           ELSE client.applied \cup {e.seq}
  <2>1. e.seq # NoSeq => e.seq \in Nat
    BY <1>2 DEF Seqs
  <2>2. QED BY <1>2, <1>3, <1>4, <1>5, <2>1
<1>7. RunInv /\ CursorInv /\ ConnInv /\ WireInv /\ SocketOpen
  BY DEF StreamInv, Deliver
<1>8. /\ e.seq <= client'.lastSeq /\ client.lastSeq <= client'.lastSeq
      /\ client'.lastId <= client'.lastSeq /\ client'.lastSeq \in Int
  BY <1>2, <1>3, <1>6, <1>7 DEF stale, CursorInv, Seqs, NoSeq
<1>9. run.active => client'.lastSeq < Len(emitted)
  <2>1. run.active => e.seq < Len(emitted)
    BY <1>1, <1>7 DEF RunInv
  <2>2. QED BY <1>6, <1>7, <2>1 DEF RunInv
<1>10. ~hist.behind => client'.applied = 0..client'.lastSeq
  <2>1. SUFFICES ASSUME ~hist.behind PROVE client'.applied = 0..client'.lastSeq
    OBVIOUS
  <2>2. client.applied = 0..client.lastSeq /\ e.seq <= client.lastSeq + 1
    BY <1>1, <1>7, <2>1 DEF WireInv, NothingLost
  <2>3. CASE stale \/ e.seq = NoSeq
    BY <1>6, <2>2, <2>3
  <2>4. CASE ~(stale \/ e.seq = NoSeq)
    <3>1. e.seq = client.lastSeq + 1 /\ e.seq \in Nat
      BY <1>2, <1>3, <2>2, <2>4 DEF stale, Seqs
    <3>2. 0..e.seq = (0..client.lastSeq) \cup {e.seq}
      BY <1>3, <3>1
    <3>3. QED BY <1>6, <2>2, <2>4, <3>2
  <2>5. QED BY <2>3, <2>4
<1>11. CASE done
  <2>1. conn' = NoConn
    BY <1>4, <1>11
  <2>2. /\ conn' \in Conns /\ conn'.cursor = NoSeq /\ conn'.wire = <<>> /\ ~conn'.hung
        /\ ~conn'.terminal /\ ~conn'.settled /\ conn'.mark = NoSeq /\ conn'.state = "none"
    BY <2>1 DEF NoConn, Conns, States, Seqs
  <2>3. TypeOK'
    BY <1>4, <1>6, <2>2 DEF TypeOK, Conns, Seqs
  <2>4. RunInv'
    BY <1>4, <1>7, <1>9, <2>2 DEF RunInv, HasEmitted
  <2>5. CursorInv'
    BY <1>6, <1>8, <2>2 DEF CursorInv, Seqs, NoSeq
  <2>6. ConnInv' /\ WireInv'
    BY <1>4, <1>10, <2>2 DEF ConnInv, SocketOpen, WireInv, NothingLost, Contiguous
  <2>7. QED BY <2>3, <2>4, <2>5, <2>6 DEF StreamInv
<1>12. CASE ~done
  <2> DEFINE w == conn.wire
             v == Tail(conn.wire)
  <2>1. conn' = [conn EXCEPT !.wire = v]
    BY <1>4, <1>12
  <2>2. /\ v \in Seq(Events) /\ Len(v) = Len(w) - 1
        /\ \A i \in 1..Len(v) : v[i] = w[i + 1] /\ i + 1 \in 1..Len(w)
    BY <1>1
  <2> HIDE DEF v
  <2>3. /\ conn' \in Conns /\ conn'.wire = v /\ conn'.state = conn.state
        /\ conn'.cursor = conn.cursor /\ conn'.mark = conn.mark /\ conn'.hung = conn.hung
        /\ conn'.terminal = conn.terminal /\ conn'.settled = conn.settled
    BY <1>1, <2>1, <2>2 DEF Conns
  <2>4. Len(w) \in Nat \ {0} /\ Contiguous(w) /\ e = w[1]
    BY <1>1, <1>7 DEF WireInv
  <2>5. TypeOK'
    BY <1>4, <1>6, <2>3 DEF TypeOK, Conns, Seqs
  <2>6. RunInv'
    <3>1. run.active => \A i \in 1..Len(v) : v[i].seq < Len(emitted)
      BY <1>7, <2>2 DEF RunInv
    <3>2. QED BY <1>4, <1>7, <1>9, <2>3, <3>1 DEF RunInv, HasEmitted
  <2>7. CursorInv'
    BY <1>1, <1>3, <1>6, <1>7, <1>8, <2>3 DEF CursorInv, Conns, Seqs, NoSeq
  <2>8. ConnInv'
    <3>1. ~conn.hung
      BY <1>1, <1>7 DEF ConnInv
    <3>2. QED BY <1>4, <1>7, <2>3, <3>1 DEF ConnInv, SocketOpen
  <2>9. Contiguous(v)
    <3>1. ASSUME NEW i \in 1..Len(v), NEW j \in 1..Len(v), i < j, v[j].seq # NoSeq
          PROVE  v[i].seq = v[j].seq - (j - i)
      <4>1. w[i + 1].seq = w[j + 1].seq - ((j + 1) - (i + 1))
        <5>1. i + 1 < j + 1 /\ w[j + 1].seq # NoSeq
          BY <2>2, <3>1
        <5>2. QED BY <2>2, <2>4, <5>1 DEF Contiguous
      <4>2. QED BY <2>2, <4>1
    <3>2. QED BY <3>1 DEF Contiguous
  <2>10. v # <<>> => v[1].seq <= client'.lastSeq + 1
    <3>1. SUFFICES ASSUME v # <<>> PROVE v[1].seq <= client'.lastSeq + 1
      OBVIOUS
    <3>2. 1 \in 1..Len(v) /\ v[1] = w[2] /\ 2 \in 1..Len(w) /\ 1 \in 1..Len(w)
      BY <2>2, <2>4, <3>1
    <3>3. CASE w[2].seq = NoSeq
      BY <1>6, <1>8, <3>2, <3>3 DEF Seqs, NoSeq
    <3>4. CASE w[2].seq # NoSeq
      <4>1. w[1].seq = w[2].seq - (2 - 1)
        BY <2>4, <3>2, <3>4 DEF Contiguous
      <4>2. w[2].seq \in Int
        <5>1. w[2] \in Events
          BY <1>1, <3>2
        <5>2. QED BY <5>1 DEF Events, NoSeq
      <4>3. QED BY <1>2, <1>8, <2>4, <3>2, <4>1, <4>2
    <3>5. QED BY <3>3, <3>4
  <2>11. conn.state = "live" /\ run.active /\ ~conn.hung =>
           IF v = <<>> THEN conn.mark <= client'.lastSeq
           ELSE conn.mark # NoSeq /\ v[Len(v)].seq = conn.mark
    <3>1. SUFFICES ASSUME conn.state = "live", run.active, ~conn.hung
                   PROVE  IF v = <<>> THEN conn.mark <= client'.lastSeq
                          ELSE conn.mark # NoSeq /\ v[Len(v)].seq = conn.mark
      OBVIOUS
    <3>2. conn.mark # NoSeq /\ w[Len(w)].seq = conn.mark
      BY <1>1, <1>7, <3>1 DEF WireInv
    <3>3. CASE v = <<>>
      <4>1. Len(w) = 1
        BY <2>2, <2>4, <3>3
      <4>2. e.seq = conn.mark
        BY <2>4, <3>2, <4>1
      <4>3. QED BY <1>8, <3>3, <4>2
    <3>4. CASE v # <<>>
      <4>1. Len(v) \in 1..Len(v) /\ Len(v) + 1 = Len(w)
        BY <2>2, <2>4, <3>4
      <4>2. v[Len(v)] = w[Len(w)]
        BY <2>2, <4>1
      <4>3. QED BY <3>2, <3>4, <4>2
    <3>5. QED BY <3>3, <3>4
  <2>12. WireInv'
    BY <1>4, <1>10, <2>3, <2>9, <2>10, <2>11 DEF WireInv, NothingLost
  <2>13. QED BY <2>5, <2>6, <2>7, <2>8, <2>12 DEF StreamInv
<1>13. QED BY <1>11, <1>12

-----------------------------------------------------------------------------
(* The theorems. *)

\* The inductive invariant holds at the start ...
LEMMA StreamInit == Init => TypeOK /\ StreamInv
<1>1. SUFFICES ASSUME Init PROVE TypeOK /\ StreamInv
  OBVIOUS
<1>2. /\ emitted = <<>> /\ logged = 0 /\ Len(emitted) = 0
      /\ run = [active |-> TRUE, present |-> TRUE, rated |-> FALSE]
      /\ conn = NoConn /\ ~hist.behind
      /\ client = [mounted |-> FALSE, open |-> FALSE, lastSeq |-> NoSeq, lastId |-> NoSeq,
                   applied |-> {}, terminal |-> FALSE, settled |-> FALSE]
      /\ hist \in [drops : Nat, disturbed : BOOLEAN, behind : BOOLEAN]
  BY <1>1 DEF Init
<1>3. /\ conn \in Conns /\ conn.cursor = NoSeq /\ conn.wire = <<>> /\ ~conn.hung
      /\ ~conn.terminal /\ ~conn.settled /\ conn.mark = NoSeq /\ conn.state = "none"
  BY <1>2 DEF NoConn, Conns, States, Seqs
<1>4. TypeOK
  BY <1>2, <1>3 DEF TypeOK, Conns, Seqs
<1>5. RunInv /\ CursorInv
  BY <1>2, <1>3 DEF RunInv, CursorInv, HasEmitted, NoSeq
<1>6. client.applied = 0..client.lastSeq
  BY <1>2 DEF NoSeq
<1>7. ConnInv /\ WireInv
  BY <1>2, <1>3, <1>6 DEF ConnInv, SocketOpen, WireInv, NothingLost, Contiguous
<1>8. QED BY <1>4, <1>5, <1>7 DEF StreamInv

\* ... every step keeps it ...
LEMMA StreamStep == TypeOK /\ StreamInv /\ [Next]_vars => TypeOK' /\ StreamInv'
<1>1. SUFFICES ASSUME TypeOK, StreamInv, [Next]_vars PROVE TypeOK' /\ StreamInv'
  OBVIOUS
<1>2. CASE UNCHANGED vars
  <2>1. TypeOK'
    BY <1>1, <1>2 DEF TypeOK, vars
  <2>2. RunInv' /\ CursorInv' /\ ConnInv' /\ WireInv'
    BY <1>1, <1>2
    DEF StreamInv, RunInv, CursorInv, ConnInv, WireInv, NothingLost, SocketOpen, HasEmitted, vars
  <2>3. QED BY <2>1, <2>2 DEF StreamInv
<1>3. CASE EmitStep \/ EmitTerminal
  BY <1>1, <1>3, EmitStepKeeps
<1>4. CASE Settle
  BY <1>1, <1>4, SettleKeeps
<1>5. CASE Persist
  BY <1>1, <1>5, PersistKeeps
<1>6. CASE End
  BY <1>1, <1>6, EndKeeps
<1>7. CASE Delete
  BY <1>1, <1>7, DeleteKeeps
<1>8. CASE Crash
  BY <1>1, <1>8, CrashKeeps
<1>9. CASE Mount
  BY <1>1, <1>9, MountKeeps
<1>10. CASE StreamRun
  BY <1>1, <1>10, StreamRunKeeps
<1>11. CASE Deliver
  BY <1>1, <1>11, DeliverKeeps
<1>12. CASE EndOfStream \/ Drop
  BY <1>1, <1>12, BrokenKeeps
<1>13. CASE Watchdog
  BY <1>1, <1>13, WatchdogKeeps
<1>14. CASE Hang
  BY <1>1, <1>14, HangKeeps
<1>15. QED
  BY <1>1, <1>2, <1>3, <1>4, <1>5, <1>6, <1>7, <1>8, <1>9, <1>10, <1>11, <1>12, <1>13, <1>14
  DEF Next, Server, Console

\* ... so it holds throughout.
LEMMA StreamInvariant == Spec => [](TypeOK /\ StreamInv)
BY StreamInit, StreamStep, PTL DEF Spec

\* Every reachable state of a stream is well typed, for every buffer and bound.
THEOREM TypeCorrect == Spec => []TypeOK
BY StreamInvariant, PTL

\* A console loses nothing, and a stream ends complete, for every size of the replay
\* buffer and any number of connections that break or hang (testing/routes.ts,
\* streamRun; use-run-stream.ts).
THEOREM StreamsAreComplete == Spec => []StreamsComplete
<1>1. TypeOK /\ StreamInv => StreamsComplete
  BY DEF StreamInv, WireInv, ConnInv, StreamsComplete, EndsComplete
<1>2. QED BY <1>1, StreamInvariant, PTL
=============================================================================
