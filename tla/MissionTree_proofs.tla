-------------------------- MODULE MissionTree_proofs --------------------------
(***************************************************************************)
(* Proofs about MissionTree, for every plan, width, budget and topology,   *)
(* and crews nested to any depth.  What a mission owes its whole subtree   *)
(* is kept level by level, and follows for the subtree from the top down.  *)
(***************************************************************************)
EXTENDS MissionTree, SequenceTheorems, FiniteSetTheorems, WellFoundedInduction, TLAPS

Flying(k) == kid[k].act \in InFlight
Opened(m) == level[m].phase \in {"running", "broken"}

\* The permits of a root: the waiters are the leaves that queue, each once.
Holders(r) == {a \in Agents : r \in Above[a] /\ kid[a].act \in {"granted", "running"}}
Queued(r) == {a \in Agents : r \in Above[a] /\ kid[a].act = "queued"}
PermitInv ==
  \A r \in Roots :
    /\ IsInjective(limiter[r].waiters)
    /\ ToSet(limiter[r].waiters) = Queued(r)
    /\ limiter[r].active = Cardinality(Holders(r)) /\ limiter[r].active <= Width
    /\ limiter[r].waiters # <<>> => limiter[r].active = Width

\* What a level launches: each slot once a round, and none is in flight before it.
LevelAt(m) ==
  /\ IsInjective(level[m].active) /\ ToSet(level[m].active) \subseteq SlotSet(m)
  /\ level[m].next # 0
  /\ \A k \in SlotSet(m) : Flying(k) =>
       Opened(m) /\ \A i \in level[m].next..Len(level[m].active) : level[m].active[i] # k
LevelInv == \A m \in Missions : LevelAt(m)

\* A mission's row and its level, and a nested level and its container.
StatusAt(m) ==
  /\ level[m].phase \in {"running", "judging"} => mission[m].status = "running"
  /\ level[m].phase = "synthesizing" <=> mission[m].status = "synthesizing"
  /\ level[m].phase = "broken" =>
       /\ mission[m].status = IF m \in Roots THEN "failed" ELSE "running"
       /\ \E k \in SlotSet(m) : kid[k].row = "deleted"
  /\ level[m].phase = "off" => mission[m].status # "running"
  /\ m \in Subs =>
       /\ mission[m].status \notin {"planning", "refused", "proposed"}
       /\ kid[m].act \notin {"queued", "granted"}
       /\ Flying(m) <=> Active(m)
       /\ kid[m].row # "deleted"
StatusInv == \A m \in Missions : StatusAt(m)

\* A level that is over left no child session open.
RestAt(m) ==
  level[m].phase \in {"off", "synthesizing"} /\ (\A k \in SlotSet(m) : kid[k].row # "deleted") =>
    \A k \in SlotSet(m) : kid[k].row \notin {"pending", "running"}
RestInv == \A m \in Missions : RestAt(m)

\* A nested mission is opened once.
Unstarted == Unborn \cup {"proposed"}
OnceAt(m) ==
  /\ mission[m].status \in Unstarted =>
       \A k \in SlotSet(m) : ~kid[k].produced /\ (k \in Subs => mission[k].status = "none")
  /\ level[m].phase \in {"running", "broken", "judging"} =>
       \A i \in level[m].next..Len(level[m].active) :
         level[m].active[i] \in Subs => mission[level[m].active[i]].status = "none"
  /\ m \in Subs => /\ mission[m].status = "none" => ~kid[m].produced
                   /\ kid[m].produced => level[m].phase = "off"
OnceInv == \A m \in Missions : OnceAt(m)

\* What an answer that is not marked partial stands on, one level down.
Vouches(m) == mission[m].status \in {"synthesizing", "completed"} \/ (m \in Subs /\ kid[m].produced)
WholeAt(m) ==
  /\ level[m].phase \in {"running", "judging"} =>
       \A k \in SlotSet(m) \cap Subs :
         kid[k].produced /\ mission[k].partial => ledger[m].childPartial
  /\ Vouches(m) /\ ~mission[m].partial /\ crew.topology[m] # "best_of_n" =>
       \A k \in SlotSet(m) : kid[k].produced /\ (k \in Subs => ~mission[k].partial)
WholeInv ==
  /\ \A k \in Kids : kid[k].report => kid[k].produced
  /\ \A m \in Missions : WholeAt(m)

\* A stop has reached the slots of its level, a trip every leaf of its tree.
AbortInv ==
  /\ \A m \in Missions : Active(m) /\ abort[m] => \A k \in SlotSet(m) : Flying(k) => abort[k]
  /\ \A r \in Roots : meter[r].tripped => \A a \in InFlightLeaves(r) : abort[a]

\* A level began no later than now.
MeterInv == \A m \in Missions : ledger[m].before <= meter[RootOf(m)].total

TreeInv == PermitInv /\ LevelInv /\ StatusInv /\ RestInv /\ OnceInv /\ WholeInv /\ AbortInv /\ MeterInv

-----------------------------------------------------------------------------
(* The tree. *)

Places == Missions \cup Agents

\* Every slot is in the plan of one mission.
LEMMA HomeFacts ==
  /\ Places = Roots \cup Kids /\ Missions = Roots \cup Subs
  /\ \A m \in Missions : SlotSet(m) \subseteq Kids
  /\ \A k \in Kids : Home[k] \in Missions /\ k \in SlotSet(Home[k])
  /\ \A m \in Missions : \A k \in SlotSet(m) : Home[k] = m
<1>1. Places = Roots \cup Kids /\ Missions = Roots \cup Subs
  BY DEF Places, Missions, Kids
<1>2. \A m \in Missions : SlotSet(m) \subseteq Kids
  BY PlanAssumption DEF SlotSet
<1>3. \A k \in Kids : Home[k] \in Missions /\ k \in SlotSet(Home[k])
  BY PlanAssumption DEF Home
<1>4. ASSUME NEW m \in Missions, NEW k \in SlotSet(m)
      PROVE  Home[k] = m
  <2>1. k \in Kids /\ Home[k] \in Missions /\ k \in SlotSet(Home[k])
    BY <1>2, <1>3
  <2>2. QED BY <2>1, PlanAssumption
<1>5. QED BY <1>1, <1>2, <1>3, <1>4

\* What holds of the roots, and of a slot when it holds of its home, holds everywhere.
LEMMA TopDown ==
  ASSUME NEW Good, Roots \subseteq Good, \A k \in Kids : Home[k] \in Good => k \in Good
  PROVE  Places \subseteq Good
<1> DEFINE Bad == {s \in Subs : s \notin Good}
<1>1. Bad = {}
  <2>1. SUFFICES ASSUME Bad # {} PROVE FALSE
    OBVIOUS
  <2>2. PICK s \in Bad : Home[s] \notin Bad
    BY <2>1, NestingAssumption
  <2>3. s \in Kids /\ Home[s] \in Missions
    BY HomeFacts DEF Kids
  <2>4. Home[s] \in Good
    BY <2>2, <2>3 DEF Missions
  <2>5. QED BY <2>3, <2>4
<1>2. Missions \subseteq Good
  BY <1>1 DEF Missions
<1>3. \A a \in Agents : a \in Kids /\ Home[a] \in Missions
  BY HomeFacts DEF Kids
<1>4. QED BY <1>2, <1>3 DEF Places

\* The missions around x: the least set with x's home and every home of its members.
Holds(S, x) == Home[x] \in S /\ \A s \in S \cap Subs : Home[s] \in S
Around(x) == IF x \in Roots THEN {}
             ELSE {n \in Missions : \A S \in SUBSET Missions : Holds(S, x) => n \in S}

\* It satisfies the equation of Above ...
LEMMA AroundStep ==
  ASSUME NEW x \in Kids
  PROVE  Around(x) = {Home[x]} \cup Around(Home[x])
<1> DEFINE h == Home[x]
<1>1. h \in Missions /\ x \notin Roots
  BY HomeFacts, PlanAssumption
<1>2. Holds(Missions, x)
  BY HomeFacts DEF Holds, Kids
<1>3. h \in Around(x)
  BY <1>1, <1>2 DEF Around, Holds
<1>4. ASSUME NEW n \in Around(h)
      PROVE  n \in Around(x)
  <2>1. h \notin Roots /\ h \in Subs /\ n \in Missions
    BY <1>1, <1>4, HomeFacts DEF Around
  <2>2. ASSUME NEW S \in SUBSET Missions, Holds(S, x)
        PROVE  n \in S
    <3>1. Holds(S, h)
      BY <2>1, <2>2 DEF Holds
    <3>2. QED BY <1>4, <2>1, <3>1 DEF Around
  <2>3. QED BY <1>1, <2>1, <2>2 DEF Around
<1>5. ASSUME NEW n \in Around(x)
      PROVE  n \in {h} \cup Around(h)
  <2> DEFINE S == {h} \cup Around(h)
  <2>1. S \in SUBSET Missions
    BY <1>1 DEF Around
  <2>2. ASSUME NEW s \in S \cap Subs
        PROVE  Home[s] \in S
    <3>1. h \notin Roots
      BY <2>2, PlanAssumption, HomeFacts DEF Around, Kids
    <3>2. Home[s] \in Missions
      BY HomeFacts DEF Kids
    <3>3. ASSUME NEW T \in SUBSET Missions, Holds(T, h)
          PROVE  Home[s] \in T
      <4>1. CASE s = h
        BY <3>3, <4>1 DEF Holds
      <4>2. CASE s \in Around(h)
        BY <3>1, <3>3, <4>2 DEF Holds, Around
      <4>3. QED BY <4>1, <4>2
    <3>4. QED BY <3>1, <3>2, <3>3 DEF Around
  <2>3. Holds(S, x)
    BY <2>2 DEF Holds
  <2>4. QED BY <1>1, <1>5, <2>1, <2>3 DEF Around
<1>6. QED BY <1>3, <1>4, <1>5

\* ... so there is such a function, and Above is one.
LEMMA AboveEquation ==
  \A x \in Places : Above[x] = IF x \in Roots THEN {} ELSE {Home[x]} \cup Above[Home[x]]
<1> DEFINE Eq(f) == f = [x \in Missions \cup Agents |->
                           IF x \in Roots THEN {} ELSE {Home[x]} \cup f[Home[x]]]
           g == [x \in Missions \cup Agents |-> Around(x)]
<1>1. Eq(g)
  <2>1. ASSUME NEW x \in Missions \cup Agents
        PROVE  Around(x) = IF x \in Roots THEN {} ELSE {Home[x]} \cup g[Home[x]]
    <3>1. CASE x \in Roots
      BY <3>1 DEF Around
    <3>2. CASE x \notin Roots
      <4>1. x \in Kids /\ Home[x] \in Missions \cup Agents
        BY <3>2, HomeFacts DEF Places
      <4>2. QED BY <3>2, <4>1, AroundStep
    <3>3. QED BY <3>1, <3>2
  <2>2. QED BY <2>1
<1>2. Eq(Above)
  <2>1. Above = CHOOSE f : Eq(f)
    BY DEF Above
  <2> HIDE DEF Eq
  <2>2. \E f : Eq(f)
    BY <1>1
  <2>3. QED BY <2>1, <2>2
<1>3. QED BY <1>2, HomeFacts DEF Places

LEMMA AboveFacts ==
  /\ \A r \in Roots : Above[r] = {}
  /\ \A k \in Kids : Above[k] = {Home[k]} \cup Above[Home[k]]
  /\ \A x \in Places : Above[x] \subseteq Missions
<1>1. \A r \in Roots : Above[r] = {}
  BY AboveEquation, HomeFacts
<1>2. \A k \in Kids : Above[k] = {Home[k]} \cup Above[Home[k]]
  BY AboveEquation, HomeFacts, PlanAssumption
<1> DEFINE Good == {x \in Places : Above[x] \subseteq Missions}
<1>3. Places \subseteq Good
  <2>1. Roots \subseteq Good
    BY <1>1, HomeFacts
  <2>2. \A k \in Kids : Home[k] \in Good => k \in Good
    BY <1>2, HomeFacts
  <2> HIDE DEF Good
  <2>3. QED BY <2>1, <2>2, TopDown
<1>4. QED BY <1>1, <1>2, <1>3

\* What is around something around x is around x, and nothing is around itself.
LEMMA AboveOrder ==
  /\ \A x \in Places : \A n \in Above[x] : Above[n] \subseteq Above[x]
  /\ \A x \in Places : x \notin Above[x]
<1> DEFINE Good == {x \in Places : \A n \in Above[x] : Above[n] \subseteq Above[x]}
<1>1. Places \subseteq Good
  <2>1. Roots \subseteq Good
    BY AboveFacts, HomeFacts
  <2>2. ASSUME NEW k \in Kids, Home[k] \in Good
        PROVE  k \in Good
    <3>1. k \in Places /\ Above[k] = {Home[k]} \cup Above[Home[k]]
      BY AboveFacts, HomeFacts
    <3>2. QED BY <2>2, <3>1
  <2> HIDE DEF Good
  <2>3. QED BY <2>1, <2>2, TopDown
<1> DEFINE Proper == {x \in Places : x \notin Above[x]}
<1>2. Places \subseteq Proper
  <2>1. Roots \subseteq Proper
    BY AboveFacts, HomeFacts
  <2>2. ASSUME NEW k \in Kids, Home[k] \in Proper
        PROVE  k \in Proper
    <3>1. k \in Places /\ Above[k] = {Home[k]} \cup Above[Home[k]] /\ Home[k] \in Missions
      BY AboveFacts, HomeFacts
    <3>2. k # Home[k]
      <4>1. SUFFICES ASSUME k = Home[k] PROVE FALSE
        OBVIOUS
      <4>2. k \in Subs
        BY <3>1, <4>1, HomeFacts, PlanAssumption
      <4>3. {k} \in SUBSET Subs /\ {k} # {}
        BY <4>2
      <4>4. QED BY <4>1, <4>3, NestingAssumption
    <3>3. k \notin Above[Home[k]]
      <4>1. SUFFICES ASSUME k \in Above[Home[k]] PROVE FALSE
        OBVIOUS
      <4>2. Above[k] \subseteq Above[Home[k]] /\ Home[k] \in Above[k]
        BY <1>1, <3>1, <4>1, HomeFacts DEF Places
      <4>3. QED BY <2>2, <4>2
    <3>4. QED BY <3>1, <3>2, <3>3
  <2> HIDE DEF Proper
  <2>3. QED BY <2>1, <2>2, TopDown
<1>3. QED BY <1>1, <1>2

\* Every place is in the tree of one root.
LEMMA RootFacts ==
  /\ \A x \in Places : /\ RootOf(x) \in Roots
                       /\ RootOf(x) = x \/ RootOf(x) \in Above[x]
                       /\ \A r \in Roots : r = x \/ r \in Above[x] => r = RootOf(x)
  /\ \A k \in Kids : RootOf(k) = RootOf(Home[k])
  /\ \A r \in Roots : RootOf(r) = r
<1> DEFINE Good == {x \in Places : \E r \in Roots : /\ r = x \/ r \in Above[x]
                                                  /\ \A q \in Roots : q = x \/ q \in Above[x] => q = r}
<1>1. Places \subseteq Good
  <2>1. Roots \subseteq Good
    BY AboveFacts, HomeFacts
  <2>2. ASSUME NEW k \in Kids, Home[k] \in Good
        PROVE  k \in Good
    <3>1. k \in Places /\ Above[k] = {Home[k]} \cup Above[Home[k]] /\ k \notin Roots
      BY AboveFacts, HomeFacts, PlanAssumption
    <3>2. QED BY <2>2, <3>1
  <2> HIDE DEF Good
  <2>3. QED BY <2>1, <2>2, TopDown
<1>2. \A x \in Places : /\ RootOf(x) \in Roots
                        /\ RootOf(x) = x \/ RootOf(x) \in Above[x]
                        /\ \A r \in Roots : r = x \/ r \in Above[x] => r = RootOf(x)
  BY <1>1 DEF RootOf
<1>3. ASSUME NEW k \in Kids
      PROVE  RootOf(k) = RootOf(Home[k])
  <2>1. k \in Places /\ Home[k] \in Places /\ Above[k] = {Home[k]} \cup Above[Home[k]]
    BY AboveFacts, HomeFacts DEF Places
  <2>2. QED BY <1>2, <2>1
<1>4. \A r \in Roots : RootOf(r) = r
  BY <1>2, HomeFacts
<1>5. QED BY <1>2, <1>3, <1>4

\* What is inside a mission is in its plan or inside one that is.
LEMMA InsideFacts ==
  /\ \A m \in Missions : Inside(m) \subseteq Kids /\ SlotSet(m) \subseteq Inside(m)
  /\ \A m \in Missions : \A k \in Inside(m) :
       /\ Home[k] = m \/ (Home[k] \in Subs /\ Home[k] \in Inside(m))
       /\ \A n \in Above[Home[k]] : n \in Above[k]
<1>1. \A m \in Missions : Inside(m) \subseteq Kids /\ SlotSet(m) \subseteq Inside(m)
  BY AboveFacts, HomeFacts DEF Inside
<1>2. ASSUME NEW m \in Missions, NEW k \in Inside(m)
      PROVE  /\ Home[k] = m \/ (Home[k] \in Subs /\ Home[k] \in Inside(m))
             /\ \A n \in Above[Home[k]] : n \in Above[k]
  <2>1. k \in Kids /\ m \in Above[k] /\ Above[k] = {Home[k]} \cup Above[Home[k]]
        /\ Home[k] \in Missions
    BY AboveFacts, HomeFacts DEF Inside
  <2>2. Home[k] # m => Home[k] \in Subs /\ Home[k] \in Inside(m)
    <3>1. SUFFICES ASSUME Home[k] # m PROVE Home[k] \in Subs /\ Home[k] \in Inside(m)
      OBVIOUS
    <3>2. m \in Above[Home[k]]
      BY <2>1, <3>1
    <3>3. Home[k] \notin Roots
      BY <3>2, AboveFacts
    <3>4. QED BY <2>1, <3>2, <3>3 DEF Inside, Missions, Kids
  <2>3. QED BY <2>1, <2>2
<1>3. QED BY <1>1, <1>2

-----------------------------------------------------------------------------
(* The slots that argue on. *)

\* A set of naturals has a least element; what follows by induction cites it.
LEMMA LeastNat ==
  ASSUME NEW S \in SUBSET Nat, S # {}
  PROVE  \E n \in S : \A m \in S : n <= m
<1>1. \E R : /\ IsWellFoundedOn(R, Nat)
             /\ \A m, n \in Nat : <<m, n>> \in R <=> m < n
  <2> DEFINE R == OpToRel(<, Nat)
  <2>1. IsWellFoundedOn(R, Nat)
    BY NatLessThanWellFounded
  <2>2. \A m, n \in Nat : <<m, n>> \in R <=> m < n
    BY DEF OpToRel
  <2> HIDE DEF R
  <2>3. QED BY <2>1, <2>2
<1>2. PICK R : /\ IsWellFoundedOn(R, Nat)
               /\ \A m, n \in Nat : <<m, n>> \in R <=> m < n
  BY <1>1
<1>3. IsWellFoundedOn(R, Nat) /\ S \subseteq Nat
  BY <1>2
<1>4. PICK n \in S : \A m \in S : ~ (<<m, n>> \in R)
  BY <1>3, WFMin
<1>5. ASSUME NEW m \in S
      PROVE  n <= m
  <2>1. m \in Nat /\ n \in Nat /\ ~(m < n)
    BY <1>2, <1>4
  <2>2. QED BY <2>1
<1>6. QED BY <1>5

\* The function over subsets of places by which FoldLeft is defined.
Iter(f, s, n) ==
  f = [T \in SUBSET (1..n) |->
         IF T = {} THEN <<>> ELSE WhoReported(f[T \ {Max(T)}], s[Max(T)])]

\* Such a function exists for a sequence of any length, by the least one without.
LEMMA IterExists ==
  ASSUME NEW s, NEW n \in Nat
  PROVE  \E f : Iter(f, s, n)
<1> DEFINE Bad == {k \in Nat : ~\E f : Iter(f, s, k)}
<1>1. SUFFICES ASSUME Bad # {} PROVE FALSE
  OBVIOUS
<1>2. PICK k \in Bad : \A j \in Bad : k <= j
  BY <1>1, LeastNat
<1>3. k # 0
  <2>1. Iter([T \in SUBSET (1..0) |-> <<>>], s, 0)
    <3>1. 1..0 = {}
      OBVIOUS
    <3>2. QED BY <3>1 DEF Iter
  <2>2. QED BY <1>2, <2>1
<1>4. k - 1 \in Nat /\ k - 1 \notin Bad
  BY <1>2, <1>3
<1>5. PICK f : Iter(f, s, k - 1)
  BY <1>4
<1> DEFINE g == [T \in SUBSET (1..k) |-> IF k \in T THEN WhoReported(f[T \ {k}], s[k]) ELSE f[T]]
<1>6. Iter(g, s, k)
  <2>1. ASSUME NEW T \in SUBSET (1..k)
        PROVE  g[T] = IF T = {} THEN <<>> ELSE WhoReported(g[T \ {Max(T)}], s[Max(T)])
    <3>1. CASE k \in T
      <4>1. Max(T) = k
        <5>1. \A y \in T : k >= y
          BY <1>2
        <5>2. \A x \in T : (\A y \in T : x >= y) => x = k
          BY <1>2, <3>1
        <5>3. QED BY <3>1, <5>1, <5>2 DEF Max
      <4>2. T \ {k} \in SUBSET (1..(k - 1)) /\ T \ {k} \in SUBSET (1..k) /\ k \notin T \ {k}
        BY <1>2
      <4>3. g[T \ {k}] = f[T \ {k}]
        BY <4>2
      <4>4. QED BY <3>1, <4>1, <4>3
    <3>2. CASE k \notin T
      <4>0. \A x : T \ {x} \in SUBSET (1..k) /\ k \notin T \ {x}
        BY <3>2
      <4>1. T \in SUBSET (1..(k - 1)) /\ T \ {Max(T)} \in SUBSET (1..k) /\ k \notin T \ {Max(T)}
        <5>1. T \in SUBSET (1..(k - 1))
          BY <1>2, <3>2
        <5>2. QED BY <4>0, <5>1
      <4>2. f[T] = IF T = {} THEN <<>> ELSE WhoReported(f[T \ {Max(T)}], s[Max(T)])
        BY <1>5, <4>1, Zenon DEF Iter
      <4>3. g[T \ {Max(T)}] = f[T \ {Max(T)}] /\ g[T] = f[T]
        BY <3>2, <4>1
      <4>4. QED BY <4>2, <4>3
    <3>3. QED BY <3>1, <3>2
  <2>2. g = [T \in SUBSET (1..k) |-> g[T]]
    OBVIOUS
  <2> HIDE DEF g
  <2>3. QED BY <2>1, <2>2 DEF Iter
<1>7. QED BY <1>2, <1>6

\* A fold over a sequence goes through it from left to right.
LEMMA FoldSteps ==
  ASSUME NEW m, NEW s, s = level[m].active, Len(s) \in Nat, DOMAIN s = 1..Len(s)
  PROVE  \E f : /\ f[0] = <<>>
                /\ \A n \in 1..Len(s) : f[n] = WhoReported(f[n - 1], s[n])
                /\ StillActive(m) = f[Len(s)]
<1>1. StillActive(m) = (CHOOSE f : Iter(f, s, Len(s)))[1..Len(s)]
  BY DEF StillActive, FoldLeft, MapThenFoldSet, Iter
<1>2. PICK f : Iter(f, s, Len(s)) /\ StillActive(m) = f[1..Len(s)]
  BY <1>1, IterExists
<1> DEFINE h == [n \in 0..Len(s) |-> f[1..n]]
<1>3. h[0] = <<>>
  <2>1. 1..0 = {} /\ {} \in SUBSET (1..Len(s))
    OBVIOUS
  <2>2. f[{}] = <<>>
    BY <1>2, <2>1, Zenon DEF Iter
  <2>3. QED BY <2>1, <2>2
<1>4. ASSUME NEW n \in 1..Len(s)
      PROVE  h[n] = WhoReported(h[n - 1], s[n])
  <2>1. 1..n \in SUBSET (1..Len(s)) /\ 1..n # {} /\ (1..n) \ {n} = 1..(n - 1)
    <3>1. \A i : i \in (1..n) \ {n} <=> i \in 1..(n - 1)
      OBVIOUS
    <3>2. n \in 1..n /\ \A i \in 1..n : i \in 1..Len(s)
      OBVIOUS
    <3>3. (1..n) \ {n} = 1..(n - 1)
      BY <3>1, Zenon
    <3>4. QED BY <3>2, <3>3
  <2>2. Max(1..n) = n
    <3>1. n \in 1..n /\ \A y \in 1..n : n >= y
      OBVIOUS
    <3>2. \A x \in 1..n : (\A y \in 1..n : x >= y) => x = n
      OBVIOUS
    <3>3. QED BY <3>1, <3>2 DEF Max
  <2>3. f[1..n] = WhoReported(f[(1..n) \ {Max(1..n)}], s[Max(1..n)])
    BY <1>2, <2>1, Zenon DEF Iter
  <2>4. h[n] = f[1..n] /\ h[n - 1] = f[1..(n - 1)]
    OBVIOUS
  <2>5. QED BY <2>1, <2>2, <2>3, <2>4
<1>5. StillActive(m) = h[Len(s)]
  BY <1>2
<1> HIDE DEF h
<1>6. QED BY <1>3, <1>4, <1>5

\* Who argues on reported, and is there once.
LEMMA StillActiveFacts ==
  ASSUME NEW m, NEW s, s = level[m].active, s \in Seq(Kids), IsInjective(s)
  PROVE  /\ StillActive(m) \in Seq(Kids) /\ IsInjective(StillActive(m))
         /\ ToSet(StillActive(m)) \subseteq {k \in ToSet(s) : kid[k].report}
<1>1. Len(s) \in Nat /\ DOMAIN s = 1..Len(s)
  OBVIOUS
<1>2. PICK f : /\ f[0] = <<>>
               /\ \A n \in 1..Len(s) : f[n] = WhoReported(f[n - 1], s[n])
               /\ StillActive(m) = f[Len(s)]
  BY <1>1, FoldSteps
<1> DEFINE Fine(n) ==
             /\ f[n] \in Seq(Kids)
             /\ \A i, j \in 1..Len(f[n]) : f[n][i] = f[n][j] => i = j
             /\ \A i \in 1..Len(f[n]) : \E j \in 1..n : f[n][i] = s[j] /\ kid[s[j]].report
           Bad == {n \in 0..Len(s) : ~Fine(n)}
<1>3. SUFFICES ASSUME Bad # {} PROVE FALSE
  <2>1. Len(s) \in 0..Len(s)
    BY <1>1
  <2>2. Fine(Len(s))
    BY <1>3, <2>1
  <2>3. DOMAIN StillActive(m) = 1..Len(StillActive(m)) /\ Fine(Len(s)) /\ StillActive(m) = f[Len(s)]
    BY <1>2, <2>2
  <2>4. IsInjective(StillActive(m))
    BY <2>3 DEF IsInjective
  <2>5. ASSUME NEW k \in ToSet(StillActive(m))
        PROVE  k \in ToSet(s) /\ kid[k].report
    <3>1. PICK i \in 1..Len(StillActive(m)) : k = StillActive(m)[i]
      BY <2>3, <2>5 DEF ToSet
    <3>2. PICK j \in 1..Len(s) : k = s[j] /\ kid[s[j]].report
      BY <2>3, <3>1
    <3>3. QED BY <1>1, <3>2 DEF ToSet
  <2>6. QED BY <2>3, <2>4, <2>5
<1>4. PICK n \in Bad : \A i \in Bad : n <= i
  <2>1. Bad \in SUBSET Nat
    BY <1>1
  <2> HIDE DEF Bad
  <2>2. QED BY <1>3, <2>1, LeastNat
<1>5. n # 0
  <2>1. <<>> \in Seq(Kids) /\ Len(<<>>) = 0 /\ 1..0 = {}
    OBVIOUS
  <2>2. Fine(0)
    BY <1>2, <2>1
  <2>3. QED BY <1>4, <2>2
<1>6. n \in 1..Len(s) /\ n - 1 \in 0..Len(s) /\ n - 1 \notin Bad
  BY <1>1, <1>4, <1>5
<1>7. Fine(n - 1)
  BY <1>6
<1>8. f[n] = WhoReported(f[n - 1], s[n])
  BY <1>2, <1>6
<1>9. CASE ~kid[s[n]].report
  <2>1. f[n] = f[n - 1]
    BY <1>8, <1>9 DEF WhoReported
  <2>2. Fine(n)
    BY <1>6, <1>7, <2>1
  <2>3. QED BY <1>4, <2>2
<1>10. CASE kid[s[n]].report
  <2> DEFINE g == f[n - 1]
  <2>1. f[n] = Append(g, s[n]) /\ g \in Seq(Kids) /\ s[n] \in Kids
    BY <1>6, <1>7, <1>8, <1>10 DEF WhoReported
  <2>2. /\ f[n] \in Seq(Kids) /\ Len(f[n]) = Len(g) + 1 /\ f[n][Len(g) + 1] = s[n]
        /\ \A i \in 1..Len(g) : f[n][i] = g[i]
    BY <2>1
  <2>3. \A i \in 1..Len(g) : g[i] # s[n]
    <3>1. ASSUME NEW i \in 1..Len(g), g[i] = s[n]
          PROVE  FALSE
      <4>1. PICK j \in 1..(n - 1) : g[i] = s[j]
        BY <1>7
      <4>2. j \in DOMAIN s /\ n \in DOMAIN s /\ j # n
        BY <1>1, <1>6
      <4>3. QED BY <3>1, <4>1, <4>2 DEF IsInjective
    <3>2. QED BY <3>1
  <2>4. \A i \in 1..(Len(g) + 1) : i \in 1..Len(g) \/ i = Len(g) + 1
    BY <2>1
  <2>5. \A i, j \in 1..Len(f[n]) : f[n][i] = f[n][j] => i = j
    <3>1. \A i, j \in 1..Len(g) : g[i] = g[j] => i = j
      BY <1>7
    <3> HIDE DEF g
    <3>2. QED BY <2>2, <2>3, <2>4, <3>1
  <2>6. \A i \in 1..Len(f[n]) : \E j \in 1..n : f[n][i] = s[j] /\ kid[s[j]].report
    <3>1. \A i \in 1..Len(g) : \E j \in 1..n : g[i] = s[j] /\ kid[s[j]].report
      <4>1. \A j \in 1..(n - 1) : j \in 1..n
        BY <1>6
      <4>2. QED BY <1>7, <4>1
    <3>2. n \in 1..n
      BY <1>6
    <3> HIDE DEF g
    <3>3. ASSUME NEW i \in 1..Len(f[n])
          PROVE  \E j \in 1..n : f[n][i] = s[j] /\ kid[s[j]].report
      <4>1. CASE i \in 1..Len(g)
        BY <2>2, <3>1, <4>1
      <4>2. CASE i = Len(g) + 1
        BY <1>10, <2>2, <3>2, <4>2
      <4>3. QED BY <2>2, <2>4, <3>3, <4>1, <4>2
    <3>4. QED BY <3>3
  <2>7. QED BY <1>4, <2>2, <2>5, <2>6
<1>11. QED BY <1>9, <1>10

-----------------------------------------------------------------------------
(* Plans and queues. *)

\* A plan names each of its slots once.
LEMMA PlanFacts ==
  ASSUME NEW m \in Missions
  PROVE  /\ Plan[m] \in Seq(Kids) /\ IsInjective(Plan[m]) /\ ToSet(Plan[m]) = SlotSet(m)
         /\ IsFiniteSet(SlotSet(m)) /\ Cardinality(SlotSet(m)) = Len(Plan[m])
<1> DEFINE s == Plan[m]
<1>1. s \in Seq(Kids) /\ Len(s) \in Nat /\ DOMAIN s = 1..Len(s)
      /\ Cardinality(SlotSet(m)) = Len(s)
  BY PlanAssumption
<1>2. ToSet(s) = SlotSet(m)
  BY DEF ToSet, SlotSet
<1>3. s \in Surjection(1..Len(s), SlotSet(m))
  <2>1. s \in [1..Len(s) -> SlotSet(m)]
    BY <1>1 DEF SlotSet
  <2>2. \A k \in SlotSet(m) : \E i \in 1..Len(s) : s[i] = k
    BY <1>1 DEF SlotSet
  <2> HIDE DEF s
  <2>3. QED BY <2>1, <2>2 DEF Surjection
<1>4. IsFiniteSet(1..Len(s)) /\ Cardinality(1..Len(s)) = Len(s)
  BY <1>1, FS_Interval
<1>5. s \in Injection(1..Len(s), SlotSet(m)) /\ IsFiniteSet(SlotSet(m))
  BY <1>1, <1>3, <1>4, FS_Surjection
<1>6. IsInjective(s)
  <2> HIDE DEF s
  <2>1. QED BY <1>1, <1>5 DEF Injection, IsInjective
<1>7. QED BY <1>1, <1>2, <1>5, <1>6

\* A list without duplicates is as long as it has members.
LEMMA ListSize ==
  ASSUME NEW S, NEW q \in Seq(S), IsInjective(q)
  PROVE  IsFiniteSet(ToSet(q)) /\ Cardinality(ToSet(q)) = Len(q)
<1>1. Len(q) \in Nat /\ DOMAIN q = 1..Len(q) /\ q \in [1..Len(q) -> ToSet(q)]
  BY DEF ToSet
<1>2. q \in Surjection(1..Len(q), ToSet(q)) /\ q \in Injection(1..Len(q), ToSet(q))
  BY <1>1 DEF ToSet, IsInjective, Surjection, Injection
<1>3. IsFiniteSet(1..Len(q)) /\ Cardinality(1..Len(q)) = Len(q)
  BY <1>1, FS_Interval
<1>4. QED BY <1>2, <1>3, FS_Surjection

\* The head of a queue leaves it for good ...
LEMMA HeadLeaves ==
  ASSUME NEW S, NEW q \in Seq(S), q # <<>>, IsInjective(q)
  PROVE  /\ Tail(q) \in Seq(S) /\ IsInjective(Tail(q)) /\ Head(q) \in ToSet(q)
         /\ ToSet(Tail(q)) = ToSet(q) \ {Head(q)}
<1>1. Len(q) \in Nat \ {0} /\ DOMAIN q = 1..Len(q) /\ Head(q) = q[1]
  OBVIOUS
<1> DEFINE t == Tail(q)
<1>2. /\ t \in Seq(S) /\ DOMAIN t = 1..(Len(q) - 1)
      /\ \A i \in DOMAIN t : i \in Nat /\ t[i] = q[i + 1] /\ i + 1 \in DOMAIN q /\ i + 1 # 1
  BY <1>1
<1> HIDE DEF t
<1>3. IsInjective(t)
  BY <1>2 DEF IsInjective
<1>4. \A i \in DOMAIN q : i = 1 \/ (i - 1 \in DOMAIN t /\ t[i - 1] = q[i])
  <2>1. ASSUME NEW i \in DOMAIN q, i # 1
        PROVE  i - 1 \in DOMAIN t /\ (i - 1) + 1 = i
    BY <1>1, <1>2, <2>1
  <2>2. QED BY <1>2, <2>1
<1>5. ToSet(t) = ToSet(q) \ {q[1]}
  <2>1. ASSUME NEW i \in DOMAIN t
        PROVE  t[i] \in ToSet(q) /\ t[i] # q[1]
    BY <1>1, <1>2 DEF ToSet, IsInjective
  <2>2. ASSUME NEW i \in DOMAIN q, q[i] # q[1]
        PROVE  q[i] \in ToSet(t)
    BY <1>4, <2>2 DEF ToSet
  <2>3. QED BY <2>1, <2>2 DEF ToSet
<1>6. q[1] \in ToSet(q)
  BY <1>1 DEF ToSet
<1>7. QED BY <1>1, <1>2, <1>3, <1>5, <1>6 DEF t

\* ... and a newcomer joins it once.
LEMMA NewcomerJoins ==
  ASSUME NEW S, NEW q \in Seq(S), NEW x \in S, x \notin ToSet(q), IsInjective(q)
  PROVE  /\ Append(q, x) \in Seq(S) /\ Append(q, x) # <<>>
         /\ IsInjective(Append(q, x)) /\ ToSet(Append(q, x)) = ToSet(q) \cup {x}
<1> DEFINE t == Append(q, x)
<1>1. Len(q) \in Nat /\ DOMAIN q = 1..Len(q) /\ DOMAIN t = 1..(Len(q) + 1)
      /\ t \in Seq(S) /\ t # <<>> /\ t[Len(q) + 1] = x /\ \A i \in 1..Len(q) : t[i] = q[i]
  OBVIOUS
<1> HIDE DEF t
<1>2. /\ \A i \in DOMAIN t : (i \in DOMAIN q /\ t[i] = q[i]) \/ (i = Len(q) + 1 /\ t[i] = x)
      /\ \A i \in DOMAIN q : i \in DOMAIN t
      /\ Len(q) + 1 \in DOMAIN t
  BY <1>1
<1>3. IsInjective(t)
  BY <1>2 DEF IsInjective, ToSet
<1>4. ToSet(t) = ToSet(q) \cup {x}
  <2>1. \A i \in DOMAIN t : t[i] \in ToSet(q) \cup {x}
    BY <1>2 DEF ToSet
  <2>2. \A i \in DOMAIN q : q[i] \in ToSet(t)
    BY <1>1, <1>2 DEF ToSet
  <2>3. x \in ToSet(t)
    BY <1>1, <1>2 DEF ToSet
  <2>4. QED BY <2>1, <2>2, <2>3 DEF ToSet
<1>5. QED BY <1>1, <1>3, <1>4 DEF t

-----------------------------------------------------------------------------
(* What each step does, place by place. *)

RowType == [status : MissionStatuses, partial : BOOLEAN]
LevelType == [phase : Phases, next : Nat, round : 1..Rounds, active : Seq(Kids)]
KidType == [row : RowStates, act : Acts, report : BOOLEAN, produced : BOOLEAN]
PermitType == [active : Nat, waiters : Seq(Agents)]
LedgerType == [cap : Nat, reservable : Nat, spent : Nat, tripped : BOOLEAN,
               childPartial : BOOLEAN, before : Nat]
MeterType == [total : Nat, tripped : BOOLEAN]

\* TypeOK by variable.
Typed ==
  /\ crew \in Crews /\ mission \in [Missions -> RowType] /\ order \in Seq(Missions)
  /\ level \in [Missions -> LevelType] /\ kid \in [Kids -> KidType]
  /\ abort \in [Missions \cup Agents -> BOOLEAN] /\ limiter \in [Roots -> PermitType]
  /\ ledger \in [Missions -> LedgerType] /\ meter \in [Roots -> MeterType]
  /\ faults \in 0..MaxFaults

LEMMA TypedIsTypeOK == (TypeOK <=> Typed) /\ (TypeOK <=> Typed)'
<1>1. TypeOK <=> Typed
  BY DEF TypeOK, Typed, RowType, LevelType, KidType, PermitType, LedgerType, MeterType
<1>2. (TypeOK <=> Typed)'
  BY DEF TypeOK, Typed, RowType, LevelType, KidType, PermitType, LedgerType, MeterType
<1>3. QED BY <1>1, <1>2

\* The smaller of two numbers.
LEMMA MinOfTwo ==
  ASSUME NEW i \in Nat, NEW j \in Nat
  PROVE  Min({i, j}) \in Nat /\ Min({i, j}) <= i /\ Min({i, j}) <= j
<1>1. \E x \in {i, j} : \A y \in {i, j} : x <= y
  OBVIOUS
<1>2. Min({i, j}) \in {i, j} /\ \A y \in {i, j} : Min({i, j}) <= y
  BY <1>1 DEF Min
<1>3. QED BY <1>2

\* What a crew's plan says.
LEMMA CrewFacts ==
  ASSUME Typed
  PROVE  /\ crew.cap \in Nat \ {0} /\ \A s \in Subs : crew.request[s] \in Nat
         /\ \A m \in Missions : crew.topology[m] \in Topologies
         /\ \A m \in Missions : crew.topology[m] = "debate" => SlotSet(m) \subseteq Agents
<1>1. crew \in [topology : [Missions -> Topologies], cap : Nat \ {0}, request : [Subs -> Nat]]
  BY CrewsAssumption DEF Typed
<1>2. \A m \in Missions : crew.topology[m] = "debate" => SlotSet(m) \subseteq Agents
  BY CrewsAssumption DEF Typed
<1>3. QED BY <1>1, <1>2

\* A level begins: its slots are pending and none was launched.
Begins(m) ==
  /\ level'[m].phase = "running" /\ level'[m].next = 1 /\ level'[m].active = Plan[m]
  /\ mission'[m].status = "running" /\ mission'[m].partial = mission[m].partial
  /\ ~ledger'[m].childPartial

LEMMA OpenLevelType ==
  ASSUME NEW lv \in [Missions -> LevelType], NEW m \in Missions
  PROVE  /\ OpenLevel(lv, m) \in [Missions -> LevelType]
         /\ OpenLevel(lv, m)[m].phase = "running" /\ OpenLevel(lv, m)[m].next = 1
         /\ OpenLevel(lv, m)[m].active = Plan[m]
         /\ \A n \in Missions \ {m} : OpenLevel(lv, m)[n] = lv[n]
<1>1. Plan[m] \in Seq(Kids) /\ 1 \in 1..Rounds
  BY PlanFacts, BudgetAssumption
<1>2. [OffLevel(m) EXCEPT !.phase = "running"]
        = [phase |-> "running", next |-> 1, round |-> 1, active |-> Plan[m]]
  BY DEF OffLevel
<1>3. [OffLevel(m) EXCEPT !.phase = "running"] \in LevelType
  BY <1>1, <1>2 DEF LevelType, Phases
<1>4. OpenLevel(lv, m) = [lv EXCEPT ![m] = [OffLevel(m) EXCEPT !.phase = "running"]]
  BY DEF OpenLevel
<1>5. QED BY <1>2, <1>3, <1>4

LEMMA SpawnedType ==
  ASSUME NEW kids \in [Kids -> KidType], NEW m \in Missions
  PROVE  /\ Spawned(kids, m) \in [Kids -> KidType]
         /\ \A k \in Kids :
              /\ Spawned(kids, m)[k].row = IF k \in SlotSet(m) THEN "pending" ELSE kids[k].row
              /\ Spawned(kids, m)[k].act = kids[k].act
              /\ Spawned(kids, m)[k].report = kids[k].report
              /\ Spawned(kids, m)[k].produced = kids[k].produced
BY DEF Spawned, KidType, RowStates

LEMMA LedgerFacts ==
  ASSUME NEW cap \in Nat, NEW before \in Nat
  PROVE  /\ Ledger(cap, before) \in LedgerType
         /\ Ledger(cap, before).before = before /\ ~Ledger(cap, before).childPartial
BY DEF Ledger, LedgerType

\* A root's level begins.
LEMMA OpenEffect ==
  ASSUME Typed, NEW r \in Roots, Open(r)
  PROVE  /\ mission' \in [Missions -> RowType] /\ level' \in [Missions -> LevelType]
         /\ kid' \in [Kids -> KidType] /\ ledger' \in [Missions -> LedgerType]
         /\ Begins(r) /\ ledger'[r].before = 0
         /\ \A m \in Missions \ {r} :
              mission'[m] = mission[m] /\ level'[m] = level[m] /\ ledger'[m] = ledger[m]
         /\ \A k \in Kids :
              /\ kid'[k].row = IF k \in SlotSet(r) THEN "pending" ELSE kid[k].row
              /\ kid'[k].act = kid[k].act /\ kid'[k].report = kid[k].report
              /\ kid'[k].produced = kid[k].produced
<1>1. r \in Missions /\ crew.cap \in Nat
  BY CrewFacts DEF Missions
<1>2. /\ mission' = [mission EXCEPT ![r].status = "running"]
      /\ level' = OpenLevel(level, r) /\ kid' = Spawned(kid, r)
      /\ ledger' = [ledger EXCEPT ![r] = Ledger(crew.cap, 0)]
  BY DEF Open
<1>3. /\ mission' \in [Missions -> RowType] /\ mission'[r].status = "running"
      /\ mission'[r].partial = mission[r].partial
      /\ \A m \in Missions \ {r} : mission'[m] = mission[m]
  BY <1>1, <1>2 DEF Typed, RowType, MissionStatuses
<1>4. /\ ledger' \in [Missions -> LedgerType] /\ ledger'[r] = Ledger(crew.cap, 0)
      /\ \A m \in Missions \ {r} : ledger'[m] = ledger[m]
  BY <1>1, <1>2, LedgerFacts DEF Typed
<1>5. ledger'[r].before = 0 /\ ~ledger'[r].childPartial
  BY <1>1, <1>4, LedgerFacts
<1>6. /\ level' \in [Missions -> LevelType] /\ \A m \in Missions \ {r} : level'[m] = level[m]
      /\ level'[r].phase = "running" /\ level'[r].next = 1 /\ level'[r].active = Plan[r]
  BY <1>1, <1>2, OpenLevelType DEF Typed
<1>7. /\ kid' \in [Kids -> KidType]
      /\ \A k \in Kids :
           /\ kid'[k].row = IF k \in SlotSet(r) THEN "pending" ELSE kid[k].row
           /\ kid'[k].act = kid[k].act /\ kid'[k].report = kid[k].report
           /\ kid'[k].produced = kid[k].produced
  BY <1>1, <1>2, SpawnedType DEF Typed
<1>8. QED BY <1>3, <1>4, <1>5, <1>6, <1>7 DEF Begins

\* What CanLaunch says of the slot that is next.
LEMMA NextSlot ==
  ASSUME Typed, LevelInv, NEW m \in Missions, CanLaunch(m),
         NEW k, k = level[m].active[level[m].next]
  PROVE  /\ k \in SlotSet(m) /\ k \in Kids /\ Home[k] = m /\ ~Flying(k)
         /\ Opened(m) /\ ~Aborted(m) /\ ~meter[RootOf(m)].tripped
         /\ level[m].next \in 1..Len(level[m].active)
         /\ \A i \in (level[m].next + 1)..Len(level[m].active) : level[m].active[i] # k
<1> DEFINE s == level[m].active
           n == level[m].next
<1>1. /\ s \in Seq(Kids) /\ n \in Nat \ {0} /\ n <= Len(s) /\ Opened(m)
      /\ ~Aborted(m) /\ ~meter[RootOf(m)].tripped
  BY DEF Typed, LevelType, LevelInv, LevelAt, CanLaunch, Opened, Tripped
<1>2. Len(s) \in Nat /\ DOMAIN s = 1..Len(s) /\ n \in 1..Len(s)
  BY <1>1
<1>3. IsInjective(s) /\ ToSet(s) \subseteq SlotSet(m)
  BY DEF LevelInv, LevelAt
<1>4. k \in SlotSet(m)
  BY <1>2, <1>3 DEF ToSet
<1>5. k \in Kids /\ Home[k] = m
  BY <1>4, HomeFacts
<1>6. \A i \in (n + 1)..Len(s) : s[i] # k
  <2>1. \A i \in (n + 1)..Len(s) : i \in 1..Len(s) /\ i # n
    BY <1>1
  <2>2. QED BY <1>2, <1>3, <2>1 DEF IsInjective
<1>7. ~Flying(k)
  <2>1. n \in n..Len(s)
    BY <1>2
  <2>2. QED BY <1>4, <2>1 DEF LevelInv, LevelAt
<1>8. QED BY <1>1, <1>2, <1>4, <1>5, <1>6, <1>7

\* The level moves on to its next slot.
MovesOn(m) ==
  /\ level' \in [Missions -> LevelType]
  /\ level'[m].phase = level[m].phase /\ level'[m].next = level[m].next + 1
  /\ level'[m].active = level[m].active

LEMMA NextTyped ==
  ASSUME Typed, NEW m \in Missions, NEW lv, lv = [level EXCEPT ![m].next = @ + 1]
  PROVE  /\ lv \in [Missions -> LevelType] /\ \A n \in Missions \ {m} : lv[n] = level[n]
         /\ lv[m].phase = level[m].phase /\ lv[m].next = level[m].next + 1
         /\ lv[m].active = level[m].active
<1> DEFINE next == level[m].next + 1
           one == [level[m] EXCEPT !.next = next]
<1>1. level[m] \in LevelType /\ next \in Nat /\ level \in [Missions -> LevelType]
  BY DEF Typed, LevelType
<1>2. lv = [level EXCEPT ![m] = one]
  OBVIOUS
<1>3. one \in LevelType /\ one.phase = level[m].phase /\ one.active = level[m].active
      /\ one.next = next
  <2> HIDE DEF next
  <2>1. QED BY <1>1 DEF LevelType
<1>4. lv[m] = one /\ lv \in [Missions -> LevelType] /\ \A n \in Missions \ {m} : lv[n] = level[n]
  <2> HIDE DEF one
  <2>1. QED BY <1>1, <1>2, <1>3
<1>5. QED BY <1>3, <1>4

\* A leaf is launched: it has a permit or waits for one.
LEMMA LeafEffect ==
  ASSUME Typed, NEW m \in Missions, NEW a \in Agents, NEW r, r = RootOf(m), LaunchLeaf(m, a)
  PROVE  /\ MovesOn(m) /\ \A n \in Missions \ {m} : level'[n] = level[n]
         /\ kid' \in [Kids -> KidType] /\ limiter' \in [Roots -> PermitType]
         /\ \A k \in Kids : /\ kid'[k].row = kid[k].row /\ kid'[k].produced = kid[k].produced
                            /\ k # a => kid'[k] = kid[k]
         /\ ~kid'[a].report
         /\ \A q \in Roots \ {r} : limiter'[q] = limiter[q]
         /\ \/ /\ limiter[r].active < Width /\ kid'[a].act = "granted"
               /\ limiter'[r].active = limiter[r].active + 1
               /\ limiter'[r].waiters = limiter[r].waiters
            \/ /\ ~(limiter[r].active < Width) /\ kid'[a].act = "queued"
               /\ limiter'[r].active = limiter[r].active
               /\ limiter'[r].waiters = Append(limiter[r].waiters, a)
<1>1. r \in Roots /\ a \in Kids
  BY RootFacts DEF Places, Kids
<1> DEFINE free == limiter[r].active < Width
<1>2. /\ level' = [level EXCEPT ![m].next = @ + 1]
      /\ kid' = [kid EXCEPT ![a].act = IF free THEN "granted" ELSE "queued", ![a].report = FALSE]
      /\ limiter' = IF free THEN [limiter EXCEPT ![r].active = @ + 1]
                            ELSE [limiter EXCEPT ![r].waiters = Append(@, a)]
  BY DEF LaunchLeaf
<1>3. MovesOn(m) /\ \A n \in Missions \ {m} : level'[n] = level[n]
  BY <1>2, NextTyped DEF MovesOn
<1>4. /\ kid' \in [Kids -> KidType] /\ ~kid'[a].report
      /\ kid'[a].act = IF free THEN "granted" ELSE "queued"
      /\ \A k \in Kids : /\ kid'[k].row = kid[k].row /\ kid'[k].produced = kid[k].produced
                         /\ k # a => kid'[k] = kid[k]
  BY <1>1, <1>2 DEF Typed, KidType, Acts
<1>5. CASE free
  <2>1. limiter' = [limiter EXCEPT ![r].active = @ + 1]
    BY <1>2, <1>5
  <2>2. /\ limiter' \in [Roots -> PermitType] /\ \A q \in Roots \ {r} : limiter'[q] = limiter[q]
        /\ limiter'[r].active = limiter[r].active + 1
        /\ limiter'[r].waiters = limiter[r].waiters
    <3> DEFINE more == limiter[r].active + 1
               one == [limiter[r] EXCEPT !.active = more]
    <3>1. limiter[r] \in PermitType /\ more \in Nat /\ limiter \in [Roots -> PermitType]
      BY <1>1 DEF Typed, PermitType
    <3>2. limiter' = [limiter EXCEPT ![r] = one]
      BY <2>1
    <3>3. one \in PermitType /\ one.active = more /\ one.waiters = limiter[r].waiters
      <4> HIDE DEF more
      <4>1. QED BY <3>1 DEF PermitType
    <3>4. limiter'[r] = one /\ limiter' \in [Roots -> PermitType]
          /\ \A q \in Roots \ {r} : limiter'[q] = limiter[q]
      <4> HIDE DEF one
      <4>1. QED BY <1>1, <3>1, <3>2, <3>3
    <3>5. QED BY <3>3, <3>4
  <2>3. QED BY <1>3, <1>4, <1>5, <2>2
<1>6. CASE ~free
  <2>1. limiter' = [limiter EXCEPT ![r].waiters = Append(@, a)]
    BY <1>2, <1>6
  <2>2. Append(limiter[r].waiters, a) \in Seq(Agents)
    BY <1>1 DEF Typed, PermitType
  <2>3. /\ limiter' \in [Roots -> PermitType] /\ \A q \in Roots \ {r} : limiter'[q] = limiter[q]
        /\ limiter'[r].active = limiter[r].active
        /\ limiter'[r].waiters = Append(limiter[r].waiters, a)
    BY <1>1, <2>1, <2>2 DEF Typed, PermitType
  <2>4. QED BY <1>3, <1>4, <1>6, <2>3
<1>7. QED BY <1>5, <1>6

\* A crew slot that settles without running.
LEMMA UnrunEffect ==
  ASSUME Typed, NEW m \in Missions, NEW s \in Subs, NEW row \in {"error", "aborted"},
         SettleUnrun(m, s, row), ledger' = ledger \/ ledger' = [ledger EXCEPT ![m].childPartial = TRUE]
  PROVE  /\ MovesOn(m) /\ \A n \in Missions \ {m} : level'[n] = level[n]
         /\ kid' \in [Kids -> KidType] /\ ledger' \in [Missions -> LedgerType]
         /\ \A k \in Kids : /\ kid'[k].report = kid[k].report /\ kid'[k].produced = kid[k].produced
                            /\ k # s => kid'[k] = kid[k]
         /\ kid'[s].row = row /\ kid'[s].act = "done"
         /\ \A n \in Missions : /\ ledger'[n].before = ledger[n].before
                                /\ ledger[n].childPartial => ledger'[n].childPartial
<1>1. s \in Kids
  BY DEF Kids
<1>2. MovesOn(m) /\ \A n \in Missions \ {m} : level'[n] = level[n]
  <2>1. level' = [level EXCEPT ![m].next = @ + 1]
    BY DEF SettleUnrun
  <2>2. QED BY <2>1, NextTyped DEF MovesOn
<1>3. /\ kid' \in [Kids -> KidType] /\ kid'[s].row = row /\ kid'[s].act = "done"
      /\ \A k \in Kids : /\ kid'[k].report = kid[k].report /\ kid'[k].produced = kid[k].produced
                         /\ k # s => kid'[k] = kid[k]
  <2>1. kid' = [kid EXCEPT ![s].act = "done", ![s].row = row] /\ row \in RowStates
        /\ "done" \in Acts
    BY DEF SettleUnrun, RowStates, Acts
  <2>2. QED BY <1>1, <2>1 DEF Typed, KidType
<1>4. /\ ledger' \in [Missions -> LedgerType]
      /\ \A n \in Missions : /\ ledger'[n].before = ledger[n].before
                             /\ ledger[n].childPartial => ledger'[n].childPartial
  <2>1. CASE ledger' = ledger
    BY <2>1 DEF Typed
  <2>2. CASE ledger' = [ledger EXCEPT ![m].childPartial = TRUE]
    BY <2>2 DEF Typed, LedgerType
  <2>3. QED BY <2>1, <2>2
<1>5. QED BY <1>2, <1>3, <1>4

\* A crew slot that opens its nested mission.
LEMMA SubCrewEffect ==
  ASSUME Typed, NEW m \in Missions, NEW s \in Subs, s # m, OpenSubCrew(m, s)
  PROVE  /\ mission' \in [Missions -> RowType] /\ order' \in Seq(Missions)
         /\ kid' \in [Kids -> KidType] /\ ledger' \in [Missions -> LedgerType]
         /\ MovesOn(m) /\ Begins(s) /\ ledger'[s].before = meter[RootOf(m)].total
         /\ \A n \in Missions \ {s} :
              /\ mission'[n] = mission[n] /\ ledger'[n].before = ledger[n].before
              /\ ledger'[n].childPartial = ledger[n].childPartial
              /\ n # m => level'[n] = level[n]
         /\ \A k \in Kids :
              /\ kid'[k].row = IF k \in SlotSet(s) THEN "pending" ELSE kid[k].row
              /\ kid'[k].act = IF k = s THEN "running" ELSE kid[k].act
              /\ kid'[k].report = kid[k].report /\ kid'[k].produced = kid[k].produced
<1>1. s \in Missions /\ s \in Kids /\ meter[RootOf(m)].total \in Nat
  BY RootFacts DEF Missions, Kids, Places, Typed, MeterType
<1> DEFINE cap == Allocation(m, s)
           moved == [level EXCEPT ![m].next = @ + 1]
           begun == [kid EXCEPT ![s].act = "running"]
<1>2. /\ mission' = [mission EXCEPT ![s].status = "running"] /\ order' = Append(order, s)
      /\ level' = OpenLevel(moved, s) /\ kid' = Spawned(begun, s)
      /\ ledger' = [ledger EXCEPT ![m].reservable = @ - cap,
                                  ![s] = Ledger(cap, meter[RootOf(m)].total)]
  BY DEF OpenSubCrew
<1>3. cap \in Nat /\ cap <= ledger[m].reservable
  <2>1. ledger[m].reservable \in Nat /\ crew.request[s] \in Nat
    BY CrewFacts DEF Typed, LedgerType
  <2>2. QED BY <2>1, MinOfTwo DEF Allocation
<1> HIDE DEF cap
<1>4. /\ mission' \in [Missions -> RowType] /\ mission'[s].status = "running"
      /\ mission'[s].partial = mission[s].partial
      /\ \A n \in Missions \ {s} : mission'[n] = mission[n]
  BY <1>1, <1>2 DEF Typed, RowType, MissionStatuses
<1>5. order' \in Seq(Missions)
  BY <1>1, <1>2 DEF Typed
<1>6. /\ moved \in [Missions -> LevelType] /\ moved[m].phase = level[m].phase
      /\ moved[m].next = level[m].next + 1 /\ moved[m].active = level[m].active
      /\ \A n \in Missions \ {m} : moved[n] = level[n]
  BY NextTyped
<1>7. /\ MovesOn(m) /\ \A n \in Missions \ {s, m} : level'[n] = level[n]
      /\ level'[s].phase = "running" /\ level'[s].next = 1 /\ level'[s].active = Plan[s]
  <2> HIDE DEF moved
  <2>1. QED BY <1>1, <1>2, <1>6, OpenLevelType DEF MovesOn
<1>8. /\ begun \in [Kids -> KidType]
      /\ \A k \in Kids : /\ begun[k].row = kid[k].row
                         /\ begun[k].act = IF k = s THEN "running" ELSE kid[k].act
                         /\ begun[k].report = kid[k].report /\ begun[k].produced = kid[k].produced
  BY <1>1 DEF Typed, KidType, Acts
<1>9. /\ kid' \in [Kids -> KidType]
      /\ \A k \in Kids :
           /\ kid'[k].row = IF k \in SlotSet(s) THEN "pending" ELSE kid[k].row
           /\ kid'[k].act = IF k = s THEN "running" ELSE kid[k].act
           /\ kid'[k].report = kid[k].report /\ kid'[k].produced = kid[k].produced
  <2> HIDE DEF begun
  <2>1. QED BY <1>1, <1>2, <1>8, SpawnedType
<1>10. /\ ledger' \in [Missions -> LedgerType]
       /\ ledger'[s].before = meter[RootOf(m)].total /\ ~ledger'[s].childPartial
       /\ \A n \in Missions \ {s} : /\ ledger'[n].before = ledger[n].before
                                    /\ ledger'[n].childPartial = ledger[n].childPartial
  <2> DEFINE new == Ledger(cap, meter[RootOf(m)].total)
  <2>1. new \in LedgerType /\ new.before = meter[RootOf(m)].total /\ ~new.childPartial
    BY <1>1, <1>3, LedgerFacts
  <2>2. ledger[m].reservable - cap \in Nat
    BY <1>3 DEF Typed, LedgerType
  <2> HIDE DEF new
  <2>3. ledger' = [ledger EXCEPT ![m].reservable = @ - cap, ![s] = new]
    BY <1>2 DEF new
  <2>4. QED BY <1>1, <2>1, <2>2, <2>3 DEF Typed, LedgerType
<1>11. QED BY <1>4, <1>5, <1>7, <1>9, <1>10 DEF Begins

\* A permit goes to the head of the queue, if there is one.
Freed(r) ==
  /\ limiter' \in [Roots -> PermitType]
  /\ \A q \in Roots \ {r} : limiter'[q] = limiter[q]
  /\ IF limiter[r].waiters = <<>>
       THEN limiter'[r].active = limiter[r].active - 1 /\ limiter'[r].waiters = <<>>
       ELSE /\ limiter'[r].active = limiter[r].active
            /\ limiter'[r].waiters = Tail(limiter[r].waiters)

LEMMA ReleaseEffect ==
  ASSUME Typed, NEW r \in Roots, limiter[r].active > 0, limiter' = AfterRelease(r)
  PROVE  Freed(r)
<1>1. limiter[r] \in PermitType /\ limiter \in [Roots -> PermitType]
  BY DEF Typed
<1>2. CASE limiter[r].waiters = <<>>
  <2> DEFINE less == limiter[r].active - 1
             one == [limiter[r] EXCEPT !.active = less]
  <2>1. less \in Nat
    BY <1>1 DEF PermitType
  <2>2. limiter' = [limiter EXCEPT ![r] = one]
    BY <1>2 DEF AfterRelease
  <2>3. one \in PermitType /\ one.active = less /\ one.waiters = limiter[r].waiters
    <3> HIDE DEF less
    <3>1. QED BY <1>1, <2>1 DEF PermitType
  <2>4. /\ limiter'[r] = one /\ limiter' \in [Roots -> PermitType]
        /\ \A q \in Roots \ {r} : limiter'[q] = limiter[q]
    <3> HIDE DEF one
    <3>1. QED BY <1>1, <2>2, <2>3
  <2>5. QED BY <1>2, <2>3, <2>4 DEF Freed
<1>3. CASE limiter[r].waiters # <<>>
  <2> DEFINE rest == Tail(limiter[r].waiters)
  <2>1. rest \in Seq(Agents)
    BY <1>1, <1>3 DEF PermitType
  <2>2. limiter' = [limiter EXCEPT ![r].waiters = rest]
    BY <1>3 DEF AfterRelease
  <2>3. /\ limiter' \in [Roots -> PermitType] /\ \A q \in Roots \ {r} : limiter'[q] = limiter[q]
        /\ limiter'[r].active = limiter[r].active /\ limiter'[r].waiters = rest
    <3> HIDE DEF rest
    <3>1. QED BY <1>1, <2>1, <2>2 DEF PermitType
  <2>4. QED BY <1>3, <2>3 DEF Freed
<1>4. QED BY <1>2, <1>3

LEMMA GrantedFacts ==
  ASSUME Typed, NEW r \in Roots
  PROVE  /\ GrantedTo(r) \subseteq Agents
         /\ limiter[r].waiters = <<>> => GrantedTo(r) = {}
         /\ limiter[r].waiters # <<>> => GrantedTo(r) = {Head(limiter[r].waiters)}
<1>1. limiter[r].waiters \in Seq(Agents)
  BY DEF Typed, PermitType
<1>2. limiter[r].waiters # <<>> => Head(limiter[r].waiters) \in Agents
  BY <1>1
<1>3. QED BY <1>2 DEF GrantedTo

LEMMA ChargedType ==
  ASSUME Typed, NEW m \in Missions, NEW c \in Nat, NEW ld, ld = Charged(m, c)
  PROVE  /\ ld \in [Missions -> LedgerType]
         /\ \A n \in Missions : ld[n].before = ledger[n].before
                                /\ ld[n].childPartial = ledger[n].childPartial
<1> DEFINE spent == ledger[m].spent + c
           tripped == ledger[m].tripped \/ spent >= ledger[m].cap
           one == [ledger[m] EXCEPT !.spent = spent, !.tripped = tripped]
<1>1. ledger[m] \in LedgerType /\ ledger \in [Missions -> LedgerType]
  BY DEF Typed
<1>2. spent \in Nat /\ tripped \in BOOLEAN
  BY <1>1 DEF LedgerType
<1>3. ld = [ledger EXCEPT ![m] = one]
  BY DEF Charged
<1>4. one \in LedgerType /\ one.before = ledger[m].before
      /\ one.childPartial = ledger[m].childPartial
  <2> HIDE DEF spent, tripped
  <2>1. QED BY <1>1, <1>2 DEF LedgerType
<1> HIDE DEF one
<1>5. QED BY <1>1, <1>3, <1>4

\* The states a leaf's row may be left in.
Parting(a) == {"completed", "error", Skipped(kid[a].row)}

LEMMA PartingFacts ==
  ASSUME Typed, NEW a \in Agents
  PROVE  Parting(a) \subseteq SettledRows /\ SettledRows \subseteq RowStates
BY DEF Parting, Skipped, SettledRows, RowStates

\* A leaf's slot is over.
LEMMA LeaveEffect ==
  ASSUME Typed, NEW a \in Agents, NEW row \in Parting(a), NEW reported \in BOOLEAN, NEW c \in Nat,
         limiter[RootOf(a)].active > 0, a \notin GrantedTo(RootOf(a)),
         Leave(a, row, reported, c)
  PROVE  /\ kid' \in [Kids -> KidType] /\ ledger' \in [Missions -> LedgerType]
         /\ meter' \in [Roots -> MeterType] /\ abort' \in [Missions \cup Agents -> BOOLEAN]
         /\ Freed(RootOf(a)) /\ UNCHANGED <<mission, level>>
         /\ kid'[a].row = row /\ kid'[a].act = "done" /\ kid'[a].report = reported
         /\ kid'[a].produced = (kid[a].produced \/ reported)
         /\ \A k \in Kids \ {a} :
              /\ kid'[k].row = kid[k].row /\ kid'[k].report = kid[k].report
              /\ kid'[k].produced = kid[k].produced
              /\ kid'[k].act = IF k \in GrantedTo(RootOf(a)) THEN "granted" ELSE kid[k].act
         /\ \A q \in Roots : /\ meter'[q].total >= meter[q].total
                             /\ meter[q].tripped => meter'[q].tripped
                             /\ q # RootOf(a) => meter'[q] = meter[q]
         /\ \A x \in Missions \cup Agents : x # a /\ abort[x] => abort'[x]
         /\ ~abort'[a] /\ \A x \in Missions : abort'[x] = abort[x]
         /\ meter'[RootOf(a)].tripped /\ ~meter[RootOf(a)].tripped =>
              \A x \in InFlightLeaves(RootOf(a)) \ {a} : abort'[x]
         /\ \A n \in Missions : /\ ledger'[n].before = ledger[n].before
                                /\ ledger'[n].childPartial = ledger[n].childPartial
<1> DEFINE r == RootOf(a)
           m == Home[a]
           total == meter[r].total + c
           made == kid[a].produced \/ reported
           gone == [kid[a] EXCEPT !.row = row, !.act = "done", !.report = reported, !.produced = made]
<1>1. r \in Roots /\ a \in Kids /\ m \in Missions
  BY RootFacts, HomeFacts DEF Places, Kids
<1>2. /\ kid' = [k \in Kids |->
            CASE k = a -> gone
              [] k \in GrantedTo(r) -> [kid[k] EXCEPT !.act = "granted"]
              [] OTHER -> kid[k]]
      /\ limiter' = AfterRelease(r)
      /\ meter' = [meter EXCEPT ![r] = [total |-> total, tripped |-> @.tripped \/ total >= crew.cap]]
      /\ abort' = [x \in Missions \cup Agents |->
                     x # a /\ (abort[x] \/ x \in TripTargets(a, total))]
      /\ ledger' = Charged(m, c)
      /\ UNCHANGED <<mission, level>>
  BY DEF Leave
<1>3. row \in RowStates
  BY PartingFacts
<1>4. /\ kid'[a] = gone
      /\ \A k \in Kids \ {a} : kid'[k] = IF k \in GrantedTo(r) THEN [kid[k] EXCEPT !.act = "granted"]
                                         ELSE kid[k]
      /\ DOMAIN kid' = Kids
  <2>0. a \notin GrantedTo(r)
    OBVIOUS
  <2>1. kid' = [k \in Kids |-> CASE k = a -> gone
                                 [] k \in GrantedTo(r) -> [kid[k] EXCEPT !.act = "granted"]
                                 [] OTHER -> kid[k]]
    BY <1>2
  <2> HIDE DEF gone, r
  <2>2. kid'[a] = gone /\ DOMAIN kid' = Kids
    <3>1. kid'[a] = CASE a = a -> gone
                      [] a \in GrantedTo(r) -> [kid[a] EXCEPT !.act = "granted"]
                      [] OTHER -> kid[a]
      BY <1>1, <2>1
    <3>2. QED BY <2>0, <2>1, <3>1, Zenon
  <2>3. ASSUME NEW k \in Kids \ {a}
        PROVE  kid'[k] = IF k \in GrantedTo(r) THEN [kid[k] EXCEPT !.act = "granted"] ELSE kid[k]
    <3>1. kid'[k] = CASE k = a -> gone
                      [] k \in GrantedTo(r) -> [kid[k] EXCEPT !.act = "granted"]
                      [] OTHER -> kid[k]
      BY <2>1
    <3>2. k # a
      OBVIOUS
    <3>3. QED BY <3>1, <3>2, Zenon
  <2>4. QED BY <2>2, <2>3
<1>5. /\ kid'[a] \in KidType /\ kid'[a].row = row /\ kid'[a].act = "done"
      /\ kid'[a].report = reported /\ kid'[a].produced = (kid[a].produced \/ reported)
  <2>1. kid[a] \in KidType /\ made \in BOOLEAN /\ "done" \in Acts
    BY <1>1 DEF Typed, KidType, Acts
  <2>2. /\ gone \in KidType /\ gone.row = row /\ gone.act = "done"
        /\ gone.report = reported /\ gone.produced = made
    <3> HIDE DEF made
    <3>1. QED BY <1>3, <2>1 DEF KidType
  <2> HIDE DEF gone
  <2>3. QED BY <1>4, <2>2
<1>6. \A k \in Kids \ {a} :
        /\ kid'[k] \in KidType
        /\ kid'[k].row = kid[k].row /\ kid'[k].report = kid[k].report
        /\ kid'[k].produced = kid[k].produced
        /\ kid'[k].act = IF k \in GrantedTo(r) THEN "granted" ELSE kid[k].act
  BY <1>4 DEF Typed, KidType, Acts
<1>7. kid' \in [Kids -> KidType]
  BY <1>2, <1>5, <1>6
<1>8. Freed(r)
  BY <1>1, <1>2, ReleaseEffect
<1>9. total \in Nat /\ total >= meter[r].total /\ crew.cap \in Nat
  BY <1>1, CrewFacts DEF Typed, MeterType
<1>10. /\ meter' \in [Roots -> MeterType]
       /\ \A q \in Roots : /\ meter'[q].total >= meter[q].total
                           /\ meter[q].tripped => meter'[q].tripped
                           /\ q # r => meter'[q] = meter[q]
       /\ meter'[r].tripped => meter[r].tripped \/ total >= crew.cap
  <2> DEFINE trip == meter[r].tripped \/ total >= crew.cap
             one == [total |-> total, tripped |-> trip]
  <2>1. trip \in BOOLEAN
    BY <1>1, <1>9 DEF Typed, MeterType
  <2>2. one \in MeterType /\ one.total = total /\ one.tripped = trip
    <3> HIDE DEF total, trip
    <3>1. QED BY <1>9, <2>1 DEF MeterType
  <2>3. meter' = [meter EXCEPT ![r] = one]
    BY <1>2
  <2>4. /\ meter' \in [Roots -> MeterType] /\ meter'[r] = one
        /\ \A q \in Roots \ {r} : meter'[q] = meter[q]
    <3> HIDE DEF one
    <3>1. QED BY <1>1, <2>2, <2>3 DEF Typed
  <2>5. \A q \in Roots : meter[q].total \in Nat /\ meter[q].tripped \in BOOLEAN
    BY DEF Typed, MeterType
  <2>6. meter'[r].total = total /\ meter'[r].tripped = (meter[r].tripped \/ total >= crew.cap)
    BY <2>2, <2>4
  <2> HIDE DEF one, trip, total
  <2>7. ASSUME NEW q \in Roots
        PROVE  /\ meter'[q].total >= meter[q].total /\ (meter[q].tripped => meter'[q].tripped)
               /\ q # r => meter'[q] = meter[q]
    <3>1. CASE q = r
      BY <1>9, <2>6, <3>1
    <3>2. CASE q # r
      <4>1. meter'[q] = meter[q]
        BY <2>4, <3>2
      <4>2. QED BY <2>5, <3>2, <4>1
    <3>3. QED BY <3>1, <3>2
  <2>8. QED BY <2>4, <2>6, <2>7
<1>11. /\ abort' \in [Missions \cup Agents -> BOOLEAN]
       /\ \A x \in Missions \cup Agents : abort'[x] = (x # a /\ (abort[x] \/ x \in TripTargets(a, total)))
  <2> HIDE DEF total
  <2>1. QED BY <1>2
<1>12. \A x \in Missions : x # a /\ x \notin TripTargets(a, total)
  <2>1. \A x \in Missions : x \notin Agents
    BY PlanAssumption DEF Missions, Kids
  <2>2. QED BY <2>1 DEF TripTargets, InFlightLeaves
<1>13. total >= crew.cap => TripTargets(a, total) = InFlightLeaves(r) \ {a}
  BY DEF TripTargets
<1>14. \A x \in Missions \cup Agents : abort[x] \in BOOLEAN
  BY DEF Typed
<1>15. /\ \A x \in Missions \cup Agents : x # a /\ abort[x] => abort'[x]
       /\ ~abort'[a] /\ \A x \in Missions : abort'[x] = abort[x]
  <2> HIDE DEF total
  <2>1. QED BY <1>11, <1>12, <1>14
<1>16. meter'[r].tripped /\ ~meter[r].tripped => \A x \in InFlightLeaves(r) \ {a} : abort'[x]
  <2>1. InFlightLeaves(r) \subseteq Agents
    BY DEF InFlightLeaves
  <2> HIDE DEF total
  <2>2. QED BY <1>10, <1>11, <1>13, <2>1
<1>17. /\ ledger' \in [Missions -> LedgerType]
       /\ \A n \in Missions : /\ ledger'[n].before = ledger[n].before
                              /\ ledger'[n].childPartial = ledger[n].childPartial
  BY <1>1, <1>2, ChargedType
<1>18. QED BY <1>2, <1>5, <1>6, <1>7, <1>8, <1>10, <1>11, <1>15, <1>16, <1>17

\* A leaf's slot throws.
LEMMA LoseEffect ==
  ASSUME Typed, NEW a \in Agents, limiter[RootOf(a)].active > 0, a \notin GrantedTo(RootOf(a)),
         Lose(a)
  PROVE  /\ kid' \in [Kids -> KidType] /\ level' \in [Missions -> LevelType]
         /\ mission' \in [Missions -> RowType] /\ abort' \in [Missions \cup Agents -> BOOLEAN]
         /\ Freed(RootOf(a)) /\ UNCHANGED <<meter, ledger>>
         /\ kid'[a].row = kid[a].row /\ kid'[a].act = "lost"
         /\ ~kid'[a].report /\ kid'[a].produced = kid[a].produced
         /\ \A k \in Kids \ {a} :
              /\ kid'[k].report = kid[k].report /\ kid'[k].produced = kid[k].produced
              /\ IF k = Home[a] /\ level[Home[a]].phase = "running"
                   THEN kid'[k].act = "done" /\ kid'[k].row = "error"
                   ELSE /\ kid'[k].act = IF k \in GrantedTo(RootOf(a)) THEN "granted" ELSE kid[k].act
                        /\ kid'[k].row = kid[k].row
         /\ level'[Home[a]].phase = "broken" /\ level'[Home[a]].next = level[Home[a]].next
         /\ level'[Home[a]].active = level[Home[a]].active
         /\ \A n \in Missions \ {Home[a]} : level'[n] = level[n] /\ mission'[n] = mission[n]
         /\ mission'[Home[a]].partial = mission[Home[a]].partial
         /\ mission'[Home[a]].status = IF Home[a] \in Roots /\ level[Home[a]].phase = "running" THEN "failed"
                                 ELSE mission[Home[a]].status
         /\ ~abort'[a] /\ \A x \in Missions \cup Agents : x # a => abort'[x] = abort[x]
<1> DEFINE r == RootOf(a)
           m == Home[a]
           first == level[m].phase = "running"
           lost == [kid[a] EXCEPT !.act = "lost", !.report = FALSE]
<1>1. r \in Roots /\ a \in Kids /\ m \in Missions /\ a # m
  BY RootFacts, HomeFacts, PlanAssumption DEF Places, Kids, Missions
<1>2. /\ kid' = [k \in Kids |->
            CASE k = a -> lost
              [] k \in GrantedTo(r) -> [kid[k] EXCEPT !.act = "granted"]
              [] k = m /\ first -> [kid[k] EXCEPT !.act = "done", !.row = "error"]
              [] OTHER -> kid[k]]
      /\ limiter' = AfterRelease(r)
      /\ level' = [level EXCEPT ![m].phase = "broken"]
      /\ mission' = [mission EXCEPT ![m].status = IF m \in Roots /\ first THEN "failed" ELSE @]
      /\ abort' = [abort EXCEPT ![a] = FALSE]
      /\ UNCHANGED <<meter, ledger>>
  BY DEF Lose
<1>3. m \notin GrantedTo(r)
  BY <1>1, GrantedFacts, PlanAssumption DEF Missions, Kids
<1>4. /\ kid'[a] = lost
      /\ \A k \in Kids \ {a} :
           kid'[k] = IF k = m /\ first THEN [kid[k] EXCEPT !.act = "done", !.row = "error"]
                     ELSE IF k \in GrantedTo(r) THEN [kid[k] EXCEPT !.act = "granted"]
                     ELSE kid[k]
  <2>0. a # m /\ a \notin GrantedTo(r)
    BY <1>1
  <2>1. kid' = [k \in Kids |-> CASE k = a -> lost
                                 [] k \in GrantedTo(r) -> [kid[k] EXCEPT !.act = "granted"]
                                 [] k = m /\ first -> [kid[k] EXCEPT !.act = "done", !.row = "error"]
                                 [] OTHER -> kid[k]]
    BY <1>2
  <2> HIDE DEF lost, r, m, first
  <2>2. kid'[a] = lost
    <3>1. kid'[a] = CASE a = a -> lost
                      [] a \in GrantedTo(r) -> [kid[a] EXCEPT !.act = "granted"]
                      [] a = m /\ first -> [kid[a] EXCEPT !.act = "done", !.row = "error"]
                      [] OTHER -> kid[a]
      BY <1>1, <2>1
    <3>2. QED BY <2>0, <3>1, Zenon
  <2>3. ASSUME NEW k \in Kids \ {a}
        PROVE  kid'[k] = IF k = m /\ first THEN [kid[k] EXCEPT !.act = "done", !.row = "error"]
                         ELSE IF k \in GrantedTo(r) THEN [kid[k] EXCEPT !.act = "granted"]
                         ELSE kid[k]
    <3>1. kid'[k] = CASE k = a -> lost
                      [] k \in GrantedTo(r) -> [kid[k] EXCEPT !.act = "granted"]
                      [] k = m /\ first -> [kid[k] EXCEPT !.act = "done", !.row = "error"]
                      [] OTHER -> kid[k]
      BY <2>1
    <3>2. k # a /\ (k = m => k \notin GrantedTo(r))
      BY <1>3
    <3>3. CASE k \in GrantedTo(r)
      <4>1. k # m
        BY <3>2, <3>3
      <4>2. QED BY <3>1, <3>2, <3>3, <4>1, Zenon
    <3>4. CASE k \notin GrantedTo(r) /\ k = m /\ first
      BY <3>1, <3>2, <3>4, Zenon
    <3>5. CASE k \notin GrantedTo(r) /\ ~(k = m /\ first)
      BY <3>1, <3>2, <3>5, Zenon
    <3>6. QED BY <3>3, <3>4, <3>5
  <2>4. QED BY <2>2, <2>3
<1>5. /\ kid'[a] \in KidType /\ kid'[a].row = kid[a].row /\ kid'[a].act = "lost"
      /\ ~kid'[a].report /\ kid'[a].produced = kid[a].produced
  <2>1. kid[a] \in KidType /\ "lost" \in Acts
    BY <1>1 DEF Typed, Acts
  <2>2. /\ lost \in KidType /\ lost.row = kid[a].row /\ lost.act = "lost"
        /\ ~lost.report /\ lost.produced = kid[a].produced
    BY <2>1 DEF KidType
  <2> HIDE DEF lost
  <2>3. QED BY <1>4, <2>2
<1>6. \A k \in Kids \ {a} :
        /\ kid'[k] \in KidType
        /\ kid'[k].report = kid[k].report /\ kid'[k].produced = kid[k].produced
        /\ IF k = m /\ first
             THEN kid'[k].act = "done" /\ kid'[k].row = "error"
             ELSE /\ kid'[k].act = IF k \in GrantedTo(r) THEN "granted" ELSE kid[k].act
                  /\ kid'[k].row = kid[k].row
  <2> HIDE DEF r, m, first, lost
  <2>1. "granted" \in Acts /\ "done" \in Acts /\ "error" \in RowStates
    BY DEF Acts, RowStates
  <2>2. QED BY <1>4, <2>1 DEF Typed, KidType
<1>7. kid' \in [Kids -> KidType]
  BY <1>2, <1>5, <1>6
<1>8. Freed(r)
  BY <1>1, <1>2, ReleaseEffect
<1>9. /\ level' \in [Missions -> LevelType]
      /\ level'[m].phase = "broken" /\ level'[m].next = level[m].next
      /\ level'[m].active = level[m].active
      /\ \A n \in Missions \ {m} : level'[n] = level[n]
  BY <1>1, <1>2 DEF Typed, LevelType, Phases
<1>10. /\ mission' \in [Missions -> RowType]
       /\ mission'[m].partial = mission[m].partial
       /\ mission'[m].status = IF m \in Roots /\ first THEN "failed" ELSE mission[m].status
       /\ \A n \in Missions \ {m} : mission'[n] = mission[n]
  BY <1>1, <1>2 DEF Typed, RowType, MissionStatuses, Terminal
<1>11. /\ abort' \in [Missions \cup Agents -> BOOLEAN]
       /\ ~abort'[a] /\ \A x \in Missions \cup Agents : x # a => abort'[x] = abort[x]
  BY <1>1, <1>2 DEF Typed
<1>12. QED BY <1>2, <1>5, <1>6, <1>7, <1>8, <1>9, <1>10, <1>11

\* A leaf that has its permit starts its run.
BeginsRun(a) ==
  /\ kid[a].act = "granted" /\ kid[a].row # "deleted" /\ ~abort[a]
  /\ kid' = [kid EXCEPT ![a].act = "running", ![a].row = "running"]
  /\ UNCHANGED <<mission, level, abort, limiter, ledger, meter>>

LEMMA BeginEffect ==
  ASSUME Typed, NEW a \in Agents, BeginsRun(a)
  PROVE  /\ kid' \in [Kids -> KidType]
         /\ kid'[a].row = "running" /\ kid'[a].act = "running"
         /\ \A k \in Kids : /\ kid'[k].report = kid[k].report /\ kid'[k].produced = kid[k].produced
                            /\ k # a => kid'[k] = kid[k]
<1>1. a \in Kids /\ "running" \in Acts /\ "running" \in RowStates
  BY DEF Kids, Acts, RowStates
<1>2. QED BY <1>1 DEF Typed, KidType, BeginsRun

\* A debate argues on.
LEMMA NextRoundEffect ==
  ASSUME Typed, LevelInv, NEW m \in Missions, NextRound(m)
  PROVE  /\ level' \in [Missions -> LevelType] /\ \A n \in Missions \ {m} : level'[n] = level[n]
         /\ level[m].phase = "running" /\ level'[m].phase = "running" /\ level'[m].next = 1
         /\ level'[m].active \in Seq(Kids) /\ IsInjective(level'[m].active)
         /\ ToSet(level'[m].active) \subseteq ToSet(level[m].active)
         /\ \A k \in SlotSet(m) : ~Flying(k)
         /\ SlotSet(m) \subseteq Agents
<1> DEFINE round == level[m].round + 1
           slots == StillActive(m)
           one == [phase |-> "running", next |-> 1, round |-> round, active |-> slots]
<1>1. RoundOver(m) /\ AnotherRound(m) /\ level' = [level EXCEPT ![m] = one]
  BY DEF NextRound
<1>2. level \in [Missions -> LevelType] /\ level[m] \in LevelType
  BY DEF Typed
<1>3. level[m].phase = "running" /\ \A k \in SlotSet(m) : ~Flying(k)
  BY <1>1 DEF RoundOver, Flying
<1>4. round \in 1..Rounds
  BY <1>1, <1>2, BudgetAssumption DEF AnotherRound, LevelType
<1>5. slots \in Seq(Kids) /\ IsInjective(slots) /\ ToSet(slots) \subseteq ToSet(level[m].active)
  BY <1>2, StillActiveFacts DEF LevelType, LevelInv, LevelAt
<1>6. one \in LevelType /\ one.phase = "running" /\ one.next = 1 /\ one.active = slots
  <2> HIDE DEF round, slots
  <2>1. QED BY <1>4, <1>5 DEF LevelType, Phases
<1>7. /\ level'[m] = one /\ level' \in [Missions -> LevelType]
      /\ \A n \in Missions \ {m} : level'[n] = level[n]
  <2> HIDE DEF one
  <2>1. QED BY <1>1, <1>2, <1>6
<1>8. SlotSet(m) \subseteq Agents
  BY <1>1, CrewFacts DEF AnotherRound
<1>9. QED BY <1>3, <1>5, <1>6, <1>7, <1>8

\* A phase alone moves.
LEMMA PhaseTyped ==
  ASSUME Typed, NEW m \in Missions, NEW phase \in Phases,
         level' = [level EXCEPT ![m].phase = phase]
  PROVE  /\ level' \in [Missions -> LevelType] /\ \A n \in Missions \ {m} : level'[n] = level[n]
         /\ level'[m].phase = phase /\ level'[m].next = level[m].next
         /\ level'[m].active = level[m].active
BY DEF Typed, LevelType

\* A level that is over throws when a child session is gone ...
LEMMA BrokenEffect ==
  ASSUME Typed, NEW m \in Missions, SettleLevel(m), \E k \in SlotSet(m) : kid[k].row = "deleted"
  PROVE  /\ level' \in [Missions -> LevelType] /\ \A n \in Missions \ {m} : level'[n] = level[n]
         /\ level'[m].phase = "broken" /\ level'[m].next = level[m].next
         /\ level'[m].active = level[m].active
         /\ mission' \in [Missions -> RowType] /\ kid' \in [Kids -> KidType]
         /\ \A n \in Missions : /\ mission'[n].partial = mission[n].partial
                                /\ n # m => mission'[n] = mission[n]
         /\ mission'[m].status = IF m \in Roots THEN "failed" ELSE mission[m].status
         /\ \A k \in Kids :
              /\ kid'[k].report = kid[k].report /\ kid'[k].produced = kid[k].produced
              /\ kid'[k].act = IF k = m THEN "done" ELSE kid[k].act
              /\ kid'[k].row = IF k = m THEN "error" ELSE kid[k].row
<1>1. /\ level' = [level EXCEPT ![m].phase = "broken"]
      /\ mission' = [mission EXCEPT ![m].status = IF m \in Roots THEN "failed" ELSE @]
      /\ kid' = IF m \in Roots THEN kid ELSE [kid EXCEPT ![m].act = "done", ![m].row = "error"]
  BY DEF SettleLevel
<1>2. /\ level' \in [Missions -> LevelType] /\ \A n \in Missions \ {m} : level'[n] = level[n]
      /\ level'[m].phase = "broken" /\ level'[m].next = level[m].next
      /\ level'[m].active = level[m].active
  BY <1>1, PhaseTyped DEF Phases
<1>3. /\ mission' \in [Missions -> RowType]
      /\ \A n \in Missions : /\ mission'[n].partial = mission[n].partial
                             /\ n # m => mission'[n] = mission[n]
      /\ mission'[m].status = IF m \in Roots THEN "failed" ELSE mission[m].status
  BY <1>1 DEF Typed, RowType, MissionStatuses, Terminal
<1>4. m \in Roots => m \notin Kids
  BY PlanAssumption
<1>5. m \notin Roots => m \in Kids
  BY DEF Missions, Kids
<1>6. /\ kid' \in [Kids -> KidType]
      /\ \A k \in Kids :
           /\ kid'[k].report = kid[k].report /\ kid'[k].produced = kid[k].produced
           /\ kid'[k].act = IF k = m THEN "done" ELSE kid[k].act
           /\ kid'[k].row = IF k = m THEN "error" ELSE kid[k].row
  BY <1>1, <1>4, <1>5 DEF Typed, KidType, Acts, RowStates
<1>7. QED BY <1>2, <1>3, <1>6

\* ... and else settles the children that never ran and goes on to its synthesis.
LEMMA SettledEffect ==
  ASSUME Typed, NEW m \in Missions, SettleLevel(m), ~\E k \in SlotSet(m) : kid[k].row = "deleted"
  PROVE  /\ level' \in [Missions -> LevelType] /\ \A n \in Missions \ {m} : level'[n] = level[n]
         /\ level'[m].phase = "synthesizing" /\ level'[m].next = level[m].next
         /\ level'[m].active = level[m].active
         /\ mission' \in [Missions -> RowType] /\ kid' \in [Kids -> KidType]
         /\ \A n \in Missions : n # m => mission'[n] = mission[n]
         /\ mission'[m].status = "synthesizing" /\ mission'[m].partial = Partial(m)
         /\ \A k \in Kids :
              /\ kid'[k].report = kid[k].report /\ kid'[k].produced = kid[k].produced
              /\ kid'[k].act = kid[k].act
              /\ kid'[k].row = IF k \in SlotSet(m) THEN Skipped(kid[k].row) ELSE kid[k].row
<1>1. /\ level' = [level EXCEPT ![m].phase = "synthesizing"]
      /\ mission' = [mission EXCEPT ![m].status = "synthesizing", ![m].partial = Partial(m)]
      /\ kid' = [k \in Kids |-> IF k \in SlotSet(m) THEN [kid[k] EXCEPT !.row = Skipped(@)]
                                ELSE kid[k]]
  BY DEF SettleLevel
<1>2. /\ level' \in [Missions -> LevelType] /\ \A n \in Missions \ {m} : level'[n] = level[n]
      /\ level'[m].phase = "synthesizing" /\ level'[m].next = level[m].next
      /\ level'[m].active = level[m].active
  BY <1>1, PhaseTyped DEF Phases
<1>3. Partial(m) \in BOOLEAN
  BY DEF Partial
<1>4. /\ mission' \in [Missions -> RowType]
      /\ \A n \in Missions : n # m => mission'[n] = mission[n]
      /\ mission'[m].status = "synthesizing" /\ mission'[m].partial = Partial(m)
  <2> DEFINE part == Partial(m)
  <2>1. part \in BOOLEAN /\ mission' = [mission EXCEPT ![m].status = "synthesizing", ![m].partial = part]
    BY <1>1, <1>3
  <2> HIDE DEF part
  <2>2. /\ mission' \in [Missions -> RowType]
        /\ \A n \in Missions : n # m => mission'[n] = mission[n]
        /\ mission'[m].status = "synthesizing" /\ mission'[m].partial = part
    BY <2>1 DEF Typed, RowType, MissionStatuses
  <2>3. QED BY <2>2 DEF part
<1>5. \A k \in Kids : Skipped(kid[k].row) \in RowStates
  BY DEF Typed, KidType, Skipped, RowStates
<1>6. /\ kid' \in [Kids -> KidType]
      /\ \A k \in Kids :
           /\ kid'[k].report = kid[k].report /\ kid'[k].produced = kid[k].produced
           /\ kid'[k].act = kid[k].act
           /\ kid'[k].row = IF k \in SlotSet(m) THEN Skipped(kid[k].row) ELSE kid[k].row
  BY <1>1, <1>5 DEF Typed, KidType
<1>7. QED BY <1>2, <1>4, <1>6

\* A mission's answer is in: its row and level are over, and its control is gone.
Answered(m) ==
  /\ mission' = [mission EXCEPT ![m].status = IF Aborted(m) THEN "stopped" ELSE "completed"]
  /\ level' = [level EXCEPT ![m].phase = "off"]
  /\ abort' = [abort EXCEPT ![m] = FALSE]

LEMMA AnsweredEffect ==
  ASSUME Typed, NEW m \in Missions, Answered(m)
  PROVE  /\ level' \in [Missions -> LevelType] /\ \A n \in Missions \ {m} : level'[n] = level[n]
         /\ level'[m].phase = "off" /\ level'[m].next = level[m].next
         /\ level'[m].active = level[m].active
         /\ mission' \in [Missions -> RowType]
         /\ \A n \in Missions : /\ mission'[n].partial = mission[n].partial
                                /\ n # m => mission'[n] = mission[n]
         /\ mission'[m].status \in {"stopped", "completed"}
         /\ abort' \in [Missions \cup Agents -> BOOLEAN] /\ ~abort'[m]
         /\ \A x \in Missions \cup Agents : x # m => abort'[x] = abort[x]
<1>1. /\ level' \in [Missions -> LevelType] /\ \A n \in Missions \ {m} : level'[n] = level[n]
      /\ level'[m].phase = "off" /\ level'[m].next = level[m].next
      /\ level'[m].active = level[m].active
  BY PhaseTyped DEF Phases, Answered
<1>2. /\ mission' \in [Missions -> RowType]
      /\ \A n \in Missions : /\ mission'[n].partial = mission[n].partial
                             /\ n # m => mission'[n] = mission[n]
      /\ mission'[m].status \in {"stopped", "completed"}
  BY DEF Typed, RowType, MissionStatuses, Terminal, Answered
<1>3. /\ abort' \in [Missions \cup Agents -> BOOLEAN] /\ ~abort'[m]
      /\ \A x \in Missions \cup Agents : x # m => abort'[x] = abort[x]
  BY DEF Typed, Answered
<1>4. QED BY <1>1, <1>2, <1>3

\* A nested crew's answer becomes its container's.
LEMMA RollUpEffect ==
  ASSUME Typed, MeterInv, NEW s \in Subs, RollUp(s)
  PROVE  /\ kid' \in [Kids -> KidType] /\ ledger' \in [Missions -> LedgerType]
         /\ kid'[s].act = "done" /\ kid'[s].row \in SettledRows
         /\ kid'[s].report => kid'[s].produced
         /\ kid[s].produced => kid'[s].produced
         /\ \A k \in Kids \ {s} : kid'[k] = kid[k]
         /\ \A n \in Missions : /\ ledger'[n].before = ledger[n].before
                                /\ ledger[n].childPartial => ledger'[n].childPartial
         /\ kid'[s].produced /\ ~kid[s].produced /\ mission[s].partial =>
              ledger'[Home[s]].childPartial
<1> DEFINE p == Home[s]
           reported == Produced(s) # {}
           made == kid[s].produced \/ reported
           row == IF reported THEN "completed" ELSE Skipped(kid[s].row)
           one == [kid[s] EXCEPT !.act = "done", !.report = reported, !.produced = made, !.row = row]
<1>1. s \in Kids /\ s \in Missions /\ p \in Missions
  BY HomeFacts DEF Kids, Missions
<1>2. /\ kid' = [kid EXCEPT ![s] = one]
      /\ ledger' = IF reported
                     THEN [Charged(p, Subtotal(s)) EXCEPT ![p].childPartial = @ \/ mission[s].partial]
                     ELSE ledger
  BY DEF RollUp
<1>3. row \in SettledRows /\ SettledRows \subseteq RowStates /\ made \in BOOLEAN /\ reported \in BOOLEAN
  BY <1>1 DEF Typed, KidType, Skipped, SettledRows, RowStates
<1>4. /\ one \in KidType /\ one.act = "done" /\ one.row = row /\ one.report = reported
      /\ one.produced = made
  <2>1. kid[s] \in KidType /\ "done" \in Acts
    BY <1>1 DEF Typed, Acts
  <2> HIDE DEF made, row, reported
  <2>2. QED BY <1>3, <2>1 DEF KidType
<1>5. kid'[s] = one /\ kid' \in [Kids -> KidType] /\ \A k \in Kids \ {s} : kid'[k] = kid[k]
  <2> HIDE DEF one
  <2>1. QED BY <1>1, <1>2, <1>4 DEF Typed
<1>6. Subtotal(s) \in Nat
  <2>1. /\ meter[RootOf(s)].total \in Nat /\ ledger[s].before \in Nat
        /\ ledger[s].before <= meter[RootOf(s)].total /\ SynthCost \in Nat
    BY <1>1, RootFacts, BudgetAssumption DEF Typed, MeterType, LedgerType, MeterInv, Places
  <2>2. QED BY <2>1 DEF Subtotal
<1>7. /\ ledger' \in [Missions -> LedgerType]
      /\ \A n \in Missions : /\ ledger'[n].before = ledger[n].before
                             /\ ledger[n].childPartial => ledger'[n].childPartial
      /\ reported /\ mission[s].partial => ledger'[p].childPartial
  <2>1. CASE ~reported
    BY <1>2, <2>1 DEF Typed
  <2>2. CASE reported
    <3> DEFINE ld == Charged(p, Subtotal(s))
               part == ld[p].childPartial \/ mission[s].partial
    <3>1. /\ ld \in [Missions -> LedgerType]
          /\ \A n \in Missions : ld[n].before = ledger[n].before
                                 /\ ld[n].childPartial = ledger[n].childPartial
      BY <1>1, <1>6, ChargedType
    <3>2. ledger' = [ld EXCEPT ![p].childPartial = part]
      BY <1>2, <2>2
    <3>3. part \in BOOLEAN
      BY <1>1, <3>1 DEF Typed, RowType, LedgerType
    <3>4. /\ ledger' \in [Missions -> LedgerType] /\ ledger'[p].childPartial = part
          /\ ledger'[p].before = ld[p].before
          /\ \A n \in Missions \ {p} : ledger'[n] = ld[n]
      <4> HIDE DEF ld, part
      <4>1. QED BY <1>1, <3>1, <3>2, <3>3 DEF LedgerType
    <3> HIDE DEF ld
    <3>5. \A n \in Missions : ledger[n].childPartial => ledger'[n].childPartial
      BY <1>1, <3>1, <3>4
    <3>6. QED BY <1>1, <3>1, <3>4, <3>5
  <2>3. QED BY <2>1, <2>2
<1>8. kid'[s].report => kid'[s].produced
  BY <1>4, <1>5
<1>9. QED BY <1>3, <1>4, <1>5, <1>7, <1>8

\* At boot every mission is at rest or was not approved yet, and every slot idle.
LEMMA CrashEffect ==
  ASSUME Typed, Crash
  PROVE  /\ mission' \in [Missions -> RowType] /\ level' \in [Missions -> LevelType]
         /\ kid' \in [Kids -> KidType] /\ abort' \in [Missions \cup Agents -> BOOLEAN]
         /\ limiter' \in [Roots -> PermitType] /\ ledger' \in [Missions -> LedgerType]
         /\ meter' \in [Roots -> MeterType] /\ faults' \in 0..MaxFaults /\ UNCHANGED <<crew, order>>
         /\ \A m \in Missions :
              /\ level'[m].phase = "off" /\ level'[m].next = 1 /\ level'[m].active = Plan[m]
              /\ ledger'[m].before = 0 /\ mission'[m].partial = mission[m].partial
              /\ mission'[m].status =
                   IF mission[m].status \in {"running", "synthesizing"} THEN "failed"
                   ELSE IF mission[m].status = "planning" THEN "refused" ELSE mission[m].status
         /\ \A k \in Kids :
              /\ kid'[k].act = "idle" /\ ~kid'[k].report /\ kid'[k].produced = kid[k].produced
              /\ kid'[k].row =
                   IF \/ kid[k].row = "running"
                      \/ kid[k].row = "pending" /\ mission[Home[k]].status \in {"running", "synthesizing"}
                     THEN "aborted" ELSE kid[k].row
         /\ \A x \in Missions \cup Agents : ~abort'[x]
         /\ \A r \in Roots : /\ limiter'[r].active = 0 /\ limiter'[r].waiters = <<>>
                             /\ meter'[r].total = 0 /\ ~meter'[r].tripped
<1> DEFINE orphans == {m \in Missions : mission[m].status \in {"running", "synthesizing"}}
<1>1. /\ Reconcile /\ faults < MaxFaults /\ faults' = faults + 1
      /\ level' = [m \in Missions |-> OffLevel(m)]
      /\ abort' = [x \in Missions \cup Agents |-> FALSE]
      /\ limiter' = [r \in Roots |-> NoPermits]
      /\ ledger' = [m \in Missions |-> Ledger(0, 0)]
      /\ meter' = [r \in Roots |-> NoSpend]
      /\ UNCHANGED <<crew, order>>
  BY DEF Crash
<1>2. /\ mission' = [m \in Missions |->
            [mission[m] EXCEPT !.status = IF m \in orphans THEN "failed"
                                          ELSE IF @ = "planning" THEN "refused" ELSE @]]
      /\ kid' = [k \in Kids |->
            [kid[k] EXCEPT !.act = "idle", !.report = FALSE,
               !.row = IF @ = "running" \/ (@ = "pending" /\ Home[k] \in orphans)
                         THEN "aborted" ELSE @]]
  BY <1>1 DEF Reconcile
<1>3. /\ mission' \in [Missions -> RowType]
      /\ \A m \in Missions :
           /\ mission'[m].partial = mission[m].partial
           /\ mission'[m].status =
                IF mission[m].status \in {"running", "synthesizing"} THEN "failed"
                ELSE IF mission[m].status = "planning" THEN "refused" ELSE mission[m].status
  <2>1. {"failed", "refused"} \subseteq MissionStatuses
    BY DEF MissionStatuses, Terminal, Unborn
  <2>2. QED BY <1>2, <2>1 DEF Typed, RowType
<1>4. /\ kid' \in [Kids -> KidType]
      /\ \A k \in Kids :
           /\ kid'[k].act = "idle" /\ ~kid'[k].report /\ kid'[k].produced = kid[k].produced
           /\ kid'[k].row =
                IF \/ kid[k].row = "running"
                   \/ kid[k].row = "pending" /\ mission[Home[k]].status \in {"running", "synthesizing"}
                  THEN "aborted" ELSE kid[k].row
  <2>1. "aborted" \in RowStates /\ "idle" \in Acts
    BY DEF RowStates, Acts
  <2>2. \A k \in Kids : Home[k] \in Missions
    BY HomeFacts
  <2>3. QED BY <1>2, <2>1, <2>2 DEF Typed, KidType
<1>5. /\ level' \in [Missions -> LevelType]
      /\ \A m \in Missions : level'[m].phase = "off" /\ level'[m].next = 1 /\ level'[m].active = Plan[m]
  <2>1. \A m \in Missions : Plan[m] \in Seq(Kids) /\ 1 \in 1..Rounds
    BY PlanFacts, BudgetAssumption
  <2>2. \A m \in Missions : OffLevel(m) \in LevelType /\ OffLevel(m).phase = "off"
                            /\ OffLevel(m).next = 1 /\ OffLevel(m).active = Plan[m]
    BY <2>1 DEF OffLevel, LevelType, Phases
  <2>3. QED BY <1>1, <2>2
<1>6. abort' \in [Missions \cup Agents -> BOOLEAN] /\ \A x \in Missions \cup Agents : ~abort'[x]
  BY <1>1
<1>7. /\ limiter' \in [Roots -> PermitType]
      /\ \A r \in Roots : limiter'[r].active = 0 /\ limiter'[r].waiters = <<>>
  <2>1. NoPermits \in PermitType /\ NoPermits.active = 0 /\ NoPermits.waiters = <<>>
    BY DEF NoPermits, PermitType
  <2>2. QED BY <1>1, <2>1
<1>8. ledger' \in [Missions -> LedgerType] /\ \A m \in Missions : ledger'[m].before = 0
  <2>1. Ledger(0, 0) \in LedgerType /\ Ledger(0, 0).before = 0
    BY LedgerFacts
  <2>2. QED BY <1>1, <2>1
<1>9. /\ meter' \in [Roots -> MeterType]
      /\ \A r \in Roots : meter'[r].total = 0 /\ ~meter'[r].tripped
  <2>1. NoSpend \in MeterType /\ NoSpend.total = 0 /\ ~NoSpend.tripped
    BY DEF NoSpend, MeterType
  <2>2. QED BY <1>1, <2>1
<1>10. faults' \in 0..MaxFaults
  BY <1>1, BudgetAssumption DEF Typed
<1>11. QED BY <1>1, <1>3, <1>4, <1>5, <1>6, <1>7, <1>8, <1>9, <1>10

\* A mission's row takes another status.
LEMMA StatusTyped ==
  ASSUME Typed, NEW m \in Missions, NEW status \in MissionStatuses,
         mission' = [mission EXCEPT ![m].status = status]
  PROVE  /\ mission' \in [Missions -> RowType] /\ mission'[m].status = status
         /\ \A n \in Missions : /\ mission'[n].partial = mission[n].partial
                                /\ n # m => mission'[n] = mission[n]
BY DEF Typed, RowType

-----------------------------------------------------------------------------
(* What keeps each part of the invariant where a step changes little. *)

LEMMA PermitKept ==
  ASSUME PermitInv, limiter' = limiter,
         \A a \in Agents : (kid'[a].act \in {"granted", "running"} <=> kid[a].act \in {"granted", "running"})
                           /\ (kid'[a].act = "queued" <=> kid[a].act = "queued")
  PROVE  PermitInv'
<1>1. \A r \in Roots : Holders(r)' = Holders(r) /\ Queued(r)' = Queued(r)
  BY DEF Holders, Queued
<1>2. QED BY <1>1 DEF PermitInv

LEMMA LevelKept ==
  ASSUME NEW m \in Missions, LevelAt(m),
         level'[m].next = level[m].next, level'[m].active = level[m].active,
         \A k \in SlotSet(m) : Flying(k)' => Flying(k) /\ level'[m].phase \in {"running", "broken"}
  PROVE  LevelAt(m)'
BY DEF LevelAt, Opened

LEMMA StatusKept ==
  ASSUME NEW m \in Missions, StatusAt(m),
         level'[m].phase = level[m].phase, mission'[m].status = mission[m].status,
         \A k \in SlotSet(m) : kid[k].row = "deleted" => kid'[k].row = "deleted",
         m \in Subs => /\ kid'[m].act \notin {"queued", "granted"} /\ kid'[m].row # "deleted"
                       /\ Flying(m)' <=> Flying(m)
  PROVE  StatusAt(m)'
BY DEF StatusAt, Active

LEMMA RestKept ==
  ASSUME NEW m \in Missions, RestAt(m),
         level'[m].phase \in {"off", "synthesizing"} => level[m].phase \in {"off", "synthesizing"},
         \A k \in SlotSet(m) : kid[k].row = "deleted" => kid'[k].row = "deleted",
         \A k \in SlotSet(m) :
           kid'[k].row \in {"pending", "running"} /\ level'[m].phase \in {"off", "synthesizing"}
           => kid[k].row \in {"pending", "running"}
  PROVE  RestAt(m)'
BY DEF RestAt

LEMMA OnceKept ==
  ASSUME NEW m \in Missions, OnceAt(m),
         mission'[m].status \in Unstarted => mission[m].status \in Unstarted,
         \A k \in SlotSet(m) : mission[m].status \in Unstarted /\ kid'[k].produced => kid[k].produced,
         \A k \in Subs : mission[k].status = "none" => mission'[k].status = "none",
         level'[m].phase = level[m].phase
           \/ level'[m].phase \notin {"running", "broken", "judging"}
           \/ (level[m].phase \in {"running", "broken", "judging"}
               /\ level'[m].phase \in {"running", "broken", "judging"}),
         level'[m].next = level[m].next, level'[m].active = level[m].active,
         m \in Subs => /\ mission'[m].status = "none" => mission[m].status = "none"
                       /\ kid'[m].produced => kid[m].produced \/ level'[m].phase = "off"
                       /\ mission'[m].status = "none" /\ kid'[m].produced => kid[m].produced
                       /\ level[m].phase = "off" => level'[m].phase = "off"
  PROVE  OnceAt(m)'
BY DEF OnceAt

LEMMA WholeKept ==
  ASSUME NEW m \in Missions, WholeAt(m), crew' = crew,
         mission'[m].partial = mission[m].partial,
         Vouches(m)' => Vouches(m),
         level'[m].phase \in {"running", "judging"} => level[m].phase \in {"running", "judging"},
         \A k \in SlotSet(m) : kid[k].produced => kid'[k].produced,
         \A k \in SlotSet(m) \cap Subs :
           /\ kid'[k].produced => mission'[k].partial = mission[k].partial
           /\ kid[k].produced => mission'[k].partial = mission[k].partial
           /\ kid'[k].produced /\ ~kid[k].produced /\ mission'[k].partial => ledger'[m].childPartial,
         ledger[m].childPartial => ledger'[m].childPartial
  PROVE  WholeAt(m)'
BY DEF WholeAt

LEMMA AbortKept ==
  ASSUME Typed, AbortInv,
         \A m \in Missions : level'[m].phase \in {"running", "judging", "synthesizing"} /\ abort'[m] =>
           (Active(m) /\ abort[m]) \/ \A k \in SlotSet(m) : Flying(k)' => abort'[k],
         \A r \in Roots : meter'[r].tripped =>
           meter[r].tripped \/ \A a \in InFlightLeaves(r) : Flying(a)' => abort'[a],
         \A k \in Kids : Flying(k)' =>
           \/ Flying(k) /\ (abort[k] => abort'[k])
           \/ ~abort'[Home[k]] /\ ~meter'[RootOf(k)].tripped
  PROVE  AbortInv'
<1>1. ASSUME NEW m \in Missions, Active(m)', abort'[m], NEW k \in SlotSet(m), Flying(k)'
      PROVE  abort'[k]
  <2>1. k \in Kids /\ Home[k] = m
    BY HomeFacts
  <2>2. Flying(k) /\ (abort[k] => abort'[k])
    BY <1>1, <2>1
  <2>3. level'[m].phase \in {"running", "judging", "synthesizing"}
    BY <1>1 DEF Active
  <2>4. QED BY <1>1, <2>2, <2>3 DEF AbortInv
<1>2. ASSUME NEW r \in Roots, meter'[r].tripped, NEW a \in InFlightLeaves(r)'
      PROVE  abort'[a]
  <2>1. a \in Agents /\ a \in Kids /\ r \in Above[a] /\ Flying(a)'
    BY <1>2 DEF InFlightLeaves, Flying, Kids
  <2>2. RootOf(a) = r
    BY <2>1, RootFacts DEF Places
  <2>3. Flying(a) /\ (abort[a] => abort'[a])
    BY <1>2, <2>1, <2>2
  <2>4. a \in InFlightLeaves(r)
    BY <2>1, <2>3 DEF InFlightLeaves, Flying
  <2>5. QED BY <1>2, <2>1, <2>3, <2>4 DEF AbortInv
<1>3. QED BY <1>1, <1>2 DEF AbortInv

LEMMA MeterKept ==
  ASSUME Typed, Typed', MeterInv,
         \A m \in Missions : ledger'[m].before = ledger[m].before
                             \/ ledger'[m].before <= meter[RootOf(m)].total,
         \A r \in Roots : meter'[r].total >= meter[r].total
  PROVE  MeterInv'
<1>1. ASSUME NEW m \in Missions
      PROVE  ledger'[m].before <= meter'[RootOf(m)].total
  <2>1. RootOf(m) \in Roots
    BY RootFacts DEF Places
  <2>2. /\ ledger'[m].before \in Nat /\ ledger[m].before \in Nat
        /\ meter[RootOf(m)].total \in Nat /\ meter'[RootOf(m)].total \in Nat
    BY <2>1 DEF Typed, LedgerType, MeterType
  <2>3. QED BY <2>1, <2>2 DEF MeterInv
<1>2. QED BY <1>1 DEF MeterInv

-----------------------------------------------------------------------------
(* Every step keeps the types and the invariant. *)

State == Typed /\ TreeInv

\* Who is where.
LEMMA SlotFacts ==
  /\ \A m \in Missions : \A k \in SlotSet(m) : k \in Kids /\ Home[k] = m /\ k # m
  /\ \A m, n \in Missions : \A k \in SlotSet(m) : k \in SlotSet(n) => m = n
  /\ \A s \in Subs : s \in Kids /\ s \in Missions /\ s \notin Agents /\ s \notin Roots
  /\ \A a \in Agents : a \in Kids /\ a \notin Missions /\ a \in Places
  /\ \A r \in Roots : r \in Missions /\ r \notin Kids
  /\ \A k \in Kids : /\ k \in Subs \/ k \in Agents
                     /\ Home[k] \in Missions /\ k \in SlotSet(Home[k])
                     /\ RootOf(k) \in Roots /\ RootOf(k) = RootOf(Home[k])
  /\ \A m \in Missions : RootOf(m) \in Roots /\ (m \in Roots \/ m \in Subs)
<1>1. \A m \in Missions : \A k \in SlotSet(m) : k \in Kids /\ Home[k] = m /\ k # m
  <2>1. ASSUME NEW m \in Missions, NEW k \in SlotSet(m)
        PROVE  k \in Kids /\ Home[k] = m /\ k # m
    <3>1. k \in Kids /\ Home[k] = m
      BY HomeFacts
    <3>2. Home[k] \in Above[k] /\ k \notin Above[k]
      BY <3>1, AboveFacts, AboveOrder, HomeFacts
    <3>3. QED BY <3>1, <3>2
  <2>2. QED BY <2>1
<1>2. \A s \in Subs : s \in Kids /\ s \in Missions /\ s \notin Agents /\ s \notin Roots
  BY PlanAssumption DEF Kids, Missions
<1>3. \A a \in Agents : a \in Kids /\ a \notin Missions /\ a \in Places
  BY PlanAssumption DEF Kids, Missions, Places
<1>4. \A r \in Roots : r \in Missions /\ r \notin Kids
  BY PlanAssumption DEF Missions
<1>5. \A k \in Kids : /\ k \in Subs \/ k \in Agents
                      /\ Home[k] \in Missions /\ k \in SlotSet(Home[k])
                      /\ RootOf(k) \in Roots /\ RootOf(k) = RootOf(Home[k])
  BY HomeFacts, RootFacts DEF Kids
<1>6. \A m \in Missions : RootOf(m) \in Roots /\ (m \in Roots \/ m \in Subs)
  BY RootFacts DEF Missions, Places
<1>7. QED BY <1>1, <1>2, <1>3, <1>4, <1>5, <1>6

\* The row of a root whose level was not opened yet moves on.
LEMMA RootRowStep ==
  ASSUME State, NEW r \in Roots, NEW status \in Unstarted \cup {"stopped"},
         mission[r].status \in Unstarted, mission' = [mission EXCEPT ![r].status = status],
         order' \in Seq(Missions),
         UNCHANGED <<crew, level, kid, abort, limiter, ledger, meter, faults>>
  PROVE  State'
<1>1. r \in Missions /\ r \notin Subs /\ status \in MissionStatuses /\ status # "running"
      /\ status \notin {"synthesizing", "completed"}
  BY SlotFacts DEF Unstarted, Unborn, MissionStatuses, Terminal
<1>2. /\ mission' \in [Missions -> RowType] /\ mission'[r].status = status
      /\ \A n \in Missions : /\ mission'[n].partial = mission[n].partial
                             /\ n # r => mission'[n] = mission[n]
  BY <1>1, StatusTyped DEF State
<1>3. Typed'
  BY <1>2 DEF State, Typed
<1>4. PermitInv'
  BY PermitKept DEF State, TreeInv
<1>5. LevelInv'
  BY DEF State, TreeInv, LevelInv, LevelAt, Opened, Flying
<1>6. StatusInv'
  <2>1. ASSUME NEW m \in Missions
        PROVE  StatusAt(m)'
    <3>1. StatusAt(m)
      BY DEF State, TreeInv, StatusInv
    <3>2. CASE m # r
      BY <1>2, <3>1, <3>2 DEF StatusAt, Active, Flying
    <3>3. CASE m = r
      <4>1. level[r].phase = "off"
        BY <1>1, <3>1, <3>3 DEF StatusAt, State, Typed, LevelType, Phases, Unstarted, Unborn
      <4>2. QED BY <1>1, <1>2, <3>3, <4>1 DEF StatusAt
    <3>4. QED BY <3>2, <3>3
  <2>2. QED BY <2>1 DEF StatusInv
<1>7. RestInv'
  BY DEF State, TreeInv, RestInv, RestAt
<1>8. OnceInv'
  <2>1. ASSUME NEW m \in Missions
        PROVE  OnceAt(m)'
    <3>1. OnceAt(m) /\ (mission'[m].status \in Unstarted => mission[m].status \in Unstarted)
      BY <1>2 DEF State, TreeInv, OnceInv
    <3>2. \A k \in Subs : mission'[k] = mission[k]
      BY <1>2, SlotFacts
    <3>3. QED BY <3>1, <3>2, OnceKept
  <2>2. QED BY <2>1 DEF OnceInv
<1>9. WholeInv'
  <2>1. ASSUME NEW m \in Missions
        PROVE  WholeAt(m)'
    <3>1. WholeAt(m) /\ (Vouches(m)' => Vouches(m))
      BY <1>1, <1>2 DEF State, TreeInv, WholeInv, Vouches
    <3>2. \A k \in Subs : mission'[k] = mission[k]
      BY <1>2, SlotFacts
    <3>3. QED BY <1>2, <3>1, <3>2, WholeKept
  <2>2. QED BY <2>1 DEF WholeInv, State, TreeInv
<1>10. AbortInv'
  BY DEF State, TreeInv, AbortInv, Active, InFlightLeaves, Flying
<1>11. MeterInv'
  BY DEF State, TreeInv, MeterInv
<1>12. QED BY <1>3, <1>4, <1>5, <1>6, <1>7, <1>8, <1>9, <1>10, <1>11 DEF State, TreeInv

\* The rows of the slots of an opened level move, or controllers do.
LEMMA SlotStep ==
  ASSUME State, NEW a \in Agents, kid' \in [Kids -> KidType],
         abort' \in [Missions \cup Agents -> BOOLEAN], faults' \in 0..MaxFaults,
         level[Home[a]].phase # "off" \/ kid'[a].row = kid[a].row,
         level[Home[a]].phase = "synthesizing" => kid'[a].row \notin {"pending", "running"},
         kid'[a].act \in {"granted", "running"} <=> kid[a].act \in {"granted", "running"},
         kid'[a].act = "queued" <=> kid[a].act = "queued",
         kid[a].row = "deleted" => kid'[a].row = "deleted",
         \A k \in Kids : /\ kid'[k].report = kid[k].report /\ kid'[k].produced = kid[k].produced
                         /\ k # a => kid'[k] = kid[k],
         \A x \in Missions \cup Agents : x # a => abort'[x] = abort[x],
         abort[a] => abort'[a],
         UNCHANGED <<crew, mission, order, level, limiter, ledger, meter>>
  PROVE  State'
<1>1. Typed'
  BY DEF State, Typed
<1>2. \A k \in Kids : Flying(k)' <=> Flying(k)
  BY SlotFacts DEF Flying, InFlight
<1>3. PermitInv'
  BY SlotFacts, PermitKept DEF State, TreeInv
<1>4. LevelInv'
  <2>1. ASSUME NEW m \in Missions PROVE LevelAt(m)'
    <3>1. LevelAt(m) /\ \A k \in SlotSet(m) : k \in Kids
      BY SlotFacts DEF State, TreeInv, LevelInv
    <3>2. QED BY <1>2, <3>1 DEF LevelAt, Opened
  <2>2. QED BY <2>1 DEF LevelInv
<1>5. StatusInv'
  <2>1. ASSUME NEW m \in Missions PROVE StatusAt(m)'
    <3>1. StatusAt(m) /\ m # a /\ (m \in Subs => kid'[m] = kid[m])
      BY SlotFacts DEF State, TreeInv, StatusInv
    <3>2. \A k \in SlotSet(m) : kid[k].row = "deleted" => kid'[k].row = "deleted"
      BY SlotFacts
    <3>3. m \in Subs => kid[m].act \notin {"queued", "granted"} /\ kid[m].row # "deleted"
      BY <3>1 DEF StatusAt
    <3>4. QED BY <3>1, <3>2, <3>3, StatusKept DEF Flying
  <2>2. QED BY <2>1 DEF StatusInv
<1>6. RestInv'
  <2>1. ASSUME NEW m \in Missions PROVE RestAt(m)'
    <3>1. RestAt(m)
      BY DEF State, TreeInv, RestInv
    <3>2. \A k \in SlotSet(m) : kid[k].row = "deleted" => kid'[k].row = "deleted"
      BY SlotFacts
    <3>3. \A k \in SlotSet(m) : k \in Kids /\ Home[k] = m
      BY SlotFacts
    <3>4. \A k \in SlotSet(m) : kid'[k].row \in {"pending", "running"}
             /\ level'[m].phase \in {"off", "synthesizing"} => kid[k].row \in {"pending", "running"}
      BY <3>3
    <3>5. QED BY <3>1, <3>2, <3>4, RestKept
  <2>2. QED BY <2>1 DEF RestInv
<1>7. OnceInv'
  <2>1. ASSUME NEW m \in Missions PROVE OnceAt(m)'
    <3>1. OnceAt(m) /\ \A k \in SlotSet(m) : k \in Kids
      BY SlotFacts DEF State, TreeInv, OnceInv
    <3>2. m \in Subs => m \in Kids
      BY SlotFacts
    <3>3. QED BY <3>1, <3>2, OnceKept
  <2>2. QED BY <2>1 DEF OnceInv
<1>8. WholeInv'
  <2>1. ASSUME NEW m \in Missions PROVE WholeAt(m)'
    <3>1. WholeAt(m) /\ \A k \in SlotSet(m) : k \in Kids
      BY SlotFacts DEF State, TreeInv, WholeInv
    <3>2. Vouches(m)' => Vouches(m)
      BY SlotFacts DEF Vouches
    <3>3. QED BY <3>1, <3>2, WholeKept
  <2>2. QED BY <2>1 DEF WholeInv, State, TreeInv
<1>9. AbortInv'
  <2>1. \A m \in Missions : m # a
    BY SlotFacts
  <2>2. \A k \in Kids : k \in Missions \cup Agents
    BY SlotFacts
  <2>3. \A r \in Roots : meter'[r] = meter[r]
    OBVIOUS
  <2>4. \A k \in Kids : Flying(k)' => Flying(k) /\ (abort[k] => abort'[k])
    BY <1>2, <2>2
  <2>5. QED BY <2>1, <2>3, <2>4, AbortKept DEF State, TreeInv, Active
<1>10. MeterInv'
  BY DEF State, TreeInv, MeterInv
<1>11. QED BY <1>1, <1>3, <1>4, <1>5, <1>6, <1>7, <1>8, <1>9, <1>10 DEF State, TreeInv

\* Who holds a permit and who is granted one.
LEMMA HolderFacts ==
  ASSUME Typed, PermitInv, NEW r \in Roots
  PROVE  /\ IsFiniteSet(Holders(r)) /\ Cardinality(Holders(r)) \in Nat
         /\ GrantedTo(r) \subseteq Queued(r)
         /\ \A a \in Holders(r) : limiter[r].active > 0 /\ a \notin GrantedTo(r)
<1>1. IsFiniteSet(Holders(r)) /\ Cardinality(Holders(r)) \in Nat
  <2>1. Holders(r) \subseteq Kids /\ IsFiniteSet(Kids)
    BY PlanAssumption DEF Holders, Kids
  <2>2. QED BY <2>1, FS_Subset, FS_CardinalityType
<1>2. GrantedTo(r) \subseteq Queued(r)
  <2>1. CASE limiter[r].waiters = <<>>
    BY <2>1 DEF GrantedTo
  <2>2. CASE limiter[r].waiters # <<>>
    <3>1. limiter[r].waiters \in Seq(Agents) /\ IsInjective(limiter[r].waiters)
          /\ ToSet(limiter[r].waiters) = Queued(r)
      BY DEF Typed, PermitType, PermitInv
    <3>2. Head(limiter[r].waiters) \in ToSet(limiter[r].waiters)
      BY <2>2, <3>1, HeadLeaves
    <3>3. QED BY <2>2, <3>1, <3>2 DEF GrantedTo
  <2>3. QED BY <2>1, <2>2
<1>3. ASSUME NEW a \in Holders(r)
      PROVE  limiter[r].active > 0 /\ a \notin GrantedTo(r)
  <2>1. a \notin GrantedTo(r)
    BY <1>2, <1>3 DEF Holders, Queued
  <2>2. Cardinality(Holders(r)) # 0
    BY <1>1, <1>3, FS_EmptySet
  <2>3. limiter[r].active = Cardinality(Holders(r))
    BY DEF PermitInv
  <2>4. QED BY <1>1, <2>1, <2>2, <2>3
<1>4. QED BY <1>1, <1>2, <1>3

\* Agents of a tree.
LEMMA TreeOf == \A a \in Agents, r \in Roots : r \in Above[a] <=> r = RootOf(a)
<1>1. \A a \in Agents : a \in Places /\ a \notin Roots
  BY SlotFacts
<1>2. QED BY <1>1, RootFacts

\* A holder's permit passes to the head of the queue or is free again.
LEMMA PermitParts ==
  ASSUME Typed, PermitInv, NEW a \in Agents, kid[a].act \in {"granted", "running"},
         Freed(RootOf(a)), kid'[a].act \notin InFlight,
         \A k \in Agents \ {a} :
           kid'[k].act = IF k \in GrantedTo(RootOf(a)) THEN "granted" ELSE kid[k].act
  PROVE  PermitInv'
<1> DEFINE r == RootOf(a)
           q == limiter[r].waiters
<1>1. r \in Roots /\ a \in Holders(r)
  BY RootFacts, TreeOf DEF Holders, Places
<1>2. /\ IsFiniteSet(Holders(r)) /\ Cardinality(Holders(r)) \in Nat
      /\ GrantedTo(r) \subseteq Queued(r) /\ a \notin GrantedTo(r)
  BY <1>1, HolderFacts
<1>3. /\ q \in Seq(Agents) /\ IsInjective(q) /\ ToSet(q) = Queued(r)
      /\ limiter[r].active = Cardinality(Holders(r)) /\ limiter[r].active <= Width
      /\ q # <<>> => limiter[r].active = Width
  BY <1>1 DEF Typed, PermitType, PermitInv
<1>4. IsFiniteSet(Holders(r) \ {a}) /\ Cardinality(Holders(r) \ {a}) = Cardinality(Holders(r)) - 1
  BY <1>1, <1>2, FS_RemoveElement
<1> DEFINE Fine(x) ==
      /\ IsInjective(limiter'[x].waiters)
      /\ ToSet(limiter'[x].waiters) = Queued(x)'
      /\ limiter'[x].active = Cardinality(Holders(x)') /\ limiter'[x].active <= Width
      /\ limiter'[x].waiters # <<>> => limiter'[x].active = Width
<1>5. ASSUME NEW x \in Roots, x # r
      PROVE  Fine(x)
  <2>1. \A k \in Agents : x \in Above[k] => k # a /\ k \notin GrantedTo(r)
    BY <1>1, <1>2, <1>5, TreeOf DEF Queued
  <2>2. \A k \in Agents : x \in Above[k] => kid'[k].act = kid[k].act
    BY <2>1
  <2>3. Holders(x)' = Holders(x) /\ Queued(x)' = Queued(x)
    BY <2>2 DEF Holders, Queued
  <2>4. limiter'[x] = limiter[x]
    BY <1>5 DEF Freed
  <2>5. QED BY <2>3, <2>4 DEF PermitInv
<1>6. Fine(r)
  <2>1. CASE q = <<>>
    <3>1. GrantedTo(r) = {}
      BY <2>1 DEF GrantedTo
    <3>2. Holders(r)' = Holders(r) \ {a} /\ Queued(r)' = Queued(r)
      BY <1>1, <3>1 DEF Holders, Queued, InFlight
    <3>3. limiter'[r].active = limiter[r].active - 1 /\ limiter'[r].waiters = q
      BY <2>1 DEF Freed
    <3>4. limiter'[r].active = Cardinality(Holders(r)')
      BY <1>3, <1>4, <3>2, <3>3
    <3>5. limiter'[r].active <= Width
      BY <1>2, <1>3, <3>3, BudgetAssumption
    <3> HIDE DEF r, q
    <3>6. QED BY <1>3, <2>1, <3>2, <3>3, <3>4, <3>5
  <2>2. CASE q # <<>>
    <3> DEFINE h == Head(q)
    <3>1. /\ Tail(q) \in Seq(Agents) /\ IsInjective(Tail(q)) /\ h \in ToSet(q)
          /\ ToSet(Tail(q)) = ToSet(q) \ {h}
      BY <1>3, <2>2, HeadLeaves
    <3>2. GrantedTo(r) = {h} /\ h \in Queued(r) /\ h # a /\ h \in Agents /\ h \notin Holders(r)
      BY <1>2, <1>3, <2>2, <3>1 DEF GrantedTo, Queued, Holders
    <3>3. limiter'[r].active = limiter[r].active /\ limiter'[r].waiters = Tail(q)
      BY <2>2 DEF Freed
    <3>4. kid'[h].act = "granted" /\ \A k \in Agents \ {a, h} : kid'[k].act = kid[k].act
      BY <3>2
    <3> HIDE DEF h
    <3>5. Queued(r)' = Queued(r) \ {h}
      BY <1>1, <3>2, <3>4 DEF Queued, InFlight
    <3>6. Holders(r)' = (Holders(r) \ {a}) \cup {h}
      BY <1>1, <3>2, <3>4 DEF Holders, Queued, InFlight
    <3>7. Cardinality(Holders(r)') = Cardinality(Holders(r))
      <4>1. h \notin Holders(r) \ {a}
        BY <3>2
      <4>2. Cardinality((Holders(r) \ {a}) \cup {h}) = Cardinality(Holders(r) \ {a}) + 1
        BY <1>4, <4>1, FS_AddElement
      <4>3. QED BY <1>2, <1>4, <3>6, <4>2
    <3> HIDE DEF r, q
    <3>8. QED BY <1>3, <2>2, <3>1, <3>3, <3>5, <3>7
  <2>3. QED BY <2>1, <2>2
<1>7. QED BY <1>5, <1>6 DEF PermitInv

\* A newcomer takes a permit or queues.
LEMMA PermitLaunch ==
  ASSUME Typed, PermitInv, NEW a \in Agents, ~Flying(a),
         \A q \in Roots \ {RootOf(a)} : limiter'[q] = limiter[q],
         \A k \in Agents \ {a} : kid'[k].act = kid[k].act,
         \/ /\ limiter[RootOf(a)].active < Width /\ kid'[a].act = "granted"
            /\ limiter'[RootOf(a)].active = limiter[RootOf(a)].active + 1
            /\ limiter'[RootOf(a)].waiters = limiter[RootOf(a)].waiters
         \/ /\ ~(limiter[RootOf(a)].active < Width) /\ kid'[a].act = "queued"
            /\ limiter'[RootOf(a)].active = limiter[RootOf(a)].active
            /\ limiter'[RootOf(a)].waiters = Append(limiter[RootOf(a)].waiters, a)
  PROVE  PermitInv'
<1> DEFINE r == RootOf(a)
           q == limiter[r].waiters
<1>1. r \in Roots /\ r \in Above[a] /\ a \notin Holders(r) /\ a \notin Queued(r)
  BY RootFacts, TreeOf DEF Holders, Queued, Places, Flying, InFlight
<1>2. IsFiniteSet(Holders(r)) /\ Cardinality(Holders(r)) \in Nat
  BY <1>1, HolderFacts
<1>3. /\ q \in Seq(Agents) /\ IsInjective(q) /\ ToSet(q) = Queued(r)
      /\ limiter[r].active = Cardinality(Holders(r)) /\ limiter[r].active <= Width
      /\ q # <<>> => limiter[r].active = Width
  BY <1>1 DEF Typed, PermitType, PermitInv
<1> DEFINE Fine(x) ==
      /\ IsInjective(limiter'[x].waiters)
      /\ ToSet(limiter'[x].waiters) = Queued(x)'
      /\ limiter'[x].active = Cardinality(Holders(x)') /\ limiter'[x].active <= Width
      /\ limiter'[x].waiters # <<>> => limiter'[x].active = Width
<1>4. ASSUME NEW x \in Roots, x # r
      PROVE  Fine(x)
  <2>1. \A k \in Agents : x \in Above[k] => kid'[k].act = kid[k].act
    BY <1>4, TreeOf
  <2>2. Holders(x)' = Holders(x) /\ Queued(x)' = Queued(x)
    BY <2>1 DEF Holders, Queued
  <2>3. limiter'[x] = limiter[x]
    BY <1>4
  <2>4. QED BY <2>2, <2>3 DEF PermitInv
<1>5. CASE limiter[r].active < Width /\ kid'[a].act = "granted"
           /\ limiter'[r].active = limiter[r].active + 1 /\ limiter'[r].waiters = q
  <2>1. Holders(r)' = Holders(r) \cup {a} /\ Queued(r)' = Queued(r)
    BY <1>1, <1>5 DEF Holders, Queued
  <2>2. Cardinality(Holders(r) \cup {a}) = Cardinality(Holders(r)) + 1
    BY <1>1, <1>2, FS_AddElement
  <2>3. q = <<>> /\ limiter[r].active + 1 <= Width
    BY <1>2, <1>3, <1>5, BudgetAssumption
  <2>4. limiter'[r].active = Cardinality(Holders(r)') /\ limiter'[r].active <= Width
    BY <1>3, <1>5, <2>1, <2>2, <2>3
  <2> HIDE DEF r, q
  <2>5. Fine(r)
    BY <1>3, <1>5, <2>1, <2>3, <2>4
  <2>6. QED BY <1>4, <2>5 DEF PermitInv
<1>6. CASE ~(limiter[r].active < Width) /\ kid'[a].act = "queued"
           /\ limiter'[r].active = limiter[r].active /\ limiter'[r].waiters = Append(q, a)
  <2>1. Holders(r)' = Holders(r) /\ Queued(r)' = Queued(r) \cup {a}
    BY <1>1, <1>6 DEF Holders, Queued
  <2>2. IsInjective(Append(q, a)) /\ ToSet(Append(q, a)) = ToSet(q) \cup {a}
    BY <1>1, <1>3, NewcomerJoins
  <2>3. limiter[r].active = Width
    BY <1>2, <1>3, <1>6, BudgetAssumption
  <2> HIDE DEF r, q
  <2>4. Fine(r)
    BY <1>3, <1>6, <2>1, <2>2, <2>3
  <2>5. QED BY <1>4, <2>4 DEF PermitInv
<1>7. QED BY <1>5, <1>6

\* A leaf in flight belongs to a level that works or broke.
LEMMA FlyingHome ==
  ASSUME State, NEW k \in Kids, Flying(k)
  PROVE  /\ level[Home[k]].phase \in {"running", "broken"}
         /\ mission[Home[k]].status \notin Unstarted \cup {"synthesizing", "completed", "stopped"}
<1>1. Home[k] \in Missions /\ k \in SlotSet(Home[k])
  BY SlotFacts
<1>2. LevelAt(Home[k]) /\ StatusAt(Home[k])
  BY <1>1 DEF State, TreeInv, LevelInv, StatusInv
<1>3. level[Home[k]].phase \in {"running", "broken"}
  BY <1>1, <1>2 DEF LevelAt, Opened
<1>4. QED BY <1>2, <1>3 DEF StatusAt, Unstarted, Unborn

LEMMA BeginStep ==
  ASSUME State, NEW a \in Agents, BeginsRun(a), UNCHANGED <<crew, order, faults>>
  PROVE  State'
<1>1. kid[a].act = "granted" /\ kid[a].row # "deleted" /\ UNCHANGED <<mission, level, abort, limiter, ledger, meter>>
  BY DEF BeginsRun
<1>2. /\ kid' \in [Kids -> KidType] /\ kid'[a].row = "running" /\ kid'[a].act = "running"
      /\ \A k \in Kids : /\ kid'[k].report = kid[k].report /\ kid'[k].produced = kid[k].produced
                         /\ k # a => kid'[k] = kid[k]
  BY BeginEffect DEF State
<1>3. level[Home[a]].phase \in {"running", "broken"}
  BY <1>1, FlyingHome, SlotFacts DEF Flying, InFlight
<1>4. QED BY <1>1, <1>2, <1>3, SlotStep DEF State, Typed

LEMMA StopAgentStep ==
  ASSUME State, NEW a \in Agents, StopAgent(a)
  PROVE  State'
<1>1. abort' = [abort EXCEPT ![a] = TRUE]
      /\ UNCHANGED <<crew, mission, order, level, kid, limiter, ledger, meter, faults>>
  BY DEF StopAgent
<1>2. /\ abort' \in [Missions \cup Agents -> BOOLEAN] /\ abort'[a]
      /\ \A x \in Missions \cup Agents : x # a => abort'[x] = abort[x]
  BY <1>1 DEF State, Typed
<1>3. level[Home[a]].phase = "synthesizing" => kid[a].row \notin {"pending", "running"}
  BY FlyingHome, SlotFacts DEF StopAgent, Flying
<1>4. kid' \in [Kids -> KidType] /\ faults' \in 0..MaxFaults
  BY <1>1 DEF State, Typed
<1>5. QED BY <1>1, <1>2, <1>3, <1>4, SlotStep

LEMMA DeleteStep ==
  ASSUME State, NEW a \in Agents, DeleteChild(a)
  PROVE  State'
<1>1. /\ level[Home[a]].phase # "off" /\ faults' = faults + 1 /\ faults < MaxFaults
      /\ kid' = [kid EXCEPT ![a].row = "deleted"]
      /\ UNCHANGED <<crew, mission, order, level, abort, limiter, ledger, meter>>
  BY DEF DeleteChild
<1>2. faults' \in 0..MaxFaults
  BY <1>1, BudgetAssumption DEF State, Typed
<1>3. /\ kid' \in [Kids -> KidType] /\ kid'[a].row = "deleted" /\ kid'[a].act = kid[a].act
      /\ \A k \in Kids : /\ kid'[k].report = kid[k].report /\ kid'[k].produced = kid[k].produced
                         /\ k # a => kid'[k] = kid[k]
  <2>1. a \in Kids /\ "deleted" \in RowStates /\ kid \in [Kids -> KidType]
    BY SlotFacts DEF State, Typed, RowStates
  <2>2. QED BY <1>1, <2>1 DEF KidType
<1>4. abort' \in [Missions \cup Agents -> BOOLEAN]
  BY <1>1 DEF State, Typed
<1>5. QED BY <1>1, <1>2, <1>3, <1>4, SlotStep

\* A stop raises the controllers of a mission and of what it reaches.
LEMMA CascadeStep ==
  ASSUME State, NEW m \in Missions, Active(m), abort' = Cascade(m),
         UNCHANGED <<crew, mission, order, level, kid, limiter, ledger, meter, faults>>
  PROVE  State'
<1>1. /\ abort' \in [Missions \cup Agents -> BOOLEAN]
      /\ \A x \in Missions \cup Agents : abort'[x] <=> abort[x] \/ x \in Reach(m)
  BY DEF Cascade
<1>2. Typed'
  BY <1>1 DEF State, Typed
<1>3. PermitInv'
  BY PermitKept DEF State, TreeInv
<1>4. LevelInv' /\ StatusInv' /\ RestInv' /\ OnceInv' /\ WholeInv' /\ MeterInv'
  BY DEF State, TreeInv, LevelInv, LevelAt, Opened, Flying, StatusInv, StatusAt, Active, RestInv,
         RestAt, OnceInv, OnceAt, WholeInv, WholeAt, Vouches, MeterInv
<1>5. ASSUME NEW n \in Missions, Active(n), abort'[n], NEW k \in SlotSet(n), Flying(k)
      PROVE  abort'[k]
  <2>1. k \in Kids /\ Home[k] = n /\ k \in Missions \cup Agents
    BY SlotFacts
  <2>2. CASE abort[n]
    BY <1>1, <1>5, <2>1, <2>2 DEF State, TreeInv, AbortInv
  <2>3. CASE n \in Reach(m)
    <3>1. Above[k] = {n} \cup Above[n] /\ n \in Places /\ m \in Places
      BY <2>1, AboveFacts DEF Places
    <3>2. CASE n = m
      <4>1. ASSUME NEW x \in Above[k] \cap Inside(m) PROVE FALSE
        <5>1. x \in Kids /\ m \in Above[x]
          BY <4>1 DEF Inside
        <5>2. x = m \/ x \in Above[m]
          BY <3>1, <3>2, <4>1
        <5>3. QED BY <3>1, <5>1, <5>2, AboveOrder, HomeFacts
      <4>2. k \in Inside(m) /\ Linked(m, k)
        BY <2>1, <3>1, <3>2, <4>1 DEF Inside, Linked
      <4>3. QED BY <1>1, <1>5, <2>1, <4>2 DEF Reach, Flying
    <3>3. CASE n # m
      <4>1. n \in Inside(m) /\ Linked(m, n) /\ n \in Kids
        BY <2>3, <3>3 DEF Reach, Inside
      <4>2. k \in Inside(m)
        BY <2>1, <3>1, <4>1 DEF Inside
      <4>3. Linked(m, k)
        BY <1>5, <3>1, <4>1 DEF Linked
      <4>4. QED BY <1>1, <1>5, <2>1, <4>2, <4>3 DEF Reach, Flying
    <3>4. QED BY <3>2, <3>3
  <2>4. QED BY <1>1, <1>5, <2>2, <2>3
<1>6. AbortInv'
  <2>1. \A n \in Missions : Active(n)' /\ abort'[n] => \A k \in SlotSet(n) : Flying(k)' => abort'[k]
    BY <1>5 DEF Active, Flying
  <2>2. \A r \in Roots : meter'[r].tripped => \A a \in InFlightLeaves(r)' : abort'[a]
    BY <1>1, SlotFacts DEF State, TreeInv, AbortInv, InFlightLeaves
  <2>3. QED BY <2>1, <2>2 DEF AbortInv
<1>7. QED BY <1>2, <1>3, <1>4, <1>6 DEF State, TreeInv

\* A leaf's slot is over.
LEMMA LeaveStep ==
  ASSUME State, NEW a \in Agents, kid[a].act \in {"granted", "running"}, kid[a].row # "deleted",
         NEW row \in Parting(a), NEW reported \in BOOLEAN, NEW c \in Nat, Leave(a, row, reported, c),
         UNCHANGED <<crew, order, faults>>
  PROVE  State'
<1> DEFINE r == RootOf(a)
<1>1. r \in Roots /\ a \in Kids /\ Flying(a) /\ a \in Holders(r) /\ row \in SettledRows
  BY SlotFacts, TreeOf, PartingFacts DEF Flying, InFlight, Holders, State
<1>2. Typed /\ PermitInv /\ limiter[r].active > 0 /\ a \notin GrantedTo(r) /\ GrantedTo(r) \subseteq Queued(r)
  BY <1>1, HolderFacts DEF State, TreeInv
<1>3. /\ kid' \in [Kids -> KidType] /\ ledger' \in [Missions -> LedgerType]
      /\ meter' \in [Roots -> MeterType] /\ abort' \in [Missions \cup Agents -> BOOLEAN]
      /\ Freed(r) /\ UNCHANGED <<mission, level>>
      /\ kid'[a].row = row /\ kid'[a].act = "done" /\ kid'[a].report = reported
      /\ kid'[a].produced = (kid[a].produced \/ reported)
      /\ \A k \in Kids \ {a} :
           /\ kid'[k].row = kid[k].row /\ kid'[k].report = kid[k].report
           /\ kid'[k].produced = kid[k].produced
           /\ kid'[k].act = IF k \in GrantedTo(r) THEN "granted" ELSE kid[k].act
      /\ \A q \in Roots : /\ meter'[q].total >= meter[q].total
                          /\ meter[q].tripped => meter'[q].tripped
                          /\ q # r => meter'[q] = meter[q]
      /\ \A x \in Missions \cup Agents : x # a /\ abort[x] => abort'[x]
      /\ ~abort'[a] /\ \A x \in Missions : abort'[x] = abort[x]
      /\ meter'[r].tripped /\ ~meter[r].tripped => \A x \in InFlightLeaves(r) \ {a} : abort'[x]
      /\ \A n \in Missions : /\ ledger'[n].before = ledger[n].before
                             /\ ledger'[n].childPartial = ledger[n].childPartial
  BY <1>2, LeaveEffect
<1> HIDE DEF r
<1>4. Typed'
  BY <1>2, <1>3 DEF Typed, Freed
<1>5. PermitInv'
  <2>1. kid'[a].act \notin InFlight /\ \A k \in Agents \ {a} : k \in Kids
    BY <1>3, SlotFacts DEF InFlight
  <2>2. QED BY <1>2, <1>3, <2>1, PermitParts DEF r
<1>6. \A k \in Kids : Flying(k)' => Flying(k) /\ k # a
  BY <1>2, <1>3 DEF Flying, Queued, InFlight
<1>7. \A s \in Subs : kid'[s] = kid[s] \/ (kid'[s].act = kid[s].act /\ kid'[s].row = kid[s].row
                                          /\ kid'[s].produced = kid[s].produced)
  BY <1>2, <1>3, SlotFacts DEF Queued
<1>8. \A k \in Kids : (kid[k].row = "deleted" => kid'[k].row = "deleted")
                      /\ (kid'[k].row \in {"pending", "running"} => kid[k].row \in {"pending", "running"})
                      /\ (kid[k].produced => kid'[k].produced)
  BY <1>1, <1>3 DEF SettledRows
<1>9. LevelInv'
  <2>1. ASSUME NEW m \in Missions PROVE LevelAt(m)'
    <3>1. LevelAt(m) /\ \A k \in SlotSet(m) : k \in Kids
      BY SlotFacts DEF State, TreeInv, LevelInv
    <3>2. QED BY <1>3, <1>6, <3>1 DEF LevelAt, Opened
  <2>2. QED BY <2>1 DEF LevelInv
<1>10. StatusInv'
  <2>1. ASSUME NEW m \in Missions PROVE StatusAt(m)'
    <3>1. StatusAt(m) /\ \A k \in SlotSet(m) : k \in Kids
      BY SlotFacts DEF State, TreeInv, StatusInv
    <3>2. m \in Subs => /\ kid'[m].act \notin {"queued", "granted"} /\ kid'[m].row # "deleted"
                        /\ Flying(m)' <=> Flying(m)
      BY <1>7, <3>1 DEF StatusAt, Flying
    <3>3. QED BY <1>3, <1>8, <3>1, <3>2, StatusKept
  <2>2. QED BY <2>1 DEF StatusInv
<1>11. RestInv'
  <2>1. ASSUME NEW m \in Missions PROVE RestAt(m)'
    <3>1. RestAt(m) /\ \A k \in SlotSet(m) : k \in Kids
      BY SlotFacts DEF State, TreeInv, RestInv
    <3>2. QED BY <1>3, <1>8, <3>1, RestKept
  <2>2. QED BY <2>1 DEF RestInv
<1>12. OnceInv'
  <2>1. mission[Home[a]].status \notin Unstarted
    BY <1>1, FlyingHome
  <2>2. ASSUME NEW m \in Missions PROVE OnceAt(m)'
    <3>1. OnceAt(m) /\ \A k \in SlotSet(m) : k \in Kids /\ Home[k] = m
      BY SlotFacts DEF State, TreeInv, OnceInv
    <3>2. \A k \in SlotSet(m) : mission[m].status \in Unstarted /\ kid'[k].produced => kid[k].produced
      BY <1>3, <2>1, <3>1
    <3>3. m \in Subs => kid'[m].produced = kid[m].produced
      BY <1>7
    <3>4. QED BY <1>3, <3>1, <3>2, <3>3, OnceKept
  <2>3. QED BY <2>2 DEF OnceInv
<1>13. WholeInv'
  <2>1. ASSUME NEW m \in Missions PROVE WholeAt(m)'
    <3>1. WholeAt(m) /\ \A k \in SlotSet(m) : k \in Kids
      BY SlotFacts DEF State, TreeInv, WholeInv
    <3>2. Vouches(m)' => Vouches(m)
      BY <1>3, <1>7 DEF Vouches
    <3>3. \A k \in SlotSet(m) \cap Subs : kid'[k].produced = kid[k].produced /\ mission'[k] = mission[k]
      BY <1>3, <1>7
    <3>4. QED BY <1>3, <1>8, <3>1, <3>2, <3>3, WholeKept
  <2>2. \A k \in Kids : kid'[k].report => kid'[k].produced
    BY <1>3 DEF State, TreeInv, WholeInv
  <2>3. QED BY <2>1, <2>2 DEF WholeInv
<1>14. AbortInv'
  <2>1. \A m \in Missions : level'[m] = level[m] /\ abort'[m] = abort[m]
    BY <1>3
  <2>2. \A k \in Kids : Flying(k)' => Flying(k) /\ (abort[k] => abort'[k])
    BY <1>3, <1>6, SlotFacts
  <2>3. ASSUME NEW q \in Roots, meter'[q].tripped, ~meter[q].tripped, NEW x \in InFlightLeaves(q), Flying(x)'
        PROVE  abort'[x]
    <3>1. q = r
      BY <1>3, <2>3
    <3>2. x # a
      BY <1>6, <2>3, SlotFacts DEF InFlightLeaves
    <3>3. QED BY <1>3, <2>3, <3>1, <3>2
  <2>4. QED BY <1>2, <2>1, <2>2, <2>3, AbortKept DEF State, TreeInv, Active
<1>15. MeterInv'
  BY <1>2, <1>3, <1>4, MeterKept DEF State, TreeInv
<1>16. QED BY <1>4, <1>5, <1>9, <1>10, <1>11, <1>12, <1>13, <1>14, <1>15 DEF State, TreeInv

\* A leaf's slot throws: its level breaks, whether it is the first one there or not.
LEMMA LoseStep ==
  ASSUME State, NEW a \in Agents, kid[a].act \in {"granted", "running"}, kid[a].row = "deleted",
         Lose(a), UNCHANGED <<crew, order, faults>>
  PROVE  State'
<1> DEFINE r == RootOf(a)
           h == Home[a]
           first == level[h].phase = "running"
<1>1. r \in Roots /\ a \in Kids /\ Flying(a) /\ a \in Holders(r) /\ h \in Missions
      /\ a \in SlotSet(h) /\ level[h].phase \in {"running", "broken"} /\ StatusAt(h)
  BY FlyingHome, SlotFacts, TreeOf DEF Flying, InFlight, Holders, State, TreeInv, StatusInv
<1>2. Typed /\ PermitInv /\ limiter[r].active > 0 /\ a \notin GrantedTo(r) /\ GrantedTo(r) \subseteq Queued(r)
  BY <1>1, HolderFacts DEF State, TreeInv
<1>3. /\ kid' \in [Kids -> KidType] /\ level' \in [Missions -> LevelType]
      /\ mission' \in [Missions -> RowType] /\ abort' \in [Missions \cup Agents -> BOOLEAN]
      /\ Freed(r) /\ UNCHANGED <<meter, ledger>>
      /\ kid'[a].row = kid[a].row /\ kid'[a].act = "lost"
      /\ ~kid'[a].report /\ kid'[a].produced = kid[a].produced
      /\ \A k \in Kids \ {a} :
           /\ kid'[k].report = kid[k].report /\ kid'[k].produced = kid[k].produced
           /\ IF k = h /\ first
                THEN kid'[k].act = "done" /\ kid'[k].row = "error"
                ELSE /\ kid'[k].act = IF k \in GrantedTo(r) THEN "granted" ELSE kid[k].act
                     /\ kid'[k].row = kid[k].row
      /\ level'[h].phase = "broken" /\ level'[h].next = level[h].next
      /\ level'[h].active = level[h].active
      /\ \A n \in Missions \ {h} : level'[n] = level[n] /\ mission'[n] = mission[n]
      /\ mission'[h].partial = mission[h].partial
      /\ mission'[h].status = IF h \in Roots /\ first THEN "failed" ELSE mission[h].status
      /\ ~abort'[a] /\ \A x \in Missions \cup Agents : x # a => abort'[x] = abort[x]
  BY <1>2, LoseEffect
<1> HIDE DEF r, first
<1>0. h \in Subs => kid[h].row # "deleted"
  BY <1>1 DEF StatusAt
<1> HIDE DEF h
<1>4. Typed'
  BY <1>2, <1>3 DEF Typed, Freed
<1>5. PermitInv'
  <2>1. kid'[a].act \notin InFlight /\ \A k \in Agents \ {a} : k \in Kids /\ k # h
    BY <1>1, <1>3, SlotFacts DEF InFlight
  <2>2. \A k \in Agents \ {a} : kid'[k].act = IF k \in GrantedTo(r) THEN "granted" ELSE kid[k].act
    BY <1>3, <2>1
  <2>3. QED BY <1>2, <1>3, <2>1, <2>2, PermitParts DEF r
<1>6. \A k \in Kids : Flying(k)' => Flying(k) /\ k # a
  BY <1>2, <1>3 DEF Flying, Queued, InFlight
<1>7. \A s \in Subs : s # h \/ ~first => kid'[s].act = kid[s].act /\ kid'[s].row = kid[s].row
  BY <1>1, <1>2, <1>3, SlotFacts DEF Queued
<1>8. \A k \in Kids : /\ kid[k].row = "deleted" => kid'[k].row = "deleted"
                      /\ kid'[k].row \in {"pending", "running"} => kid[k].row \in {"pending", "running"}
                      /\ kid'[k].produced = kid[k].produced
  <2>1. h \in Kids => h \in Subs
    BY <1>1, SlotFacts
  <2>2. QED BY <1>0, <1>3, <2>1
<1>9. \A m \in Missions : level'[m].next = level[m].next /\ level'[m].active = level[m].active
                          /\ mission'[m].partial = mission[m].partial
  BY <1>3
<1>10. LevelInv'
  <2>1. ASSUME NEW m \in Missions PROVE LevelAt(m)'
    <3>1. LevelAt(m) /\ \A k \in SlotSet(m) : k \in Kids
      BY SlotFacts DEF State, TreeInv, LevelInv
    <3>2. \A k \in SlotSet(m) : Flying(k) => level[m].phase \in {"running", "broken"}
      BY <3>1 DEF LevelAt, Opened
    <3>3. m # h => level'[m] = level[m]
      BY <1>3
    <3>4. QED BY <1>3, <1>6, <1>9, <3>1, <3>2, <3>3, LevelKept
  <2>2. QED BY <2>1 DEF LevelInv
<1>11. StatusInv'
  <2>1. ASSUME NEW m \in Missions PROVE StatusAt(m)'
    <3>1. StatusAt(m) /\ \A k \in SlotSet(m) : k \in Kids
      BY SlotFacts DEF State, TreeInv, StatusInv
    <3>2. CASE m # h
      <4>1. m \in Subs => /\ kid'[m].act \notin {"queued", "granted"} /\ kid'[m].row # "deleted"
                          /\ Flying(m)' <=> Flying(m)
        BY <1>7, <3>1, <3>2 DEF StatusAt, Flying
      <4>2. level'[m] = level[m] /\ mission'[m] = mission[m]
        BY <1>3, <3>2
      <4>3. QED BY <1>8, <3>1, <4>1, <4>2, StatusKept
    <3>3. CASE m = h
      <4>1. kid'[a].row = "deleted" /\ level'[h].phase = "broken"
        BY <1>3
      <4>2. mission'[h].status = IF h \in Roots THEN "failed" ELSE "running"
        BY <1>1, <1>3, SlotFacts DEF StatusAt, first
      <4>3. h \in Subs => /\ mission'[h].status = "running" /\ kid'[h].row # "deleted"
                          /\ kid'[h].act \notin {"queued", "granted"} /\ ~Flying(h)'
        <5>1. SUFFICES ASSUME h \in Subs PROVE mission'[h].status = "running" /\ kid'[h].row # "deleted"
                                 /\ kid'[h].act \notin {"queued", "granted"} /\ ~Flying(h)'
          OBVIOUS
        <5>2. h \in Kids \ {a} /\ h \notin Roots
          BY <5>1, SlotFacts
        <5>3. CASE first
          BY <1>3, <4>2, <5>2, <5>3 DEF Flying, InFlight
        <5>4. CASE ~first
          <6>1. kid'[h].act = kid[h].act /\ kid'[h].row = kid[h].row /\ ~Active(h)
            BY <1>1, <1>7, <5>1, <5>4 DEF first, Active
          <6>2. QED BY <3>1, <3>3, <4>2, <5>1, <5>2, <6>1 DEF StatusAt, Flying
        <5>5. QED BY <5>3, <5>4
      <4>4. QED BY <1>1, <3>3, <4>1, <4>2, <4>3 DEF StatusAt, Active
    <3>4. QED BY <3>2, <3>3
  <2>2. QED BY <2>1 DEF StatusInv
<1>12. RestInv'
  <2>1. ASSUME NEW m \in Missions PROVE RestAt(m)'
    <3>1. RestAt(m) /\ \A k \in SlotSet(m) : k \in Kids
      BY SlotFacts DEF State, TreeInv, RestInv
    <3>2. level'[m].phase \in {"off", "synthesizing"} => level[m].phase \in {"off", "synthesizing"}
      BY <1>3
    <3>3. QED BY <1>8, <3>1, <3>2, RestKept
  <2>2. QED BY <2>1 DEF RestInv
<1>13. \A m \in Missions : mission'[m] # mission[m] =>
         /\ mission[m].status \notin Unstarted \cup {"synthesizing", "completed"}
         /\ mission'[m].status \notin Unstarted \cup {"synthesizing", "completed"}
  <2>1. mission[h].status \notin Unstarted \cup {"synthesizing", "completed"}
    BY <1>1, FlyingHome DEF h
  <2>2. "failed" \notin Unstarted \cup {"synthesizing", "completed"}
    BY DEF Unstarted, Unborn
  <2>3. QED BY <1>3, <2>1, <2>2
<1>14. OnceInv'
  <2>1. ASSUME NEW m \in Missions PROVE OnceAt(m)'
    <3>1. OnceAt(m) /\ (\A k \in SlotSet(m) : k \in Kids) /\ (m \in Subs => m \in Kids)
          /\ \A k \in Subs : k \in Missions
      BY SlotFacts DEF State, TreeInv, OnceInv
    <3>2. mission'[m].status \in Unstarted => mission[m].status \in Unstarted
      BY <1>13
    <3>3. \A k \in Missions : mission[k].status = "none" <=> mission'[k].status = "none"
      BY <1>13 DEF Unstarted, Unborn
    <3>4. level'[m].phase = level[m].phase
            \/ (level[m].phase \in {"running", "broken", "judging"}
                /\ level'[m].phase \in {"running", "broken", "judging"})
      BY <1>1, <1>3
    <3>5. level[m].phase = "off" => level'[m].phase = "off"
      BY <1>1, <1>3
    <3>6. QED BY <1>8, <1>9, <3>1, <3>2, <3>3, <3>4, <3>5, OnceKept
  <2>2. QED BY <2>1 DEF OnceInv
<1>15. WholeInv'
  <2>1. ASSUME NEW m \in Missions PROVE WholeAt(m)'
    <3>1. WholeAt(m) /\ (\A k \in SlotSet(m) : k \in Kids) /\ (m \in Subs => m \in Kids)
          /\ \A k \in Subs : k \in Missions
      BY SlotFacts DEF State, TreeInv, WholeInv
    <3>2. Vouches(m)' => Vouches(m)
      BY <1>8, <1>13, <3>1 DEF Vouches
    <3>3. level'[m].phase \in {"running", "judging"} => level[m].phase \in {"running", "judging"}
      BY <1>3
    <3>4. QED BY <1>3, <1>8, <1>9, <3>1, <3>2, <3>3, WholeKept
  <2>2. \A k \in Kids : kid'[k].report => kid'[k].produced
    BY <1>3 DEF State, TreeInv, WholeInv
  <2>3. QED BY <2>1, <2>2 DEF WholeInv
<1>16. AbortInv'
  <2>1. \A m \in Missions : m # a /\ m \in Missions \cup Agents
    BY SlotFacts
  <2>2. \A m \in Missions : level'[m].phase \in {"running", "judging", "synthesizing"} /\ abort'[m]
          => Active(m) /\ abort[m]
    BY <1>3, <2>1 DEF Active
  <2>3. \A k \in Kids : Flying(k)' => Flying(k) /\ (abort[k] => abort'[k])
    BY <1>3, <1>6, SlotFacts
  <2>4. QED BY <1>2, <1>3, <2>2, <2>3, AbortKept DEF State, TreeInv
<1>17. MeterInv'
  BY <1>3 DEF State, TreeInv, MeterInv
<1>18. QED BY <1>4, <1>5, <1>10, <1>11, <1>12, <1>14, <1>15, <1>16, <1>17 DEF State, TreeInv

\* A level launches a leaf.
LEMMA LaunchLeafStep ==
  ASSUME State, NEW m \in Missions, CanLaunch(m), NEW a \in Agents, a = level[m].active[level[m].next],
         LaunchLeaf(m, a), UNCHANGED <<crew, meter, faults>>
  PROVE  State'
<1>1. Typed /\ LevelInv /\ PermitInv
  BY DEF State, TreeInv
<1>2. /\ a \in SlotSet(m) /\ a \in Kids /\ Home[a] = m /\ ~Flying(a)
      /\ Opened(m) /\ ~abort[m] /\ ~meter[RootOf(m)].tripped
      /\ level[m].next \in 1..Len(level[m].active)
      /\ \A i \in (level[m].next + 1)..Len(level[m].active) : level[m].active[i] # a
  BY <1>1, NextSlot DEF Aborted
<1> DEFINE r == RootOf(a)
<1>3. r \in Roots /\ r = RootOf(m)
  BY <1>2, SlotFacts
<1>4. UNCHANGED <<mission, order, abort, ledger, crew, meter, faults>>
  BY DEF LaunchLeaf
<1>5. /\ MovesOn(m) /\ \A n \in Missions \ {m} : level'[n] = level[n]
      /\ kid' \in [Kids -> KidType] /\ limiter' \in [Roots -> PermitType]
      /\ \A k \in Kids : /\ kid'[k].row = kid[k].row /\ kid'[k].produced = kid[k].produced
                         /\ k # a => kid'[k] = kid[k]
      /\ ~kid'[a].report
      /\ \A q \in Roots \ {r} : limiter'[q] = limiter[q]
      /\ \/ /\ limiter[r].active < Width /\ kid'[a].act = "granted"
            /\ limiter'[r].active = limiter[r].active + 1
            /\ limiter'[r].waiters = limiter[r].waiters
         \/ /\ ~(limiter[r].active < Width) /\ kid'[a].act = "queued"
            /\ limiter'[r].active = limiter[r].active
            /\ limiter'[r].waiters = Append(limiter[r].waiters, a)
  BY <1>1, <1>3, LeafEffect
<1>6. PermitInv'
  <2>1. \A k \in Agents \ {a} : kid'[k].act = kid[k].act
    BY <1>5, SlotFacts
  <2>2. QED BY <1>1, <1>2, <1>5, <2>1, PermitLaunch
<1> HIDE DEF r
<1>7. Typed'
  BY <1>1, <1>4, <1>5 DEF Typed, MovesOn
<1>8. /\ level'[m].phase = level[m].phase /\ level'[m].next = level[m].next + 1
      /\ level'[m].active = level[m].active /\ level[m].next \in Nat
      /\ \A n \in Missions : level'[n].phase = level[n].phase /\ level'[n].active = level[n].active
  BY <1>1, <1>5 DEF MovesOn, Typed, LevelType
<1>9. LevelInv'
  <2>1. ASSUME NEW n \in Missions PROVE LevelAt(n)'
    <3>1. LevelAt(n) /\ \A k \in SlotSet(n) : k \in Kids /\ Home[k] = n
      BY SlotFacts DEF State, TreeInv, LevelInv
    <3>2. CASE n # m
      <4>1. level'[n] = level[n] /\ \A k \in SlotSet(n) : kid'[k] = kid[k]
        BY <1>2, <1>5, <3>1, <3>2
      <4>2. QED BY <3>1, <4>1 DEF LevelAt, Opened, Flying
    <3>3. CASE n = m
      <4>1. \A i \in (level[m].next + 1)..Len(level[m].active) : i \in level[m].next..Len(level[m].active)
        BY <1>8
      <4>2. \A k \in SlotSet(m) : Flying(k)' => Flying(k) \/ k = a
        BY <1>5, <3>1, <3>3 DEF Flying
      <4>3. level[m].next + 1 # 0
        BY <1>8
      <4>4. QED BY <1>2, <1>8, <3>1, <3>3, <4>1, <4>2, <4>3 DEF LevelAt, Opened
    <3>4. QED BY <3>2, <3>3
  <2>2. QED BY <2>1 DEF LevelInv
<1>10. StatusInv'
  <2>1. ASSUME NEW n \in Missions PROVE StatusAt(n)'
    <3>1. StatusAt(n) /\ (n \in Subs => kid'[n] = kid[n]) /\ \A k \in SlotSet(n) : k \in Kids
      BY <1>5, SlotFacts DEF State, TreeInv, StatusInv
    <3>2. n \in Subs => kid[n].act \notin {"queued", "granted"} /\ kid[n].row # "deleted"
      BY <3>1 DEF StatusAt
    <3>3. QED BY <1>4, <1>5, <1>8, <3>1, <3>2, StatusKept DEF Flying
  <2>2. QED BY <2>1 DEF StatusInv
<1>11. RestInv'
  <2>1. ASSUME NEW n \in Missions PROVE RestAt(n)'
    <3>1. RestAt(n) /\ \A k \in SlotSet(n) : k \in Kids
      BY SlotFacts DEF State, TreeInv, RestInv
    <3>2. QED BY <1>5, <1>8, <3>1, RestKept
  <2>2. QED BY <2>1 DEF RestInv
<1>12. OnceInv'
  <2>1. ASSUME NEW n \in Missions PROVE OnceAt(n)'
    <3>1. OnceAt(n) /\ (\A k \in SlotSet(n) : k \in Kids) /\ (n \in Subs => n \in Kids)
      BY SlotFacts DEF State, TreeInv, OnceInv
    <3>2. \A i \in level'[n].next..Len(level[n].active) : i \in level[n].next..Len(level[n].active)
      <4>1. CASE n = m
        BY <1>8, <4>1
      <4>2. CASE n # m
        BY <1>5, <4>2
      <4>3. QED BY <4>1, <4>2
    <3>3. QED BY <1>4, <1>5, <1>8, <3>1, <3>2 DEF OnceAt
  <2>2. QED BY <2>1 DEF OnceInv
<1>13. WholeInv'
  <2>1. ASSUME NEW n \in Missions PROVE WholeAt(n)'
    <3>1. WholeAt(n) /\ (\A k \in SlotSet(n) : k \in Kids) /\ (n \in Subs => n \in Kids)
      BY SlotFacts DEF State, TreeInv, WholeInv
    <3>2. Vouches(n)' => Vouches(n)
      BY <1>4, <1>5, <3>1 DEF Vouches
    <3>3. QED BY <1>4, <1>5, <1>8, <3>1, <3>2, WholeKept
  <2>2. \A k \in Kids : kid'[k].report => kid'[k].produced
    BY <1>5 DEF State, TreeInv, WholeInv
  <2>3. QED BY <2>1, <2>2 DEF WholeInv
<1>14. AbortInv'
  <2>1. \A k \in Kids : Flying(k)' => Flying(k) \/ k = a
    BY <1>5 DEF Flying
  <2>2. ~abort'[Home[a]] /\ ~meter'[RootOf(a)].tripped
    BY <1>2, <1>3, <1>4 DEF r
  <2>3. \A k \in Kids : Flying(k)' =>
          \/ Flying(k) /\ (abort[k] => abort'[k])
          \/ ~abort'[Home[k]] /\ ~meter'[RootOf(k)].tripped
    BY <1>4, <2>1, <2>2
  <2>4. QED BY <1>1, <1>4, <1>8, <2>3, AbortKept DEF State, TreeInv, Active
<1>15. MeterInv'
  BY <1>4 DEF State, TreeInv, MeterInv
<1>16. QED BY <1>6, <1>7, <1>9, <1>10, <1>11, <1>12, <1>13, <1>14, <1>15 DEF State, TreeInv

\* A crew slot settles without running.
LEMMA UnrunStep ==
  ASSUME State, NEW m \in Missions, CanLaunch(m), NEW s \in Subs, s = level[m].active[level[m].next],
         NEW row \in {"error", "aborted"}, SettleUnrun(m, s, row),
         ledger' = ledger \/ ledger' = [ledger EXCEPT ![m].childPartial = TRUE],
         UNCHANGED <<crew, meter, faults>>
  PROVE  State'
<1>1. Typed /\ LevelInv /\ PermitInv
  BY DEF State, TreeInv
<1>2. /\ s \in SlotSet(m) /\ s \in Kids /\ Home[s] = m /\ ~Flying(s) /\ Opened(m)
      /\ \A i \in (level[m].next + 1)..Len(level[m].active) : level[m].active[i] # s
  BY <1>1, NextSlot
<1>3. UNCHANGED <<mission, order, abort, limiter, crew, meter, faults>>
  BY DEF SettleUnrun
<1>4. /\ MovesOn(m) /\ \A n \in Missions \ {m} : level'[n] = level[n]
      /\ kid' \in [Kids -> KidType] /\ ledger' \in [Missions -> LedgerType]
      /\ \A k \in Kids : /\ kid'[k].report = kid[k].report /\ kid'[k].produced = kid[k].produced
                         /\ k # s => kid'[k] = kid[k]
      /\ kid'[s].row = row /\ kid'[s].act = "done"
      /\ \A n \in Missions : /\ ledger'[n].before = ledger[n].before
                             /\ ledger[n].childPartial => ledger'[n].childPartial
  BY <1>1, UnrunEffect
<1>5. Typed'
  BY <1>1, <1>3, <1>4 DEF Typed, MovesOn
<1>6. /\ level'[m].phase = level[m].phase /\ level'[m].next = level[m].next + 1
      /\ level'[m].active = level[m].active /\ level[m].next \in Nat
      /\ \A n \in Missions : level'[n].phase = level[n].phase /\ level'[n].active = level[n].active
  BY <1>1, <1>4 DEF MovesOn, Typed, LevelType
<1>7. \A k \in Kids : /\ Flying(k)' <=> Flying(k)
                      /\ kid[k].row = "deleted" => kid'[k].row = "deleted"
                      /\ kid'[k].row \in {"pending", "running"} => kid[k].row \in {"pending", "running"}
  <2>1. kid[s].row # "deleted"
    BY SlotFacts DEF State, TreeInv, StatusInv, StatusAt
  <2>2. ~Flying(s)'
    BY <1>4 DEF Flying, InFlight
  <2>3. QED BY <1>2, <1>4, <2>1, <2>2 DEF Flying
<1>8. PermitInv'
  BY <1>1, <1>3, <1>4, SlotFacts, PermitKept
<1>9. LevelInv'
  <2>1. ASSUME NEW n \in Missions PROVE LevelAt(n)'
    <3>1. LevelAt(n) /\ \A k \in SlotSet(n) : k \in Kids
      BY SlotFacts DEF State, TreeInv, LevelInv
    <3>2. CASE n # m
      BY <1>4, <1>7, <3>1, <3>2 DEF LevelAt, Opened
    <3>3. CASE n = m
      <4>1. \A i \in (level[m].next + 1)..Len(level[m].active) : i \in level[m].next..Len(level[m].active)
        BY <1>6
      <4>2. level[m].next + 1 # 0
        BY <1>6
      <4>3. QED BY <1>6, <1>7, <3>1, <3>3, <4>1, <4>2 DEF LevelAt, Opened
    <3>4. QED BY <3>2, <3>3
  <2>2. QED BY <2>1 DEF LevelInv
<1>10. StatusInv'
  <2>1. ASSUME NEW n \in Missions PROVE StatusAt(n)'
    <3>1. StatusAt(n) /\ \A k \in SlotSet(n) : k \in Kids
      BY SlotFacts DEF State, TreeInv, StatusInv
    <3>2. n \in Subs => /\ kid'[n].act \notin {"queued", "granted"} /\ kid'[n].row # "deleted"
                        /\ Flying(n)' <=> Flying(n)
      BY <1>4, <1>7, <3>1, SlotFacts DEF StatusAt
    <3>3. QED BY <1>3, <1>6, <1>7, <3>1, <3>2, StatusKept
  <2>2. QED BY <2>1 DEF StatusInv
<1>11. RestInv'
  <2>1. ASSUME NEW n \in Missions PROVE RestAt(n)'
    <3>1. RestAt(n) /\ \A k \in SlotSet(n) : k \in Kids
      BY SlotFacts DEF State, TreeInv, RestInv
    <3>2. QED BY <1>6, <1>7, <3>1, RestKept
  <2>2. QED BY <2>1 DEF RestInv
<1>12. OnceInv'
  <2>1. ASSUME NEW n \in Missions PROVE OnceAt(n)'
    <3>1. OnceAt(n) /\ (\A k \in SlotSet(n) : k \in Kids) /\ (n \in Subs => n \in Kids)
      BY SlotFacts DEF State, TreeInv, OnceInv
    <3>2. \A i \in level'[n].next..Len(level[n].active) : i \in level[n].next..Len(level[n].active)
      <4>1. CASE n = m
        BY <1>6, <4>1
      <4>2. CASE n # m
        BY <1>4, <4>2
      <4>3. QED BY <4>1, <4>2
    <3>3. QED BY <1>3, <1>4, <1>6, <3>1, <3>2 DEF OnceAt
  <2>2. QED BY <2>1 DEF OnceInv
<1>13. WholeInv'
  <2>1. ASSUME NEW n \in Missions PROVE WholeAt(n)'
    <3>1. WholeAt(n) /\ (\A k \in SlotSet(n) : k \in Kids) /\ (n \in Subs => n \in Kids)
      BY SlotFacts DEF State, TreeInv, WholeInv
    <3>2. Vouches(n)' => Vouches(n)
      BY <1>3, <1>4, <3>1 DEF Vouches
    <3>3. QED BY <1>3, <1>4, <1>6, <3>1, <3>2, WholeKept
  <2>2. \A k \in Kids : kid'[k].report => kid'[k].produced
    BY <1>4 DEF State, TreeInv, WholeInv
  <2>3. QED BY <2>1, <2>2 DEF WholeInv
<1>14. AbortInv'
  BY <1>1, <1>3, <1>6, <1>7, AbortKept DEF State, TreeInv, Active
<1>15. MeterInv'
  BY <1>3, <1>4 DEF State, TreeInv, MeterInv
<1>16. QED BY <1>5, <1>8, <1>9, <1>10, <1>11, <1>12, <1>13, <1>14, <1>15 DEF State, TreeInv

\* A level that begins finds its slots unused.
LEMMA OpenedAt ==
  ASSUME State, NEW x \in Missions, mission[x].status \in Unstarted, Begins(x), crew' = crew,
         \A k \in Kids :
           /\ kid'[k].row = IF k \in SlotSet(x) THEN "pending" ELSE kid[k].row
           /\ kid'[k].act = IF k = x THEN "running" ELSE kid[k].act
           /\ kid'[k].report = kid[k].report /\ kid'[k].produced = kid[k].produced,
         \A n \in Missions \ {x} : mission'[n] = mission[n]
  PROVE  /\ LevelAt(x)' /\ StatusAt(x)' /\ RestAt(x)' /\ OnceAt(x)' /\ WholeAt(x)'
         /\ \A k \in SlotSet(x) : ~Flying(k)'
         /\ level[x].phase = "off" /\ (x \in Subs => mission[x].status = "none" /\ ~kid[x].produced)
<1>1. LevelAt(x) /\ StatusAt(x) /\ OnceAt(x) /\ WholeAt(x)
  BY DEF State, TreeInv, LevelInv, StatusInv, OnceInv, WholeInv
<1>2. /\ level'[x].phase = "running" /\ level'[x].next = 1 /\ level'[x].active = Plan[x]
      /\ mission'[x].status = "running" /\ ~ledger'[x].childPartial
  BY DEF Begins
<1>3. level[x].phase = "off"
  BY <1>1 DEF StatusAt, State, Typed, LevelType, Phases, Unstarted, Unborn
<1>4. \A k \in SlotSet(x) : /\ ~Flying(k) /\ k \in Kids /\ k # x /\ ~kid'[k].produced
                            /\ ~Flying(k)'
                            /\ k \in Subs => k \in Missions /\ mission'[k].status = "none"
  <2>1. \A k \in SlotSet(x) : /\ ~Flying(k) /\ k \in Kids /\ k # x /\ ~kid[k].produced
                              /\ k \in Subs => k \in Missions /\ mission[k].status = "none"
    BY <1>1, <1>3, SlotFacts DEF LevelAt, Opened, OnceAt
  <2>2. QED BY <2>1 DEF Flying
<1>5. x \in Subs => x \in Kids /\ mission[x].status = "none" /\ ~kid[x].produced /\ x \notin Roots
                    /\ kid[x].row # "deleted" /\ x \notin SlotSet(x)
  BY <1>1, SlotFacts DEF StatusAt, OnceAt, Unstarted, Unborn
<1>6. LevelAt(x)'
  BY <1>2, <1>4, PlanFacts DEF LevelAt
<1>7. StatusAt(x)'
  <2>1. x \in Subs => Flying(x)' /\ Active(x)' /\ kid'[x].row # "deleted" /\ kid'[x].act = "running"
    BY <1>2, <1>5 DEF Flying, InFlight, Active
  <2>2. QED BY <1>2, <2>1 DEF StatusAt
<1>8. RestAt(x)'
  BY <1>2 DEF RestAt
<1>9. OnceAt(x)'
  <2>1. \A i \in 1..Len(Plan[x]) : Plan[x][i] \in SlotSet(x)
    <3>1. Plan[x] \in Seq(Kids)
      BY PlanFacts
    <3>2. QED BY <3>1 DEF SlotSet
  <2>2. "running" \notin Unstarted
    BY DEF Unstarted, Unborn
  <2>3. x \in Subs => ~kid'[x].produced
    BY <1>5
  <2>4. QED BY <1>2, <1>4, <2>1, <2>2, <2>3 DEF OnceAt
<1>10. WholeAt(x)'
  <2>1. ~Vouches(x)'
    BY <1>2, <1>5 DEF Vouches
  <2>2. QED BY <1>4, <2>1 DEF WholeAt
<1>11. QED BY <1>3, <1>4, <1>5, <1>6, <1>7, <1>8, <1>9, <1>10

\* A root's level opens.
LEMMA OpenStep ==
  ASSUME State, NEW r \in Roots, mission[r].status \in Unstarted, Open(r), order' \in Seq(Missions),
         UNCHANGED <<crew, faults>>
  PROVE  State'
<1>1. r \in Missions /\ r \notin Kids /\ r \notin Subs /\ Typed /\ UNCHANGED <<abort, limiter, meter>>
  BY SlotFacts DEF State, Open
<1>2. /\ mission' \in [Missions -> RowType] /\ level' \in [Missions -> LevelType]
      /\ kid' \in [Kids -> KidType] /\ ledger' \in [Missions -> LedgerType]
      /\ Begins(r) /\ ledger'[r].before = 0
      /\ \A m \in Missions \ {r} :
           mission'[m] = mission[m] /\ level'[m] = level[m] /\ ledger'[m] = ledger[m]
      /\ \A k \in Kids :
           /\ kid'[k].row = IF k \in SlotSet(r) THEN "pending" ELSE kid[k].row
           /\ kid'[k].act = kid[k].act /\ kid'[k].report = kid[k].report
           /\ kid'[k].produced = kid[k].produced
  BY <1>1, OpenEffect
<1>3. /\ LevelAt(r)' /\ StatusAt(r)' /\ RestAt(r)' /\ OnceAt(r)' /\ WholeAt(r)'
      /\ \A k \in SlotSet(r) : ~Flying(k)'
      /\ level[r].phase = "off"
  <2>1. \A k \in Kids : kid'[k].act = IF k = r THEN "running" ELSE kid[k].act
    BY <1>1, <1>2
  <2>2. QED BY <1>1, <1>2, <2>1, OpenedAt
<1>4. Typed'
  BY <1>1, <1>2 DEF Typed
<1>5. \A k \in Kids : Flying(k)' <=> Flying(k)
  BY <1>2 DEF Flying
<1>6. PermitInv'
  BY <1>1, <1>2, SlotFacts, PermitKept DEF State, TreeInv
<1>7. ASSUME NEW m \in Missions \ {r}
      PROVE  LevelAt(m)' /\ StatusAt(m)' /\ RestAt(m)' /\ OnceAt(m)' /\ WholeAt(m)'
  <2>1. LevelAt(m) /\ StatusAt(m) /\ RestAt(m) /\ OnceAt(m) /\ WholeAt(m)
    BY DEF State, TreeInv, LevelInv, StatusInv, RestInv, OnceInv, WholeInv
  <2>2. level'[m] = level[m] /\ mission'[m] = mission[m] /\ ledger'[m] = ledger[m]
    BY <1>2
  <2>3. /\ \A k \in SlotSet(m) : k \in Kids /\ kid'[k].row = kid[k].row
        /\ \A k \in Subs : k \in Missions /\ k # r /\ k \in Kids /\ mission'[k] = mission[k]
    BY <1>1, <1>2, SlotFacts
  <2>4. LevelAt(m)'
    BY <1>5, <2>1, <2>2, <2>3 DEF LevelAt, Opened
  <2>5. StatusAt(m)'
    <3>1. m \in Subs => /\ kid'[m].act = kid[m].act /\ kid'[m].row # "deleted"
      BY <1>2, <2>1, <2>3 DEF StatusAt
    <3>2. m \in Subs => kid[m].act \notin {"queued", "granted"}
      BY <2>1 DEF StatusAt
    <3>3. QED BY <2>1, <2>2, <2>3, <3>1, <3>2, StatusKept DEF Flying
  <2>6. RestAt(m)'
    BY <2>1, <2>2, <2>3, RestKept
  <2>7. OnceAt(m)'
    BY <1>2, <2>1, <2>2, <2>3, OnceKept
  <2>8. WholeAt(m)'
    <3>1. Vouches(m)' => Vouches(m)
      BY <1>2, <2>2, <2>3 DEF Vouches
    <3>2. QED BY <1>2, <2>1, <2>2, <2>3, <3>1, WholeKept
  <2>9. QED BY <2>4, <2>5, <2>6, <2>7, <2>8
<1>8. LevelInv' /\ StatusInv' /\ RestInv' /\ OnceInv' /\ WholeInv'
  <2>1. \A k \in Kids : kid'[k].report => kid'[k].produced
    BY <1>2 DEF State, TreeInv, WholeInv
  <2>2. QED BY <1>3, <1>7, <2>1 DEF LevelInv, StatusInv, RestInv, OnceInv, WholeInv
<1>9. AbortInv'
  <2>1. \A m \in Missions : level'[m].phase \in {"running", "judging", "synthesizing"} /\ abort'[m] =>
           (Active(m) /\ abort[m]) \/ \A k \in SlotSet(m) : Flying(k)' => abort'[k]
    BY <1>1, <1>2, <1>3 DEF Active
  <2>2. QED BY <1>1, <1>5, <2>1, AbortKept DEF State, TreeInv
<1>10. MeterInv'
  <2>1. RootOf(r) \in Roots /\ meter[RootOf(r)].total \in Nat
    BY <1>1, SlotFacts DEF Typed, MeterType
  <2>2. ledger'[r].before <= meter[RootOf(r)].total
    BY <1>2, <2>1
  <2>3. QED BY <1>1, <1>2, <2>2 DEF State, TreeInv, MeterInv
<1>11. QED BY <1>4, <1>6, <1>8, <1>9, <1>10 DEF State, TreeInv

\* A crew slot opens its nested mission.
LEMMA SubCrewStep ==
  ASSUME State, NEW m \in Missions, CanLaunch(m), NEW s \in Subs, s = level[m].active[level[m].next],
         OpenSubCrew(m, s), UNCHANGED <<crew, meter, faults>>
  PROVE  State'
<1>1. Typed /\ LevelInv /\ PermitInv /\ s \in Missions /\ s \in Kids /\ s \notin Agents
      /\ s \notin SlotSet(s) /\ m \in Missions
  BY SlotFacts DEF State, TreeInv
<1>2. /\ s \in SlotSet(m) /\ Home[s] = m /\ ~Flying(s) /\ Opened(m) /\ ~abort[m]
      /\ ~meter[RootOf(m)].tripped /\ level[m].next \in 1..Len(level[m].active)
      /\ \A i \in (level[m].next + 1)..Len(level[m].active) : level[m].active[i] # s
  BY <1>1, NextSlot DEF Aborted
<1>3. s # m /\ RootOf(s) = RootOf(m) /\ RootOf(m) \in Roots
  BY <1>2, SlotFacts
<1>4. mission[s].status = "none"
  <2>1. OnceAt(m) /\ level[m].phase \in {"running", "broken", "judging"}
    BY <1>2 DEF State, TreeInv, OnceInv, Opened
  <2>2. level[m].next \in level[m].next..Len(level[m].active)
    BY <1>2
  <2>3. QED BY <2>1, <2>2 DEF OnceAt
<1>5. /\ mission' \in [Missions -> RowType] /\ order' \in Seq(Missions)
      /\ kid' \in [Kids -> KidType] /\ ledger' \in [Missions -> LedgerType]
      /\ MovesOn(m) /\ Begins(s) /\ ledger'[s].before = meter[RootOf(m)].total
      /\ \A n \in Missions \ {s} :
           /\ mission'[n] = mission[n] /\ ledger'[n].before = ledger[n].before
           /\ ledger'[n].childPartial = ledger[n].childPartial
           /\ n # m => level'[n] = level[n]
      /\ \A k \in Kids :
           /\ kid'[k].row = IF k \in SlotSet(s) THEN "pending" ELSE kid[k].row
           /\ kid'[k].act = IF k = s THEN "running" ELSE kid[k].act
           /\ kid'[k].report = kid[k].report /\ kid'[k].produced = kid[k].produced
  BY <1>1, <1>3, SubCrewEffect
<1>6. UNCHANGED <<crew, abort, limiter, meter, faults>>
  BY DEF OpenSubCrew
<1>7. /\ LevelAt(s)' /\ StatusAt(s)' /\ RestAt(s)' /\ OnceAt(s)' /\ WholeAt(s)'
      /\ \A k \in SlotSet(s) : ~Flying(k)'
      /\ level[s].phase = "off" /\ ~kid[s].produced
  <2>1. mission[s].status \in Unstarted
    BY <1>4 DEF Unstarted, Unborn
  <2>2. QED BY <1>1, <1>5, <1>6, <2>1, OpenedAt
<1>8. Typed'
  BY <1>1, <1>5, <1>6 DEF Typed, MovesOn
<1>9. \A k \in Kids : k # s => (Flying(k)' <=> Flying(k))
  BY <1>5 DEF Flying
<1>10. PermitInv'
  BY <1>1, <1>5, <1>6, SlotFacts, PermitKept
<1>11. /\ level'[m].phase = level[m].phase /\ level'[m].next = level[m].next + 1
       /\ level'[m].active = level[m].active /\ level[m].next \in Nat
       /\ \A n \in Missions \ {s} : level'[n].phase = level[n].phase /\ level'[n].active = level[n].active
  BY <1>1, <1>5 DEF MovesOn, Typed, LevelType
<1>12. \A n \in Missions \ {s} :
          \A i \in level'[n].next..Len(level[n].active) : i \in level[n].next..Len(level[n].active)
  <2>1. ASSUME NEW n \in Missions \ {s}
        PROVE  \A i \in level'[n].next..Len(level[n].active) : i \in level[n].next..Len(level[n].active)
    <3>1. CASE n = m
      BY <1>11, <3>1
    <3>2. CASE n # m
      BY <1>5, <3>2
    <3>3. QED BY <3>1, <3>2
  <2>2. QED BY <2>1
<1>13. ASSUME NEW n \in Missions \ {s}
       PROVE  LevelAt(n)' /\ StatusAt(n)' /\ RestAt(n)' /\ OnceAt(n)' /\ WholeAt(n)'
  <2>1. LevelAt(n) /\ StatusAt(n) /\ RestAt(n) /\ OnceAt(n) /\ WholeAt(n)
    BY DEF State, TreeInv, LevelInv, StatusInv, RestInv, OnceInv, WholeInv
  <2>2. mission'[n] = mission[n] /\ ledger'[n].childPartial = ledger[n].childPartial
        /\ level'[n].phase = level[n].phase /\ level'[n].active = level[n].active
    BY <1>5, <1>11
  <2>3. \A k \in SlotSet(n) : k \in Kids /\ kid'[k].row = kid[k].row /\ (k = s => n = m)
    BY <1>2, <1>5, SlotFacts
  <2>4. n \in Subs => n \in Kids
    BY SlotFacts
  <2>5. LevelAt(n)'
    <3>1. CASE n = m
      <4>1. level[m].next + 1 # 0 /\ Opened(m)'
        BY <1>2, <1>11 DEF Opened
      <4>2. QED BY <1>2, <1>9, <1>11, <1>12, <2>1, <2>3, <3>1, <4>1 DEF LevelAt
    <3>2. CASE n # m
      <4>1. level'[n] = level[n]
        BY <1>5, <3>2
      <4>2. QED BY <1>9, <2>1, <2>3, <3>2, <4>1 DEF LevelAt, Opened
    <3>3. QED BY <3>1, <3>2
  <2>6. StatusAt(n)'
    <3>1. n \in Subs => /\ kid'[n].act = kid[n].act /\ kid'[n].row # "deleted"
                        /\ kid[n].act \notin {"queued", "granted"}
      BY <1>5, <2>1, <2>4 DEF StatusAt
    <3>2. QED BY <2>1, <2>2, <2>3, <3>1, StatusKept DEF Flying
  <2>7. RestAt(n)'
    BY <2>1, <2>2, <2>3, RestKept
  <2>8. OnceAt(n)'
    <3>1. \A k \in SlotSet(n) : kid'[k].produced = kid[k].produced
      BY <1>5, <2>3
    <3>2. mission[n].status \in Unstarted => \A k \in SlotSet(n) \cap Subs : mission'[k] = mission[k]
      <4>1. mission[m].status \notin Unstarted
        BY <1>2, <1>1, FlyingHome, SlotFacts DEF State, TreeInv, StatusInv, StatusAt, Opened, Unstarted, Unborn
      <4>2. QED BY <1>5, <2>3, <4>1, SlotFacts
    <3>3. level[n].phase \in {"running", "broken", "judging"} =>
            \A i \in level'[n].next..Len(level[n].active) :
              level[n].active[i] \in Subs => mission'[level[n].active[i]].status = "none"
      <4>1. SUFFICES ASSUME level[n].phase \in {"running", "broken", "judging"},
                            NEW i \in level'[n].next..Len(level[n].active), level[n].active[i] \in Subs
                     PROVE  mission'[level[n].active[i]].status = "none"
        OBVIOUS
      <4>2. i \in level[n].next..Len(level[n].active) /\ mission[level[n].active[i]].status = "none"
        BY <1>12, <2>1, <4>1 DEF OnceAt
      <4>3. level[n].active[i] # s
        <5>1. CASE n = m
          BY <1>2, <1>11, <4>1, <5>1
        <5>2. CASE n # m
          <6>1. level[n].active \in Seq(Kids) /\ level[n].next \in Nat \ {0}
            BY <1>1, <2>1 DEF Typed, LevelType, LevelAt
          <6>2. level[n].active[i] \in SlotSet(n)
            BY <2>1, <4>2, <6>1 DEF LevelAt, ToSet
          <6>3. QED BY <1>2, <5>2, <6>2, SlotFacts
        <5>3. QED BY <5>1, <5>2
      <4>4. QED BY <1>5, <4>1, <4>2, <4>3, SlotFacts
    <3>4. n \in Subs => kid'[n].produced = kid[n].produced
      BY <1>5, <2>4
    <3>5. QED BY <2>1, <2>2, <3>1, <3>2, <3>3, <3>4 DEF OnceAt
  <2>9. WholeAt(n)'
    <3>1. Vouches(n)' => Vouches(n)
      BY <1>5, <2>2, <2>4 DEF Vouches
    <3>2. \A k \in Subs : k \in Missions /\ mission'[k].partial = mission[k].partial
      BY <1>5, SlotFacts DEF Begins
    <3>3. QED BY <1>5, <1>6, <2>1, <2>2, <2>3, <3>1, <3>2, WholeKept
  <2>10. QED BY <2>5, <2>6, <2>7, <2>8, <2>9
<1>14. LevelInv' /\ StatusInv' /\ RestInv' /\ OnceInv' /\ WholeInv'
  <2>1. \A k \in Kids : kid'[k].report => kid'[k].produced
    BY <1>5 DEF State, TreeInv, WholeInv
  <2>2. QED BY <1>7, <1>13, <2>1 DEF LevelInv, StatusInv, RestInv, OnceInv, WholeInv
<1>15. AbortInv'
  <2>1. \A n \in Missions : level'[n].phase \in {"running", "judging", "synthesizing"} /\ abort'[n] =>
           (Active(n) /\ abort[n]) \/ \A k \in SlotSet(n) : Flying(k)' => abort'[k]
    BY <1>6, <1>7, <1>11 DEF Active
  <2>2. \A k \in Kids : Flying(k)' =>
           \/ Flying(k) /\ (abort[k] => abort'[k])
           \/ ~abort'[Home[k]] /\ ~meter'[RootOf(k)].tripped
    BY <1>2, <1>3, <1>6, <1>9
  <2>3. QED BY <1>1, <1>6, <2>1, <2>2, AbortKept DEF State, TreeInv
<1>16. MeterInv'
  <2>1. meter[RootOf(m)].total \in Nat
    BY <1>1, <1>3 DEF Typed, MeterType
  <2>2. ledger'[s].before <= meter[RootOf(s)].total
    BY <1>3, <1>5, <2>1
  <2>3. QED BY <1>5, <1>6, <2>2 DEF State, TreeInv, MeterInv
<1>17. QED BY <1>8, <1>10, <1>14, <1>15, <1>16 DEF State, TreeInv

\* A debate argues on, or a best-of-N level awaits its judge: only its level moves.
LEMMA LevelStep ==
  ASSUME State, NEW m \in Missions, level' \in [Missions -> LevelType],
         \A n \in Missions \ {m} : level'[n] = level[n],
         level[m].phase = "running", level'[m].phase \in {"running", "judging"},
         \A k \in SlotSet(m) : ~Flying(k),
         LevelAt(m)', OnceAt(m)',
         UNCHANGED <<crew, mission, order, kid, abort, limiter, ledger, meter, faults>>
  PROVE  State'
<1>1. Typed'
  BY DEF State, Typed
<1>2. PermitInv' /\ MeterInv'
  BY PermitKept DEF State, TreeInv, MeterInv
<1>3. LevelInv'
  <2>1. ASSUME NEW n \in Missions, n # m PROVE LevelAt(n)'
    BY <2>1 DEF State, TreeInv, LevelInv, LevelAt, Opened, Flying
  <2>2. QED BY <2>1 DEF LevelInv
<1>4. StatusInv'
  <2>1. ASSUME NEW n \in Missions PROVE StatusAt(n)'
    <3>1. StatusAt(n) /\ (n # m => level'[n] = level[n])
      BY DEF State, TreeInv, StatusInv
    <3>2. CASE n # m
      BY <3>1, <3>2 DEF StatusAt, Active, Flying
    <3>3. CASE n = m
      BY <3>1, <3>3 DEF StatusAt, Active, Flying
    <3>4. QED BY <3>2, <3>3
  <2>2. QED BY <2>1 DEF StatusInv
<1>5. RestInv'
  BY DEF State, TreeInv, RestInv, RestAt
<1>6. OnceInv'
  <2>1. ASSUME NEW n \in Missions, n # m PROVE OnceAt(n)'
    BY <2>1 DEF State, TreeInv, OnceInv, OnceAt
  <2>2. QED BY <2>1 DEF OnceInv
<1>7. WholeInv'
  <2>1. ASSUME NEW n \in Missions PROVE WholeAt(n)'
    <3>1. WholeAt(n) /\ (Vouches(n)' => Vouches(n)) /\
          (level'[n].phase \in {"running", "judging"} => level[n].phase \in {"running", "judging"})
      BY DEF State, TreeInv, WholeInv, Vouches
    <3>2. QED BY <3>1, WholeKept
  <2>2. QED BY <2>1 DEF WholeInv, State, TreeInv
<1>8. AbortInv'
  <2>1. \A n \in Missions : level'[n].phase \in {"running", "judging", "synthesizing"} => Active(n)
    BY DEF Active
  <2>2. QED BY <2>1, AbortKept DEF State, TreeInv, Flying
<1>9. QED BY <1>1, <1>2, <1>3, <1>4, <1>5, <1>6, <1>7, <1>8 DEF State, TreeInv

LEMMA NextRoundStep ==
  ASSUME State, NEW m \in Missions, NextRound(m)
  PROVE  State'
<1>1. UNCHANGED <<crew, mission, order, kid, abort, limiter, ledger, meter, faults>>
  BY DEF NextRound
<1>2. /\ level' \in [Missions -> LevelType] /\ \A n \in Missions \ {m} : level'[n] = level[n]
      /\ level[m].phase = "running" /\ level'[m].phase = "running" /\ level'[m].next = 1
      /\ level'[m].active \in Seq(Kids) /\ IsInjective(level'[m].active)
      /\ ToSet(level'[m].active) \subseteq ToSet(level[m].active)
      /\ \A k \in SlotSet(m) : ~Flying(k)
      /\ SlotSet(m) \subseteq Agents
  BY NextRoundEffect DEF State, TreeInv
<1>3. LevelAt(m) /\ OnceAt(m)
  BY DEF State, TreeInv, LevelInv, OnceInv
<1>4. LevelAt(m)'
  BY <1>1, <1>2, <1>3 DEF LevelAt, Flying
<1>5. OnceAt(m)'
  <2>1. \A i \in 1..Len(level'[m].active) : level'[m].active[i] \notin Subs
    <3>1. \A i \in 1..Len(level'[m].active) : level'[m].active[i] \in SlotSet(m)
      <4>1. DOMAIN level'[m].active = 1..Len(level'[m].active)
        BY <1>2
      <4>2. QED BY <1>2, <1>3, <4>1 DEF LevelAt, ToSet
    <3>2. QED BY <1>2, <3>1, SlotFacts
  <2>2. QED BY <1>1, <1>2, <1>3, <2>1 DEF OnceAt
<1>6. QED BY <1>1, <1>2, <1>4, <1>5, LevelStep

\* The level is over and its strategy leaves the winner to the judge.
LEMMA JudgingStep ==
  ASSUME State, NEW m \in Missions, RoundOver(m), level' = [level EXCEPT ![m].phase = "judging"],
         UNCHANGED <<crew, mission, order, kid, abort, limiter, ledger, meter, faults>>
  PROVE  State'
<1>1. /\ level' \in [Missions -> LevelType] /\ \A n \in Missions \ {m} : level'[n] = level[n]
      /\ level'[m].phase = "judging" /\ level'[m].next = level[m].next
      /\ level'[m].active = level[m].active
  BY PhaseTyped DEF Phases, State
<1>2. level[m].phase = "running" /\ \A k \in SlotSet(m) : ~Flying(k)
  BY DEF RoundOver, Flying
<1>3. LevelAt(m)'
  BY <1>1, <1>2 DEF State, TreeInv, LevelInv, LevelAt, Flying
<1>4. OnceAt(m)'
  BY <1>1, <1>2 DEF State, TreeInv, OnceInv, OnceAt
<1>5. QED BY <1>1, <1>2, <1>3, <1>4, LevelStep

\* A level that settles, whether the judge was asked or not.
Settling(m) == level[m].phase \in {"running", "judging"} /\ \A k \in SlotSet(m) : ~Flying(k)

LEMMA SettlingFacts ==
  ASSUME State, NEW m \in Missions
  PROVE  /\ RoundOver(m) => Settling(m)
         /\ level[m].phase = "judging" => Settling(m)
<1>1. RoundOver(m) => Settling(m)
  BY DEF RoundOver, Settling, Flying
<1>2. level[m].phase = "judging" => Settling(m)
  BY DEF State, TreeInv, LevelInv, LevelAt, Opened, Settling
<1>3. QED BY <1>1, <1>2

\* A nested level that is over has its container in flight, and its home still works or broke.
LEMMA NestedFacts ==
  ASSUME State, NEW m \in Missions, Active(m)
  PROVE  /\ mission[m].status \notin Unstarted
         /\ m \in Subs => /\ m \in Kids /\ Flying(m) /\ ~kid[m].produced /\ kid[m].row # "deleted"
                          /\ level[Home[m]].phase \in {"running", "broken"}
                          /\ Home[m] \in Missions /\ m \in SlotSet(Home[m])
                          /\ mission[Home[m]].status \notin Unstarted \cup {"synthesizing", "completed"}
<1>1. StatusAt(m) /\ OnceAt(m) /\ level[m].phase \in {"running", "judging", "synthesizing"}
  BY DEF State, TreeInv, StatusInv, OnceInv, Active
<1>2. mission[m].status \notin Unstarted
  BY <1>1 DEF StatusAt, Unstarted, Unborn
<1>3. ASSUME m \in Subs
      PROVE  /\ m \in Kids /\ Flying(m) /\ ~kid[m].produced /\ kid[m].row # "deleted"
             /\ level[Home[m]].phase \in {"running", "broken"}
             /\ Home[m] \in Missions /\ m \in SlotSet(Home[m])
             /\ mission[Home[m]].status \notin Unstarted \cup {"synthesizing", "completed"}
  <2>1. m \in Kids /\ Flying(m) /\ kid[m].row # "deleted" /\ ~kid[m].produced
    BY <1>1, <1>3, SlotFacts DEF StatusAt, OnceAt
  <2>2. QED BY <2>1, FlyingHome, SlotFacts
<1>4. QED BY <1>2, <1>3

\* A child session is gone: the level throws, and a nested one's container with it.
LEMMA BrokenStep ==
  ASSUME State, NEW m \in Missions, Settling(m), SettleLevel(m),
         \E k \in SlotSet(m) : kid[k].row = "deleted",
         UNCHANGED <<crew, order, abort, limiter, ledger, meter, faults>>
  PROVE  State'
<1>1. Typed /\ Active(m) /\ level[m].phase \in {"running", "judging"} /\ \A k \in SlotSet(m) : ~Flying(k)
  BY DEF State, Settling, Active
<1>2. /\ level' \in [Missions -> LevelType] /\ \A n \in Missions \ {m} : level'[n] = level[n]
      /\ level'[m].phase = "broken" /\ level'[m].next = level[m].next
      /\ level'[m].active = level[m].active
      /\ mission' \in [Missions -> RowType] /\ kid' \in [Kids -> KidType]
      /\ \A n \in Missions : /\ mission'[n].partial = mission[n].partial
                             /\ n # m => mission'[n] = mission[n]
      /\ mission'[m].status = IF m \in Roots THEN "failed" ELSE mission[m].status
      /\ \A k \in Kids :
           /\ kid'[k].report = kid[k].report /\ kid'[k].produced = kid[k].produced
           /\ kid'[k].act = IF k = m THEN "done" ELSE kid[k].act
           /\ kid'[k].row = IF k = m THEN "error" ELSE kid[k].row
  BY <1>1, BrokenEffect
<1>3. /\ mission[m].status \notin Unstarted
      /\ m \in Subs => m \in Kids /\ Flying(m) /\ ~kid[m].produced /\ kid[m].row # "deleted"
  BY <1>1, NestedFacts
<1>4. Typed'
  BY <1>1, <1>2 DEF Typed
<1>5. PermitInv' /\ MeterInv'
  <2>1. \A a \in Agents : kid'[a].act = kid[a].act
    BY <1>2, SlotFacts
  <2>2. QED BY <2>1, PermitKept DEF State, TreeInv, MeterInv
<1>6. \A k \in Kids : /\ Flying(k)' => Flying(k)
                      /\ k # m => (Flying(k)' <=> Flying(k)) /\ kid'[k].act = kid[k].act
                                  /\ kid'[k].row = kid[k].row
                      /\ kid[k].row = "deleted" => kid'[k].row = "deleted"
                      /\ kid'[k].row \in {"pending", "running"} => kid[k].row \in {"pending", "running"}
  <2>1. m \in Kids => m \in Subs
    BY SlotFacts
  <2>2. QED BY <1>2, <1>3, <2>1 DEF Flying, InFlight
<1>7. ASSUME NEW n \in Missions
      PROVE  LevelAt(n)' /\ StatusAt(n)' /\ RestAt(n)' /\ OnceAt(n)' /\ WholeAt(n)'
  <2>1. LevelAt(n) /\ StatusAt(n) /\ RestAt(n) /\ OnceAt(n) /\ WholeAt(n)
    BY DEF State, TreeInv, LevelInv, StatusInv, RestInv, OnceInv, WholeInv
  <2>2. /\ \A k \in SlotSet(n) : k \in Kids
        /\ n \in Subs => n \in Kids /\ n \notin Roots
        /\ \A k \in Subs : k \in Missions
        /\ n \in Roots \/ n \in Subs
    BY SlotFacts
  <2>3. level'[n].next = level[n].next /\ level'[n].active = level[n].active
        /\ (n # m => level'[n] = level[n] /\ mission'[n] = mission[n])
    BY <1>2
  <2>4. LevelAt(n)'
    <3>1. \A k \in SlotSet(n) : Flying(k)' => Flying(k) /\ level'[n].phase \in {"running", "broken"}
      BY <1>2, <1>6, <2>1, <2>2, <2>3 DEF LevelAt, Opened
    <3>2. QED BY <2>1, <2>3, <3>1, LevelKept
  <2>5. StatusAt(n)'
    <3>1. CASE n # m
      <4>1. n \in Subs => /\ kid'[n].act \notin {"queued", "granted"} /\ kid'[n].row # "deleted"
                          /\ Flying(n)' <=> Flying(n)
        BY <1>6, <2>1, <2>2, <3>1 DEF StatusAt
      <4>2. QED BY <1>6, <2>1, <2>2, <2>3, <3>1, <4>1, StatusKept
    <3>2. CASE n = m
      <4>1. \E k \in SlotSet(m) : kid'[k].row = "deleted"
        BY <1>6, <2>2, <3>2
      <4>2. m \in Subs => mission[m].status = "running"
        BY <1>1, <2>1, <3>2 DEF StatusAt
      <4>3. m \in Subs => kid'[m].act = "done" /\ kid'[m].row = "error" /\ ~Flying(m)'
        BY <1>2, <2>2, <3>2 DEF Flying, InFlight
      <4>4. QED BY <1>2, <2>2, <3>2, <4>1, <4>2, <4>3 DEF StatusAt, Active
    <3>3. QED BY <3>1, <3>2
  <2>6. RestAt(n)'
    <3>1. level'[n].phase \in {"off", "synthesizing"} => level[n].phase \in {"off", "synthesizing"}
      BY <1>2, <2>3
    <3>2. QED BY <1>6, <2>1, <2>2, <3>1, RestKept
  <2>7. OnceAt(n)'
    <3>1. "failed" \notin Unstarted
      BY DEF Unstarted, Unborn
    <3>2. mission'[n].status \in Unstarted => mission[n].status \in Unstarted
      BY <1>2, <1>3, <2>3, <3>1
    <3>3. \A k \in Subs : mission[k].status = "none" <=> mission'[k].status = "none"
      BY <1>2, SlotFacts
    <3>4. level'[n].phase = level[n].phase
           \/ (level[n].phase \in {"running", "broken", "judging"}
               /\ level'[n].phase \in {"running", "broken", "judging"})
      BY <1>1, <1>2, <2>3
    <3>5. level[n].phase = "off" => level'[n].phase = "off"
      BY <1>1, <2>3
    <3>6. QED BY <1>2, <2>1, <2>2, <2>3, <3>2, <3>3, <3>4, <3>5, OnceKept
  <2>8. WholeAt(n)'
    <3>1. Vouches(n)' => Vouches(n)
      BY <1>2, <1>3, <2>2, <2>3 DEF Vouches
    <3>2. level'[n].phase \in {"running", "judging"} => level[n].phase \in {"running", "judging"}
      BY <1>2, <2>3
    <3>3. QED BY <1>2, <2>1, <2>2, <3>1, <3>2, WholeKept
  <2>9. QED BY <2>4, <2>5, <2>6, <2>7, <2>8
<1>8. LevelInv' /\ StatusInv' /\ RestInv' /\ OnceInv' /\ WholeInv'
  <2>1. \A k \in Kids : kid'[k].report => kid'[k].produced
    BY <1>2 DEF State, TreeInv, WholeInv
  <2>2. QED BY <1>7, <2>1 DEF LevelInv, StatusInv, RestInv, OnceInv, WholeInv
<1>9. AbortInv'
  <2>1. \A n \in Missions : level'[n].phase \in {"running", "judging", "synthesizing"} => Active(n)
    BY <1>2 DEF Active
  <2>2. QED BY <1>1, <1>6, <2>1, AbortKept DEF State, TreeInv
<1>10. QED BY <1>4, <1>5, <1>8, <1>9 DEF State, TreeInv

\* A level that is not marked partial stands on all of its slots.
LEMMA WholeLevel ==
  ASSUME State, NEW m \in Missions, level[m].phase \in {"running", "judging"},
         ~Partial(m), crew.topology[m] # "best_of_n"
  PROVE  \A k \in SlotSet(m) : kid[k].produced /\ (k \in Subs => ~mission[k].partial)
<1>1. /\ ~ledger[m].childPartial
      /\ crew.topology[m] \in {"parallel", "pipeline"} => Produced(m) = SlotSet(m)
      /\ crew.topology[m] = "debate" => ~(Len(StillActive(m)) < Len(Plan[m]))
  BY DEF Partial
<1>2. crew.topology[m] \in {"parallel", "pipeline", "debate"}
      /\ (crew.topology[m] = "debate" => SlotSet(m) \subseteq Agents)
  BY CrewFacts DEF State, Topologies
<1>3. CASE crew.topology[m] \in {"parallel", "pipeline"}
  <2>1. \A k \in SlotSet(m) : kid[k].produced
    BY <1>1, <1>3 DEF Produced
  <2>2. WholeAt(m)
    BY DEF State, TreeInv, WholeInv
  <2>3. QED BY <1>1, <2>1, <2>2 DEF WholeAt
<1>4. CASE crew.topology[m] = "debate"
  <2> DEFINE s == level[m].active
             t == StillActive(m)
  <2>1. s \in Seq(Kids) /\ IsInjective(s) /\ ToSet(s) \subseteq SlotSet(m)
    BY DEF State, Typed, LevelType, TreeInv, LevelInv, LevelAt
  <2>2. t \in Seq(Kids) /\ IsInjective(t) /\ ToSet(t) \subseteq {k \in ToSet(s) : kid[k].report}
    BY <2>1, StillActiveFacts
  <2> HIDE DEF t
  <2>3. IsFiniteSet(ToSet(t)) /\ Cardinality(ToSet(t)) = Len(t) /\ Len(t) \in Nat
    BY <2>2, ListSize
  <2>4. IsFiniteSet(SlotSet(m)) /\ Cardinality(SlotSet(m)) = Len(Plan[m]) /\ Len(Plan[m]) \in Nat
    BY PlanFacts
  <2>5. ToSet(t) \subseteq SlotSet(m)
    BY <2>1, <2>2
  <2>6. Len(t) >= Len(Plan[m])
    BY <1>1, <1>4, <2>3, <2>4 DEF t
  <2>7. ToSet(t) = SlotSet(m)
    <3>1. Cardinality(ToSet(t)) <= Cardinality(SlotSet(m))
      BY <2>4, <2>5, FS_Subset
    <3>2. Cardinality(ToSet(t)) = Cardinality(SlotSet(m))
      BY <2>3, <2>4, <2>6, <3>1
    <3>3. QED BY <2>4, <2>5, <3>2, FS_Subset
  <2>8. \A k \in SlotSet(m) : k \in Kids /\ kid[k].report
    BY <2>2, <2>7, SlotFacts
  <2>9. \A k \in SlotSet(m) : kid[k].produced
    BY <2>8 DEF State, TreeInv, WholeInv
  <2>10. \A k \in SlotSet(m) : k \notin Subs
    BY <1>2, <1>4, SlotFacts
  <2>11. QED BY <2>9, <2>10
<1>5. QED BY <1>2, <1>3, <1>4

\* Every child is settled and the level goes on to its synthesis.
LEMMA SettledStep ==
  ASSUME State, NEW m \in Missions, Settling(m), SettleLevel(m),
         ~\E k \in SlotSet(m) : kid[k].row = "deleted",
         UNCHANGED <<crew, order, abort, limiter, ledger, meter, faults>>
  PROVE  State'
<1>1. Typed /\ Active(m) /\ level[m].phase \in {"running", "judging"} /\ \A k \in SlotSet(m) : ~Flying(k)
  BY DEF State, Settling, Active
<1>2. /\ level' \in [Missions -> LevelType] /\ \A n \in Missions \ {m} : level'[n] = level[n]
      /\ level'[m].phase = "synthesizing" /\ level'[m].next = level[m].next
      /\ level'[m].active = level[m].active
      /\ mission' \in [Missions -> RowType] /\ kid' \in [Kids -> KidType]
      /\ \A n \in Missions : n # m => mission'[n] = mission[n]
      /\ mission'[m].status = "synthesizing" /\ mission'[m].partial = Partial(m)
      /\ \A k \in Kids :
           /\ kid'[k].report = kid[k].report /\ kid'[k].produced = kid[k].produced
           /\ kid'[k].act = kid[k].act
           /\ kid'[k].row = IF k \in SlotSet(m) THEN Skipped(kid[k].row) ELSE kid[k].row
  BY <1>1, SettledEffect
<1>3. /\ mission[m].status \notin Unstarted
      /\ m \in Subs => m \in Kids /\ Flying(m) /\ ~kid[m].produced /\ kid[m].row # "deleted"
                       /\ mission[Home[m]].status \notin Unstarted \cup {"synthesizing", "completed"}
  BY <1>1, NestedFacts
<1>4. Typed'
  BY <1>1, <1>2 DEF Typed
<1>5. PermitInv' /\ MeterInv'
  <2>1. \A a \in Agents : kid'[a].act = kid[a].act
    BY <1>2, SlotFacts
  <2>2. QED BY <2>1, PermitKept DEF State, TreeInv, MeterInv
<1>6. \A k \in Kids : /\ Flying(k)' <=> Flying(k)
                      /\ kid[k].row = "deleted" <=> kid'[k].row = "deleted"
                      /\ kid'[k].row \in {"pending", "running"} => kid[k].row \in {"pending", "running"}
                      /\ k \in SlotSet(m) => kid'[k].row \notin {"pending", "running"}
  <2>1. \A k \in SlotSet(m) : kid[k].row # "deleted"
    OBVIOUS
  <2>2. \A k \in SlotSet(m) : k \in Kids => kid'[k].row \in {"completed", "aborted", "error"}
    BY <1>2 DEF Skipped, SettledRows
  <2>3. QED BY <1>2, <2>1, <2>2 DEF Flying
<1>7. ASSUME NEW n \in Missions
      PROVE  LevelAt(n)' /\ StatusAt(n)' /\ RestAt(n)' /\ OnceAt(n)' /\ WholeAt(n)'
  <2>1. LevelAt(n) /\ StatusAt(n) /\ RestAt(n) /\ OnceAt(n) /\ WholeAt(n)
    BY DEF State, TreeInv, LevelInv, StatusInv, RestInv, OnceInv, WholeInv
  <2>2. /\ \A k \in SlotSet(n) : k \in Kids /\ Home[k] = n
        /\ n \in Subs => n \in Kids /\ n \notin Roots
        /\ \A k \in Subs : k \in Missions
        /\ n \in Roots \/ n \in Subs
    BY SlotFacts
  <2>3. level'[n].next = level[n].next /\ level'[n].active = level[n].active
        /\ (n # m => level'[n] = level[n] /\ mission'[n] = mission[n])
    BY <1>2
  <2>4. LevelAt(n)'
    <3>1. \A k \in SlotSet(n) : Flying(k)' => Flying(k) /\ level'[n].phase \in {"running", "broken"}
      BY <1>1, <1>6, <2>1, <2>2, <2>3 DEF LevelAt, Opened
    <3>2. QED BY <2>1, <2>3, <3>1, LevelKept
  <2>5. StatusAt(n)'
    <3>1. n \in Subs => /\ kid'[n].act \notin {"queued", "granted"} /\ kid'[n].row # "deleted"
                        /\ Flying(n)' <=> Flying(n)
      BY <1>2, <1>6, <2>1, <2>2 DEF StatusAt
    <3>2. CASE n # m
      BY <1>6, <2>1, <2>2, <2>3, <3>1, <3>2, StatusKept
    <3>3. CASE n = m
      <4>1. m \in Subs => Flying(m)' /\ Active(m)'
        BY <1>2, <1>3, <1>6 DEF Active
      <4>2. mission'[m].status = "synthesizing" /\ level'[m].phase = "synthesizing"
        BY <1>2
      <4>3. QED BY <3>1, <3>3, <4>1, <4>2 DEF StatusAt
    <3>4. QED BY <3>2, <3>3
  <2>6. RestAt(n)'
    <3>1. CASE n = m
      BY <1>6, <2>2, <3>1 DEF RestAt
    <3>2. CASE n # m
      BY <1>6, <2>1, <2>2, <2>3, <3>2, RestKept
    <3>3. QED BY <3>1, <3>2
  <2>7. OnceAt(n)'
    <3>1. "synthesizing" \notin Unstarted /\ "none" \in Unstarted
      BY DEF Unstarted, Unborn
    <3>2. mission'[n].status \in Unstarted => mission[n].status \in Unstarted
      BY <1>2, <1>3, <2>3, <3>1
    <3>3. \A k \in Subs : mission[k].status = "none" <=> mission'[k].status = "none"
      BY <1>2, <1>3, <3>1, SlotFacts
    <3>4. level'[n].phase = level[n].phase \/ level'[n].phase \notin {"running", "broken", "judging"}
      BY <1>2, <2>3
    <3>5. level[n].phase = "off" => level'[n].phase = "off"
      BY <1>1, <2>3
    <3>6. QED BY <1>2, <2>1, <2>2, <2>3, <3>2, <3>3, <3>4, <3>5, OnceKept
  <2>8. WholeAt(n)'
    <3>1. CASE n # m
      <4>1. Vouches(n)' => Vouches(n)
        BY <1>2, <2>2, <2>3, <3>1 DEF Vouches
      <4>2. \A k \in SlotSet(n) \cap Subs :
               /\ kid'[k].produced = kid[k].produced
               /\ kid[k].produced => mission'[k].partial = mission[k].partial
        BY <1>2, <1>3, <2>2
      <4>3. QED BY <1>2, <2>1, <2>2, <2>3, <3>1, <4>1, <4>2, WholeKept
    <3>2. CASE n = m
      <4>1. ~Partial(m) /\ crew.topology[m] # "best_of_n" =>
              \A k \in SlotSet(m) : kid[k].produced /\ (k \in Subs => ~mission[k].partial)
        BY <1>1, WholeLevel
      <4>2. \A k \in SlotSet(m) : k \in Kids /\ kid'[k].produced = kid[k].produced
                                  /\ (k \in Subs => mission'[k].partial = mission[k].partial)
        BY <1>2, SlotFacts
      <4>3. QED BY <1>2, <3>2, <4>1, <4>2 DEF WholeAt
    <3>3. QED BY <3>1, <3>2
  <2>9. QED BY <2>4, <2>5, <2>6, <2>7, <2>8
<1>8. LevelInv' /\ StatusInv' /\ RestInv' /\ OnceInv' /\ WholeInv'
  <2>1. \A k \in Kids : kid'[k].report => kid'[k].produced
    BY <1>2 DEF State, TreeInv, WholeInv
  <2>2. QED BY <1>7, <2>1 DEF LevelInv, StatusInv, RestInv, OnceInv, WholeInv
<1>9. AbortInv'
  <2>1. \A n \in Missions : level'[n].phase \in {"running", "judging", "synthesizing"} => Active(n)
    BY <1>1, <1>2 DEF Active
  <2>2. QED BY <1>1, <1>6, <2>1, AbortKept DEF State, TreeInv
<1>10. QED BY <1>4, <1>5, <1>8, <1>9 DEF State, TreeInv

LEMMA SettleStep ==
  ASSUME State, NEW m \in Missions, Settling(m), SettleLevel(m),
         UNCHANGED <<crew, order, abort, limiter, ledger, meter, faults>>
  PROVE  State'
BY BrokenStep, SettledStep

\* A mission's answer is in.  A nested one's is its container's report, and tells its home
\* that it is partial.
LEMMA SynthesizedStep ==
  ASSUME State, NEW m \in Missions, Synthesized(m)
  PROVE  State'
<1>1. /\ Typed /\ level[m].phase = "synthesizing" /\ Answered(m) /\ Active(m)
      /\ IF m \in Subs THEN RollUp(m) ELSE UNCHANGED <<kid, ledger>>
      /\ UNCHANGED <<crew, order, limiter, meter, faults>>
  BY DEF Synthesized, Answered, State, Active
<1>2. /\ level' \in [Missions -> LevelType] /\ \A n \in Missions \ {m} : level'[n] = level[n]
      /\ level'[m].phase = "off" /\ level'[m].next = level[m].next
      /\ level'[m].active = level[m].active
      /\ mission' \in [Missions -> RowType]
      /\ \A n \in Missions : /\ mission'[n].partial = mission[n].partial
                             /\ n # m => mission'[n] = mission[n]
      /\ mission'[m].status \in {"stopped", "completed"}
      /\ abort' \in [Missions \cup Agents -> BOOLEAN] /\ ~abort'[m]
      /\ \A x \in Missions \cup Agents : x # m => abort'[x] = abort[x]
  BY <1>1, AnsweredEffect
<1>3. /\ mission[m].status = "synthesizing" /\ mission[m].status \notin Unstarted
      /\ m \in Subs => /\ m \in Kids /\ Flying(m) /\ ~kid[m].produced /\ kid[m].row # "deleted"
                       /\ mission[Home[m]].status \notin Unstarted \cup {"synthesizing", "completed"}
  BY <1>1, NestedFacts DEF State, TreeInv, StatusInv, StatusAt
<1>4. /\ kid' \in [Kids -> KidType] /\ ledger' \in [Missions -> LedgerType]
      /\ m \in Subs => /\ kid'[m].act = "done" /\ kid'[m].row \in SettledRows
                       /\ kid'[m].report => kid'[m].produced
                       /\ kid'[m].produced /\ mission[m].partial => ledger'[Home[m]].childPartial
      /\ \A k \in Kids : k # m => kid'[k] = kid[k]
      /\ \A n \in Missions : /\ ledger'[n].before = ledger[n].before
                             /\ ledger[n].childPartial => ledger'[n].childPartial
  <2>1. CASE m \in Subs
    BY <1>1, <1>3, <2>1, RollUpEffect DEF State, TreeInv
  <2>2. CASE m \notin Subs
    BY <1>1, <2>2 DEF Typed
  <2>3. QED BY <2>1, <2>2
<1>5. Typed'
  BY <1>1, <1>2, <1>4 DEF Typed
<1>6. PermitInv' /\ MeterInv'
  <2>1. \A a \in Agents : kid'[a] = kid[a]
    BY <1>4, SlotFacts
  <2>2. PermitInv'
    BY <1>1, <2>1, PermitKept DEF State, TreeInv
  <2>3. MeterInv'
    BY <1>1, <1>4 DEF State, TreeInv, MeterInv
  <2>4. QED BY <2>2, <2>3
<1>7. \A k \in Kids : /\ Flying(k)' => Flying(k) /\ k # m
                      /\ kid[k].row = "deleted" => kid'[k].row = "deleted"
                      /\ kid'[k].row \in {"pending", "running"} => kid[k].row \in {"pending", "running"}
                      /\ kid[k].produced => kid'[k].produced
                      /\ kid'[k].report => kid'[k].produced
  <2>1. m \in Kids => m \in Subs
    BY SlotFacts
  <2>2. m \in Kids => ~Flying(m)' /\ kid'[m].row \notin {"pending", "running"}
    BY <1>4, <2>1 DEF Flying, InFlight, SettledRows
  <2>3. \A k \in Kids : kid[k].report => kid[k].produced
    BY DEF State, TreeInv, WholeInv
  <2>4. QED BY <1>3, <1>4, <2>1, <2>2, <2>3 DEF Flying
<1>8. ASSUME NEW n \in Missions
      PROVE  LevelAt(n)' /\ StatusAt(n)' /\ RestAt(n)' /\ OnceAt(n)' /\ WholeAt(n)'
  <2>1. LevelAt(n) /\ StatusAt(n) /\ RestAt(n) /\ OnceAt(n) /\ WholeAt(n)
    BY DEF State, TreeInv, LevelInv, StatusInv, RestInv, OnceInv, WholeInv
  <2>2. /\ \A k \in SlotSet(n) : k \in Kids /\ Home[k] = n
        /\ n \in Subs => n \in Kids /\ n \notin Roots
        /\ \A k \in Subs : k \in Missions
        /\ n \in Roots \/ n \in Subs
    BY SlotFacts
  <2>3. level'[n].next = level[n].next /\ level'[n].active = level[n].active
        /\ (n # m => level'[n] = level[n] /\ mission'[n] = mission[n])
    BY <1>2
  <2>4. LevelAt(n)'
    <3>1. \A k \in SlotSet(n) : Flying(k)' => Flying(k) /\ level'[n].phase \in {"running", "broken"}
      BY <1>1, <1>7, <2>1, <2>2, <2>3 DEF LevelAt, Opened
    <3>2. QED BY <2>1, <2>3, <3>1, LevelKept
  <2>5. StatusAt(n)'
    <3>1. CASE n # m
      <4>1. n \in Subs => kid'[n] = kid[n] /\ kid[n].act \notin {"queued", "granted"} /\ kid[n].row # "deleted"
        BY <1>4, <2>1, <2>2, <3>1 DEF StatusAt
      <4>2. QED BY <1>7, <2>1, <2>2, <2>3, <3>1, <4>1, StatusKept DEF Flying
    <3>2. CASE n = m
      <4>1. m \in Subs => /\ kid'[m].act \notin {"queued", "granted"} /\ kid'[m].row # "deleted"
                          /\ ~Flying(m)' /\ ~Active(m)'
        BY <1>2, <1>4, <1>7, <2>2, <3>2 DEF Active, SettledRows
      <4>2. mission'[m].status \notin {"planning", "refused", "proposed", "running", "synthesizing"}
            /\ level'[m].phase = "off"
        BY <1>2
      <4>3. QED BY <3>2, <4>1, <4>2 DEF StatusAt
    <3>3. QED BY <3>1, <3>2
  <2>6. RestAt(n)'
    <3>1. level'[n].phase \in {"off", "synthesizing"} => level[n].phase \in {"off", "synthesizing"}
      BY <1>1, <2>3
    <3>2. QED BY <1>7, <2>1, <2>2, <3>1, RestKept
  <2>7. OnceAt(n)'
    <3>1. "stopped" \notin Unstarted /\ "completed" \notin Unstarted /\ "none" \in Unstarted
      BY DEF Unstarted, Unborn
    <3>2. mission'[n].status \in Unstarted => mission[n].status \in Unstarted
      BY <1>2, <1>3, <2>3, <3>1
    <3>3. \A k \in Subs : mission[k].status = "none" <=> mission'[k].status = "none"
      BY <1>2, <1>3, <3>1, SlotFacts
    <3>4. level'[n].phase = level[n].phase \/ level'[n].phase \notin {"running", "broken", "judging"}
      BY <1>2, <2>3
    <3>5. level[n].phase = "off" => level'[n].phase = "off"
      BY <1>1, <2>3
    <3>6. \A k \in SlotSet(n) : mission[n].status \in Unstarted /\ kid'[k].produced => kid[k].produced
      <4>1. ASSUME NEW k \in SlotSet(n), mission[n].status \in Unstarted PROVE k # m
        <5>1. SUFFICES ASSUME k = m PROVE FALSE
          OBVIOUS
        <5>2. m \in Kids /\ m \in Subs /\ Home[m] = n
          BY <2>2, <4>1, <5>1, SlotFacts
        <5>3. QED BY <1>3, <4>1, <5>2
      <4>2. QED BY <1>4, <2>2, <4>1
    <3>7. n \in Subs => /\ mission'[n].status = "none" => mission[n].status = "none"
                        /\ kid'[n].produced => kid[n].produced \/ level'[n].phase = "off"
                        /\ mission'[n].status = "none" /\ kid'[n].produced => kid[n].produced
      BY <1>2, <1>4, <2>2, <2>3, <3>3
    <3>8. QED BY <2>1, <2>3, <3>2, <3>3, <3>4, <3>5, <3>6, <3>7, OnceKept
  <2>8. WholeAt(n)'
    <3>1. Vouches(n)' => Vouches(n)
      <4>1. CASE n = m
        BY <1>3, <4>1 DEF Vouches
      <4>2. CASE n # m
        BY <1>4, <2>2, <2>3, <4>2 DEF Vouches
      <4>3. QED BY <4>1, <4>2
    <3>2. level'[n].phase \in {"running", "judging"} => level[n].phase \in {"running", "judging"}
      BY <1>2, <2>3
    <3>3. \A k \in SlotSet(n) \cap Subs :
            /\ mission'[k].partial = mission[k].partial
            /\ kid'[k].produced /\ ~kid[k].produced /\ mission'[k].partial => ledger'[n].childPartial
      <4>1. ASSUME NEW k \in SlotSet(n) \cap Subs
            PROVE  /\ mission'[k].partial = mission[k].partial
                   /\ kid'[k].produced /\ ~kid[k].produced /\ mission'[k].partial => ledger'[n].childPartial
        <5>1. k \in Missions /\ k \in Kids /\ Home[k] = n /\ mission'[k].partial = mission[k].partial
          BY <1>2, <2>2
        <5>2. CASE k = m
          BY <1>4, <5>1, <5>2
        <5>3. CASE k # m
          BY <1>4, <5>1, <5>3
        <5>4. QED BY <5>1, <5>2, <5>3
      <4>2. QED BY <4>1
    <3>4. QED BY <1>1, <1>2, <1>4, <1>7, <2>1, <2>2, <3>1, <3>2, <3>3, WholeKept
  <2>9. QED BY <2>4, <2>5, <2>6, <2>7, <2>8
<1>9. LevelInv' /\ StatusInv' /\ RestInv' /\ OnceInv' /\ WholeInv'
  BY <1>7, <1>8 DEF LevelInv, StatusInv, RestInv, OnceInv, WholeInv
<1>10. AbortInv'
  <2>1. \A n \in Missions : level'[n].phase \in {"running", "judging", "synthesizing"} /\ abort'[n]
          => Active(n) /\ abort[n]
    BY <1>2 DEF Active
  <2>2. \A k \in Kids : Flying(k)' => Flying(k) /\ (abort[k] => abort'[k])
    BY <1>2, <1>7, SlotFacts
  <2>3. QED BY <1>1, <2>1, <2>2, AbortKept DEF State, TreeInv
<1>11. QED BY <1>5, <1>6, <1>9, <1>10 DEF State, TreeInv

\* A queue that nobody joined.
LEMMA EmptyQueue == IsInjective(<<>>) /\ ToSet(<<>>) = {} /\ Cardinality({}) = 0 /\ 0 <= Width
<1>1. IsInjective(<<>>) /\ ToSet(<<>>) = {}
  BY DEF IsInjective, ToSet
<1>2. QED BY <1>1, FS_EmptySet, BudgetAssumption

\* A restart.
LEMMA CrashStep ==
  ASSUME State, Crash
  PROVE  State'
<1>1. /\ mission' \in [Missions -> RowType] /\ level' \in [Missions -> LevelType]
      /\ kid' \in [Kids -> KidType] /\ abort' \in [Missions \cup Agents -> BOOLEAN]
      /\ limiter' \in [Roots -> PermitType] /\ ledger' \in [Missions -> LedgerType]
      /\ meter' \in [Roots -> MeterType] /\ faults' \in 0..MaxFaults /\ UNCHANGED <<crew, order>>
      /\ \A m \in Missions :
           /\ level'[m].phase = "off" /\ level'[m].next = 1 /\ level'[m].active = Plan[m]
           /\ ledger'[m].before = 0 /\ mission'[m].partial = mission[m].partial
           /\ mission'[m].status =
                IF mission[m].status \in {"running", "synthesizing"} THEN "failed"
                ELSE IF mission[m].status = "planning" THEN "refused" ELSE mission[m].status
      /\ \A k \in Kids :
           /\ kid'[k].act = "idle" /\ ~kid'[k].report /\ kid'[k].produced = kid[k].produced
           /\ kid'[k].row =
                IF \/ kid[k].row = "running"
                   \/ kid[k].row = "pending" /\ mission[Home[k]].status \in {"running", "synthesizing"}
                  THEN "aborted" ELSE kid[k].row
      /\ \A x \in Missions \cup Agents : ~abort'[x]
      /\ \A r \in Roots : /\ limiter'[r].active = 0 /\ limiter'[r].waiters = <<>>
                          /\ meter'[r].total = 0 /\ ~meter'[r].tripped
  BY CrashEffect DEF State
<1>2. Typed'
  BY <1>1 DEF State, Typed
<1>3. PermitInv'
  <2>1. \A a \in Agents : kid'[a].act = "idle"
    BY <1>1, SlotFacts
  <2>2. \A r \in Roots : Holders(r)' = {} /\ Queued(r)' = {}
    BY <2>1 DEF Holders, Queued
  <2>3. \A r \in Roots : limiter'[r].active = 0 /\ limiter'[r].waiters = <<>>
    BY <1>1
  <2>4. QED BY <2>2, <2>3, EmptyQueue DEF PermitInv
<1>4. \A k \in Kids : ~Flying(k)' /\ (kid[k].row = "deleted" <=> kid'[k].row = "deleted")
  BY <1>1 DEF Flying, InFlight
<1>5. ASSUME NEW n \in Missions
      PROVE  LevelAt(n)' /\ StatusAt(n)' /\ RestAt(n)' /\ OnceAt(n)' /\ WholeAt(n)'
  <2>1. LevelAt(n) /\ StatusAt(n) /\ RestAt(n) /\ OnceAt(n) /\ WholeAt(n)
    BY DEF State, TreeInv, LevelInv, StatusInv, RestInv, OnceInv, WholeInv
  <2>2. /\ \A k \in SlotSet(n) : k \in Kids /\ Home[k] = n
        /\ n \in Subs => n \in Kids /\ n \notin Roots
        /\ \A k \in Subs : k \in Missions
    BY SlotFacts
  <2>3. LevelAt(n)'
    BY <1>1, <1>4, <2>2, PlanFacts DEF LevelAt
  <2>4. StatusAt(n)'
    <3>1. n \in Subs => /\ mission[n].status \notin {"planning", "refused", "proposed"}
                        /\ kid[n].row # "deleted"
      BY <2>1 DEF StatusAt
    <3>2. n \in Subs => /\ mission'[n].status \notin {"planning", "refused", "proposed"}
                        /\ kid'[n].row # "deleted" /\ kid'[n].act = "idle" /\ ~Flying(n)'
      BY <1>1, <1>4, <2>2, <3>1
    <3>3. level'[n].phase = "off" /\ mission'[n].status \notin {"running", "synthesizing"} /\ ~Active(n)'
      BY <1>1 DEF Active
    <3>4. QED BY <3>2, <3>3 DEF StatusAt
  <2>5. RestAt(n)'
    <3>1. SUFFICES ASSUME \A k \in SlotSet(n) : kid'[k].row # "deleted", NEW k \in SlotSet(n),
                          kid'[k].row \in {"pending", "running"}
                   PROVE  FALSE
      BY DEF RestAt
    <3>2. kid[k].row = "pending" /\ mission[n].status \notin {"running", "synthesizing"}
      BY <1>1, <2>2, <3>1
    <3>3. \A j \in SlotSet(n) : kid[j].row # "deleted"
      BY <1>4, <2>2, <3>1
    <3>4. level[n].phase = "off"
      BY <2>1, <3>2, <3>3 DEF StatusAt, State, Typed, LevelType, Phases
    <3>5. QED BY <2>1, <3>2, <3>3, <3>4 DEF RestAt
  <2>6. OnceAt(n)'
    <3>1. "failed" \notin Unstarted /\ "planning" \in Unstarted
      BY DEF Unstarted, Unborn
    <3>2. mission'[n].status \in Unstarted => mission[n].status \in Unstarted
      BY <1>1, <3>1
    <3>3. \A k \in Subs : mission[k].status = "none" <=> mission'[k].status = "none"
      BY <1>1, SlotFacts
    <3>4. level'[n].phase = "off" /\ \A k \in SlotSet(n) : kid'[k].produced = kid[k].produced
      BY <1>1, <2>2
    <3>5. n \in Subs => kid'[n].produced = kid[n].produced
      BY <1>1, <2>2
    <3>6. QED BY <2>1, <3>2, <3>3, <3>4, <3>5 DEF OnceAt
  <2>7. WholeAt(n)'
    <3>1. Vouches(n)' => Vouches(n)
      BY <1>1, <2>2 DEF Vouches
    <3>2. \A k \in SlotSet(n) : kid'[k].produced = kid[k].produced
      BY <1>1, <2>2
    <3>3. \A k \in Subs : mission'[k].partial = mission[k].partial
      BY <1>1, <2>2
    <3>4. level'[n].phase = "off" /\ mission'[n].partial = mission[n].partial /\ crew' = crew
      BY <1>1
    <3>5. QED BY <2>1, <3>1, <3>2, <3>3, <3>4 DEF WholeAt
  <2>8. QED BY <2>3, <2>4, <2>5, <2>6, <2>7
<1>6. LevelInv' /\ StatusInv' /\ RestInv' /\ OnceInv' /\ WholeInv'
  BY <1>1, <1>5 DEF LevelInv, StatusInv, RestInv, OnceInv, WholeInv
<1>7. AbortInv'
  <2>1. \A m \in Missions : ~abort'[m]
    BY <1>1
  <2>2. \A r \in Roots : ~meter'[r].tripped
    BY <1>1
  <2>3. QED BY <2>1, <2>2 DEF AbortInv
<1>8. MeterInv'
  BY <1>1, SlotFacts DEF MeterInv
<1>9. QED BY <1>2, <1>3, <1>6, <1>7, <1>8 DEF State, TreeInv

\* A session's missions begin with nothing proposed.
LEMMA InitState == Init => State
<1>1. SUFFICES ASSUME Init PROVE State
  OBVIOUS
<1>2. /\ crew \in Crews /\ order = <<>> /\ faults = 0
      /\ mission = [m \in Missions |-> [status |-> "none", partial |-> FALSE]]
      /\ level = [m \in Missions |-> OffLevel(m)] /\ kid = [k \in Kids |-> NoKid]
      /\ abort = [x \in Missions \cup Agents |-> FALSE]
      /\ limiter = [r \in Roots |-> NoPermits] /\ ledger = [m \in Missions |-> Ledger(0, 0)]
      /\ meter = [r \in Roots |-> NoSpend]
  BY <1>1 DEF Init
<1>3. /\ mission \in [Missions -> RowType]
      /\ \A m \in Missions : mission[m].status = "none" /\ ~mission[m].partial
  BY <1>2 DEF RowType, MissionStatuses, Unborn
<1>4. /\ level \in [Missions -> LevelType]
      /\ \A m \in Missions : level[m].phase = "off" /\ level[m].next = 1 /\ level[m].active = Plan[m]
  <2>1. \A m \in Missions : Plan[m] \in Seq(Kids) /\ 1 \in 1..Rounds
    BY PlanFacts, BudgetAssumption
  <2>2. \A m \in Missions : OffLevel(m) \in LevelType /\ OffLevel(m).phase = "off"
                            /\ OffLevel(m).next = 1 /\ OffLevel(m).active = Plan[m]
    BY <2>1 DEF OffLevel, LevelType, Phases
  <2>3. QED BY <1>2, <2>2
<1>5. /\ kid \in [Kids -> KidType]
      /\ \A k \in Kids : /\ kid[k].row = "none" /\ kid[k].act = "idle"
                         /\ ~kid[k].report /\ ~kid[k].produced
  <2>1. NoKid \in KidType /\ NoKid.row = "none" /\ NoKid.act = "idle" /\ ~NoKid.report /\ ~NoKid.produced
    BY DEF NoKid, KidType, RowStates, Acts
  <2>2. QED BY <1>2, <2>1
<1>6. /\ limiter \in [Roots -> PermitType]
      /\ \A r \in Roots : limiter[r].active = 0 /\ limiter[r].waiters = <<>>
  <2>1. NoPermits \in PermitType /\ NoPermits.active = 0 /\ NoPermits.waiters = <<>>
    BY DEF NoPermits, PermitType
  <2>2. QED BY <1>2, <2>1
<1>7. ledger \in [Missions -> LedgerType] /\ \A m \in Missions : ledger[m].before = 0
  <2>1. Ledger(0, 0) \in LedgerType /\ Ledger(0, 0).before = 0
    BY LedgerFacts
  <2>2. QED BY <1>2, <2>1
<1>8. /\ meter \in [Roots -> MeterType]
      /\ \A r \in Roots : meter[r].total = 0 /\ ~meter[r].tripped
  <2>1. NoSpend \in MeterType /\ NoSpend.total = 0 /\ ~NoSpend.tripped
    BY DEF NoSpend, MeterType
  <2>2. QED BY <1>2, <2>1
<1>9. /\ abort \in [Missions \cup Agents -> BOOLEAN] /\ \A x \in Missions \cup Agents : ~abort[x]
      /\ faults \in 0..MaxFaults /\ order \in Seq(Missions)
  BY <1>2, BudgetAssumption
<1>10. Typed
  BY <1>2, <1>3, <1>4, <1>5, <1>6, <1>7, <1>8, <1>9 DEF Typed
<1>11. PermitInv
  <2>1. \A a \in Agents : kid[a].act = "idle"
    BY <1>5, SlotFacts
  <2>2. \A r \in Roots : Holders(r) = {} /\ Queued(r) = {}
    BY <2>1 DEF Holders, Queued
  <2>3. QED BY <1>6, <2>2, EmptyQueue DEF PermitInv
<1>12. \A k \in Kids : ~Flying(k)
  BY <1>5 DEF Flying, InFlight
<1>13. ASSUME NEW n \in Missions
       PROVE  LevelAt(n) /\ StatusAt(n) /\ RestAt(n) /\ OnceAt(n) /\ WholeAt(n)
  <2>1. /\ \A k \in SlotSet(n) : k \in Kids /\ (k \in Subs => k \in Missions)
        /\ n \in Subs => n \in Kids
    BY SlotFacts
  <2>2. LevelAt(n)
    BY <1>4, <1>12, <2>1, PlanFacts DEF LevelAt
  <2>3. StatusAt(n)
    <3>1. ~Active(n)
      BY <1>4 DEF Active
    <3>2. QED BY <1>3, <1>4, <1>5, <1>12, <2>1, <3>1 DEF StatusAt
  <2>4. RestAt(n)
    BY <1>5, <2>1 DEF RestAt
  <2>5. OnceAt(n)
    BY <1>3, <1>4, <1>5, <2>1 DEF OnceAt
  <2>6. WholeAt(n)
    BY <1>3, <1>4, <1>5, <2>1 DEF WholeAt, Vouches
  <2>7. QED BY <2>2, <2>3, <2>4, <2>5, <2>6
<1>14. LevelInv /\ StatusInv /\ RestInv /\ OnceInv /\ WholeInv
  BY <1>5, <1>13 DEF LevelInv, StatusInv, RestInv, OnceInv, WholeInv
<1>15. AbortInv
  BY <1>8, <1>9 DEF AbortInv
<1>16. MeterInv
  BY <1>7, <1>8, SlotFacts DEF MeterInv
<1>17. QED BY <1>10, <1>11, <1>14, <1>15, <1>16 DEF State, TreeInv

-----------------------------------------------------------------------------
(* The steps together. *)

LEMMA LaunchStep ==
  ASSUME State, NEW m \in Missions, Launch(m)
  PROVE  State'
<1> DEFINE k == level[m].active[level[m].next]
<1>1. CanLaunch(m) /\ UNCHANGED <<crew, meter, faults>>
      /\ IF k \in Agents THEN LaunchLeaf(m, k) ELSE LaunchSubCrew(m, k)
  BY DEF Launch
<1>2. k \in Kids
  BY <1>1, NextSlot DEF State, TreeInv
<1>3. CASE k \in Agents
  BY <1>1, <1>3, LaunchLeafStep
<1>4. CASE k \notin Agents
  <2>1. k \in Subs /\ LaunchSubCrew(m, k)
    BY <1>1, <1>2, <1>4, SlotFacts
  <2> HIDE DEF k
  <2>2. CASE SettleUnrun(m, k, "error") /\ UNCHANGED ledger
    BY <1>1, <2>1, <2>2, UnrunStep DEF k
  <2>3. CASE SettleUnrun(m, k, "aborted") /\ ledger' = [ledger EXCEPT ![m].childPartial = TRUE]
    BY <1>1, <2>1, <2>3, UnrunStep DEF k
  <2>4. CASE OpenSubCrew(m, k)
    BY <1>1, <2>1, <2>4, SubCrewStep DEF k
  <2>5. QED BY <2>1, <2>2, <2>3, <2>4 DEF LaunchSubCrew
<1>5. QED BY <1>3, <1>4

LEMMA LeafStep ==
  ASSUME State, NEW a \in Agents, Begin(a) \/ Answer(a)
  PROVE  State'
<1>1. "error" \in Parting(a) /\ "completed" \in Parting(a) /\ Skipped(kid[a].row) \in Parting(a)
      /\ 0 \in Nat /\ Costs \subseteq Nat
  BY BudgetAssumption DEF Parting
<1>2. CASE Begin(a)
  <2>1. kid[a].act = "granted" /\ UNCHANGED <<crew, order, faults>>
    BY <1>2 DEF Begin
  <2>2. CASE kid[a].row = "deleted" /\ Lose(a)
    BY <2>1, <2>2, LoseStep
  <2>3. CASE kid[a].row # "deleted" /\ Leave(a, Skipped(kid[a].row), FALSE, 0)
    BY <1>1, <2>1, <2>3, LeaveStep
  <2>4. CASE BeginsRun(a)
    BY <2>1, <2>4, BeginStep
  <2>5. QED BY <1>2, <2>2, <2>3, <2>4 DEF Begin, BeginsRun
<1>3. CASE Answer(a)
  <2>1. kid[a].act = "running" /\ UNCHANGED <<crew, order, faults>>
    BY <1>3 DEF Answer
  <2>2. CASE kid[a].row = "deleted" /\ Lose(a)
    BY <2>1, <2>2, LoseStep
  <2>3. ASSUME NEW c \in Costs, kid[a].row # "deleted", AgentReports(a, c) PROVE State'
    BY <1>1, <2>1, <2>3, LeaveStep DEF AgentReports
  <2>4. ASSUME NEW c \in Costs, kid[a].row # "deleted", AgentWithout(a, c) PROVE State'
    BY <1>1, <2>1, <2>4, LeaveStep DEF AgentWithout
  <2>5. ASSUME kid[a].row # "deleted", AgentThrows(a) PROVE State'
    BY <1>1, <2>1, <2>5, LeaveStep DEF AgentThrows
  <2>6. QED BY <1>3, <2>2, <2>3, <2>4, <2>5 DEF Answer
<1>4. QED BY <1>2, <1>3

LEMMA MissionStep ==
  ASSUME State, NEW m \in Missions, Internal(m) \/ Judged(m) \/ Synthesized(m) \/ Stop(m)
  PROVE  State'
<1>1. CASE Launch(m)
  BY <1>1, LaunchStep
<1>2. CASE NextRound(m)
  BY <1>2, NextRoundStep
<1>3. CASE Conclude(m)
  <2>1. RoundOver(m) /\ UNCHANGED <<crew, order, abort, limiter, ledger, meter, faults>>
    BY <1>3 DEF Conclude
  <2>2. CASE level' = [level EXCEPT ![m].phase = "judging"] /\ UNCHANGED <<mission, kid>>
    BY <2>1, <2>2, JudgingStep
  <2>3. CASE SettleLevel(m)
    BY <2>1, <2>3, SettlingFacts, SettleStep
  <2>4. QED BY <1>3, <2>2, <2>3 DEF Conclude
<1>4. CASE Judged(m)
  BY <1>4, SettlingFacts, SettleStep DEF Judged
<1>5. CASE Synthesized(m)
  BY <1>5, SynthesizedStep
<1>6. CASE Stop(m)
  <2>1. UNCHANGED <<crew, order, level, kid, limiter, ledger, meter, faults>>
    BY <1>6 DEF Stop
  <2>2. CASE Active(m) /\ abort' = Cascade(m) /\ UNCHANGED mission
    BY <2>1, <2>2, CascadeStep
  <2>3. CASE /\ mission[m].status = "proposed"
             /\ mission' = [mission EXCEPT ![m].status = "stopped"] /\ UNCHANGED abort
    <3>1. m \in Roots
      BY <2>3, SlotFacts DEF State, TreeInv, StatusInv, StatusAt
    <3>2. mission[m].status \in Unstarted /\ "stopped" \in Unstarted \cup {"stopped"} /\ order' \in Seq(Missions)
      BY <2>1, <2>3 DEF Unstarted, State, Typed
    <3>3. QED BY <2>1, <2>3, <3>1, <3>2, RootRowStep
  <2>4. QED BY <1>6, <2>2, <2>3 DEF Stop
<1>7. QED BY <1>1, <1>2, <1>3, <1>4, <1>5, <1>6 DEF Internal

LEMMA RootStep ==
  ASSUME State, NEW r \in Roots, Propose(r) \/ PlannerFails(r) \/ Planned(r) \/ Approve(r)
  PROVE  State'
<1>1. /\ {"none", "planning", "refused", "proposed"} \subseteq Unstarted
      /\ Unstarted \subseteq Unstarted \cup {"stopped"}
      /\ order \in Seq(Missions) /\ Append(order, r) \in Seq(Missions)
  BY SlotFacts DEF Unstarted, Unborn, State, Typed
<1>2. CASE Propose(r)
  BY <1>1, <1>2, RootRowStep DEF Propose
<1>3. CASE PlannerFails(r)
  BY <1>1, <1>3, RootRowStep DEF PlannerFails
<1>4. CASE Planned(r)
  <2>1. mission[r].status \in Unstarted /\ order' \in Seq(Missions) /\ UNCHANGED <<crew, faults>>
    BY <1>1, <1>4 DEF Planned
  <2>2. CASE Open(r)
    BY <2>1, <2>2, OpenStep
  <2>3. CASE /\ mission' = [mission EXCEPT ![r].status = "proposed"]
             /\ UNCHANGED <<level, kid, abort, limiter, ledger, meter>>
    BY <1>1, <2>1, <2>3, RootRowStep
  <2>4. QED BY <1>4, <2>2, <2>3 DEF Planned
<1>5. CASE Approve(r)
  BY <1>1, <1>5, OpenStep DEF Approve
<1>6. QED BY <1>2, <1>3, <1>4, <1>5

\* The invariant holds from the first state on.
LEMMA StateStep ==
  ASSUME State, [Next]_vars
  PROVE  State'
<1>1. CASE UNCHANGED vars
  <2>1. /\ crew' = crew /\ mission' = mission /\ order' = order /\ level' = level /\ kid' = kid
        /\ abort' = abort /\ limiter' = limiter /\ ledger' = ledger /\ meter' = meter /\ faults' = faults
    BY <1>1 DEF vars
  <2>2. Typed' /\ Typed
    BY <2>1 DEF State, Typed
  <2>3. PermitInv'
    BY <2>1 DEF State, TreeInv, PermitInv, Holders, Queued
  <2>4. (\A k : Flying(k)' <=> Flying(k)) /\ (\A m : Opened(m)' <=> Opened(m)) /\ (\A m : Active(m)' <=> Active(m))
    BY <2>1 DEF Flying, Opened, Active
  <2>5. LevelInv'
    BY <2>1, <2>4 DEF State, TreeInv, LevelInv, LevelAt
  <2>6. StatusInv'
    BY <2>1, <2>4 DEF State, TreeInv, StatusInv, StatusAt
  <2>7. RestInv' /\ OnceInv'
    BY <2>1 DEF State, TreeInv, RestInv, RestAt, OnceInv, OnceAt
  <2>8. WholeInv'
    BY <2>1 DEF State, TreeInv, WholeInv, WholeAt, Vouches
  <2>9. AbortInv'
    <3>1. \A r : InFlightLeaves(r)' = InFlightLeaves(r)
      BY <2>1 DEF InFlightLeaves
    <3>2. QED BY <2>1, <2>4, <3>1 DEF State, TreeInv, AbortInv
  <2>10. MeterInv'
    BY <2>1 DEF State, TreeInv, MeterInv
  <2>11. QED BY <2>2, <2>3, <2>5, <2>6, <2>7, <2>8, <2>9, <2>10 DEF State, TreeInv
<1>2. CASE Next
  <2>1. ASSUME NEW m \in Missions, Internal(m) \/ Judged(m) \/ Synthesized(m) \/ Stop(m) PROVE State'
    BY <2>1, MissionStep
  <2>2. ASSUME NEW r \in Roots, Propose(r) \/ PlannerFails(r) \/ Planned(r) \/ Approve(r) PROVE State'
    BY <2>2, RootStep
  <2>3. ASSUME NEW a \in Agents, Begin(a) \/ Answer(a) \/ StopAgent(a) \/ DeleteChild(a) PROVE State'
    BY <2>3, LeafStep, StopAgentStep, DeleteStep
  <2>4. QED BY <1>2, <2>1, <2>2, <2>3, CrashStep DEF Next
<1>3. QED BY <1>1, <1>2

LEMMA StateAlways == Spec => []State
<1>1. Init => State
  BY InitState
<1>2. State /\ [Next]_vars => State'
  BY StateStep
<1>3. QED BY <1>1, <1>2, PTL DEF Spec

-----------------------------------------------------------------------------
(* What a mission owes its whole subtree. *)

\* The state has its types.
THEOREM TypeCorrect == Spec => []TypeOK
<1>1. State => TypeOK
  BY TypedIsTypeOK DEF State
<1>2. QED BY <1>1, StateAlways, PTL

\* The permits taken are the leaves that run and the waiters those that queue, each once.
LEMMA PermitsFollow == State => PermitsConserved
<1>1. SUFFICES ASSUME State, NEW r \in Roots
               PROVE  LET holders == {a \in InFlightLeaves(r) : kid[a].act # "queued"}
                          waiting == InFlightLeaves(r) \ holders
                      IN /\ limiter[r].active = Cardinality(holders) /\ limiter[r].active <= Width
                         /\ Len(limiter[r].waiters) = Cardinality(waiting)
                         /\ \A a \in waiting : \E i \in DOMAIN limiter[r].waiters : limiter[r].waiters[i] = a
                         /\ waiting # {} => limiter[r].active = Width
  BY DEF PermitsConserved
<1> DEFINE holders == {a \in InFlightLeaves(r) : kid[a].act # "queued"}
           waiting == InFlightLeaves(r) \ holders
<1>2. holders = Holders(r) /\ waiting = Queued(r)
  BY DEF InFlightLeaves, InFlight, Holders, Queued
<1>3. /\ limiter[r].waiters \in Seq(Agents) /\ IsInjective(limiter[r].waiters)
      /\ ToSet(limiter[r].waiters) = Queued(r)
      /\ limiter[r].active = Cardinality(Holders(r)) /\ limiter[r].active <= Width
      /\ limiter[r].waiters # <<>> => limiter[r].active = Width
  BY <1>1 DEF State, TreeInv, PermitInv, Typed, PermitType
<1>4. Len(limiter[r].waiters) = Cardinality(Queued(r))
  BY <1>3, ListSize
<1>5. \A a \in Queued(r) : \E i \in DOMAIN limiter[r].waiters : limiter[r].waiters[i] = a
  BY <1>3 DEF ToSet
<1>6. Queued(r) # {} => limiter[r].waiters # <<>>
  BY <1>5
<1> HIDE DEF holders, waiting
<1>7. /\ limiter[r].active = Cardinality(holders) /\ limiter[r].active <= Width
      /\ Len(limiter[r].waiters) = Cardinality(waiting)
      /\ \A a \in waiting : \E i \in DOMAIN limiter[r].waiters : limiter[r].waiters[i] = a
      /\ waiting # {} => limiter[r].active = Width
  BY <1>2, <1>3, <1>4, <1>5, <1>6
<1>8. QED BY <1>7 DEF holders, waiting

\* createConcurrencyLimiter over a whole tree: no permit is lost or handed out twice, and
\* nobody queues while one is free -- across hand-overs, stops, trips and slots that throw.
THEOREM PermitsHold == Spec => []PermitsConserved
BY StateAlways, PermitsFollow, PTL

\* A slot of a level inside m is inside m.
LEMMA DeeperInside ==
  ASSUME NEW m \in Missions, NEW h \in Missions, h = m \/ h \in Inside(m)
  PROVE  SlotSet(h) \subseteq Inside(m)
<1>1. ASSUME NEW k \in SlotSet(h) PROVE k \in Inside(m)
  <2>1. k \in Kids /\ Home[k] = h
    BY SlotFacts
  <2>2. Above[k] = {h} \cup Above[h]
    BY <2>1, AboveFacts
  <2>3. QED BY <2>1, <2>2 DEF Inside
<1>2. QED BY <1>1

\* A stop is in force at every slot that is linked to it.
LEMMA StopsFollow == State => StopReachesAll
<1>1. SUFFICES ASSUME State, NEW m \in Missions, Active(m), abort[m]
               PROVE  \A k \in Inside(m) : kid[k].act \in InFlight /\ Linked(m, k) => abort[k]
  BY DEF StopReachesAll
<1> DEFINE Good == {x \in Places : x \in Inside(m) /\ Flying(x) /\ Linked(m, x) => abort[x]}
<1>2. Roots \subseteq Good
  <2>1. \A r \in Roots : r \in Places /\ r \notin Inside(m)
    BY HomeFacts, SlotFacts, InsideFacts
  <2>2. QED BY <2>1
<1>3. ASSUME NEW k \in Kids, Home[k] \in Good
      PROVE  k \in Good
  <2>1. k \in Places
    BY HomeFacts
  <2>2. SUFFICES ASSUME k \in Inside(m), Flying(k), Linked(m, k) PROVE abort[k]
    BY <2>1
  <2>3. k \in SlotSet(Home[k]) /\ Home[k] \in Missions
    BY HomeFacts
  <2>4. CASE Home[k] = m
    BY <1>1, <2>2, <2>3, <2>4 DEF State, TreeInv, AbortInv
  <2>5. CASE Home[k] # m
    <3>1. /\ Home[k] \in Subs /\ Home[k] \in Inside(m)
          /\ \A n \in Above[Home[k]] : n \in Above[k]
      BY <2>2, <2>5, InsideFacts
    <3>2. Home[k] \in Above[k]
      BY AboveFacts
    <3>3. Active(Home[k]) /\ Linked(m, Home[k])
      BY <2>2, <3>1, <3>2 DEF Linked
    <3>4. Flying(Home[k])
      BY <1>1, <2>3, <3>1, <3>3 DEF State, TreeInv, StatusInv, StatusAt
    <3>5. abort[Home[k]]
      BY <1>3, <3>1, <3>3, <3>4
    <3>6. QED BY <1>1, <2>2, <2>3, <3>3, <3>5 DEF State, TreeInv, AbortInv
  <2>6. QED BY <2>4, <2>5
<1>4. Places \subseteq Good
  <2> HIDE DEF Good
  <2>1. QED BY <1>2, <1>3, TopDown
<1>5. Inside(m) \subseteq Places
  BY HomeFacts, InsideFacts
<1>6. QED BY <1>4, <1>5 DEF Flying

\* A stop reaches every level that is linked to it (the downward missionAbort cascade), at
\* whatever depth: as long as a stopped mission still works, no slot in flight there runs
\* without its abort raised.
THEOREM StopsReach == Spec => []StopReachesAll
BY StateAlways, StopsFollow, PTL

\* A level at rest under which nothing was deleted is off.
LEMMA RestingLevel ==
  ASSUME State, NEW h \in Missions, mission[h].status \in Terminal \cup {"none"},
         \A k \in SlotSet(h) : kid[k].row # "deleted"
  PROVE  level[h].phase = "off"
<1>1. StatusAt(h) /\ level[h].phase \in Phases
  BY DEF State, TreeInv, StatusInv, Typed, LevelType
<1>2. QED BY <1>1 DEF StatusAt, Phases, Terminal

LEMMA QuietFollows == State => QuietAtRest
<1> DEFINE Quiet(k) == /\ ~Flying(k) /\ kid[k].row \notin {"pending", "running"}
                       /\ k \in Subs => mission[k].status \in Terminal \cup {"none"}
<1>1. SUFFICES ASSUME State, NEW m \in Missions, mission[m].status \in Terminal,
                      \A k \in Inside(m) : kid[k].row # "deleted"
               PROVE  \A k \in Inside(m) : Quiet(k)
  BY DEF QuietAtRest, Flying
<1> DEFINE Good == {x \in Places : x \in Inside(m) => Quiet(x)}
<1>2. Roots \subseteq Good
  <2>1. \A r \in Roots : r \in Places /\ r \notin Inside(m)
    BY HomeFacts, SlotFacts, InsideFacts
  <2>2. QED BY <2>1
<1>3. ASSUME NEW k \in Kids, Home[k] \in Good
      PROVE  k \in Good
  <2> DEFINE h == Home[k]
  <2>1. k \in Places /\ k \in SlotSet(h) /\ h \in Missions
    BY HomeFacts
  <2>2. SUFFICES ASSUME k \in Inside(m) PROVE Quiet(k)
    BY <2>1
  <2>3. h = m \/ (h \in Inside(m) /\ h \in Subs)
    BY <2>2, InsideFacts
  <2>4. mission[h].status \in Terminal \cup {"none"}
    BY <1>1, <1>3, <2>3
  <2>5. level[h].phase = "off" /\ \A j \in SlotSet(h) : kid[j].row # "deleted"
    BY <1>1, <2>1, <2>3, <2>4, DeeperInside, RestingLevel
  <2>6. ~Flying(k)
    BY <1>1, <2>1, <2>5 DEF State, TreeInv, LevelInv, LevelAt, Opened
  <2>7. kid[k].row \notin {"pending", "running"}
    BY <1>1, <2>1, <2>5 DEF State, TreeInv, RestInv, RestAt
  <2>8. ASSUME k \in Subs
        PROVE  mission[k].status \in Terminal \cup {"none"}
    <3>1. k \in Missions /\ StatusAt(k) /\ mission[k].status \in MissionStatuses /\ level[k].phase \in Phases
      BY <1>1, <2>8, SlotFacts DEF State, TreeInv, StatusInv, Typed, LevelType, RowType
    <3>2. ~Active(k)
      BY <2>6, <2>8, <3>1 DEF StatusAt
    <3>3. level[k].phase # "broken"
      BY <1>1, <2>2, <3>1, DeeperInside DEF StatusAt
    <3>4. level[k].phase = "off"
      BY <3>1, <3>2, <3>3 DEF Active, Phases
    <3>5. QED BY <2>8, <3>1, <3>4 DEF StatusAt, MissionStatuses, Unborn
  <2>9. QED BY <2>6, <2>7, <2>8
<1>4. Places \subseteq Good
  <2> HIDE DEF Good
  <2>1. QED BY <1>2, <1>3, TopDown
<1>5. Inside(m) \subseteq Places
  BY HomeFacts, InsideFacts
<1>6. QED BY <1>4, <1>5

\* A mission at rest is quiet at every depth (runMissionLevel's bulk settle, runSubCrew, the
\* boot reconciliation), unless a child session was deleted under it.
THEOREM RestIsQuiet == Spec => []QuietAtRest
BY StateAlways, QuietFollows, PTL

LEMMA WholeFollows == State => NeverSilentlyTruncated
<1> DEFINE Owed(k) == \A n \in Above[k] : crew.topology[n] # "best_of_n"
           Sound(k) == kid[k].produced /\ (k \in Subs => ~mission[k].partial)
<1>1. SUFFICES ASSUME State, NEW m \in Missions, mission[m].status = "completed", ~mission[m].partial
               PROVE  \A k \in Inside(m) : Owed(k) => kid[k].produced
  BY DEF NeverSilentlyTruncated
<1> DEFINE Good == {x \in Places : x \in Inside(m) /\ Owed(x) => Sound(x)}
<1>2. Roots \subseteq Good
  <2>1. \A r \in Roots : r \in Places /\ r \notin Inside(m)
    BY HomeFacts, SlotFacts, InsideFacts
  <2>2. QED BY <2>1
<1>3. ASSUME NEW k \in Kids, Home[k] \in Good
      PROVE  k \in Good
  <2> DEFINE h == Home[k]
  <2>1. k \in Places /\ k \in SlotSet(h) /\ h \in Missions /\ h \in Above[k]
    BY HomeFacts, AboveFacts
  <2>2. SUFFICES ASSUME k \in Inside(m), Owed(k) PROVE Sound(k)
    BY <2>1
  <2>3. /\ h = m \/ (h \in Inside(m) /\ h \in Subs)
        /\ Owed(h)
    <3>1. h = m \/ (h \in Inside(m) /\ h \in Subs)
      BY <2>2, InsideFacts
    <3>2. \A n \in Above[h] : n \in Above[k]
      BY <2>2, InsideFacts
    <3>3. QED BY <2>2, <3>1, <3>2
  <2>4. Vouches(h) /\ ~mission[h].partial
    BY <1>1, <1>3, <2>3 DEF Vouches
  <2>5. WholeAt(h) /\ crew.topology[h] # "best_of_n"
    BY <1>1, <2>1, <2>2 DEF State, TreeInv, WholeInv
  <2>6. QED BY <2>1, <2>4, <2>5 DEF WholeAt
<1>4. Places \subseteq Good
  <2> HIDE DEF Good
  <2>1. QED BY <1>2, <1>3, TopDown
<1>5. Inside(m) \subseteq Places
  BY HomeFacts, InsideFacts
<1>6. QED BY <1>4, <1>5

\* Honest partial (childPartial, TopologyOutcome.partial): an answer that is not marked
\* partial stands on a report of every planned agent at every depth; a best-of-N level
\* needs its winner only.
THEOREM NeverTruncated == Spec => []NeverSilentlyTruncated
BY StateAlways, WholeFollows, PTL

-----------------------------------------------------------------------------
(* Who starts. *)

\* Nothing but its own start makes a leaf run.
Stays(a) == kid'[a].act # "running" \/ kid'[a].act = kid[a].act

LEMMA LaunchStays ==
  ASSUME State, NEW m \in Missions, Launch(m), NEW a \in Agents
  PROVE  Stays(a)
<1> DEFINE k == level[m].active[level[m].next]
<1>1. CanLaunch(m) /\ IF k \in Agents THEN LaunchLeaf(m, k) ELSE LaunchSubCrew(m, k)
  BY DEF Launch
<1>2. k \in Kids /\ a \in Kids /\ k # m
  BY <1>1, NextSlot, SlotFacts DEF State, TreeInv
<1> HIDE DEF k
<1>3. CASE k \in Agents
  BY <1>1, <1>2, <1>3, LeafEffect DEF State, Stays
<1>4. CASE k \notin Agents
  <2>1. k \in Subs /\ k # a /\ LaunchSubCrew(m, k)
    BY <1>1, <1>2, <1>4, SlotFacts
  <2>2. CASE \E row \in {"error", "aborted"} : SettleUnrun(m, k, row)
    BY <1>2, <2>1, <2>2 DEF SettleUnrun, Stays, State, Typed, KidType
  <2>3. CASE OpenSubCrew(m, k)
    BY <1>2, <2>1, <2>3, SubCrewEffect DEF State, Stays
  <2>4. QED BY <2>1, <2>2, <2>3 DEF LaunchSubCrew
<1>5. QED BY <1>3, <1>4

LEMMA SettleStays ==
  ASSUME State, NEW m \in Missions, SettleLevel(m), NEW a \in Agents
  PROVE  Stays(a)
<1>1. a \in Kids
  BY SlotFacts
<1>2. CASE \E k \in SlotSet(m) : kid[k].row = "deleted"
  BY <1>1, <1>2, BrokenEffect, SlotFacts DEF State, Stays
<1>3. CASE ~\E k \in SlotSet(m) : kid[k].row = "deleted"
  BY <1>1, <1>3, SettledEffect DEF State, Stays
<1>4. QED BY <1>2, <1>3

\* The end of another leaf, or of this one.
LEMMA LeafEndStays ==
  ASSUME State, NEW b \in Agents, kid[b].act \in {"granted", "running"}, NEW a \in Agents,
         \/ Lose(b)
         \/ \E row \in Parting(b), reported \in BOOLEAN, c \in Nat : Leave(b, row, reported, c)
  PROVE  Stays(a)
<1>1. a \in Kids /\ b \in Kids /\ a \notin Missions /\ Home[b] \in Missions
  BY SlotFacts
<1>2. limiter[RootOf(b)].active > 0 /\ b \notin GrantedTo(RootOf(b))
  <2>1. RootOf(b) \in Roots /\ b \in Holders(RootOf(b))
    BY SlotFacts, TreeOf DEF Holders
  <2>2. QED BY <2>1, HolderFacts DEF State, TreeInv
<1>3. CASE Lose(b)
  BY <1>1, <1>2, <1>3, LoseEffect DEF State, Stays
<1>4. CASE \E row \in Parting(b), reported \in BOOLEAN, c \in Nat : Leave(b, row, reported, c)
  BY <1>1, <1>2, <1>4, LeaveEffect DEF State, Stays
<1>5. QED BY <1>3, <1>4

LEMMA OnlyBegins ==
  ASSUME State, [Next]_vars, NEW a \in Agents, kid[a].act # "running", kid'[a].act = "running"
  PROVE  BeginsRun(a)
<1>1. SUFFICES ASSUME ~BeginsRun(a) PROVE Stays(a)
  BY DEF Stays
<1>2. a \in Kids
  BY SlotFacts
<1>3. kid' = kid => Stays(a)
  BY DEF Stays
<1>4. ASSUME NEW m \in Missions, Internal(m) \/ Judged(m) \/ Synthesized(m) \/ Stop(m)
      PROVE  Stays(a)
  <2>1. CASE Launch(m)
    BY <2>1, LaunchStays
  <2>2. CASE NextRound(m) \/ Stop(m)
    BY <1>3, <2>2 DEF NextRound, Stop
  <2>3. CASE Conclude(m) \/ Judged(m)
    BY <1>3, <2>3, SettleStays DEF Conclude, Judged
  <2>4. CASE Synthesized(m)
    <3>1. CASE m \in Subs
      <4>1. RollUp(m) /\ m # a
        BY <2>4, <3>1, SlotFacts DEF Synthesized
      <4>2. QED BY <1>2, <3>1, <4>1, RollUpEffect DEF State, TreeInv, Stays
    <3>2. CASE m \notin Subs
      BY <1>3, <2>4, <3>2 DEF Synthesized
    <3>3. QED BY <3>1, <3>2
  <2>5. QED BY <1>4, <2>1, <2>2, <2>3, <2>4 DEF Internal
<1>5. ASSUME NEW r \in Roots, Propose(r) \/ PlannerFails(r) \/ Planned(r) \/ Approve(r)
      PROVE  Stays(a)
  <2>1. CASE Open(r)
    BY <1>2, <2>1, OpenEffect DEF State, Stays
  <2>2. CASE kid' = kid
    BY <1>3, <2>2
  <2>3. QED BY <1>5, <2>1, <2>2 DEF Propose, PlannerFails, Planned, Approve
<1>6. ASSUME NEW b \in Agents, Begin(b) \/ Answer(b) \/ StopAgent(b) \/ DeleteChild(b)
      PROVE  Stays(a)
  <2>1. /\ "error" \in Parting(b) /\ "completed" \in Parting(b) /\ Skipped(kid[b].row) \in Parting(b)
        /\ 0 \in Nat /\ Costs \subseteq Nat
    BY BudgetAssumption DEF Parting
  <2>2. CASE Begin(b)
    <3>1. kid[b].act = "granted"
      BY <2>2 DEF Begin
    <3>2. CASE BeginsRun(b)
      <4>1. a # b
        BY <1>1, <3>2
      <4>2. QED BY <1>2, <3>2, <4>1, BeginEffect DEF State, Stays
    <3>3. CASE Lose(b) \/ Leave(b, Skipped(kid[b].row), FALSE, 0)
      BY <2>1, <3>1, <3>3, LeafEndStays
    <3>4. QED BY <2>2, <3>2, <3>3 DEF Begin, BeginsRun
  <2>3. CASE Answer(b)
    <3>1. kid[b].act = "running"
      BY <2>3 DEF Answer
    <3>2. \/ Lose(b)
          \/ \E row \in Parting(b), reported \in BOOLEAN, c \in Nat : Leave(b, row, reported, c)
      BY <2>1, <2>3 DEF Answer, AgentReports, AgentWithout, AgentThrows
    <3>3. QED BY <3>1, <3>2, LeafEndStays
  <2>4. CASE StopAgent(b)
    BY <1>3, <2>4 DEF StopAgent
  <2>5. CASE DeleteChild(b)
    BY <1>2, <2>5 DEF DeleteChild, Stays, State, Typed, KidType
  <2>6. QED BY <1>6, <2>2, <2>3, <2>4, <2>5
<1>7. Crash => Stays(a)
  BY <1>2, CrashEffect DEF State, Stays
<1>8. UNCHANGED vars => Stays(a)
  BY <1>3 DEF vars
<1>9. QED BY <1>4, <1>5, <1>6, <1>7, <1>8 DEF Next

\* An agent run begins only while the ceiling of its tree holds and no mission that it is
\* linked to was stopped.
LEMMA StartsInTime ==
  ASSUME State, [Next]_vars
  PROVE  \A a \in Agents :
           kid[a].act # "running" /\ kid'[a].act = "running"
           => /\ ~meter[RootOf(a)].tripped
              /\ ~\E m \in Above[a] : Active(m) /\ abort[m] /\ Linked(m, a)
<1>1. SUFFICES ASSUME NEW a \in Agents, kid[a].act # "running", kid'[a].act = "running"
               PROVE  /\ ~meter[RootOf(a)].tripped
                      /\ ~\E m \in Above[a] : Active(m) /\ abort[m] /\ Linked(m, a)
  OBVIOUS
<1>2. kid[a].act = "granted" /\ ~abort[a]
  BY <1>1, OnlyBegins DEF BeginsRun
<1>3. RootOf(a) \in Roots /\ RootOf(a) \in Above[a] /\ a \in Kids /\ Above[a] \subseteq Missions
  BY SlotFacts, TreeOf, AboveFacts
<1>4. ~meter[RootOf(a)].tripped
  <2>1. a \in InFlightLeaves(RootOf(a))
    BY <1>2, <1>3 DEF InFlightLeaves, InFlight
  <2>2. QED BY <1>2, <1>3, <2>1 DEF State, TreeInv, AbortInv
<1>5. ASSUME NEW m \in Above[a], Active(m), abort[m], Linked(m, a)
      PROVE  FALSE
  <2>1. m \in Missions /\ a \in Inside(m)
    BY <1>3 DEF Inside
  <2>2. StopReachesAll
    BY StopsFollow
  <2>3. QED BY <1>2, <1>5, <2>1, <2>2 DEF StopReachesAll, InFlight
<1>6. QED BY <1>4, <1>5

\* The caps are read after the fact (buildRunSlot): a tree overshoots its budget by the runs
\* that held a permit when it tripped, never by one that queued.
THEOREM NoLateStart == Spec => NothingStartsLate
<1>1. State /\ [Next]_vars =>
        [\A a \in Agents :
           kid[a].act # "running" /\ kid'[a].act = "running"
           => /\ ~meter[RootOf(a)].tripped
              /\ ~\E m \in Above[a] : Active(m) /\ abort[m] /\ Linked(m, a)]_vars
  BY StartsInTime
<1>2. QED BY <1>1, StateAlways, PTL DEF Spec, NothingStartsLate
===============================================================================
