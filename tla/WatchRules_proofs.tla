--------------------------- MODULE WatchRules_proofs ---------------------------
(***************************************************************************)
(* Proofs about WatchRules, for every configuration and bound.             *)
(***************************************************************************)
EXTENDS WatchRules, SequenceTheorems, TLAPS

-----------------------------------------------------------------------------
(* Types of what the engines read and write. *)

Kinds == {"window_fire", "window_recover", "window_no_data", "action", "paused", "rate_limited"}
AuditRow == [kind : Kinds, at : 0..Horizon, level : Levels, run : Runs \cup {NoRun}]

\* TypeOK with the audit rows named.
LEMMA AuditTyped == TypeOK => audit \in Seq(AuditRow)
BY DEF TypeOK, AuditRow, Kinds

\* Every row of the log is one.
LEMMA RowsTyped ==
  ASSUME TypeOK, NEW i \in DOMAIN audit
  PROVE  /\ audit[i] \in AuditRow
         /\ audit[i].kind \in Kinds /\ audit[i].at \in 0..Horizon /\ audit[i].at \in Nat
         /\ audit[i].level \in Levels /\ audit[i].run \in Runs \cup {NoRun}
<1>1. DOMAIN audit = 1..Len(audit)
  BY AuditTyped, LenProperties
<1>2. audit[i] \in AuditRow
  BY <1>1, AuditTyped, ElementOfSeq
<1> QED
  BY <1>2, ConfigAssumption DEF AuditRow

\* A row of a known kind is an audit row.
LEMMA RowTyped ==
  ASSUME NEW kind \in Kinds, NEW at \in 0..Horizon, NEW level \in Levels,
         NEW run \in Runs \cup {NoRun}
  PROVE  Row(kind, at, level, run) \in AuditRow
BY DEF Row, AuditRow

\* recordEvent appends a row or leaves the log alone.
LEMMA RecordedTyped ==
  ASSUME TypeOK, NEW row \in AuditRow
  PROVE  Recorded(row) \in Seq(AuditRow)
BY AuditTyped DEF Recorded

\* The windows to evaluate are windows.
LEMMA EndsTyped ==
  ASSUME TypeOK, NEW last \in 0..Horizon
  PROVE  /\ enumerateWindowEnds(last) \in Seq(1..Horizon)
         /\ \A i, j \in DOMAIN enumerateWindowEnds(last) :
              i < j => enumerateWindowEnds(last)[i] < enumerateWindowEnds(last)[j]
         /\ \A i \in DOMAIN enumerateWindowEnds(last) :
              last < enumerateWindowEnds(last)[i] /\ enumerateWindowEnds(last)[i] <= now
<1> DEFINE first == IF last = 0 THEN now
                    ELSE IF last + CatchUp < now THEN now + 1 - CatchUp ELSE last + 1
           n == now + 1 - first
           ends == [i \in 1..n |-> first + i - 1]
<1>1. now \in Nat /\ now <= Horizon /\ Horizon \in Nat /\ last \in Nat /\ CatchUp \in Nat \ {0}
  BY ConfigAssumption DEF TypeOK
<1>2. CASE now = 0 \/ now <= last
  <2>1. enumerateWindowEnds(last) = <<>>
    BY <1>2 DEF enumerateWindowEnds
  <2> QED
    BY <2>1
<1>3. CASE ~(now = 0 \/ now <= last)
  <2>1. enumerateWindowEnds(last) = ends
    BY <1>3 DEF enumerateWindowEnds
  <2>2. first \in Nat /\ first > last /\ first <= now /\ first >= 1
    BY <1>1, <1>3
  <2>3. n \in Nat /\ \A i \in 1..n : first + i - 1 \in 1..Horizon /\ first + i - 1 <= now
                                     /\ last < first + i - 1
    BY <1>1, <2>2
  <2>4. ends \in Seq(1..Horizon) /\ DOMAIN ends = 1..n
    <3> HIDE DEF first, n
    <3> QED
      BY <2>3
  <2>5. \A i, j \in 1..n : i < j => ends[i] < ends[j]
    <3> HIDE DEF first, n
    <3> QED
      BY <2>2, <2>3
  <2> QED
    BY <2>1, <2>3, <2>4, <2>5
<1> QED
  BY <1>2, <1>3

\* What the evaluator reads back from the log is a state.
LEMMA SeedTyped ==
  ASSUME TypeOK, NEW seed \in getWindowState
  PROVE  seed \in [armed : BOOLEAN, fired : 0..Horizon, level : Levels]
<1> DEFINE fires == Latest(Rows({"window_fire"}))
           marks == Latest(Rows({"window_fire", "window_recover"}))
<1>1. fires \subseteq DOMAIN audit /\ marks \subseteq DOMAIN audit
  BY DEF Latest, Rows
<1>2. PICK m \in (IF marks = {} THEN {0} ELSE marks), f \in (IF fires = {} THEN {0} ELSE fires) :
        seed = [armed |-> marks = {} \/ audit[m].kind = "window_recover",
                fired |-> IF fires = {} THEN 0 ELSE audit[f].at,
                level |-> IF fires = {} THEN "none" ELSE audit[f].level]
  BY DEF getWindowState
<1> HIDE DEF fires, marks
<1>3. ASSUME fires # {} PROVE audit[f].at \in 0..Horizon /\ audit[f].level \in Levels
  <2>1. f \in DOMAIN audit
    BY <1>1, <1>2, <1>3
  <2> QED
    BY <2>1, RowsTyped
<1>4. (IF fires = {} THEN 0 ELSE audit[f].at) \in 0..Horizon
  BY <1>3, ConfigAssumption
<1>5. (IF fires = {} THEN "none" ELSE audit[f].level) \in Levels
  BY <1>3 DEF Levels
<1> QED
  BY <1>2, <1>4, <1>5

-----------------------------------------------------------------------------
(* Type correctness. *)

EvalType == [pc : {"idle", "scan", "send"}, ends : Seq(1..Horizon), armed : BOOLEAN,
             fired : 0..Horizon, level : Levels, paused : BOOLEAN, upto : 0..Horizon]
DutyType == [pc : {"none", "matched", "send", "over"}, at : 0..Horizon, paused : BOOLEAN]

\* The head of a sequence is its first element.
LEMMA HeadIsFirst ==
  ASSUME NEW S, NEW s \in Seq(S), s # <<>>
  PROVE  Head(s) = s[1] /\ 1 \in 1..Len(s)
<1>1. Len(s) \in Nat \ {0}
  BY EmptySeq
<1>2. 1 \in 1..Len(s) /\ Len(s) \in 1..Len(s)
  BY <1>1
<1>3. Head(SubSeq(s, 1, Len(s))) = s[1]
  BY <1>2, HeadTailOfSubSeq
<1> QED
  BY <1>2, <1>3, SubSeqFull

\* What a scan step finds at the head of the windows.
LEMMA HeadTyped ==
  ASSUME TypeOK, eval.ends # <<>>
  PROVE  /\ Head(eval.ends) \in 1..Horizon /\ Tail(eval.ends) \in Seq(1..Horizon)
         /\ Head(eval.ends) = eval.ends[1] /\ DOMAIN eval.ends = 1..Len(eval.ends)
         /\ Len(eval.ends) \in Nat \ {0}
         /\ DOMAIN Tail(eval.ends) = 1..(Len(eval.ends) - 1)
         /\ \A i \in DOMAIN Tail(eval.ends) : Tail(eval.ends)[i] = eval.ends[i + 1]
<1>1. eval.ends \in Seq(1..Horizon)
  BY DEF TypeOK
<1>2. Len(eval.ends) \in Nat \ {0} /\ DOMAIN eval.ends = 1..Len(eval.ends)
  BY <1>1, EmptySeq, LenProperties
<1>3. Tail(eval.ends) \in Seq(1..Horizon) /\ Len(Tail(eval.ends)) = Len(eval.ends) - 1
  BY <1>1, HeadTailProperties
<1>4. Head(eval.ends) = eval.ends[1] /\ eval.ends[1] \in 1..Horizon
  BY <1>1, <1>2, HeadIsFirst, ElementOfSeq
<1>5. \A i \in 1..Len(Tail(eval.ends)) : Tail(eval.ends)[i] = eval.ends[i + 1]
  BY <1>1, HeadTailProperties
<1>6. DOMAIN Tail(eval.ends) = 1..(Len(eval.ends) - 1)
  BY <1>3, LenProperties
<1> QED
  BY <1>2, <1>3, <1>4, <1>5, <1>6

\* Windows are numbers.
LEMMA EndsElements ==
  ASSUME TypeOK
  PROVE  \A k \in DOMAIN eval.ends : eval.ends[k] \in Nat
<1>1. eval.ends \in Seq(1..Horizon)
  BY DEF TypeOK
<1>2. DOMAIN eval.ends = 1..Len(eval.ends)
  BY <1>1, LenProperties
<1>3. \A k \in 1..Len(eval.ends) : eval.ends[k] \in 1..Horizon
  BY <1>1, ElementOfSeq
<1>4. 1..Horizon \subseteq Nat
  BY ConfigAssumption
<1> QED
  BY <1>2, <1>3, <1>4

\* A fire appends its marker and, while the rule is paused, the row of the pause.
LEMMA FireRowsTyped ==
  ASSUME TypeOK, NEW w \in 1..Horizon, NEW st \in WindowStates, FireWindow(w, st)
  PROVE  audit' \in Seq(AuditRow)
<1> DEFINE fire == Row("window_fire", w, LevelOf(st), NoRun)
           pause == Row("paused", w, "none", NoRun)
<1>1. fire \in AuditRow /\ pause \in AuditRow
  BY RowTyped, ConfigAssumption DEF LevelOf, Levels, Kinds
<1> HIDE DEF fire, pause
<1>2. <<fire>> \in Seq(AuditRow) /\ <<pause>> \in Seq(AuditRow) /\ <<>> \in Seq(AuditRow)
  BY <1>1
<1>3. audit \in Seq(AuditRow)
  BY AuditTyped
<1>4. audit \o <<fire>> \in Seq(AuditRow)
  BY <1>2, <1>3, ConcatProperties
<1>5. audit' = IF ~rule.present THEN audit
               ELSE audit \o <<fire>> \o (IF eval.paused THEN <<pause>> ELSE <<>>)
  BY DEF FireWindow, fire, pause
<1> QED
  BY <1>2, <1>3, <1>4, <1>5, ConcatProperties

\* Evaluating a window keeps the types.
LEMMA ScanKeepsTypes ==
  ASSUME TypeOK, Scan
  PROVE  TypeOK'
<1>1. PICK st \in WindowStates :
        /\ read' = [read EXCEPT ![Head(eval.ends)] = st]
        /\ \/ FireWindow(Head(eval.ends), st) \/ SuppressWindow(Head(eval.ends), st)
           \/ HoldWindow(Head(eval.ends), st) \/ RecoverWindow(Head(eval.ends), st)
  BY DEF Scan
<1> DEFINE w == Head(eval.ends)
<1>2. w \in 1..Horizon /\ Tail(eval.ends) \in Seq(1..Horizon) /\ w \in 0..Horizon
  BY HeadTyped, ConfigAssumption DEF Scan
<1>3. eval \in EvalType
  BY DEF TypeOK, EvalType
<1>4. LevelOf(st) \in Levels /\ "none" \in Levels
  BY DEF LevelOf, Levels
<1>5. audit' \in Seq(AuditRow)
  <2> HIDE DEF w
  <2>1. CASE FireWindow(w, st)
    BY <1>2, <2>1, FireRowsTyped
  <2>2. CASE SuppressWindow(w, st)
    BY <2>2, AuditTyped DEF SuppressWindow
  <2>3. CASE HoldWindow(w, st)
    <3>1. Row("window_no_data", w, "none", NoRun) \in AuditRow
      BY <1>2, RowTyped, ConfigAssumption DEF Kinds, Levels
    <3> QED
      BY <2>3, <3>1, AuditTyped, RecordedTyped DEF HoldWindow
  <2>4. CASE RecoverWindow(w, st)
    <3>1. Row("window_recover", w, "none", NoRun) \in AuditRow
      BY <1>2, RowTyped, ConfigAssumption DEF Kinds, Levels
    <3> QED
      BY <2>4, <3>1, AuditTyped, RecordedTyped DEF RecoverWindow
  <2> QED
    BY <1>1, <2>1, <2>2, <2>3, <2>4 DEF w
<1>6. eval' \in EvalType
  <2> HIDE DEF w
  <2>1. CASE FireWindow(w, st)
    <3>1. eval' = [eval EXCEPT !.armed = FALSE, !.fired = w, !.level = LevelOf(st),
                               !.pc = IF eval.paused THEN "scan" ELSE "send",
                               !.ends = IF eval.paused THEN Tail(eval.ends) ELSE eval.ends]
      BY <2>1 DEF FireWindow
    <3> QED
      BY <1>2, <1>3, <1>4, <3>1 DEF EvalType
  <2>2. CASE SuppressWindow(w, st) \/ HoldWindow(w, st)
    BY <1>2, <1>3, <2>2 DEF SuppressWindow, HoldWindow, EvalType
  <2>3. CASE RecoverWindow(w, st)
    BY <1>2, <1>3, <1>4, <2>3 DEF RecoverWindow, EvalType
  <2> QED
    BY <1>1, <2>1, <2>2, <2>3 DEF w
<1>7. read' \in [1..Horizon -> WindowStates \cup {"unread"}]
  BY <1>1 DEF TypeOK
<1> QED
  BY <1>5, <1>6, <1>7 DEF Scan, TypeOK, EvalType, AuditRow, Kinds

\* While actions are awaited, their window is still at the head.
SendInv == eval.pc = "send" => eval.ends # <<>>

\* So do the other steps of the windowed evaluator ...
LEMMA EvaluationKeepsTypes ==
  ASSUME TypeOK, SendInv, Tick \/ WindowSent \/ EvaluationEnds
  PROVE  TypeOK'
<1>1. CASE Tick
  <2>1. PICK seed \in getWindowState :
          eval' = [pc |-> "scan", ends |-> enumerateWindowEnds(rule.last), armed |-> seed.armed,
                   fired |-> seed.fired, level |-> seed.level, paused |-> rule.paused, upto |-> now]
    BY <1>1 DEF Tick
  <2>2. enumerateWindowEnds(rule.last) \in Seq(1..Horizon)
    BY EndsTyped DEF TypeOK
  <2>3. eval' \in EvalType
    BY <2>1, <2>2, SeedTyped DEF EvalType, TypeOK
  <2> QED
    BY <1>1, <2>3 DEF Tick, TypeOK, EvalType
<1>2. CASE WindowSent
  <2>1. eval.pc = "send" /\ eval \in EvalType
    BY <1>2 DEF WindowSent, TypeOK, EvalType
  <2>2. eval.ends # <<>>
    BY <2>1 DEF SendInv
  <2>3. Row("action", Head(eval.ends), "none", NoRun) \in AuditRow
    BY <2>2, HeadTyped, RowTyped, ConfigAssumption DEF Kinds, Levels
  <2>4. audit' \in Seq(AuditRow)
    BY <1>2, <2>3, RecordedTyped DEF WindowSent
  <2>5. eval' \in EvalType
    BY <1>2, <2>1, <2>2, HeadTyped DEF WindowSent, EvalType
  <2> QED
    BY <1>2, <2>4, <2>5 DEF WindowSent, TypeOK, EvalType, AuditRow, Kinds
<1>3. CASE EvaluationEnds
  <2>1. eval' \in EvalType
    BY <1>3, ConfigAssumption, EmptySeq DEF EvaluationEnds, Idle, EvalType, Levels
  <2>2. rule' \in [present : BOOLEAN, enabled : BOOLEAN, trigger : Triggers, paused : BOOLEAN,
                   last : 0..Horizon]
    BY <1>3 DEF EvaluationEnds, setLastEvaluatedAt, TypeOK
  <2> QED
    BY <1>3, <2>1, <2>2 DEF EvaluationEnds, TypeOK, EvalType
<1> QED
  BY <1>1, <1>2, <1>3

\* The two resting states of the on-terminal engine.
LEMMA DutiesTyped == NoDuty \in DutyType /\ Over \in DutyType
<1>1. 0 \in 0..Horizon
  BY ConfigAssumption
<1>2. NoDuty \in DutyType
  BY <1>1 DEF NoDuty, DutyType
<1>3. Over \in DutyType
  BY <1>2 DEF Over, DutyType
<1> QED
  BY <1>2, <1>3

\* ... those of the on-terminal engine ...
LEMMA RunsKeepTypes ==
  ASSUME TypeOK, NEW r \in Runs, RunSettles(r) \/ RunChecked(r) \/ RunSent(r)
  PROVE  TypeOK'
<1>1. duty[r] \in DutyType /\ duty \in [Runs -> DutyType] /\ now \in 0..Horizon /\ rule.paused \in BOOLEAN
  BY DEF TypeOK, DutyType
<1>2. duty' \in [Runs -> DutyType]
  <2>1. CASE RunSettles(r)
    BY <1>1, <2>1 DEF RunSettles, DutyType
  <2>2. CASE RunChecked(r)
    <3>1. [duty[r] EXCEPT !.pc = "send"] \in DutyType
      BY <1>1 DEF DutyType
    <3> QED
      BY <1>1, <2>2, <3>1, DutiesTyped DEF RunChecked
  <2>3. CASE RunSent(r)
    BY <1>1, <2>3, DutiesTyped DEF RunSent
  <2> QED
    BY <2>1, <2>2, <2>3
<1>3. audit' \in Seq(AuditRow)
  <2>1. \A kind \in Kinds : Row(kind, duty[r].at, "none", r) \in AuditRow
    BY <1>1, RowTyped DEF Levels, DutyType
  <2>2. \A kind \in Kinds : Recorded(Row(kind, duty[r].at, "none", r)) \in Seq(AuditRow)
    BY <2>1, RecordedTyped
  <2> QED
    BY <2>2, AuditTyped DEF RunSettles, RunChecked, RunSent, Kinds
<1>4. overlap' \subseteq Runs
  BY DEF RunSettles, RunChecked, RunSent, TypeOK
<1>5. UNCHANGED <<opt, now, read, rule, eval, edits, crashes, cut>>
  BY DEF RunSettles, RunChecked, RunSent
<1> QED
  BY <1>2, <1>3, <1>4, <1>5 DEF TypeOK, DutyType, AuditRow, Kinds

\* ... and those of the clock, the operator and a restart.
LEMMA WorldKeepsTypes ==
  ASSUME TypeOK, WindowCompletes \/ Edit \/ Resume \/ CrashRestart
  PROVE  TypeOK'
<1>1. CASE WindowCompletes
  BY <1>1, ConfigAssumption DEF WindowCompletes, TypeOK
<1>2. CASE Edit \/ Resume
  <2>1. rule' \in [present : BOOLEAN, enabled : BOOLEAN, trigger : Triggers, paused : BOOLEAN,
                   last : 0..Horizon]
    BY <1>2 DEF Edit, Resume, TypeOK
  <2>2. audit' \in Seq(AuditRow)
    BY <1>2, AuditTyped, EmptySeq DEF Edit, Resume
  <2>3. edits' \in 0..MaxEdits
    BY <1>2, ConfigAssumption DEF Edit, Resume, TypeOK
  <2> QED
    BY <1>2, <2>1, <2>2, <2>3 DEF Edit, Resume, TypeOK, AuditRow, Kinds
<1>3. CASE CrashRestart
  <2>1. eval' \in EvalType
    BY <1>3, ConfigAssumption, EmptySeq DEF CrashRestart, Idle, EvalType, Levels
  <2>2. duty' \in [Runs -> DutyType]
    BY <1>3, DutiesTyped DEF CrashRestart
  <2>3. crashes' \in 0..MaxCrashes /\ cut' \in BOOLEAN
    BY <1>3, ConfigAssumption DEF CrashRestart, TypeOK
  <2> QED
    BY <1>3, <2>1, <2>2, <2>3 DEF CrashRestart, TypeOK, EvalType, DutyType
<1> QED
  BY <1>1, <1>2, <1>3

\* The types and the window under way are inductive together.
LEMMA StepKeepsTypes ==
  ASSUME TypeOK, SendInv, [Next]_vars
  PROVE  TypeOK' /\ SendInv'
<1>1. TypeOK'
  <2>1. CASE UNCHANGED vars
    BY <2>1 DEF vars, TypeOK
  <2> QED
    BY <2>1, ScanKeepsTypes, EvaluationKeepsTypes, RunsKeepTypes, WorldKeepsTypes DEF Next, Engine
<1>2. SendInv'
  <2>1. CASE Scan
    BY <2>1 DEF Scan, FireWindow, SuppressWindow, HoldWindow, RecoverWindow, SendInv, TypeOK
  <2>2. CASE Tick
    BY <2>2 DEF Tick, SendInv
  <2>3. CASE WindowSent
    BY <2>3 DEF WindowSent, SendInv, TypeOK
  <2>4. CASE EvaluationEnds \/ CrashRestart
    BY <2>4 DEF EvaluationEnds, CrashRestart, Idle, SendInv
  <2>5. CASE UNCHANGED eval
    BY <2>5 DEF SendInv
  <2> QED
    BY <2>1, <2>2, <2>3, <2>4, <2>5
       DEF Next, Engine, vars, RunSettles, RunChecked, RunSent, WindowCompletes, Edit, Resume
<1> QED
  BY <1>1, <1>2

\* The initial states have their types.
LEMMA InitTyped == Init => TypeOK /\ SendInv
<1> SUFFICES ASSUME Init PROVE TypeOK /\ SendInv
  OBVIOUS
<1>1. Idle \in EvalType /\ Idle.pc = "idle"
  BY ConfigAssumption, EmptySeq DEF Idle, EvalType, Levels
<1>2. duty \in [Runs -> DutyType]
  BY DutiesTyped DEF Init
<1>3. audit \in Seq(AuditRow)
  BY EmptySeq DEF Init
<1>4. now \in 0..Horizon /\ edits \in 0..MaxEdits /\ crashes \in 0..MaxCrashes
  BY ConfigAssumption DEF Init
<1>5. rule \in [present : BOOLEAN, enabled : BOOLEAN, trigger : Triggers, paused : BOOLEAN,
               last : 0..Horizon]
  <2>1. 0 \in 0..Horizon
    BY ConfigAssumption
  <2>2. rule \in [present : {TRUE}, enabled : {TRUE}, trigger : Triggers, paused : {FALSE}, last : {0}]
    BY DEF Init
  <2>3. {TRUE} \subseteq BOOLEAN /\ {FALSE} \subseteq BOOLEAN /\ {0} \subseteq 0..Horizon
    BY <2>1
  <2> QED
    BY <2>2, <2>3, Zenon
<1> QED
  BY <1>1, <1>2, <1>3, <1>4, <1>5
     DEF Init, TypeOK, SendInv, EvalType, DutyType, AuditRow, Kinds

\* Every reachable state is well typed: no window outside the horizon is ever
\* evaluated, recorded or made the baseline.
THEOREM TypeCorrect == Spec => []TypeOK
<1>1. Init => TypeOK /\ SendInv
  BY InitTyped
<1>2. TypeOK /\ SendInv /\ [Next]_vars => TypeOK' /\ SendInv'
  BY StepKeepsTypes
<1> QED
  BY <1>1, <1>2, PTL DEF Spec

-----------------------------------------------------------------------------
(* What a step adds to the audit log. *)

\* One more row at the end of the log.
LEMMA AppendedRow ==
  ASSUME NEW S, NEW s \in Seq(S), NEW x \in S
  PROVE  /\ Append(s, x) \in Seq(S)
         /\ DOMAIN s = 1..Len(s) /\ DOMAIN Append(s, x) = 1..(Len(s) + 1)
         /\ \A i \in DOMAIN s : Append(s, x)[i] = s[i]
         /\ Append(s, x)[Len(s) + 1] = x
<1>1. Append(s, x) \in Seq(S) /\ Len(Append(s, x)) = Len(s) + 1
  BY AppendProperties
<1>2. DOMAIN s = 1..Len(s) /\ Len(s) \in Nat
  BY LenProperties
<1>3. DOMAIN Append(s, x) = 1..(Len(s) + 1)
  BY <1>1, LenProperties
<1>4. \A i \in 1..Len(s) : Append(s, x)[i] = s[i]
  BY AppendProperties
<1>5. Append(s, x)[Len(s) + 1] = x
  BY AppendProperties
<1> QED
  BY <1>1, <1>2, <1>3, <1>4, <1>5

\* Every row of log t is a row of log s or the row x, which comes last.
Extends(t, s, x) ==
  /\ DOMAIN s \subseteq DOMAIN t
  /\ \A i \in DOMAIN s : t[i] = s[i]
  /\ \A i \in DOMAIN t : i \in DOMAIN s \/ (t[i] = x /\ \A j \in DOMAIN t : j <= i)

\* recordEvent appends one row or none.
LEMMA RecordedExtends ==
  ASSUME TypeOK, NEW row \in AuditRow
  PROVE  Extends(Recorded(row), audit, row)
<1>1. audit \in Seq(AuditRow) /\ DOMAIN audit = 1..Len(audit) /\ Len(audit) \in Nat
  BY AuditTyped, LenProperties
<1>2. CASE rule.present
  <2>1. Recorded(row) = Append(audit, row)
    BY <1>2 DEF Recorded
  <2> DEFINE t == Append(audit, row)
  <2>2. /\ DOMAIN t = 1..(Len(audit) + 1)
        /\ \A i \in DOMAIN audit : t[i] = audit[i]
        /\ t[Len(audit) + 1] = row
    BY <1>1, AppendedRow
  <2> HIDE DEF t
  <2>3. Extends(t, audit, row)
    BY <1>1, <2>2 DEF Extends
  <2> QED
    BY <2>1, <2>3 DEF t
<1>3. CASE ~rule.present
  <2>1. Recorded(row) = audit
    BY <1>3 DEF Recorded
  <2>2. Extends(audit, audit, row)
    BY DEF Extends
  <2> QED
    BY <2>1, <2>2
<1> QED
  BY <1>2, <1>3

\* A fire's marker comes first; the row of a pause is no marker.
LEMMA FireRowsGrow ==
  ASSUME TypeOK, NEW w \in 1..Horizon, NEW st \in WindowStates, FireWindow(w, st)
  PROVE  /\ ~rule.present => audit' = audit
         /\ rule.present =>
              /\ DOMAIN audit = 1..Len(audit) /\ Len(audit) \in Nat
              /\ DOMAIN audit' = 1..(Len(audit) + (IF eval.paused THEN 2 ELSE 1))
              /\ \A i \in DOMAIN audit : audit'[i] = audit[i]
              /\ audit'[Len(audit) + 1] = Row("window_fire", w, LevelOf(st), NoRun)
              /\ eval.paused => audit'[Len(audit) + 2] = Row("paused", w, "none", NoRun)
<1> DEFINE fire == Row("window_fire", w, LevelOf(st), NoRun)
           pause == Row("paused", w, "none", NoRun)
<1>1. fire \in AuditRow /\ pause \in AuditRow
  BY RowTyped, ConfigAssumption DEF LevelOf, Levels, Kinds
<1>2. audit' = IF ~rule.present THEN audit
               ELSE audit \o <<fire>> \o (IF eval.paused THEN <<pause>> ELSE <<>>)
  BY DEF FireWindow
<1> HIDE DEF fire, pause
<1>3. audit \in Seq(AuditRow)
  BY AuditTyped
<1>4. audit \o <<fire>> = Append(audit, fire)
  BY <1>1, <1>3, AppendIsConcat
<1>5. Append(audit, fire) \in Seq(AuditRow)
  BY <1>1, <1>3, AppendedRow
<1>6. Append(audit, fire) \o <<pause>> = Append(Append(audit, fire), pause)
  BY <1>1, <1>5, AppendIsConcat
<1>7. Append(audit, fire) \o <<>> = Append(audit, fire)
  BY <1>5, ConcatEmptySeq
<1>8. /\ DOMAIN audit = 1..Len(audit) /\ Len(audit) \in Nat
      /\ DOMAIN Append(audit, fire) = 1..(Len(audit) + 1)
      /\ \A i \in DOMAIN audit : Append(audit, fire)[i] = audit[i]
      /\ Append(audit, fire)[Len(audit) + 1] = fire
      /\ Len(Append(audit, fire)) = Len(audit) + 1
  BY <1>1, <1>3, AppendedRow, LenProperties, AppendProperties
<1>9. CASE ~rule.present
  BY <1>2, <1>9
<1>10. CASE rule.present /\ ~eval.paused
  BY <1>2, <1>4, <1>7, <1>8, <1>10 DEF fire
<1>11. CASE rule.present /\ eval.paused
  <2>1. audit' = Append(Append(audit, fire), pause)
    BY <1>2, <1>4, <1>6, <1>11
  <2>2. /\ DOMAIN audit' = 1..(Len(audit) + 1 + 1)
        /\ \A i \in DOMAIN Append(audit, fire) : audit'[i] = Append(audit, fire)[i]
        /\ audit'[Len(audit) + 1 + 1] = pause
    BY <1>1, <1>5, <1>8, <2>1, AppendedRow
  <2>3. \A i \in DOMAIN audit : i \in DOMAIN Append(audit, fire)
    BY <1>8
  <2>4. audit'[Len(audit) + 1] = fire
    BY <1>8, <2>2
  <2>5. Len(audit) + 1 + 1 = Len(audit) + 2
    BY <1>8
  <2>6. \A i \in DOMAIN audit : audit'[i] = audit[i]
    BY <1>8, <2>2, <2>3
  <2> QED
    BY <1>8, <1>11, <2>2, <2>4, <2>5, <2>6 DEF fire, pause
<1> QED
  BY <1>9, <1>10, <1>11

-----------------------------------------------------------------------------
(* The minimum interval of an on-terminal rule. *)

\* Where an action row comes from: it was there, it is the evaluator's, or a run's
\* dispatch came back.
LEMMA NewActionRow ==
  ASSUME TypeOK, SendInv, [Next]_vars, NEW i \in Rows({"action"})'
  PROVE  \/ i \in Rows({"action"}) /\ audit'[i] = audit[i]
         \/ audit'[i].run = NoRun
         \/ \E r \in Runs : RunSent(r) /\ audit'[i] = Row("action", duty[r].at, "none", r)
<1>1. i \in DOMAIN audit' /\ audit'[i].kind = "action"
  BY DEF Rows
<1>2. CASE UNCHANGED audit
  BY <1>1, <1>2 DEF Rows
<1>3. CASE Scan
  <2>1. PICK st \in WindowStates :
          \/ FireWindow(Head(eval.ends), st) \/ SuppressWindow(Head(eval.ends), st)
          \/ HoldWindow(Head(eval.ends), st) \/ RecoverWindow(Head(eval.ends), st)
    BY <1>3 DEF Scan
  <2> DEFINE w == Head(eval.ends)
  <2>2. w \in 1..Horizon /\ w \in 0..Horizon
    BY <1>3, HeadTyped, ConfigAssumption DEF Scan
  <2> HIDE DEF w
  <2>3. CASE FireWindow(w, st)
    <3>1. CASE rule.present
      <4>1. /\ DOMAIN audit = 1..Len(audit) /\ Len(audit) \in Nat
            /\ DOMAIN audit' = 1..(Len(audit) + (IF eval.paused THEN 2 ELSE 1))
            /\ \A k \in DOMAIN audit : audit'[k] = audit[k]
            /\ audit'[Len(audit) + 1] = Row("window_fire", w, LevelOf(st), NoRun)
            /\ eval.paused => audit'[Len(audit) + 2] = Row("paused", w, "none", NoRun)
        BY <2>2, <2>3, <3>1, FireRowsGrow
      <4>2. i \in DOMAIN audit \/ i = Len(audit) + 1 \/ (eval.paused /\ i = Len(audit) + 2)
        BY <1>1, <4>1
      <4>3. i # Len(audit) + 1 /\ ~(eval.paused /\ i = Len(audit) + 2)
        BY <1>1, <4>1 DEF Row
      <4> QED
        BY <1>1, <4>1, <4>2, <4>3 DEF Rows
    <3>2. CASE ~rule.present
      BY <1>2, <2>2, <2>3, <3>2, FireRowsGrow
    <3> QED
      BY <3>1, <3>2
  <2>4. CASE HoldWindow(w, st) \/ RecoverWindow(w, st)
    <3>1. PICK kind \in {"window_no_data", "window_recover"} :
            audit' = audit \/ audit' = Recorded(Row(kind, w, "none", NoRun))
      BY <2>4 DEF HoldWindow, RecoverWindow
    <3>2. Row(kind, w, "none", NoRun) \in AuditRow
      BY <2>2, RowTyped, ConfigAssumption DEF Kinds, Levels
    <3>3. CASE audit' = Recorded(Row(kind, w, "none", NoRun))
      <4>1. Extends(audit', audit, Row(kind, w, "none", NoRun))
        BY <3>2, <3>3, RecordedExtends
      <4> QED
        BY <1>1, <4>1 DEF Extends, Rows, Row
    <3> QED
      BY <1>2, <3>1, <3>3
  <2>5. CASE SuppressWindow(w, st)
    BY <1>2, <2>5 DEF SuppressWindow
  <2> QED
    BY <2>1, <2>3, <2>4, <2>5 DEF w
<1>4. CASE WindowSent
  <2>1. Head(eval.ends) \in 0..Horizon
    BY <1>4, HeadTyped, ConfigAssumption DEF WindowSent, SendInv
  <2>2. Row("action", Head(eval.ends), "none", NoRun) \in AuditRow
    BY <2>1, RowTyped, ConfigAssumption DEF Kinds, Levels
  <2>3. Extends(audit', audit, Row("action", Head(eval.ends), "none", NoRun))
    BY <1>4, <2>2, RecordedExtends DEF WindowSent
  <2> QED
    BY <1>1, <2>3 DEF Extends, Rows, Row
<1>5. ASSUME NEW r \in Runs, RunChecked(r) \/ RunSent(r)
      PROVE  \/ i \in Rows({"action"}) /\ audit'[i] = audit[i]
             \/ RunSent(r) /\ audit'[i] = Row("action", duty[r].at, "none", r)
  <2>1. duty[r].at \in 0..Horizon
    BY DEF TypeOK
  <2>2. \A kind \in Kinds : Extends(Recorded(Row(kind, duty[r].at, "none", r)), audit,
                                    Row(kind, duty[r].at, "none", r))
    BY <2>1, RowTyped, RecordedExtends DEF Levels
  <2>3. CASE RunSent(r)
    <3>1. Extends(audit', audit, Row("action", duty[r].at, "none", r))
      BY <2>2, <2>3 DEF RunSent, Kinds
    <3> QED
      BY <1>1, <2>3, <3>1 DEF Extends, Rows
  <2>4. CASE RunChecked(r)
    <3>1. PICK kind \in {"paused", "rate_limited"} :
            audit' = audit \/ audit' = Recorded(Row(kind, duty[r].at, "none", r))
      BY <2>4 DEF RunChecked
    <3>2. CASE audit' = Recorded(Row(kind, duty[r].at, "none", r))
      <4>1. Extends(audit', audit, Row(kind, duty[r].at, "none", r))
        BY <2>2, <3>2 DEF Kinds
      <4> QED
        BY <1>1, <4>1 DEF Extends, Rows, Row
    <3> QED
      BY <1>1, <3>1, <3>2 DEF Rows
  <2> QED
    BY <1>5, <2>3, <2>4
<1>6. CASE Edit
  <2>1. audit' = audit \/ audit' = <<>>
    BY <1>6 DEF Edit
  <2> QED
    BY <1>1, <1>2, <2>1
<1> QED
  BY <1>2, <1>3, <1>4, <1>5, <1>6
     DEF Next, Engine, vars, Tick, EvaluationEnds, RunSettles, WindowCompletes, Resume, CrashRestart

\* Of two dispatches under way one overlaps the other; one that does not overlap found no row
\* too close and has met none since.
OverlapInv ==
  /\ \A r, q \in Runs :
       r # q /\ duty[r].pc = "send" /\ duty[q].pc = "send" => r \in overlap \/ q \in overlap
  /\ \A r \in Runs, i \in Rows({"action"}) :
       /\ duty[r].pc = "send" /\ r \notin overlap
       /\ audit[i].run \notin {NoRun, r} /\ audit[i].run \notin overlap
       /\ opt.interval > 0
       => duty[r].at >= audit[i].at + opt.interval

\* How a run comes to have its actions awaited, and that nothing else changes meanwhile.
LEMMA DutyStep ==
  ASSUME TypeOK, [Next]_vars
  PROVE  /\ opt' = opt /\ overlap \subseteq overlap'
         /\ \A q \in Runs : duty'[q].pc = "send" =>
              \/ duty'[q] = duty[q]
              \/ /\ ~RateLimited(duty[q].at) /\ duty'[q].at = duty[q].at /\ audit' = audit
                 /\ \A p \in Runs : p # q => duty'[p] = duty[p]
                 /\ (\E p \in Runs : duty[p].pc = "send") => q \in overlap'
<1> USE DEF TypeOK
<1>1. CASE \E r \in Runs : RunSettles(r) \/ RunSent(r)
  <2>1. PICK r \in Runs : RunSettles(r) \/ RunSent(r)
    BY <1>1
  <2>2. \A p \in Runs : p # r => duty'[p] = duty[p]
    BY <2>1 DEF RunSettles, RunSent
  <2>3. duty'[r].pc # "send"
    BY <2>1 DEF RunSettles, RunSent, Over, NoDuty
  <2> QED
    BY <2>1, <2>2, <2>3 DEF RunSettles, RunSent
<1>2. CASE \E r \in Runs : RunChecked(r)
  <2>1. PICK r \in Runs : RunChecked(r)
    BY <1>2
  <2>2. \A p \in Runs : p # r => duty'[p] = duty[p]
    BY <2>1 DEF RunChecked
  <2>3. opt' = opt /\ overlap \subseteq overlap'
    BY <2>1 DEF RunChecked
  <2>4. CASE duty' = [duty EXCEPT ![r] = Over]
    <3>1. duty'[r].pc # "send"
      BY <2>4 DEF Over, NoDuty
    <3> QED
      BY <2>2, <2>3, <3>1
  <2>5. CASE duty' = [duty EXCEPT ![r].pc = "send"] /\ ~RateLimited(duty[r].at)
    <3>1. audit' = audit /\ duty'[r].at = duty[r].at
      BY <2>1, <2>5 DEF RunChecked, Over, NoDuty
    <3>2. (\E p \in Runs : duty[p].pc = "send") => r \in overlap'
      BY <2>1, <2>5 DEF RunChecked, Over, NoDuty
    <3> QED
      BY <2>2, <2>3, <2>5, <3>1, <3>2
  <2> QED
    BY <2>1, <2>4, <2>5 DEF RunChecked
<1>3. CASE CrashRestart
  BY <1>3 DEF CrashRestart, Over, NoDuty
<1>4. CASE UNCHANGED <<opt, duty, overlap>>
  BY <1>4
<1> QED
  BY <1>1, <1>2, <1>3, <1>4
     DEF Next, Engine, vars, Tick, Scan, WindowSent, EvaluationEnds, WindowCompletes, Edit, Resume

\* Every step keeps track of the dispatches under way together.
LEMMA StepKeepsOverlap ==
  ASSUME TypeOK, SendInv, OverlapInv, [Next]_vars
  PROVE  OverlapInv'
<1>1. ASSUME NEW r \in Runs, NEW q \in Runs, r # q, duty'[r].pc = "send", duty'[q].pc = "send"
      PROVE  r \in overlap' \/ q \in overlap'
  <2>1. CASE duty'[r] = duty[r] /\ duty'[q] = duty[q]
    BY <1>1, <2>1, DutyStep DEF OverlapInv
  <2>2. CASE duty'[r] # duty[r]
    BY <1>1, <2>2, DutyStep
  <2>3. CASE duty'[q] # duty[q]
    BY <1>1, <2>3, DutyStep
  <2> QED
    BY <2>1, <2>2, <2>3
<1>2. ASSUME NEW r \in Runs, NEW i \in Rows({"action"})',
             duty'[r].pc = "send", r \notin overlap', audit'[i].run \notin {NoRun, r},
             audit'[i].run \notin overlap', opt'.interval > 0
      PROVE  duty'[r].at >= audit'[i].at + opt'.interval
  <2>1. opt' = opt /\ overlap \subseteq overlap' /\ opt.interval \in Nat
    BY DutyStep, ConfigAssumption DEF TypeOK
  <2>2. CASE duty'[r] = duty[r]
    <3>1. CASE i \in Rows({"action"}) /\ audit'[i] = audit[i]
      BY <1>2, <2>1, <2>2, <3>1 DEF OverlapInv
    <3>2. ASSUME NEW q \in Runs, RunSent(q), audit'[i] = Row("action", duty[q].at, "none", q)
          PROVE  FALSE
      <4>1. audit'[i].run = q /\ q # r
        BY <1>2, <3>2 DEF Row
      <4>2. duty[q].pc = "send"
        BY <3>2 DEF RunSent
      <4> QED
        BY <1>2, <2>1, <2>2, <4>1, <4>2 DEF OverlapInv
    <3> QED
      BY <1>2, <3>1, <3>2, NewActionRow
  <2>3. CASE duty'[r] # duty[r]
    <3>1. ~RateLimited(duty[r].at) /\ duty'[r].at = duty[r].at /\ audit' = audit
      BY <1>2, <2>3, DutyStep
    <3>2. i \in Rows({"action"}) /\ audit[i].at \in ActedAt /\ audit[i].at \in Nat
      BY <3>1, RowsTyped DEF Rows, ActedAt
    <3>3. duty[r].at \in Nat
      BY ConfigAssumption DEF TypeOK
    <3> QED
      BY <1>2, <2>1, <3>1, <3>2, <3>3 DEF RateLimited
  <2> QED
    BY <2>2, <2>3
<1> QED
  BY <1>1, <1>2 DEF OverlapInv

\* Every step keeps the action rows apart, or their runs were dispatched together.
LEMMA StepKeepsInterval ==
  ASSUME TypeOK, SendInv, OverlapInv, IntervalKept, [Next]_vars
  PROVE  IntervalKept'
<1> SUFFICES ASSUME NEW i \in Rows({"action"})', NEW j \in Rows({"action"})',
                    audit'[i].run # audit'[j].run,
                    audit'[i].run # NoRun, audit'[j].run # NoRun,
                    audit'[i].run \notin overlap', audit'[j].run \notin overlap',
                    audit'[i].at <= audit'[j].at,
                    audit'[j].at < audit'[i].at + opt'.interval
             PROVE  FALSE
  BY DEF IntervalKept
<1>1. opt' = opt /\ overlap \subseteq overlap' /\ opt.interval \in Nat
  BY DutyStep, ConfigAssumption DEF TypeOK
<1> DEFINE Old(k) == k \in Rows({"action"}) /\ audit'[k] = audit[k]
           SentBy(k, r) == RunSent(r) /\ audit'[k] = Row("action", duty[r].at, "none", r)
<1>2. \A k \in {i, j} : Old(k) \/ \E r \in Runs : SentBy(k, r)
  BY NewActionRow
<1>3. \A k \in {i, j} : Old(k) => audit'[k].at \in Nat
  BY RowsTyped DEF Rows
<1>4. ASSUME NEW k \in {i, j}, NEW r \in Runs, SentBy(k, r)
      PROVE  /\ audit'[k].run = r /\ audit'[k].at = duty[r].at /\ duty[r].at \in Nat
             /\ duty[r].pc = "send" /\ overlap' = overlap
             /\ \A p \in Runs : p # r => duty'[p] = duty[p]
             /\ duty'[r].pc = "over"
  BY <1>4, ConfigAssumption DEF RunSent, Row, TypeOK, Over, NoDuty
<1>5. CASE Old(i) /\ Old(j)
  BY <1>1, <1>5 DEF IntervalKept
<1>6. ASSUME NEW k \in {i, j}, NEW r \in Runs, SentBy(k, r), NEW l \in {i, j}, Old(l), k # l
      PROVE  FALSE
  <2>1. audit[l].run # r /\ audit[l].run # NoRun /\ audit[l].run \notin overlap /\ r \notin overlap
    BY <1>4, <1>6
  <2>2. opt.interval > 0 => audit'[k].at >= audit'[l].at + opt.interval
    BY <1>4, <1>6, <2>1 DEF OverlapInv
  <2>3. opt.interval > 0
    BY <1>1, <1>3, <1>4, <1>6
  <2> HIDE DEF Old, SentBy
  <2> QED
    BY <1>1, <1>3, <1>4, <1>6, <2>2, <2>3
<1>7. ASSUME NEW r \in Runs, NEW q \in Runs, SentBy(i, r), SentBy(j, q)
      PROVE  FALSE
  <2>1. r # q /\ duty[q].pc = "send" /\ duty'[q].pc = "over" /\ duty'[q] = duty[q]
    BY <1>4, <1>7
  <2> QED
    BY <2>1
<1> HIDE DEF Old, SentBy
<1> QED
  BY <1>2, <1>5, <1>6, <1>7

\* However runs settle, are paused, limited or cut off by a crash: the actions of two runs
\* closer together than the rule's minimum interval were dispatched at the same time.
THEOREM IntervalHolds == Spec => []IntervalKept
<1> DEFINE Inv == TypeOK /\ SendInv /\ OverlapInv /\ IntervalKept
<1>1. Init => Inv
  <2> SUFFICES ASSUME Init PROVE OverlapInv /\ IntervalKept
    BY InitTyped
  <2>1. Rows({"action"}) = {} /\ \A r \in Runs : duty[r].pc = "none"
    BY DEF Init, Rows, NoDuty
  <2> QED
    BY <2>1 DEF OverlapInv, IntervalKept
<1>2. Inv /\ [Next]_vars => Inv'
  BY StepKeepsTypes, StepKeepsOverlap, StepKeepsInterval
<1>3. Inv => IntervalKept
  OBVIOUS
<1> QED
  BY <1>1, <1>2, <1>3, PTL DEF Spec

-----------------------------------------------------------------------------
(* The cooldown: the audit log as the only memory between two evaluations. *)

RecoverRows == Rows({"window_recover"})
Markers == Rows({"window_fire", "window_recover"})

\* The markers are in the order of their windows, one at most per window, and there is a
\* last one.
MarkersOrdered ==
  /\ \A i, j \in Markers : i < j => audit[i].at < audit[j].at
  /\ Markers # {} => \E m \in Markers : \A j \in Markers : j <= m
  /\ FireRows # {} => \E m \in FireRows : \A j \in FireRows : j <= m

\* State s says of the last fire and recovery what the log says.
Mirrors(s) ==
  /\ s.armed => \A i \in FireRows : \E m \in RecoverRows : audit[m].at > audit[i].at
  /\ \A i \in FireRows : audit[i].at <= s.fired
  /\ s.level = "warn" =>
       \A i \in FireRows : (\A k \in FireRows : k <= i) => audit[i].level = "warn"

\* The windows still to be evaluated lie ahead of every marker.
Ahead ==
  /\ \A k, l \in DOMAIN eval.ends : k < l => eval.ends[k] < eval.ends[l]
  /\ \A k \in DOMAIN eval.ends : eval.ends[k] <= eval.upto
  /\ \A i \in Markers :
       /\ audit[i].at <= eval.upto
       /\ \A k \in DOMAIN eval.ends :
            audit[i].at < eval.ends[k] \/ (eval.pc = "send" /\ k = 1 /\ audit[i].at = eval.ends[1])

MemoryInv ==
  ~cut => /\ MarkersOrdered
          /\ ~rule.present => audit = <<>>
          /\ eval.pc = "idle" => \A i \in Markers : audit[i].at <= rule.last
          /\ eval.pc # "idle" => Ahead /\ Mirrors(eval)

\* What getWindowState reads back from an ordered log mirrors it.
LEMMA SeedMirrors ==
  ASSUME TypeOK, MarkersOrdered, NEW seed \in getWindowState
  PROVE  Mirrors(seed)
<1> DEFINE fires == Latest(FireRows)
           marks == Latest(Markers)
<1>1. PICK m \in (IF marks = {} THEN {0} ELSE marks), f \in (IF fires = {} THEN {0} ELSE fires) :
        seed = [armed |-> marks = {} \/ audit[m].kind = "window_recover",
                fired |-> IF fires = {} THEN 0 ELSE audit[f].at,
                level |-> IF fires = {} THEN "none" ELSE audit[f].level]
  BY DEF getWindowState, FireRows, Markers
<1>2. /\ FireRows \subseteq Markers /\ Markers \subseteq DOMAIN audit
      /\ DOMAIN audit = 1..Len(audit) /\ Len(audit) \in Nat
      /\ \A i \in Markers : audit[i].at \in Nat
      /\ \A i \in Markers : i \in FireRows \/ i \in RecoverRows
      /\ \A i \in FireRows : audit[i].kind = "window_fire"
      /\ \A i \in Markers : audit[i].kind = "window_recover" => i \in RecoverRows
  BY RowsTyped, AuditTyped, LenProperties DEF FireRows, RecoverRows, Markers, Rows
<1>3. Markers # {} => marks # {}
  <2> SUFFICES ASSUME Markers # {} PROVE marks # {}
    OBVIOUS
  <2>1. PICK x \in Markers : \A j \in Markers : j <= x
    BY DEF MarkersOrdered
  <2>2. \A j \in Markers : j = x \/ j < x
    BY <1>2, <2>1
  <2>3. \A j \in Markers : audit[j].at <= audit[x].at
    BY <1>2, <2>2 DEF MarkersOrdered
  <2> QED
    BY <2>3 DEF Latest
<1>4. FireRows # {} => fires # {}
  <2> SUFFICES ASSUME FireRows # {} PROVE fires # {}
    OBVIOUS
  <2>1. PICK x \in FireRows : \A j \in FireRows : j <= x
    BY DEF MarkersOrdered
  <2>2. \A j \in FireRows : j = x \/ j < x
    BY <1>2, <2>1
  <2>3. \A j \in FireRows : audit[j].at <= audit[x].at
    BY <1>2, <2>2 DEF MarkersOrdered
  <2> QED
    BY <2>3 DEF Latest
<1>5. marks # {} => m \in Markers /\ \A j \in Markers : audit[j].at <= audit[m].at
  BY <1>1 DEF Latest
<1>6. fires # {} => f \in FireRows /\ \A j \in FireRows : audit[j].at <= audit[f].at
  BY <1>1 DEF Latest
<1> HIDE DEF fires, marks
<1>7. ASSUME seed.armed, NEW i \in FireRows
      PROVE  \E n \in RecoverRows : audit[n].at > audit[i].at
  <2>1. marks # {}
    BY <1>2, <1>3
  <2>2. m \in Markers /\ audit[m].kind = "window_recover"
    BY <1>1, <1>5, <1>7, <2>1
  <2>3. m \in RecoverRows /\ m # i
    BY <1>2, <2>2
  <2>4. audit[i].at <= audit[m].at
    BY <1>2, <1>5, <2>1
  <2>5. m < i \/ i < m
    BY <1>2, <2>2, <2>3
  <2>6. audit[i].at < audit[m].at
    BY <1>2, <2>2, <2>4, <2>5 DEF MarkersOrdered
  <2> QED
    BY <2>3, <2>6
<1>8. ASSUME NEW i \in FireRows
      PROVE  audit[i].at <= seed.fired
  BY <1>1, <1>4, <1>6
<1>9. ASSUME seed.level = "warn", NEW i \in FireRows, \A k \in FireRows : k <= i
      PROVE  audit[i].level = "warn"
  <2>1. fires # {} /\ f \in FireRows
    BY <1>4, <1>6
  <2>2. f <= i /\ audit[i].at <= audit[f].at
    BY <1>6, <1>9, <2>1
  <2>3. f = i
    BY <1>2, <2>1, <2>2 DEF MarkersOrdered
  <2> QED
    BY <1>1, <1>9, <2>1, <2>3
<1> QED
  BY <1>7, <1>8, <1>9 DEF Mirrors

\* CooldownHolds of a log that no crash has torn.
Spaced ==
  \A i, j \in FireRows :
    (i < j /\ \A k \in FireRows : k <= i \/ k >= j)
    => /\ audit[i].at < audit[j].at
       /\ \/ RecoversBetween(audit[i].at, audit[j].at)
          \/ audit[j].at >= audit[i].at + opt.cooldown
          \/ audit[i].level = "warn" /\ audit[j].level = "alert"

\* A step that adds no marker ...
SameMarkers ==
  /\ FireRows' = FireRows /\ RecoverRows' = RecoverRows /\ Markers' = Markers
  /\ \A i \in Markers : audit'[i] = audit[i]

\* ... and one that adds a marker of window w at the end.
AddsMarker(n, kind, w, level) ==
  /\ n \in Nat /\ \A i \in Markers : i < n
  /\ FireRows' = IF kind = "window_fire" THEN FireRows \cup {n} ELSE FireRows
  /\ RecoverRows' = IF kind = "window_recover" THEN RecoverRows \cup {n} ELSE RecoverRows
  /\ Markers' = Markers \cup {n}
  /\ \A i \in Markers : audit'[i] = audit[i]
  /\ audit'[n].at = w /\ audit'[n].level = level

\* Markers are rows of the log, with the times of windows.
LEMMA MarkersTyped ==
  ASSUME TypeOK
  PROVE  /\ FireRows \subseteq Markers /\ RecoverRows \subseteq Markers
         /\ \A i \in Markers : i \in Nat /\ audit[i].at \in Nat /\ i \in DOMAIN audit
BY RowsTyped, AuditTyped, LenProperties DEF FireRows, RecoverRows, Markers, Rows

\* The same of the next state.
LEMMA MarkersTypedPrime ==
  ASSUME TypeOK'
  PROVE  \A i \in Markers' : audit'[i].at \in Nat
<1>1. audit' \in Seq(AuditRow)
  BY DEF TypeOK, AuditRow, Kinds
<1>2. \A i \in DOMAIN audit' : audit'[i] \in AuditRow
  BY <1>1, ElementOfSeq, LenProperties
<1>3. Markers' \subseteq DOMAIN audit'
  BY DEF Markers, Rows
<1> QED
  BY <1>2, <1>3, ConfigAssumption DEF AuditRow

\* A row of another kind adds no marker.
LEMMA OtherRow ==
  ASSUME NEW x, Extends(audit', audit, x), x.kind \notin {"window_fire", "window_recover"}
  PROVE  SameMarkers
<1>1. \A kinds : kinds \subseteq {"window_fire", "window_recover"} => Rows(kinds)' = Rows(kinds)
  BY DEF Extends, Rows
<1> QED
  BY <1>1 DEF SameMarkers, FireRows, RecoverRows, Markers, Rows, Extends

\* An unchanged log has the same markers.
LEMMA SameLog ==
  ASSUME audit' = audit
  PROVE  SameMarkers
BY DEF SameMarkers, FireRows, RecoverRows, Markers, Rows

\* An unmoved log keeps what is said of it.
LEMMA SameMarkersKeep ==
  ASSUME TypeOK, SameMarkers, opt' = opt
  PROVE  /\ MarkersOrdered => MarkersOrdered'
         /\ Spaced => Spaced'
         /\ \A s : Mirrors(s) => Mirrors(s)'
<1>1. FireRows \subseteq Markers /\ RecoverRows \subseteq Markers
  BY MarkersTyped
<1>2. MarkersOrdered => MarkersOrdered'
  BY <1>1 DEF SameMarkers, MarkersOrdered
<1>3. \A s : Mirrors(s) => Mirrors(s)'
  BY <1>1 DEF SameMarkers, Mirrors
<1>4. \A v, u : RecoversBetween(v, u) => RecoversBetween(v, u)'
  BY <1>1 DEF SameMarkers, RecoversBetween, RecoverRows
<1>5. Spaced => Spaced'
  BY <1>1, <1>4 DEF SameMarkers, Spaced
<1> QED
  BY <1>2, <1>3, <1>5

\* An empty log has nothing to keep.
LEMMA EmptyLog ==
  ASSUME audit' = <<>>
  PROVE  /\ MarkersOrdered' /\ Spaced' /\ \A s : Mirrors(s)'
         /\ Markers' = {}
<1>1. FireRows' = {} /\ Markers' = {}
  BY DEF FireRows, Markers, Rows
<1> QED
  BY <1>1 DEF MarkersOrdered, Spaced, Mirrors

\* A marker ahead of all others keeps their order.
LEMMA NewMarkerOrdered ==
  ASSUME TypeOK, NEW n, NEW kind, NEW w \in Nat, NEW level, AddsMarker(n, kind, w, level),
         \A i \in Markers : audit[i].at < w, MarkersOrdered
  PROVE  MarkersOrdered'
<1>1. \A i, j \in Markers' : i < j => audit'[i].at < audit'[j].at
  BY MarkersTyped DEF AddsMarker, MarkersOrdered
<1>2. \E m \in Markers' : \A j \in Markers' : j <= m
  BY MarkersTyped DEF AddsMarker
<1>3. FireRows' # {} => \E m \in FireRows' : \A j \in FireRows' : j <= m
  BY MarkersTyped DEF AddsMarker, MarkersOrdered
<1> QED
  BY <1>1, <1>2, <1>3 DEF MarkersOrdered

\* A fire is spaced from the last one: the rule was armed, the cooldown is over, or it escalates.
LEMMA FireSpaced ==
  ASSUME TypeOK, NEW n, NEW w \in Nat, NEW st, AddsMarker(n, "window_fire", w, LevelOf(st)),
         \A i \in Markers : audit[i].at < w, Mirrors(eval), Spaced, opt' = opt,
         eval.armed \/ CooldownElapsed(w) \/ Escalated(st)
  PROVE  Spaced'
<1> SUFFICES ASSUME NEW i \in FireRows', NEW j \in FireRows', i < j,
                    \A k \in FireRows' : k <= i \/ k >= j
             PROVE  /\ audit'[i].at < audit'[j].at
                    /\ \/ RecoversBetween(audit[i].at, audit[j].at)'
                       \/ audit'[j].at >= audit'[i].at + opt'.cooldown
                       \/ audit'[i].level = "warn" /\ audit'[j].level = "alert"
  BY DEF Spaced
<1>1. /\ n \in Nat /\ FireRows' = FireRows \cup {n} /\ RecoverRows' = RecoverRows
      /\ \A k \in Markers : k < n /\ k \in Nat /\ audit'[k] = audit[k] /\ audit[k].at \in Nat
      /\ FireRows \subseteq Markers /\ RecoverRows \subseteq Markers
      /\ audit'[n].at = w /\ audit'[n].level = LevelOf(st)
  BY MarkersTyped DEF AddsMarker
<1>2. \A v, u : RecoversBetween(v, u) => RecoversBetween(v, u)'
  BY <1>1 DEF RecoversBetween, RecoverRows
<1>3. i \in FireRows
  BY <1>1
<1>4. CASE j \in FireRows
  BY <1>1, <1>2, <1>3, <1>4 DEF Spaced
<1>5. CASE j = n
  <2>1. \A k \in FireRows : k <= i
    BY <1>1, <1>3, <1>5
  <2>2. audit[i].at < w /\ audit'[i] = audit[i] /\ audit'[j].at = w
    BY <1>1, <1>3, <1>5
  <2>3. CASE eval.armed
    <3>1. PICK m \in RecoverRows : audit[m].at > audit[i].at
      BY <1>3, <2>3 DEF Mirrors
    <3>2. m \in Rows({"window_recover"}) /\ audit[m].at < w
      BY <1>1, <3>1 DEF RecoverRows
    <3>3. RecoversBetween(audit[i].at, w)'
      BY <1>1, <1>3, <3>1, <3>2 DEF RecoversBetween, RecoverRows
    <3> QED
      BY <2>2, <3>3 DEF RecoversBetween
  <2>4. CASE CooldownElapsed(w)
    <3>1. audit[i].at <= eval.fired /\ w >= eval.fired + opt.cooldown
      BY <1>3, <2>4 DEF Mirrors, CooldownElapsed
    <3>2. eval.fired \in Nat /\ opt.cooldown \in Nat /\ audit[i].at \in Nat
      BY <1>1, <1>3, ConfigAssumption DEF TypeOK
    <3> QED
      BY <2>2, <3>1, <3>2
  <2>5. CASE Escalated(st)
    BY <1>1, <1>3, <1>5, <2>1, <2>2, <2>5 DEF Mirrors, Escalated
  <2> QED
    BY <2>3, <2>4, <2>5
<1> QED
  BY <1>1, <1>4, <1>5

\* The marker of a fire is the new one, that of a recovery too.
LEMMA FireAddsMarker ==
  ASSUME TypeOK, rule.present, NEW w \in 1..Horizon, NEW st \in WindowStates, FireWindow(w, st)
  PROVE  AddsMarker(Len(audit) + 1, "window_fire", w, LevelOf(st))
<1>1. /\ DOMAIN audit = 1..Len(audit) /\ Len(audit) \in Nat
      /\ DOMAIN audit' = 1..(Len(audit) + (IF eval.paused THEN 2 ELSE 1))
      /\ \A i \in DOMAIN audit : audit'[i] = audit[i]
      /\ audit'[Len(audit) + 1] = Row("window_fire", w, LevelOf(st), NoRun)
      /\ eval.paused => audit'[Len(audit) + 2] = Row("paused", w, "none", NoRun)
  BY FireRowsGrow
<1> DEFINE n == Len(audit) + 1
<1>2. audit'[n].kind = "window_fire" /\ audit'[n].at = w /\ audit'[n].level = LevelOf(st)
  BY <1>1 DEF Row
<1>3. \A i \in DOMAIN audit' : i \in DOMAIN audit \/ i = n \/ audit'[i].kind = "paused"
  BY <1>1 DEF Row
<1>4. n \in DOMAIN audit' /\ DOMAIN audit \subseteq DOMAIN audit' /\ n \in Nat
  BY <1>1
<1>5. \A i \in DOMAIN audit : i < n
  BY <1>1
<1> HIDE DEF n
<1>6. /\ FireRows' = FireRows \cup {n} /\ RecoverRows' = RecoverRows
      /\ Markers' = Markers \cup {n}
  BY <1>1, <1>2, <1>3, <1>4 DEF FireRows, RecoverRows, Markers, Rows
<1>7. \A i \in Markers : i < n /\ audit'[i] = audit[i]
  BY <1>1, <1>5 DEF Markers, Rows
<1>8. AddsMarker(n, "window_fire", w, LevelOf(st))
  BY <1>2, <1>4, <1>6, <1>7 DEF AddsMarker
<1> QED
  BY <1>8 DEF n

\* A recovery's row is the new last marker.
LEMMA RecoverAddsMarker ==
  ASSUME TypeOK, rule.present, NEW w \in 0..Horizon,
         audit' = Recorded(Row("window_recover", w, "none", NoRun))
  PROVE  AddsMarker(Len(audit) + 1, "window_recover", w, "none")
<1> DEFINE x == Row("window_recover", w, "none", NoRun)
           n == Len(audit) + 1
<1>1. x \in AuditRow /\ audit \in Seq(AuditRow)
  BY RowTyped, AuditTyped, ConfigAssumption DEF Kinds, Levels
<1>2. audit' = Append(audit, x)
  BY DEF Recorded
<1>3. /\ DOMAIN audit = 1..Len(audit) /\ DOMAIN audit' = 1..n /\ Len(audit) \in Nat
      /\ \A i \in DOMAIN audit : audit'[i] = audit[i]
      /\ audit'[n] = x
  BY <1>1, <1>2, AppendedRow, LenProperties
<1>4. /\ audit'[n].kind = "window_recover" /\ audit'[n].at = w /\ audit'[n].level = "none"
      /\ n \in DOMAIN audit' /\ DOMAIN audit \subseteq DOMAIN audit' /\ n \in Nat
      /\ \A i \in DOMAIN audit' : i \in DOMAIN audit \/ i = n
      /\ \A i \in DOMAIN audit : i < n
  BY <1>3 DEF Row
<1> HIDE DEF n, x
<1>5. /\ FireRows' = FireRows /\ RecoverRows' = RecoverRows \cup {n}
      /\ Markers' = Markers \cup {n}
  BY <1>3, <1>4 DEF FireRows, RecoverRows, Markers, Rows
<1>6. \A i \in Markers : i < n /\ audit'[i] = audit[i]
  BY <1>3, <1>4 DEF Markers, Rows
<1>7. AddsMarker(n, "window_recover", w, "none")
  BY <1>4, <1>5, <1>6 DEF AddsMarker
<1> QED
  BY <1>7 DEF n

\* The windows that a step has done with are gone from the head.
LEMMA TailAhead ==
  ASSUME TypeOK, TypeOK', eval.pc # "idle", eval.ends # <<>>, Ahead,
         eval'.ends = Tail(eval.ends), eval'.upto = eval.upto,
         \A i \in Markers' : audit'[i].at <= eval.ends[1]
  PROVE  Ahead'
<1> DEFINE rest == Tail(eval.ends)
<1>1. /\ DOMAIN eval.ends = 1..Len(eval.ends) /\ Len(eval.ends) \in Nat \ {0}
      /\ DOMAIN rest = 1..(Len(eval.ends) - 1)
      /\ \A k \in DOMAIN rest : rest[k] = eval.ends[k + 1]
  BY HeadTyped
<1>2. \A k \in DOMAIN rest : k \in Nat /\ k + 1 \in DOMAIN eval.ends /\ 1 < k + 1 /\ 1 \in DOMAIN eval.ends
  BY <1>1
<1>3. \A k \in DOMAIN eval.ends : eval.ends[k] \in Nat
  BY EndsElements
<1>4. 1 \in DOMAIN eval.ends /\ eval.ends[1] <= eval.upto /\ eval.ends[1] \in Nat
  BY <1>1, <1>3 DEF Ahead
<1>5. eval.upto \in Nat
  BY ConfigAssumption DEF TypeOK
<1>6. \A k, l \in DOMAIN rest : k < l => rest[k] < rest[l]
  BY <1>1, <1>2 DEF Ahead
<1>7. \A k \in DOMAIN rest : rest[k] <= eval.upto /\ eval.ends[1] < rest[k] /\ rest[k] \in Nat
  BY <1>1, <1>2, <1>3 DEF Ahead
<1>8. \A i \in Markers' : audit'[i].at \in Nat
  BY MarkersTypedPrime
<1> HIDE DEF rest
<1>9. \A i \in Markers' : audit'[i].at <= eval.upto /\ \A k \in DOMAIN rest : audit'[i].at < rest[k]
  BY <1>4, <1>5, <1>7, <1>8
<1>10. eval'.ends = rest
  BY DEF rest
<1> QED
  BY <1>6, <1>7, <1>9, <1>10 DEF Ahead

\* An evaluation under way agrees with the log, and the log is spaced.
Agrees == MarkersOrdered /\ Spaced /\ Ahead /\ Mirrors(eval)

\* A window that fires: its marker is now the last one.
LEMMA FireKeepsMemory ==
  ASSUME TypeOK, TypeOK', Agrees, eval.pc = "scan", eval.ends # <<>>, opt' = opt,
         ~rule.present => audit = <<>>,
         NEW st \in WindowStates, FireWindow(Head(eval.ends), st)
  PROVE  Agrees' /\ (~rule.present => audit' = <<>>)
<1> DEFINE w == Head(eval.ends)
<1>1. /\ w \in 1..Horizon /\ w \in Nat /\ w = eval.ends[1] /\ 1 \in DOMAIN eval.ends
      /\ DOMAIN eval.ends = 1..Len(eval.ends)
  BY HeadTyped, ConfigAssumption
<1>2. \A i \in Markers : audit[i].at < w
  BY <1>1 DEF Agrees, Ahead
<1>3. eval'.armed = FALSE /\ eval'.fired = w /\ eval'.level = LevelOf(st) /\ eval'.upto = eval.upto
  BY DEF FireWindow, TypeOK
<1>4. /\ eval.paused => eval'.ends = Tail(eval.ends)
      /\ ~eval.paused => eval'.ends = eval.ends /\ eval'.pc = "send"
  BY DEF FireWindow, TypeOK
<1>5. FireWindow(w, st)
  OBVIOUS
<1> HIDE DEF w
<1>6. CASE rule.present
  <2> DEFINE n == Len(audit) + 1
  <2>1. AddsMarker(n, "window_fire", w, LevelOf(st))
    BY <1>1, <1>5, <1>6, FireAddsMarker
  <2> HIDE DEF n
  <2>2. MarkersOrdered'
    BY <1>1, <1>2, <2>1, NewMarkerOrdered DEF Agrees
  <2>3. Spaced'
    BY <1>1, <1>2, <1>5, <2>1, FireSpaced DEF Agrees, FireWindow
  <2>4. \A i \in Markers' : i \in Nat /\ audit'[i].at <= w /\ audit'[i].at \in Nat
                            /\ (i \in Markers => audit'[i].at < w) /\ (i \notin Markers => i = n)
    BY <1>1, <1>2, <2>1, MarkersTyped DEF AddsMarker
  <2>5. Mirrors(eval)'
    <3>1. n \in FireRows' /\ FireRows' \subseteq Markers' /\ n \in Nat /\ audit'[n].level = LevelOf(st)
          /\ \A i \in Markers : i < n
      BY <2>1, MarkersTyped DEF AddsMarker
    <3>2. \A i \in FireRows' : audit'[i].at <= eval'.fired
      BY <1>3, <2>4, <3>1
    <3>3. \A i \in FireRows' : (\A k \in FireRows' : k <= i) => i = n
      BY <2>4, <3>1
    <3> QED
      BY <1>3, <3>1, <3>2, <3>3 DEF Mirrors
  <2>6. Ahead'
    <3>1. CASE eval.paused
      BY <1>1, <1>3, <1>4, <2>4, <3>1, TailAhead DEF Agrees
    <3>2. CASE ~eval.paused
      <4>1. eval'.ends = eval.ends /\ eval'.pc = "send" /\ eval'.upto = eval.upto
        BY <1>3, <1>4, <3>2
      <4>2. w <= eval.upto /\ eval.upto \in Nat
        <5>1. w <= eval.upto
          BY <1>1 DEF Agrees, Ahead
        <5>2. eval.upto \in 0..Horizon
          BY DEF TypeOK
        <5> QED
          BY <5>1, <5>2, ConfigAssumption
      <4>3. \A k \in DOMAIN eval.ends : eval.ends[k] \in Nat /\ (k = 1 \/ w < eval.ends[k])
        BY <1>1, EndsElements DEF Agrees, Ahead
      <4>4. \A i \in Markers' : audit'[i].at <= eval.upto
        BY <1>1, <2>4, <4>2
      <4>5. \A i \in Markers' : i \in Markers \/ audit'[i].at = w
        BY <2>1 DEF AddsMarker
      <4>6. \A i \in Markers' : \A k \in DOMAIN eval.ends :
              audit'[i].at < eval.ends[k] \/ (k = 1 /\ audit'[i].at = eval.ends[1])
        BY <1>1, <2>4, <4>3, <4>5
      <4>7. /\ \A k, l \in DOMAIN eval.ends : k < l => eval.ends[k] < eval.ends[l]
            /\ \A k \in DOMAIN eval.ends : eval.ends[k] <= eval.upto
        BY DEF Agrees, Ahead
      <4> QED
        BY <4>1, <4>4, <4>6, <4>7 DEF Ahead
    <3> QED
      BY <3>1, <3>2
  <2> QED
    BY <1>6, <2>2, <2>3, <2>5, <2>6 DEF Agrees
<1>7. CASE ~rule.present
  <2>1. audit' = <<>>
    BY <1>5, <1>7 DEF FireWindow
  <2>2. MarkersOrdered' /\ Spaced' /\ Mirrors(eval)' /\ Markers' = {}
    BY <2>1, EmptyLog DEF FireRows, RecoverRows, Mirrors, Rows
  <2>3. Ahead'
    <3>1. CASE eval.paused
      BY <1>1, <1>3, <1>4, <2>2, <3>1, TailAhead DEF Agrees
    <3>2. CASE ~eval.paused
      BY <1>3, <1>4, <2>2, <3>2 DEF Agrees, Ahead
    <3> QED
      BY <3>1, <3>2
  <2> QED
    BY <2>1, <2>2, <2>3 DEF Agrees
<1> QED
  BY <1>6, <1>7

\* A window that writes no marker leaves the agreement as it is.
LEMMA QuietKeepsMemory ==
  ASSUME TypeOK, TypeOK', Agrees, eval.pc # "idle", eval.ends # <<>>, opt' = opt,
         ~rule.present => audit = <<>>,
         SameMarkers,
         eval'.ends = Tail(eval.ends), eval'.upto = eval.upto, eval'.armed = eval.armed,
         eval'.fired = eval.fired, eval'.level = eval.level
  PROVE  Agrees'
<1>1. MarkersOrdered' /\ Spaced'
  BY SameMarkersKeep DEF Agrees
<1>2. FireRows \subseteq Markers /\ RecoverRows \subseteq Markers
  BY MarkersTyped
<1>3. Mirrors(eval)'
  BY <1>2 DEF Agrees, Mirrors, SameMarkers
<1>4. 1 \in DOMAIN eval.ends
  BY HeadTyped
<1>5. \A i \in Markers' : audit'[i].at <= eval.ends[1]
  <2> SUFFICES ASSUME NEW i \in Markers PROVE audit[i].at <= eval.ends[1]
    BY DEF SameMarkers
  <2>1. audit[i].at < eval.ends[1] \/ audit[i].at = eval.ends[1]
    BY <1>4 DEF Agrees, Ahead
  <2>2. audit[i].at \in Nat /\ eval.ends[1] \in Nat
    BY <1>4, MarkersTyped, EndsElements
  <2> QED
    BY <2>1, <2>2
<1>6. Ahead'
  BY <1>5, TailAhead DEF Agrees
<1> QED
  BY <1>1, <1>3, <1>6 DEF Agrees

\* What Recorded writes for a rule that is there, and not for one that is gone.
LEMMA OtherRecorded ==
  ASSUME TypeOK, NEW row \in AuditRow, audit' = Recorded(row),
         row.kind \notin {"window_fire", "window_recover"}
  PROVE  SameMarkers
BY RecordedExtends, OtherRow, SameLog DEF Recorded

\* A recovery's marker arms the rule.
LEMMA RecoverKeepsMemory ==
  ASSUME TypeOK, TypeOK', Agrees, eval.pc = "scan", eval.ends # <<>>, opt' = opt,
         ~rule.present => audit = <<>>,
         NEW st \in WindowStates, RecoverWindow(Head(eval.ends), st)
  PROVE  Agrees' /\ (~rule.present => audit' = <<>>)
<1> DEFINE w == Head(eval.ends)
<1>1. /\ w \in 1..Horizon /\ w \in Nat /\ w \in 0..Horizon /\ w = eval.ends[1]
      /\ 1 \in DOMAIN eval.ends
  BY HeadTyped, ConfigAssumption
<1>2. \A i \in Markers : audit[i].at < w
  BY <1>1 DEF Agrees, Ahead
<1>3. /\ eval'.armed = TRUE /\ eval'.level = "none" /\ eval'.fired = eval.fired
      /\ eval'.upto = eval.upto /\ eval'.ends = Tail(eval.ends)
  BY DEF RecoverWindow, TypeOK
<1>4. audit' = IF eval.armed THEN audit ELSE Recorded(Row("window_recover", w, "none", NoRun))
  BY DEF RecoverWindow
<1> HIDE DEF w
<1>5. CASE eval.armed
  <2>1. SameMarkers
    BY <1>4, <1>5, SameLog
  <2>2. MarkersOrdered' /\ Spaced'
    BY <2>1, SameMarkersKeep DEF Agrees
  <2>3. FireRows \subseteq Markers /\ RecoverRows \subseteq Markers
    BY MarkersTyped
  <2>4. Mirrors(eval)'
    BY <1>3, <1>5, <2>1, <2>3 DEF Agrees, Mirrors, SameMarkers
  <2>5. \A i \in Markers' : audit'[i].at <= eval.ends[1]
    BY <1>1, <1>2, <2>1, MarkersTyped DEF SameMarkers
  <2>6. Ahead'
    BY <1>3, <2>5, TailAhead DEF Agrees
  <2> QED
    BY <1>4, <1>5, <2>2, <2>4, <2>6 DEF Agrees
<1>6. CASE ~eval.armed /\ rule.present
  <2> DEFINE n == Len(audit) + 1
  <2>1. AddsMarker(n, "window_recover", w, "none")
    BY <1>1, <1>4, <1>6, RecoverAddsMarker
  <2> HIDE DEF n
  <2>2. MarkersOrdered'
    BY <1>1, <1>2, <2>1, NewMarkerOrdered DEF Agrees
  <2>3. FireRows' = FireRows /\ RecoverRows \subseteq RecoverRows' /\ n \in RecoverRows'
        /\ audit'[n].at = w /\ FireRows \subseteq Markers /\ RecoverRows \subseteq Markers
        /\ \A i \in Markers : audit'[i] = audit[i]
    BY <2>1, MarkersTyped DEF AddsMarker
  <2>4. \A v, u : RecoversBetween(v, u) => RecoversBetween(v, u)'
    BY <2>3 DEF RecoversBetween, RecoverRows
  <2>5. Spaced'
    BY <2>3, <2>4 DEF Agrees, Spaced
  <2>6. Mirrors(eval)'
    <3>1. \A i \in FireRows' : audit'[n].at > audit'[i].at
      BY <1>1, <1>2, <2>3, MarkersTyped
    <3>2. \A i \in FireRows' : audit'[i].at <= eval'.fired
      BY <1>3, <2>3 DEF Agrees, Mirrors
    <3> QED
      BY <1>3, <2>3, <3>1, <3>2 DEF Mirrors
  <2>7. \A i \in Markers' : audit'[i].at <= eval.ends[1]
    BY <1>1, <1>2, <2>1, MarkersTyped DEF AddsMarker
  <2>8. Ahead'
    BY <1>3, <2>7, TailAhead DEF Agrees
  <2> QED
    BY <1>6, <2>2, <2>5, <2>6, <2>8 DEF Agrees
<1>7. CASE ~eval.armed /\ ~rule.present
  <2>1. audit' = <<>>
    BY <1>4, <1>7 DEF Recorded
  <2>2. MarkersOrdered' /\ Spaced' /\ Mirrors(eval)' /\ Markers' = {}
    BY <2>1, EmptyLog DEF FireRows, RecoverRows, Mirrors, Rows
  <2>3. Ahead'
    BY <1>3, <2>2, TailAhead DEF Agrees
  <2> QED
    BY <2>1, <2>2, <2>3 DEF Agrees
<1> QED
  BY <1>5, <1>6, <1>7

\* Everything the next evaluation must find in the log.
Remembered == TypeOK /\ SendInv /\ MemoryInv /\ (~cut => Spaced)

\* Evaluating a window: a fire, a suppressed fire, a held window or a recovery.
LEMMA ScanRemembers ==
  ASSUME Remembered, TypeOK', Scan
  PROVE  MemoryInv' /\ (~cut' => Spaced')
<1> SUFFICES ASSUME ~cut PROVE MemoryInv' /\ Spaced'
  BY DEF Scan, MemoryInv
<1>1. /\ eval.pc = "scan" /\ eval.ends # <<>> /\ opt' = opt /\ rule' = rule
      /\ TypeOK /\ (~rule.present => audit = <<>>) /\ Agrees
  BY DEF Scan, Remembered, MemoryInv, Agrees
<1>2. PICK st \in WindowStates :
        \/ FireWindow(Head(eval.ends), st) \/ SuppressWindow(Head(eval.ends), st)
        \/ HoldWindow(Head(eval.ends), st) \/ RecoverWindow(Head(eval.ends), st)
  BY DEF Scan
<1>3. eval'.pc # "idle"
  BY <1>1, <1>2 DEF FireWindow, SuppressWindow, HoldWindow, RecoverWindow, TypeOK
<1>4. Agrees' /\ (~rule.present => audit' = <<>>)
  <2>1. CASE FireWindow(Head(eval.ends), st)
    BY <1>1, <2>1, FireKeepsMemory
  <2>2. CASE RecoverWindow(Head(eval.ends), st)
    BY <1>1, <2>2, RecoverKeepsMemory
  <2>3. CASE SuppressWindow(Head(eval.ends), st)
    <3>1. /\ audit' = audit /\ eval'.ends = Tail(eval.ends) /\ eval'.upto = eval.upto
          /\ eval'.armed = eval.armed /\ eval'.fired = eval.fired /\ eval'.level = eval.level
      BY <2>3 DEF SuppressWindow, TypeOK, Remembered
    <3> QED
      BY <1>1, <3>1, SameLog, QuietKeepsMemory
  <2>4. CASE HoldWindow(Head(eval.ends), st)
    <3> DEFINE row == Row("window_no_data", Head(eval.ends), "none", NoRun)
    <3>1. /\ audit' = IF eval.armed THEN audit ELSE Recorded(row)
          /\ eval'.ends = Tail(eval.ends) /\ eval'.upto = eval.upto
          /\ eval'.armed = eval.armed /\ eval'.fired = eval.fired /\ eval'.level = eval.level
      BY <2>4 DEF HoldWindow, TypeOK, Remembered
    <3>2. row \in AuditRow /\ row.kind = "window_no_data"
      <4>1. Head(eval.ends) \in 0..Horizon
        BY <1>1, HeadTyped, ConfigAssumption
      <4>2. "window_no_data" \in Kinds /\ "none" \in Levels /\ NoRun \in Runs \cup {NoRun}
        BY DEF Kinds, Levels
      <4>3. row \in AuditRow
        BY <4>1, <4>2, RowTyped
      <4> QED
        BY <4>3 DEF Row
    <3>3. ~rule.present => audit' = <<>>
      BY <1>1, <3>1 DEF Recorded
    <3> HIDE DEF row
    <3>4. SameMarkers
      BY <1>1, <3>1, <3>2, SameLog, OtherRecorded
    <3> QED
      BY <1>1, <3>1, <3>3, <3>4, QuietKeepsMemory
  <2> QED
    BY <1>2, <2>1, <2>2, <2>3, <2>4
<1> QED
  BY <1>1, <1>3, <1>4 DEF MemoryInv, Agrees

\* The actions of a fire come back: their window is done with.
LEMMA SentRemembers ==
  ASSUME Remembered, TypeOK', WindowSent
  PROVE  MemoryInv' /\ (~cut' => Spaced')
<1> SUFFICES ASSUME ~cut PROVE MemoryInv' /\ Spaced'
  BY DEF WindowSent, MemoryInv
<1>1. /\ eval.pc = "send" /\ eval.ends # <<>> /\ opt' = opt /\ rule' = rule
      /\ TypeOK /\ (~rule.present => audit = <<>>) /\ Agrees
  BY DEF WindowSent, Remembered, MemoryInv, Agrees, SendInv
<1> DEFINE row == Row("action", Head(eval.ends), "none", NoRun)
<1>2. row \in AuditRow /\ row.kind = "action"
  <2>1. Head(eval.ends) \in 0..Horizon
    BY <1>1, HeadTyped, ConfigAssumption
  <2>2. "action" \in Kinds /\ "none" \in Levels /\ NoRun \in Runs \cup {NoRun}
    BY DEF Kinds, Levels
  <2>3. row \in AuditRow
    BY <2>1, <2>2, RowTyped
  <2> QED
    BY <2>3 DEF Row
<1>3. audit' = Recorded(row)
  BY DEF WindowSent
<1>4. ~rule.present => audit' = <<>>
  BY <1>1, <1>3 DEF Recorded
<1> HIDE DEF row
<1>5. SameMarkers
  BY <1>1, <1>2, <1>3, OtherRecorded
<1>6. /\ eval'.ends = Tail(eval.ends) /\ eval'.upto = eval.upto /\ eval'.pc # "idle"
      /\ eval'.armed = eval.armed /\ eval'.fired = eval.fired /\ eval'.level = eval.level
  BY DEF WindowSent, TypeOK, Remembered
<1>7. Agrees'
  BY <1>1, <1>5, <1>6, QuietKeepsMemory
<1> QED
  BY <1>1, <1>4, <1>6, <1>7 DEF MemoryInv, Agrees

\* An evaluation begins with what the log says and with the windows after the baseline.
LEMMA TickRemembers ==
  ASSUME Remembered, TypeOK', Tick
  PROVE  MemoryInv' /\ (~cut' => Spaced')
<1> SUFFICES ASSUME ~cut PROVE MemoryInv' /\ Spaced'
  BY DEF Tick, MemoryInv
<1>1. /\ eval.pc = "idle" /\ opt' = opt /\ rule' = rule /\ audit' = audit /\ TypeOK
      /\ MarkersOrdered /\ Spaced /\ (~rule.present => audit = <<>>)
      /\ \A i \in Markers : audit[i].at <= rule.last
  BY DEF Tick, Remembered, MemoryInv
<1>2. PICK seed \in getWindowState :
        eval' = [pc |-> "scan", ends |-> enumerateWindowEnds(rule.last), armed |-> seed.armed,
                 fired |-> seed.fired, level |-> seed.level, paused |-> rule.paused, upto |-> now]
  BY DEF Tick
<1>3. SameMarkers
  BY <1>1, SameLog
<1>4. Mirrors(seed) /\ MarkersOrdered' /\ Spaced' /\ Mirrors(seed)'
  BY <1>1, <1>2, <1>3, SeedMirrors, SameMarkersKeep
<1>5. eval'.armed = seed.armed /\ eval'.fired = seed.fired /\ eval'.level = seed.level
      /\ eval'.upto = now /\ eval'.pc = "scan" /\ eval'.ends = enumerateWindowEnds(rule.last)
  BY <1>2
<1>6. Mirrors(eval)'
  BY <1>4, <1>5 DEF Mirrors
<1>7. rule.last \in 0..Horizon /\ rule.last \in Nat /\ now \in Nat
  BY <1>1, ConfigAssumption DEF TypeOK
<1> DEFINE ends == enumerateWindowEnds(rule.last)
<1>8. /\ \A i, j \in DOMAIN ends : i < j => ends[i] < ends[j]
      /\ \A i \in DOMAIN ends : rule.last < ends[i] /\ ends[i] <= now /\ ends[i] \in Nat
      /\ rule.last < now
  <2>1. ends \in Seq(1..Horizon) /\ ends # <<>>
    BY <1>1, <1>7, EndsTyped DEF Tick
  <2>2. \A i \in DOMAIN ends : ends[i] \in 1..Horizon
    BY <2>1, ElementOfSeq, LenProperties
  <2>3. rule.last < now
    BY <1>7 DEF Tick, enumerateWindowEnds
  <2> QED
    BY <1>1, <1>7, <2>2, <2>3, EndsTyped, ConfigAssumption
<1> HIDE DEF ends
<1>9. \A i \in Markers' : audit'[i].at <= now /\ \A k \in DOMAIN ends : audit'[i].at < ends[k]
  BY <1>1, <1>3, <1>7, <1>8, MarkersTyped DEF SameMarkers
<1>10. eval'.ends = ends
  BY <1>5 DEF ends
<1>11. Ahead'
  BY <1>5, <1>8, <1>9, <1>10 DEF Ahead
<1> QED
  BY <1>1, <1>4, <1>5, <1>6, <1>11 DEF MemoryInv

\* The baseline moves past every marker of the evaluation.
LEMMA EndRemembers ==
  ASSUME Remembered, TypeOK', EvaluationEnds
  PROVE  MemoryInv' /\ (~cut' => Spaced')
<1> SUFFICES ASSUME ~cut PROVE MemoryInv' /\ Spaced'
  BY DEF EvaluationEnds, MemoryInv
<1>1. /\ eval.pc = "scan" /\ opt' = opt /\ audit' = audit /\ TypeOK /\ eval' = Idle
      /\ (~rule.present => audit = <<>>) /\ Agrees
  BY DEF EvaluationEnds, Remembered, MemoryInv, Agrees
<1>2. SameMarkers
  BY <1>1, SameLog
<1>3. MarkersOrdered' /\ Spaced'
  BY <1>1, <1>2, SameMarkersKeep DEF Agrees
<1>4. eval'.pc = "idle"
  BY <1>1 DEF Idle
<1>5. CASE rule.present
  <2>1. rule'.last = eval.upto /\ rule'.present
    BY <1>1, <1>5 DEF EvaluationEnds, setLastEvaluatedAt, TypeOK
  <2>2. \A i \in Markers' : audit'[i].at <= rule'.last
    BY <1>1, <1>2, <2>1 DEF SameMarkers, Agrees, Ahead
  <2> QED
    BY <1>3, <1>4, <2>1, <2>2 DEF MemoryInv
<1>6. CASE ~rule.present
  <2>1. audit' = <<>> /\ Markers' = {}
    BY <1>1, <1>6, EmptyLog
  <2> QED
    BY <1>3, <1>4, <2>1 DEF MemoryInv
<1> QED
  BY <1>5, <1>6

\* A step that neither evaluates nor writes a marker, and leaves the baseline.
LEMMA QuietRemembers ==
  ASSUME Remembered, SameMarkers, UNCHANGED <<opt, eval, cut>>, rule'.last = rule.last,
         rule'.present = rule.present, ~rule.present => audit' = audit
  PROVE  MemoryInv' /\ (~cut' => Spaced')
<1> SUFFICES ASSUME ~cut PROVE MemoryInv' /\ Spaced'
  BY DEF MemoryInv
<1>1. MarkersOrdered /\ Spaced /\ TypeOK
  BY DEF Remembered, MemoryInv
<1>2. MarkersOrdered' /\ Spaced'
  BY <1>1, SameMarkersKeep
<1>3. FireRows \subseteq Markers /\ RecoverRows \subseteq Markers
  BY <1>1, MarkersTyped
<1>4. eval.pc = "idle" => \A i \in Markers' : audit'[i].at <= rule'.last
  BY DEF Remembered, MemoryInv, SameMarkers
<1>5. eval.pc # "idle" => Ahead'
  BY DEF Remembered, MemoryInv, SameMarkers, Ahead
<1>6. eval.pc # "idle" => Mirrors(eval)'
  BY <1>3 DEF Remembered, MemoryInv, SameMarkers, Mirrors
<1>7. ~rule'.present => audit' = <<>>
  BY DEF Remembered, MemoryInv
<1> QED
  BY <1>2, <1>4, <1>5, <1>6, <1>7 DEF MemoryInv

\* The on-terminal engine writes no marker.
LEMMA RunsWriteNoMarker ==
  ASSUME TypeOK, NEW r \in Runs, RunSettles(r) \/ RunChecked(r) \/ RunSent(r)
  PROVE  SameMarkers /\ (~rule.present => audit' = audit)
<1>1. duty[r].at \in 0..Horizon
  BY DEF TypeOK
<1>2. \A kind \in {"action", "paused", "rate_limited"} :
        Row(kind, duty[r].at, "none", r) \in AuditRow /\ Row(kind, duty[r].at, "none", r).kind = kind
  <2>1. \A kind \in Kinds : Row(kind, duty[r].at, "none", r) \in AuditRow
    BY <1>1, RowTyped DEF Levels
  <2> QED
    BY <2>1 DEF Kinds, Row
<1>3. \/ audit' = audit
      \/ \E kind \in {"action", "paused", "rate_limited"} :
           audit' = Recorded(Row(kind, duty[r].at, "none", r))
  BY DEF RunSettles, RunChecked, RunSent
<1>4. CASE audit' = audit
  BY <1>4, SameLog
<1>5. ASSUME NEW kind \in {"action", "paused", "rate_limited"},
             audit' = Recorded(Row(kind, duty[r].at, "none", r))
      PROVE  SameMarkers /\ (~rule.present => audit' = audit)
  <2>1. ~rule.present => audit' = audit
    BY <1>5 DEF Recorded
  <2>2. SameMarkers
    BY <1>2, <1>5, OtherRecorded
  <2> QED
    BY <2>1, <2>2
<1> QED
  BY <1>3, <1>4, <1>5

\* So it leaves what the log remembers.
LEMMA RunsRemember ==
  ASSUME Remembered, NEW r \in Runs, RunSettles(r) \/ RunChecked(r) \/ RunSent(r)
  PROVE  MemoryInv' /\ (~cut' => Spaced')
<1>1. UNCHANGED <<opt, rule, eval, cut>>
  BY DEF RunSettles, RunChecked, RunSent
<1>2. SameMarkers /\ (~rule.present => audit' = audit)
  BY RunsWriteNoMarker DEF Remembered
<1> QED
  BY <1>1, <1>2, QuietRemembers

\* The operator, the clock and a crash: a deleted rule takes its log along, and a crash that
\* cuts off an evaluation ends the promise.
LEMMA WorldRemembers ==
  ASSUME Remembered, WindowCompletes \/ Edit \/ Resume \/ CrashRestart \/ UNCHANGED vars
  PROVE  MemoryInv' /\ (~cut' => Spaced')
<1>1. CASE WindowCompletes \/ UNCHANGED vars
  BY <1>1, SameLog, QuietRemembers DEF WindowCompletes, vars
<1>2. CASE Resume
  <2>1. rule'.last = rule.last /\ rule'.present = rule.present
    BY <1>2 DEF Resume, Remembered, TypeOK
  <2> QED
    BY <1>2, <2>1, SameLog, QuietRemembers DEF Resume
<1>3. CASE Edit
  <2>1. CASE audit' = <<>>
    <3> SUFFICES ASSUME ~cut PROVE MemoryInv' /\ Spaced'
      BY <1>3 DEF Edit, MemoryInv
    <3>1. UNCHANGED eval
      BY <1>3 DEF Edit
    <3>2. MarkersOrdered' /\ Spaced' /\ Markers' = {}
      BY <2>1, EmptyLog
    <3>3. Mirrors(eval)'
      BY <2>1 DEF Mirrors, FireRows, Rows
    <3>4. eval.pc # "idle" => Ahead'
      BY <3>1, <3>2 DEF Remembered, MemoryInv, Ahead
    <3> QED
      BY <2>1, <3>1, <3>2, <3>3, <3>4 DEF MemoryInv
  <2>2. CASE audit' # <<>>
    <3>1. audit' = audit /\ rule'.last = rule.last /\ rule'.present = rule.present
      BY <1>3, <2>2 DEF Edit, Remembered, TypeOK
    <3> QED
      BY <1>3, <3>1, SameLog, QuietRemembers DEF Edit
  <2> QED
    BY <2>1, <2>2
<1>4. CASE CrashRestart
  <2> SUFFICES ASSUME ~cut' PROVE MemoryInv' /\ Spaced'
    BY DEF MemoryInv
  <2>1. ~cut /\ eval.pc = "idle" /\ UNCHANGED <<opt, rule, audit>> /\ eval' = Idle
    BY <1>4 DEF CrashRestart
  <2>2. SameMarkers /\ TypeOK /\ MarkersOrdered /\ Spaced
    BY <2>1, SameLog DEF Remembered, MemoryInv
  <2>3. MarkersOrdered' /\ Spaced'
    BY <2>1, <2>2, SameMarkersKeep
  <2>4. eval'.pc = "idle"
    BY <2>1 DEF Idle
  <2>5. \A i \in Markers' : audit'[i].at <= rule'.last
    BY <2>1, <2>2 DEF Remembered, MemoryInv, SameMarkers
  <2>6. ~rule'.present => audit' = <<>>
    BY <2>1 DEF Remembered, MemoryInv
  <2> QED
    BY <2>3, <2>4, <2>5, <2>6 DEF MemoryInv
<1> QED
  BY <1>1, <1>2, <1>3, <1>4

\* However long the pauses, the outages between two evaluations and the catch-ups: as long as
\* no crash cuts an evaluation off, of two fires the later one follows a recovery, comes after
\* the cooldown or escalates.
THEOREM CooldownKept == Spec => []CooldownHolds
<1>1. Init => Remembered
  <2> SUFFICES ASSUME Init PROVE MemoryInv /\ Spaced
    BY InitTyped DEF Remembered
  <2>1. FireRows = {} /\ Markers = {} /\ audit = <<>>
    BY DEF Init, FireRows, Markers, Rows
  <2>2. eval.pc = "idle"
    BY DEF Init, Idle
  <2> QED
    BY <2>1, <2>2 DEF MemoryInv, MarkersOrdered, Spaced
<1>2. Remembered /\ [Next]_vars => Remembered'
  <2> SUFFICES ASSUME Remembered, [Next]_vars PROVE Remembered'
    OBVIOUS
  <2>1. TypeOK' /\ SendInv'
    BY StepKeepsTypes DEF Remembered
  <2>2. MemoryInv' /\ (~cut' => Spaced')
    BY <2>1, ScanRemembers, SentRemembers, TickRemembers, EndRemembers, RunsRemember,
       WorldRemembers DEF Next, Engine
  <2> QED
    BY <2>1, <2>2 DEF Remembered
<1>3. Remembered => CooldownHolds
  BY DEF Remembered, Spaced, CooldownHolds
<1> QED
  BY <1>1, <1>2, <1>3, PTL DEF Spec

-----------------------------------------------------------------------------
(* No breach goes by in silence: the audit log against what was read. *)

\* What an evaluated window makes of a rule that is not armed.
Answers(w) == read[w] # "unread" /\ ~Fires(read[w]) /\ ~(read[w] = "no_data" /\ opt.policy = "hold")

\* The markers are those of windows that were read so.
Truthful ==
  /\ \A i \in FireRows : /\ audit[i].at \in 1..Horizon /\ Fires(read[audit[i].at])
                         /\ audit[i].level = LevelOf(read[audit[i].at])
  /\ \A i \in RecoverRows : audit[i].at \in 1..Horizon /\ Answers(audit[i].at)

\* Fire i stands behind the breach of window w: no window between them ended it.
Stands(i, w) ==
  LET f == audit[i].at
  IN /\ f <= w /\ (f = w \/ w < f + opt.cooldown)
     /\ ~(read[w] = "alert" /\ audit[i].level = "warn")
     /\ \A u \in 1..Horizon : f < u /\ u < w => ~Answers(u)
Covered == \A w \in 1..Horizon : Fires(read[w]) => \E i \in FireRows : Stands(i, w)

\* Every breach that ended has its recovery.
Closed ==
  \A w, u \in 1..Horizon :
    Fires(read[w]) /\ Answers(u) /\ w < u =>
      \E i \in RecoverRows : w < audit[i].at /\ audit[i].at <= u

\* There are a latest marker and a latest fire.
Topped ==
  /\ Markers # {} => Latest(Markers) # {}
  /\ FireRows # {} => Latest(FireRows) # {}

\* Windows are read in their order, but for those that a catch-up leaves out for good.
Due == IF rule.last = 0 THEN now
       ELSE IF rule.last + CatchUp < now THEN now + 1 - CatchUp ELSE rule.last + 1
InOrder ==
  /\ \A w \in 1..Horizon : read[w] # "unread" => w <= now
  /\ \A u, w \in 1..Horizon : Due <= u /\ u < w /\ read[w] # "unread" => read[u] # "unread"

\* The window that an evaluation is at, and how far it has read.
Cursor == eval.upto + 1 - Len(eval.ends)
Underway ==
  /\ Len(eval.ends) <= eval.upto /\ eval.upto <= now /\ rule.last < eval.upto
  /\ \A k \in 1..Len(eval.ends) : eval.ends[k] = eval.upto - Len(eval.ends) + k
  /\ \A w \in 1..Horizon : read[w] # "unread" => w <= eval.upto
  /\ \A u \in 1..Horizon : Due <= u /\ u < Cursor => read[u] # "unread"
  /\ \A u, w \in 1..Horizon : Cursor <= u /\ u < w /\ read[w] # "unread" => read[u] # "unread"

\* What the evaluation remembers: an armed rule saw every breach so far recover, one that
\* is not armed saw none end since it fired.
Recalls ==
  /\ eval.armed => \A w \in 1..Horizon :
       Fires(read[w]) => w >= Cursor \/ \E i \in RecoverRows : audit[i].at > w
  /\ ~eval.armed =>
       /\ \E i \in FireRows : audit[i].at = eval.fired /\ audit[i].level = eval.level
       /\ \A u \in 1..Horizon : Answers(u) => u <= eval.fired \/ u >= Cursor
  /\ eval.pc = "send" => ~eval.armed /\ Fires(read[Cursor])

Told == Truthful /\ Covered /\ Closed /\ Topped
SilenceInv ==
  rule.present => Told /\ InOrder /\ (eval.pc # "idle" => Underway /\ Recalls)

\* Bounds and windows are numbers.
LEMMA WindowsTyped ==
  ASSUME TypeOK
  PROVE  /\ Horizon \in Nat /\ CatchUp \in Nat \ {0} /\ now \in Nat /\ now <= Horizon
         /\ rule.last \in Nat /\ eval.upto \in Nat /\ eval.fired \in Nat
         /\ eval.upto <= Horizon /\ Len(eval.ends) \in Nat /\ opt.cooldown \in Nat
<1>1. eval.ends \in Seq(1..Horizon) /\ eval.upto \in 0..Horizon /\ eval.fired \in 0..Horizon
      /\ rule.last \in 0..Horizon /\ now \in 0..Horizon /\ opt.cooldown \in Nat
  BY ConfigAssumption DEF TypeOK
<1>2. Len(eval.ends) \in Nat
  BY <1>1, LenProperties
<1> QED
  BY <1>1, <1>2, ConfigAssumption

\* A fire stands behind every breach: a recovery between them would have ended it.
LEMMA ToldIsHeard ==
  ASSUME TypeOK, SilenceInv
  PROVE  NoSilentBreach
<1> SUFFICES ASSUME rule.present, NEW w \in 1..Horizon, Fires(read[w])
             PROVE  \E i \in FireRows :
                      LET f == audit[i].at
                      IN /\ f <= w /\ (f = w \/ w < f + opt.cooldown)
                         /\ ~RecoversBetween(f, w)
                         /\ ~(read[w] = "alert" /\ audit[i].level = "warn")
  BY DEF NoSilentBreach
<1>1. Truthful /\ Covered
  BY DEF SilenceInv, Told
<1>2. PICK i \in FireRows : Stands(i, w)
  BY <1>1 DEF Covered
<1>3. ~RecoversBetween(audit[i].at, w)
  BY <1>1, <1>2 DEF RecoversBetween, Stands, Truthful, RecoverRows
<1> QED
  BY <1>2, <1>3 DEF Stands

\* An unmoved log tells the same of the same reads.
LEMMA StillTold ==
  ASSUME TypeOK, SameMarkers, opt' = opt, read' = read, Told
  PROVE  Told'
<1>1. FireRows \subseteq Markers /\ RecoverRows \subseteq Markers
  BY MarkersTyped
<1>2. /\ FireRows' = FireRows /\ RecoverRows' = RecoverRows /\ Markers' = Markers
      /\ \A i \in Markers : audit'[i] = audit[i]
  BY DEF SameMarkers
<1>3. \A st : Fires(st)' <=> Fires(st)
  BY DEF Fires
<1>4. \A u : Answers(u)' <=> Answers(u)
  BY <1>3 DEF Answers
<1>5. Truthful'
  BY <1>1, <1>2, <1>3, <1>4 DEF Told, Truthful
<1>6. Covered'
  <2>1. \A i \in FireRows, w \in 1..Horizon : Stands(i, w) => Stands(i, w)'
    BY <1>1, <1>2, <1>4 DEF Stands
  <2> QED
    BY <1>2, <1>3, <2>1 DEF Told, Covered
<1>7. Closed'
  BY <1>1, <1>2, <1>3, <1>4 DEF Told, Closed
<1>8. Topped'
  BY <1>1, <1>2 DEF Told, Topped, Latest
<1> QED
  BY <1>5, <1>6, <1>7, <1>8 DEF Told

\* What is due only moves on.
LEMMA DueGrows ==
  ASSUME NEW last \in Nat, NEW m \in Nat, NEW n \in Nat, m <= n
  PROVE  LET D(k) == IF last = 0 THEN k
                     ELSE IF last + CatchUp < k THEN k + 1 - CatchUp ELSE last + 1
         IN D(m) <= D(n) /\ D(m) \in Nat /\ D(n) \in Nat
BY ConfigAssumption

\* What is due lies ahead of the baseline.
LEMMA DueIsAhead ==
  ASSUME NEW last \in Nat \ {0}, NEW n \in Nat
  PROVE  LET D == IF last = 0 THEN n
                  ELSE IF last + CatchUp < n THEN n + 1 - CatchUp ELSE last + 1
         IN D \in Nat /\ last < D
BY ConfigAssumption

\* It moves on as time goes by.
LEMMA DueMoves ==
  ASSUME TypeOK, TypeOK', rule'.last = rule.last, now <= now'
  PROVE  Due <= Due' /\ Due \in Nat /\ Due' \in Nat
<1>1. now \in Nat /\ rule.last \in Nat /\ now' \in Nat
  BY ConfigAssumption DEF TypeOK
<1> QED
  BY <1>1, DueGrows DEF Due

\* A step that neither evaluates nor marks.
LEMMA QuietIsTold ==
  ASSUME TypeOK, TypeOK', SilenceInv, SameMarkers, UNCHANGED <<opt, read>>,
         rule'.last = rule.last, rule'.present = rule.present, now <= now',
         eval' = eval \/ eval'.pc = "idle"
  PROVE  SilenceInv'
<1> SUFFICES ASSUME rule.present PROVE SilenceInv'
  BY DEF SilenceInv
<1>1. Told' /\ InOrder /\ (eval.pc # "idle" => Underway /\ Recalls)
  BY StillTold DEF SilenceInv
<1>2. now \in Nat /\ now' \in Nat /\ 1..Horizon \subseteq Nat
  BY ConfigAssumption DEF TypeOK
<1>3. InOrder'
  BY <1>1, <1>2, DueMoves DEF InOrder
<1>4. ASSUME eval' = eval, eval.pc # "idle" PROVE Underway' /\ Recalls'
  <2>1. Cursor' = Cursor /\ eval.upto \in Nat
    BY <1>4, WindowsTyped DEF Cursor
  <2>2. Underway'
    BY <1>1, <1>2, <1>4, <2>1, DueMoves DEF Underway
  <2>3. \A st : Fires(st)' <=> Fires(st)
    BY DEF Fires
  <2>4. \A u : Answers(u)' <=> Answers(u)
    BY <2>3 DEF Answers
  <2>5. /\ FireRows' = FireRows /\ RecoverRows' = RecoverRows
        /\ \A i \in FireRows \cup RecoverRows : audit'[i] = audit[i]
    BY MarkersTyped DEF SameMarkers
  <2>6. Recalls'
    BY <1>1, <1>4, <2>1, <2>3, <2>4, <2>5 DEF Recalls
  <2> QED
    BY <2>2, <2>6
<1> QED
  BY <1>1, <1>3, <1>4 DEF SilenceInv

\* The windows of an evaluation are those that are due, up to now.
LEMMA EndsAreDue ==
  ASSUME TypeOK, enumerateWindowEnds(rule.last) # <<>>
  PROVE  /\ Due \in 1..now /\ rule.last < now
         /\ Len(enumerateWindowEnds(rule.last)) = now + 1 - Due
         /\ \A k \in 1..(now + 1 - Due) : enumerateWindowEnds(rule.last)[k] = Due + k - 1
<1>1. now \in Nat /\ rule.last \in Nat /\ CatchUp \in Nat \ {0}
  BY WindowsTyped
<1>2. now # 0 /\ rule.last < now
  BY <1>1 DEF enumerateWindowEnds
<1>3. enumerateWindowEnds(rule.last) = [k \in 1..(now + 1 - Due) |-> Due + k - 1]
  BY <1>1, <1>2 DEF enumerateWindowEnds, Due
<1>4. Due \in Nat /\ 1 <= Due /\ Due <= now
  <2>1. CASE rule.last = 0
    BY <1>1, <1>2, <2>1 DEF Due
  <2>2. CASE rule.last # 0 /\ rule.last + CatchUp < now
    <3>1. Due = now + 1 - CatchUp
      BY <2>2 DEF Due
    <3> QED
      BY <1>1, <2>2, <3>1
  <2>3. CASE rule.last # 0 /\ ~(rule.last + CatchUp < now)
    <3>1. Due = rule.last + 1
      BY <2>3 DEF Due
    <3> QED
      BY <1>1, <1>2, <2>3, <3>1
  <2> QED
    BY <2>1, <2>2, <2>3
<1>5. now + 1 - Due \in Nat
  BY <1>1, <1>4
<1> DEFINE n == now + 1 - Due
           s == [k \in 1..n |-> Due + k - 1]
<1>6. Len(s) = n
  <2>1. s \in Seq(Nat) /\ DOMAIN s = 1..n
    <3>1. \A k \in 1..n : Due + k - 1 \in Nat
      BY <1>1, <1>4
    <3> HIDE DEF n
    <3> QED
      BY <1>5, <3>1 DEF n
  <2> HIDE DEF n, s
  <2> QED
    BY <1>5, <2>1 DEF n
<1>7. \A k \in 1..n : s[k] = Due + k - 1
  OBVIOUS
<1> QED
  BY <1>1, <1>2, <1>3, <1>4, <1>6, <1>7

\* What an evaluation reads back from a log that tells the truth is what it must remember.
LEMMA SeedRecalls ==
  ASSUME TypeOK, Told, NEW seed \in getWindowState
  PROVE  /\ seed.armed => \A w \in 1..Horizon :
              Fires(read[w]) => \E i \in RecoverRows : audit[i].at > w
         /\ ~seed.armed =>
              /\ \E i \in FireRows : audit[i].at = seed.fired /\ audit[i].level = seed.level
              /\ \A u \in 1..Horizon : Answers(u) => u <= seed.fired
<1> DEFINE fires == Latest(FireRows)
           marks == Latest(Markers)
<1>1. PICK m \in (IF marks = {} THEN {0} ELSE marks), f \in (IF fires = {} THEN {0} ELSE fires) :
        seed = [armed |-> marks = {} \/ audit[m].kind = "window_recover",
                fired |-> IF fires = {} THEN 0 ELSE audit[f].at,
                level |-> IF fires = {} THEN "none" ELSE audit[f].level]
  BY DEF getWindowState, FireRows, Markers
<1>2. /\ FireRows \subseteq Markers /\ RecoverRows \subseteq Markers
      /\ \A i \in Markers : audit[i].at \in Nat
      /\ \A i \in Markers : i \in FireRows \/ i \in RecoverRows
      /\ \A i \in FireRows : audit[i].kind # "window_recover"
      /\ \A i \in RecoverRows : audit[i].kind = "window_recover"
  BY MarkersTyped DEF FireRows, RecoverRows, Markers, Rows
<1>3. (Markers # {} => marks # {}) /\ (FireRows # {} => fires # {})
  BY DEF Told, Topped
<1>4. marks # {} => m \in Markers /\ \A j \in Markers : audit[j].at <= audit[m].at
  BY <1>1 DEF Latest
<1>5. fires # {} => f \in FireRows /\ \A j \in FireRows : audit[j].at <= audit[f].at
  BY <1>1 DEF Latest
<1> HIDE DEF fires, marks
<1>6. Truthful /\ Covered /\ Closed /\ 1..Horizon \subseteq Nat
  BY ConfigAssumption DEF Told
<1>7. ASSUME seed.armed, NEW w \in 1..Horizon, Fires(read[w])
      PROVE  \E i \in RecoverRows : audit[i].at > w
  <2>1. PICK i \in FireRows : Stands(i, w)
    BY <1>6, <1>7 DEF Covered
  <2>2. m \in RecoverRows /\ audit[i].at <= audit[m].at
    BY <1>1, <1>2, <1>3, <1>4, <1>7, <2>1
  <2>3. audit[m].at \in 1..Horizon /\ Answers(audit[m].at) /\ ~Fires(read[audit[m].at])
        /\ Fires(read[audit[i].at])
    BY <1>6, <2>1, <2>2 DEF Truthful, Answers
  <2>4. audit[m].at # w /\ audit[m].at # audit[i].at
    BY <1>7, <2>3
  <2>5. ~(audit[i].at < audit[m].at /\ audit[m].at < w)
    BY <2>1, <2>3 DEF Stands
  <2>6. audit[i].at \in Nat /\ audit[m].at \in Nat /\ w \in Nat
    BY <1>2, <1>6, <2>1, <2>2
  <2> QED
    BY <2>2, <2>4, <2>5, <2>6
<1>8. ASSUME ~seed.armed
      PROVE  /\ \E i \in FireRows : audit[i].at = seed.fired /\ audit[i].level = seed.level
             /\ \A u \in 1..Horizon : Answers(u) => u <= seed.fired
  <2>1. m \in FireRows /\ f \in FireRows /\ fires # {}
    BY <1>1, <1>2, <1>3, <1>4, <1>5, <1>8
  <2>2. audit[f].at = seed.fired /\ audit[f].level = seed.level
    BY <1>1, <2>1
  <2>3. ASSUME NEW j \in Markers PROVE audit[j].at <= audit[f].at
    <3>1. audit[j].at <= audit[m].at /\ audit[m].at <= audit[f].at
      BY <1>1, <1>3, <1>4, <1>5, <1>8, <2>1
    <3>2. audit[j].at \in Nat /\ audit[m].at \in Nat /\ audit[f].at \in Nat
      BY <1>2, <2>1
    <3> QED
      BY <3>1, <3>2
  <2>4. ASSUME NEW u \in 1..Horizon, Answers(u), ~(u <= audit[f].at) PROVE FALSE
    <3>1. audit[f].at \in 1..Horizon /\ Fires(read[audit[f].at]) /\ audit[f].at < u
      BY <1>2, <1>6, <2>1, <2>4 DEF Truthful
    <3>2. PICK i \in RecoverRows : audit[f].at < audit[i].at
      BY <1>6, <2>4, <3>1 DEF Closed
    <3> QED
      BY <1>2, <2>1, <2>3, <3>2
  <2> QED
    BY <2>1, <2>2, <2>4
<1> QED
  BY <1>7, <1>8

\* An evaluation begins.
LEMMA TickTells ==
  ASSUME TypeOK, TypeOK', SilenceInv, Tick
  PROVE  SilenceInv'
<1>1. /\ rule.present /\ UNCHANGED <<opt, now, read, rule, audit>>
      /\ enumerateWindowEnds(rule.last) # <<>>
  BY DEF Tick, Watches
<1>2. PICK seed \in getWindowState :
        eval' = [pc |-> "scan", ends |-> enumerateWindowEnds(rule.last), armed |-> seed.armed,
                 fired |-> seed.fired, level |-> seed.level, paused |-> rule.paused, upto |-> now]
  BY DEF Tick
<1>3. Told' /\ Told /\ InOrder
  BY <1>1, SameLog, StillTold DEF SilenceInv
<1>4. /\ eval'.pc = "scan" /\ eval'.upto = now /\ eval'.armed = seed.armed
      /\ eval'.fired = seed.fired /\ eval'.level = seed.level
      /\ eval'.ends = enumerateWindowEnds(rule.last)
  BY <1>2
<1>5. /\ Due \in 1..now /\ rule.last < now /\ Len(eval'.ends) = now + 1 - Due
      /\ \A k \in 1..(now + 1 - Due) : eval'.ends[k] = Due + k - 1
  BY <1>1, <1>4, EndsAreDue
<1>6. Due' = Due /\ InOrder' /\ now \in Nat
  BY <1>1, <1>3, WindowsTyped DEF Due, InOrder
<1>7. Cursor' = Due
  <2>1. Cursor' = now + 1 - (now + 1 - Due)
    BY <1>4, <1>5 DEF Cursor
  <2> QED
    BY <1>5, <1>6, <2>1
<1>8. Underway'
  <2>1. Len(eval'.ends) <= eval'.upto /\ eval'.upto <= now' /\ rule'.last < eval'.upto
    BY <1>1, <1>4, <1>5, <1>6
  <2>2. \A k \in 1..Len(eval'.ends) : eval'.ends[k] = eval'.upto - Len(eval'.ends) + k
    BY <1>4, <1>5, <1>6
  <2>3. \A w \in 1..Horizon : read'[w] # "unread" => w <= eval'.upto
    BY <1>1, <1>3, <1>4 DEF InOrder
  <2>4. \A u \in 1..Horizon : ~(Due <= u /\ u < Due)
    BY <1>5, <1>6, ConfigAssumption
  <2>5. \A u, w \in 1..Horizon : Due <= u /\ u < w /\ read'[w] # "unread" => read'[u] # "unread"
    BY <1>1, <1>3 DEF InOrder
  <2> QED
    BY <1>6, <1>7, <2>1, <2>2, <2>3, <2>4, <2>5 DEF Underway
<1>9. Recalls'
  <2>1. /\ \A w : Fires(read[w])' <=> Fires(read[w])
        /\ \A u : Answers(u)' <=> Answers(u)
        /\ FireRows' = FireRows /\ RecoverRows' = RecoverRows
    BY <1>1 DEF Fires, Answers, FireRows, RecoverRows, Rows
  <2>2. /\ seed.armed => \A w \in 1..Horizon :
              Fires(read[w]) => \E i \in RecoverRows : audit[i].at > w
        /\ ~seed.armed =>
              /\ \E i \in FireRows : audit[i].at = seed.fired /\ audit[i].level = seed.level
              /\ \A u \in 1..Horizon : Answers(u) => u <= seed.fired
    BY <1>3, SeedRecalls
  <2> QED
    BY <1>1, <1>4, <2>1, <2>2 DEF Recalls
<1> QED
  BY <1>3, <1>6, <1>8, <1>9 DEF SilenceInv

\* The baseline moves past everything that was read.
LEMMA EndTells ==
  ASSUME TypeOK, TypeOK', SilenceInv, EvaluationEnds
  PROVE  SilenceInv'
<1> SUFFICES ASSUME rule.present PROVE SilenceInv'
  BY DEF SilenceInv, EvaluationEnds, setLastEvaluatedAt
<1>1. /\ eval.pc = "scan" /\ UNCHANGED <<opt, now, read, audit>> /\ eval' = Idle
      /\ Told /\ InOrder /\ Underway
  BY DEF EvaluationEnds, SilenceInv
<1>2. rule'.last = eval.upto
  BY DEF EvaluationEnds, setLastEvaluatedAt, TypeOK
<1>3. Told'
  BY <1>1, SameLog, StillTold
<1>4. /\ now' \in Nat /\ rule'.last \in Nat /\ CatchUp \in Nat \ {0} /\ eval.upto \in Nat
      /\ rule.last \in Nat /\ Due' = IF rule'.last = 0 THEN now'
             ELSE IF rule'.last + CatchUp < now' THEN now' + 1 - CatchUp ELSE rule'.last + 1
  BY <1>1, <1>2, WindowsTyped DEF Due
<1>5. rule.last < eval.upto
  BY <1>1 DEF Underway
<1>6. PICK d \in Nat : d = Due' /\ eval.upto < d
  <2>1. rule'.last \in Nat \ {0}
    BY <1>2, <1>4, <1>5
  <2>2. Due' \in Nat /\ rule'.last < Due'
    BY <1>4, <2>1, DueIsAhead
  <2> QED
    BY <1>2, <2>2
<1>7. \A w \in 1..Horizon : w \in Nat /\ (read'[w] # "unread" => w <= eval.upto /\ w <= now')
  BY <1>1, ConfigAssumption DEF Underway, InOrder
<1>8. InOrder'
  <2>1. ASSUME NEW u \in 1..Horizon, NEW w \in 1..Horizon, d <= u, u < w, read'[w] # "unread"
        PROVE  FALSE
    <3>1. u \in Nat /\ w \in Nat /\ w <= eval.upto
      BY <1>7, <2>1
    <3>2. eval.upto \in Nat /\ d \in Nat /\ eval.upto < d
      BY <1>4, <1>6
    <3> QED
      BY <2>1, <3>1, <3>2
  <2> QED
    BY <1>6, <1>7, <2>1 DEF InOrder
<1> QED
  BY <1>1, <1>3, <1>8 DEF SilenceInv, Idle

\* The head of the windows is the cursor, and moves on by one as the head is dropped.
LEMMA HeadIsCursor ==
  ASSUME TypeOK, Underway, eval.ends # <<>>
  PROVE  /\ Head(eval.ends) = Cursor /\ Cursor \in 1..Horizon /\ Cursor <= eval.upto
         /\ Cursor \in Nat
<1>1. Len(eval.ends) \in Nat \ {0} /\ Head(eval.ends) = eval.ends[1]
      /\ Head(eval.ends) \in 1..Horizon
  BY HeadTyped
<1>2. eval.upto \in Nat /\ Len(eval.ends) <= eval.upto
  BY WindowsTyped DEF Underway
<1>3. eval.ends[1] = eval.upto - Len(eval.ends) + 1
  BY <1>1 DEF Underway
<1>4. Cursor = eval.upto + 1 - Len(eval.ends)
  BY DEF Cursor
<1> QED
  BY <1>1, <1>2, <1>3, <1>4

\* The next window of an evaluation, its reads w and st.
Reads(w, st) ==
  /\ read'[w] = st /\ read[w] \in {"unread", st}
  /\ \A u \in 1..Horizon : u # w => read'[u] = read[u]

\* The evaluation moves on from a window that is read.
LEMMA CursorMoves ==
  ASSUME TypeOK, TypeOK', Underway, eval.ends # <<>>, UNCHANGED <<now, rule>>,
         NEW st \in WindowStates, Reads(Cursor, st),
         eval'.ends = Tail(eval.ends), eval'.upto = eval.upto
  PROVE  Underway' /\ Cursor' = Cursor + 1
<1>1. /\ Cursor \in 1..Horizon /\ Cursor <= eval.upto /\ Cursor \in Nat
      /\ Cursor = eval.upto + 1 - Len(eval.ends)
  BY HeadIsCursor DEF Cursor
<1>2. /\ Len(eval.ends) \in Nat \ {0} /\ DOMAIN Tail(eval.ends) = 1..(Len(eval.ends) - 1)
      /\ Tail(eval.ends) \in Seq(1..Horizon) /\ eval.upto \in Nat
      /\ \A k \in DOMAIN Tail(eval.ends) : Tail(eval.ends)[k] = eval.ends[k + 1]
  BY HeadTyped, WindowsTyped
<1>3. Len(Tail(eval.ends)) = Len(eval.ends) - 1
  BY HeadTailProperties DEF TypeOK
<1>4. Cursor' = Cursor + 1
  <2>1. Cursor' = eval.upto + 1 - (Len(eval.ends) - 1)
    BY <1>3 DEF Cursor
  <2> QED
    BY <1>1, <1>2, <2>1
<1>5. Len(eval'.ends) <= eval'.upto /\ eval'.upto <= now' /\ rule'.last < eval'.upto
  BY <1>2, <1>3 DEF Underway
<1>6. ASSUME NEW k \in 1..Len(eval'.ends)
      PROVE  eval'.ends[k] = eval'.upto - Len(eval'.ends) + k
  <2>1. k \in Nat /\ k + 1 \in 1..Len(eval.ends) /\ k \in DOMAIN Tail(eval.ends)
    BY <1>2, <1>3
  <2>2. eval.ends[k + 1] = eval.upto - Len(eval.ends) + (k + 1)
    BY <2>1 DEF Underway
  <2>3. eval'.ends[k] = eval.ends[k + 1]
    BY <1>2, <2>1
  <2>4. eval'.upto - Len(eval'.ends) + k = eval.upto - (Len(eval.ends) - 1) + k
    BY <1>3
  <2>5. eval.upto - Len(eval.ends) + (k + 1) = eval.upto - (Len(eval.ends) - 1) + k
    BY <1>2, <2>1
  <2> QED
    BY <2>2, <2>3, <2>4, <2>5
<1>7. \A u \in 1..Horizon : /\ u \in Nat
                            /\ read[u] # "unread" => read'[u] # "unread"
                            /\ read'[u] # "unread" => read[u] # "unread" \/ u = Cursor
                            /\ read'[Cursor] # "unread"
  BY <1>1, ConfigAssumption DEF Reads, WindowStates
<1>8. \A u \in 1..Horizon : read'[u] # "unread" => u <= eval'.upto
  BY <1>1, <1>7 DEF Underway
<1>9. Due' = Due
  BY DEF Due
<1>10. ASSUME NEW u \in 1..Horizon, Due <= u, u < Cursor + 1 PROVE read'[u] # "unread"
  <2>1. u = Cursor \/ u < Cursor
    BY <1>1, <1>7, <1>10
  <2> QED
    BY <1>7, <1>10, <2>1 DEF Underway
<1>11. ASSUME NEW u \in 1..Horizon, NEW w \in 1..Horizon, Cursor + 1 <= u, u < w,
              read'[w] # "unread"
       PROVE  read'[u] # "unread"
  <2>1. u \in Nat /\ w \in Nat /\ Cursor <= u /\ w # Cursor
    BY <1>1, <1>7, <1>11
  <2>2. read[w] # "unread"
    BY <1>7, <1>11, <2>1
  <2>3. read[u] # "unread"
    BY <1>11, <2>1, <2>2 DEF Underway
  <2> QED
    BY <1>7, <2>3
<1> QED
  BY <1>4, <1>5, <1>6, <1>8, <1>9, <1>10, <1>11 DEF Underway

\* The actions of a fire come back: its window is done with.
LEMMA SentTells ==
  ASSUME TypeOK, TypeOK', SendInv, SilenceInv, WindowSent
  PROVE  SilenceInv'
<1> SUFFICES ASSUME rule.present PROVE SilenceInv'
  BY DEF SilenceInv, WindowSent
<1>1. /\ eval.pc = "send" /\ eval.ends # <<>> /\ UNCHANGED <<opt, now, read, rule>>
      /\ Told /\ InOrder /\ Underway /\ Recalls
      /\ audit' = Recorded(Row("action", Head(eval.ends), "none", NoRun))
  BY DEF WindowSent, SendInv, SilenceInv
<1>2. SameMarkers
  <2>1. Head(eval.ends) \in 0..Horizon
    BY <1>1, HeadTyped, ConfigAssumption
  <2>2. "action" \in Kinds /\ "none" \in Levels /\ NoRun \in Runs \cup {NoRun}
    BY DEF Kinds, Levels
  <2>3. Row("action", Head(eval.ends), "none", NoRun) \in AuditRow
    BY <2>1, <2>2, RowTyped
  <2> QED
    BY <1>1, <2>3, OtherRecorded DEF Row
<1>3. Told' /\ InOrder'
  BY <1>1, <1>2, StillTold DEF InOrder, Due
<1>4. /\ eval'.ends = Tail(eval.ends) /\ eval'.upto = eval.upto /\ eval'.pc = "scan"
      /\ eval'.armed = eval.armed /\ eval'.fired = eval.fired /\ eval'.level = eval.level
  BY DEF WindowSent, TypeOK
<1>5. Cursor \in 1..Horizon /\ ~eval.armed /\ Fires(read[Cursor])
  BY <1>1, HeadIsCursor DEF Recalls
<1>6. read[Cursor] \in WindowStates
  BY <1>5 DEF TypeOK, Fires, WindowStates
<1>7. Reads(Cursor, read[Cursor])
  BY <1>1, <1>5 DEF Reads
<1>8. Underway' /\ Cursor' = Cursor + 1
  BY <1>1, <1>4, <1>6, <1>7, CursorMoves
<1>9. Recalls'
  <2>1. /\ \A u : Answers(u)' <=> Answers(u)
        /\ FireRows' = FireRows /\ \A i \in FireRows : audit'[i] = audit[i]
    BY <1>1, <1>2, MarkersTyped DEF Fires, Answers, SameMarkers
  <2>2. ASSUME NEW u \in 1..Horizon, Answers(u) PROVE u <= eval.fired \/ u >= Cursor + 1
    <3>1. u <= eval.fired \/ u >= Cursor
      BY <1>1, <1>5, <2>2 DEF Recalls
    <3>2. u # Cursor
      BY <1>5, <2>2 DEF Answers
    <3>3. u \in Nat /\ Cursor \in Nat
      BY <1>1, HeadIsCursor, ConfigAssumption
    <3> QED
      BY <3>1, <3>2, <3>3
  <2>3. \E i \in FireRows : audit[i].at = eval.fired /\ audit[i].level = eval.level
    BY <1>1, <1>5 DEF Recalls
  <2> QED
    BY <1>4, <1>5, <1>8, <2>1, <2>2, <2>3 DEF Recalls
<1> QED
  BY <1>3, <1>8, <1>9 DEF SilenceInv

\* The on-terminal engine writes no marker.
LEMMA RunsTell ==
  ASSUME TypeOK, TypeOK', SilenceInv, NEW r \in Runs, RunSettles(r) \/ RunChecked(r) \/ RunSent(r)
  PROVE  SilenceInv'
<1>1. UNCHANGED <<opt, now, read, rule, eval>> /\ now \in Nat
  BY WindowsTyped DEF RunSettles, RunChecked, RunSent
<1> QED
  BY <1>1, RunsWriteNoMarker, QuietIsTold

\* Neither does the world, but for the operator who deletes the rule.
LEMMA WorldTells ==
  ASSUME TypeOK, TypeOK', SilenceInv,
         WindowCompletes \/ Edit \/ Resume \/ CrashRestart \/ UNCHANGED vars
  PROVE  SilenceInv'
<1>1. CASE ~rule'.present
  BY <1>1 DEF SilenceInv
<1>2. CASE rule'.present
  <2>1. audit' = audit
    BY <1>2 DEF WindowCompletes, Edit, Resume, CrashRestart, vars, TypeOK
  <2>2. UNCHANGED <<opt, read>> /\ rule'.last = rule.last /\ rule'.present = rule.present
    BY <1>2 DEF WindowCompletes, Edit, Resume, CrashRestart, vars, TypeOK
  <2>3. now \in Nat /\ now <= now'
    BY WindowsTyped DEF WindowCompletes, Edit, Resume, CrashRestart, vars
  <2>4. eval' = eval \/ eval'.pc = "idle"
    BY DEF WindowCompletes, Edit, Resume, CrashRestart, vars, Idle
  <2> QED
    BY <2>1, <2>2, <2>3, <2>4, SameLog, QuietIsTold
<1> QED
  BY <1>1, <1>2

-----------------------------------------------------------------------------
\* A window that was not read yet lies after every one that was.
Fresh(w) == read[w] = "unread" => \A u \in 1..Horizon : read[u] # "unread" => u < w

\* The log only grows.
Grows ==
  /\ FireRows \subseteq FireRows' /\ RecoverRows \subseteq RecoverRows'
  /\ FireRows \subseteq Markers /\ RecoverRows \subseteq Markers
  /\ \A i \in Markers : audit'[i] = audit[i]

\* What was read stays; what a window answers is only new at the window that is read now.
LEMMA ReadsStay ==
  ASSUME NEW w \in 1..Horizon, NEW st \in WindowStates, Reads(w, st), opt' = opt
  PROVE  /\ \A u \in 1..Horizon : read[u] # "unread" => read'[u] = read[u]
         /\ \A x : Fires(x)' <=> Fires(x)
         /\ ~Fires("unread")
         /\ \A u \in 1..Horizon : Fires(read[u]) => read[u] # "unread" /\ Fires(read'[u])
         /\ \A u \in 1..Horizon : Answers(u) => read[u] # "unread" /\ Answers(u)'
         /\ \A u \in 1..Horizon : Answers(u)' => Answers(u) \/ (u = w /\ read[w] = "unread")
         /\ \A u \in 1..Horizon : Fires(read'[u]) => Fires(read[u]) \/ (u = w /\ read[w] = "unread")
<1>1. \A x : Fires(x)' <=> Fires(x)
  BY DEF Fires
<1>2. ~Fires("unread") /\ st # "unread"
  BY DEF Fires, WindowStates
<1>3. \A u \in 1..Horizon : read[u] # "unread" => read'[u] = read[u]
  BY DEF Reads
<1>4. \A u \in 1..Horizon : read'[u] = read[u] \/ (u = w /\ read[w] = "unread")
  BY DEF Reads
<1> QED
  BY <1>1, <1>2, <1>3, <1>4 DEF Answers

\* The breaches that were covered stay so, and the new one is.
LEMMA StaysCovered ==
  ASSUME TypeOK, NEW w \in 1..Horizon, NEW st \in WindowStates, Reads(w, st), opt' = opt, Fresh(w),
         Grows, Covered,
         Fires(st) /\ read[w] = "unread" => \E i \in FireRows' : Stands(i, w)'
  PROVE  Covered'
<1> SUFFICES ASSUME NEW v \in 1..Horizon, Fires(read'[v])
             PROVE  \E i \in FireRows' : Stands(i, v)'
  BY ReadsStay DEF Covered
<1>1. CASE Fires(read[v])
  <2>1. PICK i \in FireRows : Stands(i, v)
    BY <1>1 DEF Covered
  <2>2. i \in FireRows' /\ audit'[i] = audit[i] /\ read[v] # "unread" /\ read'[v] = read[v]
    BY <1>1, <2>1, ReadsStay DEF Grows
  <2>3. ASSUME NEW u \in 1..Horizon, audit[i].at < u, u < v, Answers(u)' PROVE FALSE
    <3>1. ~Answers(u)
      BY <2>1, <2>3 DEF Stands
    <3>2. u = w /\ v < w
      BY <2>2, <2>3, <3>1, ReadsStay DEF Fresh
    <3> QED
      BY <2>3, <3>2, ConfigAssumption
  <2> QED
    BY <2>1, <2>2, <2>3 DEF Stands
<1>2. CASE ~Fires(read[v])
  <2>1. v = w /\ read[w] = "unread"
    BY <1>2, ReadsStay
  <2> QED
    BY <2>1 DEF Reads
<1> QED
  BY <1>1, <1>2

\* The breaches that ended keep their recoveries, and those that end now have one.
LEMMA StaysClosed ==
  ASSUME TypeOK, NEW w \in 1..Horizon, NEW st \in WindowStates, Reads(w, st), opt' = opt, Fresh(w),
         Grows, Closed,
         Answers(w)' /\ read[w] = "unread" =>
           \A v \in 1..Horizon : Fires(read[v]) /\ v < w =>
             \E i \in RecoverRows' : v < audit'[i].at /\ audit'[i].at <= w
  PROVE  Closed'
<1> SUFFICES ASSUME NEW v \in 1..Horizon, NEW u \in 1..Horizon, Fires(read'[v]), Answers(u)', v < u
             PROVE  \E i \in RecoverRows' : v < audit'[i].at /\ audit'[i].at <= u
  BY ReadsStay DEF Closed
<1>1. Fires(read[v])
  <2> SUFFICES ASSUME ~Fires(read[v]) PROVE FALSE
    OBVIOUS
  <2>1. v = w /\ read[w] = "unread"
    BY ReadsStay
  <2>2. Answers(u) \/ u = w
    BY ReadsStay
  <2>3. u < w \/ u = w
    BY <2>1, <2>2, ReadsStay DEF Fresh
  <2> QED
    BY <2>1, <2>3, ConfigAssumption
<1>2. CASE Answers(u)
  <2>1. PICK i \in RecoverRows : v < audit[i].at /\ audit[i].at <= u
    BY <1>1, <1>2 DEF Closed
  <2> QED
    BY <2>1 DEF Grows
<1>3. CASE ~Answers(u)
  BY <1>1, <1>3, ReadsStay
<1> QED
  BY <1>2, <1>3

\* The markers stay true.
LEMMA StaysTruthful ==
  ASSUME TypeOK, NEW w \in 1..Horizon, NEW st \in WindowStates, Reads(w, st), opt' = opt, Grows,
         Truthful,
         \A i \in FireRows' \ FireRows : audit'[i].at = w /\ Fires(st) /\ audit'[i].level = LevelOf(st),
         \A i \in RecoverRows' \ RecoverRows : audit'[i].at = w /\ Answers(w)'
  PROVE  Truthful'
<1>1. ASSUME NEW i \in FireRows'
      PROVE  /\ audit'[i].at \in 1..Horizon /\ Fires(read'[audit'[i].at])
             /\ audit'[i].level = LevelOf(read'[audit'[i].at])
  <2>1. CASE i \in FireRows
    <3>1. audit'[i] = audit[i] /\ audit[i].at \in 1..Horizon /\ Fires(read[audit[i].at])
          /\ audit[i].level = LevelOf(read[audit[i].at])
      BY <2>1 DEF Grows, Truthful
    <3>2. read'[audit[i].at] = read[audit[i].at]
      BY <3>1, ReadsStay
    <3> QED
      BY <3>1, <3>2
  <2>2. CASE i \notin FireRows
    BY <2>2 DEF Reads
  <2> QED
    BY <2>1, <2>2
<1>2. ASSUME NEW i \in RecoverRows'
      PROVE  audit'[i].at \in 1..Horizon /\ Answers(audit[i].at)'
  <2>1. CASE i \in RecoverRows
    <3>1. audit'[i] = audit[i] /\ audit[i].at \in 1..Horizon /\ Answers(audit[i].at)
      BY <2>1 DEF Grows, Truthful
    <3>2. read[audit[i].at] # "unread" /\ read'[audit[i].at] = read[audit[i].at]
      BY <3>1, ReadsStay
    <3> QED
      BY <3>1, <3>2 DEF Answers, Fires
  <2>2. CASE i \notin RecoverRows
    <3>1. audit'[i].at = w /\ Answers(w)'
      BY <2>2
    <3> QED
      BY <3>1 DEF Answers
  <2> QED
    BY <2>1, <2>2
<1>3. \A x : Fires(x)' <=> Fires(x)
  BY ReadsStay
<1> QED
  BY <1>1, <1>2, <1>3 DEF Truthful

\* A new marker leaves a latest one.
LEMMA MarkedIsTopped ==
  ASSUME TypeOK, NEW n, NEW kind, NEW w \in Nat, NEW level, AddsMarker(n, kind, w, level), Topped
  PROVE  Topped'
<1> DEFINE Top(S, m) == m \in S /\ \A j \in S : audit[j].at <= audit[m].at
           TopNext(S, m) == m \in S /\ \A j \in S : audit'[j].at <= audit'[m].at
<1>1. /\ Markers' = Markers \cup {n} /\ audit'[n].at = w
      /\ FireRows' = FireRows \/ FireRows' = FireRows \cup {n}
      /\ FireRows \subseteq Markers
      /\ \A i \in Markers : audit'[i] = audit[i] /\ audit[i].at \in Nat
  BY MarkersTyped DEF AddsMarker
<1>2. ASSUME NEW S \in SUBSET Markers, NEW m, Top(S, m)
      PROVE  \E x : TopNext(S \cup {n}, x)
  <2>1. CASE audit[m].at <= w
    <3>1. TopNext(S \cup {n}, n)
      BY <1>1, <1>2, <2>1
    <3> QED
      BY <3>1
  <2>2. CASE ~(audit[m].at <= w)
    <3>1. TopNext(S \cup {n}, m)
      BY <1>1, <1>2, <2>2
    <3> QED
      BY <3>1
  <2> QED
    BY <2>1, <2>2
<1>3. ASSUME NEW S \in SUBSET Markers, S # {} => \E m : Top(S, m)
      PROVE  /\ \E x : TopNext(S \cup {n}, x)
             /\ S # {} => \E x : TopNext(S, x)
  <2>1. CASE S = {}
    <3>1. TopNext(S \cup {n}, n)
      BY <1>1, <2>1
    <3> QED
      BY <2>1, <3>1
  <2>2. CASE S # {}
    <3>1. PICK m : Top(S, m)
      BY <1>3, <2>2
    <3>2. TopNext(S, m)
      BY <1>1, <3>1
    <3> QED
      BY <1>2, <3>1, <3>2
  <2> QED
    BY <2>1, <2>2
<1>4. /\ Markers # {} => \E m : Top(Markers, m)
      /\ FireRows # {} => \E m : Top(FireRows, m)
  BY DEF Topped, Latest
<1>5. /\ \E x : TopNext(Markers', x)
      /\ FireRows' # {} => \E x : TopNext(FireRows', x)
  <2> HIDE DEF Top, TopNext
  <2>1. \E x : TopNext(Markers \cup {n}, x)
    BY <1>3, <1>4
  <2>2. (\E x : TopNext(FireRows \cup {n}, x)) /\ (FireRows # {} => \E x : TopNext(FireRows, x))
    BY <1>1, <1>3, <1>4
  <2> QED
    BY <1>1, <2>1, <2>2
<1> QED
  BY <1>5 DEF Topped, Latest

\* What a scan step finds: a rule that is told of, and the window at the cursor.
Reading(w, st) ==
  /\ TypeOK /\ TypeOK' /\ rule.present /\ UNCHANGED <<opt, now, rule>>
  /\ eval.pc = "scan" /\ eval.ends # <<>>
  /\ Told /\ InOrder /\ Underway /\ Recalls
  /\ st \in WindowStates /\ Reads(w, st) /\ w = Cursor

\* Its window is fresh, and a fire or a recovery comes to stand before it.
LEMMA ReadingFinds ==
  ASSUME NEW w, NEW st, Reading(w, st)
  PROVE  /\ w \in 1..Horizon /\ w \in Nat /\ Fresh(w) /\ w = Cursor /\ w <= eval.upto
         /\ Head(eval.ends) = w /\ 1..Horizon \subseteq Nat
         /\ \A i \in FireRows : audit[i].at \in 1..Horizon /\ read[audit[i].at] # "unread"
         /\ \A i \in RecoverRows : audit[i].at \in 1..Horizon /\ read[audit[i].at] # "unread"
<1>1. TypeOK /\ Underway /\ eval.ends # <<>> /\ Truthful /\ w = Cursor
  BY DEF Reading, Told
<1>2. Head(eval.ends) = w /\ w \in 1..Horizon /\ w \in Nat /\ w <= eval.upto
  BY <1>1, HeadIsCursor
<1>3. 1..Horizon \subseteq Nat
  BY ConfigAssumption
<1>4. ASSUME read[w] = "unread", NEW u \in 1..Horizon, read[u] # "unread" PROVE u < w
  <2>1. ~(w < u)
    BY <1>1, <1>2, <1>4 DEF Underway
  <2> QED
    BY <1>2, <1>3, <1>4, <2>1
<1>5. /\ \A i \in FireRows : audit[i].at \in 1..Horizon /\ read[audit[i].at] # "unread"
      /\ \A i \in RecoverRows : audit[i].at \in 1..Horizon /\ read[audit[i].at] # "unread"
  BY <1>1 DEF Truthful, Answers, Fires
<1> QED
  BY <1>1, <1>2, <1>3, <1>4, <1>5 DEF Fresh

\* The order of the reads survives the next one.
LEMMA ReadingInOrder ==
  ASSUME NEW w, NEW st, Reading(w, st)
  PROVE  InOrder'
<1>1. /\ w \in 1..Horizon /\ w \in Nat /\ 1..Horizon \subseteq Nat /\ w <= eval.upto /\ w = Cursor
      /\ eval.upto <= now /\ InOrder /\ Reads(w, st) /\ Underway /\ now' = now
      /\ now \in Nat /\ eval.upto \in Nat
  BY ReadingFinds, WindowsTyped DEF Reading, Underway
<1>2. Due' = Due
  BY DEF Due, Reading
<1>3. /\ \A u \in 1..Horizon : read[u] # "unread" => read'[u] # "unread"
      /\ \A u \in 1..Horizon : read'[u] # "unread" => read[u] # "unread" \/ u = w
      /\ read'[w] # "unread"
  BY <1>1 DEF Reads, Reading, WindowStates
<1>4. \A u \in 1..Horizon : read'[u] # "unread" => u <= now
  BY <1>1, <1>3 DEF InOrder
<1>5. ASSUME NEW u \in 1..Horizon, NEW v \in 1..Horizon, Due <= u, u < v, read'[v] # "unread"
      PROVE  read'[u] # "unread"
  <2>1. CASE read[v] # "unread"
    BY <1>1, <1>3, <1>5, <2>1 DEF InOrder
  <2>2. CASE v = w
    BY <1>1, <1>3, <1>5, <2>2 DEF Underway
  <2> QED
    BY <1>3, <1>5, <2>1, <2>2
<1> QED
  BY <1>1, <1>2, <1>4, <1>5 DEF InOrder

\* A window that fires: its marker stands behind it.
LEMMA FireTells ==
  ASSUME NEW w, NEW st, Reading(w, st), FireWindow(w, st)
  PROVE  SilenceInv'
<1>1. /\ TypeOK /\ TypeOK' /\ rule.present /\ st \in WindowStates /\ opt' = opt /\ Fires(st)
      /\ Told /\ Underway /\ Recalls /\ Reads(w, st) /\ FireWindow(w, st) /\ eval.ends # <<>>
      /\ now' = now /\ rule' = rule /\ eval.pc = "scan"
  BY DEF Reading, FireWindow
<1>2. /\ w \in 1..Horizon /\ w \in Nat /\ Fresh(w) /\ 1..Horizon \subseteq Nat /\ w = Cursor
  BY ReadingFinds
<1>3. PICK n : AddsMarker(n, "window_fire", w, LevelOf(st))
  BY <1>1, <1>2, FireAddsMarker
<1>4. /\ eval'.armed = FALSE /\ eval'.fired = w /\ eval'.level = LevelOf(st)
      /\ eval'.upto = eval.upto
      /\ IF eval.paused THEN eval'.ends = Tail(eval.ends) /\ eval'.pc = "scan"
                        ELSE eval'.ends = eval.ends /\ eval'.pc = "send"
  BY <1>1 DEF FireWindow, TypeOK
<1>5. /\ Grows /\ RecoverRows' = RecoverRows /\ n \in FireRows' /\ FireRows' = FireRows \cup {n}
      /\ audit'[n].at = w /\ audit'[n].level = LevelOf(st)
  BY <1>1, <1>3, MarkersTyped DEF AddsMarker, Grows
<1>6. read'[w] = st /\ \A x : Fires(x)' <=> Fires(x)
  BY <1>1, <1>2, ReadsStay DEF Reads
<1>7. Told'
  <2>1. Truthful'
    BY <1>1, <1>2, <1>5, StaysTruthful DEF Told
  <2>2. Stands(n, w)'
    <3>1. w <= w /\ \A u \in 1..Horizon : ~(w < u /\ u < w)
      BY <1>2
    <3>2. ~(st = "alert" /\ LevelOf(st) = "warn")
      BY DEF LevelOf
    <3> QED
      BY <1>5, <1>6, <3>1, <3>2 DEF Stands
  <2>3. Covered'
    BY <1>1, <1>2, <1>5, <2>2, StaysCovered DEF Told
  <2>4. ~Answers(w)'
    BY <1>1, <1>6 DEF Answers
  <2>5. Closed'
    BY <1>1, <1>2, <1>5, <2>4, StaysClosed DEF Told
  <2>6. Topped'
    BY <1>1, <1>2, <1>3, MarkedIsTopped DEF Told
  <2> QED
    BY <2>1, <2>3, <2>5, <2>6 DEF Told
<1>8. Underway' /\ Cursor' \in {w, w + 1} /\ (eval'.pc = "send" => Cursor' = w)
  <2>1. CASE eval.paused
    BY <1>1, <1>2, <1>4, <2>1, CursorMoves
  <2>2. CASE ~eval.paused
    <3>1. eval'.ends = eval.ends /\ eval'.upto = eval.upto /\ Cursor' = Cursor
      BY <1>4, <2>2 DEF Cursor
    <3>2. \A u \in 1..Horizon : /\ read[u] # "unread" => read'[u] # "unread"
                                /\ read'[u] # "unread" => read[u] # "unread" \/ u = w
                                /\ read'[w] # "unread"
      BY <1>1, <1>6 DEF Reads, WindowStates
    <3>3. Cursor <= eval.upto /\ Due' = Due
      BY <1>1, HeadIsCursor DEF Due
    <3>4. ASSUME NEW u \in 1..Horizon, NEW v \in 1..Horizon, Cursor <= u, u < v, read'[v] # "unread"
          PROVE  read'[u] # "unread"
      <4>1. v # w
        BY <1>2, <3>4
      <4> QED
        BY <1>1, <3>2, <3>4, <4>1 DEF Underway
    <3> QED
      BY <1>1, <1>2, <3>1, <3>2, <3>3, <3>4 DEF Underway
  <2> QED
    BY <2>1, <2>2
<1>9. Recalls'
  <2>1. \A u \in 1..Horizon : u <= w \/ u >= Cursor'
    BY <1>2, <1>8
  <2> QED
    BY <1>1, <1>4, <1>5, <1>6, <1>8, <2>1 DEF Recalls
<1>10. InOrder'
  BY ReadingInOrder
<1> QED
  BY <1>7, <1>8, <1>9, <1>10 DEF SilenceInv

\* A window that is answered without a marker: the breach it may be in stands behind a fire.
LEMMA UnmarkedTells ==
  ASSUME NEW w, NEW st, Reading(w, st), SameMarkers,
         eval'.ends = Tail(eval.ends), eval'.upto = eval.upto, eval'.armed = eval.armed,
         eval'.pc = "scan",
         ~eval.armed => eval'.fired = eval.fired /\ eval'.level = eval.level,
         Fires(st) => ~eval.armed /\ ~CooldownElapsed(w) /\ ~Escalated(st),
         ~Fires(st) /\ ~(st = "no_data" /\ opt.policy = "hold") => eval.armed
  PROVE  SilenceInv'
<1>1. /\ TypeOK /\ TypeOK' /\ rule.present /\ st \in WindowStates /\ opt' = opt
      /\ Told /\ Underway /\ Recalls /\ Reads(w, st) /\ eval.ends # <<>>
      /\ now' = now /\ rule' = rule
  BY DEF Reading
<1>2. /\ w \in 1..Horizon /\ w \in Nat /\ Fresh(w) /\ 1..Horizon \subseteq Nat /\ w = Cursor
      /\ \A i \in FireRows : audit[i].at \in 1..Horizon /\ read[audit[i].at] # "unread"
      /\ \A i \in RecoverRows : audit[i].at \in 1..Horizon /\ read[audit[i].at] # "unread"
  BY ReadingFinds
<1>3. /\ Grows /\ RecoverRows' = RecoverRows /\ FireRows' = FireRows /\ Markers' = Markers
      /\ \A i \in FireRows \cup RecoverRows : audit'[i] = audit[i]
  BY <1>1, MarkersTyped DEF SameMarkers, Grows
<1>4. read'[w] = st /\ \A x : Fires(x)' <=> Fires(x)
  BY <1>1, <1>2, ReadsStay DEF Reads
<1>5. Truthful'
  BY <1>1, <1>2, <1>3, StaysTruthful DEF Told
<1>6. ASSUME Fires(st), read[w] = "unread" PROVE \E i \in FireRows' : Stands(i, w)'
  <2>1. PICK i \in FireRows : audit[i].at = eval.fired /\ audit[i].level = eval.level
    BY <1>1, <1>6 DEF Recalls
  <2>2. \A u \in 1..Horizon : Answers(u) => u <= eval.fired \/ u >= w
    BY <1>1, <1>2, <1>6 DEF Recalls
  <2>3. eval.fired \in 1..Horizon /\ eval.fired < w
    BY <1>2, <1>6, <2>1 DEF Fresh
  <2>4. w < eval.fired + opt.cooldown
    <3>1. opt.cooldown \in Nat
      BY <1>1, WindowsTyped
    <3>2. eval.fired # 0 /\ eval.fired \in Nat
      BY <2>3, ConfigAssumption
    <3>3. ~(w >= eval.fired + opt.cooldown)
      BY <1>6, <3>2 DEF CooldownElapsed
    <3> QED
      BY <1>2, <3>1, <3>2, <3>3
  <2>5. ~(st = "alert" /\ eval.level = "warn")
    BY <1>6 DEF Escalated, LevelOf
  <2>6. ASSUME NEW u \in 1..Horizon, eval.fired < u, u < w, Answers(u)' PROVE FALSE
    <3>1. Answers(u)
      BY <1>1, <1>2, <2>6, ReadsStay
    <3> QED
      BY <1>2, <2>2, <2>3, <2>6, <3>1
  <2>7. i \in FireRows' /\ audit'[i].at = eval.fired /\ audit'[i].level = eval.level
    BY <1>3, <2>1
  <2>8. eval.fired <= w
    BY <1>2, <2>3
  <2>9. Stands(i, w)'
    BY <1>1, <1>4, <2>4, <2>5, <2>6, <2>7, <2>8 DEF Stands
  <2> QED
    BY <2>7, <2>9
<1>7. Covered'
  BY <1>1, <1>2, <1>3, <1>6, StaysCovered DEF Told
<1>8. ASSUME Answers(w)', read[w] = "unread", NEW v \in 1..Horizon, Fires(read[v]), v < w
      PROVE  \E i \in RecoverRows' : v < audit'[i].at /\ audit'[i].at <= w
  <2>1. eval.armed
    BY <1>1, <1>4, <1>8 DEF Answers
  <2>2. v >= w \/ \E i \in RecoverRows : audit[i].at > v
    BY <1>1, <1>2, <1>8, <2>1 DEF Recalls
  <2>3. PICK i \in RecoverRows : audit[i].at > v
    BY <1>2, <1>8, <2>2
  <2>4. audit[i].at \in Nat /\ audit[i].at < w /\ v \in Nat
    BY <1>2, <1>8, <2>3 DEF Fresh
  <2>5. i \in RecoverRows' /\ audit'[i] = audit[i]
    BY <1>3, <2>3
  <2> QED
    BY <1>2, <2>3, <2>4, <2>5
<1>9. Closed'
  BY <1>1, <1>2, <1>3, <1>8, StaysClosed DEF Told
<1>10. Topped'
  <2>1. \A i \in Markers : audit'[i] = audit[i]
    BY DEF SameMarkers
  <2> QED
    BY <1>1, <1>3, <2>1 DEF Told, Topped, Latest
<1>11. Underway' /\ Cursor' = w + 1
  BY <1>1, <1>2, CursorMoves
<1>12. Recalls'
  <2>1. ASSUME eval.armed, NEW v \in 1..Horizon, Fires(read'[v])
        PROVE  v >= w + 1 \/ \E i \in RecoverRows : audit[i].at > v
    <3>1. ~Fires(st) /\ v # w /\ Fires(read[v])
      BY <1>1, <1>2, <1>4, <2>1, ReadsStay
    <3>2. v >= w \/ \E i \in RecoverRows : audit[i].at > v
      BY <1>1, <1>2, <2>1, <3>1 DEF Recalls
    <3>3. v \in Nat
      BY <1>2
    <3> QED
      BY <1>2, <3>1, <3>2, <3>3
  <2>2. ASSUME ~eval.armed, NEW u \in 1..Horizon, Answers(u)'
        PROVE  u <= eval.fired \/ u >= w + 1
    <3>1. u # w
      BY <1>1, <1>4, <2>2 DEF Answers
    <3>2. Answers(u)
      BY <1>1, <1>2, <2>2, <3>1, ReadsStay
    <3>3. u <= eval.fired \/ u >= w
      BY <1>1, <1>2, <2>2, <3>2 DEF Recalls
    <3>4. u \in Nat
      BY <1>2
    <3> QED
      BY <1>2, <3>1, <3>3, <3>4
  <2>3. ~eval.armed => \E i \in FireRows : audit[i].at = eval.fired /\ audit[i].level = eval.level
    BY <1>1 DEF Recalls
  <2>4. eval.armed => \A v \in 1..Horizon :
          Fires(read[v])' => v >= Cursor' \/ \E i \in RecoverRows' : audit'[i].at > v
    BY <1>3, <1>4, <1>11, <2>1
  <2>5. ~eval.armed => \E i \in FireRows' : audit'[i].at = eval'.fired /\ audit'[i].level = eval'.level
    BY <1>3, <2>3
  <2>6. ~eval.armed => \A u \in 1..Horizon : Answers(u)' => u <= eval'.fired \/ u >= Cursor'
    BY <1>11, <2>2
  <2> QED
    BY <2>4, <2>5, <2>6 DEF Recalls
<1>13. InOrder'
  BY ReadingInOrder
<1> QED
  BY <1>5, <1>7, <1>9, <1>10, <1>11, <1>12, <1>13 DEF SilenceInv, Told

\* A recovery that is written ends every breach before it.
LEMMA RecoverTells ==
  ASSUME NEW w, NEW st, Reading(w, st), RecoverWindow(w, st), ~eval.armed
  PROVE  SilenceInv'
<1>1. /\ TypeOK /\ TypeOK' /\ rule.present /\ st \in WindowStates /\ opt' = opt
      /\ ~Fires(st) /\ ~(st = "no_data" /\ opt.policy = "hold")
      /\ Told /\ Underway /\ Recalls /\ Reads(w, st) /\ eval.ends # <<>>
      /\ now' = now /\ rule' = rule
      /\ audit' = Recorded(Row("window_recover", w, "none", NoRun))
  BY DEF Reading, RecoverWindow
<1>2. /\ w \in 1..Horizon /\ w \in Nat /\ Fresh(w) /\ 1..Horizon \subseteq Nat /\ w = Cursor
      /\ w \in 0..Horizon
  BY ReadingFinds, ConfigAssumption
<1>3. PICK n : AddsMarker(n, "window_recover", w, "none")
  BY <1>1, <1>2, RecoverAddsMarker
<1>4. /\ eval'.armed = TRUE /\ eval'.ends = Tail(eval.ends) /\ eval'.upto = eval.upto
      /\ eval'.pc = "scan"
  BY <1>1 DEF RecoverWindow, TypeOK, Reading
<1>5. /\ Grows /\ FireRows' = FireRows /\ n \in RecoverRows' /\ RecoverRows' = RecoverRows \cup {n}
      /\ audit'[n].at = w
  BY <1>1, <1>3, MarkersTyped DEF AddsMarker, Grows
<1>6. read'[w] = st /\ (\A x : Fires(x)' <=> Fires(x)) /\ st # "unread"
  BY <1>1, <1>2, ReadsStay DEF Reads, WindowStates
<1>7. Answers(w)'
  BY <1>1, <1>6 DEF Answers
<1>8. Truthful'
  BY <1>1, <1>2, <1>5, <1>7, StaysTruthful DEF Told
<1>9. Covered'
  BY <1>1, <1>2, <1>5, StaysCovered DEF Told
<1>10. Closed'
  <2>1. n \in RecoverRows' /\ audit'[n].at <= w
    BY <1>2, <1>5
  <2> QED
    BY <1>1, <1>2, <1>5, <2>1, StaysClosed DEF Told
<1>11. Topped'
  BY <1>1, <1>2, <1>3, MarkedIsTopped DEF Told
<1>12. Underway' /\ Cursor' = w + 1
  BY <1>1, <1>2, <1>4, CursorMoves
<1>13. Recalls'
  <2>1. ASSUME NEW v \in 1..Horizon, Fires(read'[v])
        PROVE  v >= w + 1 \/ \E i \in RecoverRows' : audit'[i].at > v
    <3>1. v # w /\ v \in Nat
      BY <1>1, <1>2, <1>6, <2>1
    <3>2. CASE v < w
      BY <1>5, <3>2
    <3>3. CASE ~(v < w)
      BY <1>2, <3>1, <3>3
    <3> QED
      BY <3>2, <3>3
  <2>2. \A v \in 1..Horizon : Fires(read[v])' => v >= Cursor' \/ \E i \in RecoverRows' : audit'[i].at > v
    BY <1>6, <1>12, <2>1
  <2> QED
    BY <1>4, <2>2 DEF Recalls
<1>14. InOrder'
  BY ReadingInOrder
<1> QED
  BY <1>8, <1>9, <1>10, <1>11, <1>12, <1>13, <1>14 DEF SilenceInv, Told

\* A window is read and answered.
LEMMA ScanTells ==
  ASSUME TypeOK, TypeOK', SilenceInv, Scan
  PROVE  SilenceInv'
<1> SUFFICES ASSUME rule.present PROVE SilenceInv'
  BY DEF SilenceInv, Scan
<1>1. PICK w : w = Head(eval.ends)
  OBVIOUS
<1>2. PICK st \in WindowStates :
        /\ read[w] \in {"unread", st} /\ read' = [read EXCEPT ![w] = st]
        /\ FireWindow(w, st) \/ SuppressWindow(w, st) \/ HoldWindow(w, st) \/ RecoverWindow(w, st)
  BY <1>1 DEF Scan
<1>3. Reading(w, st)
  <2>1. eval.pc = "scan" /\ eval.ends # <<>> /\ UNCHANGED <<opt, now, rule>>
    BY DEF Scan
  <2>2. Told /\ InOrder /\ Underway /\ Recalls
    BY <2>1 DEF SilenceInv
  <2>3. w = Cursor /\ w \in 1..Horizon
    BY <1>1, <2>1, <2>2, HeadIsCursor
  <2>4. Reads(w, st)
    BY <1>2, <2>3 DEF Reads, TypeOK
  <2> QED
    BY <1>2, <2>1, <2>2, <2>3, <2>4 DEF Reading
<1>4. CASE FireWindow(w, st)
  BY <1>3, <1>4, FireTells
<1>5. CASE RecoverWindow(w, st) /\ ~eval.armed
  BY <1>3, <1>5, RecoverTells
<1>6. CASE RecoverWindow(w, st) /\ eval.armed
  <2>1. /\ audit' = audit /\ eval'.ends = Tail(eval.ends) /\ eval'.upto = eval.upto
        /\ eval'.armed = eval.armed /\ eval'.pc = "scan" /\ ~Fires(st)
    BY <1>6 DEF RecoverWindow, Scan, TypeOK
  <2> QED
    BY <1>3, <1>6, <2>1, SameLog, UnmarkedTells
<1>7. CASE SuppressWindow(w, st)
  <2>1. /\ audit' = audit /\ eval'.ends = Tail(eval.ends) /\ eval'.upto = eval.upto
        /\ eval'.armed = eval.armed /\ eval'.pc = "scan" /\ eval'.fired = eval.fired
        /\ eval'.level = eval.level
        /\ Fires(st) /\ ~eval.armed /\ ~CooldownElapsed(w) /\ ~Escalated(st)
    BY <1>7 DEF SuppressWindow, Scan, TypeOK
  <2> QED
    BY <1>3, <2>1, SameLog, UnmarkedTells
<1>8. CASE HoldWindow(w, st)
  <2>1. /\ audit' = IF eval.armed THEN audit ELSE Recorded(Row("window_no_data", w, "none", NoRun))
        /\ eval'.ends = Tail(eval.ends) /\ eval'.upto = eval.upto
        /\ eval'.armed = eval.armed /\ eval'.pc = "scan" /\ eval'.fired = eval.fired
        /\ eval'.level = eval.level /\ st = "no_data" /\ opt.policy = "hold"
    BY <1>8 DEF HoldWindow, Scan, TypeOK
  <2>2. ~Fires(st)
    BY <2>1 DEF Fires
  <2>3. SameMarkers
    <3>1. w \in 0..Horizon
      BY <1>3, ReadingFinds, ConfigAssumption
    <3>2. "window_no_data" \in Kinds /\ "none" \in Levels /\ NoRun \in Runs \cup {NoRun}
      BY DEF Kinds, Levels
    <3>3. Row("window_no_data", w, "none", NoRun) \in AuditRow
      BY <3>1, <3>2, RowTyped
    <3> QED
      BY <2>1, <3>3, SameLog, OtherRecorded DEF Row
  <2> QED
    BY <1>3, <2>1, <2>2, <2>3, UnmarkedTells
<1> QED
  BY <1>2, <1>4, <1>5, <1>6, <1>7, <1>8

\* Behind every breach stands a fire that no recovery ended, within the cooldown and not of a
\* lesser level: however often evaluations are cut off, repeated over the same windows or left
\* behind by a catch-up, the log is enough to take them up again.
THEOREM NeverSilent == Spec => []NoSilentBreach
<1> DEFINE Inv == TypeOK /\ SendInv /\ SilenceInv
<1>1. Init => Inv
  <2> SUFFICES ASSUME Init PROVE SilenceInv
    BY InitTyped
  <2>1. /\ FireRows = {} /\ RecoverRows = {} /\ Markers = {}
        /\ \A w \in 1..Horizon : read[w] = "unread"
        /\ eval.pc = "idle"
    BY DEF Init, FireRows, RecoverRows, Markers, Rows, Idle
  <2>2. ~Fires("unread")
    BY DEF Fires
  <2>3. Told /\ InOrder
    BY <2>1, <2>2 DEF Told, Truthful, Covered, Closed, Topped, InOrder
  <2> QED
    BY <2>1, <2>3 DEF SilenceInv
<1>2. Inv /\ [Next]_vars => Inv'
  <2> SUFFICES ASSUME Inv, [Next]_vars PROVE Inv'
    OBVIOUS
  <2>1. TypeOK' /\ SendInv'
    BY StepKeepsTypes
  <2>2. SilenceInv'
    BY <2>1, TickTells, ScanTells, SentTells, EndTells, RunsTell, WorldTells DEF Next, Engine
  <2> QED
    BY <2>1, <2>2
<1>3. Inv => NoSilentBreach
  BY ToldIsHeard
<1> QED
  BY <1>1, <1>2, <1>3, PTL DEF Spec
=============================================================================
