------------------------------ MODULE WatchRules ------------------------------
(***************************************************************************)
(* One watch rule and the two engines that evaluate it: the windowed       *)
(* evaluator, driven by the scheduler's tick and by the catch-up of a boot,*)
(* and the on-terminal engine, called once for every run that settles.     *)
(*                                                                         *)
(* The evaluator keeps nothing in memory between two evaluations: it reads *)
(* its state back from the audit log.  Time counts window widths: window w *)
(* ends at time w.  The runs that settle match the rule and its sample;    *)
(* the summary row of a catch-up is left out.                              *)
(***************************************************************************)
EXTENDS Naturals, Sequences

CONSTANTS
  Runs,        \* the runs that settle
  NoRun,       \* the run of a windowed row
  Horizon,     \* bound: how many windows complete
  CatchUp,     \* WATCH_CATCHUP_MAX_WINDOWS
  Configs,     \* the noData policies, cooldowns and minimum intervals of the rule
  MaxEdits,    \* bound: how often the operator changes the rule
  MaxCrashes   \* bound

Policies == {"hold", "ok", "notify"}
Triggers == {"windowed", "on_terminal"}
WindowStates == {"no_data", "ok", "warn", "alert"}
Levels == {"none", "warn", "alert"}

ASSUME ConfigAssumption ==
  /\ NoRun \notin Runs
  /\ Horizon \in Nat /\ CatchUp \in Nat \ {0} /\ MaxEdits \in Nat /\ MaxCrashes \in Nat
  /\ Configs \subseteq [policy : Policies, cooldown : Nat, interval : Nat]

VARIABLES
  opt,      \* configuration
  now,      \* the clock
  read,     \* what the metrics say of each window, decided when they are first asked
  rule,     \* the watch_rules row
  audit,    \* the watch_rule_events rows, in the order they were written
  eval,     \* the windowed evaluation under way
  duty,     \* the on-terminal evaluation of every run
  edits, crashes,
  cut,      \* history: a crash cut an evaluation off
  overlap   \* history: the runs whose dispatch began while another's was under way

vars == <<opt, now, read, rule, audit, eval, duty, edits, crashes, cut, overlap>>

-----------------------------------------------------------------------------
\* The audit log.

Row(kind, at, level, run) == [kind |-> kind, at |-> at, level |-> level, run |-> run]
\* recordEvent: the row of a rule that is gone is swallowed.
Recorded(row) == IF rule.present THEN Append(audit, row) ELSE audit
Rows(kinds) == {i \in DOMAIN audit : audit[i].kind \in kinds}
\* ORDER BY at DESC, id DESC LIMIT 1, the ids being random.
Latest(rows) == {i \in rows : \A j \in rows : audit[j].at <= audit[i].at}

\* Mutation: an empty window's marker is read back as a recovery.
SeedsOfMarkers ==
  LET fires == Latest(Rows({"window_fire"}))
      marks == Latest(Rows({"window_fire", "window_recover", "window_no_data"}))
  IN {[armed |-> marks = {} \/ audit[m].kind # "window_fire",
       fired |-> IF fires = {} THEN 0 ELSE audit[f].at,
       level |-> IF fires = {} THEN "none" ELSE audit[f].level] :
         m \in IF marks = {} THEN {0} ELSE marks, f \in IF fires = {} THEN {0} ELSE fires}
\* What the evaluator may read back.
getWindowState ==
  LET fires == Latest(Rows({"window_fire"}))
      marks == Latest(Rows({"window_fire", "window_recover"}))
  IN {[armed |-> marks = {} \/ audit[m].kind = "window_recover",
       fired |-> IF fires = {} THEN 0 ELSE audit[f].at,
       level |-> IF fires = {} THEN "none" ELSE audit[f].level] :
         m \in IF marks = {} THEN {0} ELSE marks, f \in IF fires = {} THEN {0} ELSE fires}

\* The times of the action rows, whichever engine wrote them.
ActedAt == {audit[i].at : i \in Rows({"action"})}

-----------------------------------------------------------------------------
\* The windowed evaluator.

Idle == [pc |-> "idle", ends |-> <<>>, armed |-> TRUE, fired |-> 0, level |-> "none",
         paused |-> FALSE, upto |-> 0]

\* enumerateWindowEnds: the windows since the baseline, the most recent CatchUp of them;
\* a rule that was never evaluated (baseline 0) starts with the last one.
\* Mutation: the window under way counts as a completed one.
WindowsAhead(last) ==
  LET first == IF last = 0 THEN now + 1 ELSE last + 1
  IN IF now < last THEN <<>> ELSE [i \in 1..(now + 2 - first) |-> first + i - 1]
enumerateWindowEnds(last) ==
  LET first == IF last = 0 THEN now
               ELSE IF last + CatchUp < now THEN now + 1 - CatchUp ELSE last + 1
  IN IF now = 0 \/ now <= last THEN <<>> ELSE [i \in 1..(now + 1 - first) |-> first + i - 1]

Watches(trigger) == rule.present /\ rule.enabled /\ rule.trigger = trigger

\* The scheduler's tick, or the catch-up of the boot, takes the rule as it is now.
Tick ==
  /\ eval.pc = "idle"
  /\ Watches("windowed") /\ enumerateWindowEnds(rule.last) # <<>>
  /\ \E seed \in getWindowState :
       eval' = [pc |-> "scan", ends |-> enumerateWindowEnds(rule.last), armed |-> seed.armed,
                fired |-> seed.fired, level |-> seed.level, paused |-> rule.paused, upto |-> now]
  /\ UNCHANGED <<opt, now, read, rule, audit, duty, edits, crashes, cut, overlap>>

Fires(st) == st \in {"warn", "alert"} \/ (st = "no_data" /\ opt.policy = "notify")
LevelOf(st) == IF st \in {"warn", "alert"} THEN st ELSE "none"
CooldownElapsed(w) == eval.fired # 0 /\ w >= eval.fired + opt.cooldown
\* Mutation: a warning swallows the alert that follows it.
NeverEscalates(st) == FALSE
Escalated(st) == LevelOf(st) = "alert" /\ eval.level = "warn"

\* The next window fires: the marker is written before the actions are awaited, and also
\* when the rule was paused, which dispatches nothing.
FireWindow(w, st) ==
  /\ Fires(st)
  /\ eval.armed \/ CooldownElapsed(w) \/ Escalated(st)
  /\ audit' = IF ~rule.present THEN audit
              ELSE audit \o <<Row("window_fire", w, LevelOf(st), NoRun)>>
                         \o (IF eval.paused THEN <<Row("paused", w, "none", NoRun)>> ELSE <<>>)
  /\ eval' = [eval EXCEPT !.armed = FALSE, !.fired = w, !.level = LevelOf(st),
                          !.pc = IF eval.paused THEN "scan" ELSE "send",
                          !.ends = IF eval.paused THEN Tail(@) ELSE @]

SuppressWindow(w, st) ==
  /\ Fires(st)
  /\ ~eval.armed /\ ~CooldownElapsed(w) /\ ~Escalated(st)
  /\ eval' = [eval EXCEPT !.ends = Tail(@)]
  /\ UNCHANGED audit

\* An empty window is held: it is noted while a recovery is withheld.
HoldWindow(w, st) ==
  /\ st = "no_data" /\ opt.policy = "hold"
  /\ audit' = IF eval.armed THEN audit ELSE Recorded(Row("window_no_data", w, "none", NoRun))
  /\ eval' = [eval EXCEPT !.ends = Tail(@)]

RecoverWindow(w, st) ==
  /\ ~Fires(st) /\ ~(st = "no_data" /\ opt.policy = "hold")
  /\ audit' = IF eval.armed THEN audit ELSE Recorded(Row("window_recover", w, "none", NoRun))
  /\ eval' = [eval EXCEPT !.armed = TRUE, !.level = "none", !.ends = Tail(@)]

Scan ==
  /\ eval.pc = "scan" /\ eval.ends # <<>>
  /\ LET w == Head(eval.ends)
     IN \E st \in WindowStates :
          /\ read[w] \in {"unread", st}
          /\ read' = [read EXCEPT ![w] = st]
          /\ \/ FireWindow(w, st) \/ SuppressWindow(w, st) \/ HoldWindow(w, st) \/ RecoverWindow(w, st)
  /\ UNCHANGED <<opt, now, rule, duty, edits, crashes, cut, overlap>>

\* The awaited actions of a fire come back; one row stands for all of them.
WindowSent ==
  /\ eval.pc = "send"
  /\ audit' = Recorded(Row("action", Head(eval.ends), "none", NoRun))
  /\ eval' = [eval EXCEPT !.pc = "scan", !.ends = Tail(@)]
  /\ UNCHANGED <<opt, now, read, rule, duty, edits, crashes, cut, overlap>>

\* Mutation: the baseline is not advanced.
BaselineKept(w) == UNCHANGED rule
setLastEvaluatedAt(w) == rule' = IF rule.present THEN [rule EXCEPT !.last = w] ELSE rule

EvaluationEnds ==
  /\ eval.pc = "scan" /\ eval.ends = <<>>
  /\ setLastEvaluatedAt(eval.upto)
  /\ eval' = Idle
  /\ UNCHANGED <<opt, now, read, audit, duty, edits, crashes, cut, overlap>>

-----------------------------------------------------------------------------
\* The on-terminal engine.

NoDuty == [pc |-> "none", at |-> 0, paused |-> FALSE]
Over == [NoDuty EXCEPT !.pc = "over"]

\* A run settles while the rule watches: the rules are read, and those before this one have
\* their actions awaited.
RunSettles(r) ==
  /\ duty[r].pc = "none" /\ Watches("on_terminal")
  /\ duty' = [duty EXCEPT ![r] = [pc |-> "matched", at |-> now, paused |-> rule.paused]]
  /\ UNCHANGED <<opt, now, read, rule, audit, eval, edits, crashes, cut, overlap>>

\* Mutation: only rows of this very moment limit.
LimitedNow(at) == opt.interval > 0 /\ at \in ActedAt
\* The latest action row decides, and so does any that is too close.
RateLimited(at) == opt.interval > 0 /\ \E last \in ActedAt : at < last + opt.interval

RunChecked(r) ==
  /\ duty[r].pc = "matched"
  /\ \/ /\ duty[r].paused
        /\ audit' = Recorded(Row("paused", duty[r].at, "none", r))
        /\ duty' = [duty EXCEPT ![r] = Over]
        /\ UNCHANGED overlap
     \/ /\ ~duty[r].paused /\ RateLimited(duty[r].at)
        /\ audit' = Recorded(Row("rate_limited", duty[r].at, "none", r))
        /\ duty' = [duty EXCEPT ![r] = Over]
        /\ UNCHANGED overlap
     \/ /\ ~duty[r].paused /\ ~RateLimited(duty[r].at)
        /\ duty' = [duty EXCEPT ![r].pc = "send"]
        /\ overlap' = IF eval.pc = "send" \/ \E q \in Runs : duty[q].pc = "send"
                        THEN overlap \cup {r} ELSE overlap
        /\ UNCHANGED audit
  /\ UNCHANGED <<opt, now, read, rule, eval, edits, crashes, cut>>

\* The awaited actions come back; their rows carry the time at which the run settled.
RunSent(r) ==
  /\ duty[r].pc = "send"
  /\ audit' = Recorded(Row("action", duty[r].at, "none", r))
  /\ duty' = [duty EXCEPT ![r] = Over]
  /\ UNCHANGED <<opt, now, read, rule, eval, edits, crashes, cut, overlap>>

-----------------------------------------------------------------------------
\* The world, the operator and restarts.

WindowCompletes ==
  /\ now < Horizon
  /\ now' = now + 1
  /\ UNCHANGED <<opt, read, rule, audit, eval, duty, edits, crashes, cut, overlap>>

\* The rule is disabled, paused or deleted.  Its settings stay what they are.
Edit ==
  /\ edits < MaxEdits
  /\ edits' = edits + 1
  /\ rule.present
  /\ \/ rule' = [rule EXCEPT !.enabled = FALSE] /\ rule.enabled /\ UNCHANGED audit
     \/ rule' = [rule EXCEPT !.paused = TRUE] /\ ~rule.paused /\ UNCHANGED audit
     \/ rule' = [rule EXCEPT !.present = FALSE] /\ audit' = <<>>
  /\ UNCHANGED <<opt, now, read, eval, duty, crashes, cut, overlap>>

\* The pause is lifted or its time is over; the rule is switched on again.
Resume ==
  /\ rule.present
  /\ \/ rule.paused /\ rule' = [rule EXCEPT !.paused = FALSE]
     \/ ~rule.enabled /\ rule' = [rule EXCEPT !.enabled = TRUE]
  /\ UNCHANGED <<opt, now, read, audit, eval, duty, edits, crashes, cut, overlap>>

CrashRestart ==
  /\ crashes < MaxCrashes
  /\ eval.pc # "idle" \/ \E r \in Runs : duty[r].pc \in {"matched", "send"}
  /\ crashes' = crashes + 1
  /\ eval' = Idle
  /\ duty' = [r \in Runs |-> IF duty[r].pc = "none" THEN NoDuty ELSE Over]
  /\ cut' = (cut \/ eval.pc # "idle")
  /\ UNCHANGED <<opt, now, read, rule, audit, edits, overlap>>

-----------------------------------------------------------------------------
Init ==
  /\ opt \in Configs
  /\ now = 0 /\ read = [w \in 1..Horizon |-> "unread"]
  /\ rule \in [present : {TRUE}, enabled : {TRUE}, trigger : Triggers, paused : {FALSE}, last : {0}]
  /\ audit = <<>>
  /\ eval = Idle
  /\ duty = [r \in Runs |-> NoDuty]
  /\ edits = 0 /\ crashes = 0
  /\ cut = FALSE /\ overlap = {}

Engine == Scan \/ WindowSent \/ EvaluationEnds

Next ==
  \/ Tick \/ Engine
  \/ \E r \in Runs : RunSettles(r) \/ RunChecked(r) \/ RunSent(r)
  \/ WindowCompletes \/ Edit \/ Resume \/ CrashRestart

Spec == Init /\ [][Next]_vars

\* The interval ticks, webhooks time out; runs, windows and the operator owe nothing.
FairSpec == Spec /\ WF_vars(Tick) /\ WF_vars(Engine)

-----------------------------------------------------------------------------
\* The state has its types.
TypeOK ==
  /\ opt \in Configs
  /\ now \in 0..Horizon /\ read \in [1..Horizon -> WindowStates \cup {"unread"}]
  /\ rule \in [present : BOOLEAN, enabled : BOOLEAN, trigger : Triggers, paused : BOOLEAN, last : 0..Horizon]
  /\ audit \in Seq([kind : {"window_fire", "window_recover", "window_no_data", "action", "paused",
                            "rate_limited"},
                    at : 0..Horizon, level : Levels, run : Runs \cup {NoRun}])
  /\ eval \in [pc : {"idle", "scan", "send"}, ends : Seq(1..Horizon), armed : BOOLEAN,
               fired : 0..Horizon, level : Levels, paused : BOOLEAN, upto : 0..Horizon]
  /\ duty \in [Runs -> [pc : {"none", "matched", "send", "over"}, at : 0..Horizon,
                        paused : BOOLEAN]]
  /\ edits \in 0..MaxEdits /\ crashes \in 0..MaxCrashes
  /\ cut \in BOOLEAN /\ overlap \subseteq Runs

FireRows == Rows({"window_fire"})
RecoversBetween(v, w) == \E i \in Rows({"window_recover"}) : audit[i].at > v /\ audit[i].at < w

\* "cooldownMinutes dedupes re-fires while continuously breached (recovery re-arms)": of two
\* fires the later one comes after a recovery, after the cooldown or as an escalation, although
\* the state between two evaluations is only what the audit log says -- unless a crash cut an
\* evaluation off.
CooldownHolds ==
  ~cut => \A i, j \in FireRows :
    (i < j /\ \A k \in FireRows : k <= i \/ k >= j)
    => /\ audit[i].at < audit[j].at
       /\ \/ RecoversBetween(audit[i].at, audit[j].at)
          \/ audit[j].at >= audit[i].at + opt.cooldown
          \/ audit[i].level = "warn" /\ audit[j].level = "alert"

\* No breach goes by in silence: behind every evaluated window that is breached stands a fire,
\* of that window or one before it in the same breach, within the cooldown and not of a lesser
\* level -- through pauses, disabled spells, catch-ups and crashes, empty windows included.
NoSilentBreach ==
  rule.present => \A w \in 1..Horizon :
    Fires(read[w]) =>
      \E i \in FireRows :
        LET f == audit[i].at
        IN /\ f <= w /\ (f = w \/ w < f + opt.cooldown)
           /\ ~RecoversBetween(f, w)
           /\ ~(read[w] = "alert" /\ audit[i].level = "warn")

\* The on_terminal minimum interval: the rows of two runs closer together than the interval
\* come from dispatches that were under way at the same time.
IntervalKept ==
  \A i, j \in Rows({"action"}) :
    LET r == audit[i].run
        q == audit[j].run
    IN (r # q /\ NoRun \notin {r, q} /\ audit[i].at <= audit[j].at
        /\ audit[j].at < audit[i].at + opt.interval)
       => r \in overlap \/ q \in overlap

\* The baseline catches up: while a rule watches, every completed window is eventually behind
\* it, also across restarts.
WindowsEvaluated ==
  \A w \in 1..Horizon :
    (now >= w /\ Watches("windowed")) ~> (rule.last >= w \/ ~Watches("windowed"))
=============================================================================
