------------------------------ MODULE AlertEngine ------------------------------
(***************************************************************************)
(* The alert engine and the metrics it reads: for one host, the latest     *)
(* snapshot that heartbeats write, the evaluation of every rule at each    *)
(* tick of the engine's one goroutine, the events it opens and resolves,   *)
(* and operators who acknowledge them.                                     *)
(*                                                                         *)
(* An evaluation reads the clock once; ticks are between evaluations.      *)
(***************************************************************************)
EXTENDS Integers, Sequences

CONSTANTS
  Rules,     \* sequence of [metric, threshold, duration]; durations in ticks
  MaxValue,  \* bound on the value of the metric "used"
  MaxAge,    \* ages of a snapshot are told apart up to this
  MaxFaults  \* bound on restarts and failed statements

RuleIds == 1..Len(Rules)
Missing == -1    \* a snapshot without the metric
NoSnapshot == -2
Never == -1

VARIABLES
  latest,  \* metric_latest of the host: a value, Missing or NoSnapshot
  age,     \* ticks since it was collected
  due,     \* the ticker's channel holds a tick
  at,      \* the rule being evaluated; 0: none
  seen,    \* the evaluation's copy of latest and age
  select,  \* what upsertFiring's SELECT has found, until it writes
  held,    \* ticks since firstTrue of each rule; Never: not in the map
  firing,  \* events of each rule that are FIRING
  acked,   \* events of each rule that are ACKNOWLEDGED
  since,   \* history: ticks since each condition was first seen true after it
           \* was last recorded false, over restarts
  faults   \* faults so far, up to MaxFaults

metricVars == <<latest, age>>
evalVars == <<due, at, seen, select>>
eventVars == <<firing, acked>>
vars == <<metricVars, evalVars, held, eventVars, since, faults>>

Init ==
  /\ latest = NoSnapshot
  /\ age = 0
  /\ due = TRUE
  /\ at = 0
  /\ seen = [value |-> NoSnapshot, age |-> 0]
  /\ select = "idle"
  /\ held = [r \in RuleIds |-> Never]
  /\ firing = [r \in RuleIds |-> 0]
  /\ acked = [r \in RuleIds |-> 0]
  /\ since = [r \in RuleIds |-> Never]
  /\ faults = 0

Fault == faults < MaxFaults /\ faults' = faults + 1

Smaller(a, b) == IF a < b THEN a ELSE b

\* One tick later: Never stays, and no more than the duration matters.
Later(ticks) ==
  [r \in RuleIds |-> IF ticks[r] = Never THEN Never
                     ELSE Smaller(ticks[r] + 1, Rules[r].duration)]

-------------------------------------------------------------------------------
(* Rules *)

HasMetric(r, value) == Rules[r].metric = "age" \/ value # Missing

\* compare, over the value of the rule's metric.
Condition(r, value, old) ==
  IF Rules[r].metric = "age"
  THEN value # NoSnapshot /\ old > Rules[r].threshold
  ELSE value >= 0 /\ value >= Rules[r].threshold

SeenTrue(r) == Condition(r, seen.value, seen.age)

\* Mutation: each evaluation begins to wait anew.
HeldFromNow(r) == 0

\* durationSatisfied keeps the time that it has in the map.
HeldFrom(r) == IF held[r] = Never THEN 0 ELSE held[r]

Satisfied(r) ==
  Rules[r].duration = 0 \/ (held[r] # Never /\ held[r] >= Rules[r].duration)

\* Mutation: an acknowledged event is none.
IsFiring(r) == firing[r] > 0

\* An event of the rule that is not resolved.
IsOpen(r) == firing[r] + acked[r] > 0

-------------------------------------------------------------------------------
(* EvaluateOnce *)

\* The host's snapshot is read; without one there is nothing to evaluate.
Evaluate ==
  /\ at = 0 /\ due
  /\ due' = FALSE
  /\ at' = IF latest = NoSnapshot THEN 0 ELSE 1
  /\ seen' = [value |-> latest, age |-> age]
  /\ UNCHANGED <<metricVars, select, held, eventVars, since, faults>>

ToNextRule == at' = IF at = Len(Rules) THEN 0 ELSE at + 1

\* A rule whose metric is missing changes nothing.
SkipRule ==
  /\ at # 0 /\ ~HasMetric(at, seen.value)
  /\ ToNextRule
  /\ UNCHANGED <<metricVars, due, seen, select, held, eventVars, since, faults>>

Recorded == since' = IF since[at] = Never THEN [since EXCEPT ![at] = 0] ELSE since

\* The condition is true, and was not for long enough.
Wait ==
  /\ at # 0 /\ HasMetric(at, seen.value) /\ SeenTrue(at) /\ ~Satisfied(at)
  /\ held' = [held EXCEPT ![at] = HeldFrom(at)]
  /\ Recorded
  /\ ToNextRule
  /\ UNCHANGED <<metricVars, due, seen, select, eventVars, faults>>

\* upsertFiring: the SELECT,
FindEvent ==
  /\ at # 0 /\ HasMetric(at, seen.value) /\ SeenTrue(at) /\ Satisfied(at)
  /\ select = "idle"
  /\ select' = IF IsOpen(at) THEN "event" ELSE "nothing"
  /\ Recorded
  /\ UNCHANGED <<metricVars, due, at, seen, held, eventVars, faults>>

\* then the UPDATE of what it found, which leaves the status as it is by now,
KeepEvent ==
  /\ select = "event"
  /\ select' = "idle"
  /\ ToNextRule
  /\ UNCHANGED <<metricVars, due, seen, held, eventVars, since, faults>>

\* or the INSERT.
OpenEvent ==
  /\ select = "nothing"
  /\ select' = "idle"
  /\ firing' = [firing EXCEPT ![at] = @ + 1]
  /\ ToNextRule
  /\ UNCHANGED <<metricVars, due, seen, held, acked, since, faults>>

\* The condition is false: clearDuration, and every open event is resolved.
Resolve ==
  /\ at # 0 /\ HasMetric(at, seen.value) /\ ~SeenTrue(at)
  /\ held' = [held EXCEPT ![at] = Never]
  /\ firing' = [firing EXCEPT ![at] = 0]
  /\ acked' = [acked EXCEPT ![at] = 0]
  /\ since' = [since EXCEPT ![at] = Never]
  /\ ToNextRule
  /\ UNCHANGED <<metricVars, due, seen, select, faults>>

\* A statement fails: the evaluation ends, and the later rules have none.
StatementFails ==
  /\ Fault
  /\ at # 0 /\ HasMetric(at, seen.value)
  /\ held' = IF SeenTrue(at) THEN held ELSE [held EXCEPT ![at] = Never]
  /\ at' = 0
  /\ select' = "idle"
  /\ SeenTrue(at) => Satisfied(at)
  /\ UNCHANGED <<metricVars, due, seen, eventVars, since>>

-------------------------------------------------------------------------------
(* Heartbeats, operators, time and restarts *)

\* Store.Put of a heartbeat's metrics, with the time of the server.
Put(v) ==
  /\ latest' = v
  /\ age' = 0
  /\ UNCHANGED <<evalVars, held, eventVars, since, faults>>

\* UPDATE ... WHERE status='FIRING'.
Acknowledge(r) ==
  /\ firing[r] > 0
  /\ firing' = [firing EXCEPT ![r] = @ - 1]
  /\ acked' = [acked EXCEPT ![r] = @ + 1]
  /\ UNCHANGED <<metricVars, evalVars, held, since, faults>>

Tick ==
  /\ at = 0
  /\ due' = TRUE
  /\ age' = IF latest = NoSnapshot THEN 0 ELSE Smaller(age + 1, MaxAge)
  /\ held' = Later(held)
  /\ since' = Later(since)
  /\ UNCHANGED <<latest, at, seen, select, eventVars, faults>>

\* The server ends and starts again: the map is empty, the tables are not.
ServerRestart ==
  /\ Fault
  /\ due' = TRUE
  /\ at' = 0
  /\ select' = "idle"
  /\ held' = [r \in RuleIds |-> Never]
  /\ UNCHANGED <<metricVars, seen, eventVars, since>>

-------------------------------------------------------------------------------

Engine ==
  Evaluate \/ SkipRule \/ Wait \/ FindEvent \/ KeepEvent \/ OpenEvent \/ Resolve

Next ==
  \/ Engine
  \/ \E v \in Missing..MaxValue : Put(v)
  \/ \E r \in RuleIds : Acknowledge(r)
  \/ Tick
  \/ StatementFails
  \/ ServerRestart

\* The goroutine runs, and its ticker ticks.
Fairness == WF_vars(Engine) /\ WF_vars(Tick)

Spec == Init /\ [][Next]_vars
FairSpec == Spec /\ Fairness

-------------------------------------------------------------------------------
(* Properties *)

Ticks(r) == Never..Rules[r].duration

\* The variables keep to their types.
TypeOK ==
  /\ latest \in NoSnapshot..MaxValue
  /\ age \in 0..MaxAge
  /\ due \in BOOLEAN
  /\ at \in 0..Len(Rules)
  /\ seen \in [value : NoSnapshot..MaxValue, age : 0..MaxAge]
  /\ select \in {"idle", "event", "nothing"}
  /\ held \in [RuleIds -> Int] /\ since \in [RuleIds -> Int]
  /\ \A r \in RuleIds : held[r] \in Ticks(r) /\ since[r] \in Ticks(r)
  /\ firing \in [RuleIds -> Nat]
  /\ acked \in [RuleIds -> Nat]
  /\ faults \in Nat

\* A rule has one open event at most, whoever acknowledges it between the
\* engine's two statements, and it has one only when the condition has been
\* true at every evaluation with the metric for the rule's duration: no restart
\* and no missing metric makes an alert fire early.
AlertsAreTrue ==
  \A r \in RuleIds :
    /\ firing[r] + acked[r] <= 1
    /\ IsOpen(r) => since[r] = Rules[r].duration

\* The rule's condition is true of the latest snapshot.
Lasting(r) == Condition(r, latest, age)

\* A condition that stays true is alerted in the end, and stays so.
LastingIsAlerted ==
  \A r \in RuleIds : <>[]Lasting(r) => <>[]IsOpen(r)
===============================================================================
