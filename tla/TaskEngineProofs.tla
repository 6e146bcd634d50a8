---------------------------- MODULE TaskEngineProofs ----------------------------
(***************************************************************************)
(* Proofs about TaskEngine for every set of workers and keys, every lease  *)
(* and every bound: the inductive invariant, the safety properties that    *)
(* follow from it, and that the engine implements the task ledger.         *)
(***************************************************************************)
EXTENDS TaskEngine, TLAPS

\* Workers hold tasks only in a process that is up.
NoWorkerUnlessUp == server # "up" => \A w \in Workers : pc[w] = "off"

\* The table is filled from the first row on.
RowsAreFilledInOrder == \A t \in Ids : status[t] = "absent" <=> lastId < t

\* A task is not started before it leaves the queue and its worker fetches it.
NotStartedEarly ==
  /\ \A t \in Ids : status[t] \in {"absent", "queued"} => starts[t] = 0
  /\ \A w \in Workers : pc[w] = "claimed" => starts[job[w]] = 0

\* The inductive invariant: the safety properties, with what relates the
\* workers, the process and the history to the table.
Inv ==
  /\ TypeOK
  /\ NoWorkerUnlessUp
  /\ RowsAreFilledInOrder
  /\ NotStartedEarly
  /\ BusyWorkerHoldsLease
  /\ StartedAtMostOnce
  /\ ClaimedInOrder
  /\ ActiveKeysDiffer
  /\ LeaseIffRunning

-------------------------------------------------------------------------------

LEMMA InitInv == Init => Inv
<1> SUFFICES ASSUME Init PROVE Inv
  OBVIOUS
<1> USE EngineAssumption DEF Init, Ids, NoTask, NoLease
<1>1. TypeOK
  BY DEF TypeOK, Status, Active, Terminal
<1>2. NoWorkerUnlessUp /\ RowsAreFilledInOrder /\ NotStartedEarly
  BY DEF NoWorkerUnlessUp, RowsAreFilledInOrder, NotStartedEarly
<1>3. BusyWorkerHoldsLease /\ StartedAtMostOnce /\ ClaimedInOrder
  BY DEF BusyWorkerHoldsLease, Busy, StartedAtMostOnce, ClaimedInOrder
<1>4. ActiveKeysDiffer /\ LeaseIffRunning
  BY DEF ActiveKeysDiffer, LeaseIffRunning, Active
<1>5. QED
  BY <1>1, <1>2, <1>3, <1>4 DEF Inv

\* The types alone are inductive.
LEMMA StepTypeOK == TypeOK /\ [Next]_vars => TypeOK'
<1> SUFFICES ASSUME TypeOK, [Next]_vars PROVE TypeOK'
  OBVIOUS
<1> USE EngineAssumption DEF TypeOK, Ids, NoTask, NoLease, Status, Active, Terminal,
        tableVars, workerVars, envVars
<1>1. ASSUME NEW t \in Ids, NEW k \in Keys \cup {NoKey}, NEW h \in BOOLEAN, Create(t, k, h)
      PROVE  TypeOK'
  BY <1>1 DEF Create, KeyFree
<1>2. CASE Boot
  BY <1>2 DEF Boot, RecoverExpired, Expired
<1>3. CASE Stop
  BY <1>3 DEF Stop, DropWorkers
<1>4. CASE Exit
  BY <1>4 DEF Exit, DropWorkers
<1>5. CASE Tick
  BY <1>5 DEF Tick
<1>6. ASSUME NEW w \in Workers, NEW t \in Ids, ClaimNext(w, t)
      PROVE  TypeOK'
  BY <1>6 DEF ClaimNext, IsNext
<1>7. ASSUME NEW w \in Workers, FetchFails(w)
      PROVE  TypeOK'
  BY <1>7 DEF FetchFails
<1>8. ASSUME NEW w \in Workers, StartHandler(w)
      PROVE  TypeOK'
  <2>1. starts' \in [Ids -> Nat]
    BY <1>8 DEF StartHandler
  <2> QED
    BY <1>8, <2>1 DEF StartHandler
<1>9. ASSUME NEW w \in Workers, NoHandler(w)
      PROVE  TypeOK'
  BY <1>9 DEF NoHandler
<1>10. ASSUME NEW w \in Workers, NEW o \in Terminal, HandlerReturns(w, o)
       PROVE  TypeOK'
  BY <1>10 DEF HandlerReturns
<1>11. ASSUME NEW w \in Workers, Report(w)
       PROVE  TypeOK'
  BY <1>11 DEF Report, UpdateStatus, BackToPolling
<1>12. ASSUME NEW w \in Workers, ReportFails(w)
       PROVE  TypeOK'
  BY <1>12 DEF ReportFails, BackToPolling
<1>13. CASE UNCHANGED vars
  BY <1>13 DEF vars
<1>14. QED
  <2> HIDE EngineAssumption DEF TypeOK, Ids, Status, Active, Terminal
  <2> QED
    BY <1>1, <1>2, <1>3, <1>4, <1>5, <1>6, <1>7, <1>8, <1>9, <1>10, <1>11, <1>12, <1>13
       DEF Next, WorkerStep, PollNothing

\* Every step preserves the invariant.  Only Create, Boot, ClaimNext and Report
\* touch the table, and only StartHandler the history; the other steps move
\* the workers, which may only let go of tasks.
LEMMA StepInv == Inv /\ [Next]_vars => Inv'
<1> SUFFICES ASSUME Inv, [Next]_vars PROVE Inv'
  OBVIOUS
<1> USE DEF Ids, NoTask, NoLease, tableVars, workerVars, envVars
<1>t. /\ TypeOK /\ TypeOK'
      /\ status \in [Ids -> Status] /\ key \in [Ids -> Keys \cup {NoKey}]
      /\ owner \in [Ids -> Workers \cup {NoWorker}] /\ expires \in [Ids -> Nat]
      /\ lastId \in 0..MaxTasks /\ starts \in [Ids -> Nat] /\ clock \in Nat
      /\ pc \in [Workers -> {"off", "idle", "claimed", "handling", "reporting"}]
      /\ job \in [Workers -> Ids \cup {NoTask}] /\ outcome \in [Workers -> Terminal]
  BY StepTypeOK DEF Inv, TypeOK
<1>i. /\ NoWorkerUnlessUp /\ RowsAreFilledInOrder /\ NotStartedEarly
      /\ BusyWorkerHoldsLease /\ StartedAtMostOnce /\ ClaimedInOrder
      /\ ActiveKeysDiffer /\ LeaseIffRunning
  BY DEF Inv
<1> USE <1>t, <1>i, EngineAssumption
<1> HIDE DEF Inv
<1>1. ASSUME NEW t \in Ids, NEW k \in Keys \cup {NoKey}, NEW h \in BOOLEAN, Create(t, k, h)
      PROVE  Inv'
  <2>1. NoWorkerUnlessUp'
    BY <1>1 DEF Create, KeyFree, NoWorkerUnlessUp
  <2>2. RowsAreFilledInOrder'
    BY <1>1 DEF Create, KeyFree, RowsAreFilledInOrder
  <2>3. NotStartedEarly'
    BY <1>1 DEF Create, KeyFree, NotStartedEarly, RowsAreFilledInOrder, BusyWorkerHoldsLease, Busy
  <2>4. BusyWorkerHoldsLease'
    BY <1>1 DEF Create, KeyFree, BusyWorkerHoldsLease, RowsAreFilledInOrder, Busy
  <2>5. StartedAtMostOnce'
    BY <1>1 DEF Create, KeyFree, StartedAtMostOnce
  <2>6. ClaimedInOrder'
    BY <1>1 DEF Create, KeyFree, ClaimedInOrder, RowsAreFilledInOrder
  <2>7. ActiveKeysDiffer'
    BY <1>1 DEF Create, KeyFree, ActiveKeysDiffer, Active
  <2>8. LeaseIffRunning'
    BY <1>1 DEF Create, KeyFree, LeaseIffRunning, RowsAreFilledInOrder
  <2>9. QED
    BY <2>1, <2>2, <2>3, <2>4, <2>5, <2>6, <2>7, <2>8 DEF Inv
<1>2. CASE Boot
  <2>1. NoWorkerUnlessUp'
    BY <1>2 DEF Boot, RecoverExpired, Expired, NoWorkerUnlessUp
  <2>2. RowsAreFilledInOrder'
    BY <1>2 DEF Boot, RecoverExpired, Expired, RowsAreFilledInOrder
  <2>3. NotStartedEarly'
    BY <1>2 DEF Boot, RecoverExpired, Expired, NotStartedEarly
  <2>4. BusyWorkerHoldsLease'
    BY <1>2 DEF Boot, RecoverExpired, Expired, BusyWorkerHoldsLease, Busy
  <2>5. StartedAtMostOnce'
    BY <1>2 DEF Boot, RecoverExpired, Expired, StartedAtMostOnce
  <2>6. ClaimedInOrder'
    BY <1>2 DEF Boot, RecoverExpired, Expired, ClaimedInOrder
  <2>7. ActiveKeysDiffer'
    BY <1>2 DEF Boot, RecoverExpired, Expired, ActiveKeysDiffer, Active
  <2>8. LeaseIffRunning'
    BY <1>2 DEF Boot, RecoverExpired, Expired, LeaseIffRunning
  <2>9. QED
    BY <2>1, <2>2, <2>3, <2>4, <2>5, <2>6, <2>7, <2>8 DEF Inv
<1>3. CASE Stop
  <2>1. RowsAreFilledInOrder' /\ ClaimedInOrder' /\ ActiveKeysDiffer' /\ LeaseIffRunning'
    BY <1>3 DEF Stop, DropWorkers, RowsAreFilledInOrder, ClaimedInOrder, ActiveKeysDiffer, LeaseIffRunning
  <2>2. NoWorkerUnlessUp' /\ BusyWorkerHoldsLease'
    BY <1>3 DEF Stop, DropWorkers, NoWorkerUnlessUp, BusyWorkerHoldsLease, Busy
  <2>3. NotStartedEarly' /\ StartedAtMostOnce'
    BY <1>3 DEF Stop, DropWorkers, NotStartedEarly, StartedAtMostOnce
  <2>4. QED
    BY <2>1, <2>2, <2>3 DEF Inv
<1>4. CASE Exit
  <2>1. RowsAreFilledInOrder' /\ ClaimedInOrder' /\ ActiveKeysDiffer' /\ LeaseIffRunning'
    BY <1>4 DEF Exit, DropWorkers, RowsAreFilledInOrder, ClaimedInOrder, ActiveKeysDiffer, LeaseIffRunning
  <2>2. NoWorkerUnlessUp' /\ BusyWorkerHoldsLease'
    BY <1>4 DEF Exit, DropWorkers, NoWorkerUnlessUp, BusyWorkerHoldsLease, Busy
  <2>3. NotStartedEarly' /\ StartedAtMostOnce'
    BY <1>4 DEF Exit, DropWorkers, NotStartedEarly, StartedAtMostOnce
  <2>4. QED
    BY <2>1, <2>2, <2>3 DEF Inv
<1>5. CASE Tick
  <2>1. RowsAreFilledInOrder' /\ ClaimedInOrder' /\ ActiveKeysDiffer' /\ LeaseIffRunning'
    BY <1>5 DEF Tick, RowsAreFilledInOrder, ClaimedInOrder, ActiveKeysDiffer, LeaseIffRunning
  <2>2. NoWorkerUnlessUp' /\ BusyWorkerHoldsLease'
    BY <1>5 DEF Tick, NoWorkerUnlessUp, BusyWorkerHoldsLease, Busy
  <2>3. NotStartedEarly' /\ StartedAtMostOnce'
    BY <1>5 DEF Tick, NotStartedEarly, StartedAtMostOnce
  <2>4. QED
    BY <2>1, <2>2, <2>3 DEF Inv
<1>6. ASSUME NEW w \in Workers, NEW t \in Ids, ClaimNext(w, t)
      PROVE  Inv'
  <2>1. NoWorkerUnlessUp'
    BY <1>6 DEF ClaimNext, IsNext, NoWorkerUnlessUp
  <2>2. RowsAreFilledInOrder'
    BY <1>6 DEF ClaimNext, IsNext, RowsAreFilledInOrder
  <2>3. NotStartedEarly'
    BY <1>6 DEF ClaimNext, IsNext, NotStartedEarly, BusyWorkerHoldsLease, Busy
  <2>4. BusyWorkerHoldsLease'
    BY <1>6 DEF ClaimNext, IsNext, BusyWorkerHoldsLease, Busy
  <2>5. StartedAtMostOnce'
    BY <1>6 DEF ClaimNext, IsNext, StartedAtMostOnce
  <2>6. ClaimedInOrder'
    BY <1>6 DEF ClaimNext, IsNext, ClaimedInOrder, Status, Active
  <2>7. ActiveKeysDiffer'
    BY <1>6 DEF ClaimNext, IsNext, ActiveKeysDiffer, Active
  <2>8. LeaseIffRunning'
    BY <1>6 DEF ClaimNext, IsNext, LeaseIffRunning
  <2>9. QED
    BY <2>1, <2>2, <2>3, <2>4, <2>5, <2>6, <2>7, <2>8 DEF Inv
<1>7. ASSUME NEW w \in Workers, FetchFails(w)
      PROVE  Inv'
  <2>1. RowsAreFilledInOrder' /\ ClaimedInOrder' /\ ActiveKeysDiffer' /\ LeaseIffRunning'
    BY <1>7 DEF FetchFails, RowsAreFilledInOrder, ClaimedInOrder, ActiveKeysDiffer, LeaseIffRunning
  <2>2. NoWorkerUnlessUp' /\ BusyWorkerHoldsLease'
    BY <1>7 DEF FetchFails, NoWorkerUnlessUp, BusyWorkerHoldsLease, Busy
  <2>3. NotStartedEarly' /\ StartedAtMostOnce'
    BY <1>7 DEF FetchFails, NotStartedEarly, StartedAtMostOnce
  <2>4. QED
    BY <2>1, <2>2, <2>3 DEF Inv
<1>8. ASSUME NEW w \in Workers, StartHandler(w)
      PROVE  Inv'
  <2>1. NoWorkerUnlessUp'
    BY <1>8 DEF StartHandler, NoWorkerUnlessUp
  <2>2. NotStartedEarly'
    BY <1>8 DEF StartHandler, NotStartedEarly, BusyWorkerHoldsLease, Busy
  <2>3. BusyWorkerHoldsLease'
    BY <1>8 DEF StartHandler, BusyWorkerHoldsLease, Busy
  <2>4. StartedAtMostOnce'
    BY <1>8 DEF StartHandler, StartedAtMostOnce, NotStartedEarly
  <2>5. RowsAreFilledInOrder' /\ ClaimedInOrder' /\ ActiveKeysDiffer' /\ LeaseIffRunning'
    BY <1>8 DEF StartHandler, RowsAreFilledInOrder, ClaimedInOrder, ActiveKeysDiffer, LeaseIffRunning
  <2>6. QED
    BY <2>1, <2>2, <2>3, <2>4, <2>5 DEF Inv
<1>9. ASSUME NEW w \in Workers, NoHandler(w)
      PROVE  Inv'
  <2>1. RowsAreFilledInOrder' /\ ClaimedInOrder' /\ ActiveKeysDiffer' /\ LeaseIffRunning'
    BY <1>9 DEF NoHandler, RowsAreFilledInOrder, ClaimedInOrder, ActiveKeysDiffer, LeaseIffRunning
  <2>2. NoWorkerUnlessUp' /\ BusyWorkerHoldsLease'
    BY <1>9 DEF NoHandler, NoWorkerUnlessUp, BusyWorkerHoldsLease, Busy
  <2>3. NotStartedEarly' /\ StartedAtMostOnce'
    BY <1>9 DEF NoHandler, NotStartedEarly, StartedAtMostOnce
  <2>4. QED
    BY <2>1, <2>2, <2>3 DEF Inv
<1>10. ASSUME NEW w \in Workers, NEW o \in Terminal, HandlerReturns(w, o)
       PROVE  Inv'
  <2>1. RowsAreFilledInOrder' /\ ClaimedInOrder' /\ ActiveKeysDiffer' /\ LeaseIffRunning'
    BY <1>10 DEF HandlerReturns, RowsAreFilledInOrder, ClaimedInOrder, ActiveKeysDiffer, LeaseIffRunning
  <2>2. NoWorkerUnlessUp' /\ BusyWorkerHoldsLease'
    BY <1>10 DEF HandlerReturns, NoWorkerUnlessUp, BusyWorkerHoldsLease, Busy
  <2>3. NotStartedEarly' /\ StartedAtMostOnce'
    BY <1>10 DEF HandlerReturns, NotStartedEarly, StartedAtMostOnce
  <2>4. QED
    BY <2>1, <2>2, <2>3 DEF Inv
<1>11. ASSUME NEW w \in Workers, Report(w)
       PROVE  Inv'
  <2>1. NoWorkerUnlessUp'
    BY <1>11 DEF Report, UpdateStatus, BackToPolling, NoWorkerUnlessUp
  <2>2. RowsAreFilledInOrder'
    BY <1>11 DEF Report, UpdateStatus, BackToPolling, RowsAreFilledInOrder, BusyWorkerHoldsLease, Busy, Terminal
  <2>3. NotStartedEarly'
    BY <1>11 DEF Report, UpdateStatus, BackToPolling, NotStartedEarly, BusyWorkerHoldsLease, Busy, Terminal
  <2>4. BusyWorkerHoldsLease'
    BY <1>11 DEF Report, UpdateStatus, BackToPolling, BusyWorkerHoldsLease, Busy
  <2>5. StartedAtMostOnce'
    BY <1>11 DEF Report, UpdateStatus, BackToPolling, StartedAtMostOnce
  <2>6. ClaimedInOrder'
    <3>1. job[w] \in Ids /\ status[job[w]] = "running" /\ outcome[w] \in Terminal
      BY <1>11 DEF Report, BusyWorkerHoldsLease, Busy, TypeOK
    <3>2. status' = [status EXCEPT ![job[w]] = outcome[w]]
      BY <1>11 DEF Report, UpdateStatus
    <3> QED
      BY <3>1, <3>2 DEF ClaimedInOrder, TypeOK, Terminal
  <2>7. ActiveKeysDiffer'
    BY <1>11 DEF Report, UpdateStatus, BackToPolling, ActiveKeysDiffer, Active, Terminal
  <2>8. LeaseIffRunning'
    BY <1>11 DEF Report, UpdateStatus, BackToPolling, LeaseIffRunning, Terminal, BusyWorkerHoldsLease, Busy
  <2>9. QED
    BY <2>1, <2>2, <2>3, <2>4, <2>5, <2>6, <2>7, <2>8 DEF Inv
<1>12. ASSUME NEW w \in Workers, ReportFails(w)
       PROVE  Inv'
  <2>1. RowsAreFilledInOrder' /\ ClaimedInOrder' /\ ActiveKeysDiffer' /\ LeaseIffRunning'
    BY <1>12 DEF ReportFails, BackToPolling, RowsAreFilledInOrder, ClaimedInOrder, ActiveKeysDiffer, LeaseIffRunning
  <2>2. NoWorkerUnlessUp' /\ BusyWorkerHoldsLease'
    BY <1>12 DEF ReportFails, BackToPolling, NoWorkerUnlessUp, BusyWorkerHoldsLease, Busy
  <2>3. NotStartedEarly' /\ StartedAtMostOnce'
    BY <1>12 DEF ReportFails, BackToPolling, NotStartedEarly, StartedAtMostOnce
  <2>4. QED
    BY <2>1, <2>2, <2>3 DEF Inv
<1>13. CASE UNCHANGED vars
  <2>1. RowsAreFilledInOrder' /\ ClaimedInOrder' /\ ActiveKeysDiffer' /\ LeaseIffRunning'
    BY <1>13 DEF vars, RowsAreFilledInOrder, ClaimedInOrder, ActiveKeysDiffer, LeaseIffRunning
  <2>2. NoWorkerUnlessUp' /\ BusyWorkerHoldsLease' /\ NotStartedEarly' /\ StartedAtMostOnce'
    BY <1>13 DEF vars, NoWorkerUnlessUp, BusyWorkerHoldsLease, Busy, NotStartedEarly, StartedAtMostOnce
  <2>3. QED
    BY <2>1, <2>2 DEF Inv
<1>14. QED
  <2> HIDE <1>t, <1>i, EngineAssumption
  <2> QED
    BY <1>1, <1>2, <1>3, <1>4, <1>5, <1>6, <1>7, <1>8, <1>9, <1>10, <1>11, <1>12, <1>13
       DEF Next, WorkerStep, PollNothing

-------------------------------------------------------------------------------
(* The theorems *)

THEOREM InvHolds == Spec => []Inv
  BY InitInv, StepInv, PTL DEF Spec

\* Type correctness, for every value of the constants.
THEOREM TypeCorrect == Spec => []TypeOK
<1>1. Inv => TypeOK
  BY DEF Inv
<1>2. QED
  BY <1>1, InvHolds, PTL

\* A worker keeps its task's lease for as long as it has the task in hand,
\* expired or not.
THEOREM LeaseIsNotStolen == Spec => []BusyWorkerHoldsLease
<1>1. Inv => BusyWorkerHoldsLease
  BY DEF Inv
<1>2. QED
  BY <1>1, InvHolds, PTL

\* No task is handed to a handler twice, whatever crashes and faults occur.
THEOREM NoSecondStart == Spec => []StartedAtMostOnce
<1>1. Inv => StartedAtMostOnce
  BY DEF Inv
<1>2. QED
  BY <1>1, InvHolds, PTL

\* Submission order, key uniqueness and the lease columns.
THEOREM TableIsConsistent == Spec => [](ClaimedInOrder /\ ActiveKeysDiffer /\ LeaseIffRunning)
<1>1. Inv => ClaimedInOrder /\ ActiveKeysDiffer /\ LeaseIffRunning
  BY DEF Inv
<1>2. QED
  BY <1>1, InvHolds, PTL

\* A recorded outcome is final.  UpdateStatus compares nothing, so this rests
\* on the reporting worker still holding a running task.
THEOREM FinishedStaysFinished == Spec => OutcomeIsFinal
<1>1. ASSUME Inv, [Next]_vars, NEW t \in Ids, status[t] \in Terminal
      PROVE  status'[t] = status[t]
  <2> USE <1>1 DEF Terminal, tableVars, workerVars, envVars
  <2>0. status \in [Ids -> Status]
    BY DEF Inv, TypeOK
  <2>1. ASSUME NEW u \in Ids, NEW k \in Keys \cup {NoKey}, NEW h \in BOOLEAN, Create(u, k, h)
        PROVE  status'[t] = status[t]
    <3>1. status[u] = "absent"
      BY <2>1, EngineAssumption DEF Create, Inv, TypeOK, RowsAreFilledInOrder, Ids
    <3>2. QED
      BY <2>0, <2>1, <3>1 DEF Create
  <2>2. CASE Boot
    BY <2>2 DEF Boot, RecoverExpired, Expired
  <2>3. CASE Stop \/ Exit \/ Tick
    BY <2>3 DEF Stop, Exit, Tick
  <2>4. ASSUME NEW w \in Workers, NEW u \in Ids, ClaimNext(w, u)
        PROVE  status'[t] = status[t]
    BY <2>0, <2>4 DEF ClaimNext, IsNext
  <2>5. ASSUME NEW w \in Workers, Report(w)
        PROVE  status'[t] = status[t]
    <3>1. job[w] \in Ids /\ status[job[w]] = "running"
      BY <2>5 DEF Report, Inv, BusyWorkerHoldsLease, Busy
    <3>2. QED
      BY <2>0, <2>5, <3>1 DEF Report, UpdateStatus
  <2>6. ASSUME NEW w \in Workers, NEW o \in Terminal,
               \/ PollNothing(w) \/ FetchFails(w) \/ StartHandler(w)
               \/ NoHandler(w) \/ HandlerReturns(w, o) \/ ReportFails(w)
        PROVE  status'[t] = status[t]
    BY <2>6 DEF PollNothing, FetchFails, StartHandler, NoHandler, HandlerReturns,
                ReportFails, vars
  <2>7. CASE UNCHANGED vars
    BY <2>7 DEF vars
  <2>8. QED
    <3> HIDE DEF Terminal, tableVars, workerVars, envVars
    <3> QED
      BY <1>1, <2>1, <2>2, <2>3, <2>4, <2>5, <2>6, <2>7 DEF Next, WorkerStep
<1>2. Inv /\ [Next]_vars => [\A t \in Ids : status[t] \in Terminal => status'[t] = status[t]]_vars
  BY <1>1
<1>3. QED
  BY <1>2, InvHolds, PTL DEF Spec, OutcomeIsFinal

-------------------------------------------------------------------------------
(* The engine implements the ledger *)

LEMMA LedgerInit == Init => Ledger!Init
  BY DEF Init, Ledger!Init, Ids, Ledger!Ids

\* Each step of the engine is a step of the ledger, or leaves it alone.
LEMMA LedgerStep == Inv /\ Inv' /\ [Next]_vars => [Ledger!Next]_(Ledger!vars)
<1> SUFFICES ASSUME Inv, Inv', [Next]_vars PROVE [Ledger!Next]_(Ledger!vars)
  OBVIOUS
<1> USE DEF Ids, Ledger!Ids, tableVars, workerVars, envVars
<1>t. status \in [Ids -> Status] /\ job \in [Workers -> Ids \cup {NoTask}]
  BY DEF Inv, TypeOK
<1>1. ASSUME NEW t \in Ids, NEW k \in Keys \cup {NoKey}, NEW h \in BOOLEAN, Create(t, k, h)
      PROVE  Ledger!Submit(t, k)
  <2>1. lastId \in 0..MaxTasks /\ RowsAreFilledInOrder
    BY DEF Inv, TypeOK
  <2>2. status[t] = "absent" /\ \A u \in Ids : u < t => status[u] # "absent"
    BY <1>1, <2>1, EngineAssumption DEF Create, RowsAreFilledInOrder
  <2>3. QED
    BY <1>1, <2>2 DEF Create, KeyFree, Ledger!Submit, Active, Ledger!Open
<1>2. CASE Boot
  <2> DEFINE S == {t \in Ids : Expired(t)}
  <2>1. CASE S = {}
    <3>1. status' = status
      BY <1>2, <1>t, <2>1 DEF Boot, RecoverExpired
    <3>2. QED
      BY <1>2, <3>1 DEF Boot, RecoverExpired, Ledger!vars
  <2>2. CASE S # {}
    <3>1. \A t \in S : status[t] = "running"
      BY DEF Expired
    <3>2. status' = [t \in Ids |-> IF t \in S THEN "interrupted" ELSE status[t]]
      BY <1>2 DEF Boot, RecoverExpired
    <3>3. Ledger!Interrupt(S)
      BY <1>2, <2>2, <3>1, <3>2 DEF Boot, RecoverExpired, Ledger!Interrupt
    <3>4. QED
      BY <3>3 DEF Ledger!Next
  <2>3. QED
    BY <2>1, <2>2
<1>3. ASSUME NEW w \in Workers, NEW t \in Ids, ClaimNext(w, t)
      PROVE  Ledger!Begin(t)
  BY <1>3 DEF ClaimNext, IsNext, Ledger!Begin
<1>4. ASSUME NEW w \in Workers, Report(w)
      PROVE  Ledger!Finish(job[w], outcome[w]) /\ job[w] \in Ids /\ outcome[w] \in Ledger!Finished
  <2>1. job[w] \in Ids /\ status[job[w]] = "running" /\ outcome[w] \in Terminal
    BY <1>4 DEF Report, Inv, TypeOK, BusyWorkerHoldsLease, Busy
  <2>2. QED
    BY <1>4, <2>1 DEF Report, UpdateStatus, Ledger!Finish, Ledger!Finished, Terminal
<1>5. CASE Stop \/ Exit \/ Tick
  BY <1>5 DEF Stop, Exit, Tick, Ledger!vars
<1>6. ASSUME NEW w \in Workers, NEW o \in Terminal,
             \/ PollNothing(w) \/ FetchFails(w) \/ StartHandler(w)
             \/ NoHandler(w) \/ HandlerReturns(w, o) \/ ReportFails(w)
      PROVE  UNCHANGED Ledger!vars
  BY <1>6 DEF PollNothing, FetchFails, StartHandler, NoHandler, HandlerReturns,
              ReportFails, vars, Ledger!vars
<1>7. CASE UNCHANGED vars
  BY <1>7 DEF vars, Ledger!vars
<1>8. QED
  <2>1. "failed" \in Terminal
    BY DEF Terminal
  <2> HIDE DEF tableVars, workerVars, envVars
  <2>2. QED
    BY <1>1, <1>2, <1>3, <1>4, <1>5, <1>6, <1>7, <2>1 DEF Next, WorkerStep, Ledger!Next

\* The table, seen through its status and key columns, is the ledger.
THEOREM EngineImplementsLedger == Spec => ImplementsLedger
  BY InvHolds, LedgerInit, LedgerStep, PTL DEF Spec, ImplementsLedger, Ledger!Spec

===============================================================================
