--------------------------- MODULE MySQLArchiveProofs ---------------------------
(***************************************************************************)
(* Proofs about MySQLArchive for every number of jobs of a policy, every   *)
(* size of its table, every number of workers and every bound on runs,     *)
(* controls and faults.                                                    *)
(***************************************************************************)
EXTENDS MySQLArchive, FiniteSetTheorems, TLAPS

\* The table and the runs together have no more rows than there were.
RowsAreBounded == \A r \in Runs : moved[r] + left <= Rows

\* The key at work: a job gets a run only when those before it are closed.
EarlierAreClosed ==
  \A q, r \in Runs :
    q[1] = r[1] /\ q[2] < r[2] /\ pc[r] # "none" => pc[q] \in {"success", "failed"}

\* Nothing is at the agent before the precheck has passed.
NothingSentEarly ==
  \A r \in Runs : pc[r] \in {"none", "queued", "resuming", "checking"} => proc[r] = "none"

\* An archiver has been started only after those asked for before it: none of
\* them can still come and remove its sentinel.
StartedInOrder ==
  \A q, r \in Runs :
    /\ q[1] = r[1] /\ q[2] < r[2]
    /\ proc[r] \in {"running", "exited", "completed", "paused", "stopped"}
    => proc[q] # "sent"

\* A job whose archiver is waited for shows that it is running, or what was
\* asked of it.
WaitingIsShown ==
  \A r \in Runs :
    pc[r] = "waiting" => job[r[1]].status \in {"running", "pause_requested", "stop_requested"}

\* Until the run's end is recorded, the sentinel that ended the archiver stays:
\* an archiver without one has left no rows.
EndIsKnown ==
  \A r \in Runs : pc[r] = "waiting" =>
    /\ proc[r] = "exited" => left = 0 \/ sentinel[r[1]] # "none"
    /\ proc[r] = "completed" => left = 0

\* Without a fault, whatever runs at the agent is waited for.
RunningIsAttended ==
  /\ faults \in Nat
  /\ faults = 0 => \A r \in Runs : proc[r] \in {"sent", "running"} => pc[r] = "waiting"

\* An archiver moves rows after it is launched only.
MovedIsLaunched == \A r \in Runs : proc[r] \in {"none", "sent"} => moved[r] = 0

\* The counters of the row and of every copy a handler has of it are covered by
\* what the job's runs have archived, with what the run itself will add.
CountersAreCovered ==
  /\ \A j \in Jobs : job[j].archived <= Archived(j)
  /\ \A c \in Controls : copy[c] <= Archived(c[1])
  /\ \A r \in Runs : base[r] + moved[r] <= Archived(r[1])

Inv ==
  /\ TypeOK
  /\ RowsAreBounded
  /\ EarlierAreClosed
  /\ NothingSentEarly
  /\ StartedInOrder
  /\ WaitingIsShown
  /\ EndIsKnown
  /\ SuccessIsExhausted
  /\ RunningIsAttended
  /\ MovedIsLaunched
  /\ CountersAreCovered

-------------------------------------------------------------------------------
(* Runs and controls are pairs. *)

LEMMA RunIsPair ==
  /\ \A r \in Runs : r[1] \in Jobs /\ r[2] \in 1..MaxRuns /\ r = <<r[1], r[2]>>
  /\ \A j \in Jobs, n \in 1..MaxRuns :
       <<j, n>> \in Runs /\ <<j, n>>[1] = j /\ <<j, n>>[2] = n
  BY DEF Runs

LEMMA ControlIsPair == \A c \in Controls : c[1] \in Jobs /\ c[2] \in {"pause", "stop"}
  BY DEF Controls, Actions

\* Of two runs of a job, one comes first.
LEMMA RunsAreOrdered ==
  \A q, r \in Runs : q[1] = r[1] /\ q # r => q[2] < r[2] \/ r[2] < q[2]
  BY RunIsPair, ArchiveAssumption

\* Hence a job has one open run at most.
LEMMA OneOpenRun ==
  ASSUME EarlierAreClosed
  PROVE  \A q, r \in Runs : q[1] = r[1] /\ pc[q] \in Open /\ pc[r] \in Open => q = r
  BY RunsAreOrdered DEF EarlierAreClosed, Open, Live

\* Archived, of any counters of the runs.
Batches(j, m) == {b \in RunsOf(j) \X (1..Rows) : b[2] <= m[b[1]]}

LEMMA ArchivedIs ==
  ASSUME NEW j \in Jobs
  PROVE  Archived(j) = Cardinality(Batches(j, moved)) /\ Archived(j)' = Cardinality(Batches(j, moved'))
BY DEF Archived, Batches

LEMMA BatchesAreFinite ==
  ASSUME NEW j \in Jobs, NEW m
  PROVE  IsFiniteSet(Batches(j, m)) /\ Cardinality(Batches(j, m)) \in Nat
<1>1. IsFiniteSet({j} \X (1..MaxRuns))
  <2>1. IsFiniteSet({j})
    BY FS_Singleton
  <2>2. IsFiniteSet(1..MaxRuns)
    BY FS_Interval, ArchiveAssumption
  <2> QED
    BY <2>1, <2>2, FS_Product
<1>2. RunsOf(j) \subseteq {j} \X (1..MaxRuns)
  BY RunIsPair DEF RunsOf
<1>3. IsFiniteSet(RunsOf(j))
  BY <1>1, <1>2, FS_Subset
<1>4. IsFiniteSet(RunsOf(j) \X (1..Rows))
  <2>1. IsFiniteSet(1..Rows)
    BY FS_Interval, ArchiveAssumption
  <2> QED
    BY <1>3, <2>1, FS_Product
<1>5. Batches(j, m) \in SUBSET (RunsOf(j) \X (1..Rows))
  BY DEF Batches
<1> QED
  BY <1>4, <1>5, FS_Subset, FS_CardinalityType

\* A batch more of one run is a batch more of its job, and of no other.
LEMMA MoveCounts ==
  ASSUME NEW m \in [Runs -> 0..Rows], NEW r \in Runs, m[r] < Rows,
         NEW j \in Jobs
  PROVE  Cardinality(Batches(j, [m EXCEPT ![r] = @ + 1])) =
           IF j = r[1] THEN Cardinality(Batches(j, m)) + 1 ELSE Cardinality(Batches(j, m))
<1> DEFINE n == [m EXCEPT ![r] = @ + 1]
<1> USE ArchiveAssumption
<1>1. CASE j = r[1]
  <2> DEFINE new == <<r, m[r] + 1>>
  <2>1. new \in RunsOf(j) \X (1..Rows)
    BY <1>1 DEF RunsOf
  <2>2. new \notin Batches(j, m)
    BY DEF Batches
  <2>3. Batches(j, n) = Batches(j, m) \cup {new}
    <3>1. ASSUME NEW b \in RunsOf(j) \X (1..Rows)
          PROVE  b[2] <= n[b[1]] <=> b[2] <= m[b[1]] \/ b = new
      BY DEF RunsOf
    <3> HIDE DEF new
    <3> QED
      BY <2>1, <3>1 DEF Batches
  <2> QED
    <3>1. IsFiniteSet(Batches(j, m))
      BY BatchesAreFinite
    <3>2. Cardinality(Batches(j, m) \cup {new}) = Cardinality(Batches(j, m)) + 1
      BY <2>2, <3>1, FS_AddElement
    <3> QED
      BY <1>1, <2>3, <3>2
<1>2. CASE j # r[1]
  <2>1. \A b \in RunsOf(j) \X (1..Rows) : n[b[1]] = m[b[1]]
    BY <1>2 DEF RunsOf
  <2> QED
    BY <1>2, <2>1 DEF Batches
<1> QED
  BY <1>1, <1>2

LEMMA InitInv == Init => Inv
<1> SUFFICES ASSUME Init PROVE Inv
  OBVIOUS
<1> USE RunIsPair, ControlIsPair, ArchiveAssumption DEF Init
<1>1. TypeOK
  BY DEF TypeOK, Statuses, Ended, Open, Live, Outcome, Answer
<1>2. RowsAreBounded /\ RunningIsAttended
  BY DEF RowsAreBounded, RunningIsAttended
<1>3. EarlierAreClosed /\ NothingSentEarly /\ StartedInOrder
  BY DEF EarlierAreClosed, NothingSentEarly, StartedInOrder
<1>4. WaitingIsShown /\ EndIsKnown /\ SuccessIsExhausted
  BY DEF WaitingIsShown, EndIsKnown, SuccessIsExhausted
<1>5. MovedIsLaunched /\ CountersAreCovered
  <2>1. \A j \in Jobs : Archived(j) \in Nat
    BY BatchesAreFinite, ArchivedIs
  <2> QED
    BY <2>1 DEF MovedIsLaunched, CountersAreCovered
<1>6. QED
  BY <1>1, <1>2, <1>3, <1>4, <1>5 DEF Inv

-------------------------------------------------------------------------------
(* Types and rows *)

LEMMA StepTypeOK == TypeOK /\ RowsAreBounded /\ [Next]_vars => TypeOK' /\ RowsAreBounded'
<1> SUFFICES ASSUME TypeOK, RowsAreBounded, [Next]_vars PROVE TypeOK' /\ RowsAreBounded'
  OBVIOUS
<1> USE RunIsPair, ControlIsPair, ArchiveAssumption
<1> USE DEF TypeOK, RowsAreBounded, Statuses, Ended, Open, Live, Outcome, Answer,
        UpdateState, Fault, Fail, runVars, ctlVars, agentVars, bounds
<1>1. ASSUME NEW j \in Jobs, Start(j)
      PROVE  TypeOK' /\ RowsAreBounded'
  BY <1>1 DEF Start, CreateRunTask
<1>2. ASSUME NEW j \in Jobs, StartIsCut(j)
      PROVE  TypeOK' /\ RowsAreBounded'
  BY <1>2 DEF StartIsCut
<1>3. ASSUME NEW j \in Jobs, Resume(j)
      PROVE  TypeOK' /\ RowsAreBounded'
  BY <1>3 DEF Resume, CreateRunTask
<1>4. ASSUME NEW c \in Controls, Control(c)
      PROVE  TypeOK' /\ RowsAreBounded'
  BY <1>4 DEF Control
<1>5. ASSUME NEW c \in Controls, ReadJob(c)
      PROVE  TypeOK' /\ RowsAreBounded'
  BY <1>5 DEF ReadJob
<1>6. ASSUME NEW c \in Controls, WriteSentinel(c)
      PROVE  TypeOK' /\ RowsAreBounded'
  BY <1>6 DEF WriteSentinel
<1>7. ASSUME NEW c \in Controls, ControlIsLost(c)
      PROVE  TypeOK' /\ RowsAreBounded'
  BY <1>7 DEF ControlIsLost
<1>8. ASSUME NEW c \in Controls, ControlReturns(c)
      PROVE  TypeOK' /\ RowsAreBounded'
  BY <1>8 DEF ControlReturns, Asked
<1>9. ASSUME NEW r \in Runs, Begin(r)
      PROVE  TypeOK' /\ RowsAreBounded'
  BY <1>9 DEF Begin
<1>10. ASSUME NEW r \in Runs, ClearSentinel(r)
       PROVE  TypeOK' /\ RowsAreBounded'
  BY <1>10 DEF ClearSentinel
<1>11. ASSUME NEW r \in Runs, ResumeIsLost(r)
       PROVE  TypeOK' /\ RowsAreBounded'
  <2>1. sentinel' \in [Jobs -> DOMAIN Answer]
    <3>1. sentinel' \in {sentinel, [sentinel EXCEPT ![r[1]] = "none"]}
      BY <1>11 DEF ResumeIsLost
    <3>2. "none" \in DOMAIN Answer /\ sentinel \in [Jobs -> DOMAIN Answer]
      OBVIOUS
    <3> HIDE DEF Answer, TypeOK
    <3> QED
      BY <3>1, <3>2
  <2>2. pc' \in [Runs -> Open \cup {"none", "success", "failed"}]
    BY <1>11 DEF ResumeIsLost
  <2> QED
    BY <1>11, <2>1, <2>2 DEF ResumeIsLost
<1>12. ASSUME NEW r \in Runs, PrecheckPasses(r)
       PROVE  TypeOK' /\ RowsAreBounded'
  <2>1. r[1] \in Jobs /\ base[r] \in Nat
    OBVIOUS
  <2>2. job' \in [Jobs -> [status : Statuses, archived : Nat]]
    BY <1>12, <2>1 DEF PrecheckPasses
  <2>3. TypeOK'
    BY <1>12, <2>2 DEF PrecheckPasses
  <2>4. RowsAreBounded'
    BY <1>12 DEF PrecheckPasses
  <2> QED
    BY <2>3, <2>4
<1>13. ASSUME NEW r \in Runs, PrecheckFails(r)
       PROVE  TypeOK' /\ RowsAreBounded'
  BY <1>13 DEF PrecheckFails
<1>14. ASSUME NEW r \in Runs, RunReturns(r)
       PROVE  TypeOK' /\ RowsAreBounded'
  BY <1>14 DEF RunReturns
<1>15. ASSUME NEW r \in Runs, RunFails(r)
       PROVE  TypeOK' /\ RowsAreBounded'
  BY <1>15 DEF RunFails
<1>16. ASSUME NEW r \in Runs, RunIsLost(r)
       PROVE  TypeOK' /\ RowsAreBounded'
  BY <1>16 DEF RunIsLost
<1>17. ASSUME NEW r \in Runs, Launch(r)
       PROVE  TypeOK' /\ RowsAreBounded'
  BY <1>17 DEF Launch
<1>18. ASSUME NEW r \in Runs, Move(r)
       PROVE  TypeOK' /\ RowsAreBounded'
  BY <1>18 DEF Move
<1>19. ASSUME NEW r \in Runs, Exit(r)
       PROVE  TypeOK' /\ RowsAreBounded'
  BY <1>19 DEF Exit
<1>20. ASSUME NEW r \in Runs, Crash(r)
       PROVE  TypeOK' /\ RowsAreBounded'
  BY <1>20 DEF Crash
<1>21. ASSUME NEW r \in Runs, Report(r)
       PROVE  TypeOK' /\ RowsAreBounded'
  BY <1>21 DEF Report
<1>22. CASE AgentRestart
  BY <1>22 DEF AgentRestart
<1>23. CASE ServerRestart
  BY <1>23 DEF ServerRestart
<1>24. CASE UNCHANGED vars
  BY <1>24 DEF vars
<1>25. QED
  <2> HIDE RunIsPair, ControlIsPair, ArchiveAssumption
  <2> HIDE DEF TypeOK, RowsAreBounded, Statuses, Ended, Open, Live, Outcome, Answer,
           UpdateState, Fault, Fail, runVars, ctlVars, agentVars, bounds
  <2> QED
    BY <1>1, <1>2, <1>3, <1>4, <1>5, <1>6, <1>7, <1>8, <1>9, <1>10, <1>11, <1>12,
       <1>13, <1>14, <1>15, <1>16, <1>17, <1>18, <1>19, <1>20, <1>21, <1>22, <1>23, <1>24
       DEF Next, Service, RunHandler, ControlHandler, Archiver, Faults

-------------------------------------------------------------------------------
(* Runs of a job *)

\* The operations that open a run find those before it closed.
LEMMA CreateInv ==
  ASSUME TypeOK, EarlierAreClosed, NothingSentEarly, StartedInOrder,
         NEW j \in Jobs, NEW n \in 1..MaxRuns, CreateRunTask(j, n), UNCHANGED proc
  PROVE  EarlierAreClosed' /\ NothingSentEarly' /\ StartedInOrder'
<1> DEFINE new == <<j, n>>
<1> USE RunIsPair
<1>1. new \in Runs /\ pc[new] = "none" /\ pc' = [pc EXCEPT ![new] = "queued"]
  BY DEF CreateRunTask
<1>2. \A q \in Runs : q[1] = j /\ q[2] < n => pc[q] \in {"success", "failed"}
  <2> SUFFICES ASSUME NEW q \in Runs, q[1] = j, q[2] < n PROVE pc[q] \in {"success", "failed"}
    OBVIOUS
  <2>1. q[2] \in 1..(n - 1) /\ q = <<j, q[2]>>
    BY ArchiveAssumption
  <2>2. pc[q] # "none" /\ pc[q] \notin Open
    BY <2>1 DEF CreateRunTask, KeyFree, RunsOf
  <2> QED
    BY <2>2 DEF TypeOK
<1>3. EarlierAreClosed'
  <2> SUFFICES ASSUME NEW q \in Runs, NEW r \in Runs, q[1] = r[1], q[2] < r[2], pc'[r] # "none"
               PROVE  pc'[q] \in {"success", "failed"}
    BY DEF EarlierAreClosed
  <2>1. CASE r = new
    BY <1>1, <1>2, <2>1, ArchiveAssumption DEF TypeOK
  <2>2. CASE r # new
    <3>1. pc'[r] = pc[r]
      BY <1>1, <2>2 DEF TypeOK
    <3>2. pc[q] \in {"success", "failed"}
      BY <3>1 DEF EarlierAreClosed
    <3>3. q # new
      BY <1>1, <3>2
    <3> QED
      BY <1>1, <3>2, <3>3 DEF TypeOK
  <2> QED
    BY <2>1, <2>2
<1>4. proc[new] = "none"
  BY <1>1 DEF NothingSentEarly
<1>5. \A q \in Runs : q # new => pc'[q] = pc[q]
  BY <1>1 DEF TypeOK
<1>6. NothingSentEarly'
  BY <1>4, <1>5 DEF NothingSentEarly
<1>7. StartedInOrder'
  <2>1. proc' = proc
    OBVIOUS
  <2> QED
    BY ONLY <2>1, StartedInOrder DEF StartedInOrder
<1> QED
  BY <1>3, <1>6, <1>7

LEMMA StepRuns ==
  ASSUME TypeOK, EarlierAreClosed, NothingSentEarly, StartedInOrder, [Next]_vars
  PROVE  EarlierAreClosed' /\ NothingSentEarly' /\ StartedInOrder'
<1> USE RunIsPair
<1> USE DEF runVars, agentVars
<1>t. /\ pc \in [Runs -> Open \cup {"none", "success", "failed"}]
      /\ proc \in [Runs -> DOMAIN Outcome \cup {"none", "sent", "running", "exited", "error", "dead"}]
      /\ sentinel \in [Jobs -> DOMAIN Answer]
  BY DEF TypeOK
<1>1. ASSUME NEW j \in Jobs, Start(j)
      PROVE  EarlierAreClosed' /\ NothingSentEarly' /\ StartedInOrder'
  BY <1>1, CreateInv, ArchiveAssumption DEF Start
<1>2. ASSUME NEW j \in Jobs, StartIsCut(j)
      PROVE  EarlierAreClosed' /\ NothingSentEarly' /\ StartedInOrder'
  BY <1>t, <1>2 DEF StartIsCut, EarlierAreClosed, NothingSentEarly, StartedInOrder
<1>3. ASSUME NEW j \in Jobs, Resume(j)
      PROVE  EarlierAreClosed' /\ NothingSentEarly' /\ StartedInOrder'
  BY <1>3, CreateInv DEF Resume
<1>4. ASSUME NEW c \in Controls, Control(c)
      PROVE  EarlierAreClosed' /\ NothingSentEarly' /\ StartedInOrder'
  BY <1>t, <1>4 DEF Control, EarlierAreClosed, NothingSentEarly, StartedInOrder
<1>5. ASSUME NEW c \in Controls, ReadJob(c)
      PROVE  EarlierAreClosed' /\ NothingSentEarly' /\ StartedInOrder'
  BY <1>t, <1>5 DEF ReadJob, EarlierAreClosed, NothingSentEarly, StartedInOrder
<1>6. ASSUME NEW c \in Controls, WriteSentinel(c)
      PROVE  EarlierAreClosed' /\ NothingSentEarly' /\ StartedInOrder'
  BY <1>t, <1>6 DEF WriteSentinel, EarlierAreClosed, NothingSentEarly, StartedInOrder
<1>7. ASSUME NEW c \in Controls, ControlIsLost(c)
      PROVE  EarlierAreClosed' /\ NothingSentEarly' /\ StartedInOrder'
  BY <1>t, <1>7 DEF ControlIsLost, EarlierAreClosed, NothingSentEarly, StartedInOrder
<1>8. ASSUME NEW c \in Controls, ControlReturns(c)
      PROVE  EarlierAreClosed' /\ NothingSentEarly' /\ StartedInOrder'
  BY <1>t, <1>8 DEF ControlReturns, EarlierAreClosed, NothingSentEarly, StartedInOrder
<1>9. ASSUME NEW r \in Runs, Begin(r)
      PROVE  EarlierAreClosed' /\ NothingSentEarly' /\ StartedInOrder'
  BY <1>t, <1>9 DEF Begin, Open, Live, EarlierAreClosed, NothingSentEarly, StartedInOrder
<1>10. ASSUME NEW r \in Runs, ClearSentinel(r)
       PROVE  EarlierAreClosed' /\ NothingSentEarly' /\ StartedInOrder'
  BY <1>t, <1>10 DEF ClearSentinel, Open, Live, EarlierAreClosed, NothingSentEarly, StartedInOrder
<1>11. ASSUME NEW r \in Runs, ResumeIsLost(r)
       PROVE  EarlierAreClosed' /\ NothingSentEarly' /\ StartedInOrder'
  BY <1>t, <1>11 DEF ResumeIsLost, Open, Live, EarlierAreClosed, NothingSentEarly, StartedInOrder
<1>12. ASSUME NEW r \in Runs, PrecheckPasses(r)
       PROVE  EarlierAreClosed' /\ NothingSentEarly' /\ StartedInOrder'
  BY <1>t, <1>12 DEF PrecheckPasses, Open, Live, EarlierAreClosed, NothingSentEarly, StartedInOrder
<1>13. ASSUME NEW r \in Runs, PrecheckFails(r)
       PROVE  EarlierAreClosed' /\ NothingSentEarly' /\ StartedInOrder'
  BY <1>t, <1>13 DEF PrecheckFails, Fail, Open, Live, EarlierAreClosed, NothingSentEarly, StartedInOrder
<1>14. ASSUME NEW r \in Runs, RunReturns(r)
       PROVE  EarlierAreClosed' /\ NothingSentEarly' /\ StartedInOrder'
  BY <1>t, <1>14 DEF RunReturns, Open, Live, EarlierAreClosed, NothingSentEarly, StartedInOrder
<1>15. ASSUME NEW r \in Runs, RunFails(r)
       PROVE  EarlierAreClosed' /\ NothingSentEarly' /\ StartedInOrder'
  BY <1>t, <1>15 DEF RunFails, Fail, Open, Live, EarlierAreClosed, NothingSentEarly, StartedInOrder
<1>16. ASSUME NEW r \in Runs, RunIsLost(r)
       PROVE  EarlierAreClosed' /\ NothingSentEarly' /\ StartedInOrder'
  BY <1>t, <1>16 DEF RunIsLost, Fail, Open, Live, EarlierAreClosed, NothingSentEarly, StartedInOrder
<1>17. ASSUME NEW r \in Runs, Launch(r)
       PROVE  EarlierAreClosed' /\ NothingSentEarly' /\ StartedInOrder'
  <2>1. EarlierAreClosed'
    BY <1>17 DEF Launch, EarlierAreClosed
  <2>2. NothingSentEarly'
    BY <1>t, <1>17 DEF Launch, NothingSentEarly
  <2>3. \A q \in Runs : q # r => proc'[q] = proc[q]
    BY <1>t, <1>17 DEF Launch
  <2>4. proc'[r] = "running"
    BY <1>t, <1>17 DEF Launch
  <2>5. \A q \in Runs : q[1] = r[1] /\ q[2] < r[2] => proc[q] # "sent"
    BY <1>17 DEF Launch, RunsOf
  <2>6. StartedInOrder'
    BY <2>3, <2>4, <2>5 DEF StartedInOrder
  <2> QED
    BY <2>1, <2>2, <2>6
<1>18. ASSUME NEW r \in Runs, Move(r)
       PROVE  EarlierAreClosed' /\ NothingSentEarly' /\ StartedInOrder'
  BY <1>t, <1>18 DEF Move, EarlierAreClosed, NothingSentEarly, StartedInOrder
<1>19. ASSUME NEW r \in Runs, Exit(r)
       PROVE  EarlierAreClosed' /\ NothingSentEarly' /\ StartedInOrder'
  BY <1>t, <1>19 DEF Exit, Open, Live, EarlierAreClosed, NothingSentEarly, StartedInOrder
<1>20. ASSUME NEW r \in Runs, Crash(r)
       PROVE  EarlierAreClosed' /\ NothingSentEarly' /\ StartedInOrder'
  BY <1>t, <1>20 DEF Crash, Open, Live, EarlierAreClosed, NothingSentEarly, StartedInOrder
<1>21. ASSUME NEW r \in Runs, Report(r)
       PROVE  EarlierAreClosed' /\ NothingSentEarly' /\ StartedInOrder'
  BY <1>t, <1>21 DEF Report, Answer, Outcome, EarlierAreClosed, NothingSentEarly, StartedInOrder
<1>22. CASE AgentRestart
  BY <1>t, <1>22 DEF AgentRestart, EarlierAreClosed, NothingSentEarly, StartedInOrder, Open, Live
<1>23. CASE ServerRestart
  BY <1>t, <1>23 DEF ServerRestart, EarlierAreClosed, NothingSentEarly, StartedInOrder, Open, Live
<1>24. CASE UNCHANGED vars
  BY <1>24 DEF vars, EarlierAreClosed, NothingSentEarly, StartedInOrder
<1>25. QED
  BY <1>1, <1>2, <1>3, <1>4, <1>5, <1>6, <1>7, <1>8, <1>9, <1>10, <1>11, <1>12,
     <1>13, <1>14, <1>15, <1>16, <1>17, <1>18, <1>19, <1>20, <1>21, <1>22, <1>23, <1>24
     DEF Next, Service, RunHandler, ControlHandler, Archiver, Faults

-------------------------------------------------------------------------------
(* Jobs, sentinels and the table *)

LEMMA StepJobs ==
  ASSUME Inv, [Next]_vars
  PROVE  WaitingIsShown' /\ EndIsKnown' /\ SuccessIsExhausted' /\ RunningIsAttended'
<1> USE RunIsPair, ControlIsPair
<1> USE DEF runVars, ctlVars, agentVars, bounds
<1>t. /\ pc \in [Runs -> Open \cup {"none", "success", "failed"}]
      /\ proc \in [Runs -> DOMAIN Outcome \cup {"none", "sent", "running", "exited", "error", "dead"}]
      /\ sentinel \in [Jobs -> DOMAIN Answer]
      /\ job \in [Jobs -> [status : Statuses, archived : Nat]]
      /\ left \in Nat /\ faults \in Nat
  BY ArchiveAssumption DEF Inv, TypeOK, RunningIsAttended
<1>i. /\ WaitingIsShown /\ EndIsKnown /\ SuccessIsExhausted /\ RunningIsAttended
      /\ NothingSentEarly /\ StartedInOrder /\ EarlierAreClosed
  BY DEF Inv
\* The handler of a run that is at work has the job to itself.
<1>o. \A q, r \in Runs : q[1] = r[1] /\ pc[q] = "waiting" /\ pc[r] \in Open => q = r
  BY <1>i, OneOpenRun DEF Open, Live
<1> USE <1>t
<1>1. ASSUME NEW j \in Jobs, Start(j)
      PROVE  WaitingIsShown' /\ EndIsKnown' /\ SuccessIsExhausted' /\ RunningIsAttended'
  BY <1>i, <1>1 DEF Start, UpdateState, CreateRunTask, WaitingIsShown, EndIsKnown, SuccessIsExhausted, RunningIsAttended
<1>2. ASSUME NEW j \in Jobs, StartIsCut(j)
      PROVE  WaitingIsShown' /\ EndIsKnown' /\ SuccessIsExhausted' /\ RunningIsAttended'
  BY <1>i, <1>2 DEF StartIsCut, UpdateState, Fault, WaitingIsShown, EndIsKnown, SuccessIsExhausted, RunningIsAttended
<1>3. ASSUME NEW j \in Jobs, Resume(j)
      PROVE  WaitingIsShown' /\ EndIsKnown' /\ SuccessIsExhausted' /\ RunningIsAttended'
  <2>1. WaitingIsShown' /\ EndIsKnown' /\ SuccessIsExhausted' /\ RunningIsAttended'
    <3>1. PICK n \in 1..MaxRuns : CreateRunTask(j, n)
      BY <1>3 DEF Resume
    <3>2. /\ <<j, n>> \in Runs /\ pc[<<j, n>>] = "none" /\ proc[<<j, n>>] = "none"
          /\ pc' = [pc EXCEPT ![<<j, n>>] = "queued"]
      BY <1>i, <3>1 DEF CreateRunTask, NothingSentEarly
    <3> QED
      BY <1>i, <3>2, <1>3 DEF Resume, WaitingIsShown, EndIsKnown, SuccessIsExhausted, RunningIsAttended
  <2> QED
    BY <2>1
<1>4. ASSUME NEW c \in Controls, Control(c)
      PROVE  WaitingIsShown' /\ EndIsKnown' /\ SuccessIsExhausted' /\ RunningIsAttended'
  BY <1>i, <1>4 DEF Control, WaitingIsShown, EndIsKnown, SuccessIsExhausted, RunningIsAttended
<1>5. ASSUME NEW c \in Controls, ReadJob(c)
      PROVE  WaitingIsShown' /\ EndIsKnown' /\ SuccessIsExhausted' /\ RunningIsAttended'
  BY <1>i, <1>5 DEF ReadJob, WaitingIsShown, EndIsKnown, SuccessIsExhausted, RunningIsAttended
<1>6. ASSUME NEW c \in Controls, WriteSentinel(c)
      PROVE  WaitingIsShown' /\ EndIsKnown' /\ SuccessIsExhausted' /\ RunningIsAttended'
  BY <1>i, <1>6 DEF WriteSentinel, WaitingIsShown, EndIsKnown, SuccessIsExhausted, RunningIsAttended
<1>7. ASSUME NEW c \in Controls, ControlIsLost(c)
      PROVE  WaitingIsShown' /\ EndIsKnown' /\ SuccessIsExhausted' /\ RunningIsAttended'
  BY <1>i, <1>7 DEF ControlIsLost, Fault, WaitingIsShown, EndIsKnown, SuccessIsExhausted, RunningIsAttended
<1>8. ASSUME NEW c \in Controls, ControlReturns(c)
      PROVE  WaitingIsShown' /\ EndIsKnown' /\ SuccessIsExhausted' /\ RunningIsAttended'
  BY <1>i, <1>8 DEF ControlReturns, UpdateState, Asked, WaitingIsShown, EndIsKnown, SuccessIsExhausted, RunningIsAttended
<1>9. ASSUME NEW r \in Runs, Begin(r)
      PROVE  WaitingIsShown' /\ EndIsKnown' /\ SuccessIsExhausted' /\ RunningIsAttended'
  BY <1>i, <1>9 DEF Begin, Open, Live, WaitingIsShown, EndIsKnown, SuccessIsExhausted, RunningIsAttended
<1>10. ASSUME NEW r \in Runs, ClearSentinel(r)
       PROVE  WaitingIsShown' /\ EndIsKnown' /\ SuccessIsExhausted' /\ RunningIsAttended'
  <2>1. EndIsKnown'
    <3>1. \A q \in Runs : q[1] = r[1] => pc[q] # "waiting"
      BY <1>o, <1>10 DEF ClearSentinel, Open, Live
    <3>2. \A q \in Runs : q[1] # r[1] => sentinel'[q[1]] = sentinel[q[1]]
      BY <1>10 DEF ClearSentinel
    <3>3. \A q \in Runs : pc'[q] = "waiting" => pc[q] = "waiting"
      BY <1>10 DEF ClearSentinel
    <3> QED
      BY <1>i, <3>1, <3>2, <3>3, <1>10 DEF ClearSentinel, EndIsKnown
  <2>2. WaitingIsShown' /\ SuccessIsExhausted' /\ RunningIsAttended'
    BY <1>i, <1>10 DEF ClearSentinel, Open, Live, WaitingIsShown, SuccessIsExhausted, RunningIsAttended
  <2> QED
    BY <2>1, <2>2
<1>11. ASSUME NEW r \in Runs, ResumeIsLost(r)
       PROVE  WaitingIsShown' /\ EndIsKnown' /\ SuccessIsExhausted' /\ RunningIsAttended'
  <2>1. EndIsKnown'
    <3>1. \A q \in Runs : q[1] = r[1] => pc[q] # "waiting"
      BY <1>o, <1>11 DEF ResumeIsLost, Open, Live
    <3>2. \A q \in Runs : q[1] # r[1] => sentinel'[q[1]] = sentinel[q[1]]
      BY <1>11 DEF ResumeIsLost
    <3>3. \A q \in Runs : pc'[q] = "waiting" => pc[q] = "waiting"
      BY <1>11 DEF ResumeIsLost
    <3> QED
      BY <1>i, <3>1, <3>2, <3>3, <1>11 DEF ResumeIsLost, EndIsKnown
  <2>2. WaitingIsShown' /\ SuccessIsExhausted' /\ RunningIsAttended'
    BY <1>i, <1>11 DEF ResumeIsLost, Fault, WaitingIsShown, SuccessIsExhausted, RunningIsAttended
  <2> QED
    BY <2>1, <2>2
<1>12. ASSUME NEW r \in Runs, PrecheckPasses(r)
       PROVE  WaitingIsShown' /\ EndIsKnown' /\ SuccessIsExhausted' /\ RunningIsAttended'
  BY <1>i, <1>12 DEF PrecheckPasses, UpdateState, WaitingIsShown, EndIsKnown, SuccessIsExhausted, RunningIsAttended
<1>13. ASSUME NEW r \in Runs, PrecheckFails(r)
       PROVE  WaitingIsShown' /\ EndIsKnown' /\ SuccessIsExhausted' /\ RunningIsAttended'
  <2>1. WaitingIsShown'
    <3>1. \A q \in Runs : q[1] = r[1] => pc[q] # "waiting"
      BY <1>o, <1>13 DEF PrecheckFails, Open, Live
    <3> QED
      BY <1>i, <3>1, <1>13 DEF PrecheckFails, Fail, UpdateState, WaitingIsShown
  <2>2. EndIsKnown' /\ SuccessIsExhausted' /\ RunningIsAttended'
    BY <1>i, <1>13 DEF PrecheckFails, Fail, UpdateState, EndIsKnown, SuccessIsExhausted, RunningIsAttended
  <2> QED
    BY <2>1, <2>2
<1>14. ASSUME NEW r \in Runs, RunReturns(r)
       PROVE  WaitingIsShown' /\ EndIsKnown' /\ SuccessIsExhausted' /\ RunningIsAttended'
  <2>1. WaitingIsShown'
    <3>1. \A q \in Runs : q[1] = r[1] /\ q # r => pc[q] # "waiting"
      BY <1>o, <1>14 DEF RunReturns, Open, Live
    <3> QED
      BY <1>i, <3>1, <1>14 DEF RunReturns, UpdateState, Outcome, WaitingIsShown
  <2>2. SuccessIsExhausted'
    <3>1. /\ job' = [job EXCEPT ![r[1]] = [status |-> Outcome[proc[r]], archived |-> base[r] + moved[r]]]
          /\ left' = left
      BY <1>14 DEF RunReturns, UpdateState
    <3>2. Outcome[proc[r]] = "success" => left = 0
      BY <1>i, <1>14 DEF RunReturns, Outcome, EndIsKnown
    <3> QED
      BY <1>i, <3>1, <3>2 DEF SuccessIsExhausted
  <2>3. EndIsKnown' /\ RunningIsAttended'
    BY <1>i, <1>14 DEF RunReturns, UpdateState, Outcome, EndIsKnown, RunningIsAttended
  <2> QED
    BY <2>1, <2>2, <2>3
<1>15. ASSUME NEW r \in Runs, RunFails(r)
       PROVE  WaitingIsShown' /\ EndIsKnown' /\ SuccessIsExhausted' /\ RunningIsAttended'
  <2>1. WaitingIsShown'
    <3>1. \A q \in Runs : q[1] = r[1] /\ q # r => pc[q] # "waiting"
      BY <1>o, <1>15 DEF RunFails, Open, Live
    <3> QED
      BY <1>i, <3>1, <1>15 DEF RunFails, Fail, UpdateState, WaitingIsShown
  <2>2. EndIsKnown' /\ SuccessIsExhausted' /\ RunningIsAttended'
    BY <1>i, <1>15 DEF RunFails, Fail, UpdateState, EndIsKnown, SuccessIsExhausted, RunningIsAttended
  <2> QED
    BY <2>1, <2>2
<1>16. ASSUME NEW r \in Runs, RunIsLost(r)
       PROVE  WaitingIsShown' /\ EndIsKnown' /\ SuccessIsExhausted' /\ RunningIsAttended'
  <2>1. WaitingIsShown'
    <3>1. \A q \in Runs : q[1] = r[1] /\ q # r => pc[q] # "waiting"
      BY <1>o, <1>16 DEF RunIsLost, Open, Live
    <3> QED
      BY <1>i, <3>1, <1>16 DEF RunIsLost, Fail, UpdateState, Fault, WaitingIsShown
  <2>2. EndIsKnown' /\ SuccessIsExhausted' /\ RunningIsAttended'
    BY <1>i, <1>16 DEF RunIsLost, Fault, Fail, UpdateState, EndIsKnown, SuccessIsExhausted, RunningIsAttended
  <2> QED
    BY <2>1, <2>2
<1>17. ASSUME NEW r \in Runs, Launch(r)
       PROVE  WaitingIsShown' /\ EndIsKnown' /\ SuccessIsExhausted' /\ RunningIsAttended'
  <2>1. EndIsKnown'
    <3>1. ASSUME NEW q \in Runs, q[1] = r[1], pc[q] = "waiting", proc[q] = "exited"
          PROVE  FALSE
      <4>1. q # r /\ pc[r] # "none"
        BY <1>i, <3>1, <1>17 DEF Launch, NothingSentEarly
      <4>2. CASE q[2] < r[2]
        BY <1>i, <3>1, <4>1, <4>2 DEF EarlierAreClosed
      <4>3. CASE r[2] < q[2]
        BY <1>i, <3>1, <4>3, <1>17 DEF StartedInOrder, Launch
      <4> QED
        BY <3>1, <4>1, <4>2, <4>3, RunsAreOrdered
    <3>2. \A q \in Runs : q[1] # r[1] => sentinel'[q[1]] = sentinel[q[1]]
      BY <1>17 DEF Launch
    <3>3. \A q \in Runs : proc'[q] \in {"exited", "completed"} => proc'[q] = proc[q]
      BY <1>17 DEF Launch
    <3> QED
      BY <1>i, <3>1, <3>2, <3>3, <1>17 DEF Launch, EndIsKnown
  <2>2. WaitingIsShown' /\ SuccessIsExhausted' /\ RunningIsAttended'
    BY <1>i, <1>17 DEF Launch, WaitingIsShown, SuccessIsExhausted, RunningIsAttended
  <2> QED
    BY <2>1, <2>2
<1>18. ASSUME NEW r \in Runs, Move(r)
       PROVE  WaitingIsShown' /\ EndIsKnown' /\ SuccessIsExhausted' /\ RunningIsAttended'
  BY <1>i, <1>18 DEF Move, WaitingIsShown, EndIsKnown, SuccessIsExhausted, RunningIsAttended
<1>19. ASSUME NEW r \in Runs, Exit(r)
       PROVE  WaitingIsShown' /\ EndIsKnown' /\ SuccessIsExhausted' /\ RunningIsAttended'
  BY <1>i, <1>19 DEF Exit, WaitingIsShown, EndIsKnown, SuccessIsExhausted, RunningIsAttended
<1>20. ASSUME NEW r \in Runs, Crash(r)
       PROVE  WaitingIsShown' /\ EndIsKnown' /\ SuccessIsExhausted' /\ RunningIsAttended'
  BY <1>i, <1>20 DEF Crash, Fault, WaitingIsShown, EndIsKnown, SuccessIsExhausted, RunningIsAttended
<1>21. ASSUME NEW r \in Runs, Report(r)
       PROVE  WaitingIsShown' /\ EndIsKnown' /\ SuccessIsExhausted' /\ RunningIsAttended'
  BY <1>i, <1>21 DEF Report, Answer, Outcome, WaitingIsShown, EndIsKnown, SuccessIsExhausted, RunningIsAttended
<1>22. CASE AgentRestart
  BY <1>i, <1>22 DEF AgentRestart, Fault, WaitingIsShown, EndIsKnown, SuccessIsExhausted, RunningIsAttended
<1>23. CASE ServerRestart
  BY <1>i, <1>23 DEF ServerRestart, Fault, WaitingIsShown, EndIsKnown, SuccessIsExhausted, RunningIsAttended
<1>24. CASE UNCHANGED vars
  BY <1>i, <1>24 DEF vars, WaitingIsShown, EndIsKnown, SuccessIsExhausted, RunningIsAttended
<1>25. QED
  <2> HIDE RunIsPair, ControlIsPair, <1>t
  <2> HIDE DEF runVars, ctlVars, agentVars, bounds
  <2> QED
    BY <1>1, <1>2, <1>3, <1>4, <1>5, <1>6, <1>7, <1>8, <1>9, <1>10, <1>11, <1>12,
       <1>13, <1>14, <1>15, <1>16, <1>17, <1>18, <1>19, <1>20, <1>21, <1>22, <1>23, <1>24
       DEF Next, Service, RunHandler, ControlHandler, Archiver, Faults

-------------------------------------------------------------------------------
(* Counters *)

\* The steps that move no row, nor send an archiver.
LEMMA QuietCounters ==
  ASSUME MovedIsLaunched, UNCHANGED moved,
         \A r \in Runs : proc'[r] \in {"none", "sent"} => proc[r] \in {"none", "sent"}
  PROVE  MovedIsLaunched' /\ \A j \in Jobs : Archived(j)' = Archived(j)
BY DEF MovedIsLaunched, Archived

LEMMA StepCounters == ASSUME Inv, [Next]_vars PROVE MovedIsLaunched' /\ CountersAreCovered'
<1> USE RunIsPair, ControlIsPair
<1> USE DEF runVars, ctlVars, agentVars, bounds
<1>t. /\ job \in [Jobs -> [status : Statuses, archived : Nat]]
      /\ base \in [Runs -> Nat] /\ copy \in [Controls -> Nat]
      /\ moved \in [Runs -> 0..Rows]
      /\ proc \in [Runs -> DOMAIN Outcome \cup {"none", "sent", "running", "exited", "error", "dead"}]
      /\ sentinel \in [Jobs -> DOMAIN Answer]
  BY DEF Inv, TypeOK
<1>i. MovedIsLaunched /\ CountersAreCovered /\ NothingSentEarly
  BY DEF Inv
<1>n. \A j \in Jobs : Archived(j) \in Nat
  BY BatchesAreFinite, ArchivedIs
<1> USE <1>t
<1>1. ASSUME NEW j \in Jobs, Start(j)
      PROVE  MovedIsLaunched' /\ CountersAreCovered'
  <2>1. MovedIsLaunched' /\ \A k \in Jobs : Archived(k)' = Archived(k)
    BY <1>i, <1>1, QuietCounters DEF Start
  <2> QED
    BY <1>i, <1>n, <2>1, <1>1 DEF Start, UpdateState, CountersAreCovered
<1>2. ASSUME NEW j \in Jobs, StartIsCut(j)
      PROVE  MovedIsLaunched' /\ CountersAreCovered'
  <2>1. MovedIsLaunched' /\ \A k \in Jobs : Archived(k)' = Archived(k)
    BY <1>i, <1>2, QuietCounters DEF StartIsCut
  <2> QED
    BY <1>i, <1>n, <2>1, <1>2 DEF StartIsCut, UpdateState, CountersAreCovered
<1>3. ASSUME NEW j \in Jobs, Resume(j)
      PROVE  MovedIsLaunched' /\ CountersAreCovered'
  <2>1. MovedIsLaunched' /\ \A k \in Jobs : Archived(k)' = Archived(k)
    BY <1>i, <1>3, QuietCounters DEF Resume
  <2> QED
    BY <1>i, <1>n, <2>1, <1>3 DEF Resume, CountersAreCovered
<1>4. ASSUME NEW c \in Controls, Control(c)
      PROVE  MovedIsLaunched' /\ CountersAreCovered'
  <2>1. MovedIsLaunched' /\ \A k \in Jobs : Archived(k)' = Archived(k)
    BY <1>i, <1>4, QuietCounters DEF Control
  <2> QED
    BY <1>i, <1>n, <2>1, <1>4 DEF Control, CountersAreCovered
<1>5. ASSUME NEW c \in Controls, ReadJob(c)
      PROVE  MovedIsLaunched' /\ CountersAreCovered'
  <2>1. MovedIsLaunched' /\ \A k \in Jobs : Archived(k)' = Archived(k)
    BY <1>i, <1>5, QuietCounters DEF ReadJob
  <2> QED
    BY <1>i, <1>n, <2>1, <1>5 DEF ReadJob, CountersAreCovered
<1>6. ASSUME NEW c \in Controls, WriteSentinel(c)
      PROVE  MovedIsLaunched' /\ CountersAreCovered'
  <2>1. MovedIsLaunched' /\ \A k \in Jobs : Archived(k)' = Archived(k)
    BY <1>i, <1>6, QuietCounters DEF WriteSentinel
  <2> QED
    BY <1>i, <1>n, <2>1, <1>6 DEF WriteSentinel, CountersAreCovered
<1>7. ASSUME NEW c \in Controls, ControlIsLost(c)
      PROVE  MovedIsLaunched' /\ CountersAreCovered'
  <2>1. MovedIsLaunched' /\ \A k \in Jobs : Archived(k)' = Archived(k)
    BY <1>i, <1>7, QuietCounters DEF ControlIsLost
  <2> QED
    BY <1>i, <1>n, <2>1, <1>7 DEF ControlIsLost, CountersAreCovered
<1>8. ASSUME NEW c \in Controls, ControlReturns(c)
      PROVE  MovedIsLaunched' /\ CountersAreCovered'
  <2>1. MovedIsLaunched' /\ \A k \in Jobs : Archived(k)' = Archived(k)
    BY <1>i, <1>8, QuietCounters DEF ControlReturns
  <2> QED
    BY <1>i, <1>n, <2>1, <1>8 DEF ControlReturns, UpdateState, CountersAreCovered
<1>9. ASSUME NEW r \in Runs, Begin(r)
      PROVE  MovedIsLaunched' /\ CountersAreCovered'
  <2>1. /\ moved[r] = 0
        /\ MovedIsLaunched' /\ \A k \in Jobs : Archived(k)' = Archived(k)
    BY <1>i, <1>9, QuietCounters DEF Begin, MovedIsLaunched, NothingSentEarly
  <2> QED
    BY <1>i, <1>n, <2>1, <1>9 DEF Begin, CountersAreCovered
<1>10. ASSUME NEW r \in Runs, ClearSentinel(r)
       PROVE  MovedIsLaunched' /\ CountersAreCovered'
  <2>1. MovedIsLaunched' /\ \A k \in Jobs : Archived(k)' = Archived(k)
    BY <1>i, <1>10, QuietCounters DEF ClearSentinel
  <2> QED
    BY <1>i, <1>n, <2>1, <1>10 DEF ClearSentinel, CountersAreCovered
<1>11. ASSUME NEW r \in Runs, ResumeIsLost(r)
       PROVE  MovedIsLaunched' /\ CountersAreCovered'
  <2>1. MovedIsLaunched' /\ \A k \in Jobs : Archived(k)' = Archived(k)
    BY <1>i, <1>11, QuietCounters DEF ResumeIsLost
  <2> QED
    BY <1>i, <1>n, <2>1, <1>11 DEF ResumeIsLost, CountersAreCovered
<1>12. ASSUME NEW r \in Runs, PrecheckPasses(r)
       PROVE  MovedIsLaunched' /\ CountersAreCovered'
  <2>1. proc[r] = "none"
    BY <1>i, <1>12 DEF PrecheckPasses, NothingSentEarly
  <2>2. MovedIsLaunched' /\ \A k \in Jobs : Archived(k)' = Archived(k)
    BY <1>i, <2>1, <1>12, QuietCounters DEF PrecheckPasses
  <2>3. base[r] <= Archived(r[1])
    BY <1>i, <1>n, ArchiveAssumption DEF CountersAreCovered
  <2> QED
    BY <1>i, <1>n, <2>2, <2>3, <1>12 DEF PrecheckPasses, UpdateState, CountersAreCovered
<1>13. ASSUME NEW r \in Runs, PrecheckFails(r)
       PROVE  MovedIsLaunched' /\ CountersAreCovered'
  <2>1. MovedIsLaunched' /\ \A k \in Jobs : Archived(k)' = Archived(k)
    BY <1>i, <1>13, QuietCounters DEF PrecheckFails
  <2>2. base[r] <= Archived(r[1])
    BY <1>i, <1>n, ArchiveAssumption DEF CountersAreCovered
  <2> QED
    BY <1>i, <1>n, <2>1, <2>2, <1>13 DEF PrecheckFails, Fail, UpdateState, CountersAreCovered
<1>14. ASSUME NEW r \in Runs, RunReturns(r)
       PROVE  MovedIsLaunched' /\ CountersAreCovered'
  <2>1. MovedIsLaunched' /\ \A k \in Jobs : Archived(k)' = Archived(k)
    BY <1>i, <1>14, QuietCounters DEF RunReturns
  <2> QED
    BY <1>i, <1>n, <2>1, <1>14 DEF RunReturns, UpdateState, CountersAreCovered
<1>15. ASSUME NEW r \in Runs, RunFails(r)
       PROVE  MovedIsLaunched' /\ CountersAreCovered'
  <2>1. MovedIsLaunched' /\ \A k \in Jobs : Archived(k)' = Archived(k)
    BY <1>i, <1>15, QuietCounters DEF RunFails
  <2>2. base[r] <= Archived(r[1])
    BY <1>i, <1>n, ArchiveAssumption DEF CountersAreCovered
  <2> QED
    BY <1>i, <1>n, <2>1, <2>2, <1>15 DEF RunFails, Fail, UpdateState, CountersAreCovered
<1>16. ASSUME NEW r \in Runs, RunIsLost(r)
       PROVE  MovedIsLaunched' /\ CountersAreCovered'
  <2>1. MovedIsLaunched' /\ \A k \in Jobs : Archived(k)' = Archived(k)
    BY <1>i, <1>16, QuietCounters DEF RunIsLost
  <2>2. base[r] <= Archived(r[1])
    BY <1>i, <1>n, ArchiveAssumption DEF CountersAreCovered
  <2> QED
    BY <1>i, <1>n, <2>1, <2>2, <1>16 DEF RunIsLost, Fail, UpdateState, CountersAreCovered
<1>17. ASSUME NEW r \in Runs, Launch(r)
       PROVE  MovedIsLaunched' /\ CountersAreCovered'
  <2>1. MovedIsLaunched' /\ \A k \in Jobs : Archived(k)' = Archived(k)
    BY <1>i, <1>17, QuietCounters DEF Launch
  <2> QED
    BY <1>i, <1>n, <2>1, <1>17 DEF Launch, CountersAreCovered
<1>18. ASSUME NEW r \in Runs, Move(r)
       PROVE  MovedIsLaunched' /\ CountersAreCovered'
  <2>1. moved[r] < Rows
    BY <1>18, ArchiveAssumption DEF Move, Inv, TypeOK, RowsAreBounded
  <2>2. \A k \in Jobs : Archived(k)' = IF k = r[1] THEN Archived(k) + 1 ELSE Archived(k)
    <3> DEFINE after == [moved EXCEPT ![r] = @ + 1]
    <3>1. moved' = after /\ moved \in [Runs -> 0..Rows]
      BY <1>18 DEF Move
    <3>2. \A k \in Jobs : Cardinality(Batches(k, after)) =
            IF k = r[1] THEN Cardinality(Batches(k, moved)) + 1 ELSE Cardinality(Batches(k, moved))
      BY <2>1, MoveCounts
    <3> HIDE DEF after
    <3> QED
      BY <3>1, <3>2, ArchivedIs
  <2>3. MovedIsLaunched'
    BY <1>i, <1>18 DEF Move, MovedIsLaunched
  <2>4. CountersAreCovered'
    <3>1. \A q \in Runs : base'[q] + moved'[q] <= Archived(q[1])'
      <4>1. \A q \in Runs : moved'[q] = IF q = r THEN moved[q] + 1 ELSE moved[q]
        BY <1>18 DEF Move
      <4>2. \A q \in Runs : moved[q] \in Nat /\ base[q] \in Nat
        BY ArchiveAssumption
      <4> QED
        BY <1>i, <1>n, <1>18, <2>2, <4>1, <4>2 DEF Move, CountersAreCovered
    <3>2. \A k \in Jobs : Archived(k)' \in Nat /\ Archived(k)' >= Archived(k)
      BY <1>n, <2>2
    <3>3. \A k \in Jobs : job'[k].archived <= Archived(k)'
      <4>1. job' = job /\ \A k \in Jobs : job[k].archived \in Nat
        BY <1>18 DEF Move
      <4>2. \A k \in Jobs : job[k].archived <= Archived(k)
        BY <1>i DEF CountersAreCovered
      <4>3. ASSUME NEW k \in Jobs PROVE job[k].archived <= Archived(k)'
        BY <1>n, <3>2, <4>1, <4>2
      <4> QED
        BY <4>1, <4>3
    <3>4. \A c \in Controls : copy'[c] <= Archived(c[1])'
      <4>1. copy' = copy /\ \A c \in Controls : copy[c] <= Archived(c[1])
        BY <1>i, <1>18 DEF Move, CountersAreCovered
      <4> QED
        BY <1>n, <2>2, <4>1
    <3> QED
      BY <3>1, <3>3, <3>4 DEF CountersAreCovered
  <2> QED
    BY <2>3, <2>4
<1>19. ASSUME NEW r \in Runs, Exit(r)
       PROVE  MovedIsLaunched' /\ CountersAreCovered'
  <2>1. MovedIsLaunched' /\ \A k \in Jobs : Archived(k)' = Archived(k)
    BY <1>i, <1>19, QuietCounters DEF Exit
  <2> QED
    BY <1>i, <1>n, <2>1, <1>19 DEF Exit, CountersAreCovered
<1>20. ASSUME NEW r \in Runs, Crash(r)
       PROVE  MovedIsLaunched' /\ CountersAreCovered'
  <2>1. MovedIsLaunched' /\ \A k \in Jobs : Archived(k)' = Archived(k)
    BY <1>i, <1>20, QuietCounters DEF Crash
  <2> QED
    BY <1>i, <1>n, <2>1, <1>20 DEF Crash, CountersAreCovered
<1>21. ASSUME NEW r \in Runs, Report(r)
       PROVE  MovedIsLaunched' /\ CountersAreCovered'
  <2>1. MovedIsLaunched' /\ \A k \in Jobs : Archived(k)' = Archived(k)
    BY <1>i, <1>21, QuietCounters DEF Report, Answer
  <2> QED
    BY <1>i, <1>n, <2>1, <1>21 DEF Report, CountersAreCovered
<1>22. CASE AgentRestart
  BY <1>i, <1>22, QuietCounters DEF AgentRestart, CountersAreCovered
<1>23. CASE ServerRestart
  BY <1>i, <1>23, QuietCounters DEF ServerRestart, CountersAreCovered
<1>24. CASE UNCHANGED vars
  BY <1>i, <1>24, QuietCounters DEF vars, CountersAreCovered
<1>25. QED
  <2> HIDE RunIsPair, ControlIsPair, <1>t
  <2> HIDE DEF runVars, ctlVars, agentVars, bounds
  <2> QED
    BY <1>1, <1>2, <1>3, <1>4, <1>5, <1>6, <1>7, <1>8, <1>9, <1>10, <1>11, <1>12,
       <1>13, <1>14, <1>15, <1>16, <1>17, <1>18, <1>19, <1>20, <1>21, <1>22, <1>23, <1>24
       DEF Next, Service, RunHandler, ControlHandler, Archiver, Faults

-------------------------------------------------------------------------------
(* The theorems *)

\* The invariant holds in every state: policies of one job or of many.
THEOREM InvHolds == Spec => []Inv
<1>1. Inv /\ [Next]_vars => Inv'
  <2> SUFFICES ASSUME Inv, [Next]_vars PROVE Inv'
    OBVIOUS
  <2>1. TypeOK' /\ RowsAreBounded'
    BY StepTypeOK DEF Inv
  <2>2. EarlierAreClosed' /\ NothingSentEarly' /\ StartedInOrder'
    BY StepRuns DEF Inv
  <2>3. WaitingIsShown' /\ EndIsKnown' /\ SuccessIsExhausted' /\ RunningIsAttended'
    BY StepJobs
  <2>4. MovedIsLaunched' /\ CountersAreCovered'
    BY StepCounters
  <2> QED
    BY <2>1, <2>2, <2>3, <2>4 DEF Inv
<1> QED
  BY <1>1, InitInv, PTL DEF Spec

\* Type correctness: what handlers and controls write over each other is a
\* status the service knows.
THEOREM TypeCorrect == Spec => []TypeOK
<1>1. Inv => TypeOK
  BY DEF Inv
<1> QED
  BY <1>1, InvHolds, PTL

\* A job is a success only when no row is left, although controls, resumes and
\* archivers given up all write and remove the sentinel that tells the ends
\* apart.
THEOREM SuccessMeansExhausted == Spec => []SuccessIsExhausted
<1>1. Inv => SuccessIsExhausted
  BY DEF Inv
<1> QED
  BY <1>1, InvHolds, PTL

\* A job is not shown as ended while its handler waits for its archiver.
THEOREM EndedMeansStill == Spec => []EndedIsStill
<1>1. Inv => EndedIsStill
  BY DEF Inv, WaitingIsShown, EndedIsStill, Ended
<1> QED
  BY <1>1, InvHolds, PTL

\* Without a fault no job has two archivers, although it may be resumed while
\* the pause is still asked for.
THEOREM ArchiversAreAlone == Spec => []OneArchiver
<1>1. Inv => OneArchiver
  <2> SUFFICES ASSUME Inv, faults = 0, NEW j \in Jobs
               PROVE  Cardinality({r \in RunsOf(j) : proc[r] \in {"sent", "running"}}) <= 1
    BY DEF OneArchiver
  <2> DEFINE S == {r \in RunsOf(j) : proc[r] \in {"sent", "running"}}
  <2>1. \A q, r \in S : q = r
    BY OneOpenRun DEF Inv, RunningIsAttended, RunsOf, Open, Live
  <2>2. CASE S = {}
    BY <2>2, FS_EmptySet
  <2>3. CASE S # {}
    <3>1. PICK r \in S : S = {r}
      BY <2>1, <2>3
    <3>2. Cardinality(S) = 1
      BY <3>1, FS_Singleton
    <3> QED
      BY <3>2
  <2> QED
    BY <2>2, <2>3
<1> QED
  BY <1>1, InvHolds, PTL

\* A job never claims rows that its runs have not archived: neither stale
\* copies of the row that controls and resumes write back, nor runs given up
\* that go on, make it count a row twice.
THEOREM CountersAreNotOverstated == Spec => []NeverOverstated
<1>1. Inv => NeverOverstated
  BY DEF Inv, CountersAreCovered, NeverOverstated
<1> QED
  BY <1>1, InvHolds, PTL
===============================================================================
