---------------------------- MODULE OperationProofs ----------------------------
(***************************************************************************)
(* Operations on instances and the server's own requests and rules: that   *)
(* what the rows and events say is true, for every set of tasks, requests  *)
(* and rules and every number of faults.  One section a component, in the  *)
(* variables of its module; Services has them all.                         *)
(***************************************************************************)
EXTENDS Integers, Sequences, SequenceTheorems, TLAPS

CONSTANTS
  ControlTasks, ReplicationTasks, DatafileTasks, MaxSize, MaxRequests, MaxLogins, Targets,
  Rules, MaxValue, MaxAge, MaxFaults, MaxReplicationFaults

VARIABLES
  pc, faults,                              \* of all but the engine; of all
  run,                                     \* of tasks
  up, status, last, wrote,                 \* of starts and stops (status: of
  step, account, channel, link, row,       \* replications, too)
  answer, credential,                      \* (credential: of Onboarding, too)
  target,                                  \* of datafiles and Onboarding
  size, used, lost, outgrown,              \* of datafiles
  gone, instance,                          \* of Onboarding
  token, session, issued, expired,         \* of sessions
  latest, age, due, at, seen, select,      \* of the alert engine
  held, firing, acked, since

Control == INSTANCE InstanceService WITH Tasks <- ControlTasks
Replication == INSTANCE MySQLReplication WITH
  Tasks <- ReplicationTasks, MaxFaults <- MaxReplicationFaults
Datafile == INSTANCE OracleDatafile WITH Tasks <- DatafileTasks
Onboard == INSTANCE Onboarding
Tokens == INSTANCE RefreshTokens WITH MaxRequests <- MaxLogins
Alerts == INSTANCE AlertEngine

-------------------------------------------------------------------------------
(* Starts and stops *)

\* The three kinds of authors are told apart.
ControlAuthorsDiffer == Control!Nobody \notin ControlTasks /\ Control!Itself \notin ControlTasks

\* A handler that has its answer has had its action verified.
ControlAnswersAreVerified ==
  \A t \in ControlTasks :
    /\ pc[t] \in {"none", "queued"} => run[t] = "none"
    /\ pc[t] \in {"answered", "success"} => run[t] = "done"

\* What was verified is still so until somebody else changes mysqld.
ControlVerifiedHolds ==
  /\ \A t \in ControlTasks : run[t] = "done" /\ last = t => up = Control!Wanted(t)
  /\ last = Control!Nobody => up

\* The row has the status its writer's action is for.
ControlRowIsWanted ==
  /\ wrote = Control!Nobody => status = "online"
  /\ \A t \in ControlTasks : wrote = t =>
       pc[t] = "success" /\ (status = "online" <=> Control!Wanted(t))

ControlInv ==
  Control!TypeOK /\ ControlAnswersAreVerified /\ ControlVerifiedHolds /\ ControlRowIsWanted

LEMMA ControlInitInv == ASSUME ControlAuthorsDiffer, Control!Init PROVE ControlInv
BY DEF Control!Init, ControlInv, Control!TypeOK, ControlAuthorsDiffer,
   ControlAnswersAreVerified, ControlVerifiedHolds, ControlRowIsWanted, Control!Wanted

LEMMA ControlServiceInv ==
  ASSUME ControlAuthorsDiffer, ControlInv, NEW t \in ControlTasks,
         Control!Service(t) \/ Control!DispatchFails(t) \/ Control!DispatchIsLost(t)
           \/ Control!UpdateStatusFails(t)
  PROVE  ControlInv'
<1> USE DEF ControlAuthorsDiffer, ControlInv, Control!TypeOK, Control!Open, Control!AtWork,
   Control!hostVars, Control!rowVars, ControlAnswersAreVerified, ControlVerifiedHolds,
   ControlRowIsWanted, Control!Wanted
<1>1. CASE Control!CreateTask(t)
  BY <1>1 DEF Control!CreateTask
<1>2. CASE Control!Dispatch(t)
  BY <1>2 DEF Control!Dispatch
<1>3. CASE Control!Answer(t)
  BY <1>3 DEF Control!Answer
<1>4. CASE Control!UpdateStatus(t)
  BY <1>4 DEF Control!UpdateStatus
<1>5. CASE Control!DispatchFails(t)
  BY <1>5 DEF Control!DispatchFails, Control!Fault
<1>6. CASE Control!DispatchIsLost(t)
  <2>1. CASE UNCHANGED run
    BY <1>6, <2>1 DEF Control!DispatchIsLost, Control!Fault
  <2>2. CASE run[t] = "sent" /\ run' = [run EXCEPT ![t] = "none"]
    BY <1>6, <2>2 DEF Control!DispatchIsLost, Control!Fault
  <2> QED
    BY <1>6, <2>1, <2>2 DEF Control!DispatchIsLost
<1>7. CASE Control!UpdateStatusFails(t)
  BY <1>7 DEF Control!UpdateStatusFails, Control!Fault
<1> QED
  BY <1>1, <1>2, <1>3, <1>4, <1>5, <1>6, <1>7 DEF Control!Service

LEMMA ControlAgentInv ==
  ASSUME ControlAuthorsDiffer, ControlInv, NEW t \in ControlTasks, Control!Agent(t)
  PROVE  ControlInv'
<1> USE DEF ControlAuthorsDiffer, ControlInv, Control!TypeOK, Control!rowVars,
   ControlAnswersAreVerified, ControlVerifiedHolds, ControlRowIsWanted, Control!Wanted
<1>1. CASE Control!Execute(t)
  BY <1>1 DEF Control!Execute
<1>2. CASE Control!ExecuteFails(t)
  <2>1. /\ run[t] = "sent" /\ run' = [run EXCEPT ![t] = "error"]
        /\ UNCHANGED <<pc, status, wrote, faults>>
    BY <1>2 DEF Control!ExecuteFails
  <2>2. CASE UNCHANGED <<up, last>>
    BY <2>1, <2>2
  <2>3. CASE up' = FALSE /\ last' = t
    BY <2>1, <2>3
  <2> QED
    BY <1>2, <2>2, <2>3 DEF Control!ExecuteFails
<1>3. CASE Control!Verify(t)
  BY <1>3 DEF Control!Verify
<1> QED
  BY <1>1, <1>2, <1>3 DEF Control!Agent

LEMMA ControlRestartInv ==
  ASSUME ControlAuthorsDiffer, ControlInv, Control!Crash \/ Control!AgentRestart
    \/ Control!ServerRestart
  PROVE  ControlInv'
<1> USE DEF ControlAuthorsDiffer, ControlInv, Control!TypeOK, Control!Open, Control!AtWork,
   Control!Fault, Control!hostVars, Control!rowVars, ControlAnswersAreVerified,
   ControlVerifiedHolds, ControlRowIsWanted, Control!Wanted
<1>1. CASE Control!Crash
  <2>1. Control!Itself # Control!Nobody
    BY DEF Control!Itself, Control!Nobody
  <2>2. Control!TypeOK'
    <3>1. /\ pc' = pc /\ run' = run /\ up' = FALSE /\ last' = Control!Itself
          /\ status' = status /\ wrote' = wrote /\ faults' = faults + 1
      BY <1>1 DEF Control!Crash
    <3>2. faults' \in Nat
      BY <3>1
    <3> QED
      BY <3>1, <3>2, Zenon
  <2>3. ControlAnswersAreVerified' /\ ControlRowIsWanted'
    BY <1>1 DEF Control!Crash
  <2>4. ControlVerifiedHolds'
    BY <1>1, <2>1 DEF Control!Crash
  <2> QED
    BY <2>2, <2>3, <2>4
<1>2. CASE Control!AgentRestart
  BY <1>2 DEF Control!AgentRestart
<1>3. CASE Control!ServerRestart
  BY <1>3 DEF Control!ServerRestart
<1> QED
  BY <1>1, <1>2, <1>3

LEMMA ControlNextInv ==
  ASSUME ControlAuthorsDiffer, ControlInv, [Control!Next]_Control!vars
  PROVE  ControlInv'
<1>1. CASE Control!Next
  BY <1>1, ControlServiceInv, ControlAgentInv, ControlRestartInv DEF Control!Next
<1>2. CASE UNCHANGED Control!vars
  BY <1>2 DEF Control!vars, Control!hostVars, Control!rowVars, ControlInv, Control!TypeOK,
     ControlAnswersAreVerified, ControlVerifiedHolds, ControlRowIsWanted, Control!Wanted
<1> QED
  BY <1>1, <1>2

LEMMA ControlInvImplies == ASSUME ControlInv PROVE Control!TypeOK /\ Control!StatusFollowsLast
<1>1. CASE wrote = Control!Nobody
  BY <1>1 DEF ControlInv, ControlVerifiedHolds, ControlRowIsWanted, Control!StatusFollowsLast
<1>2. CASE wrote \in ControlTasks
  BY <1>2 DEF ControlInv, Control!TypeOK, ControlAnswersAreVerified, ControlVerifiedHolds,
     ControlRowIsWanted, Control!StatusFollowsLast, Control!Wanted
<1> QED
  BY <1>1, <1>2 DEF ControlInv, Control!TypeOK

\* An instance is shown as mysqld is, whenever the task that wrote its status
\* is the last to have changed mysqld: start, stop and restart may overlap,
\* fail half-way and lose their answers.
THEOREM ControlStatusIsTrue ==
  ASSUME ControlAuthorsDiffer
  PROVE  Control!Spec => [](Control!TypeOK /\ Control!StatusFollowsLast)
<1>1. Control!Init => ControlInv
  BY ControlInitInv
<1>2. ControlInv /\ [Control!Next]_Control!vars => ControlInv'
  BY ControlNextInv
<1>3. ControlInv => Control!TypeOK /\ Control!StatusFollowsLast
  BY ControlInvImplies
<1> QED
  BY <1>1, <1>2, <1>3, PTL DEF Control!Spec

-------------------------------------------------------------------------------
(* Replication *)

\* The n-th request of t has been executed.
ReplicationExecuted(t, n) == step[t] > n \/ (step[t] = n /\ run[t] = "done")

\* Another task for the replica of t has been executed, in part or in vain.
ReplicationTaken(t) ==
  \E u \in ReplicationTasks \ {t} : Replication!Replica(u) = Replication!Replica(t)
    /\ Replication!Touched(u)

\* A task begins once.
ReplicationBegun == \A t \in ReplicationTasks : pc[t] \in {"none", "queued"} => step[t] = 0

\* What each request of t leaves is there, as long as no other task takes it.
ReplicationLasts(t) ==
  /\ step[t] >= 3 => t \in credential
  /\ ReplicationExecuted(t, 3) => account[Replication!Account(t)] = t \/ ReplicationTaken(t)
  /\ ReplicationExecuted(t, 4) => channel[Replication!Replica(t)] = t \/ ReplicationTaken(t)

ReplicationRequestsLast == \A t \in ReplicationTasks : ReplicationLasts(t)

\* A row is inserted by a task for its replica, after all of its requests.
ReplicationRowsAreEarned ==
  \A r \in Replication!Replicas : row[r] # Replication!Nobody =>
    Replication!Replica(row[r]) = r /\ step[row[r]] = 6

ReplicationInv ==
  Replication!TypeOK /\ ReplicationBegun /\ ReplicationRequestsLast /\ ReplicationRowsAreEarned

LEMMA ReplicationStepNames ==
  ASSUME NEW n \in 0..6
  PROVE  /\ n # 0 /\ Replication!Steps[n] = "REPLICA_PRECHECK" <=> n = 2
         /\ n # 0 /\ Replication!Steps[n] = "CREATE_REPLICATION_USER" <=> n = 3
         /\ n # 0 /\ Replication!Steps[n] = "CONFIGURE_REPLICA" <=> n = 4
         /\ n # 0 /\ Replication!Steps[n] = "VERIFY_REPLICATION" <=> n = 5
         /\ n # 0 /\ Replication!Steps[n] = "FINAL_VERIFY" <=> n = 6
BY DEF Replication!Steps

\* Tasks share an account only when they are for the same replica.
LEMMA ReplicationAccountsOfReplicas ==
  ASSUME NEW t \in ReplicationTasks
  PROVE  /\ Replication!Account(t) \in Replication!Accounts
         /\ Replication!Replica(t) \in Replication!Replicas
         /\ \A u \in ReplicationTasks :
              Replication!Account(u) = Replication!Account(t) =>
              Replication!Replica(u) = Replication!Replica(t)
BY DEF Replication!Account, Replication!Accounts, Replication!Replicas

LEMMA ReplicationInitInv == Replication!Init => ReplicationInv
<1>1. ASSUME Replication!Init PROVE Replication!TypeOK
  BY <1>1 DEF Replication!Init, Replication!TypeOK
<1>2. ASSUME Replication!Init
     PROVE ReplicationBegun /\ ReplicationRequestsLast /\ ReplicationRowsAreEarned
  BY <1>2 DEF Replication!Init, ReplicationBegun, ReplicationRequestsLast, ReplicationLasts,
     ReplicationExecuted, ReplicationRowsAreEarned
<1> QED
  BY <1>1, <1>2 DEF ReplicationInv

LEMMA ReplicationServiceType ==
  ASSUME Replication!TypeOK, NEW t \in ReplicationTasks,
         Replication!Service(t) \/ Replication!BeginFails(t)
           \/ Replication!DispatchIsLost(t) \/ Replication!StatementFails(t)
  PROVE  Replication!TypeOK'
<1> USE DEF Replication!TypeOK, Replication!Open, Replication!Send, Replication!Fault,
   Replication!mysqlVars, Replication!rowVars
<1>1. CASE Replication!CreateTask(t)
  BY <1>1 DEF Replication!CreateTask
<1>2. CASE Replication!Begin(t)
  BY <1>2 DEF Replication!Begin
<1>3. CASE Replication!Advance(t)
  BY <1>3 DEF Replication!Advance
<1>4. CASE Replication!StepFails(t)
  BY <1>4 DEF Replication!StepFails
<1>5. CASE Replication!Register(t)
  BY <1>5, ReplicationAccountsOfReplicas DEF Replication!Register
<1>6. CASE Replication!RegisterIsRefused(t)
  BY <1>6 DEF Replication!RegisterIsRefused
<1>7. CASE Replication!Succeed(t)
  BY <1>7 DEF Replication!Succeed
<1>8. CASE Replication!BeginFails(t) \/ Replication!StatementFails(t)
  BY <1>8 DEF Replication!BeginFails, Replication!StatementFails
<1>9. CASE Replication!DispatchIsLost(t)
  BY <1>9 DEF Replication!DispatchIsLost
<1> QED
  BY <1>1, <1>2, <1>3, <1>4, <1>5, <1>6, <1>7, <1>8, <1>9 DEF Replication!Service

LEMMA ReplicationAgentType ==
  ASSUME Replication!TypeOK, NEW t \in ReplicationTasks, Replication!Agent(t)
    \/ Replication!AgentRestart(t)
  PROVE  Replication!TypeOK'
<1> USE ReplicationAccountsOfReplicas DEF Replication!TypeOK, Replication!Ends,
   Replication!Fault, Replication!taskVars, Replication!mysqlVars, Replication!rowVars
<1>1. CASE Replication!Precheck(t) \/ Replication!RequestFails(t) \/ Replication!AgentRestart(t)
  BY <1>1 DEF Replication!Precheck, Replication!RequestFails, Replication!AgentRestart
<1>2. CASE Replication!Prepare(t)
  BY <1>2 DEF Replication!Prepare
<1>3. CASE Replication!Configure(t)
  BY <1>3 DEF Replication!Configure
<1>4. CASE Replication!ConfigureFails(t)
  BY <1>4 DEF Replication!ConfigureFails
<1>5. CASE Replication!ReadStatus(t)
  BY <1>5 DEF Replication!ReadStatus
<1> QED
  BY <1>1, <1>2, <1>3, <1>4, <1>5 DEF Replication!Agent

LEMMA ReplicationOtherType ==
  ASSUME Replication!TypeOK,
         \/ \E r \in Replication!Replicas : Replication!RefreshReads(r)
         \/ \E r \in Replication!Replicas : Replication!RefreshWrites(r)
         \/ \E r \in Replication!Replicas : Replication!Connect(r) \/ Replication!Disconnect(r)
         \/ Replication!ServerRestart
         \/ UNCHANGED Replication!vars
  PROVE  Replication!TypeOK'
<1> USE DEF Replication!TypeOK, Replication!Fault, Replication!taskVars, Replication!mysqlVars,
   Replication!rowVars
<1>1. ASSUME NEW r \in Replication!Replicas, Replication!RefreshReads(r)
   \/ Replication!RefreshWrites(r)
      PROVE  Replication!TypeOK'
  BY <1>1 DEF Replication!RefreshReads, Replication!RefreshWrites, Replication!StatusOf
<1>2. ASSUME NEW r \in Replication!Replicas, Replication!Connect(r) \/ Replication!Disconnect(r)
      PROVE  Replication!TypeOK'
  <2>1. link' = [link EXCEPT ![r] = TRUE] \/ link' = [link EXCEPT ![r] = FALSE]
    BY <1>2 DEF Replication!Connect, Replication!Disconnect
  <2>2. link' \in [Replication!Replicas -> BOOLEAN]
    BY <2>1
  <2>3. UNCHANGED <<pc, step, run, account, channel, credential, row, status, answer>>
    BY <1>2 DEF Replication!Connect, Replication!Disconnect
  <2>4. faults' \in Nat
    BY <1>2 DEF Replication!Connect, Replication!Disconnect
  <2> QED
    BY <2>2, <2>3, <2>4, Zenon
<1>3. CASE Replication!ServerRestart
  BY <1>3 DEF Replication!ServerRestart, Replication!Open
<1>4. CASE UNCHANGED Replication!vars
  BY <1>4 DEF Replication!vars
<1> QED
  BY <1>1, <1>2, <1>3, <1>4

\* A task that has touched its replica is taken for one that has.
LEMMA ReplicationTakenLasts ==
  ASSUME \A u \in ReplicationTasks : Replication!Touched(u) => Replication!Touched(u)',
  NEW t \in ReplicationTasks, ReplicationTaken(t)
  PROVE  ReplicationTaken(t)'
BY DEF ReplicationTaken

\* The steps that change no account, channel, credential or row, and come to
\* no other request: what requests have left is as before.
LEMMA ReplicationQuietInv ==
  ASSUME ReplicationInv, Replication!TypeOK', UNCHANGED <<step, account, channel, credential,
  row>>,
         \A u \in ReplicationTasks : pc[u] \notin {"none", "queued"} => pc'[u] \notin {"none",
         "queued"},
         \A u \in ReplicationTasks :
           \/ run'[u] = run[u]
           \/ run[u] = "sent" /\ (run'[u] = "done" => step[u] \notin 3..4)
  PROVE  ReplicationInv'
<1> USE DEF ReplicationInv
<1>1. \A u \in ReplicationTasks : Replication!Touched(u) => Replication!Touched(u)'
  BY ReplicationStepNames DEF Replication!TypeOK, Replication!Touched, Replication!At
<1>2. ReplicationBegun' /\ ReplicationRowsAreEarned'
  BY DEF Replication!TypeOK, ReplicationBegun, ReplicationRowsAreEarned
<1>3. ReplicationRequestsLast'
  <2> SUFFICES ASSUME NEW t \in ReplicationTasks PROVE ReplicationLasts(t)'
    BY DEF ReplicationRequestsLast
  <2>1. /\ ReplicationExecuted(t, 3)' => ReplicationExecuted(t, 3)
        /\ ReplicationExecuted(t, 4)' => ReplicationExecuted(t, 4)
    BY DEF Replication!TypeOK, ReplicationExecuted
  <2> QED
    BY <1>1, <2>1, ReplicationTakenLasts DEF ReplicationRequestsLast, ReplicationLasts
<1> QED
  BY <1>2, <1>3

\* The steps of task t itself: other tasks' requests stay.
LEMMA ReplicationBeginInv ==
  ASSUME ReplicationInv, NEW t \in ReplicationTasks, Replication!Begin(t)
  PROVE  ReplicationInv'
<1> USE DEF ReplicationInv, Replication!Send
<1>1. Replication!TypeOK'
  BY ReplicationServiceType DEF Replication!Service
<1>2. step[t] = 0
  BY DEF Replication!Begin, ReplicationBegun
<1>3. \A u \in ReplicationTasks : Replication!Touched(u) => Replication!Touched(u)'
  BY <1>2, ReplicationStepNames DEF Replication!Begin, Replication!TypeOK, Replication!Touched,
     Replication!At
<1>4. ReplicationBegun'
  BY DEF Replication!Begin, ReplicationBegun, Replication!TypeOK
<1>5. ReplicationRowsAreEarned'
  BY <1>2 DEF Replication!Begin, Replication!rowVars, ReplicationRowsAreEarned,
     Replication!TypeOK
<1>6. ReplicationRequestsLast'
  <2> SUFFICES ASSUME NEW u \in ReplicationTasks PROVE ReplicationLasts(u)'
    BY DEF ReplicationRequestsLast
  <2>1. CASE u = t
    BY <2>1 DEF Replication!Begin, Replication!TypeOK, ReplicationExecuted, ReplicationLasts
  <2>2. CASE u # t
    <3>1. step'[u] = step[u] /\ (ReplicationExecuted(u, 3)' => ReplicationExecuted(u, 3))
          /\ (ReplicationExecuted(u, 4)' => ReplicationExecuted(u, 4))
      BY <2>2 DEF Replication!Begin, Replication!TypeOK, ReplicationExecuted
    <3> QED
      BY <1>3, <3>1, ReplicationTakenLasts DEF Replication!Begin, Replication!mysqlVars,
         Replication!rowVars, ReplicationRequestsLast, ReplicationLasts
  <2> QED
    BY <2>1, <2>2
<1> QED
  BY <1>1, <1>4, <1>5, <1>6

LEMMA ReplicationAdvanceInv ==
  ASSUME ReplicationInv, NEW t \in ReplicationTasks, Replication!Advance(t)
  PROVE  ReplicationInv'
<1> USE DEF ReplicationInv, Replication!Send
<1>1. Replication!TypeOK'
  BY ReplicationServiceType DEF Replication!Service
<1>2. \A u \in ReplicationTasks : Replication!Touched(u) => Replication!Touched(u)'
  BY ReplicationStepNames DEF Replication!Advance, Replication!TypeOK, Replication!Touched,
     Replication!At
<1>3. ReplicationBegun'
  BY DEF Replication!Advance, ReplicationBegun, Replication!TypeOK
<1>4. ReplicationRowsAreEarned'
  BY DEF Replication!Advance, ReplicationRowsAreEarned, Replication!TypeOK
<1>5. ReplicationRequestsLast'
  <2> SUFFICES ASSUME NEW u \in ReplicationTasks PROVE ReplicationLasts(u)'
    BY DEF ReplicationRequestsLast
  <2>1. /\ ReplicationExecuted(u, 3)' => ReplicationExecuted(u, 3)
        /\ ReplicationExecuted(u, 4)' => ReplicationExecuted(u, 4)
    BY DEF Replication!Advance, Replication!TypeOK, ReplicationExecuted
  <2>2. step'[u] >= 3 => u \in credential'
    <3>1. CASE u = t
      BY <3>1, ReplicationStepNames DEF Replication!Advance, Replication!TypeOK,
         Replication!At, ReplicationRequestsLast, ReplicationLasts
    <3>2. CASE u # t
      BY <3>2 DEF Replication!Advance, Replication!TypeOK, ReplicationRequestsLast,
         ReplicationLasts
    <3> QED
      BY <3>1, <3>2
  <2> QED
    BY <1>2, <2>1, <2>2, ReplicationTakenLasts DEF Replication!Advance, Replication!mysqlVars,
       ReplicationRequestsLast, ReplicationLasts
<1> QED
  BY <1>1, <1>3, <1>4, <1>5

LEMMA ReplicationRegisterInv ==
  ASSUME ReplicationInv, NEW t \in ReplicationTasks, Replication!Register(t)
  PROVE  ReplicationInv'
<1> USE DEF ReplicationInv, Replication!Send
<1>1. Replication!TypeOK'
  BY ReplicationServiceType DEF Replication!Service
<1>2. step[t] = 5 /\ run[t] = "done"
  BY ReplicationStepNames DEF Replication!Register, Replication!Verified, Replication!At,
     Replication!TypeOK
<1>3. \A u \in ReplicationTasks : Replication!Touched(u) => Replication!Touched(u)'
  BY <1>2, ReplicationStepNames DEF Replication!Register, Replication!TypeOK,
     Replication!Touched, Replication!At
<1>4. ReplicationBegun'
  BY DEF Replication!Register, ReplicationBegun, Replication!TypeOK
<1>5. ReplicationRowsAreEarned'
  <2> SUFFICES ASSUME NEW r \in Replication!Replicas, row'[r] # Replication!Nobody
               PROVE  Replication!Replica(row'[r]) = r /\ step'[row'[r]] = 6
    BY DEF ReplicationRowsAreEarned
  <2>1. CASE r = Replication!Replica(t)
    BY <2>1 DEF Replication!Register, Replication!TypeOK
  <2>2. CASE r # Replication!Replica(t)
    BY <2>2 DEF Replication!Register, Replication!TypeOK, ReplicationRowsAreEarned
  <2> QED
    BY <2>1, <2>2
<1>6. ReplicationRequestsLast'
  <2> SUFFICES ASSUME NEW u \in ReplicationTasks PROVE ReplicationLasts(u)'
    BY DEF ReplicationRequestsLast
  <2>1. /\ ReplicationExecuted(u, 3)' => ReplicationExecuted(u, 3)
        /\ ReplicationExecuted(u, 4)' => ReplicationExecuted(u, 4)
        /\ step'[u] >= 3 => step[u] >= 3
    BY <1>2 DEF Replication!Register, Replication!TypeOK, ReplicationExecuted
  <2> QED
    BY <1>3, <2>1, ReplicationTakenLasts DEF Replication!Register, Replication!mysqlVars,
       ReplicationRequestsLast, ReplicationLasts
<1> QED
  BY <1>1, <1>4, <1>5, <1>6

\* The account of another task is changed by a task for the same replica.
LEMMA ReplicationPrepareInv ==
  ASSUME ReplicationInv, NEW t \in ReplicationTasks, Replication!Prepare(t)
  PROVE  ReplicationInv'
<1> USE DEF ReplicationInv, Replication!Ends
<1>1. Replication!TypeOK'
  BY ReplicationAgentType DEF Replication!Agent
<1>2. step[t] = 3 /\ run[t] = "sent"
  BY ReplicationStepNames DEF Replication!Prepare, Replication!At, Replication!TypeOK
<1>3. /\ \A u \in ReplicationTasks : Replication!Touched(u) => Replication!Touched(u)'
      /\ Replication!Touched(t)'
  BY <1>2, ReplicationStepNames DEF Replication!Prepare, Replication!taskVars,
     Replication!TypeOK, Replication!Touched, Replication!At
<1>4. ReplicationBegun' /\ ReplicationRowsAreEarned'
  BY DEF Replication!Prepare, Replication!taskVars, Replication!rowVars, ReplicationBegun,
     ReplicationRowsAreEarned, Replication!TypeOK
<1>5. ReplicationRequestsLast'
  <2> SUFFICES ASSUME NEW u \in ReplicationTasks PROVE ReplicationLasts(u)'
    BY DEF ReplicationRequestsLast
  <2>1. /\ u # t /\ ReplicationExecuted(u, 3)' => ReplicationExecuted(u, 3)
        /\ ReplicationExecuted(u, 4)' => ReplicationExecuted(u, 4)
        /\ step'[u] >= 3 => step[u] >= 3
    BY <1>2 DEF Replication!Prepare, Replication!taskVars, Replication!TypeOK,
       ReplicationExecuted
  <2>2. ReplicationExecuted(u, 3)' => account'[Replication!Account(u)] = u
     \/ ReplicationTaken(u)'
    <3>1. CASE u = t
      BY <3>1, ReplicationAccountsOfReplicas DEF Replication!Prepare, Replication!TypeOK
    <3>2. CASE u # t /\ Replication!Account(u) = Replication!Account(t)
      BY <1>3, <3>2, ReplicationAccountsOfReplicas DEF ReplicationTaken
    <3>3. CASE u # t /\ Replication!Account(u) # Replication!Account(t)
      BY <1>3, <2>1, <3>3, ReplicationTakenLasts, ReplicationAccountsOfReplicas
         DEF Replication!Prepare, Replication!TypeOK, ReplicationRequestsLast, ReplicationLasts
    <3> QED
      BY <3>1, <3>2, <3>3
  <2> QED
    BY <1>3, <2>1, <2>2, ReplicationTakenLasts DEF Replication!Prepare, Replication!rowVars,
       ReplicationRequestsLast, ReplicationLasts
<1> QED
  BY <1>1, <1>4, <1>5

\* So is the channel, whether its configuration succeeds or fails.
LEMMA ReplicationConfigureInv ==
  ASSUME ReplicationInv, NEW t \in ReplicationTasks, Replication!Configure(t)
    \/ Replication!ConfigureFails(t)
  PROVE  ReplicationInv'
<1> USE DEF ReplicationInv, Replication!Ends
<1>1. Replication!TypeOK'
  BY ReplicationAgentType DEF Replication!Agent
<1>2. step[t] = 4 /\ run[t] = "sent"
  BY ReplicationStepNames DEF Replication!Configure, Replication!ConfigureFails,
     Replication!At, Replication!TypeOK
<1>3. /\ run' = [run EXCEPT ![t] = "done"] \/ run' = [run EXCEPT ![t] = "error"]
      /\ run'[t] = "done" => channel'[Replication!Replica(t)] = t
      /\ \A r \in Replication!Replicas : r # Replication!Replica(t) => channel'[r] = channel[r]
      /\ UNCHANGED <<Replication!taskVars, account, Replication!rowVars, faults>>
  BY ReplicationAccountsOfReplicas DEF Replication!Configure, Replication!ConfigureFails,
     Replication!TypeOK
<1>4. /\ \A u \in ReplicationTasks : Replication!Touched(u) => Replication!Touched(u)'
      /\ Replication!Touched(t)'
  BY <1>2, <1>3, ReplicationStepNames DEF Replication!taskVars, Replication!TypeOK,
     Replication!Touched, Replication!At
<1>5. ReplicationBegun' /\ ReplicationRowsAreEarned'
  BY <1>3 DEF Replication!taskVars, Replication!rowVars, ReplicationBegun,
     ReplicationRowsAreEarned, Replication!TypeOK
<1>6. ReplicationRequestsLast'
  <2> SUFFICES ASSUME NEW u \in ReplicationTasks PROVE ReplicationLasts(u)'
    BY DEF ReplicationRequestsLast
  <2>1. /\ ReplicationExecuted(u, 3)' => ReplicationExecuted(u, 3)
        /\ u # t /\ ReplicationExecuted(u, 4)' => ReplicationExecuted(u, 4)
        /\ step'[u] >= 3 => step[u] >= 3
    BY <1>2, <1>3 DEF Replication!taskVars, Replication!TypeOK, ReplicationExecuted
  <2>2. ReplicationExecuted(u, 4)' => channel'[Replication!Replica(u)] = u
     \/ ReplicationTaken(u)'
    <3>1. CASE u = t
      BY <1>2, <1>3, <3>1 DEF ReplicationExecuted, Replication!taskVars, Replication!TypeOK
    <3>2. CASE u # t /\ Replication!Replica(u) = Replication!Replica(t)
      BY <1>4, <3>2 DEF ReplicationTaken
    <3>3. CASE u # t /\ Replication!Replica(u) # Replication!Replica(t)
      BY <1>3, <1>4, <2>1, <3>3, ReplicationTakenLasts, ReplicationAccountsOfReplicas
         DEF ReplicationRequestsLast, ReplicationLasts
    <3> QED
      BY <3>1, <3>2, <3>3
  <2> QED
    BY <1>3, <1>4, <2>1, <2>2, ReplicationTakenLasts DEF Replication!rowVars,
       ReplicationRequestsLast, ReplicationLasts
<1> QED
  BY <1>1, <1>5, <1>6

LEMMA ReplicationServiceInv ==
  ASSUME ReplicationInv, NEW t \in ReplicationTasks,
         Replication!Service(t) \/ Replication!BeginFails(t)
           \/ Replication!DispatchIsLost(t) \/ Replication!StatementFails(t)
  PROVE  ReplicationInv'
<1> USE DEF ReplicationInv, Replication!mysqlVars, Replication!rowVars
<1>1. Replication!TypeOK'
  BY ReplicationServiceType
<1>2. CASE Replication!CreateTask(t)
  <2>1. UNCHANGED <<step, account, channel, credential, row, run>>
    BY <1>2 DEF Replication!CreateTask
  <2>2. \A u \in ReplicationTasks : pc[u] \notin {"none", "queued"} => pc'[u] \notin {"none",
     "queued"}
    BY <1>2 DEF Replication!CreateTask, Replication!TypeOK
  <2> QED
    BY <1>1, <2>1, <2>2, ReplicationQuietInv
<1>3. CASE \/ Replication!StepFails(t)
           \/ Replication!RegisterIsRefused(t)
           \/ Replication!Succeed(t)
           \/ Replication!BeginFails(t)
           \/ Replication!StatementFails(t)
  <2>1. UNCHANGED <<step, account, channel, credential, row, run>>
    BY <1>3 DEF Replication!StepFails, Replication!RegisterIsRefused, Replication!Succeed,
       Replication!BeginFails, Replication!StatementFails
  <2>2. \A u \in ReplicationTasks : pc[u] \notin {"none", "queued"} => pc'[u] \notin {"none",
     "queued"}
    BY <1>3 DEF Replication!StepFails, Replication!RegisterIsRefused, Replication!Succeed,
       Replication!BeginFails, Replication!StatementFails, Replication!TypeOK
  <2> QED
    BY <1>1, <2>1, <2>2, ReplicationQuietInv
<1>4. CASE Replication!DispatchIsLost(t)
  <2>1. UNCHANGED <<step, account, channel, credential, row>>
    BY <1>4 DEF Replication!DispatchIsLost
  <2>2. \A u \in ReplicationTasks : pc[u] \notin {"none", "queued"} => pc'[u] \notin {"none",
     "queued"}
    BY <1>4 DEF Replication!DispatchIsLost, Replication!TypeOK
  <2>3. \A u \in ReplicationTasks : run'[u] = run[u] \/ (run[u] = "sent" /\ run'[u] = "none")
    BY <1>4 DEF Replication!DispatchIsLost, Replication!TypeOK
  <2> QED
    BY <1>1, <2>1, <2>2, <2>3, ReplicationQuietInv
<1> QED
  BY <1>2, <1>3, <1>4, ReplicationBeginInv, ReplicationAdvanceInv, ReplicationRegisterInv
     DEF Replication!Service

LEMMA ReplicationAgentInv ==
  ASSUME ReplicationInv, NEW t \in ReplicationTasks, Replication!Agent(t)
    \/ Replication!AgentRestart(t)
  PROVE  ReplicationInv'
<1> USE DEF ReplicationInv, Replication!Ends, Replication!taskVars, Replication!mysqlVars,
   Replication!rowVars
<1>1. Replication!TypeOK'
  BY ReplicationAgentType
<1>2. CASE Replication!Precheck(t) \/ Replication!ReadStatus(t)
   \/ Replication!RequestFails(t) \/ Replication!AgentRestart(t)
  <2>1. UNCHANGED <<pc, step, account, channel, credential, row>>
    BY <1>2 DEF Replication!Precheck, Replication!ReadStatus, Replication!RequestFails,
       Replication!AgentRestart
  <2>2. \A u \in ReplicationTasks :
          \/ run'[u] = run[u]
          \/ run[u] = "sent" /\ (run'[u] = "done" => step[u] \notin 3..4)
    BY <1>2 DEF Replication!Precheck, Replication!ReadStatus, Replication!RequestFails,
       Replication!AgentRestart, Replication!TypeOK
  <2> QED
    BY <1>1, <2>1, <2>2, ReplicationQuietInv
<1> QED
  BY <1>2, ReplicationPrepareInv, ReplicationConfigureInv DEF Replication!Agent

LEMMA ReplicationOtherInv ==
  ASSUME ReplicationInv,
         \/ \E r \in Replication!Replicas : Replication!RefreshReads(r)
         \/ \E r \in Replication!Replicas : Replication!RefreshWrites(r)
         \/ \E r \in Replication!Replicas : Replication!Connect(r) \/ Replication!Disconnect(r)
         \/ Replication!ServerRestart
         \/ UNCHANGED Replication!vars
  PROVE  ReplicationInv'
<1> USE DEF ReplicationInv
<1>1. Replication!TypeOK'
  BY ReplicationOtherType
<1>2. UNCHANGED <<step, account, channel, credential, row, run>>
  BY DEF Replication!RefreshReads, Replication!RefreshWrites, Replication!Connect,
     Replication!Disconnect, Replication!ServerRestart, Replication!vars, Replication!taskVars,
     Replication!mysqlVars, Replication!rowVars
<1>3. \A u \in ReplicationTasks : pc[u] \notin {"none", "queued"} => pc'[u] \notin {"none",
   "queued"}
  BY DEF Replication!RefreshReads, Replication!RefreshWrites, Replication!Connect,
     Replication!Disconnect, Replication!ServerRestart, Replication!vars, Replication!taskVars
<1> QED
  BY <1>1, <1>2, <1>3, ReplicationQuietInv

LEMMA ReplicationNextInv ==
  ASSUME ReplicationInv, [Replication!Next]_Replication!vars
  PROVE  ReplicationInv'
BY ReplicationServiceInv, ReplicationAgentInv, ReplicationOtherInv DEF Replication!Next

\* What the invariant says of the rows.
LEMMA ReplicationInvImplies ==
  ASSUME Replication!Nobody \notin ReplicationTasks, ReplicationInv
  PROVE  Replication!TypeOK /\ Replication!FollowsItsRow
<1> SUFFICES ASSUME NEW r \in Replication!Replicas, row[r] # Replication!Nobody,
   ~ReplicationTaken(row[r])
             PROVE  row[r] \in credential /\ channel[r] = row[r] /\ Replication!LogsIn(r)
  BY DEF ReplicationInv, Replication!TypeOK, Replication!FollowsItsRow, ReplicationTaken,
     ReplicationRowsAreEarned
<1>1. row[r] \in ReplicationTasks /\ Replication!Replica(row[r]) = r /\ step[row[r]] = 6
  BY DEF ReplicationInv, Replication!TypeOK, ReplicationRowsAreEarned
<1>2. /\ row[r] \in credential
      /\ account[Replication!Account(row[r])] = row[r]
      /\ channel[r] = row[r]
  BY <1>1 DEF ReplicationInv, ReplicationRequestsLast, ReplicationLasts, ReplicationExecuted
<1> QED
  BY <1>1, <1>2 DEF Replication!LogsIn

\* A registered replica follows its primary with the password of its row, and
\* can log in, until another task for the same replica is executed.
THEOREM ReplicationRowIsFollowed ==
  ASSUME Replication!Nobody \notin ReplicationTasks
  PROVE  Replication!Spec => [](Replication!TypeOK /\ Replication!FollowsItsRow)
<1>1. Replication!Init => ReplicationInv
  BY ReplicationInitInv
<1>2. ReplicationInv /\ [Replication!Next]_Replication!vars => ReplicationInv'
  BY ReplicationNextInv
<1>3. ReplicationInv => Replication!TypeOK /\ Replication!FollowsItsRow
  BY ReplicationInvImplies
<1> QED
  BY <1>1, <1>2, <1>3, PTL DEF Replication!Spec

-------------------------------------------------------------------------------
(* Datafiles *)

\* Two open tasks of one kind are for two files.
DatafileKeyIsHeld ==
  \A t, u \in DatafileTasks :
    pc[t] \in Datafile!Open /\ pc[u] \in Datafile!Open /\ t[1] = u[1] /\ t[2] = u[2] => t = u

\* A request that is executed is waited for, or its dispatch was given up.
DatafileExecutedIsAwaited ==
  \A t \in DatafileTasks :
    /\ pc[t] \in {"none", "queued"} => run[t] = "none"
    /\ run[t] \in {"sent", "checked", "altered"} => pc[t] = "waiting" \/ t \in lost

\* Who has been created asks for a size.
DatafileTargetsAreSizes ==
  \A t \in DatafileTasks : pc[t] # "none" \/ run[t] # "none" => target[t] \in Datafile!Sizes

\* A resize that has been checked still grows its file, unless overtaken.
DatafileCheckedGrows ==
  \A t \in DatafileTasks : t[1] = "resize" /\ run[t] = "checked" =>
    /\ size[t[2]] > 0
    /\ \/ target[t] > size[t[2]]
       \/ t \in outgrown
       \/ \E u \in lost : u[2] = t[2]

DatafileInv ==
  Datafile!TypeOK /\ DatafileKeyIsHeld /\ DatafileExecutedIsAwaited
    /\ DatafileTargetsAreSizes /\ DatafileCheckedGrows

LEMMA DatafileInitInv == ASSUME MaxSize \in Nat \ {0}, Datafile!Init PROVE DatafileInv
BY DEF Datafile!Init, DatafileInv, Datafile!TypeOK, Datafile!Open, Datafile!Sizes,
   DatafileKeyIsHeld, DatafileExecutedIsAwaited, DatafileTargetsAreSizes, DatafileCheckedGrows

\* Steps that change no file and check nothing new.
LEMMA DatafileFilesStayInv ==
  ASSUME DatafileInv, Datafile!TypeOK', DatafileKeyIsHeld', DatafileExecutedIsAwaited',
  DatafileTargetsAreSizes',
         UNCHANGED <<size, outgrown>>, lost \subseteq lost',
         \A t \in DatafileTasks : run'[t] = "checked" => run[t] = "checked"
           /\ target'[t] = target[t]
  PROVE  DatafileInv'
BY DEF DatafileInv, DatafileCheckedGrows

\* The service opens a task only when none of its kind is for its file.
LEMMA DatafileServiceInv ==
  ASSUME MaxSize \in Nat \ {0}, DatafileInv, NEW t \in DatafileTasks,
         Datafile!Service(t) \/ Datafile!LoadRuntimeFails(t) \/ Datafile!DispatchIsLost(t)
  PROVE  DatafileInv'
<1> USE DEF DatafileInv, Datafile!TypeOK, Datafile!Open, Datafile!Sizes, Datafile!oracleVars,
   Datafile!history, DatafileKeyIsHeld, DatafileExecutedIsAwaited, DatafileTargetsAreSizes
<1>1. ASSUME NEW s \in Datafile!Sizes, Datafile!Create(t, s) PROVE DatafileInv'
  <2>1. DatafileKeyIsHeld'
    BY <1>1 DEF Datafile!Create, Datafile!KeyFree
  <2>2. Datafile!TypeOK' /\ DatafileExecutedIsAwaited' /\ DatafileTargetsAreSizes'
    BY <1>1 DEF Datafile!Create
  <2>3. run' = run /\ run[t] = "none" /\ target' = [target EXCEPT ![t] = s]
    BY <1>1 DEF Datafile!Create
  <2> QED
    BY <1>1, <2>1, <2>2, <2>3, DatafileFilesStayInv DEF Datafile!Create
<1>2. CASE Datafile!Handle(t)
  BY <1>2, DatafileFilesStayInv DEF Datafile!Handle
<1>3. CASE Datafile!RunMutation(t)
  BY <1>3, DatafileFilesStayInv DEF Datafile!RunMutation
<1>4. CASE Datafile!LoadRuntimeFails(t)
  BY <1>4, DatafileFilesStayInv DEF Datafile!LoadRuntimeFails, Datafile!Fault
<1>5. CASE Datafile!DispatchIsLost(t)
  <2>1. CASE UNCHANGED run
    BY <1>5, <2>1, DatafileFilesStayInv DEF Datafile!DispatchIsLost, Datafile!Fault
  <2>2. CASE run[t] = "sent" /\ run' = [run EXCEPT ![t] = "none"]
    BY <1>5, <2>2, DatafileFilesStayInv DEF Datafile!DispatchIsLost, Datafile!Fault
  <2> QED
    BY <1>5, <2>1, <2>2 DEF Datafile!DispatchIsLost
<1> QED
  BY <1>1, <1>2, <1>3, <1>4, <1>5 DEF Datafile!Service, Datafile!CreateAddTask,
     Datafile!CreateResizeTask, Datafile!AddHandler, Datafile!ResizeHandler

\* The agent's steps that alter nothing.
LEMMA DatafileAgentReadsInv ==
  ASSUME MaxSize \in Nat \ {0}, DatafileInv, NEW t \in DatafileTasks,
         Datafile!CheckAdd(t) \/ Datafile!CheckResize(t) \/ Datafile!Verify(t)
           \/ Datafile!RequestFails(t)
  PROVE  DatafileInv'
<1> USE DEF DatafileInv, Datafile!TypeOK, Datafile!Open, Datafile!taskVars,
   Datafile!oracleVars, Datafile!history, DatafileKeyIsHeld, DatafileExecutedIsAwaited,
   DatafileTargetsAreSizes
<1>1. CASE Datafile!CheckAdd(t)
  <2>1. Datafile!TypeOK' /\ DatafileKeyIsHeld' /\ DatafileExecutedIsAwaited'
     /\ DatafileTargetsAreSizes'
    BY <1>1 DEF Datafile!CheckAdd
  <2>2. DatafileCheckedGrows'
    BY <1>1 DEF Datafile!CheckAdd, DatafileCheckedGrows
  <2> QED
    BY <2>1, <2>2
<1>2. CASE Datafile!CheckResize(t)
  <2>1. Datafile!TypeOK' /\ DatafileKeyIsHeld' /\ DatafileExecutedIsAwaited'
     /\ DatafileTargetsAreSizes'
    BY <1>2 DEF Datafile!CheckResize
  <2>2. DatafileCheckedGrows'
    BY <1>2 DEF Datafile!CheckResize, DatafileCheckedGrows, Datafile!Grows
  <2> QED
    BY <2>1, <2>2
<1>3. CASE Datafile!Verify(t)
  BY <1>3, DatafileFilesStayInv DEF Datafile!Verify
<1>4. CASE Datafile!RequestFails(t)
  BY <1>4, DatafileFilesStayInv DEF Datafile!RequestFails
<1> QED
  BY <1>1, <1>2, <1>3, <1>4

\* A statement that is refused.
LEMMA DatafileRefusedInv ==
  ASSUME DatafileInv, NEW t \in DatafileTasks, run[t] = "checked",
  run' = [run EXCEPT ![t] = "error"],
         UNCHANGED <<pc, target, size, used, lost, outgrown, faults>>
  PROVE  DatafileInv'
<1>1. Datafile!TypeOK' /\ DatafileKeyIsHeld' /\ DatafileExecutedIsAwaited'
   /\ DatafileTargetsAreSizes'
  BY DEF DatafileInv, Datafile!TypeOK, DatafileKeyIsHeld, DatafileExecutedIsAwaited,
     DatafileTargetsAreSizes
<1> QED
  BY <1>1, DatafileFilesStayInv DEF DatafileInv, Datafile!TypeOK

\* A statement that has its effect leaves no other checked request for the
\* file as it was, unless the dispatch of one of the two was given up.
LEMMA DatafileAlteredInv ==
  ASSUME MaxSize \in Nat \ {0}, DatafileInv, NEW t \in DatafileTasks, run[t] = "checked",
         t[1] = "resize" \/ size[t[2]] = 0, target[t] >= used[t[2]],
         run' = [run EXCEPT ![t] = "altered"],
         size' = [size EXCEPT ![t[2]] = target[t]],
         UNCHANGED <<pc, target, used, lost, outgrown, faults>>
  PROVE  DatafileInv'
<1>1. target[t] \in Datafile!Sizes /\ target[t] > 0 /\ t[2] \in Datafile!Files
  BY DEF DatafileInv, DatafileTargetsAreSizes, Datafile!Sizes, Datafile!Files
<1>2. /\ size' \in [Datafile!Files -> 0..MaxSize] /\ size'[t[2]] = target[t]
      /\ \A f \in Datafile!Files : f # t[2] => size'[f] = size[f]
  BY <1>1 DEF DatafileInv, Datafile!TypeOK, Datafile!Sizes
<1>3. Datafile!TypeOK'
  BY <1>2 DEF DatafileInv, Datafile!TypeOK
<1>4. DatafileKeyIsHeld' /\ DatafileExecutedIsAwaited' /\ DatafileTargetsAreSizes'
  BY DEF DatafileInv, Datafile!TypeOK, DatafileKeyIsHeld, DatafileExecutedIsAwaited,
     DatafileTargetsAreSizes
<1>5. DatafileCheckedGrows'
  <2> SUFFICES ASSUME NEW u \in DatafileTasks, u[1] = "resize", run'[u] = "checked"
               PROVE  /\ size'[u[2]] > 0
                      /\ \/ target[u] > size'[u[2]]
                         \/ u \in outgrown
                         \/ \E v \in lost : v[2] = u[2]
    BY DEF DatafileCheckedGrows
  <2>1. u # t /\ run[u] = "checked" /\ u[2] \in Datafile!Files
    BY DEF DatafileInv, Datafile!TypeOK, Datafile!Files
  <2>2. CASE u[2] # t[2]
    BY <1>2, <2>1, <2>2 DEF DatafileInv, DatafileCheckedGrows
  <2>3. CASE u[2] = t[2]
    <3>1. t[1] = "resize"
      BY <2>1, <2>3 DEF DatafileInv, DatafileCheckedGrows
    <3>2. t \in lost \/ u \in lost
      BY <2>1, <2>3, <3>1 DEF DatafileInv, DatafileExecutedIsAwaited, DatafileKeyIsHeld,
         Datafile!Open
    <3> QED
      BY <1>1, <1>2, <2>3, <3>2
  <2> QED
    BY <2>2, <2>3
<1> QED
  BY <1>3, <1>4, <1>5 DEF DatafileInv

LEMMA DatafileAgentAltersInv ==
  ASSUME MaxSize \in Nat \ {0}, DatafileInv, NEW t \in DatafileTasks,
  Datafile!AddDatafile(t) \/ Datafile!Resize(t)
  PROVE  DatafileInv'
<1>1. CASE Datafile!AddDatafile(t)
  <2>1. CASE size[t[2]] = 0
    <3>1. target[t] >= used[t[2]]
      BY <1>1, <2>1 DEF Datafile!AddDatafile, DatafileInv, Datafile!TypeOK,
         DatafileTargetsAreSizes, Datafile!Sizes, Datafile!Files
    <3> QED
      BY <1>1, <2>1, <3>1, DatafileAlteredInv DEF Datafile!AddDatafile, Datafile!taskVars,
         Datafile!history
  <2>2. CASE size[t[2]] # 0
    BY <1>1, <2>2, DatafileRefusedInv DEF Datafile!AddDatafile, Datafile!taskVars,
       Datafile!history
  <2> QED
    BY <2>1, <2>2
<1>2. CASE Datafile!Resize(t)
  <2>1. CASE target[t] >= used[t[2]]
    BY <1>2, <2>1, DatafileAlteredInv DEF Datafile!Resize, Datafile!taskVars, Datafile!history
  <2>2. CASE ~(target[t] >= used[t[2]])
    BY <1>2, <2>2, DatafileRefusedInv DEF Datafile!Resize, Datafile!taskVars, Datafile!history
  <2> QED
    BY <2>1, <2>2
<1> QED
  BY <1>1, <1>2

\* A file that grows by itself is known to have outgrown what was checked.
LEMMA DatafileExtendInv ==
  ASSUME MaxSize \in Nat \ {0}, DatafileInv, NEW f \in Datafile!Files, Datafile!Extend(f)
  PROVE  DatafileInv'
<1>1. /\ used' = [used EXCEPT ![f] = @ + 1] /\ used[f] \in Nat /\ used[f] < MaxSize
      /\ UNCHANGED <<pc, target, run, lost, faults>>
  BY DEF Datafile!Extend, Datafile!taskVars, DatafileInv, Datafile!TypeOK
<1>2. DatafileKeyIsHeld' /\ DatafileExecutedIsAwaited' /\ DatafileTargetsAreSizes'
  BY <1>1 DEF DatafileInv, DatafileKeyIsHeld, DatafileExecutedIsAwaited, DatafileTargetsAreSizes
<1>3. CASE used[f] < size[f]
  <2>1. UNCHANGED <<size, outgrown>>
    BY <1>3 DEF Datafile!Extend
  <2>2. Datafile!TypeOK'
    BY <1>1, <1>3, <2>1 DEF DatafileInv, Datafile!TypeOK
  <2> QED
    BY <1>1, <1>2, <2>1, <2>2 DEF DatafileInv, DatafileCheckedGrows
<1>4. CASE ~(used[f] < size[f])
  <2>1. PICK s \in used[f] + 1 .. MaxSize : size' = [size EXCEPT ![f] = s]
    BY <1>4 DEF Datafile!Extend
  <2>2. outgrown' = outgrown \cup {t \in DatafileTasks : t[2] = f /\ run[t] = "checked"}
    BY <1>4 DEF Datafile!Extend
  <2>3. Datafile!TypeOK'
    BY <1>1, <2>1, <2>2 DEF DatafileInv, Datafile!TypeOK
  <2>4. DatafileCheckedGrows'
    <3> SUFFICES ASSUME NEW t \in DatafileTasks, t[1] = "resize", run[t] = "checked"
                 PROVE  /\ size'[t[2]] > 0
                        /\ \/ target[t] > size'[t[2]]
                           \/ t \in outgrown'
                           \/ \E u \in lost : u[2] = t[2]
      BY <1>1 DEF DatafileCheckedGrows
    <3>1. t[2] \in Datafile!Files
      BY DEF Datafile!Files
    <3>2. CASE t[2] = f
      BY <1>1, <2>1, <2>2, <3>1, <3>2 DEF DatafileInv, Datafile!TypeOK
    <3>3. CASE t[2] # f
      BY <2>1, <2>2, <3>1, <3>3 DEF DatafileInv, Datafile!TypeOK, DatafileCheckedGrows
    <3> QED
      BY <3>2, <3>3
  <2> QED
    BY <1>2, <2>3, <2>4 DEF DatafileInv
<1> QED
  BY <1>3, <1>4

LEMMA DatafileRestartInv ==
  ASSUME DatafileInv, Datafile!AgentRestart \/ Datafile!ServerRestart
  PROVE  DatafileInv'
<1> USE DEF DatafileInv, Datafile!TypeOK, Datafile!Open, Datafile!Fault, Datafile!taskVars,
   Datafile!oracleVars, Datafile!history, DatafileKeyIsHeld, DatafileExecutedIsAwaited,
   DatafileTargetsAreSizes
<1>1. CASE Datafile!AgentRestart
  BY <1>1, DatafileFilesStayInv DEF Datafile!AgentRestart
<1>2. CASE Datafile!ServerRestart
  BY <1>2, DatafileFilesStayInv DEF Datafile!ServerRestart
<1> QED
  BY <1>1, <1>2

LEMMA DatafileNextInv ==
  ASSUME MaxSize \in Nat \ {0}, DatafileInv, [Datafile!Next]_Datafile!vars
  PROVE  DatafileInv'
<1>1. CASE Datafile!Next
  BY <1>1, DatafileServiceInv, DatafileAgentReadsInv, DatafileAgentAltersInv,
     DatafileExtendInv, DatafileRestartInv DEF Datafile!Next, Datafile!Agent
<1>2. CASE UNCHANGED Datafile!vars
  BY <1>2 DEF Datafile!vars, Datafile!taskVars, Datafile!oracleVars, Datafile!history,
     DatafileInv, Datafile!TypeOK, DatafileKeyIsHeld, DatafileExecutedIsAwaited,
     DatafileTargetsAreSizes, DatafileCheckedGrows
<1> QED
  BY <1>1, <1>2

LEMMA DatafileInvImplies == DatafileInv => Datafile!TypeOK
BY DEF DatafileInv

\* What each step does to the sizes.
LEMMA DatafileStepGrows ==
  ASSUME MaxSize \in Nat \ {0}, DatafileInv, [Datafile!Next]_Datafile!vars
  PROVE  Datafile!GrowsOnlyStep
<1> SUFFICES ASSUME NEW f \in Datafile!Files, size' # size
             PROVE  size'[f] >= size[f] \/ Datafile!Overtaken(f)
  BY DEF Datafile!GrowsOnlyStep, DatafileInv, Datafile!TypeOK
<1>1. ASSUME NEW t \in DatafileTasks, Datafile!AddDatafile(t)
      PROVE  size'[f] >= size[f]
  BY <1>1 DEF Datafile!AddDatafile, DatafileInv, Datafile!TypeOK, Datafile!Sizes
<1>2. ASSUME NEW t \in DatafileTasks, Datafile!Resize(t)
      PROVE  size'[f] >= size[f] \/ Datafile!Overtaken(f)
  <2>1. /\ size' = [size EXCEPT ![t[2]] = target[t]]
        /\ t[1] = "resize" /\ run[t] = "checked"
    BY <1>2 DEF Datafile!Resize
  <2>2. CASE f # t[2]
    BY <2>1, <2>2 DEF DatafileInv, Datafile!TypeOK
  <2>3. CASE f = t[2]
    <3>1. target[t] > size[f] \/ Datafile!Overtaken(f)
      BY <2>1, <2>3 DEF DatafileInv, Datafile!TypeOK, DatafileCheckedGrows, Datafile!Overtaken
    <3> QED
      BY <2>1, <2>3, <3>1 DEF DatafileInv, Datafile!TypeOK, Datafile!Sizes
  <2> QED
    BY <2>2, <2>3
<1>3. ASSUME NEW g \in Datafile!Files, Datafile!Extend(g)
      PROVE  size'[f] >= size[f]
  <2>1. /\ used[g] \in Nat /\ size[g] \in Nat /\ used[g] <= size[g] /\ ~(used[g] < size[g])
        /\ \E s \in used[g] + 1 .. MaxSize : size' = [size EXCEPT ![g] = s]
    BY <1>3 DEF Datafile!Extend, DatafileInv, Datafile!TypeOK
  <2> QED
    BY <2>1 DEF DatafileInv, Datafile!TypeOK
<1>4. (\E t \in DatafileTasks : Datafile!AddDatafile(t) \/ Datafile!Resize(t))
   \/ (\E g \in Datafile!Files : Datafile!Extend(g))
  BY DEF Datafile!Next, Datafile!Service, Datafile!CreateAddTask, Datafile!CreateResizeTask,
     Datafile!Create, Datafile!AddHandler, Datafile!ResizeHandler, Datafile!Handle,
     Datafile!RunMutation, Datafile!LoadRuntimeFails, Datafile!DispatchIsLost, Datafile!Agent,
     Datafile!CheckAdd, Datafile!CheckResize, Datafile!Verify, Datafile!RequestFails,
     Datafile!AgentRestart, Datafile!ServerRestart, Datafile!oracleVars, Datafile!vars
<1> QED
  BY <1>1, <1>2, <1>3, <1>4

\* Datafiles only grow, except where a dispatch was given up or the file has
\* grown by itself between the check and the statement.
THEOREM DatafileSizesOnlyGrow ==
  ASSUME MaxSize \in Nat \ {0}
  PROVE  Datafile!Spec => []Datafile!TypeOK /\ [][Datafile!GrowsOnlyStep]_Datafile!vars
<1>1. Datafile!Init => DatafileInv
  BY DatafileInitInv
<1>2. DatafileInv /\ [Datafile!Next]_Datafile!vars => DatafileInv'
  BY DatafileNextInv
<1>3. DatafileInv /\ [Datafile!Next]_Datafile!vars => Datafile!GrowsOnlyStep
  BY DatafileStepGrows
<1> QED
  BY <1>1, <1>2, <1>3, DatafileInvImplies, PTL DEF Datafile!Spec

-------------------------------------------------------------------------------
(* Registration of instances *)

\* How far a request has come says which of its two rows there are.
OnboardRowsFollowThePlace ==
  \A r \in Onboard!Requests :
    /\ pc[r] \in {"none", "validated"} => r \notin credential /\ ~Onboard!Registered(r)
    /\ pc[r] \in {"stored", "inserted", "undoing"} => r \in credential
    /\ pc[r] \in {"inserted", "created"} => Onboard!Registered(r)

OnboardInv == Onboard!TypeOK /\ OnboardRowsFollowThePlace /\ Onboard!SecretsAreUsed

LEMMA OnboardInitInv == ASSUME MaxRequests \in Nat, Onboard!Init PROVE OnboardInv
BY DEF Onboard!Init, OnboardInv, Onboard!TypeOK, Onboard!AtWork, OnboardRowsFollowThePlace,
   Onboard!SecretsAreUsed, Onboard!Registered, Onboard!Requests, Onboard!NoRequest

\* What comes before the rows, and what the credential alone is concerned by.
LEMMA OnboardCredentialInv ==
  ASSUME MaxRequests \in Nat, OnboardInv, NEW r \in Onboard!Requests,
         \/ Onboard!OnboardOracle(r) \/ Onboard!OnboardPostgres(r) \/ Onboard!OnboardDoris(r)
         \/ Onboard!StoreCredential(r) \/ Onboard!StoreFails(r)
         \/ Onboard!Undo(r) \/ Onboard!UndoFails(r) \/ Onboard!ClientLeaves(r)
  PROVE  OnboardInv'
<1> USE DEF OnboardInv, Onboard!TypeOK, Onboard!AtWork, Onboard!tableVars, Onboard!Goto,
   OnboardRowsFollowThePlace, Onboard!SecretsAreUsed, Onboard!Registered
<1>1. ASSUME NEW valid \in BOOLEAN, Onboard!Decide(r, valid) PROVE OnboardInv'
  BY <1>1 DEF Onboard!Decide
<1>2. CASE Onboard!StoreCredential(r)
  BY <1>2 DEF Onboard!StoreCredential
<1>3. CASE Onboard!StoreFails(r)
  BY <1>3 DEF Onboard!StoreFails, Onboard!Fails, Onboard!Fault
<1>4. CASE Onboard!Undo(r)
  BY <1>4 DEF Onboard!Undo
<1>5. CASE Onboard!UndoFails(r)
  BY <1>5 DEF Onboard!UndoFails, Onboard!Fails, Onboard!Fault
<1>6. CASE Onboard!ClientLeaves(r)
  BY <1>6 DEF Onboard!ClientLeaves
<1>7. CASE Onboard!OnboardDoris(r)
  <2>1. PICK answered \in BOOLEAN, fe \in 0..1, be \in 0..1 :
          Onboard!Decide(r, answered /\ fe > 0 /\ be > 0)
    BY <1>7 DEF Onboard!OnboardDoris
  <2>2. (answered /\ fe > 0 /\ be > 0) \in BOOLEAN
    OBVIOUS
  <2> QED
    BY <1>1, <2>1, <2>2
<1> QED
  BY <1>1, <1>2, <1>3, <1>4, <1>5, <1>6, <1>7 DEF Onboard!OnboardOracle, Onboard!OnboardPostgres

\* An instance is inserted where there is none: no other loses its row.
LEMMA OnboardWriteInv ==
  ASSUME MaxRequests \in Nat, OnboardInv, NEW r \in Onboard!Requests,
         instance[target[r]] = Onboard!NoRequest, Onboard!Write(r), pc[r] = "stored",
         pc' \in {[pc EXCEPT ![r] = "inserted"], [pc EXCEPT ![r] = "undoing"]},
         UNCHANGED <<target, gone, credential, faults>>
  PROVE  OnboardInv'
<1>1. \A q \in Onboard!Requests : Onboard!Registered(q)' <=> Onboard!Registered(q) \/ q = r
  BY DEF OnboardInv, Onboard!TypeOK, Onboard!Write, Onboard!Registered, Onboard!Requests,
     Onboard!NoRequest
<1>2. PICK p \in {"inserted", "undoing"} : pc' = [pc EXCEPT ![r] = p]
  OBVIOUS
<1>3. Onboard!TypeOK'
  BY <1>2 DEF OnboardInv, Onboard!TypeOK, Onboard!Write, Onboard!AtWork
<1>4. OnboardRowsFollowThePlace' /\ Onboard!SecretsAreUsed'
  BY <1>1, <1>2 DEF OnboardInv, Onboard!TypeOK, OnboardRowsFollowThePlace,
     Onboard!SecretsAreUsed
<1> QED
  BY <1>3, <1>4 DEF OnboardInv

LEMMA OnboardInstanceInv ==
  ASSUME MaxRequests \in Nat, OnboardInv, NEW r \in Onboard!Requests,
         Onboard!Insert(r) \/ Onboard!InsertFails(r) \/ Onboard!Answer(r)
           \/ Onboard!AnswerFails(r)
  PROVE  OnboardInv'
<1>1. CASE Onboard!Insert(r)
  BY <1>1, OnboardWriteInv DEF Onboard!Insert, Onboard!Goto
<1>2. CASE Onboard!InsertFails(r)
  <2>1. CASE UNCHANGED instance
    BY <1>2, <2>1 DEF Onboard!InsertFails, Onboard!Fails, Onboard!Fault, Onboard!Goto,
       OnboardInv, Onboard!TypeOK, Onboard!AtWork, OnboardRowsFollowThePlace,
       Onboard!SecretsAreUsed, Onboard!Registered
  <2>2. CASE instance[target[r]] = Onboard!NoRequest /\ Onboard!Write(r) /\ UNCHANGED faults
    BY <1>2, <2>2, OnboardWriteInv DEF Onboard!InsertFails, Onboard!Goto
  <2> QED
    BY <1>2, <2>1, <2>2 DEF Onboard!InsertFails
<1>3. CASE Onboard!Answer(r)
  BY <1>3 DEF Onboard!Answer, Onboard!Goto, Onboard!tableVars, OnboardInv, Onboard!TypeOK,
     Onboard!AtWork, OnboardRowsFollowThePlace, Onboard!SecretsAreUsed, Onboard!Registered
<1>4. CASE Onboard!AnswerFails(r)
  BY <1>4 DEF Onboard!AnswerFails, Onboard!Fails, Onboard!Fault, Onboard!Goto,
     Onboard!tableVars, OnboardInv, Onboard!TypeOK, Onboard!AtWork, OnboardRowsFollowThePlace,
     Onboard!SecretsAreUsed, Onboard!Registered
<1> QED
  BY <1>1, <1>2, <1>3, <1>4

LEMMA OnboardNextInv ==
  ASSUME MaxRequests \in Nat, OnboardInv, [Onboard!Next]_Onboard!vars
  PROVE  OnboardInv'
<1>1. ASSUME NEW r \in Onboard!Requests, Onboard!Onboard(r) \/ Onboard!Failure(r)
   \/ Onboard!ClientLeaves(r)
     PROVE OnboardInv'
  BY <1>1, OnboardCredentialInv, OnboardInstanceInv DEF Onboard!Onboard, Onboard!Failure
<1>2. CASE Onboard!ServerRestart
  BY <1>2 DEF Onboard!ServerRestart, Onboard!Fault, Onboard!tableVars, OnboardInv,
     Onboard!TypeOK, Onboard!AtWork, OnboardRowsFollowThePlace, Onboard!SecretsAreUsed,
     Onboard!Registered
<1>3. CASE UNCHANGED Onboard!vars
  BY <1>3 DEF Onboard!vars, Onboard!tableVars, OnboardInv, Onboard!TypeOK,
     OnboardRowsFollowThePlace, Onboard!SecretsAreUsed, Onboard!Registered
<1> QED
  BY <1>1, <1>2, <1>3 DEF Onboard!Next

LEMMA OnboardInvImplies == OnboardInv => Onboard!TypeOK /\ Onboard!SecretsAreUsed
BY DEF OnboardInv

\* An instance never lacks its credential, nor a request that was told so its
\* instance, and a refused one leaves nothing of its own: however many requests
\* there are for a host and port, and wherever their clients leave.
THEOREM OnboardNoSecretIsLost ==
  ASSUME MaxRequests \in Nat
  PROVE  Onboard!Spec => [](Onboard!TypeOK /\ Onboard!SecretsAreUsed)
<1>1. Onboard!Init => OnboardInv
  BY OnboardInitInv
<1>2. OnboardInv /\ [Onboard!Next]_Onboard!vars => OnboardInv'
  BY OnboardNextInv
<1> QED
  BY <1>1, <1>2, OnboardInvImplies, PTL DEF Onboard!Spec

-------------------------------------------------------------------------------
(* Sessions *)

\* A request that has not begun has neither token nor session; only one that
\* has answered has a row.
TokensRowsAreAnswered ==
  \A r \in Tokens!Requests :
    /\ pc[r] = "none" => session[r] = 0
    /\ issued[r] # "absent" => pc[r] = "answered"

\* A request whose token has been read belongs to the session of that token.
TokensReadIsIssued ==
  \A r \in Tokens!Requests : pc[r] = "read" =>
    token[r] \in Tokens!Requests /\ session[r] = session[token[r]]

\* Who has begun has a session, named by the login it began with.
TokensSessionsBegin ==
  \A r \in Tokens!Requests :
    /\ pc[r] # "none" => session[r] # 0
    /\ session[r] # 0 => session[session[r]] = session[r]

TokensInv ==
  /\ Tokens!TypeOK /\ TokensRowsAreAnswered /\ TokensReadIsIssued /\ TokensSessionsBegin
  /\ Tokens!NeverForked /\ Tokens!NeverLost

LEMMA TokensInitInv == ASSUME MaxLogins \in Nat, Tokens!Init PROVE TokensInv
BY DEF Tokens!Init, TokensInv, Tokens!TypeOK, TokensRowsAreAnswered, TokensReadIsIssued,
   TokensSessionsBegin, Tokens!NeverForked, Tokens!NeverLost, Tokens!Carries, Tokens!Requests

\* A request that joins a session: a login, or a token that is read or refused.
LEMMA TokensJoinInv ==
  ASSUME MaxLogins \in Nat, TokensInv, NEW r \in Tokens!Requests,
         Tokens!Login(r) \/ \E t \in Tokens!Requests : Tokens!Refresh(r, t)
           \/ Tokens!RefreshIsRefused(r, t)
  PROVE  TokensInv'
<1> USE DEF TokensInv, Tokens!TypeOK, Tokens!Requests
<1>1. CASE Tokens!Login(r)
  <2>1. Tokens!TypeOK' /\ TokensRowsAreAnswered' /\ TokensReadIsIssued' /\ TokensSessionsBegin'
    <3>1. Tokens!TypeOK' /\ TokensRowsAreAnswered'
      BY <1>1 DEF Tokens!Login, Tokens!Goto, Tokens!tableVars, TokensRowsAreAnswered
    <3>2. TokensReadIsIssued'
      BY <1>1 DEF Tokens!Login, Tokens!Goto, Tokens!tableVars, TokensRowsAreAnswered,
         TokensReadIsIssued, TokensSessionsBegin
    <3>3. TokensSessionsBegin'
      BY <1>1 DEF Tokens!Login, Tokens!Goto, TokensRowsAreAnswered, TokensSessionsBegin
    <3> QED
      BY <3>1, <3>2, <3>3
  <2>2. \A q \in Tokens!Requests : q # r => session[q] # r
    <3>1. session[r] = 0 /\ r # 0
      BY <1>1 DEF Tokens!Login, TokensRowsAreAnswered
    <3> QED
      BY <3>1 DEF TokensSessionsBegin
  <2>3. /\ session' = [session EXCEPT ![r] = r] /\ UNCHANGED faults
        /\ Tokens!Carries(r)' /\ ~Tokens!Carries(r)
        /\ \A q \in Tokens!Requests : q # r => (Tokens!Carries(q)' <=> Tokens!Carries(q))
    BY <1>1 DEF Tokens!Login, Tokens!Goto, Tokens!tableVars, TokensRowsAreAnswered,
       Tokens!Carries
  <2>4. /\ session'[r] = r
        /\ \A q \in Tokens!Requests : q # r => session'[q] = session[q]
    BY <2>3
  <2>5. Tokens!NeverForked'
    BY <2>2, <2>3, <2>4 DEF Tokens!NeverForked
  <2>6. Tokens!NeverLost'
    BY <2>3, <2>4 DEF Tokens!NeverLost
  <2> QED
    BY <2>1, <2>5, <2>6
<1>2. ASSUME NEW t \in Tokens!Requests, Tokens!Refresh(r, t) \/ Tokens!RefreshIsRefused(r, t)
     PROVE TokensInv'
  <2>1. /\ pc[r] = "none" /\ session[r] = 0 /\ issued[r] = "absent"
        /\ issued[t] # "absent" /\ t # r /\ session[t] # 0 /\ session[t] \in Tokens!Requests
        /\ pc' \in {[pc EXCEPT ![r] = "read"], [pc EXCEPT ![r] = "refused"]}
        /\ token' = [token EXCEPT ![r] = t]
        /\ session' = [session EXCEPT ![r] = session[t]]
        /\ UNCHANGED <<issued, expired, faults>>
    BY <1>2 DEF Tokens!Refresh, Tokens!RefreshIsRefused, Tokens!Goto, Tokens!tableVars,
       TokensRowsAreAnswered, TokensSessionsBegin
  <2>2. session[t] # r
    BY <2>1 DEF TokensSessionsBegin
  <2>3. Tokens!TypeOK' /\ TokensRowsAreAnswered'
    <3>1. PICK p \in {"read", "refused"} : pc' = [pc EXCEPT ![r] = p]
      BY <2>1
    <3> QED
      BY <2>1, <3>1 DEF TokensRowsAreAnswered
  <2>4. TokensReadIsIssued'
    BY <2>1 DEF TokensRowsAreAnswered, TokensReadIsIssued, TokensSessionsBegin
  <2>5. TokensSessionsBegin'
    BY <2>1, <2>2 DEF TokensSessionsBegin
  <2>6. \A q \in Tokens!Requests : Tokens!Carries(q)' <=> Tokens!Carries(q) /\ q # r
    BY <2>1 DEF Tokens!Carries
  <2>7. ~Tokens!Carries(r)
    BY <2>1 DEF Tokens!Carries
  <2>8. Tokens!NeverForked'
    BY <2>1, <2>6 DEF Tokens!NeverForked
  <2>9. Tokens!NeverLost'
    <3>1. \A s \in Tokens!Requests : session'[s] = s => session[s] = s
      BY <2>1, <2>2
    <3>2. \A q, s \in Tokens!Requests : Tokens!Carries(q) /\ session[q] = s =>
       Tokens!Carries(q)' /\ session'[q] = s
      BY <2>1, <2>6, <2>7
    <3> QED
      BY <2>1, <3>1, <3>2 DEF Tokens!NeverLost
  <2> QED
    BY <2>3, <2>4, <2>5, <2>8, <2>9
<1> QED
  BY <1>1, <1>2

\* The token a session goes on with is handed over to the request.
LEMMA TokensConsumeInv ==
  ASSUME MaxLogins \in Nat, TokensInv, NEW r \in Tokens!Requests, Tokens!Consume(r)
  PROVE  TokensInv'
<1> USE DEF TokensInv, Tokens!TypeOK, Tokens!Requests
<1>1. /\ token[r] \in Tokens!Requests /\ session[r] = session[token[r]]
      /\ token[r] # r
      /\ pc[token[r]] = "answered" /\ Tokens!Carries(token[r])
  BY DEF Tokens!Consume, TokensReadIsIssued, TokensRowsAreAnswered, Tokens!Carries
<1>2. Tokens!TypeOK' /\ TokensRowsAreAnswered' /\ TokensReadIsIssued' /\ TokensSessionsBegin'
  BY <1>1 DEF Tokens!Consume, Tokens!Goto, TokensRowsAreAnswered, TokensReadIsIssued,
     TokensSessionsBegin
<1>3. \A q \in Tokens!Requests : Tokens!Carries(q)' <=> q = r \/ (Tokens!Carries(q)
   /\ q # token[r])
  BY <1>1 DEF Tokens!Consume, Tokens!Goto, Tokens!Carries
<1>4. Tokens!NeverForked'
  BY <1>1, <1>3 DEF Tokens!Consume, Tokens!NeverForked
<1>5. Tokens!NeverLost'
  BY <1>1, <1>3 DEF Tokens!Consume, Tokens!NeverForked, Tokens!NeverLost
<1> QED
  BY <1>2, <1>4, <1>5

\* Steps after which the same requests carry a session, or fewer at a fault.
LEMMA TokensEndInv ==
  ASSUME MaxLogins \in Nat, TokensInv, NEW r \in Tokens!Requests,
         Tokens!ConsumeFails(r) \/ Tokens!StoreRefreshToken(r) \/ Tokens!IssueFails(r)
           \/ Tokens!Expire(r) \/ Tokens!ServerRestart
  PROVE  TokensInv'
<1> USE DEF TokensInv, Tokens!TypeOK, Tokens!Requests
<1>1. Tokens!TypeOK' /\ TokensRowsAreAnswered' /\ TokensReadIsIssued' /\ TokensSessionsBegin'
  <2> USE DEF TokensRowsAreAnswered, TokensReadIsIssued, TokensSessionsBegin
  <2>1. CASE Tokens!ConsumeFails(r)
    BY <2>1 DEF Tokens!ConsumeFails, Tokens!Goto, Tokens!tableVars
  <2>2. CASE Tokens!IssueFails(r)
    BY <2>2 DEF Tokens!IssueFails, Tokens!Fault, Tokens!Goto, Tokens!tableVars
  <2>3. CASE Tokens!Expire(r)
    BY <2>3 DEF Tokens!Expire
  <2>4. CASE Tokens!ServerRestart
    BY <2>4 DEF Tokens!ServerRestart, Tokens!Fault, Tokens!tableVars
  <2>5. CASE Tokens!StoreRefreshToken(r)
    BY <2>5 DEF Tokens!StoreRefreshToken, Tokens!Goto
  <2> QED
    BY <2>1, <2>2, <2>3, <2>4, <2>5
<1>2. /\ \A q \in Tokens!Requests : Tokens!Carries(q)' => Tokens!Carries(q)
      /\ faults' = 0 =>
           faults = 0 /\ \A q \in Tokens!Requests : Tokens!Carries(q) => Tokens!Carries(q)'
      /\ UNCHANGED session
  BY DEF Tokens!ConsumeFails, Tokens!StoreRefreshToken, Tokens!IssueFails, Tokens!Expire,
     Tokens!ServerRestart, Tokens!Fault, Tokens!Goto, Tokens!tableVars, Tokens!Carries
<1>3. Tokens!NeverForked' /\ Tokens!NeverLost'
  BY <1>2 DEF Tokens!NeverForked, Tokens!NeverLost
<1> QED
  BY <1>1, <1>3

LEMMA TokensNextInv ==
  ASSUME MaxLogins \in Nat, TokensInv, [Tokens!Next]_Tokens!vars
  PROVE  TokensInv'
<1>1. ASSUME NEW r \in Tokens!Requests, Tokens!Request(r) \/ Tokens!Expire(r) PROVE TokensInv'
  BY <1>1, TokensJoinInv, TokensConsumeInv, TokensEndInv DEF Tokens!Request
<1>2. CASE Tokens!ServerRestart
  <2>1. CASE Tokens!Requests # {}
    BY <1>2, <2>1, TokensEndInv
  <2>2. CASE Tokens!Requests = {}
    BY <1>2, <2>2 DEF Tokens!ServerRestart, Tokens!Fault, Tokens!tableVars, TokensInv,
       Tokens!TypeOK, TokensRowsAreAnswered, TokensReadIsIssued, TokensSessionsBegin,
       Tokens!NeverForked, Tokens!NeverLost
  <2> QED
    BY <2>1, <2>2
<1>3. CASE UNCHANGED Tokens!vars
  BY <1>3 DEF Tokens!vars, Tokens!tableVars, TokensInv, Tokens!TypeOK, TokensRowsAreAnswered,
     TokensReadIsIssued, TokensSessionsBegin, Tokens!NeverForked, Tokens!NeverLost,
     Tokens!Carries
<1> QED
  BY <1>1, <1>2, <1>3 DEF Tokens!Next

LEMMA TokensInvImplies == TokensInv => Tokens!TypeOK /\ Tokens!OneTokenPerSession
BY DEF TokensInv, Tokens!OneTokenPerSession

\* However many requests present one token at once, and whatever fails, a
\* session never has two tokens; and without a failure it never has none.
THEOREM TokensSessionHasOneToken ==
  ASSUME MaxLogins \in Nat
  PROVE  Tokens!Spec => [](Tokens!TypeOK /\ Tokens!OneTokenPerSession)
<1>1. Tokens!Init => TokensInv
  BY TokensInitInv
<1>2. TokensInv /\ [Tokens!Next]_Tokens!vars => TokensInv'
  BY TokensNextInv
<1>3. TokensInv => Tokens!TypeOK /\ Tokens!OneTokenPerSession
  BY TokensInvImplies
<1> QED
  BY <1>1, <1>2, <1>3, PTL DEF Tokens!Spec

-------------------------------------------------------------------------------
(* Alerts *)

\* What the server remembers of a condition is never older than the condition.
AlertsHeldIsTrue ==
  \A r \in Alerts!RuleIds : held[r] # Alerts!Never => since[r] # Alerts!Never
    /\ since[r] >= held[r]

\* Between the two statements of an event its condition has held for long
\* enough, and there is no event if there was none.
AlertsSelectIsTrue ==
  /\ select # "idle" =>
       /\ at # 0 /\ Alerts!HasMetric(at, seen.value) /\ Alerts!SeenTrue(at)
       /\ Alerts!Satisfied(at) /\ since[at] = Rules[at].duration
  /\ select = "nothing" => firing[at] + acked[at] = 0

AlertsInv == Alerts!TypeOK /\ AlertsHeldIsTrue /\ AlertsSelectIsTrue /\ Alerts!AlertsAreTrue

\* The rules and the bounds are what they are to be.
AlertsRulesAreRules ==
  /\ Rules \in Seq([metric : {"used", "age"}, threshold : Int, duration : Nat])
  /\ Rules # <<>> /\ MaxValue \in Nat /\ MaxAge \in Nat

LEMMA AlertsRulesLemma ==
  ASSUME AlertsRulesAreRules
  PROVE  /\ Len(Rules) \in Nat /\ Len(Rules) >= 1 /\ Alerts!RuleIds = 1..Len(Rules)
         /\ \A r \in Alerts!RuleIds : Rules[r].duration \in Nat
<1> DEFINE S == [metric : {"used", "age"}, threshold : Int, duration : Nat]
<1>1. Rules \in Seq(S) /\ Rules # <<>>
  BY DEF AlertsRulesAreRules
<1>2. \A rule \in S : rule.duration \in Nat
  OBVIOUS
<1> HIDE DEF S
<1>3. Len(Rules) \in Nat /\ \A r \in 1..Len(Rules) : Rules[r] \in S
  BY <1>1
<1>4. Len(Rules) # 0
  BY <1>1, EmptySeq
<1> QED
  BY <1>2, <1>3, <1>4 DEF Alerts!RuleIds

LEMMA AlertsInitInv == ASSUME AlertsRulesAreRules, Alerts!Init PROVE AlertsInv
<1> USE AlertsRulesLemma DEF Alerts!Missing, Alerts!NoSnapshot, Alerts!Never
<1>1. Alerts!TypeOK
  BY DEF Alerts!Init, Alerts!TypeOK, Alerts!Ticks, AlertsRulesAreRules
<1>2. AlertsHeldIsTrue /\ AlertsSelectIsTrue /\ Alerts!AlertsAreTrue
  BY DEF Alerts!Init, AlertsHeldIsTrue, AlertsSelectIsTrue, Alerts!AlertsAreTrue, Alerts!IsOpen
<1> QED
  BY <1>1, <1>2 DEF AlertsInv

\* Steps that concern no rule's time and no event.
LEMMA AlertsIdleInv ==
  ASSUME AlertsRulesAreRules, AlertsInv, Alerts!TypeOK', UNCHANGED <<held, Alerts!eventVars,
  since>>, select' = "idle"
  PROVE  AlertsInv'
BY DEF AlertsInv, AlertsHeldIsTrue, AlertsSelectIsTrue, Alerts!AlertsAreTrue, Alerts!IsOpen,
   Alerts!eventVars

\* The rule in hand, and the next one.
LEMMA AlertsNextRule ==
  ASSUME AlertsRulesAreRules, Alerts!TypeOK, at # 0
  PROVE  at \in Alerts!RuleIds /\ (Alerts!ToNextRule => at' \in 0..Len(Rules))
BY AlertsRulesLemma DEF Alerts!TypeOK, Alerts!ToNextRule

LEMMA AlertsEvaluateInv ==
  ASSUME AlertsRulesAreRules, AlertsInv, Alerts!Evaluate \/ Alerts!SkipRule \/ Alerts!KeepEvent
  PROVE  AlertsInv'
<1> USE AlertsRulesLemma, AlertsNextRule DEF Alerts!Missing, Alerts!NoSnapshot, Alerts!Never
<1>1. CASE Alerts!Evaluate
  <2>1. select = "idle"
    BY <1>1 DEF AlertsInv, Alerts!TypeOK, AlertsSelectIsTrue, Alerts!Evaluate
  <2>2. seen' \in [value : Alerts!NoSnapshot..MaxValue, age : 0..MaxAge]
     /\ at' \in 0..Len(Rules)
    BY <1>1 DEF AlertsInv, Alerts!TypeOK, Alerts!Evaluate
  <2>3. Alerts!TypeOK'
    BY <1>1, <2>2 DEF AlertsInv, Alerts!TypeOK, Alerts!Evaluate, Alerts!metricVars,
       Alerts!eventVars, Alerts!Ticks
  <2> QED
    BY <1>1, <2>1, <2>3, AlertsIdleInv DEF Alerts!Evaluate
<1>2. CASE Alerts!SkipRule
  <2>1. select = "idle"
    BY <1>2 DEF AlertsInv, Alerts!TypeOK, AlertsSelectIsTrue, Alerts!SkipRule
  <2>2. Alerts!TypeOK'
    BY <1>2 DEF AlertsInv, Alerts!TypeOK, Alerts!SkipRule, Alerts!metricVars, Alerts!eventVars,
       Alerts!Ticks
  <2> QED
    BY <1>2, <2>1, <2>2, AlertsIdleInv DEF Alerts!SkipRule
<1>3. CASE Alerts!KeepEvent
  <2>1. at # 0
    BY <1>3 DEF AlertsInv, AlertsSelectIsTrue, Alerts!KeepEvent
  <2>2. Alerts!TypeOK'
    BY <1>3, <2>1 DEF AlertsInv, Alerts!TypeOK, Alerts!KeepEvent, Alerts!metricVars,
       Alerts!eventVars, Alerts!Ticks
  <2> QED
    BY <1>3, <2>2, AlertsIdleInv DEF Alerts!KeepEvent
<1> QED
  BY <1>1, <1>2, <1>3

\* The first time a condition is seen true is kept.
LEMMA AlertsRecordedSets ==
  ASSUME Alerts!TypeOK, at \in Alerts!RuleIds, Alerts!Recorded
  PROVE  /\ since' \in [Alerts!RuleIds -> Int]
         /\ since'[at] = IF since[at] = Alerts!Never THEN 0 ELSE since[at]
         /\ \A r \in Alerts!RuleIds : r # at => since'[r] = since[r]
<1>1. CASE since[at] = Alerts!Never
  BY <1>1 DEF Alerts!TypeOK, Alerts!Recorded
<1>2. CASE since[at] # Alerts!Never
  BY <1>2 DEF Alerts!TypeOK, Alerts!Recorded
<1> QED
  BY <1>1, <1>2

\* A rule that waits begins to, or goes on.
LEMMA AlertsWaitInv == ASSUME AlertsRulesAreRules, AlertsInv, Alerts!Wait PROVE AlertsInv'
<1> USE AlertsRulesLemma, AlertsNextRule DEF Alerts!Missing, Alerts!NoSnapshot, Alerts!Never
<1>1. /\ at \in Alerts!RuleIds /\ select = "idle" /\ select' = "idle" /\ Alerts!Recorded
      /\ at' \in 0..Len(Rules) /\ held' = [held EXCEPT ![at] = Alerts!HeldFrom(at)]
      /\ ~Alerts!Satisfied(at) /\ UNCHANGED <<latest, age, due, seen, firing, acked, faults>>
  BY DEF AlertsInv, AlertsSelectIsTrue, Alerts!Wait, Alerts!metricVars, Alerts!eventVars,
     Alerts!TypeOK
<1>2. /\ held[at] \in Alerts!Ticks(at) /\ since[at] \in Alerts!Ticks(at)
      /\ Rules[at].duration \in Nat
      /\ held[at] # Alerts!Never => since[at] # Alerts!Never /\ since[at] >= held[at]
  BY <1>1 DEF AlertsInv, Alerts!TypeOK, AlertsHeldIsTrue
<1>3. /\ held' \in [Alerts!RuleIds -> Int] /\ held'[at] = Alerts!HeldFrom(at)
      /\ \A r \in Alerts!RuleIds : r # at => held'[r] = held[r]
  <2>1. Alerts!HeldFrom(at) \in Int
    BY <1>2 DEF Alerts!HeldFrom, Alerts!Ticks
  <2> QED
    BY <1>1, <2>1 DEF AlertsInv, Alerts!TypeOK
<1>4. /\ since' \in [Alerts!RuleIds -> Int]
      /\ since'[at] = IF since[at] = Alerts!Never THEN 0 ELSE since[at]
      /\ \A r \in Alerts!RuleIds : r # at => since'[r] = since[r]
  BY <1>1, AlertsRecordedSets DEF AlertsInv
<1>5. /\ held'[at] \in Alerts!Ticks(at) /\ since'[at] \in Alerts!Ticks(at)
      /\ since'[at] # Alerts!Never /\ since'[at] >= held'[at]
  BY <1>2, <1>3, <1>4 DEF Alerts!HeldFrom, Alerts!Ticks
<1>6. Alerts!TypeOK'
  BY <1>1, <1>3, <1>5, <1>4 DEF AlertsInv, Alerts!TypeOK, Alerts!Ticks
<1>7. AlertsHeldIsTrue'
  BY <1>3, <1>5, <1>4 DEF AlertsInv, AlertsHeldIsTrue
<1>8. AlertsSelectIsTrue'
  BY <1>1 DEF AlertsSelectIsTrue
<1>9. Alerts!AlertsAreTrue'
  BY <1>1, <1>2, <1>4 DEF AlertsInv, Alerts!AlertsAreTrue, Alerts!IsOpen
<1> QED
  BY <1>6, <1>7, <1>8, <1>9 DEF AlertsInv

\* The event is looked for when the condition has held for the duration.
LEMMA AlertsFindEventInv ==
  ASSUME AlertsRulesAreRules, AlertsInv, Alerts!FindEvent
  PROVE  AlertsInv'
<1> USE AlertsRulesLemma, AlertsNextRule DEF Alerts!Missing, Alerts!NoSnapshot, Alerts!Never
<1>1. /\ at \in Alerts!RuleIds /\ at' = at /\ Alerts!Recorded /\ Alerts!Satisfied(at)
      /\ Alerts!HasMetric(at, seen.value) /\ Alerts!SeenTrue(at) /\ UNCHANGED seen
      /\ select' \in {"event", "nothing"} /\ (select' = "nothing" => ~Alerts!IsOpen(at))
      /\ UNCHANGED <<latest, age, due, held, firing, acked, faults>>
  BY DEF AlertsInv, Alerts!FindEvent, Alerts!metricVars, Alerts!eventVars
<1>2. /\ held[at] \in Alerts!Ticks(at) /\ since[at] \in Alerts!Ticks(at)
      /\ Rules[at].duration \in Nat
      /\ held[at] # Alerts!Never => since[at] # Alerts!Never /\ since[at] >= held[at]
  BY <1>1 DEF AlertsInv, Alerts!TypeOK, AlertsHeldIsTrue
<1>3. /\ since' \in [Alerts!RuleIds -> Int]
      /\ \A r \in Alerts!RuleIds : r # at => since'[r] = since[r]
      /\ since'[at] = IF since[at] = Alerts!Never THEN 0 ELSE since[at]
  BY <1>1, AlertsRecordedSets DEF AlertsInv
<1>4. since'[at] = Rules[at].duration
  BY <1>1, <1>2, <1>3 DEF Alerts!Satisfied, Alerts!Ticks
<1>5. Alerts!TypeOK'
  <2>1. \A r \in Alerts!RuleIds : held'[r] \in Alerts!Ticks(r) /\ since'[r] \in Alerts!Ticks(r)
    <3> TAKE r \in Alerts!RuleIds
    <3>1. held[r] \in Alerts!Ticks(r) /\ since[r] \in Alerts!Ticks(r)
       /\ Rules[r].duration \in Nat
      BY DEF AlertsInv, Alerts!TypeOK
    <3>2. CASE r = at
      BY <1>1, <1>4, <3>1, <3>2 DEF Alerts!Ticks
    <3>3. CASE r # at
      BY <1>1, <1>3, <3>1, <3>3 DEF Alerts!Ticks
    <3> QED
      BY <3>2, <3>3
  <2> QED
    BY <1>1, <1>3, <2>1 DEF AlertsInv, Alerts!TypeOK, Alerts!Ticks
<1>6. AlertsHeldIsTrue'
  BY <1>1, <1>2, <1>3 DEF AlertsInv, AlertsHeldIsTrue
<1>7. AlertsSelectIsTrue'
  <2>1. Alerts!HasMetric(at, seen.value)' /\ Alerts!SeenTrue(at)'
    BY <1>1 DEF Alerts!HasMetric, Alerts!SeenTrue, Alerts!Condition
  <2>2. select' = "nothing" => firing'[at'] + acked'[at'] = 0
    BY <1>1 DEF AlertsInv, Alerts!TypeOK, Alerts!IsOpen
  <2>3. Alerts!Satisfied(at)'
    BY <1>1 DEF Alerts!Satisfied
  <2> QED
    BY <1>1, <1>4, <2>1, <2>2, <2>3 DEF AlertsSelectIsTrue
<1>8. Alerts!AlertsAreTrue'
  BY <1>1, <1>3, <1>4 DEF AlertsInv, Alerts!AlertsAreTrue, Alerts!IsOpen
<1> QED
  BY <1>5, <1>6, <1>7, <1>8 DEF AlertsInv

\* An event is inserted where there was none, and removed when it is over.
LEMMA AlertsOpenEventInv ==
  ASSUME AlertsRulesAreRules, AlertsInv, Alerts!OpenEvent
  PROVE  AlertsInv'
<1> USE AlertsRulesLemma, AlertsNextRule DEF Alerts!Missing, Alerts!NoSnapshot, Alerts!Never
<1>1. /\ at \in Alerts!RuleIds /\ at' \in 0..Len(Rules) /\ select' = "idle"
      /\ firing' = [firing EXCEPT ![at] = @ + 1] /\ firing[at] + acked[at] = 0
      /\ since[at] = Rules[at].duration
      /\ UNCHANGED <<latest, age, due, seen, held, acked, since, faults>>
  BY DEF AlertsInv, AlertsSelectIsTrue, Alerts!OpenEvent, Alerts!metricVars
<1>2. Alerts!TypeOK'
  <2>1. firing' \in [Alerts!RuleIds -> Nat]
    BY <1>1 DEF AlertsInv, Alerts!TypeOK
  <2>2. \A r \in Alerts!RuleIds : Alerts!Ticks(r)' = Alerts!Ticks(r)
    BY DEF Alerts!Ticks
  <2> QED
    BY <1>1, <2>1, <2>2 DEF AlertsInv, Alerts!TypeOK
<1>3. AlertsHeldIsTrue' /\ AlertsSelectIsTrue'
  BY <1>1 DEF AlertsInv, AlertsHeldIsTrue, AlertsSelectIsTrue
<1>4. Alerts!AlertsAreTrue'
  <2>1. firing'[at] + acked'[at] = 1
    BY <1>1 DEF AlertsInv, Alerts!TypeOK
  <2>2. \A r \in Alerts!RuleIds : r # at => firing'[r] = firing[r]
    BY <1>1 DEF AlertsInv, Alerts!TypeOK
  <2> QED
    BY <1>1, <2>1, <2>2 DEF AlertsInv, Alerts!AlertsAreTrue, Alerts!IsOpen
<1> QED
  BY <1>2, <1>3, <1>4 DEF AlertsInv

LEMMA AlertsResolveInv == ASSUME AlertsRulesAreRules, AlertsInv, Alerts!Resolve PROVE AlertsInv'
<1> USE AlertsRulesLemma, AlertsNextRule DEF Alerts!Missing, Alerts!NoSnapshot, Alerts!Never
<1>1. /\ at \in Alerts!RuleIds /\ at' \in 0..Len(Rules) /\ select = "idle" /\ select' = "idle"
      /\ held' = [held EXCEPT ![at] = Alerts!Never] /\ since' = [since EXCEPT ![at] = Alerts!Never]
      /\ firing' = [firing EXCEPT ![at] = 0] /\ acked' = [acked EXCEPT ![at] = 0]
      /\ UNCHANGED <<latest, age, due, seen, faults>>
  BY DEF AlertsInv, Alerts!TypeOK, AlertsSelectIsTrue, Alerts!Resolve, Alerts!metricVars
<1>2. Alerts!TypeOK'
  <2>1. \A r \in Alerts!RuleIds :
          Alerts!Never \in Alerts!Ticks(r) /\ Alerts!Ticks(r)' = Alerts!Ticks(r)
    BY DEF Alerts!Ticks
  <2>2. /\ held \in [Alerts!RuleIds -> Int] /\ since \in [Alerts!RuleIds -> Int]
        /\ \A r \in Alerts!RuleIds : held[r] \in Alerts!Ticks(r) /\ since[r] \in Alerts!Ticks(r)
    BY DEF AlertsInv, Alerts!TypeOK
  <2>3. \A r \in Alerts!RuleIds : held'[r] \in Alerts!Ticks(r) /\ since'[r] \in Alerts!Ticks(r)
    BY <1>1, <2>1, <2>2
  <2>4. held' \in [Alerts!RuleIds -> Int] /\ since' \in [Alerts!RuleIds -> Int]
    BY <1>1, <2>2
  <2>5. firing' \in [Alerts!RuleIds -> Nat] /\ acked' \in [Alerts!RuleIds -> Nat]
    BY <1>1 DEF AlertsInv, Alerts!TypeOK
  <2> QED
    BY <1>1, <2>1, <2>3, <2>4, <2>5 DEF AlertsInv, Alerts!TypeOK
<1>3. AlertsHeldIsTrue' /\ AlertsSelectIsTrue'
  BY <1>1 DEF AlertsInv, Alerts!TypeOK, AlertsHeldIsTrue, AlertsSelectIsTrue
<1>4. Alerts!AlertsAreTrue'
  BY <1>1 DEF AlertsInv, Alerts!TypeOK, Alerts!AlertsAreTrue, Alerts!IsOpen
<1> QED
  BY <1>2, <1>3, <1>4 DEF AlertsInv

\* An operator makes of an event that is firing an acknowledged one.
LEMMA AlertsAcknowledgeInv ==
  ASSUME AlertsRulesAreRules, AlertsInv, NEW r \in Alerts!RuleIds, Alerts!Acknowledge(r)
  PROVE  AlertsInv'
<1> USE AlertsRulesLemma DEF Alerts!Missing, Alerts!NoSnapshot, Alerts!Never
<1>1. /\ firing[r] > 0 /\ firing' = [firing EXCEPT ![r] = @ - 1]
      /\ acked' = [acked EXCEPT ![r] = @ + 1]
      /\ UNCHANGED <<latest, age, due, at, seen, select, held, since, faults>>
  BY DEF Alerts!Acknowledge, Alerts!metricVars, Alerts!evalVars
<1>2. \A q \in Alerts!RuleIds : firing'[q] + acked'[q] = firing[q] + acked[q]
  BY <1>1 DEF AlertsInv, Alerts!TypeOK
<1>3. Alerts!TypeOK'
  BY <1>1 DEF AlertsInv, Alerts!TypeOK
<1>4. AlertsHeldIsTrue' /\ Alerts!AlertsAreTrue'
  BY <1>1, <1>2 DEF AlertsInv, AlertsHeldIsTrue, Alerts!AlertsAreTrue, Alerts!IsOpen
<1>5. AlertsSelectIsTrue'
  <2>1. select # "idle" => at \in Alerts!RuleIds
    BY DEF AlertsInv, Alerts!TypeOK, AlertsSelectIsTrue
  <2>2. Alerts!HasMetric(at, seen.value)' <=> Alerts!HasMetric(at, seen.value)
    BY <1>1 DEF Alerts!HasMetric
  <2>3. Alerts!SeenTrue(at)' <=> Alerts!SeenTrue(at)
    BY <1>1 DEF Alerts!SeenTrue, Alerts!Condition
  <2> QED
    BY <1>1, <1>2, <2>1, <2>2, <2>3 DEF AlertsInv, AlertsSelectIsTrue, Alerts!Satisfied
<1> QED
  BY <1>3, <1>4, <1>5 DEF AlertsInv

\* Time passes for what is remembered and for what is true alike.
LEMMA AlertsTickInv == ASSUME AlertsRulesAreRules, AlertsInv, Alerts!Tick PROVE AlertsInv'
<1> USE AlertsRulesLemma DEF Alerts!Missing, Alerts!NoSnapshot, Alerts!Never
<1>1. /\ at = 0 /\ select = "idle" /\ select' = "idle" /\ due' = TRUE
      /\ held' = Alerts!Later(held) /\ since' = Alerts!Later(since)
      /\ age' = IF latest = Alerts!NoSnapshot THEN 0 ELSE Alerts!Smaller(age + 1, MaxAge)
      /\ UNCHANGED <<latest, at, seen, firing, acked, faults>>
  BY DEF AlertsInv, Alerts!TypeOK, AlertsSelectIsTrue, Alerts!Tick, Alerts!eventVars
<1>2. /\ held' \in [Alerts!RuleIds -> Int] /\ since' \in [Alerts!RuleIds -> Int]
      /\ \A r \in Alerts!RuleIds :
           /\ held'[r] \in Alerts!Ticks(r) /\ since'[r] \in Alerts!Ticks(r)
           /\ held'[r] = Alerts!Never <=> held[r] = Alerts!Never
           /\ since'[r] = Alerts!Never <=> since[r] = Alerts!Never
           /\ since[r] >= held[r] => since'[r] >= held'[r]
           /\ since[r] = Rules[r].duration => since'[r] = Rules[r].duration
  <2>1. \A r \in Alerts!RuleIds :
          /\ held[r] \in Alerts!Ticks(r) /\ since[r] \in Alerts!Ticks(r)
          /\ Rules[r].duration \in Nat
          /\ Alerts!Later(held)[r] = IF held[r] = Alerts!Never THEN Alerts!Never
                              ELSE Alerts!Smaller(held[r] + 1, Rules[r].duration)
          /\ Alerts!Later(since)[r] = IF since[r] = Alerts!Never THEN Alerts!Never
                               ELSE Alerts!Smaller(since[r] + 1, Rules[r].duration)
    BY DEF AlertsInv, Alerts!TypeOK, Alerts!Later
  <2>2. \A r \in Alerts!RuleIds : Alerts!Later(held)[r] \in Int
     /\ Alerts!Later(since)[r] \in Int
    BY <2>1 DEF Alerts!Smaller, Alerts!Ticks
  <2>3. Alerts!Later(held) \in [Alerts!RuleIds -> Int]
     /\ Alerts!Later(since) \in [Alerts!RuleIds -> Int]
    BY <2>2 DEF Alerts!Later
  <2> QED
    BY <1>1, <2>1, <2>3 DEF Alerts!Smaller, Alerts!Ticks
<1>3. Alerts!TypeOK'
  BY <1>1, <1>2 DEF AlertsInv, Alerts!TypeOK, Alerts!Smaller, AlertsRulesAreRules
<1>4. AlertsHeldIsTrue'
  BY <1>2 DEF AlertsInv, AlertsHeldIsTrue
<1>5. AlertsSelectIsTrue'
  BY <1>1 DEF AlertsSelectIsTrue
<1>6. Alerts!AlertsAreTrue'
  BY <1>1, <1>2 DEF AlertsInv, Alerts!AlertsAreTrue, Alerts!IsOpen
<1> QED
  BY <1>3, <1>4, <1>5, <1>6 DEF AlertsInv

\* Heartbeats change what will be seen, faults what is remembered.
LEMMA AlertsPutInv ==
  ASSUME AlertsRulesAreRules, AlertsInv, NEW v \in Alerts!Missing..MaxValue, Alerts!Put(v)
  PROVE  AlertsInv'
<1>1. Alerts!TypeOK'
  BY DEF AlertsInv, Alerts!TypeOK, Alerts!Put, Alerts!evalVars, Alerts!eventVars,
     AlertsRulesAreRules, Alerts!Missing, Alerts!NoSnapshot, Alerts!Ticks
<1>2. AlertsHeldIsTrue' /\ Alerts!AlertsAreTrue'
  BY DEF AlertsInv, Alerts!Put, Alerts!eventVars, AlertsHeldIsTrue, Alerts!AlertsAreTrue,
     Alerts!IsOpen
<1>3. AlertsSelectIsTrue'
  BY DEF AlertsInv, Alerts!Put, Alerts!evalVars, Alerts!eventVars, AlertsSelectIsTrue,
     Alerts!HasMetric, Alerts!SeenTrue, Alerts!Condition, Alerts!Satisfied
<1> QED
  BY <1>1, <1>2, <1>3 DEF AlertsInv

LEMMA AlertsFaultInv ==
  ASSUME AlertsRulesAreRules, AlertsInv, Alerts!StatementFails \/ Alerts!ServerRestart
  PROVE  AlertsInv'
<1> USE AlertsRulesLemma, AlertsNextRule DEF Alerts!Missing, Alerts!NoSnapshot, Alerts!Never
<1>1. /\ at' = 0 /\ select' = "idle" /\ UNCHANGED <<latest, age, seen, firing, acked, since>>
      /\ due' \in BOOLEAN /\ faults' \in Nat
      /\ held' \in [Alerts!RuleIds -> Int]
      /\ \A r \in Alerts!RuleIds : held'[r] = held[r] \/ held'[r] = Alerts!Never
  <2>1. CASE Alerts!StatementFails
    BY <2>1 DEF AlertsInv, Alerts!TypeOK, Alerts!StatementFails, Alerts!Fault,
       Alerts!metricVars, Alerts!eventVars
  <2>2. CASE Alerts!ServerRestart
    BY <2>2 DEF AlertsInv, Alerts!TypeOK, Alerts!ServerRestart, Alerts!Fault,
       Alerts!metricVars, Alerts!eventVars
  <2> QED
    BY <2>1, <2>2
<1>2. Alerts!TypeOK'
  <2>1. \A r \in Alerts!RuleIds : held'[r] \in Alerts!Ticks(r) /\ since'[r] \in Alerts!Ticks(r)
    <3> TAKE r \in Alerts!RuleIds
    <3>1. held[r] \in Alerts!Ticks(r) /\ since[r] \in Alerts!Ticks(r)
       /\ Rules[r].duration \in Nat
      BY DEF AlertsInv, Alerts!TypeOK
    <3>2. Alerts!Never \in Alerts!Ticks(r) /\ since'[r] = since[r]
      BY <1>1, <3>1 DEF Alerts!Ticks
    <3> QED
      BY <1>1, <3>1, <3>2
  <2> QED
    BY <1>1, <2>1 DEF AlertsInv, Alerts!TypeOK, Alerts!Ticks
<1>3. AlertsHeldIsTrue' /\ AlertsSelectIsTrue' /\ Alerts!AlertsAreTrue'
  BY <1>1 DEF AlertsInv, AlertsHeldIsTrue, AlertsSelectIsTrue, Alerts!AlertsAreTrue,
     Alerts!IsOpen
<1> QED
  BY <1>2, <1>3 DEF AlertsInv

LEMMA AlertsNextInv ==
  ASSUME AlertsRulesAreRules, AlertsInv, [Alerts!Next]_Alerts!vars
  PROVE  AlertsInv'
<1>1. CASE Alerts!Engine
  BY <1>1, AlertsEvaluateInv, AlertsWaitInv, AlertsFindEventInv, AlertsOpenEventInv,
     AlertsResolveInv DEF Alerts!Engine
<1>2. CASE UNCHANGED Alerts!vars
  BY <1>2 DEF Alerts!vars, Alerts!metricVars, Alerts!evalVars, Alerts!eventVars, AlertsInv,
     Alerts!TypeOK, Alerts!Ticks, AlertsHeldIsTrue, AlertsSelectIsTrue, Alerts!AlertsAreTrue,
     Alerts!IsOpen, Alerts!HasMetric, Alerts!SeenTrue, Alerts!Condition, Alerts!Satisfied
<1> QED
  BY <1>1, <1>2, AlertsAcknowledgeInv, AlertsTickInv, AlertsPutInv, AlertsFaultInv
     DEF Alerts!Next

LEMMA AlertsInvImplies == AlertsInv => Alerts!TypeOK /\ Alerts!AlertsAreTrue
BY DEF AlertsInv

\* No rule has two open events, nor one before its condition has held for its
\* duration: for every set of rules, over restarts and failing statements.
THEOREM AlertsNeitherEarlyNorDoubled ==
  ASSUME AlertsRulesAreRules
  PROVE  Alerts!Spec => [](Alerts!TypeOK /\ Alerts!AlertsAreTrue)
<1>1. Alerts!Init => AlertsInv
  BY AlertsInitInv
<1>2. AlertsInv /\ [Alerts!Next]_Alerts!vars => AlertsInv'
  BY AlertsNextInv
<1> QED
  BY <1>1, <1>2, AlertsInvImplies, PTL DEF Alerts!Spec
===============================================================================
