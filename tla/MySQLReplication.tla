--------------------------- MODULE MySQLReplication ---------------------------
(***************************************************************************)
(* GTID replication between two managed MySQL instances: the handler of    *)
(* mysql.replication.create tasks, which sends up to six requests to the   *)
(* agents of the primary and of the replica, the account and the channel   *)
(* those requests make, and the row in mysql_replications.                 *)
(*                                                                         *)
(* <<p, r, n>> is the n-th task for primary p and replica r; its password  *)
(* is new and stands for it, and so does its credential.                   *)
(***************************************************************************)
EXTENDS Integers

CONSTANTS
  Tasks,     \* the tasks <<p, r, n>> there may be
  MaxFaults  \* bound on lost dispatches, restarts and failed statements

Primary(t) == t[1]
Replica(t) == t[2]
Replicas == {Replica(t) : t \in Tasks}
Nobody == <<>>

VARIABLES
  pc,          \* each task, and how far its handler has come
  step,        \* the request its handler has come to, a number of Steps
  run,         \* that request at the agent
  account,     \* the task whose password each account at a primary has
  channel,     \* the task whose source and password each replica has
  link,        \* the replica's I/O thread is connected to its source
  credential,  \* the tasks with a row in credentials
  row,         \* the task that registered the replica's row; Nobody: no row
  status,      \* mysql_replications.status
  answer,      \* the status an operator's refresh has read, until it is written
  faults       \* faults so far, up to MaxFaults

taskVars == <<pc, step>>
mysqlVars == <<account, channel, link>>
rowVars == <<credential, row, status, answer>>
vars == <<taskVars, run, mysqlVars, rowVars, faults>>

\* Requests of a task, in their order.
Steps == <<"PRIMARY_PRECHECK", "REPLICA_PRECHECK", "CREATE_REPLICATION_USER",
           "CONFIGURE_REPLICA", "VERIFY_REPLICATION", "FINAL_VERIFY">>
At(t, s) == step[t] # 0 /\ Steps[step[t]] = s

Open == {"queued", "running", "interrupted"}  \* the index on keys counts it

\* tasks.idempotency_key is mysql.replication:<primary>:<replica>: two
\* primaries may be configured for a replica at once.
KeyFree(t) ==
  \A u \in Tasks : Primary(u) = Primary(t) /\ Replica(u) = Replica(t) => pc[u] \notin Open

\* Mutation: one account for all replicas.
AccountOfPrimary(t) == <<Primary(t), CHOOSE r \in Replicas : TRUE>>

\* dbops_repl_<replica> at the primary.
Account(t) == <<Primary(t), Replica(t)>>
Accounts == {Primary(t) : t \in Tasks} \X Replicas

Init ==
  /\ pc = [t \in Tasks |-> "none"]
  /\ step = [t \in Tasks |-> 0]
  /\ run = [t \in Tasks |-> "none"]
  /\ account = [a \in Accounts |-> Nobody]
  /\ channel = [r \in Replicas |-> Nobody]
  /\ link = [r \in Replicas |-> FALSE]
  /\ credential = {}
  /\ row = [r \in Replicas |-> Nobody]
  /\ status = [r \in Replicas |-> "none"]
  /\ answer = [r \in Replicas |-> "none"]
  /\ faults = 0

Fault == faults < MaxFaults /\ faults' = faults + 1

-------------------------------------------------------------------------------
(* The service *)

CreateTask(t) ==
  /\ pc[t] = "none" /\ KeyFree(t)
  /\ pc' = [pc EXCEPT ![t] = "queued"]
  /\ UNCHANGED <<step, run, mysqlVars, rowVars, faults>>

Send(t, n) ==
  /\ step' = [step EXCEPT ![t] = n]
  /\ run' = [run EXCEPT ![t] = "sent"]

\* A worker claims the task and loadRuntime passes; the first precheck is sent.
Begin(t) ==
  /\ pc[t] = "queued"
  /\ pc' = [pc EXCEPT ![t] = "running"]
  /\ Send(t, 1)
  /\ UNCHANGED <<mysqlVars, rowVars, faults>>

BeginFails(t) ==
  /\ Fault
  /\ pc[t] = "queued"
  /\ pc' = [pc EXCEPT ![t] = "failed"]
  /\ UNCHANGED <<step, run, mysqlVars, rowVars>>

\* An answer, and the next request: after the prechecks, with a new credential.
Advance(t) ==
  /\ pc[t] = "running" /\ run[t] = "done" /\ step[t] < 5
  /\ Send(t, step[t] + 1)
  /\ credential' = IF At(t, "REPLICA_PRECHECK") THEN credential \cup {t} ELSE credential
  /\ UNCHANGED <<pc, mysqlVars, row, status, answer, faults>>

\* An error ends the task, and undoes nothing.
StepFails(t) ==
  /\ pc[t] = "running" /\ run[t] \in {"error", "degraded", "dead"}
  /\ ~At(t, "FINAL_VERIFY")
  /\ pc' = [pc EXCEPT ![t] = "failed"]
  /\ UNCHANGED <<step, run, mysqlVars, rowVars, faults>>

\* The INSERT of the credential, or of the row, fails.
StatementFails(t) ==
  /\ Fault
  /\ pc[t] = "running" /\ run[t] = "done"
  /\ At(t, "REPLICA_PRECHECK") \/ At(t, "VERIFY_REPLICATION")
  /\ pc' = [pc EXCEPT ![t] = "failed"]
  /\ UNCHANGED <<step, run, mysqlVars, rowVars>>

\* The status was healthy.
Verified(t) == At(t, "VERIFY_REPLICATION") /\ run[t] = "done"

\* The row is inserted, unless the replica has one, and FINAL_VERIFY sent.
Register(t) ==
  /\ pc[t] = "running" /\ Verified(t) /\ row[Replica(t)] = Nobody
  /\ row' = [row EXCEPT ![Replica(t)] = t]
  /\ status' = [status EXCEPT ![Replica(t)] = "healthy"]
  /\ Send(t, 6)
  /\ UNCHANGED <<pc, mysqlVars, credential, answer, faults>>

RegisterIsRefused(t) ==
  /\ pc[t] = "running" /\ Verified(t) /\ row[Replica(t)] # Nobody
  /\ pc' = [pc EXCEPT ![t] = "failed"]
  /\ UNCHANGED <<step, run, mysqlVars, rowVars, faults>>

\* The outcome of FINAL_VERIFY is discarded.
Succeed(t) ==
  /\ pc[t] = "running" /\ At(t, "FINAL_VERIFY") /\ run[t] # "sent"
  /\ pc' = [pc EXCEPT ![t] = "success"]
  /\ UNCHANGED <<step, run, mysqlVars, rowVars, faults>>

\* Dispatch gives up: the request has not arrived, or goes on unheard.
DispatchIsLost(t) ==
  /\ Fault
  /\ pc[t] = "running"
  /\ pc' = [pc EXCEPT ![t] = IF At(t, "FINAL_VERIFY") THEN "success" ELSE "failed"]
  /\ run' \in {run, IF run[t] = "sent" THEN [run EXCEPT ![t] = "none"] ELSE run}
  /\ UNCHANGED <<step, mysqlVars, rowVars>>

\* mysqlReplicationStatus.
StatusOf(r) == IF link[r] THEN "healthy" ELSE "degraded"

\* An operator's refresh: the status is read, and written later.
RefreshReads(r) ==
  /\ row[r] # Nobody /\ answer[r] = "none"
  /\ answer' = [answer EXCEPT ![r] = StatusOf(r)]
  /\ UNCHANGED <<taskVars, run, mysqlVars, credential, row, status, faults>>

RefreshWrites(r) ==
  /\ answer[r] # "none"
  /\ status' = [status EXCEPT ![r] = answer[r]]
  /\ answer' = [answer EXCEPT ![r] = "none"]
  /\ UNCHANGED <<taskVars, run, mysqlVars, credential, row, faults>>

-------------------------------------------------------------------------------
(* The agents *)

Ends(t, outcome) == run' = [run EXCEPT ![t] = outcome]

Precheck(t) ==
  /\ run[t] = "sent" /\ step[t] \in 1..2
  /\ Ends(t, "done")
  /\ UNCHANGED <<taskVars, mysqlVars, rowVars, faults>>

\* primary_prepare: the account is made, or gets this password.
Prepare(t) ==
  /\ run[t] = "sent" /\ At(t, "CREATE_REPLICATION_USER")
  /\ Ends(t, "done")
  /\ account' = [account EXCEPT ![Account(t)] = t]
  /\ UNCHANGED <<taskVars, channel, link, rowVars, faults>>

\* replica_configure: the channel is reset, has its new source and is started.
Configure(t) ==
  /\ run[t] = "sent" /\ At(t, "CONFIGURE_REPLICA")
  /\ Ends(t, "done")
  /\ channel' = [channel EXCEPT ![Replica(t)] = t]
  /\ link' = [link EXCEPT ![Replica(t)] = FALSE]
  /\ UNCHANGED <<taskVars, account, rowVars, faults>>

\* RESET REPLICA ALL is done and a later statement fails.
ConfigureFails(t) ==
  /\ run[t] = "sent" /\ At(t, "CONFIGURE_REPLICA")
  /\ Ends(t, "error")
  /\ channel' \in {[channel EXCEPT ![Replica(t)] = c] : c \in {Nobody, t}}
  /\ link' = [link EXCEPT ![Replica(t)] = FALSE]
  /\ UNCHANGED <<taskVars, account, rowVars, faults>>

\* SHOW REPLICA STATUS: both threads run, or not (yet).
ReadStatus(t) ==
  /\ run[t] = "sent" /\ step[t] \in 5..6
  /\ Ends(t, IF StatusOf(Replica(t)) = "healthy" THEN "done" ELSE "degraded")
  /\ UNCHANGED <<taskVars, mysqlVars, rowVars, faults>>

\* A request fails, or a precheck does not pass: nothing has changed.
RequestFails(t) ==
  /\ run[t] = "sent"
  /\ Ends(t, "error")
  /\ UNCHANGED <<taskVars, mysqlVars, rowVars, faults>>

-------------------------------------------------------------------------------
(* MySQL *)

\* The password a replica has is that of the account.
LogsIn(r) == channel[r] # Nobody /\ account[Account(channel[r])] = channel[r]

\* The I/O thread connects; a change of the account does not end what it has.
Connect(r) ==
  /\ ~link[r] /\ LogsIn(r)
  /\ link' = [link EXCEPT ![r] = TRUE]
  /\ UNCHANGED <<taskVars, run, account, channel, rowVars, faults>>

Disconnect(r) ==
  /\ Fault
  /\ link[r]
  /\ link' = [link EXCEPT ![r] = FALSE]
  /\ UNCHANGED <<taskVars, run, account, channel, rowVars>>

-------------------------------------------------------------------------------
(* Restarts *)

\* An agent ends: requests to it do, too.
AgentRestart(t) ==
  /\ Fault
  /\ run[t] = "sent"
  /\ Ends(t, "dead")
  /\ UNCHANGED <<taskVars, mysqlVars, rowVars>>

ServerRestart ==
  /\ Fault
  /\ pc' = [t \in Tasks |-> IF pc[t] = "running" THEN "interrupted" ELSE pc[t]]
  /\ UNCHANGED <<step, run, mysqlVars, rowVars>>

-------------------------------------------------------------------------------

Service(t) ==
  CreateTask(t) \/ Begin(t) \/ Advance(t) \/ StepFails(t)
    \/ Register(t) \/ RegisterIsRefused(t) \/ Succeed(t)

Agent(t) ==
  Precheck(t) \/ Prepare(t) \/ Configure(t) \/ ConfigureFails(t)
    \/ ReadStatus(t) \/ RequestFails(t)

Next ==
  \/ \E t \in Tasks : Service(t) \/ Agent(t)
  \/ \E t \in Tasks : BeginFails(t) \/ DispatchIsLost(t) \/ StatementFails(t) \/ AgentRestart(t)
  \/ \E r \in Replicas : RefreshReads(r) \/ RefreshWrites(r) \/ Connect(r) \/ Disconnect(r)
  \/ ServerRestart

Spec == Init /\ [][Next]_vars

-------------------------------------------------------------------------------
(* Properties *)

\* The variables keep to their types.
TypeOK ==
  /\ pc \in [Tasks -> Open \cup {"none", "success", "failed"}]
  /\ step \in [Tasks -> 0..6]
  /\ run \in [Tasks -> {"none", "sent", "done", "degraded", "error", "dead"}]
  /\ account \in [Accounts -> Tasks \cup {Nobody}]
  /\ channel \in [Replicas -> Tasks \cup {Nobody}]
  /\ link \in [Replicas -> BOOLEAN]
  /\ credential \subseteq Tasks
  /\ row \in [Replicas -> Tasks \cup {Nobody}]
  /\ status \in [Replicas -> {"none", "healthy", "degraded"}]
  /\ answer \in [Replicas -> {"none", "healthy", "degraded"}]
  /\ faults \in Nat

\* A request of the task may have changed an account or a channel.
Touched(t) == step[t] >= 3 /\ ~(At(t, "CREATE_REPLICATION_USER") /\ run[t] \in {"sent", "none"})

\* A registered replica follows the primary of its row, with the password of
\* the row's credential and able to log in, unless another task for the same
\* replica has been executed: what is done for other replicas, of the same
\* primary or not, and what its own task does in vain, takes nothing from it.
FollowsItsRow ==
  \A r \in Replicas : LET t == row[r] IN
    \/ t = Nobody
    \/ t \in credential /\ channel[r] = t /\ LogsIn(r)
    \/ \E u \in Tasks \ {t} : Replica(u) = r /\ Touched(u)
===============================================================================
