------------------------------ MODULE DorisBackup ------------------------------
(***************************************************************************)
(* Snapshot backups of a Doris database: the handler of doris.backup tasks *)
(* with its row in backup_jobs, and the agent, which submits a BACKUP      *)
(* SNAPSHOT and polls SHOW BACKUP until the job with its label has ended.  *)
(*                                                                         *)
(* Doris runs one backup job of a database at a time and shows the latest. *)
(* <<l, n>> is the n-th task with label l, which a request gives or the    *)
(* instance and the second make.                                           *)
(***************************************************************************)
EXTENDS Integers

CONSTANTS
  Tasks,     \* the tasks <<l, n>> there may be
  MaxFaults  \* bound on lost dispatches, restarts and failed statements

Labels == {t[1] : t \in Tasks}
NoLabel == <<>>

VARIABLES
  pc,      \* each task, and how far its handler has come
  job,     \* backup_jobs.status of its job
  run,     \* the request and its polling at the agent
  shown,   \* the one row of SHOW BACKUP: label, as <<l>>, and state
  stored,  \* labels of the snapshots in the repository
  faults   \* faults so far, up to MaxFaults

rowVars == <<pc, job>>
dorisVars == <<shown, stored>>
vars == <<rowVars, run, dorisVars, faults>>

AtWork == {"begun", "waiting", "registered"}           \* a handler is at work
Open == AtWork \cup {"queued", "interrupted"}          \* the index on keys counts it

\* tasks.idempotency_key is doris.backup:<instance>:<label>: backups with two
\* labels run side by side.
KeyFree(l) == \A t \in Tasks : t[1] = l => pc[t] \notin Open

Init ==
  /\ pc = [t \in Tasks |-> "none"]
  /\ job = [t \in Tasks |-> "none"]
  /\ run = [t \in Tasks |-> "none"]
  /\ shown = [label |-> NoLabel, state |-> "FINISHED"]
  /\ stored = {}
  /\ faults = 0

Fault == faults < MaxFaults /\ faults' = faults + 1

-------------------------------------------------------------------------------
(* The service *)

CreateBackupTask(t) ==
  /\ pc[t] = "none" /\ KeyFree(t[1])
  /\ pc' = [pc EXCEPT ![t] = "queued"]
  /\ UNCHANGED <<job, run, dorisVars, faults>>

\* A worker claims the task; its job's row is inserted.
Begin(t) ==
  /\ pc[t] = "queued"
  /\ pc' = [pc EXCEPT ![t] = "begun"]
  /\ job' = [job EXCEPT ![t] = "pending"]
  /\ UNCHANGED <<run, dorisVars, faults>>

BeginFails(t) ==
  /\ Fault
  /\ pc[t] = "queued"
  /\ pc' = [pc EXCEPT ![t] = "failed"]
  /\ UNCHANGED <<job, run, dorisVars>>

\* MarkRunning and Dispatch.
Dispatch(t) ==
  /\ pc[t] = "begun"
  /\ pc' = [pc EXCEPT ![t] = "waiting"]
  /\ job' = [job EXCEPT ![t] = "running"]
  /\ run' = [run EXCEPT ![t] = "sent"]
  /\ UNCHANGED <<dorisVars, faults>>

\* MarkFailed, then the engine writes the task's outcome.
Fail(t) ==
  /\ pc' = [pc EXCEPT ![t] = "failed"]
  /\ job' = [job EXCEPT ![t] = "failed"]

BackupFails(t) ==
  /\ pc[t] = "waiting" /\ run[t] \in {"error", "dead"}
  /\ Fail(t)
  /\ UNCHANGED <<run, dorisVars, faults>>

\* Dispatch gives up: the request has not arrived, or goes on unheard.
DispatchIsLost(t) ==
  /\ Fault
  /\ pc[t] = "waiting"
  /\ Fail(t)
  /\ run' \in {run, IF run[t] = "sent" THEN [run EXCEPT ![t] = "none"] ELSE run}
  /\ UNCHANGED dorisVars

\* The state of the answer is FINISHED: MarkSuccess.
Register(t) ==
  /\ pc[t] = "waiting" /\ run[t] = "done"
  /\ pc' = [pc EXCEPT ![t] = "registered"]
  /\ job' = [job EXCEPT ![t] = "success"]
  /\ UNCHANGED <<run, dorisVars, faults>>

RegisterFails(t) ==
  /\ Fault
  /\ pc[t] = "waiting" /\ run[t] = "done"
  /\ pc' = [pc EXCEPT ![t] = "failed"]
  /\ UNCHANGED <<job, run, dorisVars>>

Succeed(t) ==
  /\ pc[t] = "registered"
  /\ pc' = [pc EXCEPT ![t] = "success"]
  /\ UNCHANGED <<job, run, dorisVars, faults>>

-------------------------------------------------------------------------------
(* dorisBackup at the agent *)

\* Doris takes a BACKUP when no job runs and the repository lacks the label.
Accepts(l) == shown.state # "RUNNING" /\ l \notin stored
Submitted(l) == [label |-> <<l>>, state |-> "RUNNING"]

Submit(t) ==
  /\ run[t] = "sent" /\ Accepts(t[1])
  /\ shown' = Submitted(t[1])
  /\ run' = [run EXCEPT ![t] = "polling"]
  /\ UNCHANGED <<rowVars, stored, faults>>

SubmitFails(t) ==
  /\ run[t] = "sent"
  /\ run' = [run EXCEPT ![t] = "error"]
  /\ UNCHANGED <<rowVars, dorisVars, faults>>

\* The client ends with an error after Doris has the job.
SubmitIsCut(t) ==
  /\ Fault
  /\ run[t] = "sent" /\ Accepts(t[1])
  /\ shown' = Submitted(t[1])
  /\ run' = [run EXCEPT ![t] = "error"]
  /\ UNCHANGED <<rowVars, stored>>

\* Mutation: the latest job is taken for the one submitted.
ShowsAny(l) == shown.label # NoLabel

\* filterDorisBackup: the row has the label.
Shows(l) == shown.label = <<l>>

\* A poll finds the job with the label ended.
Poll(t) ==
  /\ run[t] = "polling"
  /\ Shows(t[1]) /\ shown.state \in {"FINISHED", "CANCELLED"}
  /\ run' = [run EXCEPT ![t] = IF shown.state = "FINISHED" THEN "done" ELSE "error"]
  /\ UNCHANGED <<rowVars, dorisVars, faults>>

\* A poll fails, or the time of the job is up: also of one that has ended well
\* and is not shown any more.  Doris goes on.
PollFails(t) ==
  /\ run[t] = "polling"
  /\ run' = [run EXCEPT ![t] = "error"]
  /\ UNCHANGED <<rowVars, dorisVars, faults>>

-------------------------------------------------------------------------------
(* Doris *)

Finish ==
  /\ shown.state = "RUNNING"
  /\ shown' = [shown EXCEPT !.state = "FINISHED"]
  /\ stored' = stored \cup {shown.label[1]}
  /\ UNCHANGED <<rowVars, run, faults>>

Cancel ==
  /\ shown.state = "RUNNING"
  /\ shown' = [shown EXCEPT !.state = "CANCELLED"]
  /\ UNCHANGED <<rowVars, run, stored, faults>>

-------------------------------------------------------------------------------
(* Restarts *)

AgentRestart ==
  /\ Fault
  /\ run' = [t \in Tasks |-> IF run[t] \in {"sent", "polling"} THEN "dead" ELSE run[t]]
  /\ UNCHANGED <<rowVars, dorisVars>>

ServerRestart ==
  /\ Fault
  /\ pc' = [t \in Tasks |-> IF pc[t] \in AtWork THEN "interrupted" ELSE pc[t]]
  /\ UNCHANGED <<job, run, dorisVars>>

-------------------------------------------------------------------------------

Service(t) ==
  CreateBackupTask(t) \/ Begin(t) \/ Dispatch(t) \/ BackupFails(t) \/ Register(t) \/ Succeed(t)

Agent(t) == Submit(t) \/ SubmitFails(t) \/ Poll(t) \/ PollFails(t)

Next ==
  \/ \E t \in Tasks : Service(t) \/ Agent(t)
  \/ \E t \in Tasks : BeginFails(t) \/ DispatchIsLost(t) \/ RegisterFails(t) \/ SubmitIsCut(t)
  \/ Finish
  \/ Cancel
  \/ AgentRestart
  \/ ServerRestart

Spec == Init /\ [][Next]_vars

-------------------------------------------------------------------------------
(* Properties *)

\* The variables keep to their types: a job has a status that views know.
TypeOK ==
  /\ pc \in [Tasks -> Open \cup {"none", "success", "failed"}]
  /\ job \in [Tasks -> {"none", "pending", "running", "success", "failed"}]
  /\ run \in [Tasks -> {"none", "sent", "polling", "done", "error", "dead"}]
  /\ shown \in [label : {<<l>> : l \in Labels} \cup {NoLabel},
                state : {"RUNNING", "FINISHED", "CANCELLED"}]
  /\ stored \subseteq Labels
  /\ faults \in Nat

\* A registered snapshot is in the repository: neither the end of a job with
\* another label nor one that is cancelled is taken for it.
BackupIsThere == \A t \in Tasks : job[t] = "success" => t[1] \in stored
===============================================================================
