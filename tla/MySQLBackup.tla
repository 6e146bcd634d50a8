------------------------------ MODULE MySQLBackup ------------------------------
(***************************************************************************)
(* Logical backups of MySQL: the handler of mysql.backup tasks, the row it *)
(* keeps beside the task's in backup_jobs, and mysqldump on the host with  *)
(* the files it leaves.                                                    *)
(*                                                                         *)
(* The instances are of one host and their requests may name one directory.*)
(* <<i, n>> is the n-th task for instance i.  The engine's claims are      *)
(* those of TaskEngine, in any order.                                      *)
(***************************************************************************)
EXTENDS Integers

CONSTANTS
  Tasks,     \* the tasks <<i, n>> there may be
  Names,     \* paths a dump may get: a given file_name, or the second's
  MaxFaults  \* bound on lost dispatches, restarts and failed statements

Nobody == <<>>

VARIABLES
  pc,      \* each task, and how far its handler has come
  job,     \* backup_jobs.status of its job
  run,     \* the request and mysqldump at the agent
  file,    \* the path it has opened, and its job's storage_path
  writer,  \* the task whose dump is in the file, or Nobody: no such file
  faults   \* faults so far, up to MaxFaults

hostVars == <<run, file, writer>>
vars == <<pc, job, hostVars, faults>>

AtWork == {"begun", "waiting", "registered"}           \* a handler is at work
Open == AtWork \cup {"queued", "interrupted"}          \* the index on keys counts it

\* One backup of an instance: tasks.idempotency_key is mysql.backup:<instance>.
KeyFree(i) == \A t \in Tasks : t[1] = i => pc[t] \notin Open

Init ==
  /\ pc = [t \in Tasks |-> "none"]
  /\ job = [t \in Tasks |-> "none"]
  /\ run = [t \in Tasks |-> "none"]
  /\ file \in {[t \in Tasks |-> f] : f \in Names}
  /\ writer = [f \in Names |-> Nobody]
  /\ faults = 0

Fault == faults < MaxFaults /\ faults' = faults + 1

-------------------------------------------------------------------------------
(* The service *)

CreateTask(t) ==
  /\ pc[t] = "none" /\ KeyFree(t[1])
  /\ pc' = [pc EXCEPT ![t] = "queued"]
  /\ UNCHANGED <<job, hostVars, faults>>

\* A worker claims the task; its job's row is inserted.
Begin(t) ==
  /\ pc[t] = "queued"
  /\ pc' = [pc EXCEPT ![t] = "begun"]
  /\ job' = [job EXCEPT ![t] = "pending"]
  /\ UNCHANGED <<hostVars, faults>>

\* loadRuntime or the INSERT fails: no row.
BeginFails(t) ==
  /\ Fault
  /\ pc[t] = "queued"
  /\ pc' = [pc EXCEPT ![t] = "failed"]
  /\ UNCHANGED <<job, hostVars>>

\* Mutation: the row gets the status of an archive job.
DispatchAsArchive(t) ==
  /\ pc[t] = "begun"
  /\ pc' = [pc EXCEPT ![t] = "waiting"]
  /\ job' = [job EXCEPT ![t] = "pause_requested"]
  /\ run' = [run EXCEPT ![t] = "sent"]
  /\ UNCHANGED <<file, writer, faults>>

\* MarkRunning and Dispatch.
Dispatch(t) ==
  /\ pc[t] = "begun"
  /\ pc' = [pc EXCEPT ![t] = "waiting"]
  /\ job' = [job EXCEPT ![t] = "running"]
  /\ run' = [run EXCEPT ![t] = "sent"]
  /\ UNCHANGED <<file, writer, faults>>

\* The handler's error: MarkFailed, then the engine writes the task's outcome.
Fail(t) ==
  /\ pc' = [pc EXCEPT ![t] = "failed"]
  /\ job' = [job EXCEPT ![t] = "failed"]

\* Dispatch returns the agent's error, or finds the connection gone.
BackupFails(t) ==
  /\ pc[t] = "waiting" /\ run[t] \in {"error", "dead"}
  /\ Fail(t)
  /\ UNCHANGED <<hostVars, faults>>

\* Dispatch gives up: the request has not arrived, or goes on unheard.
DispatchIsLost(t) ==
  /\ Fault
  /\ pc[t] = "waiting"
  /\ Fail(t)
  /\ run' \in {run, IF run[t] = "sent" THEN [run EXCEPT ![t] = "none"] ELSE run}
  /\ UNCHANGED <<file, writer>>

\* Mutation: the size and checksum of any answer are registered.
RegisterAny(t) ==
  /\ pc[t] = "waiting" /\ run[t] \in {"done", "error"}
  /\ pc' = [pc EXCEPT ![t] = "registered"]
  /\ job' = [job EXCEPT ![t] = "success"]
  /\ UNCHANGED <<hostVars, faults>>

\* The answer passes the checks of path, size and checksum: MarkSuccess.
Register(t) ==
  /\ pc[t] = "waiting" /\ run[t] = "done"
  /\ pc' = [pc EXCEPT ![t] = "registered"]
  /\ job' = [job EXCEPT ![t] = "success"]
  /\ UNCHANGED <<hostVars, faults>>

\* MarkSuccess fails: so does the task, and the job stays as it is.
RegisterFails(t) ==
  /\ Fault
  /\ pc[t] = "waiting" /\ run[t] = "done"
  /\ pc' = [pc EXCEPT ![t] = "failed"]
  /\ UNCHANGED <<job, hostVars>>

\* The handler returns and the engine ends the task.
Succeed(t) ==
  /\ pc[t] = "registered"
  /\ pc' = [pc EXCEPT ![t] = "success"]
  /\ UNCHANGED <<job, hostVars, faults>>

-------------------------------------------------------------------------------
(* mysqlBackup at the agent *)

\* Mutation: os.Create, which truncates what is there.
OpenOver(t, f) ==
  /\ run[t] = "sent"
  /\ run' = [run EXCEPT ![t] = "dumping"]
  /\ file' = [file EXCEPT ![t] = f]
  /\ writer' = [writer EXCEPT ![f] = t]
  /\ UNCHANGED <<pc, job, faults>>

\* os.OpenFile with O_CREATE and O_EXCL: only a path that has no file.
OpenNew(t, f) ==
  /\ run[t] = "sent" /\ writer[f] = Nobody
  /\ run' = [run EXCEPT ![t] = "dumping"]
  /\ file' = [file EXCEPT ![t] = f]
  /\ writer' = [writer EXCEPT ![f] = t]
  /\ UNCHANGED <<pc, job, faults>>

\* The path has a file, or something before it fails: no file is made.
OpenFails(t) ==
  /\ run[t] = "sent"
  /\ run' = [run EXCEPT ![t] = "error"]
  /\ UNCHANGED <<pc, job, file, writer, faults>>

\* mysqldump ends well; the file is synced and closed.
DumpEnds(t) ==
  /\ run[t] = "dumping"
  /\ run' = [run EXCEPT ![t] = "done"]
  /\ UNCHANGED <<pc, job, file, writer, faults>>

\* mysqldump or a write fails, or its time is up: the deferred cleanup.
DumpFails(t) ==
  /\ run[t] = "dumping"
  /\ run' = [run EXCEPT ![t] = "error"]
  /\ writer' = [writer EXCEPT ![file[t]] = Nobody]
  /\ UNCHANGED <<pc, job, file, faults>>

-------------------------------------------------------------------------------
(* Restarts *)

\* The agent ends: no cleanup is run, and what mysqldump has written stays.
AgentRestart ==
  /\ Fault
  /\ run' = [t \in Tasks |-> IF run[t] \in {"sent", "dumping"} THEN "dead" ELSE run[t]]
  /\ UNCHANGED <<pc, job, file, writer>>

\* The server ends: recovery turns its claimed tasks into interrupted ones.
ServerRestart ==
  /\ Fault
  /\ pc' = [t \in Tasks |-> IF pc[t] \in AtWork THEN "interrupted" ELSE pc[t]]
  /\ UNCHANGED <<job, hostVars>>

-------------------------------------------------------------------------------

Service(t) ==
  CreateTask(t) \/ Begin(t) \/ Dispatch(t) \/ BackupFails(t) \/ Register(t) \/ Succeed(t)

Agent(t) ==
  \/ \E f \in Names : OpenNew(t, f)
  \/ OpenFails(t) \/ DumpEnds(t) \/ DumpFails(t)

Next ==
  \/ \E t \in Tasks : Service(t) \/ Agent(t)
  \/ \E t \in Tasks : BeginFails(t) \/ DispatchIsLost(t) \/ RegisterFails(t)
  \/ AgentRestart
  \/ ServerRestart

Spec == Init /\ [][Next]_vars

-------------------------------------------------------------------------------
(* Properties *)

\* The variables keep to their types: a job has a status that views know.
TypeOK ==
  /\ pc \in [Tasks -> Open \cup {"none", "success", "failed"}]
  /\ job \in [Tasks -> {"none", "pending", "running", "success", "failed"}]
  /\ run \in [Tasks -> {"none", "sent", "dumping", "done", "error", "dead"}]
  /\ file \in [Tasks -> Names]
  /\ writer \in [Names -> Tasks \cup {Nobody}]
  /\ faults \in Nat

\* The file of a registered backup is there and is that backup, whole: neither
\* a later backup, of any instance, nor the cleanup of one that fails, nor an
\* execution nobody waits for any more writes or removes it.
\* A task succeeds only with such a backup.
BackupIsThere ==
  \A t \in Tasks :
    /\ job[t] = "success" => writer[file[t]] = t /\ run[t] = "done"
    /\ pc[t] = "success" => job[t] = "success"
===============================================================================
