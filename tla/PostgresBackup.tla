---------------------------- MODULE PostgresBackup -----------------------------
(***************************************************************************)
(* Logical backups of PostgreSQL: the handler of postgres.backup tasks,    *)
(* its row in backup_jobs, and pg_dump on the host.  The handler has the   *)
(* form of MySQLBackup's; the agent differs in what it does to a path that *)
(* already has a file.                                                     *)
(*                                                                         *)
(* The instances are of one host and their requests may name one directory.*)
(* <<i, n>> is the n-th task for instance i.                               *)
(***************************************************************************)
EXTENDS Integers

CONSTANTS
  Tasks,     \* the tasks <<i, n>> there may be
  Names,     \* paths a dump may get: a given file_name, or the second's
  NoFile,    \* none of them: what a task has before its dump is started
  MaxFaults  \* bound on lost dispatches, restarts and failed statements

VARIABLES
  pc,      \* each task, and how far its handler has come
  job,     \* backup_jobs.status of its job
  run,     \* the request and pg_dump at the agent
  file,    \* the path of its dump, and its job's storage_path; NoFile: none yet
  writer,  \* the tasks whose output is in the file; none: no such file
  faults   \* faults so far, up to MaxFaults

hostVars == <<run, file, writer>>
vars == <<pc, job, hostVars, faults>>

AtWork == {"begun", "waiting", "registered"}           \* a handler is at work
Open == AtWork \cup {"queued", "interrupted"}          \* the index on keys counts it

\* One backup of an instance: tasks.idempotency_key is postgres.backup:<instance>.
KeyFree(i) == \A t \in Tasks : t[1] = i => pc[t] \notin Open

Init ==
  /\ pc = [t \in Tasks |-> "none"]
  /\ job = [t \in Tasks |-> "none"]
  /\ run = [t \in Tasks |-> "none"]
  /\ file = [t \in Tasks |-> NoFile]
  /\ writer = [f \in Names |-> {}]
  /\ faults = 0

Fault == faults < MaxFaults /\ faults' = faults + 1

-------------------------------------------------------------------------------
(* The service *)

\* Mutation: a key per task.
CreateAnyBackupTask(t) ==
  /\ pc[t] = "none"
  /\ pc' = [pc EXCEPT ![t] = "queued"]
  /\ UNCHANGED <<job, hostVars, faults>>

CreateBackupTask(t) ==
  /\ pc[t] = "none" /\ KeyFree(t[1])
  /\ pc' = [pc EXCEPT ![t] = "queued"]
  /\ UNCHANGED <<job, hostVars, faults>>

\* A worker claims the task; loadRuntime, which wants the agent online, and
\* the INSERT of the job pass.
Begin(t) ==
  /\ pc[t] = "queued"
  /\ pc' = [pc EXCEPT ![t] = "begun"]
  /\ job' = [job EXCEPT ![t] = "pending"]
  /\ UNCHANGED <<hostVars, faults>>

BeginFails(t) ==
  /\ Fault
  /\ pc[t] = "queued"
  /\ pc' = [pc EXCEPT ![t] = "failed"]
  /\ UNCHANGED <<job, hostVars>>

\* MarkRunning and Dispatch.
Dispatch(t) ==
  /\ pc[t] = "begun"
  /\ pc' = [pc EXCEPT ![t] = "waiting"]
  /\ job' = [job EXCEPT ![t] = "running"]
  /\ run' = [run EXCEPT ![t] = "sent"]
  /\ UNCHANGED <<file, writer, faults>>

\* MarkFailed, then the engine writes the task's outcome.
Fail(t) ==
  /\ pc' = [pc EXCEPT ![t] = "failed"]
  /\ job' = [job EXCEPT ![t] = "failed"]

BackupFails(t) ==
  /\ pc[t] = "waiting" /\ run[t] \in {"error", "dead"}
  /\ Fail(t)
  /\ UNCHANGED <<hostVars, faults>>

\* Dispatch gives up: the request has not arrived, or goes on unheard.
DispatchIsLost(t) ==
  /\ Fault
  /\ pc[t] = "waiting"
  /\ Fail(t)
  /\ run' \in {run, IF run[t] = "sent" THEN [run EXCEPT ![t] = "none"] ELSE run}
  /\ UNCHANGED <<file, writer>>

\* The answer passes the checks of path, size and checksum: MarkSuccess.
Register(t) ==
  /\ pc[t] = "waiting" /\ run[t] = "done"
  /\ pc' = [pc EXCEPT ![t] = "registered"]
  /\ job' = [job EXCEPT ![t] = "success"]
  /\ UNCHANGED <<hostVars, faults>>

\* MarkSuccess fails: so does the task, and the job stays as it is.
RegisterFails(t) ==
  /\ Fault
  /\ pc[t] = "waiting" /\ run[t] = "done"
  /\ pc' = [pc EXCEPT ![t] = "failed"]
  /\ UNCHANGED <<job, hostVars>>

Succeed(t) ==
  /\ pc[t] = "registered"
  /\ pc' = [pc EXCEPT ![t] = "success"]
  /\ UNCHANGED <<job, hostVars, faults>>

-------------------------------------------------------------------------------
(* postgresBackup at the agent *)

\* Those that write into the file now.
Writing(f) == {t \in writer[f] : run[t] = "dumping"}

\* pg_dump --file truncates what is there; a dump that has the file open still
\* may write more into it.
StartDump(t, f) ==
  /\ run[t] = "sent"
  /\ run' = [run EXCEPT ![t] = "dumping"]
  /\ file' = [file EXCEPT ![t] = f]
  /\ \E others \in SUBSET Writing(f) : writer' = [writer EXCEPT ![f] = {t} \cup others]
  /\ UNCHANGED <<pc, job, faults>>

\* What comes before pg_dump fails.
DumpIsRefused(t) ==
  /\ run[t] = "sent"
  /\ run' = [run EXCEPT ![t] = "error"]
  /\ UNCHANGED <<pc, job, file, writer, faults>>

DumpEnds(t) ==
  /\ run[t] = "dumping"
  /\ run' = [run EXCEPT ![t] = "dumped"]
  /\ UNCHANGED <<pc, job, file, writer, faults>>

\* Mutation: the files of the directory are cleared.
DumpFailsClearing(t) ==
  /\ run[t] = "dumping"
  /\ run' = [run EXCEPT ![t] = "error"]
  /\ writer' = [f \in Names |-> {}]
  /\ UNCHANGED <<pc, job, file, faults>>

\* pg_dump fails, or its time is up: os.Remove, whosever file it has become.
DumpFails(t) ==
  /\ run[t] = "dumping"
  /\ run' = [run EXCEPT ![t] = "error"]
  /\ writer' = [writer EXCEPT ![file[t]] = {}]
  /\ UNCHANGED <<pc, job, file, faults>>

\* fileSHA256WithSize reads what the path has by now.
HashFile(t) ==
  /\ run[t] = "dumped"
  /\ run' = [run EXCEPT ![t] = IF writer[file[t]] = {} THEN "error" ELSE "done"]
  /\ UNCHANGED <<pc, job, file, writer, faults>>

-------------------------------------------------------------------------------
(* Restarts *)

AgentRestart ==
  /\ Fault
  /\ run' = [t \in Tasks |-> IF run[t] \in {"sent", "dumping", "dumped"} THEN "dead" ELSE run[t]]
  /\ UNCHANGED <<pc, job, file, writer>>

ServerRestart ==
  /\ Fault
  /\ pc' = [t \in Tasks |-> IF pc[t] \in AtWork THEN "interrupted" ELSE pc[t]]
  /\ UNCHANGED <<job, hostVars>>

-------------------------------------------------------------------------------

Service(t) ==
  CreateBackupTask(t) \/ Begin(t) \/ Dispatch(t) \/ BackupFails(t) \/ Register(t) \/ Succeed(t)

Agent(t) ==
  \/ \E f \in Names : StartDump(t, f)
  \/ DumpIsRefused(t) \/ DumpEnds(t) \/ DumpFails(t) \/ HashFile(t)

Next ==
  \/ \E t \in Tasks : Service(t) \/ Agent(t)
  \/ \E t \in Tasks : BeginFails(t) \/ DispatchIsLost(t) \/ RegisterFails(t)
  \/ AgentRestart
  \/ ServerRestart

Spec == Init /\ [][Next]_vars

-------------------------------------------------------------------------------
(* Properties *)

\* The variables keep to their types: a job has a status that views know.
TypeOK ==
  /\ pc \in [Tasks -> Open \cup {"none", "success", "failed"}]
  /\ job \in [Tasks -> {"none", "pending", "running", "success", "failed"}]
  /\ run \in [Tasks -> {"none", "sent", "dumping", "dumped", "done", "error", "dead"}]
  /\ file \in [Tasks -> Names \cup {NoFile}]
  /\ writer \in [Names -> SUBSET Tasks]
  /\ faults \in Nat

Intact(t) == writer[file[t]] = {t} /\ run[t] = "done"

\* The file of a registered backup is there and is that backup, whole.
FileIsIntact == \A t \in Tasks : job[t] = "success" => Intact(t)

\* A registered backup loses its file only to another dump of the same path:
\* no failed, lost or interrupted backup damages what has another name.
BackupIsThere ==
  \A t \in Tasks : job[t] = "success" =>
    Intact(t) \/ \E u \in Tasks \ {t} : file[u] = file[t]
===============================================================================
