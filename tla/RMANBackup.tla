------------------------------ MODULE RMANBackup -------------------------------
(***************************************************************************)
(* RMAN backups of an Oracle instance into one directory: the handler of   *)
(* oracle.rman.backup tasks with its row in backup_jobs, and the agent,    *)
(* which names the pieces of a backup by the second it starts in, finds    *)
(* them again by that name and registers them with one checksum.           *)
(*                                                                         *)
(* <<b, n>> is the n-th task of backup type b: full, level0, level1 or     *)
(* archivelog.                                                             *)
(***************************************************************************)
EXTENDS Integers

CONSTANTS
  Tasks,     \* the tasks <<b, n>> there may be
  Pieces,    \* pieces of a backup, at least one
  MaxClock,  \* bound on the seconds that pass
  MaxFaults  \* bound on lost dispatches, restarts and failed statements

VARIABLES
  pc,        \* each task, and how far its handler has come
  job,       \* backup_jobs.status of its job
  run,       \* the request and rman at the agent
  second,    \* the second in its pieces' prefix
  made,      \* the pieces of it that are in the directory
  manifest,  \* the pieces of each backup that its answer lists
  clock,     \* seconds, up to MaxClock
  faults     \* faults so far, up to MaxFaults

rowVars == <<pc, job>>
agentVars == <<run, second, made, manifest>>
vars == <<rowVars, agentVars, clock, faults>>

AtWork == {"begun", "waiting", "registered"}           \* a handler is at work
Open == AtWork \cup {"queued", "interrupted"}          \* the index on keys counts it

\* tasks.idempotency_key is oracle.rman.backup:<instance>:<type>: backups of
\* two types run side by side.
KeyFree(b) == \A t \in Tasks : t[1] = b => pc[t] \notin Open

Init ==
  /\ pc = [t \in Tasks |-> "none"]
  /\ job = [t \in Tasks |-> "none"]
  /\ run = [t \in Tasks |-> "none"]
  /\ second = [t \in Tasks |-> 0]
  /\ made = [t \in Tasks |-> 0]
  /\ manifest = [t \in Tasks |-> [u \in Tasks |-> 0]]
  /\ clock = 0
  /\ faults = 0

Fault == faults < MaxFaults /\ faults' = faults + 1

Tick ==
  /\ clock < MaxClock
  /\ clock' = clock + 1
  /\ UNCHANGED <<rowVars, agentVars, faults>>

-------------------------------------------------------------------------------
(* The service *)

CreateRMANBackupTask(t) ==
  /\ pc[t] = "none" /\ KeyFree(t[1])
  /\ pc' = [pc EXCEPT ![t] = "queued"]
  /\ UNCHANGED <<job, agentVars, clock, faults>>

\* A worker claims the task; its job's row is inserted.
Begin(t) ==
  /\ pc[t] = "queued"
  /\ pc' = [pc EXCEPT ![t] = "begun"]
  /\ job' = [job EXCEPT ![t] = "pending"]
  /\ UNCHANGED <<agentVars, clock, faults>>

BeginFails(t) ==
  /\ Fault
  /\ pc[t] = "queued"
  /\ pc' = [pc EXCEPT ![t] = "failed"]
  /\ UNCHANGED <<job, agentVars, clock>>

\* MarkRunning and Dispatch.
Dispatch(t) ==
  /\ pc[t] = "begun"
  /\ pc' = [pc EXCEPT ![t] = "waiting"]
  /\ job' = [job EXCEPT ![t] = "running"]
  /\ run' = [run EXCEPT ![t] = "sent"]
  /\ UNCHANGED <<second, made, manifest, clock, faults>>

\* MarkFailed, then the engine writes the task's outcome.
Fail(t) ==
  /\ pc' = [pc EXCEPT ![t] = "failed"]
  /\ job' = [job EXCEPT ![t] = "failed"]

BackupFails(t) ==
  /\ pc[t] = "waiting" /\ run[t] \in {"error", "dead"}
  /\ Fail(t)
  /\ UNCHANGED <<agentVars, clock, faults>>

\* Dispatch gives up: the request has not arrived, or goes on unheard.
DispatchIsLost(t) ==
  /\ Fault
  /\ pc[t] = "waiting"
  /\ Fail(t)
  /\ run' \in {run, IF run[t] = "sent" THEN [run EXCEPT ![t] = "none"] ELSE run}
  /\ UNCHANGED <<second, made, manifest, clock>>

\* The answer has pieces, a size and a checksum: MarkSuccess.
Register(t) ==
  /\ pc[t] = "waiting" /\ run[t] = "done"
  /\ pc' = [pc EXCEPT ![t] = "registered"]
  /\ job' = [job EXCEPT ![t] = "success"]
  /\ UNCHANGED <<agentVars, clock, faults>>

RegisterFails(t) ==
  /\ Fault
  /\ pc[t] = "waiting" /\ run[t] = "done"
  /\ pc' = [pc EXCEPT ![t] = "failed"]
  /\ UNCHANGED <<job, agentVars, clock>>

Succeed(t) ==
  /\ pc[t] = "registered"
  /\ pc' = [pc EXCEPT ![t] = "success"]
  /\ UNCHANGED <<job, agentVars, clock, faults>>

-------------------------------------------------------------------------------
(* oracleRMANBackup at the agent *)

\* The prefix is taken, and rman started.
StartRMAN(t) ==
  /\ run[t] = "sent"
  /\ run' = [run EXCEPT ![t] = "writing"]
  /\ second' = [second EXCEPT ![t] = clock]
  /\ UNCHANGED <<rowVars, made, manifest, clock, faults>>

WritePiece(t) ==
  /\ run[t] = "writing" /\ made[t] < Pieces
  /\ made' = [made EXCEPT ![t] = @ + 1]
  /\ UNCHANGED <<rowVars, run, second, manifest, clock, faults>>

\* Mutation: the prefix has no time in it.
SamePrefixAlways(t, u) == run[u] # "sent"

\* Backups of one instance with one second have one prefix.
SamePrefix(t, u) == second[u] = second[t]

\* rman has ended well: the files with the prefix are listed and hashed, also
\* those of another backup that started in that second.
ListPieces(t) ==
  /\ run[t] = "writing" /\ made[t] = Pieces
  /\ run' = [run EXCEPT ![t] = "done"]
  /\ manifest' = [manifest EXCEPT ![t] =
                    [u \in Tasks |-> IF SamePrefix(t, u) THEN made[u] ELSE 0]]
  /\ UNCHANGED <<rowVars, second, made, clock, faults>>

\* Something before rman fails, or rman, or its time is up: what it has
\* written stays.
RMANFails(t) ==
  /\ run[t] \in {"sent", "writing"}
  /\ run' = [run EXCEPT ![t] = "error"]
  /\ UNCHANGED <<rowVars, second, made, manifest, clock, faults>>

-------------------------------------------------------------------------------
(* Restarts *)

AgentRestart ==
  /\ Fault
  /\ run' = [t \in Tasks |-> IF run[t] \in {"sent", "writing"} THEN "dead" ELSE run[t]]
  /\ UNCHANGED <<rowVars, second, made, manifest, clock>>

ServerRestart ==
  /\ Fault
  /\ pc' = [t \in Tasks |-> IF pc[t] \in AtWork THEN "interrupted" ELSE pc[t]]
  /\ UNCHANGED <<job, agentVars, clock>>

-------------------------------------------------------------------------------

Service(t) ==
  CreateRMANBackupTask(t) \/ Begin(t) \/ Dispatch(t) \/ BackupFails(t) \/ Register(t) \/ Succeed(t)

Agent(t) == StartRMAN(t) \/ WritePiece(t) \/ ListPieces(t) \/ RMANFails(t)

Next ==
  \/ \E t \in Tasks : Service(t) \/ Agent(t)
  \/ \E t \in Tasks : BeginFails(t) \/ DispatchIsLost(t) \/ RegisterFails(t)
  \/ AgentRestart
  \/ ServerRestart
  \/ Tick

Spec == Init /\ [][Next]_vars

-------------------------------------------------------------------------------
(* Properties *)

\* The variables keep to their types: a job has a status that views know.
TypeOK ==
  /\ pc \in [Tasks -> Open \cup {"none", "success", "failed"}]
  /\ job \in [Tasks -> {"none", "pending", "running", "success", "failed"}]
  /\ run \in [Tasks -> {"none", "sent", "writing", "done", "error", "dead"}]
  /\ second \in [Tasks -> 0..MaxClock]
  /\ made \in [Tasks -> 0..Pieces]
  /\ manifest \in [Tasks -> [Tasks -> 0..Pieces]]
  /\ clock \in 0..MaxClock
  /\ faults \in Nat

\* A registered backup lists every piece of its own; a piece of another is in
\* its size and checksum only if the two started in one second, the retry of a
\* backup that failed at once included.
BackupIsThere ==
  \A t \in Tasks : job[t] = "success" =>
    /\ manifest[t][t] = Pieces
    /\ \A u \in Tasks \ {t} : manifest[t][u] > 0 => second[u] = second[t]
===============================================================================
