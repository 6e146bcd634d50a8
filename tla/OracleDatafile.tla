---------------------------- MODULE OracleDatafile ----------------------------
(***************************************************************************)
(* Adding and growing datafiles of an Oracle instance: the handlers of     *)
(* oracle.datafile.add and oracle.datafile.resize tasks and the agent,     *)
(* which reads the size of a file, compares, alters, and reads again in    *)
(* sessions of their own.                                                  *)
(*                                                                         *)
(* <<k, f, n>> is the n-th task of kind k, add or resize, for file f.      *)
(***************************************************************************)
EXTENDS Integers

CONSTANTS
  Tasks,     \* the tasks <<k, f, n>> there may be
  MaxSize,   \* bound on the size of a file, in units of a request
  MaxFaults  \* bound on lost dispatches, restarts and failed requests

Files == {t[2] : t \in Tasks}
Sizes == 1..MaxSize

VARIABLES
  pc,      \* each task, and how far its handler has come
  target,  \* the size its request asks for
  run,     \* its request at the agent
  size,    \* dba_data_files.bytes of each file; 0: no such file
  used,    \* what of it has data: Oracle shrinks no file below
  lost,    \* history: tasks whose dispatch was given up
  outgrown,\* history: requests whose file has extended since their check
  faults   \* faults so far, up to MaxFaults

taskVars == <<pc, target>>
oracleVars == <<size, used>>
history == <<lost, outgrown>>
vars == <<taskVars, run, oracleVars, history, faults>>

Open == {"queued", "waiting", "interrupted"}  \* the index on keys counts it

\* tasks.idempotency_key is oracle.datafile.<kind>:<instance>:<path>: a file
\* may be added and resized at once.
KeyFree(t) == \A u \in Tasks : u[1] = t[1] /\ u[2] = t[2] => pc[u] \notin Open

Init ==
  /\ pc = [t \in Tasks |-> "none"]
  /\ target = [t \in Tasks |-> 0]
  /\ run = [t \in Tasks |-> "none"]
  /\ size \in [Files -> 0..1]
  /\ used = [f \in Files |-> 0]
  /\ lost = {}
  /\ outgrown = {}
  /\ faults = 0

Fault == faults < MaxFaults /\ faults' = faults + 1

-------------------------------------------------------------------------------
(* The service *)

Create(t, s) ==
  /\ pc[t] = "none" /\ KeyFree(t)
  /\ pc' = [pc EXCEPT ![t] = "queued"]
  /\ target' = [target EXCEPT ![t] = s]
  /\ UNCHANGED <<run, oracleVars, history, faults>>

CreateAddTask(t, s) == t[1] = "add" /\ Create(t, s)

CreateResizeTask(t, s) == t[1] = "resize" /\ Create(t, s)

\* A worker claims the task; loadRuntime passes and the request is sent.
Handle(t) ==
  /\ pc[t] = "queued"
  /\ pc' = [pc EXCEPT ![t] = "waiting"]
  /\ run' = [run EXCEPT ![t] = "sent"]
  /\ UNCHANGED <<target, oracleVars, history, faults>>

AddHandler(t) == t[1] = "add" /\ Handle(t)

ResizeHandler(t) == t[1] = "resize" /\ Handle(t)

\* loadRuntime fails: the agent is offline, or the row is not as it should be.
LoadRuntimeFails(t) ==
  /\ Fault
  /\ pc[t] = "queued"
  /\ pc' = [pc EXCEPT ![t] = "failed"]
  /\ UNCHANGED <<target, run, oracleVars, history>>

\* runMutation has its answer, which is verified or an error.
RunMutation(t) ==
  /\ pc[t] = "waiting" /\ run[t] \in {"done", "error", "dead"}
  /\ pc' = [pc EXCEPT ![t] = IF run[t] = "done" THEN "success" ELSE "failed"]
  /\ UNCHANGED <<target, run, oracleVars, history, faults>>

\* Dispatch gives up: the request has not arrived, or goes on unheard.
DispatchIsLost(t) ==
  /\ Fault
  /\ pc[t] = "waiting"
  /\ pc' = [pc EXCEPT ![t] = "failed"]
  /\ run' \in {run, IF run[t] = "sent" THEN [run EXCEPT ![t] = "none"] ELSE run}
  /\ lost' = lost \cup {t}
  /\ UNCHANGED <<target, oracleVars, outgrown>>

-------------------------------------------------------------------------------
(* The agent *)

\* The path is no datafile yet, and the filesystem has the space.
CheckAdd(t) ==
  /\ t[1] = "add" /\ run[t] = "sent"
  /\ run' = [run EXCEPT ![t] = IF size[t[2]] = 0 THEN "checked" ELSE "error"]
  /\ UNCHANGED <<taskVars, oracleVars, history, faults>>

\* ALTER TABLESPACE ADD DATAFILE, which refuses a file there is.
AddDatafile(t) ==
  /\ t[1] = "add" /\ run[t] = "checked"
  /\ IF size[t[2]] = 0
     THEN size' = [size EXCEPT ![t[2]] = target[t]] /\ run' = [run EXCEPT ![t] = "altered"]
     ELSE UNCHANGED size /\ run' = [run EXCEPT ![t] = "error"]
  /\ UNCHANGED <<taskVars, used, history, faults>>

\* Mutation: any size of an existing file.
GrowsAny(t) == size[t[2]] > 0

\* A datafile, and smaller than the target.
Grows(t) == size[t[2]] > 0 /\ target[t] > size[t[2]]

\* The size is read and compared, and so is the filesystem's space.
CheckResize(t) ==
  /\ t[1] = "resize" /\ run[t] = "sent"
  /\ run' = [run EXCEPT ![t] = IF Grows(t) THEN "checked" ELSE "error"]
  /\ UNCHANGED <<taskVars, oracleVars, history, faults>>

\* ALTER DATABASE DATAFILE RESIZE, whatever the size is by now; Oracle refuses
\* only to cut off data.
Resize(t) ==
  /\ t[1] = "resize" /\ run[t] = "checked"
  /\ IF target[t] >= used[t[2]]
     THEN size' = [size EXCEPT ![t[2]] = target[t]] /\ run' = [run EXCEPT ![t] = "altered"]
     ELSE UNCHANGED size /\ run' = [run EXCEPT ![t] = "error"]
  /\ UNCHANGED <<taskVars, used, history, faults>>

\* The size is read again: not less than the target.
Verify(t) ==
  /\ run[t] = "altered"
  /\ run' = [run EXCEPT ![t] = IF size[t[2]] >= target[t] THEN "done" ELSE "error"]
  /\ UNCHANGED <<taskVars, oracleVars, history, faults>>

\* A check or a statement fails, has its effect or not, or its time is up.
RequestFails(t) ==
  /\ run[t] \in {"sent", "checked", "altered"}
  /\ run' = [run EXCEPT ![t] = "error"]
  /\ UNCHANGED <<taskVars, oracleVars, history, faults>>

-------------------------------------------------------------------------------
(* Oracle *)

\* Data needs an extent: a full file grows by itself, by its NEXT or by less.
Extend(f) ==
  /\ size[f] > 0 /\ used[f] < MaxSize
  /\ used' = [used EXCEPT ![f] = @ + 1]
  /\ IF used[f] < size[f]
     THEN UNCHANGED <<size, outgrown>>
     ELSE /\ size' \in {[size EXCEPT ![f] = s] : s \in used[f] + 1 .. MaxSize}
          /\ outgrown' = outgrown \cup {t \in Tasks : t[2] = f /\ run[t] = "checked"}
  /\ UNCHANGED <<taskVars, run, lost, faults>>

-------------------------------------------------------------------------------
(* Restarts *)

AgentRestart ==
  /\ Fault
  /\ run' = [t \in Tasks |-> IF run[t] \in {"sent", "checked", "altered"} THEN "dead" ELSE run[t]]
  /\ UNCHANGED <<taskVars, oracleVars, history>>

ServerRestart ==
  /\ Fault
  /\ pc' = [t \in Tasks |-> IF pc[t] = "waiting" THEN "interrupted" ELSE pc[t]]
  /\ lost' = lost \cup {t \in Tasks : pc[t] = "waiting"}
  /\ UNCHANGED <<target, run, oracleVars, outgrown>>

-------------------------------------------------------------------------------

Service(t) ==
  \/ \E s \in Sizes : CreateAddTask(t, s) \/ CreateResizeTask(t, s)
  \/ AddHandler(t) \/ ResizeHandler(t) \/ RunMutation(t)

Agent(t) ==
  CheckAdd(t) \/ AddDatafile(t) \/ CheckResize(t) \/ Resize(t) \/ Verify(t) \/ RequestFails(t)

Next ==
  \/ \E t \in Tasks : Service(t) \/ Agent(t)
  \/ \E t \in Tasks : LoadRuntimeFails(t) \/ DispatchIsLost(t)
  \/ \E f \in Files : Extend(f)
  \/ AgentRestart
  \/ ServerRestart

Spec == Init /\ [][Next]_vars

-------------------------------------------------------------------------------
(* Properties *)

\* The variables keep to their types.
TypeOK ==
  /\ pc \in [Tasks -> Open \cup {"none", "success", "failed"}]
  /\ target \in [Tasks -> {0} \cup Sizes]
  /\ run \in [Tasks -> {"none", "sent", "checked", "altered", "done", "error", "dead"}]
  /\ size \in [Files -> 0..MaxSize]
  /\ used \in [Files -> 0..MaxSize]
  /\ \A f \in Files : used[f] <= size[f]
  /\ lost \subseteq Tasks
  /\ outgrown \subseteq Tasks
  /\ faults \in Nat

\* The size a resize has checked may have been overtaken.
Overtaken(f) == \E t \in Tasks : t[2] = f /\ (t \in lost \/ (t \in outgrown /\ run[t] = "checked"))

\* Datafiles only grow.  The check and the statement of a resize are apart, and
\* only two things come between: an execution whose dispatch was given up, so
\* that the key let a second task for the file in, and the file's own growth.
GrowsOnlyStep == \A f \in Files : size'[f] >= size[f] \/ Overtaken(f)
===============================================================================
