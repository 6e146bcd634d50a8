---------------------------- MODULE InstanceService ----------------------------
(***************************************************************************)
(* Start, stop and restart of one managed MySQL instance: the handler of   *)
(* mysql.service tasks, which writes the instance's status after its       *)
(* dispatch, and systemctl on the host.  The actions have keys of their    *)
(* own, so that one of each may be executed at once.                       *)
(*                                                                         *)
(* <<a, n>> is the n-th task with action a: start, stop or restart, in the *)
(* service mode systemd.                                                   *)
(***************************************************************************)
EXTENDS Integers

CONSTANTS
  Tasks,     \* the tasks <<a, n>> there may be
  MaxFaults  \* bound on lost dispatches, crashes, restarts, failed statements

Nobody == <<>>
Itself == <<"mysqld">>

VARIABLES
  pc,      \* each task, and how far its handler has come
  run,     \* its request at the agent
  up,      \* mysqld accepts connections
  status,  \* database_instances.status
  last,    \* history: what last changed mysqld: a task, Itself or Nobody
  wrote,   \* history: the task that last wrote the status
  faults   \* faults so far, up to MaxFaults

hostVars == <<run, up, last>>
rowVars == <<status, wrote>>
vars == <<pc, hostVars, rowVars, faults>>

AtWork == {"waiting", "answered"}              \* a handler is at work
Open == AtWork \cup {"queued", "interrupted"}  \* the index on keys counts it

\* tasks.idempotency_key is <action>:<instance>.
KeyFree(a) == \A t \in Tasks : t[1] = a => pc[t] \notin Open

\* What the action is for.
Wanted(t) == t[1] # "stop"

Init ==
  /\ pc = [t \in Tasks |-> "none"]
  /\ run = [t \in Tasks |-> "none"]
  /\ up = TRUE
  /\ status = "online"
  /\ last = Nobody
  /\ wrote = Nobody
  /\ faults = 0

Fault == faults < MaxFaults /\ faults' = faults + 1

-------------------------------------------------------------------------------
(* The service *)

CreateTask(t) ==
  /\ pc[t] = "none" /\ KeyFree(t[1])
  /\ pc' = [pc EXCEPT ![t] = "queued"]
  /\ UNCHANGED <<hostVars, rowVars, faults>>

\* A worker claims the task; the checks pass, and Dispatch sends the request.
Dispatch(t) ==
  /\ pc[t] = "queued"
  /\ pc' = [pc EXCEPT ![t] = "waiting"]
  /\ run' = [run EXCEPT ![t] = "sent"]
  /\ UNCHANGED <<up, last, rowVars, faults>>

\* The row's metadata is incomplete, or the agent's connection is gone.
DispatchFails(t) ==
  /\ Fault
  /\ pc[t] = "queued"
  /\ pc' = [pc EXCEPT ![t] = "failed"]
  /\ UNCHANGED <<hostVars, rowVars>>

\* Dispatch gives up: the request has not arrived, or goes on unheard.
DispatchIsLost(t) ==
  /\ Fault
  /\ pc[t] = "waiting"
  /\ pc' = [pc EXCEPT ![t] = "failed"]
  /\ run' \in {run, IF run[t] = "sent" THEN [run EXCEPT ![t] = "none"] ELSE run}
  /\ UNCHANGED <<up, last, rowVars>>

\* Dispatch returns.
Answer(t) ==
  /\ pc[t] = "waiting" /\ run[t] \in {"done", "error", "dead"}
  /\ pc' = [pc EXCEPT ![t] = IF run[t] = "done" THEN "answered" ELSE "failed"]
  /\ UNCHANGED <<hostVars, rowVars, faults>>

\* UpdateStatus, whatever the row has by now; the engine ends the task.
UpdateStatus(t) ==
  /\ pc[t] = "answered"
  /\ pc' = [pc EXCEPT ![t] = "success"]
  /\ status' = IF Wanted(t) THEN "online" ELSE "offline"
  /\ wrote' = t
  /\ UNCHANGED <<hostVars, faults>>

UpdateStatusFails(t) ==
  /\ Fault
  /\ pc[t] = "answered"
  /\ pc' = [pc EXCEPT ![t] = "failed"]
  /\ UNCHANGED <<hostVars, rowVars>>

-------------------------------------------------------------------------------
(* mysqlServiceAction at the agent *)

\* systemctl ends well, which a mysqld that dies soon after does not change.
Execute(t) ==
  /\ run[t] = "sent"
  /\ run' = [run EXCEPT ![t] = "executed"]
  /\ up' \in {Wanted(t), FALSE}
  /\ last' = t
  /\ UNCHANGED <<pc, rowVars, faults>>

\* systemctl, or a check before it, fails: nothing has changed, or mysqld has
\* ended.
ExecuteFails(t) ==
  /\ run[t] = "sent"
  /\ run' = [run EXCEPT ![t] = "error"]
  /\ \/ UNCHANGED <<up, last>>
     \/ up' = FALSE /\ last' = t
  /\ UNCHANGED <<pc, rowVars, faults>>

\* Mutation: the exit of systemctl is enough.
VerifyNothing(t) ==
  /\ run[t] = "executed"
  /\ run' = [run EXCEPT ![t] = "done"]
  /\ UNCHANGED <<pc, up, last, rowVars, faults>>

\* waitTCP or waitPortClosed: the port is as wanted, or stays otherwise for
\* thirty seconds.
Verify(t) ==
  /\ run[t] = "executed"
  /\ run' = [run EXCEPT ![t] = IF up = Wanted(t) THEN "done" ELSE "error"]
  /\ UNCHANGED <<pc, up, last, rowVars, faults>>

-------------------------------------------------------------------------------
(* Crashes and restarts *)

\* mysqld ends by itself.
Crash ==
  /\ Fault
  /\ up
  /\ up' = FALSE
  /\ last' = Itself
  /\ UNCHANGED <<pc, run, rowVars>>

\* The agent ends; systemd goes on with what it was told.
AgentRestart ==
  /\ Fault
  /\ run' = [t \in Tasks |-> IF run[t] \in {"sent", "executed"} THEN "dead" ELSE run[t]]
  /\ UNCHANGED <<pc, up, last, rowVars>>

ServerRestart ==
  /\ Fault
  /\ pc' = [t \in Tasks |-> IF pc[t] \in AtWork THEN "interrupted" ELSE pc[t]]
  /\ UNCHANGED <<hostVars, rowVars>>

-------------------------------------------------------------------------------

Service(t) == CreateTask(t) \/ Dispatch(t) \/ Answer(t) \/ UpdateStatus(t)

Agent(t) == Execute(t) \/ ExecuteFails(t) \/ Verify(t)

Next ==
  \/ \E t \in Tasks : Service(t) \/ Agent(t)
  \/ \E t \in Tasks : DispatchFails(t) \/ DispatchIsLost(t) \/ UpdateStatusFails(t)
  \/ Crash
  \/ AgentRestart
  \/ ServerRestart

Spec == Init /\ [][Next]_vars

-------------------------------------------------------------------------------
(* Properties *)

\* The variables keep to their types.
TypeOK ==
  /\ pc \in [Tasks -> Open \cup {"none", "success", "failed"}]
  /\ run \in [Tasks -> {"none", "sent", "executed", "done", "error", "dead"}]
  /\ up \in BOOLEAN
  /\ status \in {"online", "offline"}
  /\ last \in Tasks \cup {Nobody, Itself}
  /\ wrote \in Tasks \cup {Nobody}
  /\ faults \in Nat

\* The status an instance is shown with is that of mysqld, as long as the task
\* that wrote it is the last to have changed mysqld: only another action at the
\* same time, one whose outcome was not recorded, or mysqld itself makes the two
\* differ.
StatusFollowsLast == last = wrote => (status = "online" <=> up)
===============================================================================
