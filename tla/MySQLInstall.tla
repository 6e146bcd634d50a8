----------------------------- MODULE MySQLInstall -----------------------------
(***************************************************************************)
(* Installations of MySQL: the tasks of mysql.install with the rows they   *)
(* write (mysql_server_ids, database_instances, the credential), and what  *)
(* their executions leave on the hosts.                                    *)
(*                                                                         *)
(* A target is a host and a port; <<t, n>> is the n-th task for t.  What   *)
(* validateRequest derives from the port by default (configuration, unit,  *)
(* run directory) belongs to the target; home, the base and the data       *)
(* directory, is the request's own choice.  The service mode is systemd.   *)
(* A step of the agent that fails or refuses ends the execution and undoes *)
(* nothing; it may fail after its work is done, too.  Slots of the agent   *)
(* and claims of the engine (ActionDispatch, TaskEngine) in any order.     *)
(***************************************************************************)
EXTENDS Integers, FiniteSets

CONSTANTS
  Hosts, Ports,
  Homes,        \* base and data directories a request may name
  MaxTries,     \* bound on the tasks for one target
  MaxTasks,     \* bound on all tasks
  MaxFaults,    \* bound on lost dispatches, restarts, failed statements and imports
  MaxId,        \* the largest server id, 4294967295 in the code
  None,         \* no directory, configuration, process or row
  Blank,        \* the empty root password of a new data directory
  Imported      \* a row of another kind of database on the host and port

ASSUME InstallAssumption ==
  /\ {MaxTries, MaxId} \subseteq Nat \ {0}
  /\ {MaxTasks, MaxFaults} \subseteq Nat

Targets == Hosts \X Ports
Tasks == Targets \X (1..MaxTries)
Disks == Hosts \X Homes
Configs == [home : Homes, id : 1..MaxId]

\* A row, a directory or a process that is not there is no value of its kind.
ASSUME ValuesDiffer ==
  /\ None # Blank /\ None # Imported
  /\ {None, Blank, Imported} \cap (Tasks \cup Configs) = {}
  /\ None \notin Homes

VARIABLES
  pc,        \* each task, and how far its handler has come
  home,      \* the directories its request names
  sid,       \* the server id in its handler's copy of the reservation
  ids,       \* mysql_server_ids: id and status of each target
  instance,  \* database_instances: the task that registered each target
  run,       \* each task's execution at the agent
  base,      \* hosts' base directories that are not empty
  data,      \* data directories: None, Blank, or the task whose password holds
  config,    \* each target's configuration file
  unit,      \* targets with a systemd unit
  up,        \* the configuration the target's mysqld was started with
  faults     \* faults and imports so far, up to MaxFaults

taskVars == <<pc, home, sid>>
rowVars == <<ids, instance>>
hostVars == <<base, data, config, unit, up>>
vars == <<taskVars, rowVars, run, hostVars, faults>>

Working == {"reserved", "sent", "registered", "bound"}   \* a handler is at work
Open == Working \cup {"queued", "interrupted"}            \* the index on keys counts it
Steps == {"sent", "checked", "empty", "extracted", "rendered", "initialized", "unit", "started"}

TasksOf(t) == {k \in Tasks : k[1] = t}
Disk(k) == <<k[1][1], home[k]>>                  \* the directories of a task
Served(t) == <<t[1], up[t].home>>                \* the directory mysqld runs on
Configured(t) == <<t[1], config[t].home>>        \* the one its file names
Fault == faults < MaxFaults /\ faults' = faults + 1

Init ==
  /\ pc = [k \in Tasks |-> "none"]
  /\ home = [k \in Tasks |-> None]
  /\ sid = [k \in Tasks |-> 0]
  /\ ids = [t \in Targets |-> [id |-> 0, status |-> "none"]]
  /\ instance = [t \in Targets |-> None]
  /\ run = [k \in Tasks |-> "none"]
  /\ base = {}
  /\ data = [d \in Disks |-> None]
  /\ config = [t \in Targets |-> None]
  /\ unit = {}
  /\ up = [t \in Targets |-> None]
  /\ faults = 0

-------------------------------------------------------------------------------
(* mysql_server_ids *)

\* MAX(server_id) + 1, over an empty table the first id.
IsNext(i) ==
  /\ \A t \in Targets : ids[t].id < i
  /\ i = 1 \/ \E t \in Targets : ids[t].id = i - 1

\* Mutation: an id beyond the width of server_id.
ReserveAny(t) ==
  \E i \in 1..(MaxId + 1) :
    /\ ids[t].status = "none" /\ IsNext(i)
    /\ ids' = [ids EXCEPT ![t] = [id |-> i, status |-> "reserved"]]

\* Mutation: a failed reservation is not handed out again.
ReserveAnew(t) ==
  \/ ids[t].status \in {"reserved", "bound"} /\ UNCHANGED ids
  \/ /\ ids[t].status \in {"none", "failed"}
     /\ \E i \in 1..MaxId :
          IsNext(i) /\ ids' = [ids EXCEPT ![t] = [id |-> i, status |-> "reserved"]]

\* The row of the host and port, whatever its status is, or a new one.
Reserve(t) ==
  \/ ids[t].status # "none" /\ UNCHANGED ids
  \/ /\ ids[t].status = "none"
     /\ \E i \in 1..MaxId :
          IsNext(i) /\ ids' = [ids EXCEPT ![t] = [id |-> i, status |-> "reserved"]]

\* Mutation: whatever the status is.
MarkAnyFailed(t) == ids' = [ids EXCEPT ![t].status = "failed"]

\* Its error is discarded; nothing tells "reserved" from "failed".
MarkFailed(t) ==
  ids' = [ids EXCEPT ![t].status = IF @ = "reserved" THEN "failed" ELSE @]

BindInstance(t) == ids' = [ids EXCEPT ![t].status = "bound"]

-------------------------------------------------------------------------------
(* CreateTask and Handler *)

KeyFree(t) == \A k \in TasksOf(t) : pc[k] \notin Open

CreateTask(k, h) ==
  /\ pc[k] = "none"
  /\ \A m \in 1..(k[2] - 1) : pc[<<k[1], m>>] # "none"
  /\ KeyFree(k[1])
  /\ Cardinality({j \in Tasks : pc[j] # "none"}) < MaxTasks
  /\ pc' = [pc EXCEPT ![k] = "queued"]
  /\ home' = [home EXCEPT ![k] = h]
  /\ UNCHANGED <<sid, rowVars, run, hostVars, faults>>

Goto(k, from, to) == pc[k] = from /\ pc' = [pc EXCEPT ![k] = to]

\* A worker has claimed the task.
Begin(k) ==
  /\ Goto(k, "queued", "reserved")
  /\ Reserve(k[1])
  /\ sid' = [sid EXCEPT ![k] = ids'[k[1]].id]
  /\ UNCHANGED <<home, instance, run, hostVars, faults>>

\* The pool is exhausted.
ReserveIsRefused(k) ==
  /\ Goto(k, "queued", "failed")
  /\ ids[k[1]].status = "none"
  /\ \E t \in Targets : ids[t].id = MaxId
  /\ UNCHANGED <<home, sid, rowVars, run, hostVars, faults>>

\* The password, its encryption or the credential's row fails.
CredentialFails(k) ==
  /\ Fault
  /\ Goto(k, "reserved", "failed")
  /\ MarkFailed(k[1])
  /\ UNCHANGED <<home, sid, instance, run, hostVars>>

\* The credential is stored; its password goes out with the request.
Dispatch(k) ==
  /\ Goto(k, "reserved", "sent")
  /\ run' = [run EXCEPT ![k] = "sent"]
  /\ UNCHANGED <<home, sid, rowVars, hostVars, faults>>

\* Dispatch returns the error of an execution that has ended.
InstallFails(k) ==
  /\ run[k] \in {"error", "dead"}
  /\ Goto(k, "sent", "failed")
  /\ MarkFailed(k[1])
  /\ UNCHANGED <<home, sid, instance, run, hostVars, faults>>

\* The connection breaks or the timer fires, and the execution goes on.
DispatchIsLost(k) ==
  /\ Fault
  /\ Goto(k, "sent", "lost")
  /\ MarkFailed(k[1])
  /\ UNCHANGED <<home, sid, instance, run, hostVars>>

\* CreateInstalled, under UNIQUE(host_id, port).
Register(k) ==
  /\ run[k] = "done"
  /\ instance[k[1]] = None
  /\ Goto(k, "sent", "registered")
  /\ instance' = [instance EXCEPT ![k[1]] = k]
  /\ UNCHANGED <<home, sid, ids, run, hostVars, faults>>

RegisterIsRefused(k) ==
  /\ run[k] = "done"
  /\ instance[k[1]] # None
  /\ Goto(k, "sent", "failed")
  /\ MarkFailed(k[1])
  /\ UNCHANGED <<home, sid, instance, run, hostVars, faults>>

\* The statement fails, or the one that reads the inserted row back.
RegisterIsCut(k) ==
  /\ Fault
  /\ run[k] = "done"
  /\ instance[k[1]] = None
  /\ Goto(k, "sent", "failed")
  /\ \E row \in {None, k} : instance' = [instance EXCEPT ![k[1]] = row]
  /\ MarkFailed(k[1])
  /\ UNCHANGED <<home, sid, run, hostVars>>

Bind(k) ==
  /\ Goto(k, "registered", "bound")
  /\ BindInstance(k[1])
  /\ UNCHANGED <<home, sid, instance, run, hostVars, faults>>

BindFails(k) ==
  /\ Fault
  /\ Goto(k, "registered", "failed")
  /\ UNCHANGED <<home, sid, rowVars, run, hostVars>>

\* The final verification reads the row.
Succeed(k) ==
  /\ Goto(k, "bound", "success")
  /\ UNCHANGED <<home, sid, rowVars, run, hostVars, faults>>

\* It fails, or finds the instance stopped already.
VerifyFails(k) ==
  /\ Fault
  /\ Goto(k, "bound", "failed")
  /\ UNCHANGED <<home, sid, rowVars, run, hostVars>>

-------------------------------------------------------------------------------
(* mysqlInstall, at the agent *)

Step(k, from, to) ==
  /\ run[k] = from
  /\ \E end \in {to, "error"} : run' = [run EXCEPT ![k] = end]

\* Mutation: the unit's name is not looked up.
CheckHostOnly(k) ==
  /\ Step(k, "sent", "checked")
  /\ up[k[1]] = None
  /\ data[Disk(k)] = None
  /\ UNCHANGED <<taskVars, rowVars, hostVars, faults>>

\* CHECK_AGENT to ALLOCATE_SERVER_ID: nobody listens on the port, the data
\* directory is no database, and no unit has the name.
CheckHost(k) ==
  /\ Step(k, "sent", "checked")
  /\ up[k[1]] = None
  /\ data[Disk(k)] = None
  /\ k[1] \notin unit
  /\ UNCHANGED <<taskVars, rowVars, hostVars, faults>>

\* DOWNLOAD_PACKAGE to ensureEmptyOrAbsentBaseDir.
FindBaseEmpty(k) ==
  /\ Step(k, "checked", "empty")
  /\ Disk(k) \notin base
  /\ UNCHANGED <<taskVars, rowVars, hostVars, faults>>

\* The rest of INSTALL_PACKAGE.
Extract(k) ==
  /\ Step(k, "empty", "extracted")
  /\ base' = base \cup {Disk(k)}
  /\ UNCHANGED <<taskVars, rowVars, data, config, unit, up, faults>>

\* RENDER_CONFIG writes the text the server has rendered.
RenderConfig(k) ==
  /\ Step(k, "extracted", "rendered")
  /\ config' = [config EXCEPT ![k[1]] = [home |-> home[k], id |-> sid[k]]]
  /\ UNCHANGED <<taskVars, rowVars, base, data, unit, up, faults>>

\* VALIDATE_CONFIG and INITIALIZE_DATABASE: mysqld refuses a directory in use.
InitializeDatabase(k) ==
  /\ Step(k, "rendered", "initialized")
  /\ data[Configured(k[1])] = None
  /\ data' = [data EXCEPT ![Configured(k[1])] = Blank]
  /\ UNCHANGED <<taskVars, rowVars, base, config, unit, up, faults>>

InstallSystemd(k) ==
  /\ Step(k, "initialized", "unit")
  /\ unit' = unit \cup {k[1]}
  /\ UNCHANGED <<taskVars, rowVars, base, data, config, up, faults>>

\* systemctl: the unit's mysqld comes up unless it runs already, its directory
\* is no database, or another mysqld has it locked.
Launch(t) ==
  LET locked == \E u \in Targets \ {t} :
                  u[1] = t[1] /\ up[u] # None /\ up[u].home = config[t].home
      starts == up[t] = None /\ data[Configured(t)] # None /\ ~locked
  IN  up' = [up EXCEPT ![t] = IF starts THEN config[t] ELSE @]

\* START_DATABASE: systemctl reports success in either case.
StartDatabase(k) ==
  /\ Step(k, "unit", "started")
  /\ Launch(k[1])
  /\ UNCHANGED <<taskVars, rowVars, base, data, config, unit, faults>>

\* VERIFY_DATABASE and INITIALIZE_ACCOUNTS, as root without a password by the
\* socket of the run directory.
InitializeAccounts(k) ==
  /\ Step(k, "started", "done")
  /\ up[k[1]] # None
  /\ data[Served(k[1])] = Blank
  /\ data' = [data EXCEPT ![Served(k[1])] = k]
  /\ UNCHANGED <<taskVars, rowVars, base, config, unit, up, faults>>

\* A step fails, or does not find what it needs.
StepFails(k) ==
  /\ run[k] \in Steps
  /\ run' = [run EXCEPT ![k] = "error"]
  /\ UNCHANGED <<taskVars, rowVars, hostVars, faults>>

-------------------------------------------------------------------------------
(* Surroundings *)

\* mysql.stop and mysql.start of a registered instance.
StopService(t) ==
  /\ instance[t] \notin {None, Imported}
  /\ up' = [up EXCEPT ![t] = None]
  /\ UNCHANGED <<taskVars, rowVars, run, base, data, config, unit, faults>>

StartService(t) ==
  /\ instance[t] \notin {None, Imported}
  /\ Launch(t)
  /\ UNCHANGED <<taskVars, rowVars, run, base, data, config, unit, faults>>

\* A PostgreSQL, Oracle or Doris instance is registered.
Import(t) ==
  /\ Fault
  /\ instance[t] = None
  /\ instance' = [instance EXCEPT ![t] = Imported]
  /\ UNCHANGED <<taskVars, ids, run, hostVars>>

ServerRestart ==
  /\ Fault
  /\ pc' = [k \in Tasks |-> IF pc[k] \in Working THEN "interrupted" ELSE pc[k]]
  /\ UNCHANGED <<home, sid, rowVars, run, hostVars>>

\* mysqld belongs to systemd and survives.
AgentRestart(h) ==
  /\ Fault
  /\ run' = [k \in Tasks |-> IF k[1][1] = h /\ run[k] \in Steps THEN "dead" ELSE run[k]]
  /\ UNCHANGED <<taskVars, rowVars, hostVars>>

Handler(k) ==
  \/ Begin(k) \/ ReserveIsRefused(k) \/ CredentialFails(k) \/ Dispatch(k)
  \/ InstallFails(k) \/ DispatchIsLost(k)
  \/ Register(k) \/ RegisterIsRefused(k) \/ RegisterIsCut(k)
  \/ Bind(k) \/ BindFails(k) \/ Succeed(k) \/ VerifyFails(k)

Execution(k) ==
  \/ CheckHost(k) \/ FindBaseEmpty(k) \/ Extract(k) \/ RenderConfig(k)
  \/ InitializeDatabase(k) \/ InstallSystemd(k) \/ StartDatabase(k)
  \/ InitializeAccounts(k) \/ StepFails(k)

Next ==
  \/ \E k \in Tasks : Handler(k) \/ Execution(k) \/ \E h \in Homes : CreateTask(k, h)
  \/ \E t \in Targets : StopService(t) \/ StartService(t) \/ Import(t)
  \/ ServerRestart
  \/ \E h \in Hosts : AgentRestart(h)

Spec == Init /\ [][Next]_vars

-------------------------------------------------------------------------------
(* Properties *)

\* Every variable has its type.
TypeOK ==
  /\ pc \in [Tasks -> Open \cup {"none", "lost", "failed", "success"}]
  /\ home \in [Tasks -> Homes \cup {None}]
  /\ sid \in [Tasks -> 0..MaxId]
  /\ ids \in [Targets -> [id : 0..MaxId, status : {"none", "reserved", "failed", "bound"}]]
  /\ instance \in [Targets -> Tasks \cup {None, Imported}]
  /\ run \in [Tasks -> Steps \cup {"none", "done", "error", "dead"}]
  /\ base \subseteq Disks
  /\ data \in [Disks -> Tasks \cup {None, Blank}]
  /\ config \in [Targets -> Configs \cup {None}]
  /\ unit \subseteq Targets
  /\ up \in [Targets -> Configs \cup {None}]
  /\ faults \in 0..MaxFaults

\* A mysqld runs with the id that the table has for its host and port, through
\* all failed, lost and repeated installations, and no two run with one id.
ServerIdsAgree ==
  /\ \A t \in Targets : up[t] # None => up[t].id = ids[t].id
  /\ \A t, u \in Targets : t # u /\ up[t] # None /\ up[u] # None => up[t].id # up[u].id

\* No dispatch for the target was given up with its execution under way.
Undisturbed(t) == \A k \in TasksOf(t) : pc[k] # "lost"

\* An instance is registered with the directories its configuration names, and
\* when it is up, the credential of its row is root's password: no other
\* installation, stop or restart changes that behind the row.
RegistrationIsTrue ==
  \A t \in Targets :
    instance[t] \notin {None, Imported} /\ Undisturbed(t) =>
      /\ config[t].home = home[instance[t]]
      /\ up[t] # None => data[Served(t)] = instance[t]

\* The table of server ids is the pool: an id is given once, never to two, and
\* a bound one stays bound whatever a later installation does.
Pool == INSTANCE ServerIdPool WITH
  id <- [t \in Targets |-> ids[t].id],
  bound <- {t \in Targets : ids[t].status = "bound"}

ImplementsPool == Pool!Spec
===============================================================================
