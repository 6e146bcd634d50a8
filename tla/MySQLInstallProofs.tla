-------------------------- MODULE MySQLInstallProofs --------------------------
(***************************************************************************)
(* For every number of hosts, ports, directories and tasks and every bound,*)
(* from InstallAssumption and ValuesDiffer: the ids of MySQLInstall, its   *)
(* refinement of ServerIdPool, and what a registration says.               *)
(***************************************************************************)
EXTENDS MySQLInstall, TLAPS

-------------------------------------------------------------------------------
(* The inductive invariant: rows and ids *)

\* A task is submitted with its directories, and dispatched by a handler.
Requested ==
  \A k \in Tasks :
    /\ pc[k] # "none" => home[k] \in Homes
    /\ run[k] # "none" => pc[k] \notin {"none", "queued", "reserved"}

\* A handler that is past Reserve, or its execution, has the table's id.
Numbered ==
  \A k \in Tasks :
    pc[k] \in Working \/ run[k] # "none" => sid[k] = ids[k[1]].id /\ sid[k] # 0

\* A target has an id once it has a row, and no other target has it.
IdsAreApart ==
  /\ \A t \in Targets : ids[t].id = 0 <=> ids[t].status = "none"
  /\ \A t, u \in Targets : t # u /\ ids[t].id = ids[u].id => ids[t].id = 0

\* A configuration, and so the mysqld it starts, has the table's id.
ConfigsAgree ==
  \A t \in Targets :
    /\ config[t] # None => config[t].id = ids[t].id
    /\ up[t] # None => up[t].id = ids[t].id

RowInv == TypeOK /\ Requested /\ Numbered /\ IdsAreApart /\ ConfigsAgree

-------------------------------------------------------------------------------
(* The inductive invariant: executions *)

Past == Steps \ {"sent"}
Rendered == {"rendered", "initialized", "unit", "started"}

\* The key of a target is held by one task at most.
KeyIsHeld ==
  \A j, k \in Tasks : j[1] = k[1] /\ pc[j] \in Open /\ pc[k] \in Open => j = k

\* An execution is waited for, or its task keeps the key, or it was given up.
RunIsOpen == \A k \in Tasks : run[k] \in Steps => pc[k] \in {"sent", "interrupted", "lost"}

\* What has installed its unit finds it there.
UnitStays == \A k \in Tasks : run[k] \in {"unit", "started", "done"} => k[1] \in unit

\* Until the target is disturbed: a run that is past the check of the host is
\* alone with its configuration and server, and finds them as it left them;
RunIsAlone ==
  \A k \in Tasks : run[k] \in Past /\ Undisturbed(k[1]) =>
    /\ instance[k[1]] \in {None, Imported}
    /\ run[k] \in Rendered => config[k[1]].home = home[k]
    /\ up[k[1]] # None => run[k] = "started" /\ up[k[1]].home = home[k]

\* and so does one that has ended well, while it waits to be registered or is.
Holds(k) ==
  /\ run[k] = "done"
  /\ data[Disk(k)] = k
  /\ config[k[1]].home = home[k]
  /\ up[k[1]] # None => up[k[1]].home = home[k]

EndIsKept ==
  \A k \in Tasks :
    /\ run[k] = "done" /\ pc[k] = "sent" /\ Undisturbed(k[1]) => Holds(k)
    /\ instance[k[1]] = k => run[k] = "done"
    /\ instance[k[1]] = k /\ Undisturbed(k[1]) =>
         Holds(k) /\ \A j \in TasksOf(k[1]) : run[j] \notin Past

OwnRow == \A t \in Targets : instance[t] \in TasksOf(t) \cup {None, Imported}

RunInv == KeyIsHeld /\ RunIsOpen /\ UnitStays /\ RunIsAlone /\ EndIsKept /\ OwnRow

Inv == RowInv /\ RunInv

LEMMA Parts ==
  /\ \A k \in Tasks : k[1] \in Targets
  /\ \A t \in Targets, h \in Homes : t[1] \in Hosts /\ <<t[1], h>> \in Disks
BY DEF Tasks, Targets, Disks

LEMMA RowInit == Init => RowInv
<1> USE Parts, InstallAssumption, ValuesDiffer
<1> SUFFICES ASSUME Init PROVE RowInv
  OBVIOUS
<1>1. TypeOK
  BY DEF Init, TypeOK
<1>2. Requested /\ Numbered /\ IdsAreApart /\ ConfigsAgree
  BY DEF Init, Requested, Numbered, IdsAreApart, ConfigsAgree, Working
<1> QED
  BY <1>1, <1>2 DEF RowInv

\* The operations on mysql_server_ids keep ids apart and change none.
LEMMA ReserveInv ==
  ASSUME TypeOK, IdsAreApart, NEW t \in Targets, Reserve(t)
  PROVE  /\ ids' \in [Targets -> [id : 0..MaxId, status : {"none", "reserved", "failed", "bound"}]]
         /\ IdsAreApart'
         /\ \A u \in Targets : ids[u].id # 0 => ids'[u].id = ids[u].id
         /\ ids'[t].id # 0
<1> USE InstallAssumption
<1>1. CASE ids[t].status # "none" /\ UNCHANGED ids
  BY <1>1 DEF TypeOK, IdsAreApart
<1>2. ASSUME NEW i \in 1..MaxId, IsNext(i), ids[t].status = "none",
             ids' = [ids EXCEPT ![t] = [id |-> i, status |-> "reserved"]]
      PROVE  /\ ids' \in [Targets -> [id : 0..MaxId, status : {"none", "reserved", "failed", "bound"}]]
             /\ IdsAreApart'
             /\ \A u \in Targets : ids[u].id # 0 => ids'[u].id = ids[u].id
             /\ ids'[t].id # 0
  <2>1. \A u \in Targets : ids'[u] = IF u = t THEN [id |-> i, status |-> "reserved"] ELSE ids[u]
    BY <1>2 DEF TypeOK
  <2>2. \A u \in Targets : ids[u].id \in 0..MaxId /\ ids[u].id < i
    BY <1>2 DEF TypeOK, IsNext
  <2> QED
    BY <1>2, <2>1, <2>2 DEF TypeOK, IdsAreApart
<1> QED
  BY <1>1, <1>2 DEF Reserve

LEMMA MarkInv ==
  ASSUME TypeOK, IdsAreApart, NEW t \in Targets, MarkFailed(t) \/ (ids[t].id # 0 /\ BindInstance(t))
  PROVE  /\ ids' \in [Targets -> [id : 0..MaxId, status : {"none", "reserved", "failed", "bound"}]]
         /\ IdsAreApart'
         /\ \A u \in Targets : ids'[u].id = ids[u].id
<1>1. \A u \in Targets : ids'[u].id = ids[u].id /\ (ids'[u].status = "none" <=> ids[u].status = "none")
  BY DEF TypeOK, IdsAreApart, MarkFailed, BindInstance
<1>2. ids' \in [Targets -> [id : 0..MaxId, status : {"none", "reserved", "failed", "bound"}]]
  BY DEF TypeOK, MarkFailed, BindInstance
<1> QED
  BY <1>1, <1>2 DEF IdsAreApart

LEMMA RowHandler ==
  ASSUME RowInv, NEW k \in Tasks, Handler(k)
  PROVE  RowInv'
<1> USE Parts, InstallAssumption DEF taskVars, rowVars, hostVars, Goto, Fault
<1> k[1] \in Targets
  OBVIOUS
<1>0. TypeOK /\ Requested /\ Numbered /\ IdsAreApart /\ ConfigsAgree
  BY DEF RowInv
\* What does not touch the table of ids, and what marks or binds a row of it.
<1>1. ASSUME UNCHANGED <<home, sid, hostVars>>, \A t \in Targets : ids'[t].id = ids[t].id,
             \A j \in Tasks : pc'[j] # "none" => pc[j] # "none",
             \A j \in Tasks : run'[j] # "none" => pc'[j] \notin {"none", "queued", "reserved"},
             \A j \in Tasks : pc'[j] \in Working \/ run'[j] # "none" => pc[j] \in Working \/ run[j] # "none"
      PROVE  Requested' /\ Numbered' /\ ConfigsAgree'
  BY <1>0, <1>1 DEF Requested, Numbered, ConfigsAgree, TypeOK
<1>2. CASE Begin(k)
  <2>1. /\ ids' \in [Targets -> [id : 0..MaxId, status : {"none", "reserved", "failed", "bound"}]]
        /\ IdsAreApart'
        /\ \A u \in Targets : ids[u].id # 0 => ids'[u].id = ids[u].id
        /\ ids'[k[1]].id # 0
    BY <1>0, <1>2, ReserveInv DEF Begin
  <2>2. \A j \in Tasks : j # k => pc'[j] = pc[j] /\ sid'[j] = sid[j]
    BY <1>0, <1>2 DEF Begin, TypeOK
  <2>3. pc'[k] = "reserved" /\ sid'[k] = ids'[k[1]].id
    BY <1>0, <1>2 DEF Begin, TypeOK
  <2>4. TypeOK'
    BY <1>0, <1>2, <2>1 DEF Begin, TypeOK, Open, Working
  <2>5. Requested'
    BY <1>0, <1>2, <2>2, <2>3 DEF Begin, Requested
  <2>6. Numbered'
    BY <1>0, <1>2, <2>1, <2>2, <2>3 DEF Begin, Numbered
  <2>7. ConfigsAgree'
    <3>1. \A t \in Targets, c \in Configs : c.id # 0
      BY DEF Configs
    <3> QED
      BY <1>0, <1>2, <2>1, <3>1 DEF Begin, ConfigsAgree, TypeOK
  <2> QED
    BY <2>1, <2>4, <2>5, <2>6, <2>7 DEF RowInv
<1>3. CASE ReserveIsRefused(k) \/ Dispatch(k) \/ Register(k) \/ BindFails(k) \/ Succeed(k) \/ VerifyFails(k)
  <2>1. TypeOK'
    <3>1. pc' \in [Tasks -> Open \cup {"none", "lost", "failed", "success"}] /\ home' = home /\ sid' = sid
      BY <1>0, <1>3 DEF TypeOK, Open, Working, ReserveIsRefused, Dispatch, Register, BindFails, Succeed, VerifyFails
    <3>2. run' \in [Tasks -> Steps \cup {"none", "done", "error", "dead"}]
      BY <1>0, <1>3 DEF TypeOK, Steps, ReserveIsRefused, Dispatch, Register, BindFails, Succeed, VerifyFails
    <3>3. instance' \in [Targets -> Tasks \cup {None, Imported}]
      BY <1>0, <1>3 DEF TypeOK, ReserveIsRefused, Dispatch, Register, BindFails, Succeed, VerifyFails
    <3>4. faults' \in 0..MaxFaults
      BY <1>0, <1>3 DEF TypeOK, ReserveIsRefused, Dispatch, Register, BindFails, Succeed, VerifyFails
    <3>5. UNCHANGED hostVars /\ UNCHANGED ids
      BY <1>3 DEF ReserveIsRefused, Dispatch, Register, BindFails, Succeed, VerifyFails
    <3> QED
      BY <1>0, <3>1, <3>2, <3>3, <3>4, <3>5 DEF TypeOK
  <2>2. IdsAreApart'
    BY <1>0, <1>3 DEF IdsAreApart, ReserveIsRefused, Dispatch, Register, BindFails, Succeed, VerifyFails
  <2>3. Requested' /\ Numbered' /\ ConfigsAgree'
    BY <1>0, <1>1, <1>3 DEF Requested, TypeOK, Working, ReserveIsRefused, Dispatch, Register, BindFails, Succeed, VerifyFails
  <2> QED
    BY <2>1, <2>2, <2>3 DEF RowInv
<1>4. CASE \/ CredentialFails(k) \/ InstallFails(k) \/ DispatchIsLost(k)
           \/ RegisterIsRefused(k) \/ RegisterIsCut(k) \/ Bind(k)
  <2>1. MarkFailed(k[1]) \/ (ids[k[1]].id # 0 /\ BindInstance(k[1]))
    BY <1>0, <1>4 DEF Numbered, Working, CredentialFails, InstallFails, DispatchIsLost, RegisterIsRefused, RegisterIsCut, Bind
  <2>2. /\ ids' \in [Targets -> [id : 0..MaxId, status : {"none", "reserved", "failed", "bound"}]]
        /\ IdsAreApart'
        /\ \A u \in Targets : ids'[u].id = ids[u].id
    BY <1>0, <2>1, MarkInv
  <2>3. TypeOK'
    <3>1. pc' \in [Tasks -> Open \cup {"none", "lost", "failed", "success"}] /\ home' = home /\ sid' = sid
      BY <1>0, <1>4 DEF TypeOK, Open, Working, CredentialFails, InstallFails, DispatchIsLost, RegisterIsRefused, RegisterIsCut, Bind
    <3>2. run' \in [Tasks -> Steps \cup {"none", "done", "error", "dead"}]
      BY <1>0, <1>4 DEF TypeOK, Steps, CredentialFails, InstallFails, DispatchIsLost, RegisterIsRefused, RegisterIsCut, Bind
    <3>3. instance' \in [Targets -> Tasks \cup {None, Imported}]
      <4>1. UNCHANGED instance \/ \E row \in {None, k} : instance' = [instance EXCEPT ![k[1]] = row]
        BY <1>4 DEF CredentialFails, InstallFails, DispatchIsLost, RegisterIsRefused, RegisterIsCut, Bind
      <4> QED
        BY ONLY <1>0, <4>1, k \in Tasks, k[1] \in Targets DEF TypeOK
    <3>4. faults' \in 0..MaxFaults
      BY <1>0, <1>4 DEF TypeOK, CredentialFails, InstallFails, DispatchIsLost, RegisterIsRefused, RegisterIsCut, Bind
    <3>5. UNCHANGED hostVars
      BY <1>4 DEF CredentialFails, InstallFails, DispatchIsLost, RegisterIsRefused, RegisterIsCut, Bind
    <3> QED
      BY <1>0, <2>2, <3>1, <3>2, <3>3, <3>4, <3>5 DEF TypeOK
  <2>4. Requested' /\ Numbered' /\ ConfigsAgree'
    BY <1>0, <1>1, <1>4, <2>2 DEF Requested, TypeOK, Working, CredentialFails, InstallFails, DispatchIsLost, RegisterIsRefused, RegisterIsCut, Bind
  <2> QED
    BY <2>2, <2>3, <2>4 DEF RowInv
<1> QED
  BY <1>2, <1>3, <1>4 DEF Handler

LEMMA RowExecution ==
  ASSUME RowInv, NEW k \in Tasks, Execution(k)
  PROVE  RowInv'
<1> USE Parts, InstallAssumption DEF taskVars, rowVars, hostVars
<1> k[1] \in Targets
  OBVIOUS
<1>0. TypeOK /\ Requested /\ Numbered /\ IdsAreApart /\ ConfigsAgree
  BY DEF RowInv
<1>1. UNCHANGED <<taskVars, rowVars, faults>>
  BY DEF Execution, CheckHost, FindBaseEmpty, Extract, RenderConfig, InitializeDatabase,
         InstallSystemd, StartDatabase, InitializeAccounts, StepFails
<1>2. /\ run[k] # "none"
      /\ \E s \in Steps \cup {"done", "error"} : run' = [run EXCEPT ![k] = s]
  BY DEF Execution, CheckHost, FindBaseEmpty, Extract, RenderConfig, InitializeDatabase,
         InstallSystemd, StartDatabase, InitializeAccounts, StepFails, Step, Steps
<1>3. \A j \in Tasks : run'[j] # "none" <=> run[j] # "none"
  BY <1>0, <1>2 DEF TypeOK, Steps
<1>4. Requested' /\ Numbered' /\ IdsAreApart'
  BY <1>0, <1>1, <1>3 DEF Requested, Numbered, IdsAreApart
<1>5. /\ UNCHANGED config \/ RenderConfig(k)
      /\ UNCHANGED up \/ Launch(k[1])
      /\ UNCHANGED base \/ base' = base \cup {Disk(k)}
      /\ UNCHANGED unit \/ unit' = unit \cup {k[1]}
      /\ UNCHANGED data \/ \E d, v : v \in Tasks \cup {Blank} /\ data' = [data EXCEPT ![d] = v]
  BY DEF Execution, CheckHost, FindBaseEmpty, Extract, RenderConfig, InitializeDatabase,
         InstallSystemd, StartDatabase, InitializeAccounts, StepFails
<1>6. home[k] \in Homes /\ sid[k] = ids[k[1]].id /\ sid[k] \in 1..MaxId
  BY <1>0, <1>2 DEF Requested, Numbered, TypeOK
<1>7. [home |-> home[k], id |-> sid[k]] \in Configs
  BY <1>6 DEF Configs
<1>8. config' \in [Targets -> Configs \cup {None}]
  BY <1>0, <1>5, <1>7 DEF TypeOK, RenderConfig
<1>9. up' \in [Targets -> Configs \cup {None}]
  BY <1>0, <1>5 DEF TypeOK, Launch
<1>10. TypeOK'
  <2>1. run' \in [Tasks -> Steps \cup {"none", "done", "error", "dead"}]
    BY <1>0, <1>2 DEF TypeOK
  <2>2. base' \subseteq Disks /\ unit' \subseteq Targets
    BY <1>0, <1>5, <1>6 DEF TypeOK, Disk
  <2>3. data' \in [Disks -> Tasks \cup {None, Blank}]
    BY <1>0, <1>5 DEF TypeOK
  <2> QED
    BY <1>0, <1>1, <1>8, <1>9, <2>1, <2>2, <2>3 DEF TypeOK
<1>11. ConfigsAgree'
  <2>1. \A t \in Targets : config'[t] # None => config'[t].id = ids'[t].id
    BY <1>0, <1>1, <1>5, <1>6 DEF ConfigsAgree, RenderConfig, TypeOK
  <2>2. \A t \in Targets : up'[t] # None => up'[t].id = ids'[t].id
    BY <1>0, <1>1, <1>5 DEF ConfigsAgree, Launch, TypeOK
  <2> QED
    BY <2>1, <2>2 DEF ConfigsAgree
<1> QED
  BY <1>4, <1>10, <1>11 DEF RowInv

LEMMA RowStep == RowInv /\ [Next]_vars => RowInv'
<1> USE Parts, InstallAssumption DEF taskVars, rowVars, hostVars
<1> SUFFICES ASSUME RowInv, [Next]_vars PROVE RowInv'
  OBVIOUS
<1>0. TypeOK /\ Requested /\ Numbered /\ IdsAreApart /\ ConfigsAgree
  BY DEF RowInv
<1>1. ASSUME NEW k \in Tasks, NEW h \in Homes, CreateTask(k, h)
      PROVE  RowInv'
  <2>1. TypeOK'
    BY <1>0, <1>1 DEF CreateTask, TypeOK, Open
  <2>2. Requested'
    BY <1>0, <1>1 DEF CreateTask, Requested, TypeOK
  <2>3. Numbered' /\ IdsAreApart' /\ ConfigsAgree'
    BY <1>0, <1>1 DEF CreateTask, Numbered, IdsAreApart, ConfigsAgree, TypeOK, Working
  <2> QED
    BY <2>1, <2>2, <2>3 DEF RowInv
<1>2. ASSUME NEW t \in Targets, StopService(t) \/ StartService(t)
      PROVE  RowInv'
  <2>1. UNCHANGED <<taskVars, ids, instance, run, base, data, config, unit, faults>>
    BY <1>2 DEF StopService, StartService
  <2>2. up' = [up EXCEPT ![t] = None] \/ Launch(t)
    BY <1>2 DEF StopService, StartService
  <2>3. TypeOK'
    BY <1>0, <2>1, <2>2 DEF TypeOK, Launch
  <2>4. ConfigsAgree'
    BY <1>0, <2>1, <2>2 DEF TypeOK, Launch, ConfigsAgree
  <2>5. Requested' /\ Numbered' /\ IdsAreApart'
    BY <1>0, <2>1 DEF Requested, Numbered, IdsAreApart
  <2> QED
    BY <2>3, <2>4, <2>5 DEF RowInv
<1>3. ASSUME NEW t \in Targets, Import(t)
      PROVE  RowInv'
  BY <1>0, <1>3 DEF Import, RowInv, TypeOK, Fault, Requested, Numbered, IdsAreApart, ConfigsAgree
<1>4. CASE ServerRestart
  <2>1. TypeOK'
    BY <1>0, <1>4 DEF ServerRestart, TypeOK, Open, Fault
  <2>2. Requested' /\ Numbered' /\ IdsAreApart' /\ ConfigsAgree'
    BY <1>0, <1>4 DEF ServerRestart, TypeOK, Working, Requested, Numbered, IdsAreApart, ConfigsAgree
  <2> QED
    BY <2>1, <2>2 DEF RowInv
<1>5. ASSUME NEW h \in Hosts, AgentRestart(h)
      PROVE  RowInv'
  <2>1. TypeOK'
    BY <1>0, <1>5 DEF AgentRestart, TypeOK, Fault
  <2>2. Requested' /\ Numbered' /\ IdsAreApart' /\ ConfigsAgree'
    BY <1>0, <1>5 DEF AgentRestart, TypeOK, Steps, Requested, Numbered, IdsAreApart, ConfigsAgree
  <2> QED
    BY <2>1, <2>2 DEF RowInv
<1>6. CASE UNCHANGED vars
  BY <1>0, <1>6 DEF vars, RowInv, TypeOK, Requested, Numbered, IdsAreApart, ConfigsAgree
<1> QED
  BY <1>1, <1>2, <1>3, <1>4, <1>5, <1>6, RowHandler, RowExecution DEF Next
-------------------------------------------------------------------------------
(* Executions *)

LEMMA RunInit == Init => RunInv
BY Parts, ValuesDiffer
DEF Init, RunInv, KeyIsHeld, RunIsOpen, UnitStays, RunIsAlone, EndIsKept, OwnRow, Open, Working, Steps, Past

\* No row or directory is taken for another kind of value.
LEMMA Kinds ==
  /\ \A k \in Tasks : k \notin {None, Blank, Imported}
  /\ None # Blank /\ None # Imported
BY ValuesDiffer

\* In a target that was not disturbed, who executes has the key.
LEMMA ActiveIsOpen ==
  ASSUME RunIsOpen, NEW k \in Tasks, run[k] \in Steps, Undisturbed(k[1])
  PROVE  pc[k] \in Open
BY DEF RunIsOpen, Undisturbed, TasksOf, Open, Working

LEMMA RunHandler ==
  ASSUME RowInv, RunInv, NEW k \in Tasks, Handler(k)
  PROVE  RunInv'
<1> USE Parts, Kinds DEF taskVars, rowVars, hostVars, Goto
<1> k[1] \in Targets
  OBVIOUS
<1>0. TypeOK /\ KeyIsHeld /\ RunIsOpen /\ UnitStays /\ RunIsAlone /\ EndIsKept /\ OwnRow
  BY DEF RowInv, RunInv
<1>1. UNCHANGED <<home, hostVars>>
  BY DEF Handler, Begin, ReserveIsRefused, CredentialFails, Dispatch, InstallFails, DispatchIsLost,
         Register, RegisterIsRefused, RegisterIsCut, Bind, BindFails, Succeed, VerifyFails
<1>2. pc[k] \in Open /\ \E v : pc' = [pc EXCEPT ![k] = v]
  BY DEF Handler, Begin, ReserveIsRefused, CredentialFails, Dispatch, InstallFails, DispatchIsLost,
         Register, RegisterIsRefused, RegisterIsCut, Bind, BindFails, Succeed, VerifyFails, Open, Working
<1>3. \/ UNCHANGED run /\ pc'[k] # "sent"
      \/ pc[k] = "reserved" /\ run' = [run EXCEPT ![k] = "sent"] /\ pc'[k] = "sent"
  BY <1>0 DEF Handler, Begin, ReserveIsRefused, CredentialFails, Dispatch, InstallFails, DispatchIsLost,
         Register, RegisterIsRefused, RegisterIsCut, Bind, BindFails, Succeed, VerifyFails, TypeOK
<1>4. \A j \in Tasks : j # k => pc'[j] = pc[j]
  BY <1>0, <1>2 DEF TypeOK
<1>5. \A j \in Tasks : run'[j] = run[j] \/ (j = k /\ run'[j] = "sent")
  BY <1>0, <1>3 DEF TypeOK
<1>6. pc[k] # "lost"
  BY <1>2 DEF Open, Working
<1>7. \A t : Undisturbed(t)' => Undisturbed(t)
  BY <1>4, <1>6 DEF Undisturbed, TasksOf
<1>8. \/ UNCHANGED instance
      \/ /\ run[k] = "done" /\ pc[k] = "sent"
         /\ \E row \in {None, k} : instance' = [instance EXCEPT ![k[1]] = row]
         /\ instance[k[1]] = None
  BY DEF Handler, Begin, ReserveIsRefused, CredentialFails, Dispatch, InstallFails, DispatchIsLost,
         Register, RegisterIsRefused, RegisterIsCut, Bind, BindFails, Succeed, VerifyFails
\* Who holds the key is alone.
<1>9. ASSUME NEW j \in TasksOf(k[1]), run[j] \in Past, Undisturbed(k[1])
      PROVE  j = k
  BY <1>0, <1>2, <1>9, ActiveIsOpen DEF KeyIsHeld, TasksOf, Past
<1>10. KeyIsHeld'
  BY <1>0, <1>2, <1>4 DEF KeyIsHeld
<1>11. RunIsOpen'
  <2> SUFFICES ASSUME NEW j \in Tasks, run'[j] \in Steps PROVE pc'[j] \in {"sent", "interrupted", "lost"}
    BY DEF RunIsOpen
  <2>1. CASE j # k
    BY <1>0, <1>4, <1>5, <2>1 DEF RunIsOpen
  <2>2. CASE j = k /\ run'[k] = run[k]
    BY <1>0, <2>2 DEF Handler, Begin, ReserveIsRefused, CredentialFails, Dispatch, InstallFails, DispatchIsLost,
         Register, RegisterIsRefused, RegisterIsCut, Bind, BindFails, Succeed, VerifyFails, RunIsOpen, TypeOK, Steps
  <2>3. CASE j = k /\ run'[k] # run[k]
    BY <1>3, <2>3
  <2> QED
    BY <2>1, <2>2, <2>3
<1>12. UnitStays'
  BY <1>0, <1>1, <1>5 DEF UnitStays
<1>13. RunIsAlone'
  <2> SUFFICES ASSUME NEW j \in Tasks, run'[j] \in Past, Undisturbed(j[1])'
               PROVE  /\ instance'[j[1]] \in {None, Imported}
                      /\ run'[j] \in Rendered => config'[j[1]].home = home'[j]
                      /\ up'[j[1]] # None => run'[j] = "started" /\ up'[j[1]].home = home'[j]
    BY DEF RunIsAlone
  <2>1. run'[j] = run[j]
    BY <1>5 DEF Past
  <2>2. instance[j[1]] \in {None, Imported}
    BY <1>0, <1>7, <2>1 DEF RunIsAlone
  <2>3. instance'[j[1]] \in {None, Imported}
    <3>1. CASE j[1] = k[1]
      <4>1. j = k
        BY <1>7, <1>9, <2>1, <3>1 DEF TasksOf
      <4> QED
        BY <1>8, <2>1, <2>2, <4>1 DEF Past, Steps
    <3>2. CASE j[1] # k[1]
      BY <1>0, <1>8, <2>2, <3>2 DEF TypeOK
    <3> QED
      BY <3>1, <3>2
  <2> QED
    BY <1>0, <1>1, <1>7, <2>1, <2>3 DEF RunIsAlone
<1>14. \A j \in Tasks : run[j] = "done" => run'[j] = "done" /\ (Holds(j) => Holds(j)')
  <2>1. \A j \in Tasks : run[j] = "done" => run'[j] = run[j]
    BY <1>0, <1>3 DEF TypeOK, RowInv, Requested
  <2> QED
    BY <1>1, <2>1 DEF Holds, Disk
<1>15. EndIsKept'
  <2> SUFFICES ASSUME NEW j \in Tasks
               PROVE  /\ run'[j] = "done" /\ pc'[j] = "sent" /\ Undisturbed(j[1])' => Holds(j)'
                      /\ instance'[j[1]] = j => run'[j] = "done"
                      /\ instance'[j[1]] = j /\ Undisturbed(j[1])' =>
                           Holds(j)' /\ \A i \in TasksOf(j[1]) : run'[i] \notin Past
    BY DEF EndIsKept, TasksOf
  <2>1. ASSUME run'[j] = "done", pc'[j] = "sent", Undisturbed(j[1])'
        PROVE  Holds(j)'
    <3>1. run[j] = "done"
      BY <1>5, <2>1
    <3>2. pc[j] = "sent"
      <4>1. run' = [run EXCEPT ![k] = "sent"] => run'[k] = "sent"
        BY <1>0 DEF TypeOK
      <4> QED
        BY <1>3, <1>4, <2>1, <4>1
    <3> QED
      BY <1>0, <1>7, <1>14, <2>1, <3>1, <3>2 DEF EndIsKept
  <2>2. ASSUME instance'[j[1]] = j
        PROVE  \/ instance[j[1]] = j
               \/ j = k /\ run[k] = "done" /\ pc[k] = "sent"
    BY <1>0, <1>8, <2>2 DEF TypeOK
  <2>3. instance'[j[1]] = j => run'[j] = "done"
    BY <1>0, <1>14, <2>2 DEF EndIsKept
  <2>4. ASSUME instance'[j[1]] = j, Undisturbed(j[1])'
        PROVE  Holds(j)' /\ \A i \in TasksOf(j[1]) : run'[i] \notin Past
    <3>1. Undisturbed(j[1])
      BY <1>7, <2>4
    <3>2. run[j] = "done" /\ Holds(j) /\ \A i \in TasksOf(j[1]) : run[i] \notin Past
      <4>1. CASE instance[j[1]] = j
        BY <1>0, <3>1, <4>1 DEF EndIsKept
      <4>2. CASE j = k /\ run[k] = "done" /\ pc[k] = "sent"
        <5>1. Holds(j)
          BY <1>0, <3>1, <4>2 DEF EndIsKept
        <5>2. ASSUME NEW i \in TasksOf(j[1]), run[i] \in Past PROVE FALSE
          BY <1>9, <3>1, <4>2, <5>2 DEF Past, Steps
        <5> QED
          BY <4>2, <5>1, <5>2
      <4> QED
        BY <2>2, <2>4, <4>1, <4>2
    <3>3. \A i \in TasksOf(j[1]) : run'[i] \notin Past
      BY <1>5, <3>2 DEF TasksOf, Past
    <3> QED
      BY <1>14, <3>2, <3>3
  <2> QED
    BY <2>1, <2>3, <2>4
<1>16. OwnRow'
  BY <1>0, <1>8 DEF OwnRow, TasksOf, TypeOK
<1> QED
  BY <1>10, <1>11, <1>12, <1>13, <1>15, <1>16 DEF RunInv

LEMMA RunExecution ==
  ASSUME RowInv, RunInv, NEW k \in Tasks, Execution(k)
  PROVE  RunInv'
<1> USE Parts, Kinds DEF taskVars, rowVars, hostVars
<1> k[1] \in Targets
  OBVIOUS
<1>0. TypeOK /\ KeyIsHeld /\ RunIsOpen /\ UnitStays /\ RunIsAlone /\ EndIsKept /\ OwnRow
  BY DEF RowInv, RunInv
<1>1. UNCHANGED <<taskVars, rowVars>>
  BY DEF Execution, CheckHost, FindBaseEmpty, Extract, RenderConfig, InitializeDatabase,
         InstallSystemd, StartDatabase, InitializeAccounts, StepFails
<1>2. /\ run[k] \in Steps
      /\ \E s \in Steps \cup {"done", "error"} : run' = [run EXCEPT ![k] = s]
  BY DEF Execution, CheckHost, FindBaseEmpty, Extract, RenderConfig, InitializeDatabase,
         InstallSystemd, StartDatabase, InitializeAccounts, StepFails, Step, Steps
<1>3. \A j \in Tasks : j # k => run'[j] = run[j]
  BY <1>0, <1>2 DEF TypeOK
<1>4. \A t : Undisturbed(t)' = Undisturbed(t)
  BY <1>1 DEF Undisturbed, TasksOf
<1>5. home[k] \in Homes
  BY <1>2 DEF RowInv, Requested, TypeOK, Steps
\* Who is active and undisturbed, or waited for, is alone.
<1>6. ASSUME NEW j \in TasksOf(k[1]), Undisturbed(k[1]), pc[j] \in Open
      PROVE  j = k
  BY <1>0, <1>2, <1>6, ActiveIsOpen DEF KeyIsHeld, TasksOf
<1>7. KeyIsHeld' /\ OwnRow'
  BY <1>0, <1>1 DEF KeyIsHeld, OwnRow, TasksOf
<1>8. RunIsOpen'
  BY <1>0, <1>1, <1>2, <1>3 DEF RunIsOpen
<1>9. UnitStays'
  <2>1. unit \subseteq unit'
    BY DEF Execution, CheckHost, FindBaseEmpty, Extract, RenderConfig, InitializeDatabase,
         InstallSystemd, StartDatabase, InitializeAccounts, StepFails
  <2>2. run'[k] \in {"unit", "started", "done"} => k[1] \in unit'
    BY <1>0 DEF Execution, CheckHost, FindBaseEmpty, Extract, RenderConfig, InitializeDatabase,
         InstallSystemd, StartDatabase, InitializeAccounts, StepFails, Step, UnitStays, TypeOK
  <2> QED
    BY <1>0, <1>3, <2>1, <2>2 DEF UnitStays
\* Other targets keep their configurations and servers, and a password that is
\* set stays.
<1>10. \A t \in Targets : t # k[1] => config'[t] = config[t] /\ up'[t] = up[t]
  BY <1>0 DEF Execution, CheckHost, FindBaseEmpty, Extract, RenderConfig, InitializeDatabase,
         InstallSystemd, StartDatabase, InitializeAccounts, StepFails, Launch, TypeOK
<1>11. \A d \in Disks : data[d] \in Tasks => data'[d] = data[d]
  BY <1>0 DEF Execution, CheckHost, FindBaseEmpty, Extract, RenderConfig, InitializeDatabase,
         InstallSystemd, StartDatabase, InitializeAccounts, StepFails, TypeOK
<1>12. ASSUME Undisturbed(k[1]), instance[k[1]] \in Tasks
       PROVE  run[k] = "sent" /\ run'[k] = "error" /\ UNCHANGED hostVars
  <2>1. \E j \in TasksOf(k[1]) : instance[k[1]] = j
    BY <1>0, <1>12 DEF OwnRow
  <2>2. run[k] \notin Past /\ k[1] \in unit
    BY <1>0, <1>12, <2>1 DEF EndIsKept, UnitStays, TasksOf
  <2> QED
    BY <1>0, <1>2, <2>2 DEF Past, Steps, Execution, CheckHost, FindBaseEmpty, Extract, RenderConfig, InitializeDatabase,
         InstallSystemd, StartDatabase, InitializeAccounts, StepFails, Step, TypeOK
<1>13. RunIsAlone'
  <2> SUFFICES ASSUME NEW j \in Tasks, run'[j] \in Past, Undisturbed(j[1])'
               PROVE  /\ instance[j[1]] \in {None, Imported}
                      /\ run'[j] \in Rendered => config'[j[1]].home = home[j]
                      /\ up'[j[1]] # None => run'[j] = "started" /\ up'[j[1]].home = home[j]
    BY <1>1 DEF RunIsAlone
  <2>1. CASE j[1] # k[1]
    BY <1>0, <1>3, <1>4, <1>10, <2>1 DEF RunIsAlone
  <2>2. CASE j[1] = k[1]
    <3>1. j = k
      <4>1. ASSUME j # k PROVE FALSE
        <5>1. pc[j] \in Open
          BY <1>0, <1>3, <1>4, <4>1, ActiveIsOpen DEF Past
        <5> QED
          BY <1>4, <1>6, <2>2, <4>1, <5>1 DEF TasksOf
      <4> QED
        BY <4>1
    <3>2. instance[k[1]] \in {None, Imported}
      BY <1>0, <1>4, <1>12, <2>2, <3>1 DEF Past, Steps, TypeOK
    <3>3. run[k] \in Past => /\ run[k] \in Rendered => config[k[1]].home = home[k]
                             /\ up[k[1]] # None => run[k] = "started" /\ up[k[1]].home = home[k]
      BY <1>0, <1>4, <2>2 DEF RunIsAlone
    <3>4. CASE CheckHost(k) \/ FindBaseEmpty(k) \/ Extract(k)
      BY <1>0, <3>1, <3>2, <3>3, <3>4 DEF CheckHost, FindBaseEmpty, Extract, Step, Past, Steps, Rendered, TypeOK
    <3>5. CASE RenderConfig(k)
      BY <1>0, <3>1, <3>2, <3>3, <3>5 DEF RenderConfig, Step, Past, Steps, TypeOK
    <3>6. CASE InitializeDatabase(k) \/ InstallSystemd(k)
      BY <1>0, <3>1, <3>2, <3>3, <3>6 DEF InitializeDatabase, InstallSystemd, Step, Past, Steps, Rendered, TypeOK
    <3>7. CASE StartDatabase(k)
      BY <1>0, <3>1, <3>2, <3>3, <3>7 DEF StartDatabase, Launch, Step, Past, Steps, Rendered, TypeOK
    <3>8. CASE InitializeAccounts(k) \/ StepFails(k)
      BY <1>0, <3>1, <3>8 DEF InitializeAccounts, StepFails, Step, Past, Steps, TypeOK
    <3> QED
      BY <3>4, <3>5, <3>6, <3>7, <3>8 DEF Execution
  <2> QED
    BY <2>1, <2>2
<1>14. ASSUME NEW j \in Tasks, j[1] # k[1], Holds(j)
       PROVE  Holds(j)'
  <2>1. run'[j] = "done"
    BY <1>3, <1>14 DEF Holds
  <2>2. Disk(j) \in Disks
    BY <1>0, <1>14 DEF Holds, RowInv, Requested, Disk
  <2>3. data'[Disk(j)] = j
    BY <1>11, <1>14, <2>2 DEF Holds
  <2> QED
    BY <1>1, <1>10, <1>14, <2>1, <2>3 DEF Holds, Disk
<1>15. EndIsKept'
  <2> SUFFICES ASSUME NEW j \in Tasks
               PROVE  /\ run'[j] = "done" /\ pc[j] = "sent" /\ Undisturbed(j[1]) => Holds(j)'
                      /\ instance[j[1]] = j => run'[j] = "done"
                      /\ instance[j[1]] = j /\ Undisturbed(j[1]) =>
                           Holds(j)' /\ \A i \in TasksOf(j[1]) : run'[i] \notin Past
    BY <1>1, <1>4 DEF EndIsKept, TasksOf
  <2>1. instance[j[1]] = j => j # k /\ run'[j] = "done"
    BY <1>0, <1>2, <1>3 DEF EndIsKept, Steps
  <2>2. CASE j[1] # k[1]
    <3>1. \A i \in TasksOf(j[1]) : run'[i] = run[i]
      BY <1>3, <2>2 DEF TasksOf
    <3>2. j \in TasksOf(j[1])
      BY DEF TasksOf
    <3> QED
      BY <1>0, <1>14, <2>1, <2>2, <3>1, <3>2 DEF EndIsKept
  <2>3. CASE j[1] = k[1]
    <3>1. ASSUME run'[j] = "done", pc[j] = "sent", Undisturbed(j[1])
          PROVE  Holds(j)'
      <4>1. j = k
        BY <1>6, <2>3, <3>1 DEF TasksOf, Open, Working
      <4>2. InitializeAccounts(k)
        BY <1>0, <3>1, <4>1 DEF Execution, CheckHost, FindBaseEmpty, Extract, RenderConfig, InitializeDatabase,
           InstallSystemd, StartDatabase, StepFails, Step, TypeOK
      <4>3. /\ config[k[1]].home = home[k]
            /\ up[k[1]] # None /\ up[k[1]].home = home[k]
        BY <1>0, <2>3, <3>1, <4>2 DEF InitializeAccounts, Step, RunIsAlone, Past, Steps, Rendered
      <4>4. Served(k[1]) = Disk(k) /\ Disk(k) \in Disks
        BY <1>5, <4>3 DEF Served, Disk
      <4>5. data'[Disk(k)] = k
        BY <1>0, <4>2, <4>4 DEF InitializeAccounts, TypeOK
      <4> QED
        BY <1>1, <3>1, <4>1, <4>2, <4>3, <4>5 DEF InitializeAccounts, Holds, Disk
    <3>2. ASSUME instance[j[1]] = j, Undisturbed(j[1])
          PROVE  Holds(j)' /\ \A i \in TasksOf(j[1]) : run'[i] \notin Past
      <4>1. Holds(j) /\ \A i \in TasksOf(j[1]) : run[i] \notin Past
        BY <1>0, <3>2 DEF EndIsKept
      <4>2. run'[k] = "error" /\ UNCHANGED hostVars
        BY <1>12, <2>3, <3>2
      <4>3. \A i \in TasksOf(j[1]) : run'[i] \notin Past
        BY <1>3, <4>1, <4>2 DEF TasksOf, Past, Steps
      <4> QED
        BY <1>1, <2>1, <3>2, <4>1, <4>2, <4>3 DEF Holds, Disk
    <3> QED
      BY <2>1, <3>1, <3>2
  <2> QED
    BY <2>2, <2>3
<1> QED
  BY <1>7, <1>8, <1>9, <1>13, <1>15 DEF RunInv
LEMMA RunStep == RowInv /\ RunInv /\ [Next]_vars => RunInv'
<1> USE Parts, Kinds DEF taskVars, rowVars, hostVars
<1> SUFFICES ASSUME RowInv, RunInv, [Next]_vars PROVE RunInv'
  OBVIOUS
<1>0. TypeOK /\ KeyIsHeld /\ RunIsOpen /\ UnitStays /\ RunIsAlone /\ EndIsKept /\ OwnRow
  BY DEF RowInv, RunInv
<1>1. ASSUME NEW k \in Tasks, NEW h \in Homes, CreateTask(k, h)
      PROVE  RunInv'
  <2>1. pc[k] = "none" /\ run[k] = "none"
    BY <1>1 DEF CreateTask, RowInv, Requested
  <2>2. \A j \in Tasks : j # k => pc'[j] = pc[j] /\ home'[j] = home[j]
    BY <1>0, <1>1 DEF CreateTask, TypeOK
  <2>3. pc'[k] = "queued"
    BY <1>0, <1>1 DEF CreateTask, TypeOK
  <2>4. \A t : Undisturbed(t)' = Undisturbed(t)
    BY <2>1, <2>2, <2>3 DEF Undisturbed, TasksOf
  <2>5. UNCHANGED <<rowVars, run, hostVars>>
    BY <1>1 DEF CreateTask
  <2>6. KeyIsHeld'
    BY <1>0, <1>1, <2>2, <2>3 DEF KeyIsHeld, CreateTask, KeyFree, TasksOf
  <2>7. RunIsOpen' /\ UnitStays' /\ OwnRow'
    BY <1>0, <2>1, <2>2, <2>5 DEF RunIsOpen, UnitStays, OwnRow, TasksOf, Steps
  <2>8. RunIsAlone'
    BY <1>0, <2>1, <2>2, <2>4, <2>5 DEF RunIsAlone, Past, Steps
  <2>9. EndIsKept'
    <3>1. \A j \in Tasks : j # k => Holds(j)' = Holds(j)
      BY <2>2, <2>5 DEF Holds, Disk
    <3> QED
      BY <1>0, <2>1, <2>2, <2>4, <2>5, <3>1 DEF EndIsKept, TasksOf
  <2> QED
    BY <2>6, <2>7, <2>8, <2>9 DEF RunInv
<1>2. ASSUME NEW t \in Targets, StopService(t) \/ StartService(t)
      PROVE  RunInv'
  <2>1. UNCHANGED <<taskVars, rowVars, run, base, data, config, unit>> /\ instance[t] \notin {None, Imported}
    BY <1>2 DEF StopService, StartService
  <2>2. \A u \in Targets : up'[u] = up[u] \/ (u = t /\ up'[u] = None) \/ (u = t /\ up'[u] = config[u])
    BY <1>0, <1>2 DEF StopService, StartService, Launch, TypeOK
  <2>3. \A u : Undisturbed(u)' = Undisturbed(u)
    BY <2>1 DEF Undisturbed, TasksOf
  <2>4. KeyIsHeld' /\ RunIsOpen' /\ UnitStays' /\ OwnRow'
    BY <1>0, <2>1 DEF KeyIsHeld, RunIsOpen, UnitStays, OwnRow, TasksOf
  <2>5. RunIsAlone'
    BY <1>0, <2>1, <2>2, <2>3 DEF RunIsAlone
  <2>6. EndIsKept'
    <3>1. \A j \in Tasks : Holds(j) => Holds(j)'
      BY <2>1, <2>2 DEF Holds, Disk
    <3> QED
      BY <1>0, <2>1, <2>3, <3>1 DEF EndIsKept, TasksOf
  <2> QED
    BY <2>4, <2>5, <2>6 DEF RunInv
<1>3. ASSUME NEW t \in Targets, Import(t)
      PROVE  RunInv'
  <2>1. UNCHANGED <<taskVars, ids, run, hostVars>>
    BY <1>3 DEF Import
  <2>2. \A u \in Targets : instance'[u] = instance[u] \/ (instance[u] = None /\ instance'[u] = Imported)
    BY <1>0, <1>3 DEF Import, TypeOK
  <2>3. \A u : Undisturbed(u)' = Undisturbed(u)
    BY <2>1 DEF Undisturbed, TasksOf
  <2>4. KeyIsHeld' /\ RunIsOpen' /\ UnitStays' /\ OwnRow'
    BY <1>0, <2>1, <2>2 DEF KeyIsHeld, RunIsOpen, UnitStays, OwnRow, TasksOf
  <2>5. RunIsAlone'
    BY <1>0, <2>1, <2>2, <2>3 DEF RunIsAlone
  <2>6. EndIsKept'
    <3>1. \A j \in Tasks : Holds(j) = Holds(j)' /\ (instance'[j[1]] = j => instance[j[1]] = j)
      BY <2>1, <2>2 DEF Holds, Disk
    <3> QED
      BY <1>0, <2>1, <2>3, <3>1 DEF EndIsKept, TasksOf
  <2> QED
    BY <2>4, <2>5, <2>6 DEF RunInv
<1>4. CASE ServerRestart
  <2>1. UNCHANGED <<home, rowVars, run, hostVars>>
    BY <1>4 DEF ServerRestart
  <2>2. \A j \in Tasks : pc'[j] = IF pc[j] \in Working THEN "interrupted" ELSE pc[j]
    BY <1>4 DEF ServerRestart
  <2>3. \A u : Undisturbed(u)' = Undisturbed(u)
    BY <2>2 DEF Undisturbed, TasksOf, Working
  <2>4. \A j \in Tasks : (pc'[j] \in Open <=> pc[j] \in Open) /\ (pc'[j] = "sent" => pc[j] = "sent")
    BY <2>2 DEF Open, Working
  <2>5. KeyIsHeld' /\ UnitStays' /\ OwnRow'
    BY <1>0, <2>1, <2>4 DEF KeyIsHeld, UnitStays, OwnRow, TasksOf
  <2>6. RunIsOpen'
    BY <1>0, <2>1, <2>2 DEF RunIsOpen, Working
  <2>7. RunIsAlone'
    BY <1>0, <2>1, <2>3 DEF RunIsAlone
  <2>8. EndIsKept'
    <3>1. \A j \in Tasks : Holds(j)' = Holds(j)
      BY <2>1 DEF Holds, Disk
    <3> QED
      BY <1>0, <2>1, <2>3, <2>4, <3>1 DEF EndIsKept, TasksOf
  <2> QED
    BY <2>5, <2>6, <2>7, <2>8 DEF RunInv
<1>5. ASSUME NEW h \in Hosts, AgentRestart(h)
      PROVE  RunInv'
  <2>1. UNCHANGED <<taskVars, rowVars, hostVars>>
    BY <1>5 DEF AgentRestart
  <2>2. \A j \in Tasks : run'[j] = run[j] \/ (run[j] \in Steps /\ run'[j] = "dead")
    BY <1>5 DEF AgentRestart
  <2>3. \A u : Undisturbed(u)' = Undisturbed(u)
    BY <2>1 DEF Undisturbed, TasksOf
  <2>4. KeyIsHeld' /\ RunIsOpen' /\ UnitStays' /\ OwnRow'
    BY <1>0, <2>1, <2>2 DEF KeyIsHeld, RunIsOpen, UnitStays, OwnRow, TasksOf, Steps
  <2>5. RunIsAlone'
    BY <1>0, <2>1, <2>2, <2>3 DEF RunIsAlone, Past, Steps
  <2>6. EndIsKept'
    <3>1. \A j \in Tasks : (run'[j] = "done" <=> run[j] = "done") /\ (run'[j] \in Past => run[j] \in Past)
      BY <2>2 DEF Past, Steps
    <3>2. \A j \in Tasks : Holds(j) => Holds(j)'
      BY <2>1, <3>1 DEF Holds, Disk
    <3> QED
      BY <1>0, <2>1, <2>3, <3>1, <3>2 DEF EndIsKept, TasksOf
  <2> QED
    BY <2>4, <2>5, <2>6 DEF RunInv
<1>6. CASE UNCHANGED vars
  <2>1. \A u : Undisturbed(u)' = Undisturbed(u)
    BY <1>6 DEF vars, Undisturbed, TasksOf
  <2>2. \A j \in Tasks : Holds(j)' = Holds(j)
    BY <1>6 DEF vars, Holds, Disk
  <2> QED
    BY <1>0, <1>6, <2>1, <2>2 DEF vars, RunInv, KeyIsHeld, RunIsOpen, UnitStays, RunIsAlone, EndIsKept, OwnRow, TasksOf
<1> QED
  BY <1>1, <1>2, <1>3, <1>4, <1>5, <1>6, RunHandler, RunExecution DEF Next
-------------------------------------------------------------------------------
(* Theorems *)

\* The invariant of MySQLInstall holds in every reachable state.
THEOREM InvHolds == Spec => []Inv
<1>1. Init => Inv
  BY RowInit, RunInit DEF Inv
<1>2. Inv /\ [Next]_vars => Inv'
  BY RowStep, RunStep DEF Inv
<1> QED
  BY <1>1, <1>2, PTL DEF Spec

\* Every variable of MySQLInstall keeps its type.
THEOREM TypeCorrect == Spec => []TypeOK
<1>1. Inv => TypeOK
  BY DEF Inv, RowInv
<1> QED
  BY <1>1, InvHolds, PTL

\* Every mysqld that runs has the id of its host and port, and no other's,
\* whatever installations failed, were lost or repeated.
THEOREM RunningIdsAgree == Spec => []ServerIdsAgree
<1>1. Inv => ServerIdsAgree
  <2> SUFFICES ASSUME Inv PROVE ServerIdsAgree
    OBVIOUS
  <2>1. \A t \in Targets : up[t] # None => up[t].id = ids[t].id /\ up[t].id # 0
    BY InstallAssumption DEF Inv, RowInv, TypeOK, ConfigsAgree, Configs
  <2> QED
    BY <2>1 DEF Inv, RowInv, IdsAreApart, ServerIdsAgree
<1> QED
  BY <1>1, InvHolds, PTL

\* An instance that is registered is what runs: its directories and its
\* credential, unless a dispatch for it was given up.
THEOREM RegistrationsAreTrue == Spec => []RegistrationIsTrue
<1>1. Inv => RegistrationIsTrue
  <2> SUFFICES ASSUME Inv, NEW t \in Targets, instance[t] \notin {None, Imported}, Undisturbed(t)
               PROVE  /\ config[t].home = home[instance[t]]
                      /\ up[t] # None => data[Served(t)] = instance[t]
    BY DEF RegistrationIsTrue
  <2>1. PICK k \in TasksOf(t) : instance[t] = k
    BY DEF Inv, RunInv, OwnRow
  <2>2. k \in Tasks /\ k[1] = t
    BY DEF TasksOf
  <2>3. Holds(k)
    BY <2>1, <2>2 DEF Inv, RunInv, EndIsKept
  <2> QED
    BY <2>1, <2>2, <2>3 DEF Holds, Served, Disk
<1> QED
  BY <1>1, InvHolds, PTL

\* A step of the table of ids is a step of the pool, or none.
LEMMA PoolStep ==
  ASSUME Inv, Next
  PROVE  Pool!Next \/ UNCHANGED Pool!vars
<1> USE Parts, InstallAssumption DEF taskVars, rowVars, hostVars
<1>0. TypeOK /\ Numbered /\ IdsAreApart
  BY DEF Inv, RowInv
<1>1. CASE UNCHANGED ids
  BY <1>1 DEF Pool!vars
<1>2. ASSUME NEW t \in Targets, MarkFailed(t)
      PROVE  UNCHANGED Pool!vars
  BY <1>0, <1>2 DEF MarkFailed, Pool!vars, TypeOK
<1>3. ASSUME NEW t \in Targets, BindInstance(t), ids[t].id # 0
      PROVE  Pool!Next
  <2>1. /\ {u \in Targets : ids'[u].status = "bound"} = {u \in Targets : ids[u].status = "bound"} \cup {t}
        /\ [u \in Targets |-> ids'[u].id] = [u \in Targets |-> ids[u].id]
    BY <1>0, <1>3 DEF BindInstance, TypeOK
  <2>2. Pool!Bind(t)
    BY <1>3, <2>1 DEF Pool!Bind
  <2> QED
    BY <2>2 DEF Pool!Next
<1>4. ASSUME NEW t \in Targets, NEW i \in 1..MaxId, IsNext(i), ids[t].status = "none",
             ids' = [ids EXCEPT ![t] = [id |-> i, status |-> "reserved"]]
      PROVE  Pool!Next
  <2>1. ids[t].id = 0 /\ \A u \in Targets : ids[u].id # i
    BY <1>0, <1>4 DEF IdsAreApart, IsNext, TypeOK
  <2>2. [u \in Targets |-> ids'[u].id] = [[u \in Targets |-> ids[u].id] EXCEPT ![t] = i]
    BY <1>0, <1>4 DEF TypeOK
  <2>3. {u \in Targets : ids'[u].status = "bound"} = {u \in Targets : ids[u].status = "bound"}
    BY <1>0, <1>4 DEF TypeOK
  <2>4. Pool!Issue(t, i)
    BY <2>1, <2>2, <2>3 DEF Pool!Issue
  <2> QED
    BY <2>4 DEF Pool!Next
<1>5. ASSUME NEW t \in Targets, Reserve(t)
      PROVE  Pool!Next \/ UNCHANGED Pool!vars
  BY <1>1, <1>4, <1>5 DEF Reserve
<1>6. ASSUME NEW k \in Tasks, Handler(k)
      PROVE  \/ UNCHANGED ids \/ Reserve(k[1]) \/ MarkFailed(k[1])
             \/ BindInstance(k[1]) /\ ids[k[1]].id # 0
  BY <1>0, <1>6 DEF Handler, Begin, ReserveIsRefused, CredentialFails, Dispatch, InstallFails, DispatchIsLost,
     Register, RegisterIsRefused, RegisterIsCut, Bind, BindFails, Succeed, VerifyFails, Goto, Numbered, Working
<1>7. ASSUME NEW k \in Tasks, Execution(k) \/ \E h \in Homes : CreateTask(k, h)
      PROVE  UNCHANGED ids
  BY <1>7 DEF CreateTask, Execution, CheckHost, FindBaseEmpty, Extract, RenderConfig, InitializeDatabase,
     InstallSystemd, StartDatabase, InitializeAccounts, StepFails
<1>8. ASSUME NEW t \in Targets, StopService(t) \/ StartService(t) \/ Import(t)
      PROVE  UNCHANGED ids
  BY <1>8 DEF StopService, StartService, Import
<1>9. ASSUME ServerRestart \/ \E h \in Hosts : AgentRestart(h)
      PROVE  UNCHANGED ids
  BY <1>9 DEF ServerRestart, AgentRestart
<1>10. ASSUME NEW k \in Tasks, Handler(k)
       PROVE  Pool!Next \/ UNCHANGED Pool!vars
  BY <1>1, <1>2, <1>3, <1>5, <1>6, <1>10
<1> QED
  BY <1>1, <1>7, <1>8, <1>9, <1>10 DEF Next

\* mysql_server_ids implements the pool of server ids.
THEOREM PoolIsImplemented == Spec => ImplementsPool
<1>1. Init => Pool!Init
  BY DEF Init, Pool!Init
<1>2. Inv /\ [Next]_vars => [Pool!Next]_(Pool!vars)
  <2>1. CASE Inv /\ Next
    BY <2>1, PoolStep
  <2>2. CASE UNCHANGED vars
    BY <2>2 DEF vars, rowVars, Pool!vars
  <2> QED
    BY <2>1, <2>2
<1> QED
  BY <1>1, <1>2, InvHolds, PTL DEF Spec, ImplementsPool, Pool!Spec
===============================================================================
