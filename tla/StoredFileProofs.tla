--------------------------- MODULE StoredFileProofs ---------------------------
(***************************************************************************)
(* What the service has registered is there: the backups of the four kinds *)
(* of databases and the packages of the software repository, for every set *)
(* of tasks, paths and packages and every number of faults.  One section a *)
(* component, in the variables of its module; Services has them all.       *)
(***************************************************************************)
EXTENDS Integers, TLAPS

CONSTANTS
  Tasks, Names, NoFile, Pieces, MaxClock, Packages, Folder, Contents, MaxUploads, MaxFaults

VARIABLES
  pc, faults,                     \* of each of them
  job, run,                       \* of the backups
  file, writer,                   \* of MySQL and PostgreSQL
  second, made, manifest, clock,  \* of RMAN
  shown,                          \* of Doris
  stored,                         \* of Doris and the repository
  package, content, row           \* of the repository

MySQL == INSTANCE MySQLBackup
Postgres == INSTANCE PostgresBackup
RMAN == INSTANCE RMANBackup
Doris == INSTANCE DorisBackup
Software == INSTANCE SoftwareStore

\* The job of a backup's handler keeps step with it, no request is at work
\* before it is sent, and a success was answered for.
JobsKeepStep ==
  \A t \in Tasks :
    /\ pc[t] \in {"none", "queued"} => job[t] = "none"
    /\ pc[t] = "begun" => job[t] = "pending"
    /\ pc[t] = "waiting" => job[t] = "running"
    /\ pc[t] \in {"registered", "success"} => job[t] = "success"
    /\ pc[t] \in {"none", "queued", "begun"} => run[t] = "none"
    /\ job[t] = "success" => run[t] = "done"

-------------------------------------------------------------------------------
(* MySQL: files *)

\* A path belongs to the task that is writing it, or has written it whole.
MySQLDumpsOwnTheirFiles ==
  \A t \in Tasks : run[t] \in {"dumping", "done"} => writer[file[t]] = t

MySQLInv == MySQL!TypeOK /\ MySQLDumpsOwnTheirFiles /\ JobsKeepStep

LEMMA MySQLInitInv == MySQL!Init => MySQLInv
BY DEF MySQL!Init, MySQLInv, MySQL!TypeOK, MySQLDumpsOwnTheirFiles, JobsKeepStep

\* The service changes no file, and the status of a job by its answer only.
LEMMA MySQLServiceInv ==
  ASSUME MySQLInv, NEW t \in Tasks,
         MySQL!Service(t) \/ MySQL!BeginFails(t) \/ MySQL!DispatchIsLost(t)
           \/ MySQL!RegisterFails(t)
  PROVE  MySQLInv'
<1> USE DEF MySQLInv, MySQL!TypeOK, MySQL!Open, MySQL!AtWork, MySQL!hostVars,
   MySQLDumpsOwnTheirFiles, JobsKeepStep
<1>1. CASE MySQL!CreateTask(t)
  BY <1>1 DEF MySQL!CreateTask
<1>2. CASE MySQL!Begin(t)
  BY <1>2 DEF MySQL!Begin
<1>3. CASE MySQL!Dispatch(t)
  BY <1>3 DEF MySQL!Dispatch
<1>4. CASE MySQL!BackupFails(t)
  BY <1>4 DEF MySQL!BackupFails, MySQL!Fail
<1>5. CASE MySQL!Register(t)
  BY <1>5 DEF MySQL!Register
<1>6. CASE MySQL!Succeed(t)
  BY <1>6 DEF MySQL!Succeed
<1>7. CASE MySQL!BeginFails(t)
  BY <1>7 DEF MySQL!BeginFails, MySQL!Fault
<1>8. CASE MySQL!RegisterFails(t)
  BY <1>8 DEF MySQL!RegisterFails, MySQL!Fault
<1>9. CASE MySQL!DispatchIsLost(t)
  <2>1. CASE UNCHANGED run
    BY <1>9, <2>1 DEF MySQL!DispatchIsLost, MySQL!Fault, MySQL!Fail
  <2>2. CASE run[t] = "sent" /\ run' = [run EXCEPT ![t] = "none"]
    BY <1>9, <2>2 DEF MySQL!DispatchIsLost, MySQL!Fault, MySQL!Fail
  <2> QED
    BY <1>9, <2>1, <2>2 DEF MySQL!DispatchIsLost
<1> QED
  BY <1>1, <1>2, <1>3, <1>4, <1>5, <1>6, <1>7, <1>8, <1>9 DEF MySQL!Service

\* The agent writes to a path nobody has, and removes what is its own.
LEMMA MySQLAgentInv ==
  ASSUME MySQL!Nobody \notin Tasks, MySQLInv, NEW t \in Tasks, MySQL!Agent(t)
  PROVE  MySQLInv'
<1> USE DEF MySQLInv, MySQL!TypeOK, MySQLDumpsOwnTheirFiles, JobsKeepStep
<1>1. ASSUME NEW f \in Names, MySQL!OpenNew(t, f) PROVE MySQLInv'
  <2>1. \A u \in Tasks : run[u] \in {"dumping", "done"} => u # t /\ file[u] # f
    BY <1>1 DEF MySQL!OpenNew
  <2>2. MySQL!TypeOK' /\ JobsKeepStep'
    BY <1>1 DEF MySQL!OpenNew
  <2>3. MySQLDumpsOwnTheirFiles'
    BY <1>1, <2>1 DEF MySQL!OpenNew
  <2> QED
    BY <2>2, <2>3
<1>2. CASE MySQL!OpenFails(t)
  BY <1>2 DEF MySQL!OpenFails
<1>3. CASE MySQL!DumpEnds(t)
  BY <1>3 DEF MySQL!DumpEnds
<1>4. CASE MySQL!DumpFails(t)
  <2>1. \A u \in Tasks : u # t /\ run[u] \in {"dumping", "done"} => file[u] # file[t]
    BY <1>4 DEF MySQL!DumpFails
  <2>2. MySQL!TypeOK' /\ JobsKeepStep'
    BY <1>4 DEF MySQL!DumpFails
  <2>3. MySQLDumpsOwnTheirFiles'
    BY <1>4, <2>1 DEF MySQL!DumpFails
  <2> QED
    BY <2>2, <2>3
<1> QED
  BY <1>1, <1>2, <1>3, <1>4 DEF MySQL!Agent

\* A restart of either side ends what is going on and writes nothing.
LEMMA MySQLRestartInv ==
  ASSUME MySQLInv, MySQL!AgentRestart \/ MySQL!ServerRestart
  PROVE  MySQLInv'
<1> USE DEF MySQLInv, MySQL!TypeOK, MySQL!Open, MySQL!AtWork, MySQL!hostVars, MySQL!Fault,
   MySQLDumpsOwnTheirFiles, JobsKeepStep
<1>1. CASE MySQL!AgentRestart
  BY <1>1 DEF MySQL!AgentRestart
<1>2. CASE MySQL!ServerRestart
  BY <1>2 DEF MySQL!ServerRestart
<1> QED
  BY <1>1, <1>2

LEMMA MySQLNextInv ==
  ASSUME MySQL!Nobody \notin Tasks, MySQLInv, [MySQL!Next]_MySQL!vars
  PROVE  MySQLInv'
<1>1. CASE MySQL!Next
  BY <1>1, MySQLServiceInv, MySQLAgentInv, MySQLRestartInv DEF MySQL!Next
<1>2. CASE UNCHANGED MySQL!vars
  BY <1>2 DEF MySQL!vars, MySQL!hostVars, MySQLInv, MySQL!TypeOK, MySQLDumpsOwnTheirFiles,
     JobsKeepStep
<1> QED
  BY <1>1, <1>2

LEMMA MySQLInvImplies == MySQLInv => MySQL!TypeOK /\ MySQL!BackupIsThere
BY DEF MySQLInv, MySQL!BackupIsThere, MySQLDumpsOwnTheirFiles, JobsKeepStep

\* The file of every registered backup is there and is that backup, whatever
\* else is dumped beside it, lost, restarted or cleaned up.
THEOREM MySQLRegisteredIsThere ==
  ASSUME MySQL!Nobody \notin Tasks
  PROVE  MySQL!Spec => [](MySQL!TypeOK /\ MySQL!BackupIsThere)
<1>1. MySQL!Init => MySQLInv
  BY MySQLInitInv
<1>2. MySQLInv /\ [MySQL!Next]_MySQL!vars => MySQLInv'
  BY MySQLNextInv
<1>3. MySQLInv => MySQL!TypeOK /\ MySQL!BackupIsThere
  BY MySQLInvImplies
<1> QED
  BY <1>1, <1>2, <1>3, PTL DEF MySQL!Spec

-------------------------------------------------------------------------------
(* PostgreSQL: files *)

\* A task has a path from the start of its dump on, and none before.
PostgresPathsAreOpened ==
  \A t \in Tasks :
    /\ run[t] \in {"none", "sent"} => file[t] = NoFile
    /\ run[t] \in {"dumping", "dumped", "done"} => file[t] \in Names

\* Whose output is in a file has opened it,
PostgresWritersOpenedIt == \A f \in Names : \A t \in writer[f] : file[t] = f

\* and what a dump has written is all there is, or another opened the same.
PostgresDumpsAreTheirs ==
  \A t \in Tasks : run[t] \in {"dumping", "dumped", "done"} =>
    writer[file[t]] = {t} \/ \E u \in Tasks \ {t} : file[u] = file[t]

PostgresInv ==
  Postgres!TypeOK /\ JobsKeepStep /\ PostgresPathsAreOpened /\ PostgresWritersOpenedIt
    /\ PostgresDumpsAreTheirs

LEMMA PostgresInitInv == Postgres!Init => PostgresInv
BY DEF Postgres!Init, PostgresInv, Postgres!TypeOK, Postgres!Open, Postgres!AtWork,
   JobsKeepStep, PostgresPathsAreOpened, PostgresWritersOpenedIt, PostgresDumpsAreTheirs

\* The service touches no file.
LEMMA PostgresServiceInv ==
  ASSUME NoFile \notin Names, PostgresInv, NEW t \in Tasks,
         Postgres!Service(t) \/ Postgres!BeginFails(t) \/ Postgres!DispatchIsLost(t)
           \/ Postgres!RegisterFails(t)
  PROVE  PostgresInv'
<1>1. UNCHANGED <<file, writer>>
  BY DEF Postgres!Service, Postgres!CreateBackupTask, Postgres!Begin, Postgres!Dispatch,
     Postgres!BackupFails, Postgres!Register, Postgres!Succeed, Postgres!BeginFails,
     Postgres!DispatchIsLost, Postgres!RegisterFails, Postgres!hostVars
<1>2. \A u \in Tasks :
        /\ run'[u] \in {"dumping", "dumped", "done"} => run[u] = run'[u]
        /\ run'[u] \in {"none", "sent"} => run[u] \in {"none", "sent"}
  BY DEF PostgresInv, Postgres!TypeOK, JobsKeepStep, Postgres!Service,
     Postgres!CreateBackupTask, Postgres!Begin, Postgres!Dispatch, Postgres!BackupFails,
     Postgres!Register, Postgres!Succeed, Postgres!BeginFails, Postgres!DispatchIsLost,
     Postgres!RegisterFails, Postgres!hostVars
<1>3. PostgresPathsAreOpened' /\ PostgresWritersOpenedIt' /\ PostgresDumpsAreTheirs'
  BY <1>1, <1>2 DEF PostgresInv, PostgresPathsAreOpened, PostgresWritersOpenedIt,
     PostgresDumpsAreTheirs
<1>4. Postgres!TypeOK' /\ JobsKeepStep'
  <2> USE DEF PostgresInv, Postgres!TypeOK, Postgres!Open, Postgres!AtWork, Postgres!hostVars,
     JobsKeepStep
  <2>1. CASE Postgres!CreateBackupTask(t)
    BY <2>1 DEF Postgres!CreateBackupTask
  <2>2. CASE Postgres!Begin(t)
    BY <2>2 DEF Postgres!Begin
  <2>3. CASE Postgres!Dispatch(t)
    BY <2>3 DEF Postgres!Dispatch
  <2>4. CASE Postgres!BackupFails(t)
    BY <2>4 DEF Postgres!BackupFails, Postgres!Fail
  <2>5. CASE Postgres!Register(t)
    BY <2>5 DEF Postgres!Register
  <2>6. CASE Postgres!Succeed(t)
    BY <2>6 DEF Postgres!Succeed
  <2>7. CASE Postgres!BeginFails(t)
    BY <2>7 DEF Postgres!BeginFails, Postgres!Fault
  <2>8. CASE Postgres!RegisterFails(t)
    BY <2>8 DEF Postgres!RegisterFails, Postgres!Fault
  <2>9. CASE Postgres!DispatchIsLost(t)
    <3>1. CASE UNCHANGED run
      BY <2>9, <3>1 DEF Postgres!DispatchIsLost, Postgres!Fault, Postgres!Fail
    <3>2. CASE run[t] = "sent" /\ run' = [run EXCEPT ![t] = "none"]
      BY <2>9, <3>2 DEF Postgres!DispatchIsLost, Postgres!Fault, Postgres!Fail
    <3> QED
      BY <2>9, <3>1, <3>2 DEF Postgres!DispatchIsLost
  <2> QED
    BY <2>1, <2>2, <2>3, <2>4, <2>5, <2>6, <2>7, <2>8, <2>9 DEF Postgres!Service
<1> QED
  BY <1>3, <1>4 DEF PostgresInv

\* A dump opens its path once and for all: who shares it has been seen to.
LEMMA PostgresStartDumpInv ==
  ASSUME NoFile \notin Names, PostgresInv, NEW t \in Tasks, NEW f \in Names,
  Postgres!StartDump(t, f)
  PROVE  PostgresInv'
<1>1. PICK others \in SUBSET Postgres!Writing(f) : writer' = [writer EXCEPT ![f] = {t} \cup others]
  BY DEF Postgres!StartDump
<1>2. /\ run[t] = "sent" /\ run' = [run EXCEPT ![t] = "dumping"]
      /\ file' = [file EXCEPT ![t] = f] /\ file[t] = NoFile
      /\ UNCHANGED <<pc, job, faults>>
  BY DEF Postgres!StartDump, PostgresInv, PostgresPathsAreOpened
<1>3. others \subseteq Tasks /\ t \notin others /\ \A u \in others : file[u] = f
  BY <1>2 DEF PostgresInv, Postgres!TypeOK, Postgres!Writing, PostgresWritersOpenedIt
<1>4. Postgres!TypeOK' /\ JobsKeepStep' /\ PostgresPathsAreOpened' /\ PostgresWritersOpenedIt'
  BY <1>1, <1>2, <1>3 DEF PostgresInv, Postgres!TypeOK, JobsKeepStep, PostgresPathsAreOpened,
     PostgresWritersOpenedIt
<1>5. PostgresDumpsAreTheirs'
  <2> SUFFICES ASSUME NEW u \in Tasks, run'[u] \in {"dumping", "dumped", "done"}
               PROVE  writer'[file'[u]] = {u} \/ \E v \in Tasks \ {u} : file'[v] = file'[u]
    BY DEF PostgresDumpsAreTheirs
  <2>1. CASE u = t
    <3>1. CASE others = {}
      BY <1>1, <1>2, <2>1, <3>1 DEF PostgresInv, Postgres!TypeOK
    <3>2. CASE others # {}
      BY <1>2, <1>3, <2>1, <3>2 DEF PostgresInv, Postgres!TypeOK
    <3> QED
      BY <3>1, <3>2
  <2>2. CASE u # t
    <3>1. run[u] \in {"dumping", "dumped", "done"} /\ file'[u] = file[u] /\ file[u] \in Names
      BY <1>2, <2>2 DEF PostgresInv, Postgres!TypeOK, PostgresPathsAreOpened
    <3>2. CASE file[u] = f
      BY <1>2, <2>2, <3>1, <3>2 DEF PostgresInv, Postgres!TypeOK
    <3>3. CASE file[u] # f /\ writer[file[u]] = {u}
      BY <1>1, <1>2, <2>2, <3>1, <3>3 DEF PostgresInv, Postgres!TypeOK
    <3>4. CASE \E v \in Tasks \ {u} : file[v] = file[u]
      BY <1>2, <2>2, <3>1, <3>4 DEF PostgresInv, Postgres!TypeOK
    <3> QED
      BY <3>1, <3>2, <3>3, <3>4 DEF PostgresInv, PostgresDumpsAreTheirs
  <2> QED
    BY <2>1, <2>2
<1> QED
  BY <1>4, <1>5 DEF PostgresInv

\* What fails removes its own path only.
LEMMA PostgresAgentInv ==
  ASSUME NoFile \notin Names, PostgresInv, NEW t \in Tasks, Postgres!Agent(t)
  PROVE  PostgresInv'
<1> USE DEF PostgresInv, Postgres!TypeOK, JobsKeepStep, PostgresPathsAreOpened,
   PostgresWritersOpenedIt, PostgresDumpsAreTheirs
<1>1. ASSUME NEW f \in Names, Postgres!StartDump(t, f) PROVE PostgresInv'
  BY <1>1, PostgresStartDumpInv
<1>2. CASE Postgres!DumpIsRefused(t)
  BY <1>2 DEF Postgres!DumpIsRefused
<1>3. CASE Postgres!DumpEnds(t)
  BY <1>3 DEF Postgres!DumpEnds
<1>4. CASE Postgres!DumpFails(t)
  <2>1. Postgres!TypeOK' /\ JobsKeepStep' /\ PostgresPathsAreOpened' /\ PostgresWritersOpenedIt'
    BY <1>4 DEF Postgres!DumpFails
  <2>2. \A u \in Tasks : run'[u] \in {"dumping", "dumped", "done"} =>
          u # t /\ (file[u] = file[t] \/ writer'[file[u]] = writer[file[u]])
    BY <1>4 DEF Postgres!DumpFails
  <2>3. PostgresDumpsAreTheirs'
    BY <1>4, <2>2 DEF Postgres!DumpFails
  <2> QED
    BY <2>1, <2>3
<1>5. CASE Postgres!HashFile(t)
  BY <1>5 DEF Postgres!HashFile
<1> QED
  BY <1>1, <1>2, <1>3, <1>4, <1>5 DEF Postgres!Agent

LEMMA PostgresRestartInv ==
  ASSUME PostgresInv, Postgres!AgentRestart \/ Postgres!ServerRestart
  PROVE  PostgresInv'
<1> USE DEF PostgresInv, Postgres!TypeOK, Postgres!Open, Postgres!AtWork, Postgres!hostVars,
   Postgres!Fault, JobsKeepStep, PostgresPathsAreOpened, PostgresWritersOpenedIt,
   PostgresDumpsAreTheirs
<1>1. CASE Postgres!AgentRestart
  BY <1>1 DEF Postgres!AgentRestart
<1>2. CASE Postgres!ServerRestart
  BY <1>2 DEF Postgres!ServerRestart
<1> QED
  BY <1>1, <1>2

LEMMA PostgresNextInv ==
  ASSUME NoFile \notin Names, PostgresInv, [Postgres!Next]_Postgres!vars
  PROVE  PostgresInv'
<1>1. CASE Postgres!Next
  BY <1>1, PostgresServiceInv, PostgresAgentInv, PostgresRestartInv DEF Postgres!Next
<1>2. CASE UNCHANGED Postgres!vars
  BY <1>2 DEF Postgres!vars, Postgres!hostVars, PostgresInv, Postgres!TypeOK, JobsKeepStep,
     PostgresPathsAreOpened, PostgresWritersOpenedIt, PostgresDumpsAreTheirs
<1> QED
  BY <1>1, <1>2

LEMMA PostgresInvImplies == PostgresInv => Postgres!TypeOK /\ Postgres!BackupIsThere
BY DEF PostgresInv, Postgres!BackupIsThere, Postgres!Intact, JobsKeepStep,
   PostgresDumpsAreTheirs

\* A registered backup has its file, whole, unless another dump was given the
\* same path: whatever is dumped, lost, interrupted or cleaned up beside it.
THEOREM PostgresRegisteredIsThere ==
  ASSUME NoFile \notin Names
  PROVE  Postgres!Spec => [](Postgres!TypeOK /\ Postgres!BackupIsThere)
<1>1. Postgres!Init => PostgresInv
  BY PostgresInitInv
<1>2. PostgresInv /\ [Postgres!Next]_Postgres!vars => PostgresInv'
  BY PostgresNextInv
<1> QED
  BY <1>1, <1>2, PostgresInvImplies, PTL DEF Postgres!Spec

-------------------------------------------------------------------------------
(* Oracle: pieces *)

\* Pieces are written by a started backup only, which keeps its second.
RMANPiecesAreOfStarted == \A t \in Tasks : run[t] \in {"none", "sent"} => made[t] = 0

\* What an answer lists: all of its own, and others' of its second.
RMANAnswersListTheirs ==
  \A t \in Tasks : run[t] = "done" =>
    /\ manifest[t][t] = Pieces
    /\ \A u \in Tasks : manifest[t][u] > 0 =>
         second[u] = second[t] /\ run[u] \notin {"none", "sent"}

RMANInv == RMAN!TypeOK /\ JobsKeepStep /\ RMANPiecesAreOfStarted /\ RMANAnswersListTheirs

LEMMA RMANInitInv == ASSUME Pieces \in Nat, MaxClock \in Nat, RMAN!Init PROVE RMANInv
BY DEF RMAN!Init, RMANInv, RMAN!TypeOK, RMAN!Open, RMAN!AtWork, JobsKeepStep,
   RMANPiecesAreOfStarted, RMANAnswersListTheirs

\* The service sends a request to a backup that has none, and takes back what
\* has not arrived.
LEMMA RMANServiceInv ==
  ASSUME RMANInv, NEW t \in Tasks,
         RMAN!Service(t) \/ RMAN!BeginFails(t) \/ RMAN!DispatchIsLost(t)
           \/ RMAN!RegisterFails(t)
  PROVE  RMANInv'
<1>1. UNCHANGED <<second, made, manifest, clock>>
  BY DEF RMAN!Service, RMAN!CreateRMANBackupTask, RMAN!Begin, RMAN!Dispatch, RMAN!BackupFails,
     RMAN!Register, RMAN!Succeed, RMAN!BeginFails, RMAN!DispatchIsLost, RMAN!RegisterFails,
     RMAN!agentVars
<1>2. \A u \in Tasks :
        /\ run'[u] = "done" <=> run[u] = "done"
        /\ run'[u] \in {"none", "sent"} <=> run[u] \in {"none", "sent"}
  BY DEF RMANInv, RMAN!TypeOK, JobsKeepStep, RMAN!Service, RMAN!CreateRMANBackupTask,
     RMAN!Begin, RMAN!Dispatch, RMAN!BackupFails, RMAN!Register, RMAN!Succeed, RMAN!BeginFails,
     RMAN!DispatchIsLost, RMAN!RegisterFails, RMAN!agentVars
<1>3. RMANPiecesAreOfStarted' /\ RMANAnswersListTheirs'
  BY <1>1, <1>2 DEF RMANInv, RMANPiecesAreOfStarted, RMANAnswersListTheirs
<1>4. RMAN!TypeOK' /\ JobsKeepStep'
  <2> USE DEF RMANInv, RMAN!TypeOK, RMAN!Open, RMAN!AtWork, RMAN!agentVars, JobsKeepStep
  <2>1. CASE RMAN!CreateRMANBackupTask(t)
    BY <2>1 DEF RMAN!CreateRMANBackupTask
  <2>2. CASE RMAN!Begin(t)
    BY <2>2 DEF RMAN!Begin
  <2>3. CASE RMAN!Dispatch(t)
    BY <2>3 DEF RMAN!Dispatch
  <2>4. CASE RMAN!BackupFails(t)
    BY <2>4 DEF RMAN!BackupFails, RMAN!Fail
  <2>5. CASE RMAN!Register(t)
    BY <2>5 DEF RMAN!Register
  <2>6. CASE RMAN!Succeed(t)
    BY <2>6 DEF RMAN!Succeed
  <2>7. CASE RMAN!BeginFails(t)
    BY <2>7 DEF RMAN!BeginFails, RMAN!Fault
  <2>8. CASE RMAN!RegisterFails(t)
    BY <2>8 DEF RMAN!RegisterFails, RMAN!Fault
  <2>9. CASE RMAN!DispatchIsLost(t)
    <3>1. CASE UNCHANGED run
      BY <2>9, <3>1 DEF RMAN!DispatchIsLost, RMAN!Fault, RMAN!Fail
    <3>2. CASE run[t] = "sent" /\ run' = [run EXCEPT ![t] = "none"]
      BY <2>9, <3>2 DEF RMAN!DispatchIsLost, RMAN!Fault, RMAN!Fail
    <3> QED
      BY <2>9, <3>1, <3>2 DEF RMAN!DispatchIsLost
  <2> QED
    BY <2>1, <2>2, <2>3, <2>4, <2>5, <2>6, <2>7, <2>8, <2>9 DEF RMAN!Service
<1> QED
  BY <1>3, <1>4 DEF RMANInv

\* A list is made of what there is with the prefix, once rman has ended well.
LEMMA RMANAgentInv ==
  ASSUME Pieces \in Nat, MaxClock \in Nat, RMANInv, NEW t \in Tasks, RMAN!Agent(t)
  PROVE  RMANInv'
<1> USE DEF RMANInv, RMAN!TypeOK, RMAN!rowVars, JobsKeepStep, RMANPiecesAreOfStarted,
   RMANAnswersListTheirs
<1>1. CASE RMAN!StartRMAN(t)
  BY <1>1 DEF RMAN!StartRMAN
<1>2. CASE RMAN!WritePiece(t)
  BY <1>2 DEF RMAN!WritePiece
<1>3. CASE RMAN!ListPieces(t)
  <2>1. /\ run[t] = "writing" /\ made[t] = Pieces /\ run' = [run EXCEPT ![t] = "done"]
        /\ UNCHANGED <<pc, job, second, made, clock, faults>>
        /\ manifest'[t] \in [Tasks -> 0..Pieces]
        /\ manifest' \in [Tasks -> [Tasks -> 0..Pieces]]
        /\ \A u \in Tasks : u # t => manifest'[u] = manifest[u]
        /\ \A u \in Tasks :
             manifest'[t][u] = IF second[u] = second[t] THEN made[u] ELSE 0
    BY <1>3 DEF RMAN!ListPieces, RMAN!SamePrefix
  <2>2. RMAN!TypeOK' /\ JobsKeepStep' /\ RMANPiecesAreOfStarted'
    BY <2>1
  <2>3. RMANAnswersListTheirs'
    BY <2>1
  <2> QED
    BY <2>2, <2>3
<1>4. CASE RMAN!RMANFails(t)
  BY <1>4 DEF RMAN!RMANFails
<1> QED
  BY <1>1, <1>2, <1>3, <1>4 DEF RMAN!Agent

\* Restarts end what is going on, and time only passes.
LEMMA RMANRestartInv ==
  ASSUME MaxClock \in Nat, RMANInv, RMAN!AgentRestart \/ RMAN!ServerRestart \/ RMAN!Tick
  PROVE  RMANInv'
<1> USE DEF RMANInv, RMAN!TypeOK, RMAN!Open, RMAN!AtWork, RMAN!rowVars, RMAN!agentVars,
   RMAN!Fault, JobsKeepStep, RMANPiecesAreOfStarted, RMANAnswersListTheirs
<1>1. CASE RMAN!AgentRestart
  BY <1>1 DEF RMAN!AgentRestart
<1>2. CASE RMAN!ServerRestart
  BY <1>2 DEF RMAN!ServerRestart
<1>3. CASE RMAN!Tick
  BY <1>3 DEF RMAN!Tick
<1> QED
  BY <1>1, <1>2, <1>3

LEMMA RMANNextInv ==
  ASSUME Pieces \in Nat, MaxClock \in Nat, RMANInv, [RMAN!Next]_RMAN!vars
  PROVE  RMANInv'
<1>1. CASE RMAN!Next
  BY <1>1, RMANServiceInv, RMANAgentInv, RMANRestartInv DEF RMAN!Next
<1>2. CASE UNCHANGED RMAN!vars
  BY <1>2 DEF RMAN!vars, RMAN!rowVars, RMAN!agentVars, RMANInv, RMAN!TypeOK, JobsKeepStep,
     RMANPiecesAreOfStarted, RMANAnswersListTheirs
<1> QED
  BY <1>1, <1>2

LEMMA RMANInvImplies == RMANInv => RMAN!TypeOK /\ RMAN!BackupIsThere
BY DEF RMANInv, RMAN!BackupIsThere, JobsKeepStep, RMANAnswersListTheirs

\* A registered backup lists all its pieces, and of others only what started
\* in its second: whatever runs, fails or is interrupted in the directory.
THEOREM RMANRegisteredIsThere ==
  ASSUME Pieces \in Nat, MaxClock \in Nat
  PROVE  RMAN!Spec => [](RMAN!TypeOK /\ RMAN!BackupIsThere)
<1>1. RMAN!Init => RMANInv
  BY RMANInitInv
<1>2. RMANInv /\ [RMAN!Next]_RMAN!vars => RMANInv'
  BY RMANNextInv
<1> QED
  BY <1>1, <1>2, RMANInvImplies, PTL DEF RMAN!Spec

-------------------------------------------------------------------------------
(* Doris: snapshots *)

\* A job that Doris runs has a label; one it shows as finished has left its
\* snapshot,
DorisFinishedIsStored ==
  /\ shown.state = "RUNNING" => shown.label # Doris!NoLabel
  /\ shown.state = "FINISHED" /\ shown.label # Doris!NoLabel => shown.label[1] \in stored

\* and so has one that the agent has seen finished.
DorisAnswersAreStored == \A t \in Tasks : run[t] = "done" => t[1] \in stored

DorisInv == Doris!TypeOK /\ JobsKeepStep /\ DorisFinishedIsStored /\ DorisAnswersAreStored

LEMMA DorisInitInv == Doris!Init => DorisInv
BY DEF Doris!Init, DorisInv, Doris!TypeOK, Doris!Open, Doris!AtWork, JobsKeepStep,
   DorisFinishedIsStored, DorisAnswersAreStored

\* The service has no hand in Doris.
LEMMA DorisServiceInv ==
  ASSUME DorisInv, NEW t \in Tasks,
         Doris!Service(t) \/ Doris!BeginFails(t) \/ Doris!DispatchIsLost(t)
           \/ Doris!RegisterFails(t)
  PROVE  DorisInv'
<1>1. UNCHANGED <<shown, stored>>
  BY DEF Doris!Service, Doris!CreateBackupTask, Doris!Begin, Doris!Dispatch, Doris!BackupFails,
     Doris!Register, Doris!Succeed, Doris!BeginFails, Doris!DispatchIsLost,
     Doris!RegisterFails, Doris!dorisVars
<1>2. \A u \in Tasks : run'[u] = "done" => run[u] = "done"
  BY DEF DorisInv, Doris!TypeOK, JobsKeepStep, Doris!Service, Doris!CreateBackupTask,
     Doris!Begin, Doris!Dispatch, Doris!BackupFails, Doris!Register, Doris!Succeed,
     Doris!BeginFails, Doris!DispatchIsLost, Doris!RegisterFails
<1>3. DorisFinishedIsStored' /\ DorisAnswersAreStored'
  BY <1>1, <1>2 DEF DorisInv, DorisFinishedIsStored, DorisAnswersAreStored
<1>4. Doris!TypeOK' /\ JobsKeepStep'
  <2> USE DEF DorisInv, Doris!TypeOK, Doris!Open, Doris!AtWork, Doris!dorisVars, JobsKeepStep
  <2>1. CASE Doris!CreateBackupTask(t)
    BY <2>1 DEF Doris!CreateBackupTask
  <2>2. CASE Doris!Begin(t)
    BY <2>2 DEF Doris!Begin
  <2>3. CASE Doris!Dispatch(t)
    BY <2>3 DEF Doris!Dispatch
  <2>4. CASE Doris!BackupFails(t)
    BY <2>4 DEF Doris!BackupFails, Doris!Fail
  <2>5. CASE Doris!Register(t)
    BY <2>5 DEF Doris!Register
  <2>6. CASE Doris!Succeed(t)
    BY <2>6 DEF Doris!Succeed
  <2>7. CASE Doris!BeginFails(t)
    BY <2>7 DEF Doris!BeginFails, Doris!Fault
  <2>8. CASE Doris!RegisterFails(t)
    BY <2>8 DEF Doris!RegisterFails, Doris!Fault
  <2>9. CASE Doris!DispatchIsLost(t)
    <3>1. CASE UNCHANGED run
      BY <2>9, <3>1 DEF Doris!DispatchIsLost, Doris!Fault, Doris!Fail
    <3>2. CASE run[t] = "sent" /\ run' = [run EXCEPT ![t] = "none"]
      BY <2>9, <3>2 DEF Doris!DispatchIsLost, Doris!Fault, Doris!Fail
    <3> QED
      BY <2>9, <3>1, <3>2 DEF Doris!DispatchIsLost
  <2> QED
    BY <2>1, <2>2, <2>3, <2>4, <2>5, <2>6, <2>7, <2>8, <2>9 DEF Doris!Service
<1> QED
  BY <1>3, <1>4 DEF DorisInv

\* The agent submits, and takes for its own only the job with its label.
LEMMA DorisAgentInv ==
  ASSUME DorisInv, NEW t \in Tasks, Doris!Agent(t) \/ Doris!SubmitIsCut(t)
  PROVE  DorisInv'
<1> USE DEF DorisInv, Doris!TypeOK, Doris!Fault, Doris!rowVars, Doris!dorisVars, JobsKeepStep,
   DorisFinishedIsStored, DorisAnswersAreStored
<1>1. CASE Doris!Submit(t)
  BY <1>1 DEF Doris!Submit, Doris!Submitted, Doris!Labels, Doris!NoLabel
<1>2. CASE Doris!SubmitFails(t)
  BY <1>2 DEF Doris!SubmitFails
<1>3. CASE Doris!Poll(t)
  <2>1. CASE shown.state = "FINISHED"
    <3>1. shown.label = <<t[1]>> /\ shown.label # Doris!NoLabel
      BY <1>3 DEF Doris!Poll, Doris!Shows, Doris!NoLabel
    <3>2. t[1] \in stored
      BY <2>1, <3>1
    <3>3. \A u \in Tasks : run'[u] = "done" => run[u] = "done" \/ u = t
      BY <1>3 DEF Doris!Poll
    <3>4. Doris!TypeOK' /\ JobsKeepStep' /\ DorisFinishedIsStored'
      BY <1>3, <2>1 DEF Doris!Poll
    <3>5. DorisAnswersAreStored'
      BY <1>3, <3>2, <3>3 DEF Doris!Poll
    <3> QED
      BY <3>4, <3>5
  <2>2. CASE shown.state # "FINISHED"
    BY <1>3, <2>2 DEF Doris!Poll
  <2> QED
    BY <2>1, <2>2
<1>4. CASE Doris!PollFails(t)
  BY <1>4 DEF Doris!PollFails
<1>5. CASE Doris!SubmitIsCut(t)
  BY <1>5 DEF Doris!SubmitIsCut, Doris!Submitted, Doris!Labels, Doris!NoLabel
<1> QED
  BY <1>1, <1>2, <1>3, <1>4, <1>5 DEF Doris!Agent

\* Doris stores what it finishes, and restarts store nothing.
LEMMA DorisRepositoryInv ==
  ASSUME DorisInv, Doris!Finish \/ Doris!Cancel \/ Doris!AgentRestart \/ Doris!ServerRestart
  PROVE  DorisInv'
<1> USE DEF DorisInv, Doris!TypeOK, Doris!Open, Doris!AtWork, Doris!Fault, Doris!rowVars,
   Doris!dorisVars, JobsKeepStep, DorisFinishedIsStored, DorisAnswersAreStored
<1>1. CASE Doris!Finish
  <2>1. shown.label # Doris!NoLabel => shown.label[1] \in Doris!Labels
    OBVIOUS
  <2>2. Doris!TypeOK'
    BY <1>1, <2>1 DEF Doris!Finish
  <2>3. JobsKeepStep' /\ DorisFinishedIsStored' /\ DorisAnswersAreStored'
    BY <1>1 DEF Doris!Finish
  <2> QED
    BY <2>2, <2>3
<1>2. CASE Doris!Cancel
  BY <1>2 DEF Doris!Cancel
<1>3. CASE Doris!AgentRestart
  BY <1>3 DEF Doris!AgentRestart
<1>4. CASE Doris!ServerRestart
  BY <1>4 DEF Doris!ServerRestart
<1> QED
  BY <1>1, <1>2, <1>3, <1>4

LEMMA DorisNextInv == ASSUME DorisInv, [Doris!Next]_Doris!vars PROVE DorisInv'
<1>1. CASE Doris!Next
  BY <1>1, DorisServiceInv, DorisAgentInv, DorisRepositoryInv DEF Doris!Next
<1>2. CASE UNCHANGED Doris!vars
  BY <1>2 DEF Doris!vars, Doris!rowVars, Doris!dorisVars, DorisInv, Doris!TypeOK, JobsKeepStep,
     DorisFinishedIsStored, DorisAnswersAreStored
<1> QED
  BY <1>1, <1>2

LEMMA DorisInvImplies == DorisInv => Doris!TypeOK /\ Doris!BackupIsThere
BY DEF DorisInv, Doris!BackupIsThere, JobsKeepStep, DorisAnswersAreStored

\* A registered snapshot is in the repository, whatever other jobs Doris shows
\* in its place.
THEOREM DorisRegisteredIsThere == Doris!Spec => [](Doris!TypeOK /\ Doris!BackupIsThere)
<1>1. Doris!Init => DorisInv
  BY DorisInitInv
<1>2. DorisInv /\ [Doris!Next]_Doris!vars => DorisInv'
  BY DorisNextInv
<1> QED
  BY <1>1, <1>2, DorisInvImplies, PTL DEF Doris!Spec

-------------------------------------------------------------------------------
(* The repository: packages *)

\* A row's path is that of its checksum in the package's folder.
SoftwareRowsNameTheirContent ==
  \A k \in Packages : row[k] # Software!NoPath => row[k].path = <<Folder[k], row[k].sha256>>

\* An upload that has renamed its file finds it there, unless the same content
\* was uploaded again and refused.
SoftwareRenamedIsThere ==
  \A u \in Software!Uploads : pc[u] = "renamed" =>
    stored[Software!Path(u)] = {content[u]} \/ Software!Repeated(package[u], content[u])

SoftwareInv ==
  Software!TypeOK /\ SoftwareRowsNameTheirContent /\ SoftwareRenamedIsThere
    /\ Software!PackageIsThere

LEMMA SoftwareInitInv == Software!Init => SoftwareInv
BY DEF Software!Init, SoftwareInv, Software!TypeOK, SoftwareRowsNameTheirContent,
   SoftwareRenamedIsThere, Software!PackageIsThere, Software!Paths

\* Steps that touch neither a file nor a row, and refuse nothing new.
LEMMA SoftwareIdleInv ==
  ASSUME SoftwareInv, UNCHANGED <<package, content, stored, row>>, Software!TypeOK',
         \A u \in Software!Uploads : pc'[u] = "renamed" => pc[u] = "renamed",
         \A u \in Software!Uploads : pc[u] = "refused" => pc'[u] = "refused"
  PROVE  SoftwareInv'
<1>2. SoftwareRowsNameTheirContent'
  BY DEF SoftwareInv, SoftwareRowsNameTheirContent, Software!NoPath
<1>3. SoftwareRenamedIsThere'
  <2> SUFFICES ASSUME NEW u \in Software!Uploads, pc'[u] = "renamed"
               PROVE  (stored[Software!Path(u)] = {content[u]} \/ Software!Repeated(package[u],
               content[u]))'
    BY DEF SoftwareRenamedIsThere
  <2> QED
    BY DEF SoftwareInv, SoftwareRenamedIsThere, Software!Repeated, Software!Path
<1>4. Software!PackageIsThere'
  <2> SUFFICES ASSUME NEW k \in Packages, row[k] # Software!NoPath
               PROVE  (stored[row[k].path] = {row[k].sha256} \/ Software!Repeated(k,
               row[k].sha256))'
    BY DEF Software!PackageIsThere, Software!NoPath
  <2> QED
    BY DEF SoftwareInv, Software!PackageIsThere, Software!Repeated
<1> QED
  BY <1>2, <1>3, <1>4 DEF SoftwareInv

LEMMA SoftwarePathIsAPath ==
  ASSUME Software!TypeOK, NEW u \in Software!Uploads
  PROVE  Software!Path(u) \in Software!Paths
BY DEF Software!TypeOK, Software!Path, Software!Paths, Software!Folders

\* A file is renamed over another of the same content only.
LEMMA SoftwareRenameInv ==
  ASSUME SoftwareInv, NEW u \in Software!Uploads, Software!Rename(u)
  PROVE  SoftwareInv'
<1>1. /\ stored' = [stored EXCEPT ![Software!Path(u)] = {content[u]}]
      /\ Software!Path(u) \in Software!Paths
      /\ pc' = [pc EXCEPT ![u] = "renamed"] /\ pc[u] = "received"
      /\ UNCHANGED <<package, content, row, faults>>
  BY SoftwarePathIsAPath DEF Software!Rename, Software!Goto, Software!uploadVars, SoftwareInv
<1>2. Software!TypeOK'
  BY <1>1 DEF SoftwareInv, Software!TypeOK
<1>3. \A v \in Software!Uploads : pc[v] = "refused" => pc'[v] = "refused"
  BY <1>1 DEF SoftwareInv, Software!TypeOK
<1>4. \A p \in Software!Paths :
        stored'[p] = IF p = Software!Path(u) THEN {content[u]} ELSE stored[p]
  BY <1>1 DEF SoftwareInv, Software!TypeOK
<1>5. SoftwareRowsNameTheirContent'
  BY <1>1 DEF SoftwareInv, SoftwareRowsNameTheirContent, Software!NoPath
<1>6. SoftwareRenamedIsThere'
  <2> SUFFICES ASSUME NEW v \in Software!Uploads, pc'[v] = "renamed"
               PROVE  stored'[Software!Path(v)] = {content[v]} \/ Software!Repeated(package[v],
               content[v])'
    BY <1>1 DEF SoftwareRenamedIsThere, Software!Path
  <2>1. CASE Software!Path(v) = Software!Path(u)
    BY <1>1, <1>4, <2>1 DEF Software!Path
  <2>2. CASE Software!Path(v) # Software!Path(u)
    <3>1. pc[v] = "renamed" /\ Software!Path(v) \in Software!Paths
      BY <1>1, <2>2, SoftwarePathIsAPath DEF SoftwareInv, Software!TypeOK
    <3> QED
      BY <1>1, <1>3, <1>4, <2>2, <3>1 DEF SoftwareInv, SoftwareRenamedIsThere, Software!Repeated
  <2> QED
    BY <2>1, <2>2
<1>7. Software!PackageIsThere'
  <2> SUFFICES ASSUME NEW k \in Packages, row[k] # Software!NoPath
               PROVE  stored'[row[k].path] = {row[k].sha256} \/ Software!Repeated(k,
               row[k].sha256)'
    BY <1>1 DEF Software!PackageIsThere, Software!NoPath
  <2>1. row[k].path = <<Folder[k], row[k].sha256>> /\ row[k].path \in Software!Paths
    BY DEF SoftwareInv, Software!TypeOK, SoftwareRowsNameTheirContent
  <2>2. CASE row[k].path = Software!Path(u)
    BY <1>4, <2>1, <2>2 DEF Software!Path
  <2>3. CASE row[k].path # Software!Path(u)
    BY <1>1, <1>3, <1>4, <2>1, <2>3 DEF SoftwareInv, Software!PackageIsThere, Software!Repeated
  <2> QED
    BY <2>2, <2>3
<1> QED
  BY <1>2, <1>5, <1>6, <1>7 DEF SoftwareInv

\* A row is inserted for a file that is there.
LEMMA SoftwareCreateInv ==
  ASSUME SoftwareInv, NEW u \in Software!Uploads, Software!Create(u)
  PROVE  SoftwareInv'
<1>1. /\ row' = [row EXCEPT ![package[u]] = [path |-> Software!Path(u), sha256 |-> content[u]]]
      /\ pc' = [pc EXCEPT ![u] = "available"] /\ pc[u] = "renamed"
      /\ package[u] \in Packages /\ content[u] \in Contents /\ Software!Path(u) \in Software!Paths
      /\ UNCHANGED <<package, content, stored, faults>>
  BY SoftwarePathIsAPath DEF Software!Create, Software!Goto, Software!uploadVars, SoftwareInv,
     Software!TypeOK
<1>2. Software!TypeOK'
  BY <1>1 DEF SoftwareInv, Software!TypeOK
<1>3. \A v \in Software!Uploads : pc[v] = "refused" => pc'[v] = "refused"
  BY <1>1 DEF SoftwareInv, Software!TypeOK
<1>4. /\ row'[package[u]].path = Software!Path(u) /\ row'[package[u]].sha256 = content[u]
      /\ \A k \in Packages : k # package[u] => row'[k] = row[k]
  BY <1>1 DEF SoftwareInv, Software!TypeOK
<1>5. SoftwareRowsNameTheirContent'
  BY <1>4 DEF SoftwareInv, SoftwareRowsNameTheirContent, Software!Path, Software!NoPath
<1>6. SoftwareRenamedIsThere'
  BY <1>1, <1>3 DEF SoftwareInv, Software!TypeOK, SoftwareRenamedIsThere, Software!Repeated,
     Software!Path
<1>7. Software!PackageIsThere'
  <2> SUFFICES ASSUME NEW k \in Packages, row'[k] # Software!NoPath
               PROVE  (stored[row[k].path] = {row[k].sha256} \/ Software!Repeated(k,
               row[k].sha256))'
    BY <1>1 DEF Software!PackageIsThere, Software!NoPath
  <2>1. CASE k = package[u]
    BY <1>1, <1>3, <1>4, <2>1 DEF SoftwareInv, SoftwareRenamedIsThere, Software!Repeated
  <2>2. CASE k # package[u]
    BY <1>1, <1>3, <1>4, <2>2 DEF SoftwareInv, Software!PackageIsThere, Software!Repeated
  <2> QED
    BY <2>1, <2>2
<1> QED
  BY <1>2, <1>5, <1>6, <1>7 DEF SoftwareInv

\* What a refused upload removes is its own path, which says what it held.
LEMMA SoftwareRemoveInv ==
  ASSUME SoftwareInv, NEW u \in Software!Uploads, Software!Remove(u)
  PROVE  SoftwareInv'
<1>1. /\ stored' = [stored EXCEPT ![Software!Path(u)] = {}]
      /\ Software!Path(u) \in Software!Paths
      /\ pc' = [pc EXCEPT ![u] = "refused"] /\ pc[u] = "removing"
      /\ UNCHANGED <<package, content, row, faults>>
  BY SoftwarePathIsAPath DEF Software!Remove, Software!Goto, Software!uploadVars, SoftwareInv
<1>2. Software!TypeOK'
  BY <1>1 DEF SoftwareInv, Software!TypeOK
<1>3. /\ \A v \in Software!Uploads : pc[v] = "refused" => pc'[v] = "refused"
      /\ pc'[u] = "refused"
  BY <1>1 DEF SoftwareInv, Software!TypeOK
<1>4. \A p \in Software!Paths : p # Software!Path(u) => stored'[p] = stored[p]
  BY <1>1 DEF SoftwareInv, Software!TypeOK
<1>5. SoftwareRowsNameTheirContent'
  BY <1>1 DEF SoftwareInv, SoftwareRowsNameTheirContent, Software!NoPath
<1>6. SoftwareRenamedIsThere'
  <2> SUFFICES ASSUME NEW v \in Software!Uploads, pc'[v] = "renamed"
               PROVE  stored'[Software!Path(v)] = {content[v]} \/ Software!Repeated(package[v],
               content[v])'
    BY <1>1 DEF SoftwareRenamedIsThere, Software!Path
  <2>1. pc[v] = "renamed" /\ Software!Path(v) \in Software!Paths
    BY <1>1, SoftwarePathIsAPath DEF SoftwareInv, Software!TypeOK
  <2>2. CASE Software!Path(v) = Software!Path(u)
    BY <1>1, <1>3, <2>2 DEF Software!Repeated, Software!Path
  <2>3. CASE Software!Path(v) # Software!Path(u)
    BY <1>1, <1>3, <1>4, <2>1, <2>3 DEF SoftwareInv, SoftwareRenamedIsThere, Software!Repeated
  <2> QED
    BY <2>2, <2>3
<1>7. Software!PackageIsThere'
  <2> SUFFICES ASSUME NEW k \in Packages, row[k] # Software!NoPath
               PROVE  stored'[row[k].path] = {row[k].sha256} \/ Software!Repeated(k,
               row[k].sha256)'
    BY <1>1 DEF Software!PackageIsThere, Software!NoPath
  <2>1. row[k].path = <<Folder[k], row[k].sha256>> /\ row[k].path \in Software!Paths
    BY DEF SoftwareInv, Software!TypeOK, SoftwareRowsNameTheirContent
  <2>2. CASE row[k].path = Software!Path(u)
    BY <1>1, <1>3, <2>1, <2>2 DEF Software!Repeated, Software!Path
  <2>3. CASE row[k].path # Software!Path(u)
    BY <1>1, <1>3, <1>4, <2>1, <2>3 DEF SoftwareInv, Software!PackageIsThere, Software!Repeated
  <2> QED
    BY <2>2, <2>3
<1> QED
  BY <1>2, <1>5, <1>6, <1>7 DEF SoftwareInv

LEMMA SoftwareNextInv == ASSUME SoftwareInv, [Software!Next]_Software!vars PROVE SoftwareInv'
<1>1. ASSUME NEW u \in Software!Uploads, Software!Store(u) PROVE SoftwareInv'
  <2>1. CASE Software!Receive(u)
    BY <2>1, SoftwareIdleInv DEF Software!Receive, Software!Goto, Software!uploadVars,
       SoftwareInv, Software!TypeOK
  <2>2. CASE Software!ReceiveFails(u)
    BY <2>2, SoftwareIdleInv DEF Software!ReceiveFails, Software!Goto, Software!uploadVars,
       SoftwareInv, Software!TypeOK
  <2>3. CASE Software!CreateIsRefused(u)
    BY <2>3, SoftwareIdleInv DEF Software!CreateIsRefused, Software!Goto, Software!uploadVars,
       SoftwareInv, Software!TypeOK
  <2>4. CASE Software!CreateFails(u)
    BY <2>4, SoftwareIdleInv DEF Software!CreateFails, Software!Fault, Software!Goto,
       Software!uploadVars, SoftwareInv, Software!TypeOK
  <2> QED
    BY <1>1, <2>1, <2>2, <2>3, <2>4, SoftwareRenameInv, SoftwareCreateInv,
       SoftwareRemoveInv DEF Software!Store
<1>2. CASE Software!ServerRestart
  BY <1>2, SoftwareIdleInv DEF Software!ServerRestart, Software!Fault, Software!uploadVars,
     SoftwareInv, Software!TypeOK
<1>3. CASE UNCHANGED Software!vars
  BY <1>3, SoftwareIdleInv DEF Software!vars, Software!uploadVars, SoftwareInv, Software!TypeOK
<1> QED
  BY <1>1, <1>2, <1>3 DEF Software!Next

LEMMA SoftwareInvImplies == SoftwareInv => Software!TypeOK /\ Software!PackageIsThere
BY DEF SoftwareInv

\* An available package has its file with the checksum of its row, unless the
\* very same content was uploaded again and refused.
THEOREM SoftwareAvailableIsThere ==
  Software!Spec => [](Software!TypeOK /\ Software!PackageIsThere)
<1>1. Software!Init => SoftwareInv
  BY SoftwareInitInv
<1>2. SoftwareInv /\ [Software!Next]_Software!vars => SoftwareInv'
  BY SoftwareNextInv
<1> QED
  BY <1>1, <1>2, SoftwareInvImplies, PTL DEF Software!Spec
===============================================================================
