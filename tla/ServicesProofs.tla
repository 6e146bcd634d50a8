------------------------------ MODULE ServicesProofs ------------------------------
(***************************************************************************)
(* The properties of Services, for every value of its constants: the       *)
(* invariants of the components, which StoredFileProofs and                *)
(* OperationProofs prove in the variables of each, hold of the component   *)
(* in hand.                                                                *)
(***************************************************************************)
EXTENDS Services, TLAPS

File == INSTANCE StoredFileProofs WITH
  Tasks <- BackupTasks,
  pc <- x1, job <- x2, run <- x3, faults <- x11,
  file <- x4, writer <- x5,
  second <- x4, made <- x5, manifest <- x6, clock <- x7,
  shown <- x4, stored <- x5,
  package <- x2, content <- x3, row <- x4

Operation == INSTANCE OperationProofs WITH
  pc <- x1, run <- x3, faults <- x11,
  up <- x2, status <- x4, last <- x5, wrote <- x6,
  step <- x2, credential <- x5, account <- x6, channel <- x7, link <- x8,
  row <- x9, answer <- x10,
  target <- x2, size <- x4, used <- x5, lost <- x6, outgrown <- x7,
  gone <- x3, instance <- x4,
  token <- x2, session <- x3, issued <- x4, expired <- x5,
  latest <- x1, age <- x2, due <- x3, at <- x4, seen <- x5, select <- x6,
  held <- x7, firing <- x8, acked <- x9, since <- x10

-------------------------------------------------------------------------------
(* What the proofs are about are the components of Services. *)

LEMMA MySQLIs ==
  /\ MySQL!Init <=> File!MySQL!Init
  /\ MySQL!Next <=> File!MySQL!Next
  /\ MySQL!TypeOK <=> File!MySQL!TypeOK
  /\ MySQL!BackupIsThere <=> File!MySQL!BackupIsThere
BY DEF MySQL!Nobody, MySQL!hostVars, MySQL!vars, MySQL!AtWork, MySQL!Open, MySQL!KeyFree,
   MySQL!Init, MySQL!Fault, MySQL!CreateTask, MySQL!Begin, MySQL!BeginFails,
   MySQL!Dispatch, MySQL!Fail, MySQL!BackupFails, MySQL!DispatchIsLost, MySQL!Register,
   MySQL!RegisterFails, MySQL!Succeed, MySQL!OpenNew, MySQL!OpenFails, MySQL!DumpEnds,
   MySQL!DumpFails, MySQL!AgentRestart, MySQL!ServerRestart, MySQL!Service, MySQL!Agent,
   MySQL!Next, MySQL!TypeOK, MySQL!BackupIsThere, File!MySQL!Nobody, File!MySQL!hostVars,
   File!MySQL!vars, File!MySQL!AtWork, File!MySQL!Open, File!MySQL!KeyFree,
   File!MySQL!Init, File!MySQL!Fault, File!MySQL!CreateTask, File!MySQL!Begin,
   File!MySQL!BeginFails, File!MySQL!Dispatch, File!MySQL!Fail, File!MySQL!BackupFails,
   File!MySQL!DispatchIsLost, File!MySQL!Register, File!MySQL!RegisterFails,
   File!MySQL!Succeed, File!MySQL!OpenNew, File!MySQL!OpenFails, File!MySQL!DumpEnds,
   File!MySQL!DumpFails, File!MySQL!AgentRestart, File!MySQL!ServerRestart,
   File!MySQL!Service, File!MySQL!Agent, File!MySQL!Next, File!MySQL!TypeOK,
   File!MySQL!BackupIsThere

LEMMA PostgresIs ==
  /\ Postgres!Init <=> File!Postgres!Init
  /\ Postgres!Next <=> File!Postgres!Next
  /\ Postgres!TypeOK <=> File!Postgres!TypeOK
  /\ Postgres!BackupIsThere <=> File!Postgres!BackupIsThere
BY DEF Postgres!hostVars, Postgres!vars, Postgres!AtWork, Postgres!Open, Postgres!KeyFree,
   Postgres!Init, Postgres!Fault, Postgres!CreateBackupTask, Postgres!Begin,
   Postgres!BeginFails, Postgres!Dispatch, Postgres!Fail, Postgres!BackupFails,
   Postgres!DispatchIsLost, Postgres!Register, Postgres!RegisterFails, Postgres!Succeed,
   Postgres!Writing, Postgres!StartDump, Postgres!DumpIsRefused, Postgres!DumpEnds,
   Postgres!DumpFails, Postgres!HashFile, Postgres!AgentRestart, Postgres!ServerRestart,
   Postgres!Service, Postgres!Agent, Postgres!Next, Postgres!TypeOK, Postgres!Intact,
   Postgres!BackupIsThere, File!Postgres!hostVars, File!Postgres!vars,
   File!Postgres!AtWork, File!Postgres!Open, File!Postgres!KeyFree, File!Postgres!Init,
   File!Postgres!Fault, File!Postgres!CreateBackupTask, File!Postgres!Begin,
   File!Postgres!BeginFails, File!Postgres!Dispatch, File!Postgres!Fail,
   File!Postgres!BackupFails, File!Postgres!DispatchIsLost, File!Postgres!Register,
   File!Postgres!RegisterFails, File!Postgres!Succeed, File!Postgres!Writing,
   File!Postgres!StartDump, File!Postgres!DumpIsRefused, File!Postgres!DumpEnds,
   File!Postgres!DumpFails, File!Postgres!HashFile, File!Postgres!AgentRestart,
   File!Postgres!ServerRestart, File!Postgres!Service, File!Postgres!Agent,
   File!Postgres!Next, File!Postgres!TypeOK, File!Postgres!Intact,
   File!Postgres!BackupIsThere

LEMMA RMANIs ==
  /\ RMAN!Init <=> File!RMAN!Init
  /\ RMAN!Next <=> File!RMAN!Next
  /\ RMAN!TypeOK <=> File!RMAN!TypeOK
  /\ RMAN!BackupIsThere <=> File!RMAN!BackupIsThere
BY DEF RMAN!rowVars, RMAN!agentVars, RMAN!vars, RMAN!AtWork, RMAN!Open, RMAN!KeyFree,
   RMAN!Init, RMAN!Fault, RMAN!Tick, RMAN!CreateRMANBackupTask, RMAN!Begin,
   RMAN!BeginFails, RMAN!Dispatch, RMAN!Fail, RMAN!BackupFails, RMAN!DispatchIsLost,
   RMAN!Register, RMAN!RegisterFails, RMAN!Succeed, RMAN!StartRMAN, RMAN!WritePiece,
   RMAN!SamePrefix, RMAN!ListPieces, RMAN!RMANFails, RMAN!AgentRestart, RMAN!ServerRestart,
   RMAN!Service, RMAN!Agent, RMAN!Next, RMAN!TypeOK, RMAN!BackupIsThere, File!RMAN!rowVars,
   File!RMAN!agentVars, File!RMAN!vars, File!RMAN!AtWork, File!RMAN!Open,
   File!RMAN!KeyFree, File!RMAN!Init, File!RMAN!Fault, File!RMAN!Tick,
   File!RMAN!CreateRMANBackupTask, File!RMAN!Begin, File!RMAN!BeginFails,
   File!RMAN!Dispatch, File!RMAN!Fail, File!RMAN!BackupFails, File!RMAN!DispatchIsLost,
   File!RMAN!Register, File!RMAN!RegisterFails, File!RMAN!Succeed, File!RMAN!StartRMAN,
   File!RMAN!WritePiece, File!RMAN!SamePrefix, File!RMAN!ListPieces, File!RMAN!RMANFails,
   File!RMAN!AgentRestart, File!RMAN!ServerRestart, File!RMAN!Service, File!RMAN!Agent,
   File!RMAN!Next, File!RMAN!TypeOK, File!RMAN!BackupIsThere

LEMMA DorisIs ==
  /\ Doris!Init <=> File!Doris!Init
  /\ Doris!Next <=> File!Doris!Next
  /\ Doris!TypeOK <=> File!Doris!TypeOK
  /\ Doris!BackupIsThere <=> File!Doris!BackupIsThere
BY DEF Doris!Labels, Doris!NoLabel, Doris!rowVars, Doris!dorisVars, Doris!vars,
   Doris!AtWork, Doris!Open, Doris!KeyFree, Doris!Init, Doris!Fault,
   Doris!CreateBackupTask, Doris!Begin, Doris!BeginFails, Doris!Dispatch, Doris!Fail,
   Doris!BackupFails, Doris!DispatchIsLost, Doris!Register, Doris!RegisterFails,
   Doris!Succeed, Doris!Accepts, Doris!Submitted, Doris!Submit, Doris!SubmitFails,
   Doris!SubmitIsCut, Doris!Shows, Doris!Poll, Doris!PollFails, Doris!Finish, Doris!Cancel,
   Doris!AgentRestart, Doris!ServerRestart, Doris!Service, Doris!Agent, Doris!Next,
   Doris!TypeOK, Doris!BackupIsThere, File!Doris!Labels, File!Doris!NoLabel,
   File!Doris!rowVars, File!Doris!dorisVars, File!Doris!vars, File!Doris!AtWork,
   File!Doris!Open, File!Doris!KeyFree, File!Doris!Init, File!Doris!Fault,
   File!Doris!CreateBackupTask, File!Doris!Begin, File!Doris!BeginFails,
   File!Doris!Dispatch, File!Doris!Fail, File!Doris!BackupFails, File!Doris!DispatchIsLost,
   File!Doris!Register, File!Doris!RegisterFails, File!Doris!Succeed, File!Doris!Accepts,
   File!Doris!Submitted, File!Doris!Submit, File!Doris!SubmitFails, File!Doris!SubmitIsCut,
   File!Doris!Shows, File!Doris!Poll, File!Doris!PollFails, File!Doris!Finish,
   File!Doris!Cancel, File!Doris!AgentRestart, File!Doris!ServerRestart,
   File!Doris!Service, File!Doris!Agent, File!Doris!Next, File!Doris!TypeOK,
   File!Doris!BackupIsThere

LEMMA ControlIs ==
  /\ Control!Init <=> Operation!Control!Init
  /\ Control!Next <=> Operation!Control!Next
  /\ Control!TypeOK <=> Operation!Control!TypeOK
  /\ Control!StatusFollowsLast <=> Operation!Control!StatusFollowsLast
BY DEF Control!Nobody, Control!Itself, Control!hostVars, Control!rowVars, Control!vars,
   Control!AtWork, Control!Open, Control!KeyFree, Control!Wanted, Control!Init,
   Control!Fault, Control!CreateTask, Control!Dispatch, Control!DispatchFails,
   Control!DispatchIsLost, Control!Answer, Control!UpdateStatus, Control!UpdateStatusFails,
   Control!Execute, Control!ExecuteFails, Control!Verify, Control!Crash,
   Control!AgentRestart, Control!ServerRestart, Control!Service, Control!Agent,
   Control!Next, Control!TypeOK, Control!StatusFollowsLast, Operation!Control!Nobody,
   Operation!Control!Itself, Operation!Control!hostVars, Operation!Control!rowVars,
   Operation!Control!vars, Operation!Control!AtWork, Operation!Control!Open,
   Operation!Control!KeyFree, Operation!Control!Wanted, Operation!Control!Init,
   Operation!Control!Fault, Operation!Control!CreateTask, Operation!Control!Dispatch,
   Operation!Control!DispatchFails, Operation!Control!DispatchIsLost,
   Operation!Control!Answer, Operation!Control!UpdateStatus,
   Operation!Control!UpdateStatusFails, Operation!Control!Execute,
   Operation!Control!ExecuteFails, Operation!Control!Verify, Operation!Control!Crash,
   Operation!Control!AgentRestart, Operation!Control!ServerRestart,
   Operation!Control!Service, Operation!Control!Agent, Operation!Control!Next,
   Operation!Control!TypeOK, Operation!Control!StatusFollowsLast

LEMMA ReplicationIs ==
  /\ Replication!Init <=> Operation!Replication!Init
  /\ Replication!Next <=> Operation!Replication!Next
  /\ Replication!TypeOK <=> Operation!Replication!TypeOK
  /\ Replication!FollowsItsRow <=> Operation!Replication!FollowsItsRow
BY DEF Replication!Primary, Replication!Replica, Replication!Replicas, Replication!Nobody,
   Replication!taskVars, Replication!mysqlVars, Replication!rowVars, Replication!vars,
   Replication!Steps, Replication!At, Replication!Open, Replication!KeyFree,
   Replication!Account, Replication!Accounts, Replication!Init, Replication!Fault,
   Replication!CreateTask, Replication!Send, Replication!Begin, Replication!BeginFails,
   Replication!Advance, Replication!StepFails, Replication!StatementFails,
   Replication!Verified, Replication!Register, Replication!RegisterIsRefused,
   Replication!Succeed, Replication!DispatchIsLost, Replication!StatusOf,
   Replication!RefreshReads, Replication!RefreshWrites, Replication!Ends,
   Replication!Precheck, Replication!Prepare, Replication!Configure,
   Replication!ConfigureFails, Replication!ReadStatus, Replication!RequestFails,
   Replication!LogsIn, Replication!Connect, Replication!Disconnect,
   Replication!AgentRestart, Replication!ServerRestart, Replication!Service,
   Replication!Agent, Replication!Next, Replication!TypeOK, Replication!Touched,
   Replication!FollowsItsRow, Operation!Replication!Primary, Operation!Replication!Replica,
   Operation!Replication!Replicas, Operation!Replication!Nobody,
   Operation!Replication!taskVars, Operation!Replication!mysqlVars,
   Operation!Replication!rowVars, Operation!Replication!vars, Operation!Replication!Steps,
   Operation!Replication!At, Operation!Replication!Open, Operation!Replication!KeyFree,
   Operation!Replication!Account, Operation!Replication!Accounts,
   Operation!Replication!Init, Operation!Replication!Fault,
   Operation!Replication!CreateTask, Operation!Replication!Send,
   Operation!Replication!Begin, Operation!Replication!BeginFails,
   Operation!Replication!Advance, Operation!Replication!StepFails,
   Operation!Replication!StatementFails, Operation!Replication!Verified,
   Operation!Replication!Register, Operation!Replication!RegisterIsRefused,
   Operation!Replication!Succeed, Operation!Replication!DispatchIsLost,
   Operation!Replication!StatusOf, Operation!Replication!RefreshReads,
   Operation!Replication!RefreshWrites, Operation!Replication!Ends,
   Operation!Replication!Precheck, Operation!Replication!Prepare,
   Operation!Replication!Configure, Operation!Replication!ConfigureFails,
   Operation!Replication!ReadStatus, Operation!Replication!RequestFails,
   Operation!Replication!LogsIn, Operation!Replication!Connect,
   Operation!Replication!Disconnect, Operation!Replication!AgentRestart,
   Operation!Replication!ServerRestart, Operation!Replication!Service,
   Operation!Replication!Agent, Operation!Replication!Next, Operation!Replication!TypeOK,
   Operation!Replication!Touched, Operation!Replication!FollowsItsRow

LEMMA DatafileIs ==
  /\ Datafile!Init <=> Operation!Datafile!Init
  /\ Datafile!Next <=> Operation!Datafile!Next
  /\ Datafile!TypeOK <=> Operation!Datafile!TypeOK
  /\ Datafile!GrowsOnlyStep <=> Operation!Datafile!GrowsOnlyStep
BY DEF Datafile!Files, Datafile!Sizes, Datafile!taskVars, Datafile!oracleVars,
   Datafile!history, Datafile!vars, Datafile!Open, Datafile!KeyFree, Datafile!Init,
   Datafile!Fault, Datafile!Create, Datafile!CreateAddTask, Datafile!CreateResizeTask,
   Datafile!Handle, Datafile!AddHandler, Datafile!ResizeHandler, Datafile!LoadRuntimeFails,
   Datafile!RunMutation, Datafile!DispatchIsLost, Datafile!CheckAdd, Datafile!AddDatafile,
   Datafile!Grows, Datafile!CheckResize, Datafile!Resize, Datafile!Verify,
   Datafile!RequestFails, Datafile!Extend, Datafile!AgentRestart, Datafile!ServerRestart,
   Datafile!Service, Datafile!Agent, Datafile!Next, Datafile!TypeOK, Datafile!Overtaken,
   Datafile!GrowsOnlyStep, Operation!Datafile!Files, Operation!Datafile!Sizes,
   Operation!Datafile!taskVars, Operation!Datafile!oracleVars, Operation!Datafile!history,
   Operation!Datafile!vars, Operation!Datafile!Open, Operation!Datafile!KeyFree,
   Operation!Datafile!Init, Operation!Datafile!Fault, Operation!Datafile!Create,
   Operation!Datafile!CreateAddTask, Operation!Datafile!CreateResizeTask,
   Operation!Datafile!Handle, Operation!Datafile!AddHandler,
   Operation!Datafile!ResizeHandler, Operation!Datafile!LoadRuntimeFails,
   Operation!Datafile!RunMutation, Operation!Datafile!DispatchIsLost,
   Operation!Datafile!CheckAdd, Operation!Datafile!AddDatafile, Operation!Datafile!Grows,
   Operation!Datafile!CheckResize, Operation!Datafile!Resize, Operation!Datafile!Verify,
   Operation!Datafile!RequestFails, Operation!Datafile!Extend,
   Operation!Datafile!AgentRestart, Operation!Datafile!ServerRestart,
   Operation!Datafile!Service, Operation!Datafile!Agent, Operation!Datafile!Next,
   Operation!Datafile!TypeOK, Operation!Datafile!Overtaken,
   Operation!Datafile!GrowsOnlyStep

LEMMA OnboardIs ==
  /\ Onboard!Init <=> Operation!Onboard!Init
  /\ Onboard!Next <=> Operation!Onboard!Next
  /\ Onboard!TypeOK <=> Operation!Onboard!TypeOK
  /\ Onboard!SecretsAreUsed <=> Operation!Onboard!SecretsAreUsed
BY DEF Onboard!Requests, Onboard!NoRequest, Onboard!tableVars, Onboard!vars,
   Onboard!AtWork, Onboard!Init, Onboard!Fault, Onboard!Fails, Onboard!Goto,
   Onboard!Decide, Onboard!OnboardOracle, Onboard!OnboardPostgres, Onboard!OnboardDoris,
   Onboard!StoreCredential, Onboard!StoreFails, Onboard!Write, Onboard!Insert,
   Onboard!InsertFails, Onboard!Answer, Onboard!AnswerFails, Onboard!Undo,
   Onboard!UndoFails, Onboard!ClientLeaves, Onboard!ServerRestart, Onboard!Onboard,
   Onboard!Failure, Onboard!Next, Onboard!TypeOK, Onboard!Registered,
   Onboard!SecretsAreUsed, Operation!Onboard!Requests, Operation!Onboard!NoRequest,
   Operation!Onboard!tableVars, Operation!Onboard!vars, Operation!Onboard!AtWork,
   Operation!Onboard!Init, Operation!Onboard!Fault, Operation!Onboard!Fails,
   Operation!Onboard!Goto, Operation!Onboard!Decide, Operation!Onboard!OnboardOracle,
   Operation!Onboard!OnboardPostgres, Operation!Onboard!OnboardDoris,
   Operation!Onboard!StoreCredential, Operation!Onboard!StoreFails,
   Operation!Onboard!Write, Operation!Onboard!Insert, Operation!Onboard!InsertFails,
   Operation!Onboard!Answer, Operation!Onboard!AnswerFails, Operation!Onboard!Undo,
   Operation!Onboard!UndoFails, Operation!Onboard!ClientLeaves,
   Operation!Onboard!ServerRestart, Operation!Onboard!Onboard, Operation!Onboard!Failure,
   Operation!Onboard!Next, Operation!Onboard!TypeOK, Operation!Onboard!Registered,
   Operation!Onboard!SecretsAreUsed

LEMMA TokensIs ==
  /\ Tokens!Init <=> Operation!Tokens!Init
  /\ Tokens!Next <=> Operation!Tokens!Next
  /\ Tokens!TypeOK <=> Operation!Tokens!TypeOK
  /\ Tokens!OneTokenPerSession <=> Operation!Tokens!OneTokenPerSession
BY DEF Tokens!Requests, Tokens!tableVars, Tokens!vars, Tokens!Init, Tokens!Fault,
   Tokens!Goto, Tokens!Login, Tokens!Refresh, Tokens!RefreshIsRefused, Tokens!Consume,
   Tokens!ConsumeFails, Tokens!StoreRefreshToken, Tokens!IssueFails, Tokens!Expire,
   Tokens!ServerRestart, Tokens!Request, Tokens!Next, Tokens!TypeOK, Tokens!Carries,
   Tokens!NeverForked, Tokens!NeverLost, Tokens!OneTokenPerSession,
   Operation!Tokens!Requests, Operation!Tokens!tableVars, Operation!Tokens!vars,
   Operation!Tokens!Init, Operation!Tokens!Fault, Operation!Tokens!Goto,
   Operation!Tokens!Login, Operation!Tokens!Refresh, Operation!Tokens!RefreshIsRefused,
   Operation!Tokens!Consume, Operation!Tokens!ConsumeFails,
   Operation!Tokens!StoreRefreshToken, Operation!Tokens!IssueFails,
   Operation!Tokens!Expire, Operation!Tokens!ServerRestart, Operation!Tokens!Request,
   Operation!Tokens!Next, Operation!Tokens!TypeOK, Operation!Tokens!Carries,
   Operation!Tokens!NeverForked, Operation!Tokens!NeverLost,
   Operation!Tokens!OneTokenPerSession

LEMMA SoftwareIs ==
  /\ Software!Init <=> File!Software!Init
  /\ Software!Next <=> File!Software!Next
  /\ Software!TypeOK <=> File!Software!TypeOK
  /\ Software!PackageIsThere <=> File!Software!PackageIsThere
BY DEF Software!Uploads, Software!NoPath, Software!uploadVars, Software!vars,
   Software!Folders, Software!Paths, Software!Path, Software!Init, Software!Fault,
   Software!Goto, Software!Receive, Software!ReceiveFails, Software!Rename,
   Software!Create, Software!CreateIsRefused, Software!CreateFails, Software!Remove,
   Software!ServerRestart, Software!Store, Software!Next, Software!TypeOK,
   Software!Repeated, Software!PackageIsThere, File!Software!Uploads, File!Software!NoPath,
   File!Software!uploadVars, File!Software!vars, File!Software!Folders,
   File!Software!Paths, File!Software!Path, File!Software!Init, File!Software!Fault,
   File!Software!Goto, File!Software!Receive, File!Software!ReceiveFails,
   File!Software!Rename, File!Software!Create, File!Software!CreateIsRefused,
   File!Software!CreateFails, File!Software!Remove, File!Software!ServerRestart,
   File!Software!Store, File!Software!Next, File!Software!TypeOK, File!Software!Repeated,
   File!Software!PackageIsThere

LEMMA AlertsIs ==
  /\ Alerts!Init <=> Operation!Alerts!Init
  /\ Alerts!Next <=> Operation!Alerts!Next
  /\ Alerts!TypeOK <=> Operation!Alerts!TypeOK
  /\ Alerts!AlertsAreTrue <=> Operation!Alerts!AlertsAreTrue
BY DEF Alerts!RuleIds, Alerts!Missing, Alerts!NoSnapshot, Alerts!Never, Alerts!metricVars,
   Alerts!evalVars, Alerts!eventVars, Alerts!vars, Alerts!Init, Alerts!Fault,
   Alerts!Smaller, Alerts!Later, Alerts!HasMetric, Alerts!Condition, Alerts!SeenTrue,
   Alerts!HeldFrom, Alerts!Satisfied, Alerts!IsOpen, Alerts!Evaluate, Alerts!ToNextRule,
   Alerts!SkipRule, Alerts!Recorded, Alerts!Wait, Alerts!FindEvent, Alerts!KeepEvent,
   Alerts!OpenEvent, Alerts!Resolve, Alerts!StatementFails, Alerts!Put, Alerts!Acknowledge,
   Alerts!Tick, Alerts!ServerRestart, Alerts!Engine, Alerts!Next, Alerts!Ticks,
   Alerts!TypeOK, Alerts!AlertsAreTrue, Operation!Alerts!RuleIds, Operation!Alerts!Missing,
   Operation!Alerts!NoSnapshot, Operation!Alerts!Never, Operation!Alerts!metricVars,
   Operation!Alerts!evalVars, Operation!Alerts!eventVars, Operation!Alerts!vars,
   Operation!Alerts!Init, Operation!Alerts!Fault, Operation!Alerts!Smaller,
   Operation!Alerts!Later, Operation!Alerts!HasMetric, Operation!Alerts!Condition,
   Operation!Alerts!SeenTrue, Operation!Alerts!HeldFrom, Operation!Alerts!Satisfied,
   Operation!Alerts!IsOpen, Operation!Alerts!Evaluate, Operation!Alerts!ToNextRule,
   Operation!Alerts!SkipRule, Operation!Alerts!Recorded, Operation!Alerts!Wait,
   Operation!Alerts!FindEvent, Operation!Alerts!KeepEvent, Operation!Alerts!OpenEvent,
   Operation!Alerts!Resolve, Operation!Alerts!StatementFails, Operation!Alerts!Put,
   Operation!Alerts!Acknowledge, Operation!Alerts!Tick, Operation!Alerts!ServerRestart,
   Operation!Alerts!Engine, Operation!Alerts!Next, Operation!Alerts!Ticks,
   Operation!Alerts!TypeOK, Operation!Alerts!AlertsAreTrue

-------------------------------------------------------------------------------
(* The invariant *)

\* The inductive invariant of the component in hand.
Inv ==
  /\ service = "mysql_backup" => File!MySQLInv
  /\ service = "postgres_backup" => File!PostgresInv
  /\ service = "rman_backup" => File!RMANInv
  /\ service = "doris_backup" => File!DorisInv
  /\ service = "control" => Operation!ControlInv
  /\ service = "replication" => Operation!ReplicationInv
  /\ service = "datafile" => Operation!DatafileInv
  /\ service = "onboard" => Operation!OnboardInv
  /\ service = "tokens" => Operation!TokensInv
  /\ service = "software" => File!SoftwareInv
  /\ service = "alerts" => Operation!AlertsInv

LEMMA InitInv == ASSUME Init PROVE Inv
<1>1. CASE service = "mysql_backup" /\ MySQL!Init
  BY <1>1, MySQLIs, File!MySQLInitInv DEF Inv
<1>2. CASE service = "postgres_backup" /\ Postgres!Init
  BY <1>2, PostgresIs, File!PostgresInitInv DEF Inv
<1>3. CASE service = "rman_backup" /\ RMAN!Init
  BY <1>3, RMANIs, File!RMANInitInv, BoundsAssumption DEF Inv
<1>4. CASE service = "doris_backup" /\ Doris!Init
  BY <1>4, DorisIs, File!DorisInitInv DEF Inv
<1>5. CASE service = "control" /\ Control!Init
  BY <1>5, ControlIs, Operation!ControlInitInv, TasksAssumption
     DEF Inv, Operation!ControlAuthorsDiffer, Operation!Control!Nobody,
       Operation!Control!Itself
<1>6. CASE service = "replication" /\ Replication!Init
  BY <1>6, ReplicationIs, Operation!ReplicationInitInv DEF Inv
<1>7. CASE service = "datafile" /\ Datafile!Init
  BY <1>7, DatafileIs, Operation!DatafileInitInv, BoundsAssumption DEF Inv
<1>8. CASE service = "onboard" /\ Onboard!Init
  BY <1>8, OnboardIs, Operation!OnboardInitInv, BoundsAssumption DEF Inv
<1>9. CASE service = "tokens" /\ Tokens!Init
  BY <1>9, TokensIs, Operation!TokensInitInv, BoundsAssumption DEF Inv
<1>10. CASE service = "software" /\ Software!Init
  BY <1>10, SoftwareIs, File!SoftwareInitInv DEF Inv
<1>11. CASE service = "alerts" /\ Alerts!Init
  BY <1>11, AlertsIs, Operation!AlertsInitInv, RulesAssumption, BoundsAssumption
     DEF Inv, Operation!AlertsRulesAreRules
<1> QED
  BY <1>1, <1>2, <1>3, <1>4, <1>5, <1>6, <1>7, <1>8, <1>9, <1>10, <1>11 DEF Init

\* A step of the component in hand keeps its invariant; the others have none to keep.
LEMMA NextInv == ASSUME Inv, [Next]_vars PROVE Inv'
<1>1. CASE Of("mysql_backup") /\ MySQL!Next
  BY <1>1, MySQLIs, File!MySQLNextInv, TasksAssumption DEF Inv, Of, File!MySQL!Nobody
<1>2. CASE Of("postgres_backup") /\ Postgres!Next
  BY <1>2, PostgresIs, File!PostgresNextInv, NoFileAssumption DEF Inv, Of
<1>3. CASE Of("rman_backup") /\ RMAN!Next
  BY <1>3, RMANIs, File!RMANNextInv, BoundsAssumption DEF Inv, Of
<1>4. CASE Of("doris_backup") /\ Doris!Next
  BY <1>4, DorisIs, File!DorisNextInv DEF Inv, Of
<1>5. CASE Of("control") /\ Control!Next
  BY <1>5, ControlIs, Operation!ControlNextInv, TasksAssumption
     DEF Inv, Of, Operation!ControlAuthorsDiffer, Operation!Control!Nobody,
       Operation!Control!Itself
<1>6. CASE Of("replication") /\ Replication!Next
  BY <1>6, ReplicationIs, Operation!ReplicationNextInv, TasksAssumption
     DEF Inv, Of, Operation!Replication!Nobody
<1>7. CASE Of("datafile") /\ Datafile!Next
  BY <1>7, DatafileIs, Operation!DatafileNextInv, BoundsAssumption DEF Inv, Of
<1>8. CASE Of("onboard") /\ Onboard!Next
  BY <1>8, OnboardIs, Operation!OnboardNextInv, BoundsAssumption DEF Inv, Of
<1>9. CASE Of("tokens") /\ Tokens!Next
  BY <1>9, TokensIs, Operation!TokensNextInv, BoundsAssumption DEF Inv, Of
<1>10. CASE Of("software") /\ Software!Next
  BY <1>10, SoftwareIs, File!SoftwareNextInv DEF Inv, Of
<1>11. CASE Of("alerts") /\ Alerts!Next
  BY <1>11, AlertsIs, Operation!AlertsNextInv, RulesAssumption, BoundsAssumption
     DEF Inv, Of, Operation!AlertsRulesAreRules
<1>12. CASE UNCHANGED vars
  <2>1. CASE service = "mysql_backup"
    BY <1>12, <2>1, File!MySQLNextInv, TasksAssumption
       DEF Inv, vars, File!MySQL!hostVars, File!MySQL!vars, File!MySQL!Nobody
  <2>2. CASE service = "postgres_backup"
    BY <1>12, <2>2, File!PostgresNextInv, NoFileAssumption
       DEF Inv, vars, File!Postgres!hostVars, File!Postgres!vars
  <2>3. CASE service = "rman_backup"
    BY <1>12, <2>3, File!RMANNextInv, BoundsAssumption
       DEF Inv, vars, File!RMAN!rowVars, File!RMAN!agentVars, File!RMAN!vars
  <2>4. CASE service = "doris_backup"
    BY <1>12, <2>4, File!DorisNextInv
       DEF Inv, vars, File!Doris!rowVars, File!Doris!dorisVars, File!Doris!vars
  <2>5. CASE service = "control"
    BY <1>12, <2>5, Operation!ControlNextInv, TasksAssumption
       DEF Inv, vars, Operation!Control!hostVars, Operation!Control!rowVars,
         Operation!Control!vars, Operation!ControlAuthorsDiffer, Operation!Control!Nobody,
         Operation!Control!Itself
  <2>6. CASE service = "replication"
    BY <1>12, <2>6, Operation!ReplicationNextInv, TasksAssumption
       DEF Inv, vars, Operation!Replication!taskVars, Operation!Replication!mysqlVars,
         Operation!Replication!rowVars, Operation!Replication!vars,
         Operation!Replication!Nobody
  <2>7. CASE service = "datafile"
    BY <1>12, <2>7, Operation!DatafileNextInv, BoundsAssumption
       DEF Inv, vars, Operation!Datafile!taskVars, Operation!Datafile!oracleVars,
         Operation!Datafile!history, Operation!Datafile!vars
  <2>8. CASE service = "onboard"
    BY <1>12, <2>8, Operation!OnboardNextInv, BoundsAssumption
       DEF Inv, vars, Operation!Onboard!tableVars, Operation!Onboard!vars
  <2>9. CASE service = "tokens"
    BY <1>12, <2>9, Operation!TokensNextInv, BoundsAssumption
       DEF Inv, vars, Operation!Tokens!tableVars, Operation!Tokens!vars
  <2>10. CASE service = "software"
    BY <1>12, <2>10, File!SoftwareNextInv
       DEF Inv, vars, File!Software!uploadVars, File!Software!vars
  <2>11. CASE service = "alerts"
    BY <1>12, <2>11, Operation!AlertsNextInv, RulesAssumption, BoundsAssumption
       DEF Inv, vars, Operation!Alerts!metricVars, Operation!Alerts!evalVars,
         Operation!Alerts!eventVars, Operation!Alerts!vars, Operation!AlertsRulesAreRules
  <2> QED
    BY <1>12, <2>1, <2>2, <2>3, <2>4, <2>5, <2>6, <2>7, <2>8, <2>9, <2>10, <2>11 DEF Inv, vars
<1> QED
  BY <1>1, <1>2, <1>3, <1>4, <1>5, <1>6, <1>7, <1>8, <1>9, <1>10, <1>11, <1>12 DEF Next

LEMMA InvHolds == Spec => []Inv
<1>1. Init => Inv
  BY InitInv
<1>2. Inv /\ [Next]_vars => Inv'
  BY NextInv
<1> QED
  BY <1>1, <1>2, PTL DEF Spec

-------------------------------------------------------------------------------
(* What it implies *)

\* The variables of the component in hand keep to their types.
THEOREM TypeCorrect == Spec => []TypeOK
<1>1. Inv => TypeOK
  <2> SUFFICES ASSUME Inv PROVE TypeOK
    OBVIOUS
  <2>1. service = "mysql_backup" => MySQL!TypeOK
    BY MySQLIs, File!MySQLInvImplies DEF Inv
  <2>2. service = "postgres_backup" => Postgres!TypeOK
    BY PostgresIs, File!PostgresInvImplies DEF Inv
  <2>3. service = "rman_backup" => RMAN!TypeOK
    BY RMANIs, File!RMANInvImplies DEF Inv
  <2>4. service = "doris_backup" => Doris!TypeOK
    BY DorisIs, File!DorisInvImplies DEF Inv
  <2>5. service = "control" => Control!TypeOK
    BY ControlIs, Operation!ControlInvImplies DEF Inv
  <2>6. service = "replication" => Replication!TypeOK
    BY ReplicationIs, Operation!ReplicationInvImplies, TasksAssumption
       DEF Inv, Operation!Replication!Nobody
  <2>7. service = "datafile" => Datafile!TypeOK
    BY DatafileIs, Operation!DatafileInvImplies DEF Inv
  <2>8. service = "onboard" => Onboard!TypeOK
    BY OnboardIs, Operation!OnboardInvImplies DEF Inv
  <2>9. service = "tokens" => Tokens!TypeOK
    BY TokensIs, Operation!TokensInvImplies DEF Inv
  <2>10. service = "software" => Software!TypeOK
    BY SoftwareIs, File!SoftwareInvImplies DEF Inv
  <2>11. service = "alerts" => Alerts!TypeOK
    BY AlertsIs, Operation!AlertsInvImplies DEF Inv
  <2> QED
    BY <2>1, <2>2, <2>3, <2>4, <2>5, <2>6, <2>7, <2>8, <2>9, <2>10, <2>11 DEF TypeOK
<1> QED
  BY <1>1, InvHolds, PTL

\* What the rows of backups say is true, whatever is backed up beside them,
\* lost, restarted or deleted, for every set of tasks and paths.
THEOREM BackupsAreThere == Spec => []BackupIsThere
<1>1. Inv => BackupIsThere
  BY MySQLIs, PostgresIs, RMANIs, DorisIs, File!MySQLInvImplies, File!PostgresInvImplies,
     File!RMANInvImplies, File!DorisInvImplies
     DEF Inv, BackupIsThere
<1> QED
  BY <1>1, InvHolds, PTL

\* The status of an instance is that of mysqld, when the task that wrote it
\* was the last to change mysqld.
THEOREM StatusIsTrue == Spec => []StatusFollowsLast
<1>1. Inv => StatusFollowsLast
  BY ControlIs, Operation!ControlInvImplies DEF Inv, StatusFollowsLast
<1> QED
  BY <1>1, InvHolds, PTL

\* A registered replica follows the primary of its row, until another task for
\* it is executed.
THEOREM RowIsFollowed == Spec => []FollowsItsRow
<1>1. Inv => FollowsItsRow
  BY ReplicationIs, Operation!ReplicationInvImplies, TasksAssumption
     DEF Inv, FollowsItsRow, Operation!Replication!Nobody
<1> QED
  BY <1>1, InvHolds, PTL

\* However requests overlap, fail, are undone or are cut off by a restart, an
\* instance never lacks its credential, nor does a refused request leave one.
THEOREM NoSecretIsLost == Spec => []SecretsAreUsed
<1>1. Inv => SecretsAreUsed
  BY OnboardIs, Operation!OnboardInvImplies DEF Inv, SecretsAreUsed
<1> QED
  BY <1>1, InvHolds, PTL

\* However many requests present one token at once, a session has one.
THEOREM SessionHasOneToken == Spec => []OneTokenPerSession
<1>1. Inv => OneTokenPerSession
  BY TokensIs, Operation!TokensInvImplies DEF Inv, OneTokenPerSession
<1> QED
  BY <1>1, InvHolds, PTL

\* An available package has the file of its row, unless the same package was
\* uploaded again, whichever uploads to its folder overlap.
THEOREM AvailableIsThere == Spec => []PackageIsThere
<1>1. Inv => PackageIsThere
  BY SoftwareIs, File!SoftwareInvImplies DEF Inv, PackageIsThere
<1> QED
  BY <1>1, InvHolds, PTL

\* No rule has two open events, nor one before its condition has held.
THEOREM NeitherEarlyNorDoubled == Spec => []AlertsAreTrue
<1>1. Inv => AlertsAreTrue
  BY AlertsIs, Operation!AlertsInvImplies DEF Inv, AlertsAreTrue
<1> QED
  BY <1>1, InvHolds, PTL

\* No step makes a datafile smaller, unless a dispatch for it was given up or it
\* grew by itself between a resize's check and its statement.
THEOREM SizesOnlyGrow == Spec => GrowsOnly
<1>1. Inv /\ [Next]_vars => [Of("datafile") => Datafile!GrowsOnlyStep]_vars
  <2> SUFFICES ASSUME Inv, Next, Of("datafile")
               PROVE  Datafile!GrowsOnlyStep
    OBVIOUS
  <2>1. Datafile!Next
    BY DEF Next, Of
  <2> QED
    BY <2>1, DatafileIs, Operation!DatafileStepGrows, BoundsAssumption DEF Inv, Of
<1> QED
  BY <1>1, InvHolds, PTL DEF Spec, GrowsOnly
===============================================================================
