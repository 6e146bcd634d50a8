-------------------------------- MODULE Services --------------------------------
(***************************************************************************)
(* The components that share no state with one another: a behaviour is one *)
(* of one of them, which service names.  x1 to x11 hold the variables of   *)
(* that component, x11 its faults; what it does not need is 0.             *)
(***************************************************************************)
EXTENDS Integers, Sequences

CONSTANTS
  BackupTasks,       \* <<key, n>>: the tasks of each kind of backup
  Names,             \* paths a dump may get
  NoFile,            \* none of them
  Pieces,            \* pieces of an RMAN backup
  ControlTasks,      \* <<kind, n>>: starts, stops and restarts of an instance
  ReplicationTasks,  \* <<primary, replica, n>>
  ReplicationPlans,  \* bound: sets of those tasks that are met together
  DatafileTasks,     \* <<kind, file, n>>
  Targets,           \* hosts and ports of instances
  Packages,          \* name, version and platform of packages,
  Folder,            \* with their folders
  Contents,          \* and their files and checksums
  Rules,             \* the rules of the alert engine
  MaxClock, MaxSize, MaxValue, MaxAge,     \* bounds on times and amounts,
  MaxRequests, MaxLogins, MaxUploads,      \* on requests of each component,
  MaxFaults, MaxReplicationFaults          \* and on what fails

\* A task is not the absence of one (Nobody), nor the end of mysqld (Itself).
ASSUME TasksAssumption ==
  /\ <<>> \notin BackupTasks
  /\ <<>> \notin ControlTasks /\ <<"mysqld">> \notin ControlTasks
  /\ <<>> \notin ReplicationTasks

\* No dump is given the path that stands for none.
ASSUME NoFileAssumption == NoFile \notin Names

ASSUME BoundsAssumption ==
  /\ Pieces \in Nat /\ MaxClock \in Nat /\ MaxSize \in Nat \ {0}
  /\ MaxValue \in Nat /\ MaxAge \in Nat
  /\ MaxRequests \in Nat /\ MaxLogins \in Nat /\ MaxUploads \in Nat

\* The engine has rules, whose durations are numbers of ticks.
ASSUME RulesAssumption ==
  /\ Rules \in Seq([metric : {"used", "age"}, threshold : Int, duration : Nat])
  /\ Rules # <<>>

VARIABLES
  service,                                      \* the component in hand
  x1, x2, x3, x4, x5, x6, x7, x8, x9, x10, x11  \* its variables; the others 0

vars == <<service, x1, x2, x3, x4, x5, x6, x7, x8, x9, x10, x11>>

-------------------------------------------------------------------------------
(* Backups *)

MySQL == INSTANCE MySQLBackup WITH
  Tasks <- BackupTasks,
  pc <- x1, job <- x2, run <- x3, file <- x4, writer <- x5, faults <- x11

Postgres == INSTANCE PostgresBackup WITH
  Tasks <- BackupTasks,
  pc <- x1, job <- x2, run <- x3, file <- x4, writer <- x5, faults <- x11

RMAN == INSTANCE RMANBackup WITH
  Tasks <- BackupTasks,
  pc <- x1, job <- x2, run <- x3, second <- x4, made <- x5, manifest <- x6,
  clock <- x7, faults <- x11

Doris == INSTANCE DorisBackup WITH
  Tasks <- BackupTasks,
  pc <- x1, job <- x2, run <- x3, shown <- x4, stored <- x5, faults <- x11

-------------------------------------------------------------------------------
(* Operations on instances *)

Control == INSTANCE InstanceService WITH
  Tasks <- ControlTasks,
  pc <- x1, up <- x2, run <- x3, status <- x4, last <- x5, wrote <- x6, faults <- x11

Replication == INSTANCE MySQLReplication WITH
  Tasks <- ReplicationTasks, MaxFaults <- MaxReplicationFaults,
  pc <- x1, step <- x2, run <- x3, status <- x4, credential <- x5, account <- x6,
  channel <- x7, link <- x8, row <- x9, answer <- x10, faults <- x11

\* The replication tasks there are have been planned together.
Planned ==
  \E plan \in ReplicationPlans : \A t \in ReplicationTasks \ plan : x1[t] = "none"

Datafile == INSTANCE OracleDatafile WITH
  Tasks <- DatafileTasks,
  pc <- x1, target <- x2, run <- x3, size <- x4, used <- x5, lost <- x6,
  outgrown <- x7, faults <- x11

Onboard == INSTANCE Onboarding WITH
  pc <- x1, target <- x2, gone <- x3, instance <- x4, credential <- x5, faults <- x11

-------------------------------------------------------------------------------
(* The server's own *)

Tokens == INSTANCE RefreshTokens WITH
  MaxRequests <- MaxLogins,
  pc <- x1, token <- x2, session <- x3, issued <- x4, expired <- x5, faults <- x11

Software == INSTANCE SoftwareStore WITH
  pc <- x1, package <- x2, content <- x3, row <- x4, stored <- x5, faults <- x11

Alerts == INSTANCE AlertEngine WITH
  latest <- x1, age <- x2, due <- x3, at <- x4, seen <- x5, select <- x6,
  held <- x7, firing <- x8, acked <- x9, since <- x10, faults <- x11

-------------------------------------------------------------------------------

\* The variables a component does not have.
From8 == x8 = 0 /\ x9 = 0 /\ x10 = 0
From7 == x7 = 0 /\ From8
From6 == x6 = 0 /\ From7

Init ==
  \/ service = "mysql_backup" /\ MySQL!Init /\ From6
  \/ service = "postgres_backup" /\ Postgres!Init /\ From6
  \/ service = "rman_backup" /\ RMAN!Init /\ From8
  \/ service = "doris_backup" /\ Doris!Init /\ From6
  \/ service = "control" /\ Control!Init /\ From7
  \/ service = "replication" /\ Replication!Init
  \/ service = "datafile" /\ Datafile!Init /\ From8
  \/ service = "onboard" /\ Onboard!Init /\ From6
  \/ service = "tokens" /\ Tokens!Init /\ From6
  \/ service = "software" /\ Software!Init /\ From6
  \/ service = "alerts" /\ Alerts!Init

\* A step of the component in hand.
Of(name) == service = name /\ UNCHANGED service
Rest6 == UNCHANGED <<x6, x7, x8, x9, x10>>
Rest7 == UNCHANGED <<x7, x8, x9, x10>>
Rest8 == UNCHANGED <<x8, x9, x10>>

Next ==
  \/ Of("mysql_backup") /\ MySQL!Next /\ Rest6
  \/ Of("postgres_backup") /\ Postgres!Next /\ Rest6
  \/ Of("rman_backup") /\ RMAN!Next /\ Rest8
  \/ Of("doris_backup") /\ Doris!Next /\ Rest6
  \/ Of("control") /\ Control!Next /\ Rest7
  \/ Of("replication") /\ Replication!Next /\ Planned'
  \/ Of("datafile") /\ Datafile!Next /\ Rest8
  \/ Of("onboard") /\ Onboard!Next /\ Rest6
  \/ Of("tokens") /\ Tokens!Next /\ Rest6
  \/ Of("software") /\ Software!Next /\ Rest6
  \/ Of("alerts") /\ Alerts!Next

\* Only the alert engine's properties need fairness: that of AlertEngine.
Fairness ==
  /\ WF_vars(Of("alerts") /\ Alerts!Engine)
  /\ WF_vars(Of("alerts") /\ Alerts!Tick)

Spec == Init /\ [][Next]_vars /\ Fairness

-------------------------------------------------------------------------------
(* Properties: those of the component in hand. *)

\* The variables keep to their types, in every component.
TypeOK ==
  /\ service = "mysql_backup" => MySQL!TypeOK
  /\ service = "postgres_backup" => Postgres!TypeOK
  /\ service = "rman_backup" => RMAN!TypeOK
  /\ service = "doris_backup" => Doris!TypeOK
  /\ service = "control" => Control!TypeOK
  /\ service = "replication" => Replication!TypeOK
  /\ service = "datafile" => Datafile!TypeOK
  /\ service = "onboard" => Onboard!TypeOK
  /\ service = "tokens" => Tokens!TypeOK
  /\ service = "software" => Software!TypeOK
  /\ service = "alerts" => Alerts!TypeOK

\* What a registered backup of each database says of itself is true: its file,
\* its pieces or its snapshot are there, and are its own.
BackupIsThere ==
  /\ service = "mysql_backup" => MySQL!BackupIsThere
  /\ service = "postgres_backup" => Postgres!BackupIsThere
  /\ service = "rman_backup" => RMAN!BackupIsThere
  /\ service = "doris_backup" => Doris!BackupIsThere

\* The status of an instance is that of mysqld (InstanceService).
StatusFollowsLast == service = "control" => Control!StatusFollowsLast

\* A registered replica follows the primary of its row (MySQLReplication).
FollowsItsRow == service = "replication" => Replication!FollowsItsRow

\* Datafiles only grow (OracleDatafile).
GrowsOnly == [][Of("datafile") => Datafile!GrowsOnlyStep]_vars

\* Instances have their credentials, credentials their instances (Onboarding).
SecretsAreUsed == service = "onboard" => Onboard!SecretsAreUsed

\* A session has one token (RefreshTokens).
OneTokenPerSession == service = "tokens" => Tokens!OneTokenPerSession

\* An available package has its file (SoftwareStore).
PackageIsThere == service = "software" => Software!PackageIsThere

\* Open events are of conditions that held for long enough (AlertEngine).
AlertsAreTrue == service = "alerts" => Alerts!AlertsAreTrue

\* A condition that stays true is alerted in the end (AlertEngine).
LastingIsAlerted ==
  \A r \in Alerts!RuleIds :
    <>[](service = "alerts" /\ Alerts!Lasting(r))
      => <>[](service = "alerts" /\ Alerts!IsOpen(r))
===============================================================================
