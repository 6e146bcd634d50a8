----------------------------- MODULE MySQLArchive -----------------------------
(***************************************************************************)
(* An archive policy's jobs: the service that keeps archive_jobs, the      *)
(* handlers of its two task types, which workers run side by side, and the *)
(* pt-archiver processes of the agent, which a sentinel file stops.        *)
(*                                                                         *)
(* One policy, hence one source table.  A run is one mysql.archive.run     *)
(* task of a job, and the process it starts on the agent; the first comes  *)
(* from Start, the others from Resume.  A control is a pause or a stop of  *)
(* a job, with its mysql.archive.control task.  The engine's claims are    *)
(* those of TaskEngine, in any order; a Dispatch that fails is a fault.    *)
(***************************************************************************)
EXTENDS Integers, FiniteSets

CONSTANTS
  Jobs,         \* the policy's jobs
  Rows,         \* batches of rows the policy's WHERE selects
  Workers,      \* the task engine's workers
  MaxRuns,      \* bound on the runs of a job
  MaxControls,  \* bound on the controls asked for
  MaxFaults     \* bound on lost dispatches, restarts and failed statements

ASSUME ArchiveAssumption ==
  /\ Rows \in Nat
  /\ {Workers, MaxRuns} \subseteq Nat \ {0}
  /\ {MaxControls, MaxFaults} \subseteq Nat

Runs == Jobs \X (1..MaxRuns)
Actions == {"pause", "stop"}
Controls == Jobs \X Actions

VARIABLES
  job,       \* archive_jobs: status and archived_rows
  pc,        \* each run's task, and how far its handler has come
  base,      \* archived_rows in the handler's copy of the job
  ctl,       \* the task of each control, and how far its handler has come
  copy,      \* archived_rows in that handler's copy
  proc,      \* each run's request and pt-archiver at the agent
  moved,     \* rows that pt-archiver has archived
  sentinel,  \* archive-control/archive-<job>.stop
  left,      \* rows of the table still to archive
  asked,     \* controls asked for, up to MaxControls
  faults     \* faults so far, up to MaxFaults

runVars == <<pc, base>>
ctlVars == <<ctl, copy>>
agentVars == <<proc, moved, sentinel, left>>
bounds == <<asked, faults>>
vars == <<job, runVars, ctlVars, agentVars, bounds>>

Live == {"resuming", "checking", "waiting"}    \* a handler is at work
Open == Live \cup {"queued", "interrupted"}    \* the index on keys counts it
Ended == {"paused", "stopped", "success", "failed"}
Asked == [pause |-> "pause_requested", stop |-> "stop_requested"]
Outcome == [completed |-> "success", paused |-> "paused", stopped |-> "stopped"]
Answer == [none |-> "completed", pause |-> "paused", stop |-> "stopped"]

RunsOf(j) == {r \in Runs : r[1] = j}
KeyFree(j) == \A r \in RunsOf(j) : pc[r] \notin Open
Busy == Cardinality({r \in Runs : pc[r] \in Live})
          + Cardinality({c \in Controls : ctl[c] \in {"read", "written"}})

Init ==
  /\ job = [j \in Jobs |-> [status |-> "none", archived |-> 0]]
  /\ pc = [r \in Runs |-> "none"]
  /\ base = [r \in Runs |-> 0]
  /\ ctl = [c \in Controls |-> "none"]
  /\ copy = [c \in Controls |-> 0]
  /\ proc = [r \in Runs |-> "none"]
  /\ moved = [r \in Runs |-> 0]
  /\ sentinel = [j \in Jobs |-> "none"]
  /\ left = Rows
  /\ asked = 0
  /\ faults = 0

\* ArchiveJobRepo.UpdateState: whatever the status is by now.
UpdateState(j, status, archived) ==
  job' = [job EXCEPT ![j] = [status |-> status, archived |-> archived]]

\* What the runs of a job have archived: <<r, n>> is the n-th batch of run r.
Archived(j) == Cardinality({b \in RunsOf(j) \X (1..Rows) : b[2] <= moved[b[1]]})

Fault == faults < MaxFaults /\ faults' = faults + 1

-------------------------------------------------------------------------------
(* The service's operations *)

\* Mutation: a run task with no idempotency key.
CreateKeylessTask(j, n) ==
  /\ pc[<<j, n>>] = "none"
  /\ \A m \in 1..(n - 1) : pc[<<j, m>>] # "none"
  /\ pc' = [pc EXCEPT ![<<j, n>>] = "queued"]

\* createRunTask: refused while a run task of the job is open.
CreateRunTask(j, n) ==
  /\ KeyFree(j)
  /\ pc[<<j, n>>] = "none"
  /\ \A m \in 1..(n - 1) : pc[<<j, m>>] # "none"
  /\ pc' = [pc EXCEPT ![<<j, n>>] = "queued"]

Start(j) ==
  /\ job[j].status = "none"
  /\ UpdateState(j, "pending", 0)
  /\ CreateRunTask(j, 1)
  /\ UNCHANGED <<base, ctlVars, agentVars, bounds>>

\* The job's row is written and its task's is not.
StartIsCut(j) ==
  /\ Fault
  /\ job[j].status = "none"
  /\ UpdateState(j, "pending", 0)
  /\ UNCHANGED <<runVars, ctlVars, agentVars, asked>>

\* Resume accepts "interrupted" too, a status that nothing writes.
Resume(j) ==
  /\ job[j].status \in {"paused", "pause_requested"}
  /\ \E n \in 1..MaxRuns : CreateRunTask(j, n)
  /\ UNCHANGED <<job, base, ctlVars, agentVars, bounds>>

\* Control: refused by the job's status, or while its like is open.
Control(c) ==
  /\ job[c[1]].status \in {"running", "pause_requested"}
  /\ ctl[c] = "none"
  /\ asked < MaxControls
  /\ asked' = asked + 1
  /\ ctl' = [ctl EXCEPT ![c] = "queued"]
  /\ UNCHANGED <<job, runVars, copy, agentVars, faults>>

-------------------------------------------------------------------------------
(* RunHandler *)

\* A worker claims the task; the handler reads the job.
Begin(r) ==
  /\ pc[r] = "queued"
  /\ Busy < Workers
  /\ pc' = [pc EXCEPT ![r] = IF r[2] = 1 THEN "checking" ELSE "resuming"]
  /\ base' = [base EXCEPT ![r] = job[r[1]].archived]
  /\ UNCHANGED <<job, ctlVars, agentVars, bounds>>

\* mysql.archive.resume removes the sentinel.
ClearSentinel(r) ==
  /\ pc[r] = "resuming"
  /\ pc' = [pc EXCEPT ![r] = "checking"]
  /\ sentinel' = [sentinel EXCEPT ![r[1]] = "none"]
  /\ UNCHANGED <<job, base, ctlVars, proc, moved, left, bounds>>

\* That dispatch fails, after the removal or before: so does the task, and
\* the job keeps its status.
ResumeIsLost(r) ==
  /\ Fault
  /\ pc[r] = "resuming"
  /\ pc' = [pc EXCEPT ![r] = "failed"]
  /\ sentinel' \in {sentinel, [sentinel EXCEPT ![r[1]] = "none"]}
  /\ UNCHANGED <<job, base, ctlVars, proc, moved, left, asked>>

\* The precheck lets the run pass: the job is running, and pt-archiver asked for.
PrecheckPasses(r) ==
  /\ pc[r] = "checking"
  /\ UpdateState(r[1], "running", base[r])
  /\ pc' = [pc EXCEPT ![r] = "waiting"]
  /\ proc' = [proc EXCEPT ![r] = "sent"]
  /\ UNCHANGED <<base, ctlVars, moved, sentinel, left, bounds>>

Fail(r) ==
  /\ UpdateState(r[1], "failed", base[r])
  /\ pc' = [pc EXCEPT ![r] = "failed"]

\* The precheck blocks the run, or is lost.
PrecheckFails(r) ==
  /\ pc[r] = "checking"
  /\ Fail(r)
  /\ UNCHANGED <<base, ctlVars, agentVars, bounds>>

\* Mutation: the agent's status is taken for the job's.
RunReturnsRaw(r) ==
  /\ pc[r] = "waiting"
  /\ proc[r] \in DOMAIN Outcome
  /\ UpdateState(r[1], proc[r], base[r] + moved[r])
  /\ pc' = [pc EXCEPT ![r] = "success"]
  /\ UNCHANGED <<base, ctlVars, agentVars, bounds>>

\* Mutation: the statistics are those of the job's runs, not of this one.
RunReturnsTotal(r) ==
  /\ pc[r] = "waiting"
  /\ proc[r] \in DOMAIN Outcome
  /\ UpdateState(r[1], Outcome[proc[r]], base[r] + Archived(r[1]))
  /\ pc' = [pc EXCEPT ![r] = "success"]
  /\ UNCHANGED <<base, ctlVars, agentVars, bounds>>

\* The agent's answer is the job's new state; the counters add to the copy.
RunReturns(r) ==
  /\ pc[r] = "waiting"
  /\ proc[r] \in DOMAIN Outcome
  /\ UpdateState(r[1], Outcome[proc[r]], base[r] + moved[r])
  /\ pc' = [pc EXCEPT ![r] = "success"]
  /\ UNCHANGED <<base, ctlVars, agentVars, bounds>>

\* Mutation: the error ends the task only.
RunFailsQuietly(r) ==
  /\ pc[r] = "waiting"
  /\ proc[r] \in {"error", "dead"}
  /\ pc' = [pc EXCEPT ![r] = "failed"]
  /\ UNCHANGED <<job, base, ctlVars, agentVars, bounds>>

\* pt-archiver has failed, or its agent has ended.
RunFails(r) ==
  /\ pc[r] = "waiting"
  /\ proc[r] \in {"error", "dead"}
  /\ Fail(r)
  /\ UNCHANGED <<base, ctlVars, agentVars, bounds>>

\* The dispatch fails: its request never arrives, or what it has started goes
\* on with nobody to answer.
RunIsLost(r) ==
  /\ Fault
  /\ pc[r] = "waiting"
  /\ Fail(r)
  /\ \/ proc' = proc
     \/ proc[r] = "sent" /\ proc' = [proc EXCEPT ![r] = "none"]
  /\ UNCHANGED <<base, ctlVars, moved, sentinel, left, asked>>

-------------------------------------------------------------------------------
(* ControlHandler *)

\* A worker claims the task; the handler reads the job.
ReadJob(c) ==
  /\ ctl[c] = "queued"
  /\ Busy < Workers
  /\ ctl' = [ctl EXCEPT ![c] = "read"]
  /\ copy' = [copy EXCEPT ![c] = job[c[1]].archived]
  /\ UNCHANGED <<job, runVars, agentVars, bounds>>

\* The agent writes the sentinel.
WriteSentinel(c) ==
  /\ ctl[c] = "read"
  /\ ctl' = [ctl EXCEPT ![c] = "written"]
  /\ sentinel' = [sentinel EXCEPT ![c[1]] = c[2]]
  /\ UNCHANGED <<job, runVars, copy, proc, moved, left, bounds>>

\* The dispatch fails, after the sentinel is written or before.
ControlIsLost(c) ==
  /\ Fault
  /\ ctl[c] = "read"
  /\ ctl' = [ctl EXCEPT ![c] = "none"]
  /\ sentinel' \in {sentinel, [sentinel EXCEPT ![c[1]] = c[2]]}
  /\ UNCHANGED <<job, runVars, copy, proc, moved, left, asked>>

\* Mutation: what is asked for is taken as done.
ControlReturnsDone(c) ==
  /\ ctl[c] = "written"
  /\ UpdateState(c[1], Outcome[Answer[c[2]]], copy[c])
  /\ ctl' = [ctl EXCEPT ![c] = "none"]
  /\ UNCHANGED <<runVars, copy, agentVars, bounds>>

\* The request is noted in the job, with the counters of the copy.
ControlReturns(c) ==
  /\ ctl[c] = "written"
  /\ UpdateState(c[1], Asked[c[2]], copy[c])
  /\ ctl' = [ctl EXCEPT ![c] = "none"]
  /\ UNCHANGED <<runVars, copy, agentVars, bounds>>

-------------------------------------------------------------------------------
(* The agent *)

\* mysqlArchiveStart removes the sentinel and starts pt-archiver; the requests
\* of a job get their slots in the order they came.
Launch(r) ==
  /\ proc[r] = "sent"
  /\ \A q \in RunsOf(r[1]) : q[2] < r[2] => proc[q] # "sent"
  /\ proc' = [proc EXCEPT ![r] = "running"]
  /\ sentinel' = [sentinel EXCEPT ![r[1]] = "none"]
  /\ UNCHANGED <<job, runVars, ctlVars, moved, left, bounds>>

\* pt-archiver moves a batch.
Move(r) ==
  /\ proc[r] = "running" /\ left > 0
  /\ left' = left - 1
  /\ moved' = [moved EXCEPT ![r] = @ + 1]
  /\ UNCHANGED <<job, runVars, ctlVars, proc, sentinel, bounds>>

\* It ends: it finds the sentinel between two batches, or no rows.
Exit(r) ==
  /\ proc[r] = "running"
  /\ left = 0 \/ sentinel[r[1]] # "none"
  /\ proc' = [proc EXCEPT ![r] = "exited"]
  /\ UNCHANGED <<job, runVars, ctlVars, moved, sentinel, left, bounds>>

\* It ends by an error.
Crash(r) ==
  /\ Fault
  /\ proc[r] = "running"
  /\ proc' = [proc EXCEPT ![r] = "error"]
  /\ UNCHANGED <<job, runVars, ctlVars, moved, sentinel, left, asked>>

\* Mutation: an exit without an error is a completion.
ReportCompletion(r) ==
  /\ proc[r] = "exited"
  /\ proc' = [proc EXCEPT ![r] = "completed"]
  /\ UNCHANGED <<job, runVars, ctlVars, moved, sentinel, left, bounds>>

\* After the exit the sentinel tells a pause, a stop and a completion apart.
Report(r) ==
  /\ proc[r] = "exited"
  /\ proc' = [proc EXCEPT ![r] = Answer[sentinel[r[1]]]]
  /\ UNCHANGED <<job, runVars, ctlVars, moved, sentinel, left, bounds>>

\* The agent is started again: its processes and requests are gone.
AgentRestart ==
  /\ Fault
  /\ proc' = [r \in Runs |-> IF proc[r] = "none" THEN "none" ELSE "dead"]
  /\ UNCHANGED <<job, runVars, ctlVars, moved, sentinel, left, asked>>

\* The server is: the tasks of its handlers stay open, with nobody at work.
ServerRestart ==
  /\ Fault
  /\ pc' = [r \in Runs |-> IF pc[r] \in Live THEN "interrupted" ELSE pc[r]]
  /\ ctl' = [c \in Controls |-> IF ctl[c] \in {"read", "written"} THEN "interrupted" ELSE ctl[c]]
  /\ UNCHANGED <<job, base, copy, agentVars, asked>>

-------------------------------------------------------------------------------

Service ==
  \/ \E j \in Jobs : Start(j) \/ StartIsCut(j) \/ Resume(j)
  \/ \E c \in Controls : Control(c)

RunHandler(r) ==
  Begin(r) \/ ClearSentinel(r) \/ PrecheckPasses(r) \/ PrecheckFails(r)
    \/ RunReturns(r) \/ RunFails(r)

ControlHandler(c) == ReadJob(c) \/ WriteSentinel(c) \/ ControlReturns(c)

Archiver(r) == Launch(r) \/ Move(r) \/ Exit(r) \/ Report(r)

Faults ==
  \/ \E r \in Runs : ResumeIsLost(r) \/ RunIsLost(r) \/ Crash(r)
  \/ \E c \in Controls : ControlIsLost(c)
  \/ AgentRestart
  \/ ServerRestart

Next ==
  \/ Service
  \/ \E r \in Runs : RunHandler(r) \/ Archiver(r)
  \/ \E c \in Controls : ControlHandler(c)
  \/ Faults

Spec == Init /\ [][Next]_vars

\* Workers run their handlers and a pt-archiver with rows and no sentinel goes on.
Fairness ==
  /\ \A r \in Runs : WF_vars(RunHandler(r)) /\ WF_vars(Archiver(r))
  /\ \A c \in Controls : WF_vars(ControlHandler(c))

FairSpec == Spec /\ Fairness

-------------------------------------------------------------------------------
(* Properties *)

Statuses == {"none", "pending", "running", "pause_requested", "stop_requested"} \cup Ended

\* The variables keep to their types: a job's status is one that the service
\* and the views know.
TypeOK ==
  /\ job \in [Jobs -> [status : Statuses, archived : Nat]]
  /\ pc \in [Runs -> Open \cup {"none", "success", "failed"}]
  /\ base \in [Runs -> Nat]
  /\ ctl \in [Controls -> {"none", "queued", "read", "written", "interrupted"}]
  /\ copy \in [Controls -> Nat]
  /\ proc \in [Runs -> DOMAIN Outcome \cup {"none", "sent", "running", "exited", "error", "dead"}]
  /\ moved \in [Runs -> 0..Rows]
  /\ sentinel \in [Jobs -> DOMAIN Answer]
  /\ left \in 0..Rows

\* A job is a success only when the table has nothing left to archive: a pause
\* or a stop is never taken for the end, whoever removes the sentinel.
SuccessIsExhausted == \A j \in Jobs : job[j].status = "success" => left = 0

\* A job that has ended, a paused one too, has no handler waiting for its
\* archiver: the end comes from the archiver's exit, not from the request.
EndedIsStill ==
  \A r \in Runs : job[r[1]].status \in Ended => pc[r] # "waiting"

\* Unless a dispatch is lost or a process ends, a job has one archiver at most,
\* although it may be resumed when the pause is only asked for.
OneArchiver ==
  faults = 0 =>
    \A j \in Jobs : Cardinality({r \in RunsOf(j) : proc[r] \in {"sent", "running"}}) <= 1

\* A job never claims rows that its runs have not archived, over pauses, stale
\* copies of the row and runs given up.
NeverOverstated == \A j \in Jobs : job[j].archived <= Archived(j)

\* A handler that waits for its archiver brings the job to an end, whatever
\* happens to the agent, unless the server is restarted.
RunSettles ==
  \A r \in Runs : pc[r] = "waiting" ~> job[r[1]].status \in Ended \/ pc[r] = "interrupted"

\* A job that succeeds without a fault counts every row its runs have archived.
\* ControlHandler writes the counters it read before the dispatch, and a
\* status that says the run has yet to end, over what the run has left there.
StatisticsAreWhole ==
  \A j \in Jobs : faults = 0 /\ job[j].status = "success" => job[j].archived = Archived(j)
===============================================================================
