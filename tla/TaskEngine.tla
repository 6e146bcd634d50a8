------------------------------ MODULE TaskEngine ------------------------------
(***************************************************************************)
(* The durable task engine: the tasks table (repository/sqlite/task.go)    *)
(* and the worker pool that drains it (task/engine.go), in a process that  *)
(* is stopped, crashes and is started again while the table survives.      *)
(*                                                                         *)
(* One action is one committed statement or transaction of the database    *)
(* together with the control flow around it.  ClaimNext is atomic: it runs *)
(* in a transaction under the process-wide mutex taskClaimMu, and a        *)
(* transaction that lost a race with another writer changes nothing.       *)
(* Progress is left to the module of the gateway, which reports it.        *)
(***************************************************************************)
EXTENDS Integers

CONSTANTS
  Workers,       \* worker goroutines; the n-th signs its leases "worker-n"
  NoWorker,      \* lease_owner NULL
  Keys, NoKey,   \* idempotency keys, and NULL
  LeaseSeconds,  \* how long a claim is leased for
  MaxTasks,      \* bound on the rows of the table
  MaxClock,      \* bound on the wall clock, in seconds
  MaxBoots,      \* bound on the starts of the process
  MaxFaults      \* bound on the database errors a worker meets

ASSUME EngineAssumption ==
  /\ NoWorker \notin Workers
  /\ NoKey \notin Keys
  /\ LeaseSeconds \in Nat \ {0}
  /\ MaxTasks \in Nat \ {0}
  /\ MaxClock \in Nat
  /\ MaxBoots \in Nat \ {0}
  /\ MaxFaults \in Nat

VARIABLES
  \* the tasks table
  status, key, owner, expires,
  lastId,        \* the AUTOINCREMENT counter
  handled,       \* the tasks whose task_type has a registered handler
  \* the process
  server,        \* "down", "up", or "stopping" once the root context is cancelled
  pc, job,       \* where each worker is, and the task it has in hand
  outcome,       \* what the handler of that task returned
  \* the environment
  clock, boots, faults,
  starts         \* history: how often a handler was started on each task

tableVars == <<status, key, owner, expires, lastId, handled>>
workerVars == <<pc, job, outcome>>
envVars == <<clock, boots, faults>>
vars == <<tableVars, server, workerVars, envVars, starts>>

Ids == 1..MaxTasks
NoTask == 0
NoLease == 0

Terminal == {"success", "failed"}
\* The statuses of the partial unique index that the program ever writes.
Active == {"queued", "running", "interrupted"}
Status == {"absent"} \cup Active \cup Terminal

Init ==
  /\ status = [t \in Ids |-> "absent"]
  /\ key = [t \in Ids |-> NoKey]
  /\ owner = [t \in Ids |-> NoWorker]
  /\ expires = [t \in Ids |-> NoLease]
  /\ lastId = 0
  /\ handled = {}
  /\ server = "down"
  /\ pc = [w \in Workers |-> "off"]
  /\ job = [w \in Workers |-> NoTask]
  /\ outcome = [w \in Workers |-> "failed"]
  /\ clock = 0
  /\ boots = 0
  /\ faults = 0
  /\ starts = [t \in Ids |-> 0]

-------------------------------------------------------------------------------
(* The table *)

\* The unique index idx_tasks_active_idempotency lets a row with key k in.
KeyFree(k) == k # NoKey => \A u \in Ids : status[u] \in Active => key[u] # k

\* TaskRepo.Create, from an HTTP request or a service; a request in flight
\* when the process is asked to stop still completes.
Create(t, k, h) ==
  /\ server \in {"up", "stopping"}
  /\ t = lastId + 1
  /\ KeyFree(k)
  /\ status' = [status EXCEPT ![t] = "queued"]
  /\ key' = [key EXCEPT ![t] = k]
  /\ lastId' = t
  /\ handled' = IF h THEN handled \cup {t} ELSE handled
  /\ UNCHANGED <<owner, expires, server, workerVars, envVars, starts>>

\* Mutation: interrupted tasks are claimed again.
IsNextOrInterrupted(t) ==
  /\ status[t] \in {"queued", "interrupted"}
  /\ \A u \in Ids : u < t => status[u] # "queued"

\* The row ClaimNext selects: ORDER BY id LIMIT 1 over the queued rows.
IsNext(t) == status[t] = "queued" /\ \A u \in Ids : u < t => status[u] # "queued"

\* The rows RecoverExpired updates.
Expired(t) == status[t] = "running" /\ expires[t] # NoLease /\ expires[t] < clock

\* Mutation: expired tasks are put back in the queue.
RequeueExpired ==
  /\ status' = [t \in Ids |-> IF Expired(t) THEN "queued" ELSE status[t]]
  /\ owner' = [t \in Ids |-> IF Expired(t) THEN NoWorker ELSE owner[t]]
  /\ expires' = [t \in Ids |-> IF Expired(t) THEN NoLease ELSE expires[t]]
  /\ UNCHANGED <<key, lastId, handled>>

\* RecoverExpired, one UPDATE over the table.
RecoverExpired ==
  /\ status' = [t \in Ids |-> IF Expired(t) THEN "interrupted" ELSE status[t]]
  /\ owner' = [t \in Ids |-> IF Expired(t) THEN NoWorker ELSE owner[t]]
  /\ expires' = [t \in Ids |-> IF Expired(t) THEN NoLease ELSE expires[t]]
  /\ UNCHANGED <<key, lastId, handled>>

\* UpdateStatus, by id alone: neither the status nor the lease is compared.
UpdateStatus(t, s) ==
  /\ status' = [status EXCEPT ![t] = s]
  /\ owner' = [owner EXCEPT ![t] = NoWorker]
  /\ expires' = [expires EXCEPT ![t] = NoLease]
  /\ UNCHANGED <<key, lastId, handled>>

-------------------------------------------------------------------------------
(* The process *)

\* Mutation: Start returns after a recovery that found something.
BootWithoutWorkersAfterRecovery ==
  /\ server = "down"
  /\ boots < MaxBoots
  /\ RecoverExpired
  /\ server' = "up"
  /\ boots' = boots + 1
  /\ pc' = IF \E t \in Ids : Expired(t) THEN pc ELSE [w \in Workers |-> "idle"]
  /\ UNCHANGED <<job, outcome, clock, faults, starts>>

\* Mutation: Start may be called again, or its recovery scheduled, while the
\* workers run.
BootBesideWorkers ==
  /\ server # "stopping"
  /\ boots < MaxBoots
  /\ RecoverExpired
  /\ server' = "up"
  /\ boots' = boots + 1
  /\ pc' = [w \in Workers |-> IF pc[w] = "off" THEN "idle" ELSE pc[w]]
  /\ UNCHANGED <<job, outcome, clock, faults, starts>>

\* Engine.Start: recovery runs once, before the workers exist.
Boot ==
  /\ server = "down"
  /\ boots < MaxBoots
  /\ RecoverExpired
  /\ server' = "up"
  /\ boots' = boots + 1
  /\ pc' = [w \in Workers |-> "idle"]
  /\ UNCHANGED <<job, outcome, clock, faults, starts>>

\* Whatever a worker had in hand is forgotten: the task's row is not touched.
DropWorkers ==
  /\ pc' = [w \in Workers |-> "off"]
  /\ job' = [w \in Workers |-> NoTask]
  /\ outcome' = [w \in Workers |-> "failed"]

\* App.Shutdown cancels the context every worker and handler runs under, so
\* the statement with which a worker would report fails from here on.
Stop ==
  /\ server = "up"
  /\ boots < MaxBoots
  /\ server' = "stopping"
  /\ DropWorkers
  /\ UNCHANGED <<tableVars, envVars, starts>>

\* The process is gone, after Shutdown or by a crash.
Exit ==
  /\ server \in {"up", "stopping"}
  /\ boots < MaxBoots
  /\ server' = "down"
  /\ DropWorkers
  /\ UNCHANGED <<tableVars, envVars, starts>>

Tick ==
  /\ clock < MaxClock
  /\ clock' = clock + 1
  /\ UNCHANGED <<tableVars, server, workerVars, boots, faults, starts>>

-------------------------------------------------------------------------------
(* A worker *)

\* A tick of the worker finds nothing queued.
PollNothing(w) ==
  /\ server = "up" /\ pc[w] = "idle"
  /\ \A t \in Ids : status[t] # "queued"
  /\ UNCHANGED vars

\* Mutation: the lease time is taken off the clock.
ClaimNextExpired(w, t) ==
  /\ server = "up" /\ pc[w] = "idle"
  /\ IsNext(t)
  /\ status' = [status EXCEPT ![t] = "running"]
  /\ owner' = [owner EXCEPT ![t] = w]
  /\ expires' = [expires EXCEPT ![t] = clock - LeaseSeconds]
  /\ pc' = [pc EXCEPT ![w] = "claimed"]
  /\ job' = [job EXCEPT ![w] = t]
  /\ UNCHANGED <<key, lastId, handled, server, outcome, envVars, starts>>

\* ClaimNext up to its COMMIT.
ClaimNext(w, t) ==
  /\ server = "up" /\ pc[w] = "idle"
  /\ IsNext(t)
  /\ status' = [status EXCEPT ![t] = "running"]
  /\ owner' = [owner EXCEPT ![t] = w]
  /\ expires' = [expires EXCEPT ![t] = clock + LeaseSeconds]
  /\ pc' = [pc EXCEPT ![w] = "claimed"]
  /\ job' = [job EXCEPT ![w] = t]
  /\ UNCHANGED <<key, lastId, handled, server, outcome, envVars, starts>>

\* The Get after the COMMIT fails: ClaimNext returns an error, and the worker
\* goes back to polling while the row stays leased to it.
FetchFails(w) ==
  /\ server = "up" /\ pc[w] = "claimed"
  /\ faults < MaxFaults
  /\ faults' = faults + 1
  /\ pc' = [pc EXCEPT ![w] = "idle"]
  /\ job' = [job EXCEPT ![w] = NoTask]
  /\ UNCHANGED <<tableVars, server, outcome, clock, boots, starts>>

\* execute starts the handler of the task's type.
StartHandler(w) ==
  /\ server = "up" /\ pc[w] = "claimed"
  /\ job[w] \in handled
  /\ starts' = [starts EXCEPT ![job[w]] = @ + 1]
  /\ pc' = [pc EXCEPT ![w] = "handling"]
  /\ UNCHANGED <<tableVars, server, job, outcome, envVars>>

\* Mutation: execute returns without recording the failure.
NoHandlerNoReport(w) ==
  /\ server = "up" /\ pc[w] = "claimed"
  /\ job[w] \notin handled
  /\ pc' = [pc EXCEPT ![w] = "idle"]
  /\ job' = [job EXCEPT ![w] = NoTask]
  /\ UNCHANGED <<tableVars, server, outcome, envVars, starts>>

\* execute finds no handler.
NoHandler(w) ==
  /\ server = "up" /\ pc[w] = "claimed"
  /\ job[w] \notin handled
  /\ pc' = [pc EXCEPT ![w] = "reporting"]
  /\ outcome' = [outcome EXCEPT ![w] = "failed"]
  /\ UNCHANGED <<tableVars, server, job, envVars, starts>>

HandlerReturns(w, o) ==
  /\ server = "up" /\ pc[w] = "handling"
  /\ pc' = [pc EXCEPT ![w] = "reporting"]
  /\ outcome' = [outcome EXCEPT ![w] = o]
  /\ UNCHANGED <<tableVars, server, job, envVars, starts>>

BackToPolling(w) ==
  /\ pc' = [pc EXCEPT ![w] = "idle"]
  /\ job' = [job EXCEPT ![w] = NoTask]
  /\ outcome' = [outcome EXCEPT ![w] = "failed"]

Report(w) ==
  /\ server = "up" /\ pc[w] = "reporting"
  /\ UpdateStatus(job[w], outcome[w])
  /\ BackToPolling(w)
  /\ UNCHANGED <<server, envVars, starts>>

\* The error of UpdateStatus is discarded, and with it the outcome.
ReportFails(w) ==
  /\ server = "up" /\ pc[w] = "reporting"
  /\ faults < MaxFaults
  /\ faults' = faults + 1
  /\ BackToPolling(w)
  /\ UNCHANGED <<tableVars, server, clock, boots, starts>>

-------------------------------------------------------------------------------

WorkerStep(w) ==
  \/ PollNothing(w)
  \/ \E t \in Ids : ClaimNext(w, t)
  \/ FetchFails(w)
  \/ StartHandler(w)
  \/ NoHandler(w)
  \/ \E o \in Terminal : HandlerReturns(w, o)
  \/ Report(w)
  \/ ReportFails(w)

Next ==
  \/ \E t \in Ids, k \in Keys \cup {NoKey}, h \in BOOLEAN : Create(t, k, h)
  \/ Boot
  \/ Stop
  \/ Exit
  \/ Tick
  \/ \E w \in Workers : WorkerStep(w)

Spec == Init /\ [][Next]_vars

(***************************************************************************)
(* Every worker's ticker keeps firing and every handler returns (each      *)
(* bounds its waits with a timeout); the container runtime finishes a stop *)
(* and restarts the process; time passes.  Nobody has to submit a task, to *)
(* stop the process, or to make a statement fail.                          *)
(***************************************************************************)
Fairness ==
  /\ \A w \in Workers : WF_vars(WorkerStep(w))
  /\ WF_vars(Boot)
  /\ WF_vars(server = "stopping" /\ Exit)
  /\ WF_vars(Tick)

FairSpec == Spec /\ Fairness

-------------------------------------------------------------------------------
(* Properties *)

TypeOK ==
  /\ status \in [Ids -> Status]
  /\ key \in [Ids -> Keys \cup {NoKey}]
  /\ owner \in [Ids -> Workers \cup {NoWorker}]
  /\ expires \in [Ids -> Nat]
  /\ lastId \in 0..MaxTasks
  /\ handled \in SUBSET Ids
  /\ server \in {"down", "up", "stopping"}
  /\ pc \in [Workers -> {"off", "idle", "claimed", "handling", "reporting"}]
  /\ job \in [Workers -> Ids \cup {NoTask}]
  /\ outcome \in [Workers -> Terminal]
  /\ clock \in Nat /\ boots \in Nat /\ faults \in Nat
  /\ starts \in [Ids -> Nat]

\* A worker has a task in hand.
Busy(w) == pc[w] \in {"claimed", "handling", "reporting"}

\* The task a busy worker has in hand is running under that worker's lease,
\* however long the handler takes: leases are never renewed (the interval
\* lease_renew_seconds is configured and never read), and it is only the
\* recovery running before the workers that keeps a slow task from being
\* taken away from a worker that still executes it.
BusyWorkerHoldsLease ==
  \A w \in Workers : Busy(w) =>
    /\ job[w] \in Ids
    /\ status[job[w]] = "running"
    /\ owner[job[w]] = w

\* No handler is started twice on a task, across crashes, restarts, expired
\* leases and lost reports: an action of unknown outcome is never repeated.
StartedAtMostOnce == \A t \in Ids : starts[t] <= 1

\* Tasks are taken in the order of submission: while a task waits, no task
\* submitted after it has been claimed by any worker.
ClaimedInOrder ==
  \A t, u \in Ids : t < u /\ status[t] = "queued" => status[u] \in {"absent", "queued"}

\* Two open tasks never share an idempotency key, although UpdateStatus
\* compares no status and could bring a finished task's key back into use.
ActiveKeysDiffer ==
  \A t, u \in Ids :
    /\ status[t] \in Active /\ status[u] \in Active
    /\ key[t] = key[u] /\ key[t] # NoKey
    => t = u

\* A row carries a lease exactly while it is running, so that a scan for
\* expired leases neither misses a running task nor hits any other.
LeaseIffRunning ==
  \A t \in Ids :
    /\ status[t] = "running" <=> owner[t] # NoWorker
    /\ status[t] = "running" <=> expires[t] # NoLease

\* A recorded outcome is never changed: no late report, recovery or second
\* claim reaches a finished task.
OutcomeIsFinal ==
  [][\A t \in Ids : status[t] \in Terminal => status'[t] = status[t]]_vars

\* The abstract ledger, seen through the status and key columns.
Ledger == INSTANCE TaskLedger WITH state <- status

\* The table behaves as the ledger: workers, leases, faults and restarts show
\* only as tasks begun in order, ended once or interrupted.
ImplementsLedger == Ledger!Spec

\* A queued task is claimed in the end, whatever crashes and lost reports the
\* workers go through: neither eats a worker or the queue.
QueuedIsClaimed == \A t \in Ids : status[t] = "queued" ~> status[t] # "queued"

\* A task that a worker has in hand, with or without a handler for its type,
\* gets its outcome recorded, unless the process stops or a statement fails.
RunningIsFinished ==
  \A t \in Ids :
    (\E w \in Workers : job[w] = t)
      ~> (status[t] \in Terminal \/ server # "up" \/ faults > 0)

\* Design document, section 11.4: at start the RUNNING and INTERRUPTED tasks
\* are scanned and their state converges.  A task that is open and that no
\* worker has in hand is finished or queued again while the process is up.
AbandonedIsResolved ==
  \A t \in Ids :
    (status[t] \in {"running", "interrupted"} /\ server = "up" /\ \A w \in Workers : job[w] # t)
      ~> (status[t] \in Terminal \cup {"queued"} \/ server # "up")

===============================================================================
