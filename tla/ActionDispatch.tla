---------------------------- MODULE ActionDispatch ----------------------------
(***************************************************************************)
(* The way of an action from a task worker to the agent and back:          *)
(* Gateway.Dispatch sends the request on the connection registered for the *)
(* agent and waits; the agent's handleAction queues for a slot, executes   *)
(* and reports on the connection the request came by; readLoop writes each *)
(* report into the task's row and hands it to the waiting Dispatch.        *)
(*                                                                         *)
(* One agent, one request per task: a request stands for its task too.     *)
(* AgentGateway has the registration of connections in detail; here it is  *)
(* one step, with the overlaps that matter to a request.                   *)
(***************************************************************************)
EXTENDS Integers, Sequences, FiniteSets

CONSTANTS
  Requests,       \* the requests, one per task
  Control,        \* those that pause, resume or stop an archive
  Key,            \* the idempotency key of each request's task
  MaxConcurrent,  \* executor.max_concurrent_tasks
  Reports,        \* "running" reports of an installation; a control makes one
  Cap,            \* capacity of a pending channel: 32 in the code
  MaxConns        \* bound on the agent's connections

ASSUME DispatchAssumption ==
  /\ IsFiniteSet(Requests) /\ Control \subseteq Requests
  /\ MaxConcurrent \in Nat \ {0}
  /\ Reports \in Nat \ {0}
  /\ Cap \in Nat \ {0}
  /\ MaxConns \in Nat \ {0}

VARIABLES
  conn,      \* each connection: free, up, down (its end not yet seen), ended
  up,        \* what the agent has sent on it and the server has not read
  hand,      \* the report its readLoop has recorded and not yet passed on
  entry,     \* the connection in the gateway's clients map
  caller,    \* each task's handler: in Dispatch, or what Dispatch returned
  via,       \* the connection its request was sent on
  pending,   \* the channel its Dispatch reads
  status,    \* tasks.status
  progress,  \* tasks.progress
  step,      \* status of the task's last task_steps row
  run,       \* the request at the agent
  reported,  \* "running" reports it has sent
  slots      \* slots of the agent's semaphore that are taken

connVars == <<conn, up, hand, entry>>
callVars == <<caller, via, pending>>
rowVars == <<status, progress, step>>
agentVars == <<run, reported, slots>>
vars == <<connVars, callVars, rowVars, agentVars>>

Conns == 1..MaxConns
None == 0
Up == {c \in Conns : conn[c] = "up"}
Full == Reports + 1            \* a progress of 100
Verdicts == {"success", "failed"}

\* agentproto.ActionResponse: whose it is, its status and progress.
Responses == [req : Requests, status : {"running"} \cup Verdicts, progress : 1..Full]

Init ==
  /\ conn = [c \in Conns |-> "free"]
  /\ up = [c \in Conns |-> <<>>]
  /\ hand = [c \in Conns |-> <<>>]
  /\ entry = None
  /\ caller = [r \in Requests |-> "none"]
  /\ via = [r \in Requests |-> None]
  /\ pending = [r \in Requests |-> <<>>]
  /\ status = [r \in Requests |-> "queued"]
  /\ progress = [r \in Requests |-> 0]
  /\ step = [r \in Requests |-> "none"]
  /\ run = [r \in Requests |-> "none"]
  /\ reported = [r \in Requests |-> 0]
  /\ slots = 0

-------------------------------------------------------------------------------
(* Connections *)

\* The agent reads a request, or starts again, only on its last connection.
Last(c) == conn[c] # "free" /\ \A d \in Conns : d > c => conn[d] = "free"

\* A connection is registered: the client it replaces is closed.
Connect(c) ==
  /\ conn[c] = "free"
  /\ \A d \in Conns : conn[d] # "up"
  /\ \A d \in 1..(c - 1) : conn[d] # "free"
  /\ conn' = [d \in Conns |-> IF d = c THEN "up" ELSE IF d = entry THEN "ended" ELSE conn[d]]
  /\ entry' = c
  /\ UNCHANGED <<up, hand, callVars, rowVars, agentVars>>

\* The connection breaks and what the server has not received is lost; or the
\* gateway closes it as stale, and reads nothing more.
Break(c) ==
  /\ conn[c] = "up"
  /\ conn' = [conn EXCEPT ![c] = "down"]
  /\ \E n \in 0..Len(up[c]) : up' = [up EXCEPT ![c] = SubSeq(@, 1, n)]
  /\ UNCHANGED <<hand, entry, callVars, rowVars, agentVars>>

\* Mutation: the done channel is closed only when a new client replaces it.
ReadEndsQuietly(c) ==
  /\ conn[c] = "down"
  /\ up[c] = <<>> /\ hand[c] = <<>>
  /\ entry' = IF entry = c THEN None ELSE entry
  /\ UNCHANGED <<conn, up, hand, callVars, rowVars, agentVars>>

\* readLoop returns, closes done, and unregister takes the client out.
ReadEnds(c) ==
  /\ conn[c] = "down"
  /\ up[c] = <<>> /\ hand[c] = <<>>
  /\ conn' = [conn EXCEPT ![c] = "ended"]
  /\ entry' = IF entry = c THEN None ELSE entry
  /\ UNCHANGED <<up, hand, callVars, rowVars, agentVars>>

-------------------------------------------------------------------------------
(* The task's handler, in Dispatch *)

\* The task is submitted and a worker claims it, whose handler calls Dispatch:
\* the index on keys lets the task in when no other with its key is open.
Claim(r) ==
  /\ status[r] = "queued"
  /\ \A q \in Requests \ {r} : Key[q] = Key[r] => status[q] # "running"
  /\ status' = [status EXCEPT ![r] = "running"]

\* The agent has no client, or the write fails on one that has just ended.
DispatchFails(r) ==
  /\ Claim(r)
  /\ entry \notin Up
  /\ caller' = [caller EXCEPT ![r] = "error"]
  /\ UNCHANGED <<connVars, via, pending, progress, step, agentVars>>

\* The channel is registered and the request written, perhaps into a
\* connection that has broken already.
Dispatch(r) ==
  /\ Claim(r)
  /\ entry # None
  /\ caller' = [caller EXCEPT ![r] = "waiting"]
  /\ via' = [via EXCEPT ![r] = entry]
  /\ run' = IF entry \in Up THEN [run EXCEPT ![r] = "sent"] ELSE run
  /\ UNCHANGED <<connVars, pending, progress, step, reported, slots>>

\* Dispatch leaves its loop and deletes its channel from the map.
Return(r, what) ==
  /\ caller' = [caller EXCEPT ![r] = what]
  /\ pending' = [pending EXCEPT ![r] = <<>>]

\* Mutation: any status that is not "running" counts as the answer.
TakeAnswer(r) ==
  /\ caller[r] = "waiting" /\ pending[r] # <<>>
  /\ LET resp == Head(pending[r]) IN
       IF resp.status # "running" THEN Return(r, "success")
       ELSE /\ pending' = [pending EXCEPT ![r] = Tail(@)]
            /\ UNCHANGED caller
  /\ UNCHANGED <<connVars, via, rowVars, agentVars>>

\* case resp := <-responses
TakeResponse(r) ==
  /\ caller[r] = "waiting" /\ pending[r] # <<>>
  /\ LET resp == Head(pending[r]) IN
       CASE resp.status = "success" -> Return(r, "success")
         [] resp.status = "failed"  -> Return(r, "failed")
         [] OTHER -> /\ pending' = [pending EXCEPT ![r] = Tail(@)]
                     /\ UNCHANGED caller
  /\ UNCHANGED <<connVars, via, rowVars, agentVars>>

\* case <-c.done, even when an answer is there to be taken
NoticeDone(r) ==
  /\ caller[r] = "waiting" /\ conn[via[r]] = "ended"
  /\ Return(r, "error")
  /\ UNCHANGED <<connVars, via, rowVars, agentVars>>

\* case <-timer.C, or <-ctx.Done()
TimeOut(r) ==
  /\ caller[r] = "waiting"
  /\ Return(r, "error")
  /\ UNCHANGED <<connVars, via, rowVars, agentVars>>

\* The engine's execute: a failed task gets the progress it was claimed with.
UpdateStatus(r) ==
  /\ status[r] = "running" /\ caller[r] \in {"success", "failed", "error"}
  /\ status' = [status EXCEPT ![r] = IF caller[r] = "success" THEN "success" ELSE "failed"]
  /\ progress' = [progress EXCEPT ![r] = IF caller[r] = "success" THEN Full ELSE 0]
  /\ UNCHANGED <<connVars, callVars, step, agentVars>>

-------------------------------------------------------------------------------
(* The connection's readLoop *)

\* Mutation: the row of a step is inserted once and not updated.
RecordFirstStep(resp) ==
  /\ progress' = [progress EXCEPT ![resp.req] = resp.progress]
  /\ step' = [step EXCEPT ![resp.req] = IF @ = "none" THEN resp.status ELSE @]
  /\ UNCHANGED status

\* recordResponse with the report resp: UpdateProgress, whatever the status of
\* the task by then, and UpsertStep.
RecordResponse(resp) ==
  /\ progress' = [progress EXCEPT ![resp.req] = resp.progress]
  /\ step' = [step EXCEPT ![resp.req] = resp.status]
  /\ UNCHANGED status

\* Mutation: every message gets a goroutine, which may overtake an earlier one.
ReadAnyResponse(c) ==
  /\ conn[c] \in {"up", "down"}
  /\ up[c] # <<>> /\ hand[c] = <<>>
  /\ \E i \in 1..Len(up[c]) :
       /\ RecordResponse(up[c][i])
       /\ hand' = [hand EXCEPT ![c] = <<up[c][i]>>]
       /\ up' = [up EXCEPT ![c] = SubSeq(@, 1, i - 1) \o SubSeq(@, i + 1, Len(@))]
  /\ UNCHANGED <<conn, entry, callVars, agentVars>>

ReadResponse(c) ==
  /\ conn[c] \in {"up", "down"}
  /\ up[c] # <<>> /\ hand[c] = <<>>
  /\ RecordResponse(Head(up[c]))
  /\ hand' = [hand EXCEPT ![c] = <<Head(up[c])>>]
  /\ up' = [up EXCEPT ![c] = Tail(@)]
  /\ UNCHANGED <<conn, entry, callVars, agentVars>>

\* Mutation: a report is kept out when even one is waiting.
DeliverIfIdle(c) ==
  /\ hand[c] # <<>>
  /\ LET resp == Head(hand[c]) IN
       pending' = IF caller[resp.req] = "waiting" /\ via[resp.req] = c /\ pending[resp.req] = <<>>
                    THEN [pending EXCEPT ![resp.req] = Append(@, resp)]
                    ELSE pending
  /\ hand' = [hand EXCEPT ![c] = <<>>]
  /\ UNCHANGED <<conn, up, entry, caller, via, rowVars, agentVars>>

\* The report goes to the Dispatch that waits for it, and is dropped when there
\* is none or its channel is full.
Deliver(c) ==
  /\ hand[c] # <<>>
  /\ LET resp == Head(hand[c]) IN
       pending' = IF /\ caller[resp.req] = "waiting" /\ via[resp.req] = c
                     /\ Len(pending[resp.req]) < Cap
                    THEN [pending EXCEPT ![resp.req] = Append(@, resp)]
                    ELSE pending
  /\ hand' = [hand EXCEPT ![c] = <<>>]
  /\ UNCHANGED <<conn, up, entry, caller, via, rowVars, agentVars>>

-------------------------------------------------------------------------------
(* The agent *)

\* runOnce reads the request and starts a goroutine for it; what had reached
\* the agent before the connection broke can still be read.
Receive(r) ==
  /\ run[r] = "sent"
  /\ Last(via[r]) /\ conn[via[r]] # "ended"
  /\ run' = [run EXCEPT ![r] = "queued"]
  /\ UNCHANGED <<connVars, callVars, rowVars, reported, slots>>

\* reporter: the write fails unnoticed on a connection that has ended.
Send(r, kind, n) ==
  LET c == via[r] IN
    up' = IF conn[c] = "up"
            THEN [up EXCEPT ![c] = Append(@, [req |-> r, status |-> kind, progress |-> n])]
            ELSE up

\* Mutation: an action that controls an archive queues like the others.
HasSlotForAll(r) == slots < MaxConcurrent
TakesSlot(r) == r \notin Control
HasSlot(r) == r \in Control \/ slots < MaxConcurrent

\* handleAction has its slot, if it needs one, and says it starts.
Start(r) ==
  /\ run[r] = "queued"
  /\ HasSlot(r)
  /\ slots' = IF TakesSlot(r) THEN slots + 1 ELSE slots
  /\ run' = [run EXCEPT ![r] = "executing"]
  /\ reported' = [reported EXCEPT ![r] = 1]
  /\ Send(r, "running", 1)
  /\ UNCHANGED <<conn, hand, entry, callVars, rowVars>>

Report(r) ==
  /\ run[r] = "executing"
  /\ r \notin Control /\ reported[r] < Reports
  /\ reported' = [reported EXCEPT ![r] = @ + 1]
  /\ Send(r, "running", reported[r] + 1)
  /\ UNCHANGED <<conn, hand, entry, callVars, rowVars, run, slots>>

\* Mutation: the slot is given back only by an action that succeeds.
FinishHoldingSlot(r, verdict) ==
  /\ run[r] = "executing"
  /\ verdict = "success" => r \in Control \/ reported[r] = Reports
  /\ run' = [run EXCEPT ![r] = verdict]
  /\ slots' = IF TakesSlot(r) /\ verdict = "success" THEN slots - 1 ELSE slots
  /\ Send(r, verdict, Full)
  /\ UNCHANGED <<conn, hand, entry, callVars, rowVars, reported>>

\* Mutation: an action that took no slot gives one back.
FinishReleasingAlways(r, verdict) ==
  /\ run[r] = "executing"
  /\ verdict = "success" => r \in Control \/ reported[r] = Reports
  /\ run' = [run EXCEPT ![r] = verdict]
  /\ slots' = slots - 1
  /\ Send(r, verdict, Full)
  /\ UNCHANGED <<conn, hand, entry, callVars, rowVars, reported>>

\* The action succeeds, or fails before or after its other reports.
Finish(r, verdict) ==
  /\ run[r] = "executing"
  /\ verdict = "success" => r \in Control \/ reported[r] = Reports
  /\ run' = [run EXCEPT ![r] = verdict]
  /\ slots' = IF TakesSlot(r) THEN slots - 1 ELSE slots
  /\ Send(r, verdict, Full)
  /\ UNCHANGED <<conn, hand, entry, callVars, rowVars, reported>>

\* The agent process dies and starts again; it remembers no request.
AgentRestart ==
  /\ \E r \in Requests : run[r] \in {"sent", "queued", "executing"}
  /\ conn' = [c \in Conns |-> IF c \in Up THEN "down" ELSE conn[c]]
  /\ run' = [r \in Requests |-> IF run[r] \in {"sent", "queued", "executing"} THEN "lost" ELSE run[r]]
  /\ slots' = 0
  /\ UNCHANGED <<up, hand, entry, callVars, rowVars, reported>>

-------------------------------------------------------------------------------
Next ==
  \/ \E c \in Conns :
       Connect(c) \/ Break(c) \/ ReadEnds(c) \/ ReadResponse(c) \/ Deliver(c)
  \/ \E r \in Requests :
       \/ DispatchFails(r) \/ Dispatch(r)
       \/ TakeResponse(r) \/ NoticeDone(r) \/ TimeOut(r) \/ UpdateStatus(r)
       \/ Receive(r) \/ Start(r) \/ Report(r)
       \/ \E verdict \in Verdicts : Finish(r, verdict)
  \/ AgentRestart

Spec == Init /\ [][Next]_vars

(***************************************************************************)
(* The goroutines of server and agent are scheduled.  Nothing is assumed   *)
(* of the network, of timers, of an action's end, or of the agent coming   *)
(* back.                                                                   *)
(***************************************************************************)
Fairness ==
  /\ \A c \in Conns : WF_vars(ReadEnds(c)) /\ WF_vars(ReadResponse(c)) /\ WF_vars(Deliver(c))
  /\ \A r \in Requests :
       /\ WF_vars(TakeResponse(r)) /\ WF_vars(NoticeDone(r)) /\ WF_vars(UpdateStatus(r))
       /\ WF_vars(via[r] \in Up /\ Receive(r)) /\ WF_vars(Start(r)) /\ WF_vars(Report(r))

FairSpec == Spec /\ Fairness

-------------------------------------------------------------------------------
(* Properties *)

Executing == {r \in Requests : run[r] = "executing"}

TypeOK ==
  /\ conn \in [Conns -> {"free", "up", "down", "ended"}]
  /\ up \in [Conns -> Seq(Responses)]
  /\ hand \in [Conns -> Seq(Responses)] /\ \A c \in Conns : Len(hand[c]) <= 1
  /\ entry \in Conns \cup {None}
  /\ caller \in [Requests -> {"none", "waiting", "success", "failed", "error"}]
  /\ via \in [Requests -> Conns \cup {None}]
  /\ pending \in [Requests -> Seq(Responses)] /\ \A r \in Requests : Len(pending[r]) <= Cap
  /\ status \in [Requests -> {"queued", "running"} \cup Verdicts]
  /\ progress \in [Requests -> 0..Full]
  /\ step \in [Requests -> {"none", "running"} \cup Verdicts]
  /\ run \in [Requests -> {"none", "sent", "queued", "executing", "lost"} \cup Verdicts]
  /\ reported \in [Requests -> 0..Reports]
  /\ slots \in 0..MaxConcurrent

\* A task succeeds only when the agent has executed its own action with success.
SuccessIsReal == \A r \in Requests : status[r] = "success" => run[r] = "success"

\* A task that has succeeded shows it in full: progress 100 and a step that
\* succeeded, although readLoop and worker write the rows independently.
SuccessIsWhole ==
  \A r \in Requests : status[r] = "success" => progress[r] = Full /\ step[r] = "success"

\* While its Dispatch waits, the progress of a task never falls: the reports of
\* one execution are recorded in the order the agent made them.
ReportsInOrder ==
  [][\A r \in Requests :
       caller[r] = "waiting" /\ caller'[r] = "waiting" => progress'[r] >= progress[r]]_vars

\* The semaphore counts what executes, through lost connections and restarts:
\* no more than max_concurrent_tasks at once, and no slot is lost.
SlotsAreExact == slots = Cardinality(Executing \ Control)

\* A request to pause or stop an archive that has reached the agent starts,
\* even if every slot is taken by an action that never ends.
ControlStarts ==
  \A r \in Control : run[r] = "queued" ~> run[r] # "queued"

\* A Dispatch whose connection has broken returns without its timer.
CallerIsTold ==
  \A r \in Requests :
    (caller[r] = "waiting" /\ conn[via[r]] = "down") ~> caller[r] # "waiting"

\* While the connection lasts and no timer fires, the verdict of the agent is
\* what Dispatch returns: as long as the channel holds every report of an
\* execution, a slow caller loses none.
VerdictArrives ==
  \A r \in Requests, v \in Verdicts :
    (run[r] = v /\ caller[r] = "waiting")
      ~> (caller[r] \in {v, "error"} \/ via[r] \notin Up)

\* Design document, line 409: an operation is not blindly executed again while
\* it may still be running; the key of its task is to keep others out.
OneExecutionPerKey ==
  \A q, r \in Executing : Key[q] = Key[r] => q = r

===============================================================================
