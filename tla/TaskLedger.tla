------------------------------ MODULE TaskLedger ------------------------------
(***************************************************************************)
(* What the task engine promises to the rest of the server, without its    *)
(* workers, leases, clock or restarts: a ledger of numbered tasks in which *)
(* every task is begun at most once, in the order of submission, a begun   *)
(* task ends in one outcome or is set aside as interrupted, and two tasks  *)
(* that are not finished never share an idempotency key.                   *)
(***************************************************************************)
EXTENDS Integers

CONSTANTS
  MaxTasks,   \* bound on the tasks ever submitted
  Keys,       \* idempotency keys
  NoKey       \* the NULL idempotency key, which is never unique

VARIABLES
  state,      \* what the ledger says of each task
  key         \* the idempotency key each task was submitted with

vars == <<state, key>>

Ids == 1..MaxTasks
Finished == {"success", "failed"}
Open == {"queued", "running", "interrupted"}
States == {"absent"} \cup Open \cup Finished

Init ==
  /\ state = [t \in Ids |-> "absent"]
  /\ key = [t \in Ids |-> NoKey]

\* A task takes the next number, unless an open task has its key.
Submit(t, k) ==
  /\ state[t] = "absent"
  /\ \A u \in Ids : u < t => state[u] # "absent"
  /\ k # NoKey => \A u \in Ids : state[u] \in Open => key[u] # k
  /\ state' = [state EXCEPT ![t] = "queued"]
  /\ key' = [key EXCEPT ![t] = k]

\* The oldest waiting task is begun.
Begin(t) ==
  /\ state[t] = "queued"
  /\ \A u \in Ids : u < t => state[u] # "queued"
  /\ state' = [state EXCEPT ![t] = "running"]
  /\ UNCHANGED key

Finish(t, o) ==
  /\ state[t] = "running"
  /\ state' = [state EXCEPT ![t] = o]
  /\ UNCHANGED key

\* Some of the begun tasks are set aside; they are never begun again.
Interrupt(S) ==
  /\ S # {}
  /\ \A t \in S : state[t] = "running"
  /\ state' = [t \in Ids |-> IF t \in S THEN "interrupted" ELSE state[t]]
  /\ UNCHANGED key

Next ==
  \/ \E t \in Ids, k \in Keys \cup {NoKey} : Submit(t, k)
  \/ \E t \in Ids : Begin(t)
  \/ \E t \in Ids, o \in Finished : Finish(t, o)
  \/ \E S \in SUBSET Ids : Interrupt(S)

Spec == Init /\ [][Next]_vars
===============================================================================
