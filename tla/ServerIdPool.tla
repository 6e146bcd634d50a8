----------------------------- MODULE ServerIdPool -----------------------------
(***************************************************************************)
(* What the pool of MySQL server ids promises: a host and port is given an *)
(* id once, no two are given the same one, and neither the id nor its use  *)
(* by a registered instance is ever taken back.                            *)
(***************************************************************************)
EXTENDS Integers

CONSTANTS
  Targets,  \* pairs of host and port
  MaxId     \* the largest server id

VARIABLES
  id,       \* the id of each target, 0 when it has none
  bound     \* the targets whose id is in use by a registered instance

vars == <<id, bound>>

Init ==
  /\ id = [t \in Targets |-> 0]
  /\ bound = {}

Issue(t, i) ==
  /\ id[t] = 0
  /\ \A u \in Targets : id[u] # i
  /\ id' = [id EXCEPT ![t] = i]
  /\ UNCHANGED bound

Bind(t) ==
  /\ id[t] # 0
  /\ bound' = bound \cup {t}
  /\ UNCHANGED id

Next == \E t \in Targets : Bind(t) \/ \E i \in 1..MaxId : Issue(t, i)

Spec == Init /\ [][Next]_vars
===============================================================================
