--------------------------- MODULE MCActionDispatch ---------------------------
(* Model-checking instances of ActionDispatch. *)
EXTENDS ActionDispatch

CONSTANTS r1, r2

\* Every task has a key of its own.
DistinctKeys == [r \in Requests |-> r]

\* The second request repeats what the first did.
RetryKeys == [r \in Requests |-> r1]
===============================================================================
