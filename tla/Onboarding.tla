------------------------------ MODULE Onboarding -------------------------------
(***************************************************************************)
(* Registering databases that exist already: Onboard of the Oracle,        *)
(* PostgreSQL and Doris services, each a request of the HTTP API in a      *)
(* goroutine of its own.  The agent validates the login; then the          *)
(* credential is stored, the instance inserted beside it, and the          *)
(* credential taken back when the instance is refused.                     *)
(*                                                                         *)
(* Every statement has the context of the request, which ends when its     *)
(* client leaves.  A request names the credential it has stored and the    *)
(* instance it has inserted.                                               *)
(***************************************************************************)
EXTENDS Integers

CONSTANTS
  MaxRequests,  \* bound on the requests
  Targets,      \* hosts and ports: what the table's UNIQUE is over
  MaxFaults     \* bound on restarts and failed statements

Requests == 1..MaxRequests
NoRequest == 0

VARIABLES
  pc,          \* each request, and how far its service has come
  target,      \* the host and port it is for
  gone,        \* the requests whose clients have left
  credential,  \* the requests with a row in credentials
  instance,    \* database_instances: the request of each target's row
  faults       \* faults so far, up to MaxFaults

tableVars == <<credential, instance>>
vars == <<pc, target, gone, tableVars, faults>>

AtWork == {"validated", "stored", "inserted", "undoing"}

Init ==
  /\ pc = [r \in Requests |-> "none"]
  /\ target \in [Requests -> Targets]
  /\ gone = {}
  /\ credential = {}
  /\ instance = [t \in Targets |-> NoRequest]
  /\ faults = 0

Fault == faults < MaxFaults /\ faults' = faults + 1

\* A statement of the request fails, or is cut short since its client has left.
Fails(r) == (r \in gone /\ UNCHANGED faults) \/ Fault

Goto(r, place) == pc' = [pc EXCEPT ![r] = place]

-------------------------------------------------------------------------------
(* Validation at the agent, which changes nothing *)

\* An agent that is offline, a request it cannot log in with or a client that
\* leaves ends the matter here.
Decide(r, valid) ==
  /\ pc[r] = "none"
  /\ Goto(r, IF valid THEN "validated" ELSE "refused")
  /\ UNCHANGED <<target, gone, tableVars, faults>>

\* oracle.status logs in through sqlplus.
OnboardOracle(r) == \E answered \in BOOLEAN : Decide(r, answered)

\* postgres.status takes a primary and a standby alike.
OnboardPostgres(r) == \E answered \in BOOLEAN : Decide(r, answered)

\* doris.cluster.status counts the frontends and the backends alive.
OnboardDoris(r) ==
  \E answered \in BOOLEAN, fe, be \in 0..1 : Decide(r, answered /\ fe > 0 /\ be > 0)

-------------------------------------------------------------------------------
(* The two rows *)

StoreCredential(r) ==
  /\ pc[r] = "validated" /\ r \notin gone
  /\ Goto(r, "stored")
  /\ credential' = credential \cup {r}
  /\ UNCHANGED <<target, gone, instance, faults>>

\* Nothing is taken back: what was executed before it was cut short stays.
StoreFails(r) ==
  /\ pc[r] = "validated"
  /\ Fails(r)
  /\ Goto(r, "cut")
  /\ \/ UNCHANGED credential
     \/ r \in gone /\ credential' = credential \cup {r}
  /\ UNCHANGED <<target, gone, instance>>

Write(r) == instance' = [instance EXCEPT ![target[r]] = r]

\* The INSERT of CreateInstalled.
Insert(r) ==
  /\ pc[r] = "stored" /\ r \notin gone
  /\ instance[target[r]] = NoRequest
  /\ Goto(r, "inserted")
  /\ Write(r)
  /\ UNCHANGED <<target, gone, credential, faults>>

\* Another has the host and port, or the statement fails.
InsertFails(r) ==
  /\ pc[r] = "stored"
  /\ \/ instance[target[r]] # NoRequest /\ UNCHANGED <<instance, faults>>
     \/ Fails(r) /\ UNCHANGED instance
     \/ r \in gone /\ instance[target[r]] = NoRequest /\ Write(r) /\ UNCHANGED faults
  /\ Goto(r, "undoing")
  /\ UNCHANGED <<target, gone, credential>>

\* CreateInstalled reads the row it has inserted.
Answer(r) ==
  /\ pc[r] = "inserted" /\ r \notin gone
  /\ Goto(r, "created")
  /\ UNCHANGED <<target, gone, tableVars, faults>>

\* The row stays; Onboard sees a failure like any other.
AnswerFails(r) ==
  /\ pc[r] = "inserted"
  /\ Fails(r)
  /\ Goto(r, "undoing")
  /\ UNCHANGED <<target, gone, tableVars>>

\* Mutation: rows refer to nothing (foreign_keys is off).
UndoAnyhow(r) ==
  /\ pc[r] = "undoing" /\ r \notin gone
  /\ Goto(r, "refused")
  /\ credential' = credential \ {r}
  /\ UNCHANGED <<target, gone, instance, faults>>

\* The credential is deleted, unless an instance refers to it.
Undo(r) ==
  /\ pc[r] = "undoing" /\ r \notin gone
  /\ Goto(r, "refused")
  /\ credential' = IF instance[target[r]] = r THEN credential ELSE credential \ {r}
  /\ UNCHANGED <<target, gone, instance, faults>>

\* The error of the deletion is ignored.
UndoFails(r) ==
  /\ pc[r] = "undoing"
  /\ Fails(r)
  /\ Goto(r, "cut")
  /\ UNCHANGED <<target, gone, tableVars>>

-------------------------------------------------------------------------------

\* The connection of a client ends.
ClientLeaves(r) ==
  /\ pc[r] \in AtWork /\ r \notin gone
  /\ gone' = gone \cup {r}
  /\ UNCHANGED <<pc, target, tableVars, faults>>

ServerRestart ==
  /\ Fault
  /\ pc' = [r \in Requests |-> IF pc[r] \in AtWork THEN "cut" ELSE pc[r]]
  /\ UNCHANGED <<target, gone, tableVars>>

Onboard(r) ==
  \/ OnboardOracle(r) \/ OnboardPostgres(r) \/ OnboardDoris(r)
  \/ StoreCredential(r) \/ Insert(r) \/ Answer(r) \/ Undo(r)

Failure(r) == StoreFails(r) \/ InsertFails(r) \/ AnswerFails(r) \/ UndoFails(r)

Next ==
  \/ \E r \in Requests : Onboard(r) \/ Failure(r) \/ ClientLeaves(r)
  \/ ServerRestart

Spec == Init /\ [][Next]_vars

-------------------------------------------------------------------------------
(* Properties *)

\* The variables keep to their types.
TypeOK ==
  /\ pc \in [Requests -> AtWork \cup {"none", "created", "refused", "cut"}]
  /\ target \in [Requests -> Targets]
  /\ gone \subseteq Requests
  /\ credential \subseteq Requests
  /\ instance \in [Targets -> Requests \cup {NoRequest}]
  /\ faults \in Nat

Registered(r) == instance[target[r]] = r

\* An instance has the credential its row refers to, whatever becomes of the
\* request that registered it; who is told "created" has a row, of however many
\* requests for one host and port; and who is refused leaves a credential only
\* if the row is there all the same.  Only a request that is cut short, by its
\* client or a failure of the deletion itself, leaves a credential of nothing.
SecretsAreUsed ==
  \A r \in Requests :
    /\ Registered(r) => r \in credential
    /\ pc[r] = "created" => Registered(r)
    /\ pc[r] = "refused" /\ r \in credential => Registered(r)
===============================================================================
