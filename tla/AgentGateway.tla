----------------------------- MODULE AgentGateway -----------------------------
(***************************************************************************)
(* The connections of one agent at the server's gateway                    *)
(* (agentgateway/gateway.go): the handler each WebSocket connection runs   *)
(* in, the map of clients in which Dispatch looks the agent up, the status *)
(* and token_hash columns of the agent's row, and the credential the agent *)
(* keeps in a file (agentclient/client.go, config.go).  Agents do not      *)
(* share any of it, so one agent stands for all.                           *)
(*                                                                         *)
(* The agent dials again when it sees its connection end; the server may   *)
(* see that end much later, when its handler for the old connection is     *)
(* still at work beside the one for the new.                               *)
(***************************************************************************)
EXTENDS Integers, FiniteSets

CONSTANTS
  MaxConns,      \* bound on the connections the agent ever dials
  MaxCrashes,    \* bound on the crashes of the server
  MaxFailures    \* bound on the handshakes that fail after the row is written

ASSUME GatewayAssumption ==
  /\ MaxConns \in Nat \ {0}
  /\ MaxCrashes \in Nat
  /\ MaxFailures \in Nat

VARIABLES
  pc,         \* where the handler of each connection is
  fresh,      \* whether it came in with the bootstrap token
  closed,     \* whether the server has called conn.Close on it
  done,       \* whether its done channel is closed
  replaced,   \* the client a connection took the place of, to be closed
  current,    \* the entry of the agent in the clients map
  status,     \* agents.status
  hash,       \* agents.token_hash: the connection whose credential it is of
  link,       \* whether the network still carries each connection
  auth,       \* the credential in its hello; None stands for the token
  mail,       \* whether "registered" is on its way to the agent
  beat,       \* whether a heartbeat of the agent is on its way to the server
  dialled,    \* the agent's last connection
  joined,     \* whether the agent has read "registered" on it
  saved,      \* the agent's credential file, as hash
  crashes, failures

serverVars == <<pc, fresh, closed, done, replaced, current>>
rowVars == <<status, hash>>
netVars == <<link, auth, mail, beat>>
agentVars == <<dialled, joined, saved>>
vars == <<serverVars, rowVars, netVars, agentVars, crashes, failures>>

Conns == 1..MaxConns
None == 0

Init ==
  /\ pc = [c \in Conns |-> "free"]
  /\ fresh = [c \in Conns |-> FALSE]
  /\ closed = [c \in Conns |-> FALSE]
  /\ done = [c \in Conns |-> FALSE]
  /\ replaced = [c \in Conns |-> None]
  /\ current = None
  /\ status = "offline" /\ hash = None
  /\ link = [c \in Conns |-> FALSE]
  /\ auth = [c \in Conns |-> None]
  /\ mail = [c \in Conns |-> FALSE]
  /\ beat = [c \in Conns |-> FALSE]
  /\ dialled = None /\ joined = FALSE /\ saved = None
  /\ crashes = 0 /\ failures = 0

\* The agent has a connection it has no reason to give up.
Connected == dialled # None /\ link[dialled] /\ ~closed[dialled]

-------------------------------------------------------------------------------
(* The agent and the network *)

\* runOnce, when the last connection has ended for the agent: LoadAuth takes
\* the credential of the file, or the bootstrap token when there is none.
Dial(c) ==
  /\ c = dialled + 1
  /\ ~Connected
  /\ dialled' = c
  /\ joined' = FALSE
  /\ auth' = [auth EXCEPT ![c] = saved]
  /\ link' = [link EXCEPT ![c] = TRUE]
  /\ pc' = [pc EXCEPT ![c] = "hello"]
  /\ UNCHANGED <<fresh, closed, done, replaced, current, rowVars, mail, beat, saved, crashes, failures>>

\* The network or the agent ends a connection; what was sent may yet be read.
Break(c) ==
  /\ link[c]
  /\ link' = [link EXCEPT ![c] = FALSE]
  /\ UNCHANGED <<serverVars, rowVars, auth, mail, beat, agentVars, crashes, failures>>

\* runOnce reads "registered" and SaveCredential writes what it brings.  If it
\* fails the agent ends the connection, as if the message had not come.
Join(c) ==
  /\ c = dialled /\ mail[c]
  /\ mail' = [mail EXCEPT ![c] = FALSE]
  /\ joined' = TRUE
  /\ saved' = IF fresh[c] THEN c ELSE saved
  /\ UNCHANGED <<serverVars, rowVars, link, auth, beat, dialled, crashes, failures>>

\* heartbeatLoop
SendHeartbeat(c) ==
  /\ c = dialled /\ joined /\ Connected
  /\ ~beat[c]
  /\ beat' = [beat EXCEPT ![c] = TRUE]
  /\ UNCHANGED <<serverVars, rowVars, link, auth, mail, agentVars, crashes, failures>>

-------------------------------------------------------------------------------
(* The handler of a connection *)

\* authenticate: an agent with a hash must show its credential, one without
\* the bootstrap token, which an agent that has a credential does not send.
Authentic(c) == auth[c] = hash

\* The hello is refused, as authenticate says or as malformed, or a query fails.
Reject(c) ==
  /\ pc[c] = "hello"
  /\ pc' = [pc EXCEPT ![c] = "gone"]
  /\ closed' = [closed EXCEPT ![c] = TRUE]
  /\ UNCHANGED <<fresh, done, replaced, current, rowVars, netVars, agentVars, crashes, failures>>

\* The hello is authenticated and AgentRepo.Upsert writes the row.
Upsert(c) ==
  /\ pc[c] = "hello"
  /\ Authentic(c)
  /\ pc' = [pc EXCEPT ![c] = "upserted"]
  /\ fresh' = [fresh EXCEPT ![c] = hash = None]
  /\ status' = "online"
  /\ UNCHANGED <<closed, done, replaced, current, hash, netVars, agentVars, crashes, failures>>

\* Mutation: a credential is generated for every connection.
EnrollAlways(c) ==
  /\ pc[c] = "upserted"
  /\ pc' = [pc EXCEPT ![c] = "stored"]
  /\ hash' = c
  /\ UNCHANGED <<fresh, closed, done, replaced, current, status, netVars, agentVars, crashes, failures>>

\* A new agent gets a credential; its hash overwrites any stored meanwhile.
Enroll(c) ==
  /\ pc[c] = "upserted"
  /\ pc' = [pc EXCEPT ![c] = "stored"]
  /\ hash' = IF fresh[c] THEN c ELSE hash
  /\ UNCHANGED <<fresh, closed, done, replaced, current, status, netVars, agentVars, crashes, failures>>

\* The credential cannot be stored, or "registered" cannot be written: the
\* handler closes the connection and returns.
GiveUp(c) ==
  /\ failures < MaxFailures
  /\ failures' = failures + 1
  /\ pc[c] \in {"upserted", "stored"}
  /\ pc' = [pc EXCEPT ![c] = "gone"]
  /\ closed' = [closed EXCEPT ![c] = TRUE]
  /\ UNCHANGED <<fresh, done, replaced, current, rowVars, netVars, agentVars, crashes>>

\* "registered" is written, before the connection is in the map.
Announce(c) ==
  /\ pc[c] = "stored"
  /\ pc' = [pc EXCEPT ![c] = "announced"]
  /\ mail' = [mail EXCEPT ![c] = link[c]]
  /\ UNCHANGED <<fresh, closed, done, replaced, current, rowVars, link, auth, beat, agentVars, crashes, failures>>

\* register, under the mutex ...
Register(c) ==
  /\ pc[c] = "announced"
  /\ pc' = [pc EXCEPT ![c] = "swapped"]
  /\ replaced' = [replaced EXCEPT ![c] = current]
  /\ current' = c
  /\ UNCHANGED <<fresh, closed, done, rowVars, netVars, agentVars, crashes, failures>>

\* Mutation: the client that was replaced is left open.
LeaveReplaced(c) ==
  /\ pc[c] = "swapped"
  /\ pc' = [pc EXCEPT ![c] = "serving"]
  /\ replaced' = [replaced EXCEPT ![c] = None]
  /\ UNCHANGED <<fresh, closed, done, current, rowVars, netVars, agentVars, crashes, failures>>

\* ... and outside it: the client that was replaced is closed.
CloseReplaced(c) ==
  /\ pc[c] = "swapped"
  /\ pc' = [pc EXCEPT ![c] = "serving"]
  /\ LET old == {replaced[c]} \ {None} IN
       /\ closed' = [d \in Conns |-> closed[d] \/ d \in old]
       /\ done' = [d \in Conns |-> done[d] \/ d \in old]
  /\ replaced' = [replaced EXCEPT ![c] = None]
  /\ UNCHANGED <<fresh, current, rowVars, netVars, agentVars, crashes, failures>>

\* Mutation: a heartbeat only refreshes last_heartbeat_at.
ReadHeartbeatOnly(c) ==
  /\ pc[c] = "serving"
  /\ beat[c] /\ ~closed[c]
  /\ beat' = [beat EXCEPT ![c] = FALSE]
  /\ UNCHANGED <<serverVars, rowVars, link, auth, mail, agentVars, crashes, failures>>

\* readLoop and AgentRepo.Heartbeat.
ReadHeartbeat(c) ==
  /\ pc[c] = "serving"
  /\ beat[c] /\ ~closed[c]
  /\ beat' = [beat EXCEPT ![c] = FALSE]
  /\ status' = "online"
  /\ UNCHANGED <<serverVars, hash, link, auth, mail, agentVars, crashes, failures>>

\* readLoop returns: the read fails at once on a closed connection, and on a
\* broken one when what the agent had sent is read.
ReadEnds(c) ==
  /\ pc[c] = "serving"
  /\ closed[c] \/ (~link[c] /\ ~beat[c])
  /\ pc' = [pc EXCEPT ![c] = "draining"]
  /\ done' = [done EXCEPT ![c] = TRUE]
  /\ beat' = [beat EXCEPT ![c] = FALSE]
  /\ UNCHANGED <<fresh, closed, replaced, current, rowVars, link, auth, mail, agentVars, crashes, failures>>

\* Mutation: the entry is deleted whichever client it holds.
UnregisterAny(c) ==
  /\ pc[c] = "draining"
  /\ pc' = [pc EXCEPT ![c] = "removed"]
  /\ current' = None
  /\ closed' = [closed EXCEPT ![c] = TRUE]
  /\ UNCHANGED <<fresh, done, replaced, rowVars, netVars, agentVars, crashes, failures>>

\* Mutation: the entry is left in the map.
UnregisterNothing(c) ==
  /\ pc[c] = "draining"
  /\ pc' = [pc EXCEPT ![c] = "removed"]
  /\ closed' = [closed EXCEPT ![c] = TRUE]
  /\ UNCHANGED <<fresh, done, replaced, current, rowVars, netVars, agentVars, crashes, failures>>

\* unregister: the entry is deleted if it is still this connection ...
Unregister(c) ==
  /\ pc[c] = "draining"
  /\ pc' = [pc EXCEPT ![c] = "removed"]
  /\ current' = IF current = c THEN None ELSE current
  /\ closed' = [closed EXCEPT ![c] = TRUE]
  /\ UNCHANGED <<fresh, done, replaced, rowVars, netVars, agentVars, crashes, failures>>

\* Mutation: the row is left alone when another connection is registered
\* when the handler looks, as a repair of the race might do.
MarkOfflineIfAlone(c) ==
  /\ pc[c] = "removed"
  /\ pc' = [pc EXCEPT ![c] = "gone"]
  /\ status' = IF current = None /\ dialled = c THEN "offline" ELSE status
  /\ UNCHANGED <<fresh, closed, done, replaced, current, hash, netVars, agentVars, crashes, failures>>

\* Mutation: the row gets a status the console does not know.
MarkDisconnected(c) ==
  /\ pc[c] = "removed"
  /\ pc' = [pc EXCEPT ![c] = "gone"]
  /\ status' = "disconnected"
  /\ UNCHANGED <<fresh, closed, done, replaced, current, hash, netVars, agentVars, crashes, failures>>

\* ... and the row is marked offline, whichever connection is served by then.
MarkOffline(c) ==
  /\ pc[c] = "removed"
  /\ pc' = [pc EXCEPT ![c] = "gone"]
  /\ status' = "offline"
  /\ UNCHANGED <<fresh, closed, done, replaced, current, hash, netVars, agentVars, crashes, failures>>

-------------------------------------------------------------------------------
(* The gateway *)

\* closeStale: the client in the map has not been heard of for too long,
\* because its connection is broken, or its agent is stuck or slow; closeAll,
\* when the server stops, does the same to every client.
CloseStale(c) ==
  /\ current = c
  /\ ~closed[c]
  /\ closed' = [closed EXCEPT ![c] = TRUE]
  /\ UNCHANGED <<pc, fresh, done, replaced, current, rowVars, netVars, agentVars, crashes, failures>>

\* The server process dies and is started again: handlers and map are gone.
Crash ==
  /\ crashes < MaxCrashes
  /\ crashes' = crashes + 1
  /\ pc' = [c \in Conns |-> IF pc[c] = "free" THEN "free" ELSE "gone"]
  /\ closed' = [c \in Conns |-> c <= dialled]
  /\ done' = [c \in Conns |-> FALSE]
  /\ beat' = [c \in Conns |-> FALSE]
  /\ replaced' = [c \in Conns |-> None]
  /\ current' = None
  /\ UNCHANGED <<fresh, rowVars, link, auth, mail, agentVars, failures>>

Handler(c) ==
  \/ Upsert(c) \/ Enroll(c) \/ Announce(c) \/ Register(c) \/ CloseReplaced(c)
  \/ ReadHeartbeat(c) \/ ReadEnds(c) \/ Unregister(c) \/ MarkOffline(c)

Next ==
  \/ \E c \in Conns :
       \/ Dial(c) \/ Break(c) \/ Join(c) \/ SendHeartbeat(c)
       \/ Reject(c) \/ GiveUp(c) \/ Handler(c)
       \/ CloseStale(c)
  \/ Crash

Spec == Init /\ [][Next]_vars

(***************************************************************************)
(* The server's goroutines are scheduled, the ticker closes what nothing   *)
(* can be heard of any more, and an agent reads what it is sent and, once  *)
(* registered, beats every HeartbeatSeconds.  Connections need not break   *)
(* and the agent need not dial again.                                      *)
(***************************************************************************)
Fairness ==
  \A c \in Conns :
    /\ WF_vars(Handler(c))
    /\ WF_vars(~Authentic(c) /\ Reject(c))
    /\ WF_vars(~link[c] /\ ~beat[c] /\ CloseStale(c))
    /\ WF_vars(Join(c)) /\ WF_vars(SendHeartbeat(c))

FairSpec == Spec /\ Fairness

-------------------------------------------------------------------------------
(* Properties *)

TypeOK ==
  /\ pc \in [Conns -> {"free", "hello", "upserted", "stored", "announced", "swapped", "serving",
                       "draining", "removed", "gone"}]
  /\ fresh \in [Conns -> BOOLEAN] /\ closed \in [Conns -> BOOLEAN] /\ done \in [Conns -> BOOLEAN]
  /\ link \in [Conns -> BOOLEAN] /\ mail \in [Conns -> BOOLEAN] /\ beat \in [Conns -> BOOLEAN]
  /\ replaced \in [Conns -> Conns \cup {None}] /\ auth \in [Conns -> Conns \cup {None}]
  /\ {current, hash, dialled, saved} \subseteq Conns \cup {None}
  /\ status \in {"online", "offline"}
  /\ joined \in BOOLEAN
  /\ crashes \in Nat /\ failures \in Nat

\* The map never keeps a client whose handler has left: a Dispatch finds a
\* connection that is served, or one whose end it is told of.
CurrentIsServed == current # None => pc[current] \in {"swapped", "serving", "draining"}

\* A connection that is served and not closed is the one Dispatch finds, or is
\* about to be closed by the one that took its place: an old connection that
\* ends late never makes a connected agent unreachable.
ServedIsReachable ==
  \A c \in Conns :
    pc[c] = "serving" /\ ~closed[c] => current = c \/ \E d \in Conns : replaced[d] = c

\* At most one connection of the agent is served with its done channel open,
\* besides one that is being replaced: requests are not split between two.
OneOpenClient ==
  \A c, d \in Conns :
    /\ pc[c] = "serving" /\ pc[d] = "serving" /\ ~done[c] /\ ~done[d]
    /\ \A e \in Conns : replaced[e] \notin {c, d}
    => c = d

\* When no handler of the agent is left, its row says offline, if no handler
\* was cut short by a crash or a failing handshake.
QuietIsOffline ==
  (\A c \in Conns : pc[c] \in {"free", "hello", "gone"}) /\ crashes = 0 /\ failures = 0
    => status = "offline"

\* An agent that has read "registered" holds the credential the server will ask
\* for next, over failing handshakes and crashes, if it has come in with the
\* bootstrap token only once.
SoleEnrollmentHolds ==
  joined /\ Cardinality({c \in Conns : fresh[c]}) <= 1 => saved = hash

\* README.md, line 100: after the first connection the agent reconnects with
\* its persistent credential.
JoinedCanReconnect == joined => saved = hash

\* README.md, line 16: offline detection.  An agent that is not connected, and
\* does not connect, is shown offline in the end.
OfflineIsDetected == ~Connected ~> (Connected \/ status = "offline")

\* A connected agent is shown online in the end, although the handler of an
\* earlier connection may mark the row offline after this one registered.
ConnectedIsOnline ==
  \A c \in Conns :
    (current = c /\ Connected) ~> (status = "online" \/ current # c \/ ~Connected)

===============================================================================
