-------------------------- MODULE AgentGatewayProofs --------------------------
(***************************************************************************)
(* For every number of connections, crashes and failing handshakes: which  *)
(* client the map of AgentGateway leads to, what the row says when nobody  *)
(* is left, and what the agent's credential is worth.                      *)
(***************************************************************************)
EXTENDS AgentGateway, FiniteSetTheorems, TLAPS

-------------------------------------------------------------------------------
(* The inductive invariant: the map *)

\* The agent's connections are dialled in their order.
DialledInOrder == \A c \in Conns : pc[c] = "free" <=> c > dialled

\* A connection that has left the map for another is on that one's hands, once.
ReplacedIsHeld == \A c \in Conns : replaced[c] # None => pc[c] = "swapped"

\* done is closed with the connection, or by readLoop when it returns.
DoneIsClosed ==
  \A c \in Conns : done[c] /\ pc[c] \notin {"draining", "removed", "gone"} => closed[c]

\* A registered client whose done channel is open is in the map, or about to
\* be closed by the one that took its place.
OpenIsHeld ==
  \A c \in Conns :
    pc[c] \in {"swapped", "serving"} /\ ~done[c] => current = c \/ \E d \in Conns : replaced[d] = c

MapInv == DialledInOrder /\ CurrentIsServed /\ ReplacedIsHeld /\ DoneIsClosed /\ OpenIsHeld

-------------------------------------------------------------------------------
(* The inductive invariant: the credential *)

Stored == {"stored", "announced", "swapped", "serving", "draining", "removed"}

CredentialInv ==
  /\ \A c \in Conns :
       \* a connection becomes fresh, and is written to, after its hello;
       /\ pc[c] \in {"free", "hello"} => ~fresh[c] /\ ~mail[c]
       \* one that is not fresh has shown a credential;
       /\ (pc[c] \in Stored \cup {"upserted"} \/ mail[c]) /\ ~fresh[c] => auth[c] # None
       \* the row has a hash before the agent hears of it,
       /\ pc[c] \in Stored \/ mail[c] => hash # None
       \* and the agent shows what it has in its file.
       /\ auth[c] # None => saved # None
  \* Hashes and credentials are those of fresh connections.
  /\ hash # None => fresh[hash]
  /\ saved # None => fresh[saved] /\ hash # None
  /\ joined => saved # None

-------------------------------------------------------------------------------

Inv == TypeOK /\ MapInv /\ QuietIsOffline /\ CredentialInv

LEMMA InitInv == Init => Inv
<1> SUFFICES ASSUME Init PROVE Inv
  OBVIOUS
<1>1. TypeOK
  BY DEF Init, TypeOK
<1>2. MapInv
  BY DEF Init, Conns, None, MapInv, DialledInOrder, CurrentIsServed, ReplacedIsHeld,
         DoneIsClosed, OpenIsHeld
<1>3. QuietIsOffline /\ CredentialInv
  BY DEF Init, QuietIsOffline, CredentialInv, Stored
<1> QED
  BY <1>1, <1>2, <1>3 DEF Inv

\* None is no connection.
LEMMA NoneIsNone == None \notin Conns
BY GatewayAssumption DEF None, Conns

Step(c) ==
  \/ Dial(c) \/ Break(c) \/ Join(c) \/ SendHeartbeat(c)
  \/ Reject(c) \/ GiveUp(c) \/ Handler(c)
  \/ CloseStale(c)

LEMMA TypeStep == ASSUME TypeOK, NEW c \in Conns, Step(c) PROVE TypeOK'
<1> USE NoneIsNone DEF TypeOK, rowVars, serverVars, netVars, agentVars
<1>1. CASE Dial(c)
  BY <1>1 DEF Dial
<1>2. CASE Break(c)
  BY <1>2 DEF Break
<1>3. CASE Join(c)
  BY <1>3 DEF Join
<1>4. CASE SendHeartbeat(c)
  BY <1>4 DEF SendHeartbeat
<1>5. CASE Reject(c)
  BY <1>5 DEF Reject
<1>6. CASE GiveUp(c)
  BY <1>6 DEF GiveUp
<1>7. CASE CloseStale(c)
  BY <1>7 DEF CloseStale
<1>8. CASE Upsert(c)
  BY <1>8 DEF Upsert
<1>9. CASE Enroll(c)
  BY <1>9 DEF Enroll
<1>10. CASE Announce(c)
  BY <1>10 DEF Announce
<1>11. CASE Register(c)
  BY <1>11 DEF Register
<1>12. CASE CloseReplaced(c)
  BY <1>12 DEF CloseReplaced
<1>13. CASE ReadHeartbeat(c)
  BY <1>13 DEF ReadHeartbeat
<1>14. CASE ReadEnds(c)
  BY <1>14 DEF ReadEnds
<1>15. CASE Unregister(c)
  BY <1>15 DEF Unregister
<1>16. CASE MarkOffline(c)
  BY <1>16 DEF MarkOffline
<1> QED
  BY <1>1, <1>2, <1>3, <1>4, <1>5, <1>6, <1>7, <1>8, <1>9, <1>10, <1>11, <1>12, <1>13,
     <1>14, <1>15, <1>16
    DEF Step, Handler

LEMMA DialIsFirst ==
  ASSUME TypeOK, DialledInOrder, NEW c \in Conns, Dial(c)
  PROVE  pc[c] = "free" /\ DialledInOrder'
<1>1. pc[c] = "free" /\ dialled \in Int /\ dialled' = dialled + 1 /\ c = dialled + 1
  BY GatewayAssumption DEF Dial, DialledInOrder, TypeOK, Conns, None
<1>2. pc' = [pc EXCEPT ![c] = "hello"]
  BY DEF Dial
<1> QED
  BY <1>1, <1>2, GatewayAssumption DEF DialledInOrder, TypeOK, Conns

LEMMA MapStep == ASSUME TypeOK, MapInv, NEW c \in Conns, Step(c) PROVE MapInv'
<1> USE NoneIsNone DEF TypeOK, rowVars, serverVars, netVars, agentVars,
                       MapInv, DialledInOrder, CurrentIsServed, ReplacedIsHeld, DoneIsClosed, OpenIsHeld
<1>1. CASE Dial(c)
  <2>1. pc[c] = "free" /\ DialledInOrder'
    BY <1>1, DialIsFirst
  <2>2. CurrentIsServed' /\ ReplacedIsHeld' /\ DoneIsClosed'
    BY <1>1, <2>1 DEF Dial
  <2>3. OpenIsHeld'
    BY <1>1, <2>1 DEF Dial
  <2> QED
    BY <2>1, <2>2, <2>3
<1>2. CASE Break(c)
  BY <1>2 DEF Break
<1>3. CASE Join(c)
  BY <1>3 DEF Join
<1>4. CASE SendHeartbeat(c)
  BY <1>4 DEF SendHeartbeat
<1>5. CASE Reject(c)
  BY <1>5 DEF Reject
<1>6. CASE GiveUp(c)
  BY <1>6 DEF GiveUp
<1>7. CASE CloseStale(c)
  BY <1>7 DEF CloseStale
<1>8. CASE Upsert(c)
  BY <1>8 DEF Upsert
<1>9. CASE Enroll(c)
  BY <1>9 DEF Enroll
<1>10. CASE Announce(c)
  BY <1>10 DEF Announce
<1>11. CASE Register(c)
  BY <1>11 DEF Register
<1>12. CASE CloseReplaced(c)
  <2>1. DialledInOrder' /\ CurrentIsServed'
    BY <1>12 DEF CloseReplaced
  <2>2. ReplacedIsHeld'
    BY <1>12 DEF CloseReplaced
  <2>3. DoneIsClosed'
    BY <1>12 DEF CloseReplaced
  <2>4. OpenIsHeld'
    BY <1>12 DEF CloseReplaced
  <2> QED
    BY <2>1, <2>2, <2>3, <2>4
<1>13. CASE ReadHeartbeat(c)
  BY <1>13 DEF ReadHeartbeat
<1>14. CASE ReadEnds(c)
  BY <1>14 DEF ReadEnds
<1>15. CASE Unregister(c)
  BY <1>15 DEF Unregister
<1>16. CASE MarkOffline(c)
  BY <1>16 DEF MarkOffline
<1> QED
  BY <1>1, <1>2, <1>3, <1>4, <1>5, <1>6, <1>7, <1>8, <1>9, <1>10, <1>11, <1>12, <1>13,
     <1>14, <1>15, <1>16
    DEF Step, Handler

LEMMA QuietStep ==
  ASSUME TypeOK, DialledInOrder, QuietIsOffline, NEW c \in Conns, Step(c)
  PROVE QuietIsOffline'
<1> USE NoneIsNone DEF TypeOK, rowVars, serverVars, netVars, agentVars, QuietIsOffline
<1>1. CASE Dial(c)
  BY <1>1, DialIsFirst DEF Dial
<1>2. CASE Break(c)
  BY <1>2 DEF Break
<1>3. CASE Join(c)
  BY <1>3 DEF Join
<1>4. CASE SendHeartbeat(c)
  BY <1>4 DEF SendHeartbeat
<1>5. CASE Reject(c)
  BY <1>5 DEF Reject
<1>6. CASE GiveUp(c)
  BY <1>6 DEF GiveUp
<1>7. CASE CloseStale(c)
  BY <1>7 DEF CloseStale
<1>8. CASE Upsert(c)
  BY <1>8 DEF Upsert
<1>9. CASE Enroll(c)
  BY <1>9 DEF Enroll
<1>10. CASE Announce(c)
  BY <1>10 DEF Announce
<1>11. CASE Register(c)
  BY <1>11 DEF Register
<1>12. CASE CloseReplaced(c)
  BY <1>12 DEF CloseReplaced
<1>13. CASE ReadHeartbeat(c)
  BY <1>13 DEF ReadHeartbeat
<1>14. CASE ReadEnds(c)
  BY <1>14 DEF ReadEnds
<1>15. CASE Unregister(c)
  BY <1>15 DEF Unregister
<1>16. CASE MarkOffline(c)
  BY <1>16 DEF MarkOffline
<1> QED
  BY <1>1, <1>2, <1>3, <1>4, <1>5, <1>6, <1>7, <1>8, <1>9, <1>10, <1>11, <1>12, <1>13,
     <1>14, <1>15, <1>16
    DEF Step, Handler

LEMMA CredentialStep ==
  ASSUME TypeOK, DialledInOrder, CredentialInv, NEW c \in Conns, Step(c)
  PROVE CredentialInv'
<1> USE NoneIsNone DEF TypeOK, rowVars, serverVars, netVars, agentVars, CredentialInv, Stored
<1>1. CASE Dial(c)
  BY <1>1, DialIsFirst DEF Dial
<1>2. CASE Break(c)
  BY <1>2 DEF Break
<1>3. CASE Join(c)
  BY <1>3 DEF Join
<1>4. CASE SendHeartbeat(c)
  BY <1>4 DEF SendHeartbeat
<1>5. CASE Reject(c)
  BY <1>5 DEF Reject
<1>6. CASE GiveUp(c)
  BY <1>6 DEF GiveUp
<1>7. CASE CloseStale(c)
  BY <1>7 DEF CloseStale
<1>8. CASE Upsert(c)
  <2>1. CASE hash = None /\ fresh' = [fresh EXCEPT ![c] = TRUE]
    BY <1>8, <2>1 DEF Upsert
  <2>2. CASE hash # None /\ fresh' = [fresh EXCEPT ![c] = FALSE]
    BY <1>8, <2>2 DEF Upsert, Authentic
  <2> QED
    BY <1>8, <2>1, <2>2 DEF Upsert
<1>9. CASE Enroll(c)
  BY <1>9 DEF Enroll
<1>10. CASE Announce(c)
  BY <1>10 DEF Announce
<1>11. CASE Register(c)
  BY <1>11 DEF Register
<1>12. CASE CloseReplaced(c)
  BY <1>12 DEF CloseReplaced
<1>13. CASE ReadHeartbeat(c)
  BY <1>13 DEF ReadHeartbeat
<1>14. CASE ReadEnds(c)
  BY <1>14 DEF ReadEnds
<1>15. CASE Unregister(c)
  BY <1>15 DEF Unregister
<1>16. CASE MarkOffline(c)
  BY <1>16 DEF MarkOffline
<1> QED
  BY <1>1, <1>2, <1>3, <1>4, <1>5, <1>6, <1>7, <1>8, <1>9, <1>10, <1>11, <1>12, <1>13,
     <1>14, <1>15, <1>16
    DEF Step, Handler

\* A restart forgets the handlers and the map, and keeps row and credential.
LEMMA CrashStep == ASSUME Inv, Crash PROVE Inv'
<1>1. TypeOK'
  BY DEF Inv, TypeOK, Crash, rowVars, agentVars
<1>2. MapInv'
  BY GatewayAssumption DEF Inv, TypeOK, Crash, agentVars, Conns, None, MapInv, DialledInOrder,
     CurrentIsServed, ReplacedIsHeld, DoneIsClosed, OpenIsHeld
<1>3. QuietIsOffline'
  BY DEF Inv, TypeOK, Crash, QuietIsOffline
<1>4. CredentialInv'
  BY DEF Inv, TypeOK, Crash, rowVars, agentVars, CredentialInv, Stored
<1> QED
  BY <1>1, <1>2, <1>3, <1>4 DEF Inv

LEMMA NextInv == ASSUME Inv, [Next]_vars PROVE Inv'
<1>1. ASSUME NEW c \in Conns, Step(c) PROVE Inv'
  BY <1>1, TypeStep, MapStep, QuietStep, CredentialStep DEF Inv, MapInv
<1>2. CASE Crash
  BY <1>2, CrashStep
<1>3. CASE UNCHANGED vars
  <2> USE <1>3 DEF Inv, vars, serverVars, rowVars, netVars, agentVars
  <2>1. TypeOK'
    BY DEF TypeOK
  <2>2. MapInv'
    BY DEF MapInv, DialledInOrder, CurrentIsServed, ReplacedIsHeld, DoneIsClosed, OpenIsHeld
  <2>3. QuietIsOffline' /\ CredentialInv'
    BY DEF QuietIsOffline, CredentialInv, Stored
  <2> QED
    BY <2>1, <2>2, <2>3
<1> QED
  BY <1>1, <1>2, <1>3 DEF Next, Step

-------------------------------------------------------------------------------
(* Theorems *)

LEMMA InvHolds == Spec => []Inv
<1>1. Init => Inv
  BY InitInv
<1>2. Inv /\ [Next]_vars => Inv'
  BY NextInv
<1> QED
  BY <1>1, <1>2, PTL DEF Spec

\* The variables keep to their types.
THEOREM TypeCorrect == Spec => []TypeOK
<1>1. Inv => TypeOK
  BY DEF Inv
<1> QED
  BY <1>1, InvHolds, PTL

\* What Dispatch finds in the map is served, or told of its end: no handler
\* leaves its client behind, however the ends of old connections fall.
THEOREM MapLeadsToServed == Spec => []CurrentIsServed
<1>1. Inv => CurrentIsServed
  BY DEF Inv, MapInv
<1> QED
  BY <1>1, InvHolds, PTL

\* An open connection that is served is the one Dispatch finds, or is about
\* to be closed: a late end never makes a connected agent unreachable.
THEOREM ServedStaysReachable == Spec => []ServedIsReachable
<1>1. ASSUME Inv PROVE ServedIsReachable
  BY <1>1 DEF Inv, MapInv, DoneIsClosed, OpenIsHeld, ServedIsReachable
<1> QED
  BY <1>1, InvHolds, PTL

\* Requests are not split between two connections of one agent.
THEOREM ClientsAreAlone == Spec => []OneOpenClient
<1>1. ASSUME Inv PROVE OneOpenClient
  BY <1>1 DEF Inv, MapInv, OpenIsHeld, OneOpenClient
<1> QED
  BY <1>1, InvHolds, PTL

\* When nobody is left and nothing has failed, the row says offline.
THEOREM NobodyIsOffline == Spec => []QuietIsOffline
<1>1. Inv => QuietIsOffline
  BY DEF Inv
<1> QED
  BY <1>1, InvHolds, PTL

\* An agent that has read "registered", and has come in with the bootstrap
\* token only once, holds the credential it will be asked for.
THEOREM CredentialIsWorth == Spec => []SoleEnrollmentHolds
<1>1. ASSUME Inv, joined, Cardinality({c \in Conns : fresh[c]}) <= 1 PROVE saved = hash
  <2> DEFINE F == {c \in Conns : fresh[c]}
  <2>1. saved \in F /\ hash \in F
    BY <1>1 DEF Inv, TypeOK, CredentialInv
  <2>2. IsFiniteSet(F)
    <3>1. IsFiniteSet(1..MaxConns)
      BY FS_Interval, GatewayAssumption
    <3> QED
      BY <3>1, FS_Subset DEF Conns
  <2>3. Cardinality(F) = 0 \/ Cardinality(F) = 1
    BY <1>1, <2>2, FS_CardinalityType
  <2>4. \E c : F = {c}
    BY <2>1, <2>2, <2>3, FS_EmptySet, FS_Singleton
  <2> QED
    BY <2>1, <2>4
<1>2. Inv => SoleEnrollmentHolds
  BY <1>1 DEF SoleEnrollmentHolds
<1> QED
  BY <1>2, InvHolds, PTL
===============================================================================
