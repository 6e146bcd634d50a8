---------------------------- MODULE RefreshTokens -----------------------------
(***************************************************************************)
(* Sessions of the HTTP API: logins and refreshes, each a request of its   *)
(* own goroutine, and the table refresh_tokens.  A refresh consumes the    *)
(* token it presents in one transaction and stores the next in another.    *)
(*                                                                         *)
(* The token a request issues is named by the request, and a session by    *)
(* the login it began with.                                                *)
(***************************************************************************)
EXTENDS Integers

CONSTANTS
  MaxRequests,  \* bound on the requests
  MaxFaults     \* bound on restarts and failed statements

Requests == 1..MaxRequests

VARIABLES
  pc,       \* each request, and how far its handler has come
  token,    \* the token a refresh presents; 0: a login
  session,  \* the session a request belongs to; 0: none yet
  issued,   \* refresh_tokens of each request's token: absent, live, revoked
  expired,  \* the tokens whose time is up
  faults    \* faults so far, up to MaxFaults

tableVars == <<issued, expired>>
vars == <<pc, token, session, tableVars, faults>>

Init ==
  /\ pc = [r \in Requests |-> "none"]
  /\ token = [r \in Requests |-> 0]
  /\ session = [r \in Requests |-> 0]
  /\ issued = [r \in Requests |-> "absent"]
  /\ expired = {}
  /\ faults = 0

Fault == faults < MaxFaults /\ faults' = faults + 1

Goto(r, place) == pc' = [pc EXCEPT ![r] = place]

-------------------------------------------------------------------------------
(* Requests *)

\* The password is right and the login recorded: a session begins.
Login(r) ==
  /\ pc[r] = "none"
  /\ Goto(r, "issuing")
  /\ session' = [session EXCEPT ![r] = r]
  /\ UNCHANGED <<token, tableVars, faults>>

\* A client presents a token it was given, perhaps a second time or at once
\* with another request.  Its transaction reads the row: live, and in time.
Refresh(r, t) ==
  /\ pc[r] = "none"
  /\ issued[t] = "live" /\ t \notin expired
  /\ Goto(r, "read")
  /\ token' = [token EXCEPT ![r] = t]
  /\ session' = [session EXCEPT ![r] = session[t]]
  /\ UNCHANGED <<tableVars, faults>>

RefreshIsRefused(r, t) ==
  /\ pc[r] = "none"
  /\ issued[t] = "revoked" \/ (issued[t] = "live" /\ t \in expired)
  /\ Goto(r, "refused")
  /\ token' = [token EXCEPT ![r] = t]
  /\ session' = [session EXCEPT ![r] = session[t]]
  /\ UNCHANGED <<tableVars, faults>>

\* Mutation: the read has decided, and RowsAffected is not looked at.
ConsumeRead(r) ==
  /\ pc[r] = "read"
  /\ Goto(r, "issuing")
  /\ issued' = [issued EXCEPT ![token[r]] = "revoked"]
  /\ UNCHANGED <<token, session, expired, faults>>

\* UPDATE ... WHERE revoked_at IS NULL changes the one row; commit.
Consume(r) ==
  /\ pc[r] = "read" /\ issued[token[r]] = "live"
  /\ Goto(r, "issuing")
  /\ issued' = [issued EXCEPT ![token[r]] = "revoked"]
  /\ UNCHANGED <<token, session, expired, faults>>

\* It changes none, or the database is busy with another writer: rollback.
ConsumeFails(r) ==
  /\ pc[r] = "read"
  /\ Goto(r, "refused")
  /\ UNCHANGED <<token, session, tableVars, faults>>

\* issuePair: the new token is stored, and the answer sent.
StoreRefreshToken(r) ==
  /\ pc[r] = "issuing"
  /\ Goto(r, "answered")
  /\ issued' = [issued EXCEPT ![r] = "live"]
  /\ UNCHANGED <<token, session, expired, faults>>

\* The user is not found or disabled, or the INSERT fails: an error, and the
\* token presented remains consumed.
IssueFails(r) ==
  /\ Fault
  /\ pc[r] = "issuing"
  /\ Goto(r, "failed")
  /\ UNCHANGED <<token, session, tableVars>>

-------------------------------------------------------------------------------
(* Time and restarts *)

Expire(t) ==
  /\ issued[t] = "live" /\ t \notin expired
  /\ expired' = expired \cup {t}
  /\ UNCHANGED <<pc, token, session, issued, faults>>

\* The server ends, and with it the requests it has in hand.
ServerRestart ==
  /\ Fault
  /\ pc' = [r \in Requests |-> IF pc[r] \in {"read", "issuing"} THEN "failed" ELSE pc[r]]
  /\ UNCHANGED <<token, session, tableVars>>

-------------------------------------------------------------------------------

Request(r) ==
  \/ Login(r)
  \/ \E t \in Requests : Refresh(r, t) \/ RefreshIsRefused(r, t)
  \/ Consume(r) \/ ConsumeFails(r) \/ StoreRefreshToken(r) \/ IssueFails(r)

Next ==
  \/ \E r \in Requests : Request(r) \/ Expire(r)
  \/ ServerRestart

Spec == Init /\ [][Next]_vars

-------------------------------------------------------------------------------
(* Properties *)

\* The variables keep to their types.
TypeOK ==
  /\ pc \in [Requests -> {"none", "read", "issuing", "answered", "refused", "failed"}]
  /\ token \in [Requests -> 0..MaxRequests]
  /\ session \in [Requests -> 0..MaxRequests]
  /\ issued \in [Requests -> {"absent", "live", "revoked"}]
  /\ expired \subseteq Requests
  /\ faults \in Nat

\* What a session goes on with: a live token, or a request about to store one.
Carries(r) == issued[r] = "live" \/ pc[r] = "issuing"

\* A session never forks: of its tokens one at most is live or about to be,
\* however many requests present one token at once.
NeverForked ==
  \A r, q \in Requests : Carries(r) /\ Carries(q) /\ session[r] = session[q] => r = q

\* It is never lost either, by requests alone: without a failure or a restart
\* between consumption and storing, what began goes on.
NeverLost ==
  faults = 0 =>
    \A s \in Requests : session[s] = s =>
      \E r \in Requests : Carries(r) /\ session[r] = s

\* A session has one token.
OneTokenPerSession == NeverForked /\ NeverLost
===============================================================================
