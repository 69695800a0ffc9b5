---------------------------- MODULE RefreshToken ----------------------------
(***************************************************************************)
(* The life of refresh tokens: AuthService.login and refresh, the logout   *)
(* endpoint, RefreshTokenService and ClientService.                        *)
(*                                                                         *)
(* A REST request is a process.  Each database call is awaited, so a       *)
(* request is a sequence of steps, one per call, and the calls of other    *)
(* requests come in between.  Nothing spans them: no transaction, no lock. *)
(* Any call may fail, which ends the request where it stands.              *)
(***************************************************************************)
EXTENDS Integers, FiniteSets

CONSTANTS
  Client,  \* client_id of the tenants
  Req,     \* bound: requests that are handled at the same time
  Token,   \* bound: the tokens that are ever issued
  None     \* no token, no client, no request

ASSUME RefreshAssumption == None \notin Token /\ None \notin Client /\ None \notin Req

VARIABLES
  row,     \* the refresh_tokens table
  pc,      \* where each request waits
  client,  \* the client a request is for
  given,   \* the token a request came with
  served   \* history: the tokens that a refresh was answered for

vars == <<row, pc, client, given, served>>

\* "none" is a token that was not issued; by is the request that saved it.
NoRow == [state |-> "none", client |-> None, by |-> None]

Row == [state : {"active", "revoked", "expired"}, client : Client, by : Req] \cup {NoRow}

\* The database call a request waits for.  (idle: no request.)
Pc == {"idle", "exists", "findClient", "revokeAll", "save", "validate", "revoke", "logout"}

TypeOK ==
  /\ row \in [Token -> Row]
  /\ pc \in [Req -> Pc]
  /\ client \in [Req -> Client \cup {None}]
  /\ given \in [Req -> Token \cup {None}]
  /\ served \subseteq Token

Init ==
  /\ row = [t \in Token |-> NoRow]
  /\ pc = [p \in Req |-> "idle"]
  /\ client = [p \in Req |-> None]
  /\ given = [p \in Req |-> None]
  /\ served = {}

\* The next call of request p.
Goto(p, next) == pc' = [pc EXCEPT ![p] = next]

-----------------------------------------------------------------------------
(* The endpoints.                                                          *)

\* POST /auth/token.
Login(p, c) ==
  /\ pc[p] = "idle"
  /\ client' = [client EXCEPT ![p] = c]
  /\ given' = [given EXCEPT ![p] = None]
  /\ Goto(p, "exists")
  /\ UNCHANGED <<row, served>>

\* POST /auth/refresh and POST /auth/logout, with a token that was issued.
Present(p, t, next) ==
  /\ pc[p] = "idle"
  /\ row[t].state # "none"
  /\ given' = [given EXCEPT ![p] = t]
  /\ Goto(p, next)
  /\ UNCHANGED <<row, client, served>>

\* clientService.exists(): client, secret and role are right.
Exists(p) ==
  /\ pc[p] = "exists"
  /\ Goto(p, "findClient")
  /\ UNCHANGED <<row, client, given, served>>

\* validate(): the token is not revoked and not expired, or the request fails.
Validate(p) ==
  /\ pc[p] = "validate"
  /\ \/ /\ row[given[p]].state = "active"
        /\ client' = [client EXCEPT ![p] = row[given[p]].client]
        /\ Goto(p, "revoke")
     \/ /\ row[given[p]].state # "active"
        /\ Goto(p, "idle")
        /\ UNCHANGED client
  /\ UNCHANGED <<row, given, served>>

\* What UPDATE ... SET revoked = true leaves of a row.
Revoked(r) == IF r.state = "active" THEN [r EXCEPT !.state = "revoked"] ELSE r

\* revoke(): the token itself.
Revoke(p) ==
  /\ pc[p] \in {"revoke", "logout"}
  /\ row' = [row EXCEPT ![given[p]] = Revoked(@)]
  /\ Goto(p, IF pc[p] = "revoke" THEN "findClient" ELSE "idle")
  /\ UNCHANGED <<client, given, served>>

-----------------------------------------------------------------------------
(* create().                                                               *)

\* clientService.findByClientId().
FindClient(p) ==
  /\ pc[p] = "findClient"
  /\ Goto(p, "revokeAll")
  /\ UNCHANGED <<row, client, given, served>>

\* Mutant: a login leaves the tokens of earlier logins alone.
RevokeAllNothing(p) ==
  /\ pc[p] = "revokeAll"
  /\ Goto(p, "save")
  /\ UNCHANGED <<row, client, given, served>>

\* Every active token of the client is revoked.
RevokeAll(p) ==
  /\ pc[p] = "revokeAll"
  /\ row' = [t \in Token |-> IF row[t].client = client[p] THEN Revoked(row[t]) ELSE row[t]]
  /\ Goto(p, "save")
  /\ UNCHANGED <<client, given, served>>

\* Mutant: the new row is saved without its client.
SaveUnowned(p) ==
  /\ pc[p] = "save"
  /\ \E t \in Token :
       /\ row[t].state = "none"
       /\ row' = [row EXCEPT ![t] = [state |-> "active", client |-> None, by |-> p]]
  /\ served' = served \cup ({given[p]} \ {None})
  /\ Goto(p, "idle")
  /\ UNCHANGED <<client, given>>

\* Mutant: the old row is saved again as validate() had read it.
SaveStale(p) ==
  /\ pc[p] = "save"
  /\ \E t \in Token :
       /\ row[t].state = "none"
       /\ row' = [s \in Token |->
                    IF s = t THEN [state |-> "active", client |-> client[p], by |-> p]
                    ELSE IF s = given[p] THEN [row[s] EXCEPT !.state = "active"] ELSE row[s]]
  /\ served' = served \cup ({given[p]} \ {None})
  /\ Goto(p, "idle")
  /\ UNCHANGED <<client, given>>

\* The new token is saved and the request answered.
Save(p) ==
  /\ pc[p] = "save"
  /\ \E t \in Token :
       /\ row[t].state = "none"
       /\ row' = [row EXCEPT ![t] = [state |-> "active", client |-> client[p], by |-> p]]
  /\ served' = served \cup ({given[p]} \ {None})
  /\ Goto(p, "idle")
  /\ UNCHANGED <<client, given>>

-----------------------------------------------------------------------------
\* A call fails, the credentials are wrong or the client is unknown: the
\* request is answered with an error.
Fail(p) ==
  /\ pc[p] # "idle"
  /\ Goto(p, "idle")
  /\ UNCHANGED <<row, client, given, served>>

\* expiresAt passes.
Expire(t) ==
  /\ row[t].state = "active"
  /\ row' = [row EXCEPT ![t].state = "expired"]
  /\ UNCHANGED <<pc, client, given, served>>

Next ==
  \/ \E p \in Req, c \in Client : Login(p, c)
  \/ \E p \in Req, t \in Token : Present(p, t, "validate") \/ Present(p, t, "logout")
  \/ \E p \in Req :
       \/ Exists(p) \/ Validate(p) \/ Revoke(p)
       \/ FindClient(p) \/ RevokeAll(p) \/ Save(p) \/ Fail(p)
  \/ \E t \in Token : Expire(t)

Spec == Init /\ [][Next]_vars

-----------------------------------------------------------------------------
(* Safety.                                                                 *)

Active(c) == {t \in Token : row[t].state = "active" /\ row[t].client = c}

\* create() revokes before it saves: of the tokens that one request slot issued
\* for a client, one after the other, only the last is active.  So more than one
\* token of a client is active only if the requests that issued them overlapped.
OneActivePerSlot ==
  \A c \in Client : \A s, t \in Active(c) : row[s].by = row[t].by => s = t

\* Once a refresh has been answered its token is dead for every refresh that
\* validates later, however many had raced for it before.
ServedIsDead == \A t \in served : row[t].state # "active"
=============================================================================
