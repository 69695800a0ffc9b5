--------------------------- MODULE Authentication ---------------------------
(***************************************************************************)
(* From a token to a session: WebSocketAuthGuard, AuthService with its     *)
(* three strategies, DeviceService and BrowserService, and what            *)
(* establishSession() does with the principal they make.                   *)
(*                                                                         *)
(* Every strategy asks the database several times, one query after the     *)
(* other or two at once, and an administrator may edit it in between.      *)
(* Desktops are verified by a provider of the tenant, which comes from the *)
(* cache of module ProviderCache: a Caller there is a connection here.     *)
(*                                                                         *)
(* Sockets are in module Session.  Here a connection that was bound counts *)
(* until its close event, and its peer sends that or does not.             *)
(***************************************************************************)
EXTENDS ProviderCache

CONSTANTS
  DeviceUser, RoleUser, \* end users: devices, and the roles of a tenant
  Tenant,               \* the cache key of the tenant's Firebase provider
  NoConn,               \* a session without a connection
  NotRead,              \* a query that has not been answered
  MaxEdits              \* bound: how often the database is edited

Conn == Caller

ASSUME AuthAssumption ==
  /\ DeviceUser \cap RoleUser = {} /\ DeviceUser \cup RoleUser # {}
  /\ Tenant \in Key /\ NoConn \notin Conn
  /\ MaxEdits \in Nat
  /\ NotRead \notin (DeviceUser \cup RoleUser) \X (0 .. MaxEdits)

User == DeviceUser \cup RoleUser

\* The query parameter `type` decides the strategy.  Browsers and desktops of
\* one role are one end user.
Type == {"device", "browser", "desktop"}
TypesOf(u) == IF u \in DeviceUser THEN {"device"} ELSE {"browser", "desktop"}

VARIABLES
  db,      \* each user's rows
  config,  \* the tenant's Firebase project, as the number of the edit that chose it
  edits,   \* how many edits there were
  app,     \* the tenant's Firebase app, by the configuration it was made from
  hs,      \* the handshake of each connection
  session, \* the registered session of each user
  old      \* history: what the database held of the user while the handshake ran

dbVars == <<db, config, edits>>
cacheVars == <<cache, timers, nextT, calls, now>>
authVars == <<dbVars, app, hs, session, old>>
allVars == <<cacheVars, authVars>>

Edit == 0 .. MaxEdits

\* Whose row it is, and the edit that made it.
Version == User \X Edit

\* base is the row of the device or the role with everything joined to it (key,
\* product, hosts); send and get are its two lists of events.  active says
\* whether the first query finds it: d.status = 'active'.
Part == {"base", "send", "get"}
Rows == [active : BOOLEAN, base : Version, send : Version, get : Version]

FirstRows(u) == [active |-> TRUE, base |-> <<u, 0>>, send |-> <<u, 0>>, get |-> <<u, 0>>]

\* Every version of each part there was, and whether it ever was active.
Past == [active : BOOLEAN, base : SUBSET Version, send : SUBSET Version, get : SUBSET Version]

NoPast == [active |-> FALSE, base |-> {}, send |-> {}, get |-> {}]

Recorded(past, rows) ==
  [active |-> past.active \/ rows.active, base |-> past.base \cup {rows.base},
   send |-> past.send \cup {rows.send}, get |-> past.get \cup {rows.get}]

Step == {"idle", "provider", "verify", "base", "lists", "bound", "refused", "left"}

\* `read` are the answers that have come in: the principal that is made of them.
Handshake == [step : Step, user : User, type : Type, genuine : BOOLEAN,
              project : Edit, read : [Part -> Version \cup {NotRead}]]

NothingRead == [x \in Part |-> NotRead]

NoHandshake(step) ==
  [step |-> step, user |-> CHOOSE u \in User : TRUE, type |-> "device",
   genuine |-> FALSE, project |-> 0, read |-> NothingRead]

Waiting(c) == hs[c].step \in {"provider", "verify", "base", "lists"}

NoSession(u) == [state |-> "NONE", conn |-> NoConn, by |-> NoConn,
                 type |-> CHOOSE t \in TypesOf(u) : TRUE, principal |-> NothingRead]

AuthTypeOK ==
  /\ TypeOK
  /\ db \in [User -> Rows]
  /\ config \in Edit /\ edits \in Edit /\ app \in -1 .. MaxEdits
  /\ hs \in [Conn -> Handshake]
  /\ session \in [User -> [state : {"NONE", "ONLINE", "SUSPEND"},
                           conn : Conn \cup {NoConn}, by : Conn \cup {NoConn}, type : Type,
                           principal : [Part -> Version \cup {NotRead}]]]
  /\ old \in [Conn -> Past]

AuthInit ==
  /\ Init
  /\ db = [u \in User |-> FirstRows(u)]
  /\ config = 0 /\ edits = 0
  /\ app = -1
  /\ hs = [c \in Conn |-> NoHandshake("idle")]
  /\ session = [u \in User |-> NoSession(u)]
  /\ old = [c \in Conn |-> NoPast]

-----------------------------------------------------------------------------
(* The administrator.                                                      *)

\* One row changes: a list of events, a device's status, a key, a host.
EditRows(u) ==
  /\ edits < MaxEdits
  /\ edits' = edits + 1
  /\ \/ \E x \in Part : db' = [db EXCEPT ![u][x] = <<u, edits + 1>>]
     \/ db' = [db EXCEPT ![u].active = ~ @]
  /\ old' = [c \in Conn |-> IF Waiting(c) /\ hs[c].user = u THEN Recorded(old[c], db'[u])
                            ELSE old[c]]
  /\ UNCHANGED <<cacheVars, config, app, hs, session>>

\* The tenant moves to another Firebase project.
EditConfig ==
  /\ edits < MaxEdits
  /\ edits' = edits + 1
  /\ config' = edits + 1
  /\ UNCHANGED <<cacheVars, db, app, hs, session, old>>

-----------------------------------------------------------------------------
(* The beginning of a handshake.                                           *)

\* The exception ends the handshake and the gateway closes the socket.
Refuse(c) ==
  /\ hs' = [hs EXCEPT ![c] = NoHandshake("refused")]
  /\ old' = [old EXCEPT ![c] = NoPast]

\* c's request names user u with a token that is genuine, or forged.  A desktop's
\* token is of some Firebase project: the tenant's, one it has left, or another.
Begin(c, u, t, genuine, step) ==
  /\ hs[c].step = "idle"
  /\ \E project \in IF t = "desktop" THEN Edit ELSE {0} :
       hs' = [hs EXCEPT ![c] = [step |-> step, user |-> u, type |-> t, genuine |-> genuine,
                                project |-> project, read |-> NothingRead]]
  /\ old' = [old EXCEPT ![c] = Recorded(NoPast, db[u])]
  /\ UNCHANGED <<dbVars, app, session>>

\* HmacAuthStrategy: fields and timestamp are good, the device is looked up.  The
\* signature is compared when the answers are there.
BeginDevice(c, u) ==
  /\ u \in DeviceUser
  /\ \E genuine \in BOOLEAN : Begin(c, u, "device", genuine, "base")
  /\ UNCHANGED cacheVars

\* JwtAuthStrategy: the token is verified before anything is asked.
BeginBrowser(c, u) ==
  /\ u \in RoleUser
  /\ Begin(c, u, "browser", TRUE, "base")
  /\ UNCHANGED cacheVars

\* FireBaseAuthStrategy with a cached provider.
BeginDesktopHit(c, u) ==
  /\ u \in RoleUser
  /\ \E genuine \in BOOLEAN : Begin(c, u, "desktop", genuine, "verify")
  /\ Hit(Tenant)

\* FireBaseAuthStrategy without one.
BeginDesktopMiss(c, u) ==
  /\ u \in RoleUser
  /\ \E genuine \in BOOLEAN : Begin(c, u, "desktop", genuine, "provider")
  /\ Miss(c, Tenant)

\* A query without token or type, an unsupported type, a token that is malformed,
\* expired or, for a browser, forged; a desktop without clientId.
BeginInvalid(c) ==
  /\ hs[c].step = "idle"
  /\ Refuse(c)
  /\ UNCHANGED <<cacheVars, dbVars, app, session>>

-----------------------------------------------------------------------------
(* The provider of a desktop.                                              *)

SetStep(c, step) == hs' = [hs EXCEPT ![c].step = step]

\* findByClientId() has found the tenant.
ProviderClient(x) ==
  /\ FoundClient(x)
  /\ UNCHANGED authVars

\* The configuration is there and new FirebaseProvider() made: it takes the app of
\* the tenant's name if there is one, whatever configuration that was made from.
ProviderCreated(x) ==
  /\ Created(x)
  /\ app' = IF app = -1 THEN config ELSE app
  /\ SetStep(x.caller, "verify")
  /\ UNCHANGED <<dbVars, session, old>>

\* No client, no configuration, or the query failed.
ProviderFailed(x) ==
  /\ Failed(x)
  /\ Refuse(x.caller)
  /\ UNCHANGED <<dbVars, app, session>>

\* Mutant: every token that can be decoded is taken.
VerifyDecoded(c) ==
  /\ hs[c].step = "verify"
  /\ SetStep(c, "base")
  /\ UNCHANGED <<cacheVars, dbVars, app, session, old>>

\* verifyIdToken(): the token must be genuine and of the app's project.
Verify(c) ==
  /\ hs[c].step = "verify"
  /\ \/ /\ hs[c].genuine /\ hs[c].project = app
        /\ SetStep(c, "base")
        /\ UNCHANGED old
     \/ /\ ~ (hs[c].genuine /\ hs[c].project = app)
        /\ Refuse(c)
  /\ UNCHANGED <<cacheVars, dbVars, app, session>>

-----------------------------------------------------------------------------
(* The queries of DeviceService.getAuth() and BrowserService.getAuth().    *)

Answer(c, x, v) == hs' = [hs EXCEPT ![c].read[x] = v, ![c].step = "lists"]

\* getDevice(): a device of the tenant whose status is 'active'.
DeviceFound(u) == u \in DeviceUser /\ db[u].active

\* getBaseRole(): the tenant has a role of that name.
RoleFound(u) == u \in RoleUser /\ db[u].active

\* Mutant: getDevice() does not look at the status.
ReadBaseInactive(c) ==
  /\ hs[c].step = "base"
  /\ Answer(c, "base", db[hs[c].user].base)
  /\ UNCHANGED <<cacheVars, dbVars, app, session, old>>

\* The first query of getAuth(); without a row there is no user.
ReadBase(c) ==
  LET u     == hs[c].user
      found == DeviceFound(u) \/ RoleFound(u)
  IN  /\ hs[c].step = "base"
      /\ \/ found /\ Answer(c, "base", db[u].base) /\ UNCHANGED old
         \/ ~ found /\ Refuse(c)
      /\ UNCHANGED <<cacheVars, dbVars, app, session>>

\* Mutant: handshakes of one user that overlap share their answers.
ReadListShared(c, x) ==
  LET known == {hs[d].read[x] : d \in {d \in Conn : hs[d].user = hs[c].user
                                                    /\ hs[d].step = "lists"}} \ {NotRead}
  IN  /\ hs[c].step = "lists" /\ hs[c].read[x] = NotRead
      /\ Answer(c, x, IF known = {} THEN db[hs[c].user][x] ELSE CHOOSE v \in known : TRUE)
      /\ UNCHANGED <<cacheVars, dbVars, app, session, old>>

\* getBlacklist(), getWhitelist(): two queries at once, answered in any order.
ReadList(c, x) ==
  /\ hs[c].step = "lists" /\ hs[c].read[x] = NotRead
  /\ Answer(c, x, db[hs[c].user][x])
  /\ UNCHANGED <<cacheVars, dbVars, app, session, old>>

\* A query fails.
QueryFails(c) ==
  /\ hs[c].step \in {"base", "lists"}
  /\ Refuse(c)
  /\ UNCHANGED <<cacheVars, dbVars, app, session>>

-----------------------------------------------------------------------------
(* Sessions.                                                               *)

\* Mutant: a session that is resumed or replaced gets the new lists of events.
EstablishRefreshed(c) ==
  LET u == hs[c].user
  IN  session' = [session EXCEPT ![u] =
        IF @.state = "NONE"
        THEN [state |-> "ONLINE", conn |-> c, by |-> c, type |-> hs[c].type,
              principal |-> hs[c].read]
        ELSE [@ EXCEPT !.state = "ONLINE", !.conn = c,
                       !.principal = [hs[c].read EXCEPT !["base"] = session[u].principal["base"]]]]

\* establishSession(): only a new session gets the principal and the type of this
\* handshake; a resumed or a replaced one keeps those it has.
Establish(c) ==
  LET u == hs[c].user
  IN  session' = [session EXCEPT ![u] =
        IF @.state = "NONE"
        THEN [state |-> "ONLINE", conn |-> c, by |-> c, type |-> hs[c].type,
              principal |-> hs[c].read]
        ELSE [@ EXCEPT !.state = "ONLINE", !.conn = c]]

\* Promise.all() of the two.
AnsweredLists(c) == hs[c].step = "lists" /\ \A x \in {"send", "get"} : hs[c].read[x] # NotRead

\* All answers are there.  The HMAC signature is compared now.  (The answers are
\* kept in `read`, for the properties to compare.)
Finish(c) ==
  /\ AnsweredLists(c)
  /\ \/ /\ hs[c].genuine
        /\ SetStep(c, "bound")
        /\ Establish(c)
        /\ UNCHANGED old
     \/ /\ ~ hs[c].genuine
        /\ Refuse(c)
        /\ UNCHANGED session
  /\ UNCHANGED <<cacheVars, dbVars, app>>

\* The close event: the session is suspended if this is its connection.
Leave(c) ==
  LET u == hs[c].user
  IN  /\ hs[c].step = "bound"
      /\ SetStep(c, "left")
      /\ session' = IF session[u].conn = c
                    THEN [session EXCEPT ![u].state = "SUSPEND", ![u].conn = NoConn]
                    ELSE session
      /\ UNCHANGED <<cacheVars, dbVars, app, old>>

\* The suspend timer.
SuspendTimeout(u) ==
  /\ session[u].state = "SUSPEND"
  /\ session' = [session EXCEPT ![u] = NoSession(u)]
  /\ UNCHANGED <<cacheVars, dbVars, app, hs, old>>

-----------------------------------------------------------------------------
AuthNext ==
  \/ \E u \in User : EditRows(u) \/ SuspendTimeout(u)
  \/ EditConfig
  \/ \E c \in Conn, u \in User :
       \/ BeginDevice(c, u) \/ BeginBrowser(c, u)
       \/ BeginDesktopHit(c, u) \/ BeginDesktopMiss(c, u)
  \/ \E x \in calls : ProviderClient(x) \/ ProviderCreated(x) \/ ProviderFailed(x)
  \/ \E c \in Conn : BeginInvalid(c) \/ Verify(c) \/ ReadBase(c) \/ QueryFails(c) \/ Finish(c) \/ Leave(c)
  \/ \E c \in Conn, x \in {"send", "get"} : ReadList(c, x)
  \/ \E x \in timers : Fire(x) /\ UNCHANGED authVars
  \/ Tick /\ UNCHANGED authVars

AuthSpec == AuthInit /\ [][AuthNext]_allVars

\* As in ProviderCache: time passes and a timeout that is due fires.  The database
\* and the clients owe nothing.
AuthFairSpec ==
  /\ AuthSpec
  /\ WF_allVars(Tick /\ UNCHANGED authVars)
  /\ WF_allVars(\E x \in timers : Fire(x) /\ UNCHANGED authVars)

-----------------------------------------------------------------------------
(* Safety.                                                                 *)

\* The rights of a session are what ONE handshake of its user has read, the one
\* that created it and gave it its type: no part is another handshake's or another
\* user's, and each was in the database while that handshake ran, however
\* handshakes overlap, edits come between their queries, and others resume or
\* replace the session.
RightsOfOneHandshake ==
  \A u \in User : session[u].state # "NONE" =>
    LET c == session[u].by
    IN  /\ hs[c].user = u /\ hs[c].type = session[u].type
        /\ session[u].principal = hs[c].read
        /\ \A x \in Part : session[u].principal[x] \in old[c][x]

\* Whoever holds a session showed a genuine token, a desktop one of the project
\* its provider is made for, and its device was active, or its role there, at
\* some time after the handshake began: neither the awaits nor the cached
\* provider let anybody else in.
BoundIsAuthentic ==
  \A u \in User : session[u].state = "ONLINE" =>
    LET h == hs[session[u].conn]
    IN  /\ h.step = "bound" /\ h.user = u /\ h.genuine
        /\ old[session[u].conn].active
        /\ (h.type = "desktop" => h.project = app)
=============================================================================
