---------------------------- MODULE GatewayProofs ----------------------------
(***************************************************************************)
(* What holds of sessions and of deliveries apart holds of the gateway.    *)
(*                                                                         *)
(* A step of the gateway is one of Session's or a restart, which begins    *)
(* with the invariant of the first start; so the theorems of SessionProofs *)
(* carry over.  And the gateway implements Delivery: a step of a session   *)
(* is, for the event store, a user's connection that opens, starts to      *)
(* close, or ends; so those of DeliveryServiceProofs do, the promise of    *)
(* DeliveryService among them.                                             *)
(***************************************************************************)
EXTENDS Gateway, TLAPS

SP == INSTANCE SessionProofs

-----------------------------------------------------------------------------
(* The invariant of the sessions.                                          *)

LEMMA SInvInit == Init => SP!SInv
<1>1. Init => SP!Init  BY DEF Init, S!Init, SP!Init, S!NoSession, SP!NoSession, S!User, SP!User
<1> QED  BY <1>1, SP!SInvInit, GatewayAssumption

\* Establishing a session, of which the timer is the last to change.
LEMMA AuthenticatedStep ==
  ASSUME NEW c \in Sock, S!Authenticated(c)
  PROVE  SP!Authenticated(c)
BY DEF S!Authenticated, SP!Authenticated, S!Establish, SP!Establish, S!IsResume, SP!IsResume,
       S!AsksForOwn, SP!AsksForOwn, S!ProductFor, SP!ProductFor, S!Wants, SP!Wants,
       S!Broadcast, SP!Broadcast, S!IsActive, SP!IsActive, S!socketVars, SP!socketVars

LEMMA ElsewhereStep ==
  ASSUME NEW c \in Sock, Elsewhere(c)
  PROVE  SP!Next
<1>1. CASE S!Open(c)
  BY <1>1 DEF SP!Next, S!Open, SP!Open, S!socketVars, SP!socketVars
<1>2. CASE S!Reject(c)
  BY <1>2 DEF SP!Next, S!Reject, SP!Reject, S!socketVars, SP!socketVars
<1>3. CASE S!Snapshot(c)
  <2>1. SP!Snapshot(c)
    BY <1>3 DEF S!Snapshot, SP!Snapshot, S!IsActive, SP!IsActive, S!StateOf, SP!StateOf,
                S!ListFor, SP!ListFor, S!Wants, SP!Wants, S!socketVars, SP!socketVars
  <2> QED  BY <2>1 DEF SP!Next
<1>4. CASE S!Pong(c)
  BY <1>4 DEF SP!Next, S!Pong, SP!Pong, S!HandlePong, SP!HandlePong
<1>5. CASE S!StartClose(c)
  BY <1>5 DEF SP!Next, S!StartClose, SP!StartClose, S!socketVars, SP!socketVars
<1>6. CASE S!Closed(c)
  <2>1. SP!Closed(c)
    BY <1>6 DEF S!Closed, SP!Closed, S!HandleDisconnect, SP!HandleDisconnect, S!Bound, SP!Bound,
                S!Suspended, SP!Suspended, S!Wants, SP!Wants,
                S!Broadcast, SP!Broadcast, S!IsActive, SP!IsActive, S!socketVars, SP!socketVars
  <2> QED  BY <2>1 DEF SP!Next
<1> QED  BY <1>1, <1>2, <1>3, <1>4, <1>5, <1>6 DEF Elsewhere

\* A restart begins with the invariant of the first start.
LEMMA LoseSessionsKeepsSInv ==
  ASSUME SP!SInv, LoseSessions
  PROVE  SP!SInv'
<1> USE GatewayAssumption DEF SP!SInv, LoseSessions, S!NoSession, User, S!User, SP!User
<1>1. SP!TypeOK'  BY DEF SP!TypeOK, SP!Phase
<1>2. SP!SuspendedIsTimed'  BY DEF SP!SuspendedIsTimed
<1>3. SP!SocketIsBound'  BY DEF SP!SocketIsBound
<1>4. SP!DeviceListens'  BY DEF SP!DeviceListens
<1>5. SP!CountIsHonest'  BY DEF SP!CountIsHonest, SP!TypeOK
<1>6. SP!ViewIsCurrent'  BY DEF SP!ViewIsCurrent
<1> QED  BY <1>1, <1>2, <1>3, <1>4, <1>5, <1>6

\* For the sessions, a step of the gateway is one of theirs or a restart.
LEMMA SessionStep == [Next]_vars => [SP!Next]_(SP!vars) \/ LoseSessions
<1> SUFFICES ASSUME [Next]_vars PROVE [SP!Next]_(SP!vars) \/ LoseSessions  OBVIOUS
<1> DEFINE Moves == [SP!Next]_(SP!vars)
<1>1. ASSUME NEW c \in Sock, Authenticated(c) PROVE Moves
  BY <1>1, AuthenticatedStep DEF Authenticated, SP!Next
<1>2. ASSUME NEW c \in Sock, Elsewhere(c) PROVE Moves
  BY <1>2, ElsewhereStep
<1>3. ASSUME NEW u \in User, SuspendTimeout(u) PROVE Moves
  <2>1. SP!SuspendTimeout(u)
    BY <1>3 DEF SuspendTimeout, S!SuspendTimeout, SP!SuspendTimeout, S!NoSession, SP!NoSession,
                S!Broadcast, SP!Broadcast, S!IsActive, SP!IsActive, S!Wants, SP!Wants,
                S!socketVars, SP!socketVars
  <2>2. u \in SP!User  BY DEF User, S!User, SP!User
  <2> QED  BY <2>1, <2>2 DEF SP!Next
<1>4. ASSUME Heartbeat PROVE Moves
  <2>1. SP!HeartbeatTick
    BY <1>4 DEF Heartbeat, S!HeartbeatTick, SP!HeartbeatTick, S!Beaten, SP!Beaten,
                S!GivesUp, SP!GivesUp, S!User, SP!User
  <2> QED  BY <2>1 DEF SP!Next
<1>5. ASSUME UNCHANGED sessionVars PROVE Moves
  BY <1>5 DEF sessionVars, SP!vars
<1>6. ASSUME NEW q \in inflight, Crash(q) PROVE LoseSessions
  BY <1>6 DEF Crash
<1>7. CASE UNCHANGED vars
  BY <1>5, <1>7 DEF vars
<1>8. CASE Next
  BY <1>1, <1>2, <1>3, <1>4, <1>5, <1>6, <1>8
  DEF Next, BeginPublish, Publish, Ack, Timers
<1> QED  BY <1>7, <1>8

LEMMA SInvStep == SP!SInv /\ [Next]_vars => SP!SInv'
BY SessionStep, SP!SInvStep, LoseSessionsKeepsSInv, GatewayAssumption

LEMMA SInvInvariant == Spec => []SP!SInv
BY SInvInit, SInvStep, PTL DEF Spec

\* As in Session, with deliveries, handlers and restarts in between: a browser
\* with a snapshot knows the state of every device.
THEOREM ViewsStayCurrent == Spec => []ViewIsCurrent
<1>1. SP!SInv => ViewIsCurrent
  BY DEF SP!SInv, ViewIsCurrent, SP!ViewIsCurrent, S!ViewIsCurrent, SP!IsActive, S!IsActive,
         SP!ListFor, S!ListFor, SP!Wants, S!Wants, SP!StateOf, S!StateOf
<1> QED  BY <1>1, SInvInvariant, PTL

\* In the whole gateway, across restarts, a session without a socket has a running
\* suspend timer and one with a socket has none.
THEOREM SuspensionStaysTimed == Spec => []S!SuspendedIsTimed
<1>1. SP!SInv => S!SuspendedIsTimed
  BY DEF SP!SInv, SP!SuspendedIsTimed, S!SuspendedIsTimed, SP!User, S!User
<1> QED  BY <1>1, SInvInvariant, PTL

\* handleDisconnect(): nothing that is published, sent or lost in a crash suspends
\* a session either; only the close of its own socket does.
THEOREM OwnSocketStillSuspends == Spec => S!OnlyOwnSocketSuspends
<1>1. SP!SInv /\ [Next]_vars =>
        [\A u \in S!User : sess[u].state = "ONLINE" /\ sess'[u].state = "SUSPEND" =>
           net[sess[u].socket] # "closed" /\ net'[sess[u].socket] = "closed"]_(S!vars)
  <2> SUFFICES ASSUME SP!SInv, [Next]_vars, S!vars' # S!vars, NEW u \in SP!User,
                      sess[u].state = "ONLINE", sess'[u].state = "SUSPEND"
               PROVE  net[sess[u].socket] # "closed" /\ net'[sess[u].socket] = "closed"
    BY DEF S!User, SP!User
  <2>1. ~ LoseSessions
    BY DEF LoseSessions, S!NoSession, User, S!User, SP!User
  <2>2. SP!Next  BY <2>1, SessionStep DEF SP!vars
  <2> QED  BY <2>2, SP!OwnSocketStep, GatewayAssumption
<1> QED  BY <1>1, SInvInvariant, PTL DEF Spec, S!OnlyOwnSocketSuspends

\* The heartbeat is as patient when events are delivered and the process restarts.
THEOREM HeartbeatStaysPatient == Spec => S!HeartbeatIsPatient
<1>1. SP!SInv /\ SP!SInv' /\ [Next]_vars =>
        [\A c \in Sock : net[c] = "open" /\ net'[c] = "closing" /\ missed' # missed
           /\ owner[c] \in Device => unanswered'[c] >= MaxMissed - 1]_(S!vars)
  <2> SUFFICES ASSUME SP!SInv, SP!SInv', [Next]_vars, S!vars' # S!vars, NEW c \in Sock,
                      net[c] = "open", net'[c] = "closing", missed' # missed,
                      owner[c] \in Device
               PROVE  unanswered'[c] >= MaxMissed - 1
    OBVIOUS
  <2>1. ~ LoseSessions  BY DEF LoseSessions
  <2>2. SP!Next  BY <2>1, SessionStep DEF SP!vars
  <2> QED  BY <2>2, SP!PatientStep, GatewayAssumption
<1> QED  BY <1>1, SInvInvariant, PTL DEF Spec, S!HeartbeatIsPatient

-----------------------------------------------------------------------------
(* The promise of module Presence, across restarts.                        *)

\* Both instances of Session say the same of presence.
LEMMA SamePresence ==
  /\ S!Watching = SP!Watching /\ S!Watching' = SP!Watching'
  /\ \A u : S!StateOf(u) = SP!StateOf(u) /\ S!StateOf(u)' = SP!StateOf(u)'
  /\ SP!Observers!Init => S!Observers!Init
  /\ [SP!Observers!Next]_(SP!Observers!vars) => [S!Observers!Next]_(S!Observers!vars)
<1>1. S!Watching = SP!Watching /\ S!Watching' = SP!Watching'
  BY DEF S!Watching, SP!Watching, S!IsActive, SP!IsActive
<1>2. \A u : S!StateOf(u) = SP!StateOf(u) /\ S!StateOf(u)' = SP!StateOf(u)'
  BY DEF S!StateOf, SP!StateOf
<1>3. SP!Observers!Init => S!Observers!Init
  BY <1>1, <1>2 DEF S!User, SP!User, S!Observers!Init, SP!Observers!Init, S!Observers!Nobody,
                    SP!Observers!Nobody, S!Observers!User, SP!Observers!User
<1>4. S!Observers!vars = SP!Observers!vars /\ S!Observers!vars' = SP!Observers!vars'
  BY <1>1, <1>2 DEF S!User, SP!User, S!Observers!vars, SP!Observers!vars
<1>5. SP!Observers!Next => S!Observers!Next
  <2>1. S!Observers!User = SP!Observers!User /\ S!Observers!Legal = SP!Observers!Legal
    BY DEF S!Observers!User, SP!Observers!User, S!Observers!Legal, SP!Observers!Legal
  <2>2. /\ [u \in S!User |-> S!StateOf(u)] = [u \in SP!User |-> SP!StateOf(u)]
        /\ [u \in S!User |-> S!StateOf(u)]' = [u \in SP!User |-> SP!StateOf(u)]'
        /\ [b \in S!Watching |-> view[b]] = [b \in SP!Watching |-> view[b]]
        /\ [b \in S!Watching |-> view[b]]' = [b \in SP!Watching |-> view[b]]'
    BY <1>1, <1>2 DEF S!User, SP!User
  <2>3. S!Observers!NoneJoins <=> SP!Observers!NoneJoins
    BY <2>2 DEF S!Observers!NoneJoins, SP!Observers!NoneJoins
  <2>4. ASSUME NEW u \in SP!Observers!User, NEW x, SP!Observers!Change(u, x)
        PROVE  S!Observers!Change(u, x)
    <3>1. \A b : S!Observers!Learns(b, u, x) = SP!Observers!Learns(b, u, x)
      BY <2>2 DEF S!Observers!Learns, SP!Observers!Learns
    <3> QED  BY <2>1, <2>2, <2>3, <2>4, <3>1 DEF S!Observers!Change, SP!Observers!Change
  <2>5. ASSUME NEW b \in Browser, NEW scope \in SUBSET Device, SP!Observers!Observe(b, scope)
        PROVE  S!Observers!Observe(b, scope)
    BY <2>2, <2>5 DEF S!Observers!Observe, SP!Observers!Observe
  <2>6. SP!Observers!Leave => S!Observers!Leave
    BY <2>2, <2>3 DEF S!Observers!Leave, SP!Observers!Leave
  <2>7. SP!Observers!Restart => S!Observers!Restart
    BY <2>1, <2>2 DEF S!Observers!Restart, SP!Observers!Restart, S!Observers!Nobody,
                      SP!Observers!Nobody
  <2> QED
    BY <2>1, <2>4, <2>5, <2>6, <2>7 DEF S!Observers!Next, SP!Observers!Next
<1> QED  BY <1>1, <1>2, <1>3, <1>4, <1>5

LEMMA RestartIsForeseen == LoseSessions => S!Observers!Restart
<1> SUFFICES ASSUME LoseSessions PROVE S!Observers!Restart  OBVIOUS
<1>1. S!Watching' = {}  BY DEF LoseSessions, S!Watching
<1>2. [u \in S!User |-> S!StateOf(u)]' = [u \in S!Observers!User |-> "OFFLINE"]
  BY DEF LoseSessions, S!StateOf, S!NoSession, User, S!User, S!Observers!User
<1>3. [b \in S!Watching |-> view[b]]' = S!Observers!Nobody
  BY <1>1 DEF S!Observers!Nobody
<1> QED  BY <1>2, <1>3 DEF S!Observers!Restart

\* Browsers are told of every change in the step in which it happens, whatever is
\* published, acknowledged or lost with the process.
THEOREM PresenceStaysKept == Spec => KeepsPresence
<1>1. Init => S!Observers!Init
  <2>1. Init => SP!Init  BY DEF Init, S!Init, SP!Init, S!NoSession, SP!NoSession, S!User, SP!User
  <2> QED  BY <2>1, SP!PresenceInit, SamePresence, GatewayAssumption
<1>2. SP!SInv /\ SP!SInv' /\ [Next]_vars => [S!Observers!Next]_(S!Observers!vars)
  BY SessionStep, SP!PresenceStep, SamePresence, RestartIsForeseen, GatewayAssumption
  DEF S!Observers!Next
<1> QED
  BY <1>1, <1>2, SInvInvariant, PTL DEF Spec, KeepsPresence, S!KeepsPresence, S!Observers!Spec

-----------------------------------------------------------------------------
(* The refinement.  What a step does to the connections, as Delivery sees  *)
(* them, decides which of its steps it is.                                 *)

Conn == [u \in User |-> ConnOf(u)]

\* What SInv says, in Gateway's words.
LEMMA SessionFacts ==
  ASSUME SP!SInv
  PROVE  /\ sess \in [User -> [state : {"NONE", "ONLINE", "SUSPEND"},
                               socket : Sock \cup {NoSock}, timer : BOOLEAN,
                               product : Product \cup {AnyProduct}]]
         /\ owner \in [Sock -> User]
         /\ net \in [Sock -> {"unused", "open", "closing", "closed"}]
         /\ phase \in [Sock -> {"unused", "auth", "snapshot", "ready", "rejected"}]
         /\ NoSock \notin Sock
         /\ \A u \in User :
              /\ sess[u].state = "SUSPEND" => sess[u].socket = NoSock
              /\ sess[u].socket # NoSock =>
                   /\ phase[sess[u].socket] \in {"snapshot", "ready"}
                   /\ owner[sess[u].socket] = u
BY GatewayAssumption
DEF SP!SInv, SP!TypeOK, SP!Phase, SP!SuspendedIsTimed, SP!SocketIsBound, SP!Bound,
    User, S!User, SP!User

\* A connection is what its session's socket is.
LEMMA ConnIs ==
  ASSUME NEW u \in User
  PROVE  Conn[u] = IF sess[u].socket = NoSock THEN "none"
                   ELSE IF net[sess[u].socket] = "open" THEN "open" ELSE "closing"
BY DEF Conn, ConnOf, S!IsActive

LEMMA ConnBecomes ==
  ASSUME NEW u \in User
  PROVE  Conn'[u] = IF sess'[u].socket = NoSock THEN "none"
                    ELSE IF net'[sess'[u].socket] = "open" THEN "open" ELSE "closing"
BY DEF Conn, ConnOf, S!IsActive

\* A step that leaves the sessions' sockets as they were is none of Delivery's.
LEMMA ConnStays ==
  ASSUME \A u \in User : sess'[u].socket = sess[u].socket,
         \A u \in User : sess[u].socket # NoSock => net'[sess[u].socket] = net[sess[u].socket]
  PROVE  Conn' = Conn
BY DEF Conn, ConnOf, S!IsActive

LEMMA AuthenticatedImplements ==
  ASSUME SP!SInv, NEW c \in Sock, Authenticated(c)
  PROVE  D!Connect(owner[c]) \/ D!ConnectTooLate(owner[c])
<1> DEFINE u == owner[c]
           old == sess[u].socket
<1>1. /\ u \in User /\ u \notin Away
      /\ phase[c] = "auth"
      /\ sess' = [sess EXCEPT ![u] =
                    [state |-> "ONLINE", socket |-> c,
                     timer |-> sess[u].state = "ONLINE" /\ ~ S!IsActive(u) /\ sess[u].timer,
                     product |-> S!ProductFor(c)]]
      /\ net' = [x \in Sock |-> IF x = old /\ net[x] = "open" THEN "closing" ELSE net[x]]
  BY SessionFacts DEF Authenticated, S!Authenticated, S!Establish
<1>2. c # NoSock /\ c # old /\ net'[c] = net[c]
  BY <1>1, SessionFacts
<1>3. ASSUME NEW v \in User, v # u
      PROVE  Conn'[v] = Conn[v]
  <2>1. sess'[v] = sess[v]  BY <1>1, <1>3, SessionFacts
  <2>2. sess[v].socket # NoSock => net'[sess[v].socket] = net[sess[v].socket]
    BY <1>1, <1>3, SessionFacts
  <2> QED  BY <2>1, <2>2, ConnIs, ConnBecomes
<1>4. sess'[u].socket = c  BY <1>1, SessionFacts
<1>5. Conn'[u] = IF net[c] = "open" THEN "open" ELSE "closing"
  BY <1>1, <1>2, <1>4, ConnBecomes
<1>6. Conn' = [Conn EXCEPT ![u] = IF net[c] = "open" THEN "open" ELSE "closing"]
  BY <1>1, <1>3, <1>5 DEF Conn
<1>7. CASE net[c] = "open"
  <2>1. D!CanConnect(u) /\ D!DeliverPending(u)  BY <1>7 DEF Authenticated
  <2> QED  BY <1>6, <1>7, <2>1 DEF D!Connect, Conn
<1>8. CASE net[c] # "open"
  <2>1. UNCHANGED deliveryVars  BY <1>8 DEF Authenticated
  <2> QED  BY <1>1, <1>6, <1>8, <2>1 DEF D!ConnectTooLate, Conn, deliveryVars
<1> QED  BY <1>7, <1>8

LEMMA SuspendTimeoutImplements ==
  ASSUME SP!SInv, NEW u \in User, SuspendTimeout(u)
  PROVE  D!Removed(u) \/ UNCHANGED D!vars
<1>1. /\ sess' = IF sess[u].state = "SUSPEND" THEN [sess EXCEPT ![u] = S!NoSession]
                 ELSE [sess EXCEPT ![u].timer = FALSE]
      /\ net' = net
      /\ UNCHANGED <<store, nextId, now, crashes, log, seen, redundant>>
      /\ sess[u].state # "SUSPEND" => inflight' = inflight
  BY DEF SuspendTimeout, S!SuspendTimeout
<1>2. \A v \in User : sess'[v].socket = sess[v].socket
  BY <1>1, SessionFacts DEF S!NoSession
<1>3. Conn' = Conn  BY <1>1, <1>2, ConnStays
<1>4. CASE sess[u].state = "SUSPEND" /\ inflight' # inflight
  <2>1. D!LoseSession(u)  BY <1>4 DEF SuspendTimeout
  <2>2. Conn[u] = "none"  BY <1>4, SessionFacts, ConnIs
  <2> QED  BY <1>1, <1>3, <1>4, <2>1, <2>2 DEF D!Removed, Conn
<1>5. CASE inflight' = inflight
  BY <1>1, <1>3, <1>5 DEF D!vars, Conn
<1> QED  BY <1>1, <1>4, <1>5

LEMMA ElsewhereImplements ==
  ASSUME SP!SInv, NEW c \in Sock, Elsewhere(c)
  PROVE  [D!Next]_(D!vars)
<1> DEFINE u == owner[c]
<1>1. u \in User /\ UNCHANGED deliveryVars  BY SessionFacts DEF Elsewhere
<1>2. Conn' = Conn => UNCHANGED D!vars  BY <1>1 DEF D!vars, Conn, deliveryVars
<1>3. CASE S!Open(c) \/ S!Reject(c)
  <2>1. sess' = sess /\ \A x \in Sock : x # c => net'[x] = net[x]
    BY <1>3, SessionFacts DEF S!Open, S!Reject
  <2>2. \A v \in User : sess[v].socket # c
    BY <1>3, SessionFacts DEF S!Open, S!Reject
  <2>3. Conn' = Conn  BY <2>1, <2>2, SessionFacts, ConnStays
  <2> QED  BY <1>2, <2>3
<1>4. CASE S!Snapshot(c) \/ S!Pong(c)
  <2>1. sess' = sess /\ net' = net  BY <1>4 DEF S!Snapshot, S!Pong
  <2> QED  BY <1>2, <2>1, ConnStays
<1>5. CASE S!StartClose(c)
  <2>1. net[c] = "open" /\ net' = [net EXCEPT ![c] = "closing"] /\ sess' = sess
    BY <1>5 DEF S!StartClose
  <2>2. CASE sess[u].socket = c
    <3>1. ASSUME NEW v \in User, v # u PROVE Conn'[v] = Conn[v]
      BY <2>1, <3>1, SessionFacts, ConnIs, ConnBecomes
    <3>2. Conn'[u] = "closing" /\ Conn[u] = "open"
      BY <1>1, <2>1, <2>2, SessionFacts, ConnIs, ConnBecomes
    <3>3. Conn' = [v \in User |-> IF v \in {u} THEN "closing" ELSE Conn[v]]
      BY <3>1, <3>2 DEF Conn
    <3>4. {u} # {} /\ {u} \subseteq D!Open
      BY <1>1, <3>2 DEF D!Open, Conn
    <3>5. D!StartClose({u})
      BY <1>1, <3>3, <3>4 DEF D!StartClose, Conn, deliveryVars
    <3> QED  BY <1>1, <3>5 DEF D!Next
  <2>3. CASE sess[u].socket # c
    <3>1. \A v \in User : sess[v].socket # c  BY <2>3, SessionFacts
    <3>2. Conn' = Conn  BY <2>1, <3>1, SessionFacts, ConnStays
    <3> QED  BY <1>2, <3>2
  <2> QED  BY <2>2, <2>3
<1>6. CASE S!Closed(c)
  <2>1. net[c] = "closing" /\ net' = [net EXCEPT ![c] = "closed"]
    BY <1>6 DEF S!Closed
  <2>2. CASE sess[u].socket = c
    <3>1. sess' = [sess EXCEPT ![u] = S!Suspended(u)]
      BY <1>1, <1>6, <2>2, SessionFacts DEF S!Closed, S!HandleDisconnect, S!Bound
    <3>2. ASSUME NEW v \in User, v # u PROVE Conn'[v] = Conn[v]
      BY <2>1, <3>1, <3>2, SessionFacts, ConnIs, ConnBecomes DEF S!Suspended
    <3>3. Conn'[u] = "none" /\ Conn[u] # "none"
      BY <1>1, <2>2, <3>1, SessionFacts, ConnIs, ConnBecomes DEF S!Suspended
    <3>4. Conn' = [Conn EXCEPT ![u] = "none"]  BY <3>2, <3>3 DEF Conn
    <3>5. D!Disconnect(u)  BY <1>1, <3>3, <3>4 DEF D!Disconnect, Conn, deliveryVars
    <3> QED  BY <1>1, <3>5 DEF D!Next
  <2>3. CASE sess[u].socket # c
    <3>1. sess' = sess  BY <1>6, <2>3 DEF S!Closed, S!HandleDisconnect
    <3>2. \A v \in User : sess[v].socket # c  BY <2>3, SessionFacts
    <3>3. Conn' = Conn  BY <2>1, <3>1, <3>2, SessionFacts, ConnStays
    <3> QED  BY <1>2, <3>3
  <2> QED  BY <2>2, <2>3
<1> QED  BY <1>3, <1>4, <1>5, <1>6 DEF Elsewhere

\* The heartbeat may close the sockets of several users at once.
LEMMA HeartbeatImplements ==
  ASSUME SP!SInv, Heartbeat
  PROVE  [D!Next]_(D!vars)
<1> DEFINE dropped == {c \in S!Beaten : S!GivesUp(c)}
           U == {u \in User : sess[u].socket \in dropped}
<1>1. /\ net' = [c \in Sock |-> IF c \in dropped THEN "closing" ELSE net[c]]
      /\ sess' = sess
      /\ UNCHANGED deliveryVars
  BY DEF Heartbeat, S!HeartbeatTick
<1>2. \A c \in dropped : c \in Sock /\ net[c] = "open"  BY DEF S!Beaten
<1>3. CASE U = {}
  <2>1. Conn' = Conn  BY <1>1, <1>3, SessionFacts, ConnStays
  <2> QED  BY <1>1, <2>1 DEF D!vars, Conn, deliveryVars
<1>4. CASE U # {}
  <2>1. ASSUME NEW u \in User
        PROVE  Conn'[u] = IF u \in U THEN "closing" ELSE Conn[u]
    <3>1. CASE u \in U
      BY <1>1, <1>2, <3>1, SessionFacts, ConnBecomes
    <3>2. CASE u \notin U
      BY <1>1, <3>2, SessionFacts, ConnIs, ConnBecomes
    <3> QED  BY <3>1, <3>2
  <2>2. Conn' = [u \in User |-> IF u \in U THEN "closing" ELSE Conn[u]]
    BY <2>1 DEF Conn
  <2>3. U \subseteq D!Open
    <3>1. \A u \in U : Conn[u] = "open"  BY <1>2, SessionFacts, ConnIs
    <3> QED  BY <3>1 DEF D!Open, Conn
  <2>4. D!StartClose(U)  BY <1>1, <1>4, <2>2, <2>3 DEF D!StartClose, Conn, deliveryVars
  <2> QED  BY <2>4 DEF D!Next
<1> QED  BY <1>3, <1>4

\* Publishing, acknowledgements, timers and crashes are Delivery's own.
LEMMA OthersImplement ==
  ASSUME SP!SInv, Next
  PROVE  \/ \E c \in Sock : Authenticated(c) \/ Elsewhere(c)
         \/ \E u \in User : SuspendTimeout(u)
         \/ Heartbeat
         \/ D!Next
<1>1. ASSUME NEW h \in Handler, NEW r \in Route, NEW k \in Kind, BeginPublish(h, r, k)
      PROVE  D!Next
  BY <1>1 DEF BeginPublish, D!Next
<1>2. ASSUME NEW q \in inflight, Publish(q) \/ Crash(q) PROVE D!Next
  BY <1>2 DEF Publish, Crash, D!Next
<1>3. ASSUME NEW u \in User, NEW e \in D!Id, Ack(u, e) PROVE D!Next
  BY <1>3 DEF Ack, D!Next
<1>4. CASE Timers
  BY <1>4 DEF Timers, D!Next
<1> QED  BY <1>1, <1>2, <1>3, <1>4 DEF Next

LEMMA NextImplements == SP!SInv /\ [Next]_vars => [D!Next]_(D!vars)
<1> SUFFICES ASSUME SP!SInv, [Next]_vars PROVE [D!Next]_(D!vars)  OBVIOUS
<1>1. ASSUME NEW c \in Sock, Authenticated(c) PROVE D!Next
  <2>1. owner[c] \in User  BY SessionFacts
  <2> QED  BY <1>1, <2>1, AuthenticatedImplements DEF D!Next
<1>2. ASSUME NEW u \in User, SuspendTimeout(u) PROVE [D!Next]_(D!vars)
  BY <1>2, SuspendTimeoutImplements DEF D!Next
<1>3. CASE UNCHANGED vars
  <2>1. Conn' = Conn  BY <1>3, ConnStays DEF vars, sessionVars
  <2> QED  BY <1>3, <2>1 DEF vars, deliveryVars, D!vars, Conn
<1>4. CASE Next
  BY <1>1, <1>2, <1>4, ElsewhereImplements, HeartbeatImplements, OthersImplement
<1> QED  BY <1>3, <1>4

\* The sessions of the gateway treat the event store as Delivery assumes: with any
\* number of users, sockets and events, each step is one of Delivery's or none.
THEOREM Composed == Spec => ImplementsDelivery
<1>1. Init => D!Init
  <2>1. ASSUME Init PROVE Conn = [u \in User |-> "none"]
    <3>1. \A u \in User : sess[u].socket = NoSock
      BY <2>1 DEF Init, S!Init, S!NoSession, User
    <3>2. \A u \in User : Conn[u] = "none"  BY <3>1, ConnIs
    <3> QED  BY <3>2 DEF Conn
  <2> QED  BY <2>1 DEF Init, D!Init, Conn
<1> QED  BY <1>1, SInvInvariant, NextImplements, PTL DEF Spec, ImplementsDelivery, D!Spec

-----------------------------------------------------------------------------
(* The theorems about Delivery.  They speak of the instance DP; that each  *)
(* of its operators is that of D takes a lemma, from the queries of the    *)
(* store upwards.                                                          *)

DP == INSTANCE DeliveryServiceProofs WITH conn <- [u \in User |-> ConnOf(u)]

LEMMA SameQueries ==
  ASSUME NEW s, NEW t
  PROVE  /\ \A e, u : D!ShouldRetry(s, e, u, t) = DP!ShouldRetry(s, e, u, t)
         /\ \A e, u : D!MayRetry(s, e, u, t) = DP!MayRetry(s, e, u, t)
         /\ \A e : D!IsAllApplied(s, e) = DP!IsAllApplied(s, e)
         /\ \A u : D!GetPending(s, u, t) = DP!GetPending(s, u, t)
         /\ \A u, lucky : D!GetPendingWithRetry(s, u, t, lucky) = DP!GetPendingWithRetry(s, u, t, lucky)
<1>1. \A e, u : D!ShouldRetry(s, e, u, t) = DP!ShouldRetry(s, e, u, t)
  BY DEF D!ShouldRetry, DP!ShouldRetry
<1>2. \A e, u : D!MayRetry(s, e, u, t) = DP!MayRetry(s, e, u, t)
  BY DEF D!MayRetry, DP!MayRetry
<1>3. \A e : D!IsAllApplied(s, e) = DP!IsAllApplied(s, e)
  BY DEF D!IsAllApplied, DP!IsAllApplied, D!Targets, DP!Targets
<1>4. \A u : D!GetPending(s, u, t) = DP!GetPending(s, u, t)
  BY DEF D!GetPending, DP!GetPending, D!IsExpired, DP!IsExpired
<1>5. \A u, lucky : D!GetPendingWithRetry(s, u, t, lucky) = DP!GetPendingWithRetry(s, u, t, lucky)
  BY DEF D!GetPendingWithRetry, DP!GetPendingWithRetry, D!IsExpired, DP!IsExpired,
         D!ShouldRetry, DP!ShouldRetry, D!MayRetry, DP!MayRetry
<1> QED  BY <1>1, <1>2, <1>3, <1>4, <1>5

LEMMA SameRemoval ==
  ASSUME NEW s, NEW R, NEW emits
  PROVE  D!RemoveEvents(s, R, emits) = DP!RemoveEvents(s, R, emits)
BY DEF D!RemoveEvents, DP!RemoveEvents, D!Id, DP!Id

LEMMA SameMarks ==
  ASSUME NEW s, NEW sent, NEW t
  PROVE  /\ D!MarkDelivered(s, sent, t) = DP!MarkDelivered(s, sent, t)
         /\ D!MarkApplied(s, sent) = DP!MarkApplied(s, sent)
         /\ D!MarkSent(s, sent, t) = DP!MarkSent(s, sent, t)
<1>1. \A q : D!MarkDelivered(s, q, t) = DP!MarkDelivered(s, q, t)
  BY DEF D!MarkDelivered, DP!MarkDelivered, D!Id, DP!Id
<1>2. \A x, done : D!MarkApplied(x, done) = DP!MarkApplied(x, done)
  <2> TAKE x, done
  <2>1. D!SetApplied(x, done) = DP!SetApplied(x, done)
    BY DEF D!SetApplied, DP!SetApplied, D!Id, DP!Id
  <2> DEFINE a == D!SetApplied(x, done)
             b == DP!SetApplied(x, done)
             R(after) == {e \in x.events : /\ \E u \in User : <<e, u>> \in done
                                           /\ D!IsAllApplied(after, e)}
  <2>2. R(a) = {e \in x.events : /\ \E u \in User : <<e, u>> \in done
                                 /\ DP!IsAllApplied(b, e)}
    BY <2>1 DEF D!IsAllApplied, DP!IsAllApplied, D!Targets, DP!Targets
  <2> HIDE DEF a, b, R
  <2>3. D!MarkApplied(x, done) = D!RemoveEvents(a, R(a), FALSE)
    BY DEF D!MarkApplied, a, R
  <2>4. DP!MarkApplied(x, done) = DP!RemoveEvents(b, R(a), FALSE)
    BY <2>2 DEF DP!MarkApplied, b
  <2> QED  BY <2>1, <2>3, <2>4, SameRemoval DEF a, b
<1>3. D!MarkSent(s, sent, t) = DP!MarkSent(s, sent, t)
  BY <1>1, <1>2 DEF D!MarkSent, DP!MarkSent
<1> QED  BY <1>1, <1>2, <1>3

\* A definition of module FiniteSets, too, is one of the instance's own.
LEMMA SameCardinality == \A X : D!Cardinality(X) = DP!Cardinality(X)
BY DEF D!Cardinality, DP!Cardinality

LEMMA SameForcedCleanup ==
  ASSUME NEW s
  PROVE  D!ForceCleanup(s) = DP!ForceCleanup(s)
<1>1. \A e, f : D!RemovedBefore(s, e, f) = DP!RemovedBefore(s, e, f)
  BY SameCardinality DEF D!RemovedBefore, DP!RemovedBefore, D!Weight, DP!Weight
<1> DEFINE R == {e \in s.events : D!Cardinality({f \in s.events : D!RemovedBefore(s, f, e)})
                                    < D!Cardinality(s.events) - MaxTotal}
<1>2. \A e : {f \in s.events : D!RemovedBefore(s, f, e)}
              = {f \in s.events : DP!RemovedBefore(s, f, e)}
  BY <1>1
<1>3. R = {e \in s.events : DP!Cardinality({f \in s.events : DP!RemovedBefore(s, f, e)})
                              < DP!Cardinality(s.events) - MaxTotal}
  BY <1>2, SameCardinality
<1> HIDE DEF R
<1>4. D!ForceCleanup(s) = D!RemoveEvents(s, R, TRUE)  BY DEF D!ForceCleanup, R
<1>5. DP!ForceCleanup(s) = DP!RemoveEvents(s, R, TRUE)  BY <1>3 DEF DP!ForceCleanup
<1> QED  BY <1>4, <1>5, SameRemoval

LEMMA SameEviction ==
  ASSUME NEW s, NEW U, NEW t
  PROVE  D!EnforcePerUserLimit(s, U, t) = DP!EnforcePerUserLimit(s, U, t)
<1> DEFINE victims == [u \in User |-> IF u \in U THEN D!Evicted(s, u, t) ELSE {}]
           a == D!EvictFrom(s, victims)
           R(after) == {e \in s.events : /\ \E u \in User : e \in victims[u]
                                         /\ D!Targets(after, e) = {}}
<1>1. \A u : D!Evicted(s, u, t) = DP!Evicted(s, u, t)
  BY SameQueries, SameCardinality DEF D!Evicted, DP!Evicted, D!SliceLength, DP!SliceLength
<1>2. victims = [u \in User |-> IF u \in U THEN DP!Evicted(s, u, t) ELSE {}]
  BY <1>1
<1> HIDE DEF victims
<1>3. a = DP!EvictFrom(s, victims)
  BY DEF D!EvictFrom, DP!EvictFrom, D!Id, DP!Id
<1> HIDE DEF a
<1>4. R(a) = {e \in s.events : (\E u \in User : e \in victims[u]) /\ DP!Targets(a, e) = {}}
  BY DEF D!Targets, DP!Targets
<1> HIDE DEF R
<1>5. D!EnforcePerUserLimit(s, U, t) = D!RemoveEvents(a, R(a), TRUE)
  BY DEF D!EnforcePerUserLimit, a, R, victims
<1>6. DP!EnforcePerUserLimit(s, U, t) = DP!RemoveEvents(a, R(a), TRUE)
  BY <1>2, <1>3, <1>4 DEF DP!EnforcePerUserLimit
<1> QED  BY <1>5, <1>6, SameRemoval

LEMMA SameCreation ==
  ASSUME NEW s, NEW e, NEW U, NEW m, NEW t
  PROVE  D!Create(s, e, U, m, t) = DP!Create(s, e, U, m, t)
<1>1. \A x : D!Insert(x, e, U, m) = DP!Insert(x, e, U, m)
  BY DEF D!Insert, DP!Insert
<1> QED  BY <1>1, SameForcedCleanup, SameEviction, SameCardinality DEF D!Create, DP!Create

LEMMA SameCleanup ==
  ASSUME NEW s, NEW t
  PROVE  D!Cleanup(s, t) = DP!Cleanup(s, t)
<1>1. \A x : D!CleanupExpiredEvents(x, t) = DP!CleanupExpiredEvents(x, t)
  BY SameRemoval DEF D!CleanupExpiredEvents, DP!CleanupExpiredEvents, D!IsExpired, DP!IsExpired
<1>2. \A x : D!CleanupStaleDelivered(x, t) = DP!CleanupStaleDelivered(x, t)
  BY DEF D!CleanupStaleDelivered, DP!CleanupStaleDelivered, D!Id, DP!Id
<1>3. \A x : D!EnforceMemoryLimits(x) = DP!EnforceMemoryLimits(x)
  BY SameForcedCleanup, SameCardinality DEF D!EnforceMemoryLimits, DP!EnforceMemoryLimits
<1> QED  BY <1>1, <1>2, <1>3 DEF D!Cleanup, DP!Cleanup

LEMMA SameSend ==
  ASSUME NEW sent, D!Send(sent)
  PROVE  DP!Send(sent)
BY DEF D!Send, DP!Send, D!Done, DP!Done, D!Id, DP!Id

LEMMA SameNext == [D!Next]_(D!vars) => [DP!Next]_(DP!vars)
<1> SUFFICES ASSUME [D!Next]_(D!vars) PROVE [DP!Next]_(DP!vars)  OBVIOUS
<1> USE DEF D!Id, DP!Id
<1>1. ASSUME NEW u \in User, D!Connect(u) PROVE DP!Connect(u)
  BY <1>1, SameQueries, SameMarks, SameSend
  DEF D!Connect, DP!Connect, D!CanConnect, DP!CanConnect, D!DeliverPending, DP!DeliverPending
<1>2. ASSUME NEW u \in User, D!ConnectTooLate(u) \/ D!Disconnect(u) \/ D!Removed(u)
      PROVE  DP!ConnectTooLate(u) \/ DP!Disconnect(u) \/ DP!Removed(u)
  BY <1>2 DEF D!ConnectTooLate, DP!ConnectTooLate, D!Disconnect, DP!Disconnect,
              D!Removed, DP!Removed, D!LoseSession, DP!LoseSession
<1>3. ASSUME NEW U \in SUBSET User, D!StartClose(U) PROVE DP!StartClose(U)
  BY <1>3 DEF D!StartClose, DP!StartClose, D!Open, DP!Open
<1>4. ASSUME NEW h \in Handler, NEW r \in Route, NEW k \in Kind, D!BeginPublish(h, r, k)
      PROVE  DP!BeginPublish(h, r, k)
  BY <1>4 DEF D!BeginPublish, DP!BeginPublish, D!CanCreate, DP!CanCreate, D!Open, DP!Open
<1>5. \A q : /\ D!OnlineIds(q) = DP!OnlineIds(q) /\ D!OfflineIds(q) = DP!OfflineIds(q)
             /\ D!MetaOf(q) = DP!MetaOf(q) /\ D!Broken(q) = DP!Broken(q)
             /\ D!Record(q) = DP!Record(q)
  BY DEF D!OnlineIds, DP!OnlineIds, D!OfflineIds, DP!OfflineIds, D!Open, DP!Open,
         D!MetaOf, DP!MetaOf, D!Broken, DP!Broken, D!Record, DP!Record
<1>6. ASSUME NEW q \in inflight, D!Publish(q) PROVE DP!Publish(q)
  BY <1>5, <1>6, SameCreation, SameMarks, SameSend
  DEF D!Publish, DP!Publish, D!CanCreate, DP!CanCreate, D!PublishQos1, DP!PublishQos1,
      D!PublishQos2, DP!PublishQos2
<1>7. ASSUME NEW q \in inflight, D!PublishCrash(q) \/ D!QueryFails(q)
      PROVE  DP!PublishCrash(q) \/ DP!QueryFails(q)
  BY <1>5, <1>7, SameSend
  DEF D!PublishCrash, DP!PublishCrash, D!QueryFails, DP!QueryFails, D!CanCreate, DP!CanCreate,
      D!Restart, DP!Restart, D!EmptyStore, DP!EmptyStore, D!NoMeta, DP!NoMeta
<1>8. ASSUME NEW u \in User, NEW e \in D!Id, D!Ack(u, e) PROVE DP!Ack(u, e)
  BY <1>8, SameCreation, SameMarks DEF D!Ack, DP!Ack, D!CanCreate, DP!CanCreate
<1>9. ASSUME NEW e \in D!Id, D!ExpiryTimer(e) PROVE DP!ExpiryTimer(e)
  BY <1>9, SameRemoval DEF D!ExpiryTimer, DP!ExpiryTimer, D!IsExpired, DP!IsExpired
<1>10. ASSUME D!RetryTick PROVE DP!RetryTick
  <2> DEFINE due(lucky) == {p \in D!Id \X User :
                               /\ Conn[p[2]] = "open"
                               /\ p[1] \in D!GetPendingWithRetry(store, p[2], now, lucky)}
  <2>1. PICK lucky \in SUBSET {p \in D!Id \X User :
                                 Conn[p[2]] = "open" /\ D!MayRetry(store, p[1], p[2], now)} :
          /\ D!Send(due(lucky)) /\ store' = D!MarkSent(store, due(lucky), now)
          /\ UNCHANGED <<Conn, inflight, nextId, now, crashes, log>>
    BY <1>10 DEF D!RetryTick, Conn
  <2>2. due(lucky) = {p \in D!Id \X User :
                        /\ Conn[p[2]] = "open"
                        /\ p[1] \in DP!GetPendingWithRetry(store, p[2], now, lucky)}
    BY SameQueries
  <2>3. lucky \in SUBSET {p \in D!Id \X User :
                            Conn[p[2]] = "open" /\ DP!MayRetry(store, p[1], p[2], now)}
    BY <2>1, SameQueries
  <2> HIDE DEF due
  <2>4. DP!Send(due(lucky)) /\ store' = DP!MarkSent(store, due(lucky), now)
    BY <2>1, SameSend, SameMarks
  <2> QED  BY <2>1, <2>2, <2>3, <2>4 DEF DP!RetryTick, Conn
<1>11. ASSUME D!CleanupTick \/ D!Tick PROVE DP!CleanupTick \/ DP!Tick
  BY <1>11, SameCleanup DEF D!CleanupTick, DP!CleanupTick, D!Tick, DP!Tick
<1>12. CASE UNCHANGED D!vars
  BY <1>12 DEF D!vars, DP!vars
<1> QED
  BY <1>1, <1>2, <1>3, <1>4, <1>6, <1>7, <1>8, <1>9, <1>10, <1>11, <1>12 DEF D!Next, DP!Next
LEMMA SameService ==
  /\ DP!Service!Init => D!Service!Init
  /\ [DP!Service!Next]_(DP!Service!vars) => [D!Service!Next]_(D!Service!vars)
<1> USE DEF D!Id, DP!Id
<1>1. D!Pending = DP!Pending /\ D!Pending' = DP!Pending'
  BY SameQueries DEF D!Pending, DP!Pending
<1>2. \A X : D!Service!Cardinality(X) = DP!Service!Cardinality(X)
  BY DEF D!Service!Cardinality, DP!Service!Cardinality
<1>3. DP!Service!Init => D!Service!Init
  BY <1>1 DEF D!Service!Init, DP!Service!Init, D!Service!NoEntry, DP!Service!NoEntry,
              D!Service!Event, DP!Service!Event
<1>4. DP!Service!vars = D!Service!vars /\ DP!Service!vars' = D!Service!vars'
  BY <1>1 DEF D!Service!vars, DP!Service!vars
<1>5. D!Service!Entering = DP!Service!Entering /\ D!Service!Served = DP!Service!Served
  BY DEF D!Service!Entering, DP!Service!Entering, D!Service!Served, DP!Service!Served,
         D!Service!Accepted, DP!Service!Accepted, D!Service!NoEntry, DP!Service!NoEntry,
         D!Service!Event, DP!Service!Event
<1>6. D!Service!Exchange = DP!Service!Exchange
  BY <1>1, <1>5 DEF D!Service!Exchange, DP!Service!Exchange,
         D!Service!Accepted, DP!Service!Accepted, D!Service!NoEntry, DP!Service!NoEntry,
         D!Service!Event, DP!Service!Event
<1>7. D!Service!Overload = DP!Service!Overload
  BY <1>2 DEF D!Service!Overload, DP!Service!Overload, D!Service!NoEntry, DP!Service!NoEntry,
              D!Service!Event, DP!Service!Event
<1>8. DP!Service!Next => D!Service!Next
  BY <1>1, <1>5, <1>6, <1>7
  DEF D!Service!Next, DP!Service!Next, D!Service!Serve, DP!Service!Serve, D!Service!Shed,
      DP!Service!Shed, D!Service!Restart, DP!Service!Restart, D!Service!Tick, DP!Service!Tick
<1> QED  BY <1>3, <1>4, <1>8

LEMMA SameInit == D!Init => DP!Init
BY DEF D!Init, DP!Init, D!EmptyStore, DP!EmptyStore, D!NoEntry, DP!NoEntry, D!NoMeta, DP!NoMeta,
       D!Id, DP!Id

LEMMA SameSpec == D!Spec => DP!Spec
BY SameInit, SameNext, PTL DEF D!Spec, DP!Spec

LEMMA SamePromise == DP!KeepsPromise => D!KeepsPromise
BY SameService, PTL DEF D!KeepsPromise, DP!KeepsPromise, D!Service!Spec, DP!Service!Spec

LEMMA SameInvariants ==
  /\ DP!StoreConsistent => D!StoreConsistent
  /\ DP!NoRedundantSend => D!NoRedundantSend
  /\ DP!ExpiredIsHonest => D!ExpiredIsHonest
  /\ DP!NoEarlyLoss => D!NoEarlyLoss
  /\ DP!TotalBound => D!TotalBound
  /\ DP!PendingBound => D!PendingBound
<1>1. DP!StoreConsistent => D!StoreConsistent
  BY DEF D!StoreConsistent, DP!StoreConsistent, D!IndexSound, DP!IndexSound, D!IndexComplete,
         DP!IndexComplete
<1>2. DP!NoRedundantSend => D!NoRedundantSend
  BY DEF D!NoRedundantSend, DP!NoRedundantSend
<1>3. DP!ExpiredIsHonest => D!ExpiredIsHonest
  BY DEF D!ExpiredIsHonest, DP!ExpiredIsHonest, D!Owed, DP!Owed
<1>4. D!Overloaded = DP!Overloaded
  BY SameCardinality DEF D!Overloaded, DP!Overloaded, D!NoEntry, DP!NoEntry, D!Id, DP!Id
<1>5. DP!NoEarlyLoss => D!NoEarlyLoss
  BY <1>4, SameQueries DEF D!NoEarlyLoss, DP!NoEarlyLoss, D!Owed, DP!Owed, D!Id, DP!Id
<1>6. DP!TotalBound => D!TotalBound
  BY SameCardinality DEF D!TotalBound, DP!TotalBound
<1>7. DP!PendingBound => D!PendingBound
  BY SameQueries, SameCardinality DEF D!PendingBound, DP!PendingBound
<1> QED  BY <1>1, <1>2, <1>3, <1>5, <1>6, <1>7

\* The constants are as Delivery assumes.
LEMMA SameAssumptions == DP!StoreAssumption /\ DP!DeliveryAssumption
<1>1. IsFiniteSet(User) => DP!IsFiniteSet(User)
  BY DEF IsFiniteSet, DP!IsFiniteSet
<1> QED
  BY <1>1, EventsAssumption DEF DP!StoreAssumption, DP!DeliveryAssumption, User, S!User

LEMMA ServiceOfDelivery == Spec => DP!Spec
BY Composed, SameSpec, PTL DEF ImplementsDelivery

\* What DeliveryService promises, the gateway keeps with the sessions there really
\* are: replaced, suspended or cut off, a user is owed what it missed until it is
\* served, the deadline passes, a limit is met or the process dies.
THEOREM PromiseKept == Spec => KeepsPromise
<1>1. DP!Spec => DP!KeepsPromise
  BY SameAssumptions, DP!Implements DEF DP!StoreAssumption, DP!DeliveryAssumption
<1> QED  BY <1>1, ServiceOfDelivery, SamePromise, PTL DEF KeepsPromise

\* The store's index and map agree, no client is sent what it has, event_expired is
\* true, what is owed stays pending and the limits hold, in the whole gateway: with
\* sockets that are replaced or die and sessions that are suspended or lost.
THEOREM EventsAreSafe ==
  Spec => [](/\ D!StoreConsistent
             /\ D!NoRedundantSend /\ D!ExpiredIsHonest /\ D!NoEarlyLoss
             /\ D!TotalBound /\ D!PendingBound)
<1> USE SameAssumptions DEF DP!StoreAssumption, DP!DeliveryAssumption
<1>1. DP!Spec => []DP!StoreConsistent  BY DP!Consistent
<1>2. DP!Spec => []DP!NoRedundantSend  BY DP!NeverTwice
<1>3. DP!Spec => []DP!ExpiredIsHonest  BY DP!HonestExpiry
<1>4. DP!Spec => []DP!NoEarlyLoss  BY DP!NothingLost
<1>5. DP!Spec => []DP!TotalBound  BY DP!TotalBounded
<1>6. DP!Spec => []DP!PendingBound  BY DP!PendingBounded
<1> QED
  BY <1>1, <1>2, <1>3, <1>4, <1>5, <1>6, ServiceOfDelivery, SameInvariants, PTL

\* If no TTL exceeds the stale timeout, no event of the gateway ever turns FAILED.
THEOREM NoneFailsEither ==
  ASSUME AckTtl <= StaleTimeout, \A k \in Kind : k.ttl <= StaleTimeout
  PROVE  Spec => []D!NeverFailed
<1>1. DP!Spec => []DP!NeverFailed
  <2>1. DP!ShortLived  BY DEF DP!ShortLived
  <2> QED
    BY <2>1, SameAssumptions, DP!NoneFails DEF DP!StoreAssumption, DP!DeliveryAssumption
<1>2. DP!NeverFailed => D!NeverFailed
  BY DEF D!NeverFailed, DP!NeverFailed
<1> QED  BY <1>1, <1>2, ServiceOfDelivery, PTL

\* With real sessions too: if the two intervals keep firing, what has expired leaves
\* the store, and what is stored for a user whose session has an open socket is sent.
THEOREM IntervalsDeliver ==
  /\ Spec /\ DP!SweepFires => D!ExpiredIsRemoved
  /\ Spec /\ DP!RetryFires => D!StoredIsSent
<1> USE SameAssumptions DEF DP!StoreAssumption, DP!DeliveryAssumption
<1>1. DP!Spec /\ DP!SweepFires => DP!ExpiredIsRemoved  BY DP!ExpiredLeave
<1>2. DP!Spec /\ DP!RetryFires => DP!StoredIsSent  BY DP!StoredArrive
<1>3. DP!ExpiredIsRemoved => D!ExpiredIsRemoved
  BY DEF D!ExpiredIsRemoved, DP!ExpiredIsRemoved, D!Id, DP!Id, D!IsExpired, DP!IsExpired
<1>4. DP!StoredIsSent => D!StoredIsSent
  BY DEF D!StoredIsSent, DP!StoredIsSent, D!Id, DP!Id, D!IsExpired, DP!IsExpired
<1> QED  BY <1>1, <1>2, <1>3, <1>4, ServiceOfDelivery, PTL
=============================================================================
