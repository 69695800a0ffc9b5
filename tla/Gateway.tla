------------------------------- MODULE Gateway -------------------------------
(***************************************************************************)
(* Sessions and delivery together: module Session decides which socket a   *)
(* user has and what becomes of it, module Delivery what the event store   *)
(* does with it.                                                           *)
(*                                                                         *)
(* In Delivery a user's connection is a variable that changes as it likes. *)
(* Here it is what isActive() and session.socket say, and every step of a  *)
(* session has the effect on events that its code has: binding a socket    *)
(* delivers what is pending, the suspend timer takes the session from the  *)
(* handlers that wait, only a socket with its message handler attached     *)
(* publishes and acknowledges, and a crash takes sessions and store alike. *)
(***************************************************************************)
EXTENDS Integers, FiniteSets

CONSTANTS
  Device, Browser, Sock, NoSock, Dead, MaxMissed,
  Product, AnyProduct, ProductOf,                         \* see Session
  NoUser, NEvents, MaxTotal, MaxPerUser, DeliveredTimeout,
  StaleTimeout, MaxAttempts, BackoffBase, Route, Kind,
  AckTtl, Handler, MaxNow, MaxSends, MaxCrashes, Away     \* see Delivery

ASSUME GatewayAssumption ==
  /\ Device \cap Browser = {}
  /\ NoSock \notin Sock /\ Dead \subseteq Sock
  /\ MaxMissed \in Nat \ {0}
  /\ ProductOf \in [Device \cup Browser -> Product]

\* What Delivery assumes of its constants, for these users.
ASSUME EventsAssumption ==
  /\ IsFiniteSet(Device \cup Browser) /\ NoUser \notin Device \cup Browser
  /\ NEvents \in Nat \ {0}
  /\ MaxTotal \in Nat \ {0} /\ MaxPerUser \in Nat \ {0}
  /\ DeliveredTimeout \in Nat /\ StaleTimeout \in Nat
  /\ MaxAttempts \in Nat /\ BackoffBase \in Nat \ {0}
  /\ Route \subseteq [from : Device \cup Browser, to : SUBSET (Device \cup Browser),
                      allowed : SUBSET (Device \cup Browser)]
  /\ Kind \subseteq [qos : 1 .. 2, ttl : Nat \ {0}, notify : BOOLEAN]
  /\ AckTtl \in Nat \ {0}
  /\ MaxNow \in Nat /\ MaxSends \in Nat /\ MaxCrashes \in Nat

VARIABLES
  owner, asks, net, phase, sess, alive, missed, pinged, unanswered, view, fresh,
  store, inflight, nextId, now, crashes, log, seen, redundant

S == INSTANCE Session

User == S!User

\* A user's connection as BaseLifecycle and the event handlers see it.
ConnOf(u) ==
  CASE sess[u].socket = NoSock -> "none"
    [] S!IsActive(u)           -> "open"
    [] OTHER                   -> "closing"

D == INSTANCE Delivery WITH conn <- [u \in User |-> ConnOf(u)]

sessionVars == <<owner, asks, net, phase, sess, alive, missed, pinged, unanswered, view, fresh>>
deliveryVars == <<store, inflight, nextId, now, crashes, log, seen, redundant>>
vars == <<sessionVars, deliveryVars>>

Init ==
  /\ S!Init
  /\ store = D!EmptyStore
  /\ inflight = {}
  /\ nextId = 1
  /\ now = 1
  /\ crashes = 0
  /\ log = [e \in D!Id |-> D!NoEntry]
  /\ seen = [e \in D!Id |-> [u \in User |-> "no"]]
  /\ redundant = {}

-----------------------------------------------------------------------------
(* Steps of a session.                                                     *)

\* Mutant: only a new or a resumed session is told what it missed.
AuthenticatedUndelivered(c) ==
  /\ owner[c] \notin Away
  /\ S!Authenticated(c)
  /\ IF net[c] = "open" /\ sess[owner[c]].state # "ONLINE"
     THEN D!CanConnect(owner[c]) /\ D!DeliverPending(owner[c])
     ELSE UNCHANGED deliveryVars

\* establishSession() and onConnect(): what is pending goes to the socket that was
\* bound, if it is still open, before the browser's snapshot.
Authenticated(c) ==
  /\ owner[c] \notin Away
  /\ S!Authenticated(c)
  /\ IF net[c] = "open"
     THEN D!CanConnect(owner[c]) /\ D!DeliverPending(owner[c])
     ELSE UNCHANGED deliveryVars

\* Mutant: a session that goes takes what is pending for its user with it.
SuspendTimeoutPurging(u) ==
  /\ S!SuspendTimeout(u)
  /\ IF sess[u].state = "SUSPEND"
     THEN D!LoseSession(u) /\ store' = [store EXCEPT !.userEvents[u] = {}]
     ELSE UNCHANGED <<store, inflight>>
  /\ UNCHANGED <<nextId, now, crashes, log, seen, redundant>>

\* The suspend timer: a handler at its query keeps the object it has.
SuspendTimeout(u) ==
  /\ S!SuspendTimeout(u)
  /\ IF sess[u].state = "SUSPEND" THEN D!LoseSession(u) ELSE UNCHANGED inflight
  /\ UNCHANGED <<store, nextId, now, crashes, log, seen, redundant>>

\* Everything else that happens to sockets and sessions leaves the events alone.
Elsewhere(c) ==
  /\ \/ S!Open(c) \/ S!Reject(c) \/ S!Snapshot(c) \/ S!Pong(c)
     \/ S!StartClose(c) \/ S!Closed(c)
  /\ UNCHANGED deliveryVars

Heartbeat == S!HeartbeatTick /\ UNCHANGED deliveryVars

-----------------------------------------------------------------------------
(* Steps of delivery.                                                      *)

\* u's messages are heard: the handler is attached once the snapshot was sent, and
\* only the socket of the session counts.
Listening(u) ==
  LET c == sess[u].socket
  IN  c # NoSock /\ phase[c] = "ready" /\ net[c] \in {"open", "closing"}

\* A message of r.from has come to its handler up to the query for the targets,
\* from a socket whose handlers are attached and that may be gone since.
BeginPublish(h, r, k) ==
  /\ \E c \in Sock : owner[c] = r.from /\ phase[c] = "ready"
  /\ UNCHANGED sessionVars
  /\ D!BeginPublish(h, r, k)

Publish(q) == UNCHANGED sessionVars /\ D!Publish(q)

Ack(u, e) ==
  /\ Listening(u)
  /\ UNCHANGED sessionVars
  /\ D!Ack(u, e)

Timers ==
  /\ UNCHANGED sessionVars
  /\ \/ D!RetryTick \/ D!CleanupTick \/ D!Tick
     \/ \E e \in D!Id : D!ExpiryTimer(e)

\* Mutant: the sessions come back from a dump, suspended.
LoseSessionsRestored ==
  /\ net' = [c \in Sock |-> IF net[c] = "unused" THEN "unused" ELSE "closed"]
  /\ phase' = [c \in Sock |-> IF phase[c] = "unused" THEN "unused" ELSE "rejected"]
  /\ sess' = [u \in User |-> IF sess[u].state = "NONE" THEN S!NoSession ELSE S!Suspended(u)]
  /\ alive' = [c \in Sock |-> FALSE]
  /\ missed' = [c \in Sock |-> 0]
  /\ pinged' = [c \in Sock |-> FALSE]
  /\ unanswered' = [c \in Sock |-> 0]
  /\ fresh' = {}
  /\ UNCHANGED <<owner, asks, view>>

\* The process ends and starts again.  Every socket is gone, and what handlers
\* were waiting for with it; clients connect again with new ones.
LoseSessions ==
  /\ net' = [c \in Sock |-> IF net[c] = "unused" THEN "unused" ELSE "closed"]
  /\ phase' = [c \in Sock |-> IF phase[c] = "unused" THEN "unused" ELSE "rejected"]
  /\ sess' = [u \in User |-> S!NoSession]
  /\ alive' = [c \in Sock |-> FALSE]
  /\ missed' = [c \in Sock |-> 0]
  /\ pinged' = [c \in Sock |-> FALSE]
  /\ unanswered' = [c \in Sock |-> 0]
  /\ fresh' = {}
  /\ UNCHANGED <<owner, asks, view>>

\* A receiver's session has lost its socket, or the query for the targets failed.
Crash(q) == LoseSessions /\ (D!PublishCrash(q) \/ D!QueryFails(q))

-----------------------------------------------------------------------------
Next ==
  \/ \E c \in Sock : Authenticated(c) \/ Elsewhere(c)
  \/ \E u \in User : SuspendTimeout(u)
  \/ Heartbeat
  \/ \E h \in Handler, r \in Route, k \in Kind : BeginPublish(h, r, k)
  \/ \E q \in inflight : Publish(q) \/ Crash(q)
  \/ \E u \in User, e \in D!Id : Ack(u, e)
  \/ Timers

Spec == Init /\ [][Next]_vars

-----------------------------------------------------------------------------
(* Properties.                                                             *)

\* The sessions of module Session treat the event store as module Delivery
\* assumes: whatever sockets, replacements, suspensions and crashes do, it is one
\* of Delivery's steps for the events.  What is checked and proved of Delivery
\* therefore holds in the whole gateway.
ImplementsDelivery == D!Spec

\* As in Session, with everything else the gateway does in between, and across a
\* restart, after which sessions, sockets and snapshots begin anew.
ViewIsCurrent == S!ViewIsCurrent

\* The promise of module Presence holds with deliveries, handlers and restarts in
\* between: after a restart nobody is believed to be there, or to be missed.
KeepsPresence == S!KeepsPresence

\* The promise of module DeliveryService is kept with the sessions there really
\* are: what a user missed on a dead, a replaced or a suspended socket stays owed
\* until the next one, its deadline, a limit or a restart.
KeepsPromise == D!KeepsPromise
=============================================================================
