------------------------------- MODULE Session -------------------------------
(***************************************************************************)
(* Sessions of the gateway: WebsocketGateway (connections and their        *)
(* events), WebSocketSessionManager and WebSocketSessionRegistry (one      *)
(* session per end user), BaseLifecycle and its subclasses (suspend,       *)
(* resume, what browsers are told about devices) and the heartbeat.        *)
(*                                                                         *)
(* A step is what the Node process runs between two returns to the event   *)
(* loop.  A connection returns to it while it is authenticated and, for a  *)
(* browser, while the device list for its snapshot is read; its socket may *)
(* close, and other connections of the same user may get ahead, meanwhile. *)
(***************************************************************************)
EXTENDS Integers, FiniteSets

CONSTANTS
  Device, Browser,  \* end users by type; a desktop is served like a browser
  Sock,             \* bound: the connections that are ever opened
  NoSock,           \* a session without a socket
  Dead,             \* the sockets whose peer never answers a ping
  MaxMissed,        \* WS_MAX_MISSED_PONGS
  Product,
  AnyProduct,       \* a URL that names no product
  ProductOf         \* a device's product, and that of a browser's role

ASSUME SessionAssumption ==
  /\ Device \cap Browser = {}
  /\ NoSock \notin Sock /\ Dead \subseteq Sock
  /\ MaxMissed \in Nat \ {0}
  /\ ProductOf \in [Device \cup Browser -> Product]

User == Device \cup Browser

VARIABLES
  owner,      \* the user a connection's token names
  asks,       \* the product in a connection's URL
  net,        \* readyState of each socket, as the server sees it
  phase,      \* how far handleConnection() got for each socket
  sess,       \* the registered session of each user
  alive,      \* socket.isAlive
  missed,     \* socket.missedPongs
  pinged,     \* the peer owes a pong
  unanswered, \* history: heartbeats that passed while the peer owed a pong
  view,       \* history: what each browser was last told of each device
  fresh       \* history: browsers that got a snapshot on their current socket

vars == <<owner, asks, net, phase, sess, alive, missed, pinged, unanswered, view, fresh>>

socketVars == <<owner, asks, alive, missed, pinged, unanswered>>

\* "auth": rate limit and token are being checked.  "snapshot": the session is
\* bound, the browser's device list is being read, no handler is attached yet.
\* "ready": message, pong and close handlers are attached.
Phase == {"unused", "auth", "snapshot", "ready", "rejected"}

\* NONE is a user that the registry does not know.  REPLACE and OFFLINE are
\* only set on the way to another state of the same step.
NoSession == [state |-> "NONE", socket |-> NoSock, timer |-> FALSE, product |-> AnyProduct]

TypeOK ==
  /\ owner \in [Sock -> User]
  /\ asks \in [Sock -> Product \cup {AnyProduct}]
  /\ net \in [Sock -> {"unused", "open", "closing", "closed"}]
  /\ phase \in [Sock -> Phase]
  /\ sess \in [User -> [state : {"NONE", "ONLINE", "SUSPEND"},
                        socket : Sock \cup {NoSock}, timer : BOOLEAN,
                        product : Product \cup {AnyProduct}]]
  /\ alive \in [Sock -> BOOLEAN]
  /\ missed \in [Sock -> Nat]
  /\ pinged \in [Sock -> BOOLEAN]
  /\ unanswered \in [Sock -> Nat]
  /\ view \in [Browser -> [Device -> {"unknown", "ONLINE", "SUSPEND", "OFFLINE"}]]
  /\ fresh \subseteq Browser

Init ==
  /\ owner \in [Sock -> User]
  /\ asks \in [Sock -> Product \cup {AnyProduct}]
  /\ net = [c \in Sock |-> "unused"]
  /\ phase = [c \in Sock |-> "unused"]
  /\ sess = [u \in User |-> NoSession]
  /\ alive = [c \in Sock |-> FALSE]
  /\ missed = [c \in Sock |-> 0]
  /\ pinged = [c \in Sock |-> FALSE]
  /\ unanswered = [c \in Sock |-> 0]
  /\ view = [b \in Browser |-> [d \in Device |-> "unknown"]]
  /\ fresh = {}

-----------------------------------------------------------------------------
(* Helpers.                                                                *)

\* session.isActive(): a socket, and it is OPEN.
IsActive(u) == sess[u].socket # NoSock /\ net[sess[u].socket] = "open"

\* client.session is set once establishSession() has run for c.
Bound(c) == phase[c] \in {"snapshot", "ready"}

\* What the registry says of device d.
StateOf(d) == IF sess[d].state = "NONE" THEN "OFFLINE" ELSE sess[d].state

\* b's session lets what concerns device d through.
Wants(b, d) == sess[b].product \in {AnyProduct, ProductOf[d]}

\* Mutant: browsers are only told when a device comes or goes for good.
BroadcastEndsOnly(u, x) ==
  view' = [b \in Browser |->
             IF u \in Device /\ x # "SUSPEND" /\ IsActive(b) /\ Wants(b, u)
             THEN [view[b] EXCEPT ![u] = x] ELSE view[b]]

\* Mutant: the session's product is not asked.
BroadcastToAll(u, x) ==
  view' = [b \in Browser |->
             IF u \in Device /\ IsActive(b) THEN [view[b] EXCEPT ![u] = x] ELSE view[b]]

\* A device's lifecycle callbacks tell the active browsers of the tenant whose
\* session has no product or the device's; what their role says is not asked.
Broadcast(u, x) ==
  view' = [b \in Browser |->
             IF u \in Device /\ IsActive(b) /\ Wants(b, u)
             THEN [view[b] EXCEPT ![u] = x] ELSE view[b]]

-----------------------------------------------------------------------------
(* Connections.                                                            *)

\* A client connects; handleConnection() runs up to the rate limit.
Open(c) ==
  /\ phase[c] = "unused"
  /\ phase' = [phase EXCEPT ![c] = "auth"]
  /\ net' = [net EXCEPT ![c] = "open"]
  /\ UNCHANGED <<socketVars, sess, view, fresh>>

\* Rate limit or authentication failed: an error, then close().
Reject(c) ==
  /\ phase[c] = "auth"
  /\ phase' = [phase EXCEPT ![c] = "rejected"]
  /\ net' = [net EXCEPT ![c] = IF @ = "open" THEN "closing" ELSE @]
  /\ UNCHANGED <<socketVars, sess, view, fresh>>

\* Mutant: resuming a session forgets its suspend timer.
EstablishKeepingTimer(c) ==
  sess' = [sess EXCEPT ![owner[c]] = [@ EXCEPT !.state = "ONLINE", !.socket = c]]

\* The product of c's session: only createSession() looks at the URL.
ProductFor(c) ==
  IF sess[owner[c]].state = "NONE" THEN asks[c] ELSE sess[owner[c]].product

\* establishSession(): create, resume or replace.  All three bind the socket, and
\* onConnect() sets ONLINE.  Resuming clears the suspend timer; replacing does
\* so only if the old socket is open.
Establish(c) ==
  LET u == owner[c]
  IN  sess' = [sess EXCEPT ![u] =
                 [state   |-> "ONLINE",
                  socket  |-> c,
                  timer   |-> sess[u].state = "ONLINE" /\ ~ IsActive(u) /\ sess[u].timer,
                  product |-> ProductFor(c)]]

\* afterConnect() returns at once if the product is not that of the browser's role.
AsksForOwn(c) == ProductFor(c) \in {AnyProduct, ProductOf[owner[c]]}

\* The client._isResume flag: a suspended session is resumed; a replaced one
\* counts as resumed for a device only.
IsResume(c) ==
  LET u == owner[c]
  IN  \/ sess[u].state = "SUSPEND"
      \/ sess[u].state # "NONE" /\ u \in Device

(***************************************************************************)
(* The token is valid: establishSession() and onConnect(), up to its first *)
(* real await.  An open predecessor is closed.  Nothing looks at whether   *)
(* the new socket is still open.                                           *)
(***************************************************************************)
Authenticated(c) ==
  LET u   == owner[c]
      old == sess[u].socket
  IN  /\ phase[c] = "auth"
      /\ Establish(c)
      /\ net' = [x \in Sock |-> IF x = old /\ net[x] = "open" THEN "closing" ELSE net[x]]
      /\ phase' = [phase EXCEPT ![c] =
                     IF u \in Browser /\ ~ IsResume(c) /\ AsksForOwn(c)
                     THEN "snapshot" ELSE "ready"]
      /\ Broadcast(u, "ONLINE")
      /\ fresh' = fresh \ {u}
      /\ UNCHANGED socketVars

\* The devices of b's product, with their states.
ListFor(b) == [d \in Device |-> IF Wants(b, d) THEN StateOf(d) ELSE "unknown"]

(***************************************************************************)
(* BrowserLifecycle.afterConnect() after its query: the states are read    *)
(* from the registry now and sent on the session's current socket.  A      *)
(* failed query sends an empty list.  Then the handlers are attached.      *)
(***************************************************************************)
Snapshot(c) ==
  LET b == owner[c]
  IN  /\ phase[c] = "snapshot"
      /\ phase' = [phase EXCEPT ![c] = "ready"]
      /\ \/ /\ IsActive(b)
            /\ view' = [view EXCEPT ![b] = ListFor(b)]
            /\ fresh' = fresh \cup {b}
         \/ /\ IsActive(b)
            /\ view' = [view EXCEPT ![b] = [d \in Device |-> "unknown"]]
            /\ fresh' = fresh \ {b}
         \/ /\ ~ IsActive(b)
            /\ UNCHANGED <<view, fresh>>
      /\ UNCHANGED <<socketVars, net, sess>>

-----------------------------------------------------------------------------
(* The end of a connection.                                                *)

\* The peer closes or the connection breaks; or a fatal error of a message
\* handler closes the socket.
StartClose(c) ==
  /\ net[c] = "open"
  /\ net' = [net EXCEPT ![c] = "closing"]
  /\ UNCHANGED <<socketVars, phase, sess, view, fresh>>

\* The session without its socket, and with a timer.
Suspended(u) ==
  [state |-> "SUSPEND", socket |-> NoSock, timer |-> TRUE, product |-> sess[u].product]

\* Mutant: the close of a replaced socket is taken for the session's own.
HandleDisconnectAny(c) ==
  LET u == owner[c]
  IN  IF Bound(c) /\ sess[u].state # "NONE"
      THEN /\ sess' = [sess EXCEPT ![u] = Suspended(u)]
           /\ Broadcast(u, "SUSPEND")
      ELSE UNCHANGED <<sess, view>>

\* Mutant: only a session that is still active is suspended.
HandleDisconnectActive(c) ==
  LET u == owner[c]
  IN  IF Bound(c) /\ sess[u].socket = c /\ IsActive(u)
      THEN /\ sess' = [sess EXCEPT ![u] = Suspended(u)]
           /\ Broadcast(u, "SUSPEND")
      ELSE UNCHANGED <<sess, view>>

\* Mutant: the grace period is left out.
HandleDisconnectForGood(c) ==
  LET u == owner[c]
  IN  IF Bound(c) /\ sess[u].socket = c
      THEN /\ sess' = [sess EXCEPT ![u] = NoSession]
           /\ Broadcast(u, "OFFLINE")
      ELSE UNCHANGED <<sess, view>>

\* handleDisconnect(): only the session's current socket suspends it; a socket
\* whose session is not established yet is ignored.
HandleDisconnect(c) ==
  LET u == owner[c]
  IN  IF Bound(c) /\ sess[u].socket = c
      THEN /\ sess' = [sess EXCEPT ![u] = Suspended(u)]
           /\ Broadcast(u, "SUSPEND")
      ELSE UNCHANGED <<sess, view>>

\* The close event.
Closed(c) ==
  /\ net[c] = "closing"
  /\ net' = [net EXCEPT ![c] = "closed"]
  /\ HandleDisconnect(c)
  /\ UNCHANGED <<socketVars, phase, fresh>>

\* Mutant: a destroyed session stays in the registry.
SuspendTimeoutRegistered(u) ==
  /\ sess[u].timer
  /\ sess' = [sess EXCEPT ![u].state = "OFFLINE", ![u].timer = FALSE]
  /\ Broadcast(u, "OFFLINE")
  /\ UNCHANGED <<socketVars, net, phase, fresh>>

\* The suspend timer: a session that is still suspended is unregistered.  A
\* snapshot that is still being read for it will find no socket to go to.
SuspendTimeout(u) ==
  /\ sess[u].timer
  /\ IF sess[u].state = "SUSPEND"
     THEN /\ sess' = [sess EXCEPT ![u] = NoSession]
          /\ phase' = [c \in Sock |-> IF owner[c] = u /\ phase[c] = "snapshot"
                                      THEN "ready" ELSE phase[c]]
          /\ Broadcast(u, "OFFLINE")
     ELSE /\ sess' = [sess EXCEPT ![u].timer = FALSE]
          /\ UNCHANGED <<phase, view>>
  /\ UNCHANGED <<socketVars, net, fresh>>

-----------------------------------------------------------------------------
(* The heartbeat.                                                          *)

Beaten == {c \in Sock : net[c] = "open" /\ \E u \in User : sess[u].socket = c}

\* A socket that did not answer for MaxMissed rounds is closed.
GivesUp(c) == ~ alive[c] /\ missed[c] + 1 >= MaxMissed

\* The interval: every active socket is checked, closed or pinged again.
HeartbeatTick ==
  LET dropped == {c \in Beaten : GivesUp(c)}
      kept    == Beaten \ dropped
  IN  /\ missed' = [c \in Sock |-> IF c \in Beaten /\ ~ alive[c] THEN missed[c] + 1
                                                                 ELSE missed[c]]
      /\ alive' = [c \in Sock |-> alive[c] /\ c \notin kept]
      /\ pinged' = [c \in Sock |-> pinged[c] \/ c \in kept]
      /\ unanswered' = [c \in Sock |-> IF c \in Beaten /\ pinged[c] THEN unanswered[c] + 1
                                                                    ELSE unanswered[c]]
      /\ net' = [c \in Sock |-> IF c \in dropped THEN "closing" ELSE net[c]]
      /\ UNCHANGED <<owner, asks, phase, sess, view, fresh>>

\* Mutant: a pong marks the socket alive, the count goes on.
HandlePongKeepingCount(c) ==
  alive' = [alive EXCEPT ![c] = TRUE] /\ UNCHANGED missed

\* The pong handler of the gateway.
HandlePong(c) ==
  /\ alive' = [alive EXCEPT ![c] = TRUE]
  /\ missed' = [missed EXCEPT ![c] = 0]

\* The peer answers.  Before the handlers are attached nobody listens.
Pong(c) ==
  /\ c \notin Dead
  /\ net[c] = "open" /\ pinged[c]
  /\ pinged' = [pinged EXCEPT ![c] = FALSE]
  /\ unanswered' = [unanswered EXCEPT ![c] = 0]
  /\ IF phase[c] = "ready" THEN HandlePong(c) ELSE UNCHANGED <<alive, missed>>
  /\ UNCHANGED <<owner, asks, net, phase, sess, view, fresh>>

Next ==
  \/ \E c \in Sock :
       \/ Open(c) \/ Reject(c) \/ Authenticated(c) \/ Snapshot(c)
       \/ StartClose(c) \/ Closed(c) \/ Pong(c)
  \/ \E u \in User : SuspendTimeout(u)
  \/ HeartbeatTick

Spec == Init /\ [][Next]_vars

\* The heartbeat's interval keeps firing, and sockets that were closed get their
\* close events one after the other.  Clients owe nothing.
Fairness ==
  /\ WF_vars(HeartbeatTick)
  /\ WF_vars(\E c \in Sock : Closed(c))

FairSpec == Spec /\ Fairness

-----------------------------------------------------------------------------
(* Safety.                                                                 *)

\* A session without a socket is always on its way out: it is suspended and its
\* timer is running; and a timer never runs for a session that was resumed or
\* replaced.  Otherwise sessions leak, or a resumed one is cut off.
SuspendedIsTimed ==
  \A u \in User :
    /\ sess[u].state = "SUSPEND" <=> sess[u].timer
    /\ sess[u].state = "ONLINE" <=> sess[u].socket # NoSock

\* A session only leaves ONLINE through the close of its own current socket, not
\* through that of a socket it replaced (handleDisconnect's guard).
OnlyOwnSocketSuspends ==
  [][\A u \in User : sess[u].state = "ONLINE" /\ sess'[u].state = "SUSPEND" =>
       net[sess[u].socket] # "closed" /\ net'[sess[u].socket] = "closed"]_vars

\* A browser that has had its snapshot on the socket it still uses knows the
\* state the registry has for every device of its product, and of no other, through
\* every interleaving of the snapshot's query with sessions that come and go.
ViewIsCurrent == \A b \in fresh : IsActive(b) => view[b] = ListFor(b)

\* The browsers that ViewIsCurrent speaks of.
Watching == {b \in fresh : IsActive(b)}

Observers == INSTANCE Presence WITH
               presence <- [u \in User |-> StateOf(u)],
               told     <- [b \in Watching |-> view[b]]

\* Sessions do what module Presence promises: users come and go along its four
\* transitions, one with each step, and a browser with a snapshot is told of each
\* in the step in which it happens, whatever sockets, timers and queries do.
KeepsPresence == Observers!Spec

\* The heartbeat never cuts a device that left fewer than MaxMissed - 1 pings in
\* a row unanswered, however pongs, heartbeats and reconnects interleave.  (One
\* is missing because isAlive starts false.  A browser's first pongs can be lost:
\* its handlers are attached only after the snapshot.)
HeartbeatIsPatient ==
  [][\A c \in Sock : net[c] = "open" /\ net'[c] = "closing" /\ missed' # missed
       /\ owner[c] \in Device => unanswered'[c] >= MaxMissed - 1]_vars

-----------------------------------------------------------------------------
(* Liveness.                                                               *)

\* A session whose peer is dead is found out by the heartbeat, suspended and
\* finally removed, unless the user comes back on another socket.
DeadPeerIsRemoved ==
  \A c \in Dead :
    (net[c] = "open" /\ \E u \in User : sess[u].socket = c)
      ~> \A u \in User : sess[u].socket # c

-----------------------------------------------------------------------------
(* What the documentation says and the code does not do.                   *)

\* docs/communication.md: after a disconnect the session is suspended.
DocDisconnectSuspends ==
  \A u \in User : sess[u].state = "ONLINE" => net[sess[u].socket] # "closed"
=============================================================================
