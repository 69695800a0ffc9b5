---------------------------- MODULE SessionProofs ----------------------------
(***************************************************************************)
(* Theorems of module Session.  SInv is inductive.  It says where a        *)
(* socket's session comes from: only a socket that was authenticated is a  *)
(* session's, a device's handlers are attached when it is bound, and the   *)
(* heartbeat's count is never more than one ahead of the pings that really *)
(* went unanswered.                                                        *)
(***************************************************************************)
EXTENDS Session, TLAPS

\* The socket of a session was bound for its user.
SocketIsBound ==
  \A u \in User : sess[u].socket # NoSock =>
    Bound(sess[u].socket) /\ owner[sess[u].socket] = u

\* Only a browser waits for its snapshot; a device listens from the start.
DeviceListens ==
  \A c \in Sock : owner[c] \in Device =>
    /\ phase[c] # "snapshot"
    /\ pinged[c] => phase[c] = "ready"

\* The missed pongs of a device are pings it did not answer, but for the first.
CountIsHonest ==
  \A c \in Sock : owner[c] \in Device =>
    /\ missed[c] <= unanswered[c] + 1
    /\ (phase[c] = "unused" \/ net[c] = "open") /\ ~ alive[c] /\ ~ pinged[c] => missed[c] = 0

SInv ==
  /\ TypeOK
  /\ SuspendedIsTimed
  /\ SocketIsBound
  /\ DeviceListens
  /\ CountIsHonest
  /\ ViewIsCurrent

-----------------------------------------------------------------------------
(* Each action has the same effect on the registry: a user's entry stays,  *)
(* is established, suspended, unregistered, or loses its timer.            *)

LEMMA SInvInit == Init => SInv
<1> SUFFICES ASSUME Init PROVE SInv  OBVIOUS
<1> USE SessionAssumption DEF Init, NoSession
<1>1. TypeOK  BY DEF TypeOK, User, Phase
<1>2. SuspendedIsTimed  BY DEF SuspendedIsTimed
<1>3. SocketIsBound  BY DEF SocketIsBound
<1>4. DeviceListens  BY DEF DeviceListens
<1>5. CountIsHonest  BY DEF CountIsHonest
<1>6. ViewIsCurrent  BY DEF ViewIsCurrent
<1> QED  BY <1>1, <1>2, <1>3, <1>4, <1>5, <1>6 DEF SInv

\* What is broadcast is a view again.
LEMMA BroadcastType ==
  ASSUME TypeOK, NEW u, NEW x \in {"ONLINE", "SUSPEND", "OFFLINE"}, Broadcast(u, x)
  PROVE  view' \in [Browser -> [Device -> {"unknown", "ONLINE", "SUSPEND", "OFFLINE"}]]
BY DEF TypeOK, Broadcast

\* What ViewIsCurrent says of each device, before and after a step.
LEMMA ViewPoints ==
  ASSUME TypeOK
  PROVE  ViewIsCurrent <=>
           \A b \in fresh : IsActive(b) => \A d \in Device :
             view[b][d] = IF Wants(b, d) THEN StateOf(d) ELSE "unknown"
BY DEF TypeOK, ViewIsCurrent, ListFor

LEMMA ViewPointsNext ==
  ASSUME TypeOK'
  PROVE  ViewIsCurrent' <=>
           \A b \in fresh' : IsActive(b)' => \A d \in Device :
             view'[b][d] = IF Wants(b, d)' THEN StateOf(d)' ELSE "unknown"
BY DEF TypeOK, ViewIsCurrent, ListFor

\* A browser that is active was told of a device it wants; no other view changes.
LEMMA BroadcastTold ==
  ASSUME TypeOK, NEW u, NEW x, Broadcast(u, x), NEW b \in Browser, IsActive(b), NEW d \in Device
  PROVE  view'[b][d] = IF d = u /\ Wants(b, d) THEN x ELSE view[b][d]
BY DEF TypeOK, Broadcast

LEMMA OpenKeepsSInv ==
  ASSUME SInv, NEW c \in Sock, Open(c)
  PROVE  SInv'
<1> USE DEF SInv, Open, socketVars
<1>1. TypeOK'  BY DEF TypeOK, Phase
<1>2. SuspendedIsTimed'  BY DEF SuspendedIsTimed
<1>3. SocketIsBound'  BY DEF SocketIsBound, Bound, TypeOK, Phase
<1>4. DeviceListens'  BY DEF DeviceListens, TypeOK
<1>5. CountIsHonest'  BY DEF CountIsHonest, TypeOK
<1>6. ASSUME NEW b \in Browser, IsActive(b)'  PROVE IsActive(b)
  BY <1>6, SessionAssumption DEF IsActive, SocketIsBound, Bound, TypeOK, User
<1>7. ViewIsCurrent'  BY <1>6 DEF ViewIsCurrent, ListFor, Wants, StateOf, TypeOK
<1> QED  BY <1>1, <1>2, <1>3, <1>4, <1>5, <1>7

LEMMA RejectKeepsSInv ==
  ASSUME SInv, NEW c \in Sock, Reject(c)
  PROVE  SInv'
<1> USE DEF SInv, Reject, socketVars
<1>1. TypeOK'  BY DEF TypeOK, Phase
<1>2. SuspendedIsTimed'  BY DEF SuspendedIsTimed
<1>3. SocketIsBound'  BY DEF SocketIsBound, Bound, TypeOK, Phase
<1>4. DeviceListens'  BY DEF DeviceListens, TypeOK
<1>5. CountIsHonest'  BY DEF CountIsHonest, TypeOK
<1>6. ASSUME NEW b \in Browser, IsActive(b)'  PROVE IsActive(b)
  BY <1>6, SessionAssumption DEF IsActive, TypeOK, User
<1>7. ViewIsCurrent'  BY <1>6 DEF ViewIsCurrent, ListFor, Wants, StateOf, TypeOK
<1> QED  BY <1>1, <1>2, <1>3, <1>4, <1>5, <1>7

LEMMA StartCloseKeepsSInv ==
  ASSUME SInv, NEW c \in Sock, StartClose(c)
  PROVE  SInv'
<1> USE DEF SInv, StartClose, socketVars
<1>1. TypeOK'  BY DEF TypeOK, Phase
<1>2. SuspendedIsTimed'  BY DEF SuspendedIsTimed
<1>3. SocketIsBound'  BY DEF SocketIsBound, Bound
<1>4. DeviceListens'  BY DEF DeviceListens
<1>5. CountIsHonest'  BY DEF CountIsHonest, TypeOK
<1>6. ASSUME NEW b \in Browser, IsActive(b)'  PROVE IsActive(b)
  BY <1>6 DEF IsActive, TypeOK, User
<1>7. ViewIsCurrent'  BY <1>6 DEF ViewIsCurrent, ListFor, Wants, StateOf, TypeOK
<1> QED  BY <1>1, <1>2, <1>3, <1>4, <1>5, <1>7

LEMMA AuthenticatedKeepsSInv ==
  ASSUME SInv, NEW c \in Sock, Authenticated(c)
  PROVE  SInv'
<1> DEFINE u == owner[c]
<1> USE SessionAssumption DEF SInv
<1>1. /\ u \in User /\ c # NoSock /\ phase[c] = "auth"
      /\ u \in Device \/ u \in Browser
  BY DEF Authenticated, TypeOK, User
<1>2. /\ sess' = [sess EXCEPT ![u] = [state |-> "ONLINE", socket |-> c,
                    timer |-> sess[u].state = "ONLINE" /\ ~ IsActive(u) /\ sess[u].timer,
                    product |-> ProductFor(c)]]
      /\ sess[u].state = "ONLINE" => ~ sess[u].timer
      /\ sess[u] \in [state : {"NONE", "ONLINE", "SUSPEND"},
                      socket : Sock \cup {NoSock}, timer : BOOLEAN,
                      product : Product \cup {AnyProduct}]
  BY <1>1 DEF Authenticated, Establish, SuspendedIsTimed, TypeOK
<1>3. sess' = [sess EXCEPT ![u] = [state |-> "ONLINE", socket |-> c, timer |-> FALSE,
                                      product |-> ProductFor(c)]]
      /\ ProductFor(c) \in Product \cup {AnyProduct}
  BY <1>2 DEF ProductFor, TypeOK
<1>4. /\ phase' = [phase EXCEPT ![c] = IF u \in Browser /\ ~ IsResume(c) /\ AsksForOwn(c)
                                        THEN "snapshot" ELSE "ready"]
      /\ Broadcast(u, "ONLINE")
      /\ fresh' = fresh \ {u}
      /\ UNCHANGED <<owner, asks, alive, missed, pinged, unanswered>>
      /\ net' = [x \in Sock |-> IF x = sess[u].socket /\ net[x] = "open" THEN "closing" ELSE net[x]]
  BY DEF Authenticated, socketVars
<1>5. TypeOK'
  <2>1. view' \in [Browser -> [Device -> {"unknown", "ONLINE", "SUSPEND", "OFFLINE"}]]
    BY <1>4, BroadcastType
  <2>2. phase' \in [Sock -> Phase]  BY <1>4 DEF TypeOK, Phase
  <2>3. net' \in [Sock -> {"unused", "open", "closing", "closed"}]  BY <1>4 DEF TypeOK
  <2>4. sess' \in [User -> [state : {"NONE", "ONLINE", "SUSPEND"},
                            socket : Sock \cup {NoSock}, timer : BOOLEAN,
                            product : Product \cup {AnyProduct}]]
    BY <1>1, <1>3 DEF TypeOK
  <2> QED  BY <1>4, <2>1, <2>2, <2>3, <2>4 DEF TypeOK
<1>6. SuspendedIsTimed'  BY <1>1, <1>3 DEF SuspendedIsTimed, TypeOK
<1>7. SocketIsBound'  BY <1>1, <1>3, <1>4 DEF SocketIsBound, Bound, TypeOK, Phase
<1>8. DeviceListens'  BY <1>1, <1>4 DEF DeviceListens, TypeOK
<1>9. CountIsHonest'  BY <1>1, <1>4 DEF CountIsHonest, TypeOK
<1>10. ViewIsCurrent'
  <2> SUFFICES ASSUME NEW b \in fresh', IsActive(b)', NEW d \in Device
               PROVE  view'[b][d] = IF Wants(b, d)' THEN StateOf(d)' ELSE "unknown"
    BY <1>5, ViewPointsNext
  <2>1. b \in fresh /\ b # u /\ b \in Browser  BY <1>4 DEF TypeOK
  <2>2. sess'[b] = sess[b]  BY <1>3, <2>1 DEF TypeOK, User
  <2>3. IsActive(b)  BY <1>4, <2>1, <2>2 DEF IsActive, TypeOK, User
  <2>4. view[b][d] = IF Wants(b, d) THEN StateOf(d) ELSE "unknown"
    BY <2>1, <2>3, ViewPoints
  <2>5. view'[b][d] = IF d = u /\ Wants(b, d) THEN "ONLINE" ELSE view[b][d]
    BY <1>4, <2>1, <2>3, BroadcastTold
  <2>6. StateOf(d)' = IF d = u THEN "ONLINE" ELSE StateOf(d)
    BY <1>1, <1>3 DEF StateOf, TypeOK, User
  <2>7. Wants(b, d)' = Wants(b, d)  BY <2>2 DEF Wants
  <2> QED  BY <2>4, <2>5, <2>6, <2>7
<1> QED  BY <1>5, <1>6, <1>7, <1>8, <1>9, <1>10

LEMMA SnapshotKeepsSInv ==
  ASSUME SInv, NEW c \in Sock, Snapshot(c)
  PROVE  SInv'
<1> DEFINE b == owner[c]
<1> USE SessionAssumption DEF SInv
<1>1. /\ phase[c] = "snapshot"
      /\ phase' = [phase EXCEPT ![c] = "ready"]
      /\ UNCHANGED <<owner, asks, alive, missed, pinged, unanswered, net, sess>>
  BY DEF Snapshot, socketVars
<1>2. b \in Browser  BY <1>1 DEF DeviceListens, TypeOK, User
<1>3. TypeOK'
  <2>1. \A d \in Device : StateOf(d) \in {"ONLINE", "SUSPEND", "OFFLINE"}
    BY DEF TypeOK, StateOf, User
  <2>2. /\ view' \in [Browser -> [Device -> {"unknown", "ONLINE", "SUSPEND", "OFFLINE"}]]
        /\ fresh' \subseteq Browser
    BY <1>2, <2>1 DEF TypeOK, Snapshot, ListFor
  <2> QED  BY <1>1, <2>2 DEF TypeOK, Phase
<1>4. SuspendedIsTimed'  BY <1>1 DEF SuspendedIsTimed
<1>5. SocketIsBound'  BY <1>1 DEF SocketIsBound, Bound, TypeOK, Phase
<1>6. DeviceListens'  BY <1>1 DEF DeviceListens, TypeOK
<1>7. CountIsHonest'  BY <1>1 DEF CountIsHonest, TypeOK
<1>8. ViewIsCurrent'
  <2>1. \A e \in Browser : IsActive(e)' <=> IsActive(e)  BY <1>1 DEF IsActive
  <2>2. \A e \in Browser : ListFor(e)' = ListFor(e)  BY <1>1 DEF ListFor, Wants, StateOf
  <2>3. CASE view' = [view EXCEPT ![b] = ListFor(b)] /\ fresh' = fresh \cup {b}
    BY <1>2, <2>1, <2>2, <2>3 DEF ViewIsCurrent, TypeOK
  <2>4. CASE view' = [view EXCEPT ![b] = [d \in Device |-> "unknown"]] /\ fresh' = fresh \ {b}
    BY <1>2, <2>1, <2>2, <2>4 DEF ViewIsCurrent, TypeOK
  <2>5. CASE UNCHANGED <<view, fresh>>
    BY <2>1, <2>2, <2>5 DEF ViewIsCurrent, TypeOK
  <2> QED  BY <2>3, <2>4, <2>5 DEF Snapshot
<1> QED  BY <1>3, <1>4, <1>5, <1>6, <1>7, <1>8

LEMMA ClosedKeepsSInv ==
  ASSUME SInv, NEW c \in Sock, Closed(c)
  PROVE  SInv'
<1> DEFINE u == owner[c]
<1> USE SessionAssumption DEF SInv, Suspended
<1>1. /\ net[c] = "closing" /\ net' = [net EXCEPT ![c] = "closed"]
      /\ UNCHANGED <<owner, asks, alive, missed, pinged, unanswered, phase, fresh>>
      /\ u \in User /\ c # NoSock
  BY DEF Closed, socketVars, TypeOK
<1>2. CASE Bound(c) /\ sess[u].socket = c
  <2>1. /\ sess' = [sess EXCEPT ![u] = Suspended(u)]
        /\ Broadcast(u, "SUSPEND")
    BY <1>2 DEF Closed, HandleDisconnect
  <2>2. TypeOK'
    <3>1. view' \in [Browser -> [Device -> {"unknown", "ONLINE", "SUSPEND", "OFFLINE"}]]
      BY <2>1, BroadcastType
    <3>2. net' \in [Sock -> {"unused", "open", "closing", "closed"}]  BY <1>1 DEF TypeOK
    <3>3. sess' \in [User -> [state : {"NONE", "ONLINE", "SUSPEND"},
                              socket : Sock \cup {NoSock}, timer : BOOLEAN,
                              product : Product \cup {AnyProduct}]]
      BY <1>1, <2>1 DEF TypeOK
    <3> QED  BY <1>1, <3>1, <3>2, <3>3 DEF TypeOK
  <2>3. SuspendedIsTimed'  BY <1>1, <2>1 DEF SuspendedIsTimed, TypeOK
  <2>4. SocketIsBound'  BY <1>1, <2>1 DEF SocketIsBound, Bound, TypeOK
  <2>5. DeviceListens'  BY <1>1 DEF DeviceListens
  <2>6. CountIsHonest'  BY <1>1 DEF CountIsHonest, TypeOK
  <2>7. ViewIsCurrent'
    <3> SUFFICES ASSUME NEW b \in fresh', IsActive(b)', NEW d \in Device
                 PROVE  view'[b][d] = IF Wants(b, d)' THEN StateOf(d)' ELSE "unknown"
      BY <2>2, ViewPointsNext
    <3>1. b \in fresh /\ b \in Browser  BY <1>1 DEF TypeOK
    <3>2. b # u  BY <1>1, <2>1 DEF IsActive, TypeOK
    <3>3. IsActive(b)  BY <1>1, <2>1, <3>1, <3>2 DEF IsActive, TypeOK, User
    <3>4. view[b][d] = IF Wants(b, d) THEN StateOf(d) ELSE "unknown"
      BY <3>1, <3>3, ViewPoints
    <3>5. view'[b][d] = IF d = u /\ Wants(b, d) THEN "SUSPEND" ELSE view[b][d]
      BY <2>1, <3>1, <3>3, BroadcastTold
    <3>6. StateOf(d)' = IF d = u THEN "SUSPEND" ELSE StateOf(d)
      BY <1>1, <2>1 DEF StateOf, TypeOK, User
    <3>7. Wants(b, d)' = Wants(b, d)  BY <2>1, <3>1, <3>2 DEF Wants, TypeOK, User
    <3> QED  BY <3>4, <3>5, <3>6, <3>7
  <2> QED  BY <2>2, <2>3, <2>4, <2>5, <2>6, <2>7
<1>3. CASE ~ (Bound(c) /\ sess[u].socket = c)
  <2>1. UNCHANGED <<sess, view>>  BY <1>3 DEF Closed, HandleDisconnect
  <2>2. TypeOK'  BY <1>1, <2>1 DEF TypeOK
  <2>3. SuspendedIsTimed'  BY <2>1 DEF SuspendedIsTimed
  <2>4. SocketIsBound'  BY <1>1, <2>1 DEF SocketIsBound, Bound
  <2>5. DeviceListens'  BY <1>1 DEF DeviceListens
  <2>6. CountIsHonest'  BY <1>1 DEF CountIsHonest, TypeOK
  <2>7. \A b \in Browser : IsActive(b)' => IsActive(b)
    BY <1>1, <2>1 DEF IsActive, TypeOK, User
  <2>8. ViewIsCurrent'  BY <1>1, <2>1, <2>7 DEF ViewIsCurrent, ListFor, Wants, StateOf, TypeOK
  <2> QED  BY <2>2, <2>3, <2>4, <2>5, <2>6, <2>8
<1> QED  BY <1>2, <1>3

LEMMA SuspendTimeoutKeepsSInv ==
  ASSUME SInv, NEW u \in User, SuspendTimeout(u)
  PROVE  SInv'
<1> USE SessionAssumption DEF SInv
<1>1. /\ sess[u].timer /\ sess[u].state = "SUSPEND" /\ sess[u].socket = NoSock
      /\ sess' = [sess EXCEPT ![u] = [state |-> "NONE", socket |-> NoSock, timer |-> FALSE,
                                      product |-> AnyProduct]]
      /\ phase' = [c \in Sock |-> IF owner[c] = u /\ phase[c] = "snapshot"
                                  THEN "ready" ELSE phase[c]]
      /\ Broadcast(u, "OFFLINE")
      /\ UNCHANGED <<owner, asks, alive, missed, pinged, unanswered, net, fresh>>
  BY DEF SuspendTimeout, SuspendedIsTimed, socketVars, NoSession, TypeOK
<1>2. TypeOK'
  <2>1. view' \in [Browser -> [Device -> {"unknown", "ONLINE", "SUSPEND", "OFFLINE"}]]
    BY <1>1, BroadcastType
  <2>2. sess' \in [User -> [state : {"NONE", "ONLINE", "SUSPEND"},
                            socket : Sock \cup {NoSock}, timer : BOOLEAN,
                            product : Product \cup {AnyProduct}]]
    BY <1>1 DEF TypeOK
  <2>3. phase' \in [Sock -> Phase]  BY <1>1 DEF TypeOK, Phase
  <2> QED  BY <1>1, <2>1, <2>2, <2>3 DEF TypeOK
<1>3. SuspendedIsTimed'  BY <1>1 DEF SuspendedIsTimed, TypeOK
<1>4. SocketIsBound'  BY <1>1 DEF SocketIsBound, Bound, TypeOK, Phase
<1>5. DeviceListens'  BY <1>1 DEF DeviceListens, TypeOK
<1>6. CountIsHonest'  BY <1>1 DEF CountIsHonest, TypeOK
<1>7. ViewIsCurrent'
  <2> SUFFICES ASSUME NEW b \in fresh', IsActive(b)', NEW d \in Device
               PROVE  view'[b][d] = IF Wants(b, d)' THEN StateOf(d)' ELSE "unknown"
    BY <1>2, ViewPointsNext
  <2>1. b \in fresh /\ b \in Browser  BY <1>1 DEF TypeOK
  <2>2. IsActive(b)  BY <1>1, <2>1 DEF IsActive, TypeOK, User
  <2>3. view[b][d] = IF Wants(b, d) THEN StateOf(d) ELSE "unknown"
    BY <2>1, <2>2, ViewPoints
  <2>4. view'[b][d] = IF d = u /\ Wants(b, d) THEN "OFFLINE" ELSE view[b][d]
    BY <1>1, <2>1, <2>2, BroadcastTold
  <2>5. StateOf(d)' = IF d = u THEN "OFFLINE" ELSE StateOf(d)
    BY <1>1 DEF StateOf, TypeOK, User
  <2>6. Wants(b, d)' = Wants(b, d)
    BY <1>1, <2>1, SessionAssumption DEF Wants, IsActive, TypeOK, User
  <2> QED  BY <2>3, <2>4, <2>5, <2>6
<1> QED  BY <1>2, <1>3, <1>4, <1>5, <1>6, <1>7

LEMMA HeartbeatTickKeepsSInv ==
  ASSUME SInv, HeartbeatTick
  PROVE  SInv'
<1> USE SessionAssumption DEF SInv
<1>1. UNCHANGED <<owner, asks, phase, sess, view, fresh>>  BY DEF HeartbeatTick
<1>2. TypeOK'
  <2>1. /\ missed' \in [Sock -> Nat] /\ unanswered' \in [Sock -> Nat]
    BY DEF HeartbeatTick, TypeOK
  <2>2. alive' \in [Sock -> BOOLEAN] /\ pinged' \in [Sock -> BOOLEAN]
    BY DEF HeartbeatTick, TypeOK
  <2>3. net' \in [Sock -> {"unused", "open", "closing", "closed"}]
    BY DEF HeartbeatTick, TypeOK
  <2> QED  BY <1>1, <2>1, <2>2, <2>3 DEF TypeOK
<1>3. SuspendedIsTimed'  BY <1>1 DEF SuspendedIsTimed
<1>4. SocketIsBound'  BY <1>1 DEF SocketIsBound, Bound
<1>5. DeviceListens'
  <2> SUFFICES ASSUME NEW c \in Sock, owner[c] \in Device, pinged'[c]
               PROVE  phase[c] = "ready"
    BY <1>1 DEF DeviceListens
  <2>1. CASE pinged[c]  BY <2>1 DEF DeviceListens
  <2>2. CASE ~ pinged[c]
    <3>1. c \in Beaten  BY <2>2 DEF HeartbeatTick
    <3>2. Bound(c)  BY <3>1 DEF Beaten, SocketIsBound
    <3> QED  BY <3>2 DEF Bound, DeviceListens
  <2> QED  BY <2>1, <2>2
<1>6. CountIsHonest'
  <2> SUFFICES ASSUME NEW c \in Sock, owner[c] \in Device
               PROVE  /\ missed'[c] <= unanswered'[c] + 1
                      /\ (phase[c] = "unused" \/ net'[c] = "open") /\ ~ alive'[c] /\ ~ pinged'[c]
                           => missed'[c] = 0
    BY <1>1 DEF CountIsHonest
  <2>1. /\ missed[c] \in Nat /\ unanswered[c] \in Nat
        /\ missed[c] <= unanswered[c] + 1
        /\ (phase[c] = "unused" \/ net[c] = "open") /\ ~ alive[c] /\ ~ pinged[c] => missed[c] = 0
    BY DEF TypeOK, CountIsHonest
  <2>2. CASE c \notin Beaten
    <3>1. /\ missed'[c] = missed[c] /\ unanswered'[c] = unanswered[c] /\ net'[c] = net[c]
          /\ ~ pinged'[c] => ~ pinged[c]
          /\ ~ alive'[c] => ~ alive[c]
      BY <2>2 DEF HeartbeatTick
    <3> QED  BY <2>1, <3>1
  <2>3. CASE c \in Beaten
    <3>1. net[c] = "open" /\ phase[c] # "unused"
      BY <2>3 DEF Beaten, Bound, SocketIsBound
    <3>2. GivesUp(c) => net'[c] = "closing"
      BY <2>3 DEF HeartbeatTick
    <3>3. ~ GivesUp(c) => pinged'[c]
      BY <2>3 DEF HeartbeatTick
    <3>4. missed'[c] <= unanswered'[c] + 1
      <4>1. CASE alive[c] /\ pinged[c]
        BY <4>1, <2>1, <2>3 DEF HeartbeatTick
      <4>2. CASE alive[c] /\ ~ pinged[c]
        BY <4>2, <2>1, <2>3 DEF HeartbeatTick
      <4>3. CASE ~ alive[c] /\ pinged[c]
        BY <4>3, <2>1, <2>3 DEF HeartbeatTick
      <4>4. CASE ~ alive[c] /\ ~ pinged[c]
        BY <4>4, <2>1, <2>3, <3>1 DEF HeartbeatTick
      <4> QED  BY <4>1, <4>2, <4>3, <4>4
    <3> QED  BY <3>1, <3>2, <3>3, <3>4
  <2> QED  BY <2>2, <2>3
<1>7. \A b \in Browser : IsActive(b)' => IsActive(b)
  BY <1>1 DEF HeartbeatTick, IsActive, TypeOK, User
<1>8. ViewIsCurrent'  BY <1>1, <1>7 DEF ViewIsCurrent, ListFor, Wants, StateOf, TypeOK
<1> QED  BY <1>2, <1>3, <1>4, <1>5, <1>6, <1>8

LEMMA PongKeepsSInv ==
  ASSUME SInv, NEW c \in Sock, Pong(c)
  PROVE  SInv'
<1> USE SessionAssumption DEF SInv
<1>1. /\ pinged[c]
      /\ pinged' = [pinged EXCEPT ![c] = FALSE]
      /\ unanswered' = [unanswered EXCEPT ![c] = 0]
      /\ UNCHANGED <<owner, asks, net, phase, sess, view, fresh>>
      /\ IF phase[c] = "ready"
         THEN alive' = [alive EXCEPT ![c] = TRUE] /\ missed' = [missed EXCEPT ![c] = 0]
         ELSE UNCHANGED <<alive, missed>>
  BY DEF Pong, HandlePong
<1>2. TypeOK'
  <2>1. alive' \in [Sock -> BOOLEAN] /\ missed' \in [Sock -> Nat]
    <3>1. CASE phase[c] = "ready"
      <4>1. missed' = [missed EXCEPT ![c] = 0]  BY <1>1, <3>1
      <4>2. alive' = [alive EXCEPT ![c] = TRUE]  BY <1>1, <3>1
      <4> QED  BY <4>1, <4>2 DEF TypeOK
    <3>2. CASE phase[c] # "ready"  BY <1>1, <3>2 DEF TypeOK
    <3> QED  BY <3>1, <3>2
  <2>2. pinged' \in [Sock -> BOOLEAN] /\ unanswered' \in [Sock -> Nat]
    BY <1>1 DEF TypeOK
  <2> QED  BY <1>1, <2>1, <2>2 DEF TypeOK
<1>3. SuspendedIsTimed'  BY <1>1 DEF SuspendedIsTimed
<1>4. SocketIsBound'  BY <1>1 DEF SocketIsBound, Bound
<1>5. DeviceListens'  BY <1>1 DEF DeviceListens, TypeOK
<1>6. CountIsHonest'
  <2> SUFFICES ASSUME NEW d \in Sock, owner[d] \in Device
               PROVE  /\ missed'[d] <= unanswered'[d] + 1
                      /\ (phase[d] = "unused" \/ net[d] = "open") /\ ~ alive'[d] /\ ~ pinged'[d]
                           => missed'[d] = 0
    BY <1>1 DEF CountIsHonest
  <2>1. CASE d = c  BY <1>1, <2>1 DEF DeviceListens, TypeOK
  <2>2. CASE d # c  BY <1>1, <2>2 DEF CountIsHonest, TypeOK
  <2> QED  BY <2>1, <2>2
<1>7. ViewIsCurrent'  BY <1>1 DEF ViewIsCurrent, ListFor, Wants, StateOf, IsActive
<1> QED  BY <1>2, <1>3, <1>4, <1>5, <1>6, <1>7

LEMMA SInvStep == SInv /\ [Next]_vars => SInv'
<1> SUFFICES ASSUME SInv, [Next]_vars PROVE SInv'  OBVIOUS
<1>1. ASSUME NEW c \in Sock, Open(c) PROVE SInv'  BY <1>1, OpenKeepsSInv
<1>2. ASSUME NEW c \in Sock, Reject(c) PROVE SInv'  BY <1>2, RejectKeepsSInv
<1>3. ASSUME NEW c \in Sock, Authenticated(c) PROVE SInv'  BY <1>3, AuthenticatedKeepsSInv
<1>4. ASSUME NEW c \in Sock, Snapshot(c) PROVE SInv'  BY <1>4, SnapshotKeepsSInv
<1>5. ASSUME NEW c \in Sock, StartClose(c) PROVE SInv'  BY <1>5, StartCloseKeepsSInv
<1>6. ASSUME NEW c \in Sock, Closed(c) PROVE SInv'  BY <1>6, ClosedKeepsSInv
<1>7. ASSUME NEW c \in Sock, Pong(c) PROVE SInv'  BY <1>7, PongKeepsSInv
<1>8. ASSUME NEW u \in User, SuspendTimeout(u) PROVE SInv'  BY <1>8, SuspendTimeoutKeepsSInv
<1>9. CASE HeartbeatTick  BY <1>9, HeartbeatTickKeepsSInv
<1>10. CASE UNCHANGED vars
  BY <1>10 DEF vars, SInv, TypeOK, SuspendedIsTimed, SocketIsBound, DeviceListens,
               CountIsHonest, ViewIsCurrent, Bound, IsActive, ListFor, Wants, StateOf
<1> QED  BY <1>1, <1>2, <1>3, <1>4, <1>5, <1>6, <1>7, <1>8, <1>9, <1>10 DEF Next

LEMMA SInvInvariant == Spec => []SInv
BY SInvInit, SInvStep, PTL DEF Spec

-----------------------------------------------------------------------------
(* The theorems.                                                           *)

\* The registry, the sockets and the heartbeat's counters keep their types.
THEOREM TypeCorrect == Spec => []TypeOK
BY SInvInvariant, PTL DEF SInv

\* BaseLifecycle: a session without a socket has a running suspend timer, and a
\* resumed or replaced session has none.
THEOREM SuspensionTimed == Spec => []SuspendedIsTimed
BY SInvInvariant, PTL DEF SInv

\* The snapshot and the broadcasts of the device lifecycle agree: a browser with
\* a snapshot knows the registry's state of every device.
THEOREM ViewsCurrent == Spec => []ViewIsCurrent
BY SInvInvariant, PTL DEF SInv

\* handleDisconnect(): only the close of its own socket suspends a session.
LEMMA OwnSocketStep ==
  ASSUME SInv, Next, NEW u \in User, sess[u].state = "ONLINE", sess'[u].state = "SUSPEND"
  PROVE  net[sess[u].socket] # "closed" /\ net'[sess[u].socket] = "closed"
<1> USE DEF SInv, TypeOK
<1>1. ASSUME NEW c \in Sock, Open(c) \/ Reject(c) \/ Snapshot(c) \/ StartClose(c) \/ Pong(c)
      PROVE FALSE
  BY <1>1 DEF Open, Reject, Snapshot, StartClose, Pong
<1>2. ASSUME NEW c \in Sock, Authenticated(c) PROVE FALSE
  BY <1>2 DEF Authenticated, Establish
<1>3. ASSUME NEW c \in Sock, Closed(c)
      PROVE  net[sess[u].socket] # "closed" /\ net'[sess[u].socket] = "closed"
  BY <1>3 DEF Closed, HandleDisconnect
<1>4. ASSUME NEW v \in User, SuspendTimeout(v) PROVE FALSE
  BY <1>4 DEF SuspendTimeout, NoSession
<1>5. CASE HeartbeatTick  BY <1>5 DEF HeartbeatTick
<1> QED  BY <1>1, <1>2, <1>3, <1>4, <1>5 DEF Next

\* handleDisconnect(): the late close of a replaced socket suspends nobody.
THEOREM OwnSocketSuspends == Spec => OnlyOwnSocketSuspends
<1>1. SInv /\ [Next]_vars =>
        [\A u \in User : sess[u].state = "ONLINE" /\ sess'[u].state = "SUSPEND" =>
           net[sess[u].socket] # "closed" /\ net'[sess[u].socket] = "closed"]_vars
  BY OwnSocketStep
<1> QED  BY <1>1, SInvInvariant, PTL DEF Spec, OnlyOwnSocketSuspends

\* The heartbeat cuts a device only after MaxMissed - 1 pings in a row that it
\* really left unanswered.
LEMMA PatientStep ==
  ASSUME SInv, SInv', Next, NEW c \in Sock, net[c] = "open", net'[c] = "closing",
         missed' # missed, owner[c] \in Device
  PROVE  unanswered'[c] >= MaxMissed - 1
<1>1. ASSUME NEW x \in Sock,
             Open(x) \/ Reject(x) \/ Authenticated(x) \/ Snapshot(x) \/ StartClose(x) \/ Closed(x)
      PROVE  FALSE
  BY <1>1 DEF Open, Reject, Authenticated, Snapshot, StartClose, Closed, socketVars
<1>2. ASSUME NEW x \in Sock, Pong(x) PROVE FALSE
  BY <1>2 DEF Pong
<1>3. ASSUME NEW v \in User, SuspendTimeout(v) PROVE FALSE
  BY <1>3 DEF SuspendTimeout, socketVars
<1>4. CASE HeartbeatTick
  <2>1. c \in Beaten /\ GivesUp(c)
    BY <1>4 DEF HeartbeatTick
  <2>2. missed'[c] = missed[c] + 1 /\ missed[c] + 1 >= MaxMissed
    BY <1>4, <2>1 DEF HeartbeatTick, GivesUp
  <2>3. missed'[c] <= unanswered'[c] + 1
    BY <1>4 DEF SInv, CountIsHonest, HeartbeatTick
  <2>4. missed'[c] \in Nat /\ unanswered'[c] \in Nat /\ MaxMissed \in Nat
    BY SessionAssumption DEF SInv, TypeOK
  <2> QED  BY <2>2, <2>3, <2>4
<1> QED  BY <1>1, <1>2, <1>3, <1>4 DEF Next

\* The heartbeat is patient with every device, for every number of missed pongs.
THEOREM PatientHeartbeat == Spec => HeartbeatIsPatient
<1>1. SInv /\ SInv' /\ [Next]_vars =>
        [\A c \in Sock : net[c] = "open" /\ net'[c] = "closing" /\ missed' # missed
           /\ owner[c] \in Device => unanswered'[c] >= MaxMissed - 1]_vars
  BY PatientStep
<1> QED  BY <1>1, SInvInvariant, PTL DEF Spec, HeartbeatIsPatient

\* A socket nobody opened is in no phase.  A dead peer is never taken for alive, and
\* is not open any more when the limit is reached.
DeadIsMissed ==
  /\ \A c \in Sock : phase[c] = "unused" => net[c] = "unused"
  /\ \A c \in Dead \cap Sock :
       /\ ~ alive[c]
       /\ net[c] = "unused" => missed[c] = 0
       /\ net[c] = "open" => missed[c] < MaxMissed

\* The variant of DeadPeerIsRemoved: a round brings a dead socket one step closer to
\* the limit or closes it, and no other step takes it back.
CountsDown(c) ==
  /\ missed'[c] >= missed[c]
  /\ HeartbeatTick /\ c \in Beaten =>
       net'[c] = "closing" \/ (net'[c] = "open" /\ missed'[c] = missed[c] + 1)

LEMMA DeadStep ==
  ASSUME SInv, DeadIsMissed, [Next]_vars
  PROVE  DeadIsMissed' /\ \A c \in Dead \cap Sock : CountsDown(c)
<1>1. /\ net \in [Sock -> {"unused", "open", "closing", "closed"}]
      /\ alive \in [Sock -> BOOLEAN] /\ missed \in [Sock -> Nat] /\ MaxMissed \in Nat \ {0}
      /\ phase \in [Sock -> Phase]
  BY SessionAssumption DEF SInv, TypeOK
<1>2. CASE HeartbeatTick
  <2>0. \A c \in Sock : phase'[c] = "unused" => net'[c] = "unused"
    BY <1>1, <1>2 DEF HeartbeatTick, Beaten, DeadIsMissed
  <2> SUFFICES ASSUME NEW c \in Dead \cap Sock
               PROVE  /\ ~ alive'[c]
                      /\ net'[c] = "unused" => missed'[c] = 0
                      /\ net'[c] = "open" => missed'[c] < MaxMissed
                      /\ CountsDown(c)
    BY <2>0 DEF DeadIsMissed
  <2>1. /\ ~ alive[c]
        /\ net[c] = "unused" => missed[c] = 0
        /\ net[c] = "open" => missed[c] < MaxMissed
    BY DEF DeadIsMissed
  <2>2. /\ missed'[c] = IF c \in Beaten THEN missed[c] + 1 ELSE missed[c]
        /\ ~ alive'[c]
        /\ net'[c] = IF c \in Beaten /\ missed[c] + 1 >= MaxMissed THEN "closing" ELSE net[c]
    BY <1>2, <2>1 DEF HeartbeatTick, GivesUp
  <2>3. c \in Beaten => net[c] = "open"  BY DEF Beaten
  <2> QED  BY <1>1, <2>1, <2>2, <2>3 DEF CountsDown
<1>3. CASE /\ ~ HeartbeatTick
           /\ \A c \in Dead \cap Sock : alive'[c] = alive[c] /\ missed'[c] = missed[c]
           /\ \A c \in Sock : /\ net'[c] = "open" => net[c] \in {"open", "unused"}
                              /\ net'[c] = "unused" => net[c] = "unused"
                              /\ phase'[c] = "unused" => phase[c] = "unused" /\ net'[c] = net[c]
  <2>1. \A c \in Dead \cap Sock : CountsDown(c)  BY <1>1, <1>3 DEF CountsDown
  <2>2. \A c \in Sock : phase'[c] = "unused" => net'[c] = "unused"
    BY <1>3 DEF DeadIsMissed
  <2>3. \A c \in Dead \cap Sock :
          /\ ~ alive'[c]
          /\ net'[c] = "unused" => missed'[c] = 0
          /\ net'[c] = "open" => missed'[c] < MaxMissed
    BY <1>1, <1>3 DEF DeadIsMissed
  <2> QED  BY <2>1, <2>2, <2>3 DEF DeadIsMissed
<1>4. ASSUME NEW x \in Sock, Pong(x)
      PROVE  /\ \A c \in Dead \cap Sock : alive'[c] = alive[c] /\ missed'[c] = missed[c]
             /\ net' = net /\ phase' = phase
  BY <1>1, <1>4 DEF Pong, HandlePong
<1>5. ASSUME NEW x \in Sock,
             Open(x) \/ Reject(x) \/ Authenticated(x) \/ Snapshot(x) \/ StartClose(x) \/ Closed(x)
      PROVE  /\ alive' = alive /\ missed' = missed
             /\ \A c \in Sock : /\ net'[c] = "open" => net[c] \in {"open", "unused"}
                                /\ net'[c] = "unused" => net[c] = "unused"
                                /\ phase'[c] = "unused" => phase[c] = "unused" /\ net'[c] = net[c]
  <2>1. CASE Open(x)  BY <1>1, <2>1 DEF Open, socketVars, DeadIsMissed
  <2>2. CASE Reject(x)  BY <1>1, <2>2 DEF Reject, socketVars, DeadIsMissed
  <2>3. CASE Authenticated(x)
    <3>1. \A c \in Sock : net[c] = "open" => phase[c] # "unused"  BY DEF DeadIsMissed
    <3> QED  BY <1>1, <2>3, <3>1 DEF Authenticated, socketVars
  <2>4. CASE Snapshot(x)  BY <1>1, <2>4 DEF Snapshot, socketVars
  <2>5. CASE StartClose(x)  BY <1>1, <2>5 DEF StartClose, socketVars, DeadIsMissed
  <2>6. CASE Closed(x)  BY <1>1, <2>6 DEF Closed, socketVars, DeadIsMissed
  <2> QED  BY <1>5, <2>1, <2>2, <2>3, <2>4, <2>5, <2>6
<1>6. ASSUME NEW u \in User, SuspendTimeout(u)
      PROVE  /\ UNCHANGED <<alive, missed, net>>
             /\ \A c \in Sock : phase'[c] = "unused" => phase[c] = "unused"
  BY <1>1, <1>6 DEF SuspendTimeout, socketVars
<1>7. CASE UNCHANGED vars  BY <1>2, <1>3, <1>7 DEF vars
<1>8. CASE \E x \in Sock : Pong(x)  BY <1>2, <1>3, <1>4, <1>8
<1>9. CASE \E x \in Sock : Open(x) \/ Reject(x) \/ Authenticated(x) \/ Snapshot(x)
                           \/ StartClose(x) \/ Closed(x)
  BY <1>2, <1>3, <1>5, <1>9
<1>10. CASE \E u \in User : SuspendTimeout(u)  BY <1>2, <1>3, <1>6, <1>10
<1> QED  BY <1>2, <1>7, <1>8, <1>9, <1>10 DEF Next

\* Every round of the heartbeat counts for a peer that is dead: its socket is closed
\* after MaxMissed of them at most.
THEOREM DeadPeersAreCounted ==
  Spec => [](\A c \in Dead \cap Sock : net[c] = "open" => missed[c] < MaxMissed)
          /\ [][\A c \in Dead \cap Sock : CountsDown(c)]_vars
<1>1. Init => DeadIsMissed
  BY SessionAssumption DEF Init, DeadIsMissed
<1>2. SInv /\ DeadIsMissed /\ [Next]_vars => DeadIsMissed' /\ \A c \in Dead \cap Sock : CountsDown(c)
  BY DeadStep
<1>3. DeadIsMissed => \A c \in Dead \cap Sock : net[c] = "open" => missed[c] < MaxMissed
  BY DEF DeadIsMissed
<1> QED  BY <1>1, <1>2, <1>3, SInvInvariant, PTL DEF Spec

-----------------------------------------------------------------------------
(* The promise of module Presence.  In a state of SInv what an observer    *)
(* was told is what the registry says, so a step keeps the promise if it   *)
(* changes the registry as it should and no observer's scope.              *)

\* What the observers believe is what the registry says of their scope.
LEMMA Belief ==
  ASSUME SInv
  PROVE  /\ Watching \subseteq Browser
         /\ \A u \in User : StateOf(u) \in {"ONLINE", "SUSPEND", "OFFLINE"}
         /\ \A b \in Watching : view[b] =
              [d \in Device |-> IF Wants(b, d) THEN StateOf(d) ELSE "unknown"]
BY DEF SInv, TypeOK, Watching, StateOf, ViewIsCurrent, ListFor

LEMMA BeliefNext ==
  ASSUME SInv'
  PROVE  \A b \in Watching' : view'[b] =
           [d \in Device |-> IF Wants(b, d)' THEN StateOf(d)' ELSE "unknown"]
BY DEF SInv, Watching, ViewIsCurrent, ListFor

\* Nobody observes that did not, and nobody's scope is another.
NoNewObserver ==
  /\ Watching' \subseteq Watching
  /\ \A b \in Watching' : sess'[b].product = sess[b].product

LEMMA ChangeIsTold ==
  ASSUME SInv, SInv', NoNewObserver, NEW u \in User, NEW x \in {"ONLINE", "SUSPEND", "OFFLINE"},
         <<StateOf(u), x>> \in Observers!Legal,
         \A v \in User : StateOf(v)' = IF v = u THEN x ELSE StateOf(v)
  PROVE  Observers!Change(u, x)
<1> DEFINE told == [b \in Watching |-> view[b]]
<1>1. [v \in User |-> StateOf(v)]' = [[v \in User |-> StateOf(v)] EXCEPT ![u] = x]
  OBVIOUS
<1>2. ASSUME NEW b \in Watching'
      PROVE  view'[b] = [d \in Device |-> IF d = u /\ view[b][d] # "unknown" THEN x ELSE view[b][d]]
  <2>1. b \in Watching /\ \A d \in Device : Wants(b, d)' = Wants(b, d)
    BY <1>2 DEF NoNewObserver, Wants
  <2>2. view[b] = [d \in Device |-> IF Wants(b, d) THEN StateOf(d) ELSE "unknown"]
    BY <2>1, Belief
  <2>3. view'[b] = [d \in Device |-> IF Wants(b, d)' THEN StateOf(d)' ELSE "unknown"]
    BY <1>2, BeliefNext
  <2>4. \A d \in Device : StateOf(d)' = IF d = u THEN x ELSE StateOf(d)
    BY DEF User
  <2>5. \A d \in Device : StateOf(d) # "unknown"  BY Belief DEF User
  <2>6. \A d \in Device : view[b][d] = IF Wants(b, d) THEN StateOf(d) ELSE "unknown"
    BY <2>2
  <2>7. \A d \in Device : (IF Wants(b, d)' THEN StateOf(d)' ELSE "unknown")
                          = IF d = u /\ view[b][d] # "unknown" THEN x ELSE view[b][d]
    BY <2>1, <2>4, <2>5, <2>6
  <2> QED  BY <2>3, <2>7
<1>3. DOMAIN told = Watching /\ DOMAIN told' = Watching'  OBVIOUS
<1>4. told' = [b \in DOMAIN told' |-> Observers!Learns(b, u, x)]
  <2>1. ASSUME NEW b \in Watching' PROVE Observers!Learns(b, u, x) = view'[b]
    <3>1. told[b] = view[b]  BY DEF NoNewObserver
    <3>2. Observers!Learns(b, u, x) =
            [d \in Device |-> IF d = u /\ told[b][d] # "unknown" THEN x ELSE told[b][d]]
      BY DEF Observers!Learns
    <3> QED  BY <1>2, <3>1, <3>2
  <2> QED  BY <1>3, <2>1
<1>5. <<[v \in User |-> StateOf(v)][u], x>> \in Observers!Legal  OBVIOUS
<1>6. Observers!NoneJoins  BY <1>3 DEF Observers!NoneJoins, NoNewObserver
<1> QED  BY <1>1, <1>4, <1>5, <1>6 DEF Observers!Change

LEMMA LeavingIsSilent ==
  ASSUME SInv, SInv', NoNewObserver, \A v \in User : StateOf(v)' = StateOf(v)
  PROVE  Observers!Leave
<1>1. ASSUME NEW b \in Watching'
      PROVE  view'[b] = view[b]
  <2>1. b \in Watching /\ \A d \in Device : Wants(b, d)' = Wants(b, d)
    BY <1>1 DEF NoNewObserver, Wants
  <2>2. view[b] = [d \in Device |-> IF Wants(b, d) THEN StateOf(d) ELSE "unknown"]
    BY <2>1, Belief
  <2>3. view'[b] = [d \in Device |-> IF Wants(b, d)' THEN StateOf(d)' ELSE "unknown"]
    BY <1>1, BeliefNext
  <2>4. \A d \in Device : StateOf(d)' = StateOf(d)  BY DEF User
  <2> QED  BY <2>1, <2>2, <2>3, <2>4
<1>2. [b \in Watching |-> view[b]]' = [b \in Watching' |-> [o \in Watching |-> view[o]][b]]
  BY <1>1 DEF NoNewObserver
<1> QED  BY <1>2 DEF Observers!Leave, Observers!NoneJoins, NoNewObserver

\* Nothing that happens to sockets alone is told to anybody.
LEMMA SocketsAreSilent ==
  ASSUME SInv, SInv', sess' = sess, fresh' = fresh,
         \A c \in Sock : Bound(c) /\ net'[c] = "open" => net[c] = "open"
  PROVE  Observers!Leave
<1>1. NoNewObserver  BY DEF SInv, TypeOK, User, SocketIsBound, NoNewObserver, Watching, IsActive
<1>2. \A v \in User : StateOf(v)' = StateOf(v)  BY DEF StateOf
<1> QED  BY <1>1, <1>2, LeavingIsSilent

LEMMA AuthenticatedIsTold ==
  ASSUME SInv, SInv', NEW c \in Sock, Authenticated(c), NEW u \in User, u = owner[c]
  PROVE  Observers!Change(u, "ONLINE") \/ Observers!Leave
<1>1. /\ c # NoSock
      /\ sess'[u].state = "ONLINE"
      /\ \A v \in User : v # u => sess'[v] = sess[v]
      /\ fresh' = fresh \ {u}
      /\ \A x \in Sock : net'[x] = "open" => net[x] = "open"
  BY SessionAssumption DEF SInv, TypeOK, Authenticated, Establish
<1>2. NoNewObserver
  BY <1>1, SessionAssumption DEF SInv, TypeOK, User, NoNewObserver, Watching, IsActive
<1>3. StateOf(u)' = "ONLINE" /\ \A v \in User : v # u => StateOf(v)' = StateOf(v)
  BY <1>1 DEF StateOf
<1>4. CASE StateOf(u) = "ONLINE"
  BY <1>2, <1>3, <1>4, LeavingIsSilent
<1>5. CASE StateOf(u) # "ONLINE"
  <2>1. <<StateOf(u), "ONLINE">> \in Observers!Legal
    BY <1>1, <1>5, Belief DEF Observers!Legal
  <2>2. \A v \in User : StateOf(v)' = IF v = u THEN "ONLINE" ELSE StateOf(v)
    BY <1>3
  <2> QED  BY <1>1, <1>2, <2>1, <2>2, ChangeIsTold
<1> QED  BY <1>4, <1>5

LEMMA SnapshotIsTold ==
  ASSUME SInv, SInv', NEW c \in Sock, Snapshot(c), NEW b, b = owner[c]
  PROVE  \/ b \in Browser /\ \E scope \in SUBSET Device : Observers!Observe(b, scope)
         \/ Observers!Leave
<1>1. /\ b \in Browser
      /\ sess' = sess /\ net' = net
  BY DEF SInv, TypeOK, User, DeviceListens, Snapshot
<1>2. \A v \in User : StateOf(v)' = StateOf(v)  BY <1>1 DEF StateOf
<1>3. \A o \in Browser : IsActive(o)' <=> IsActive(o)  BY <1>1 DEF IsActive
<1>4. fresh \subseteq Browser  BY DEF SInv, TypeOK
<1>5. CASE IsActive(b) /\ view' = [view EXCEPT ![b] = ListFor(b)] /\ fresh' = fresh \cup {b}
  <2> DEFINE told == [o \in Watching |-> view[o]]
  <2> PICK scope \in SUBSET Device : scope = {d \in Device : Wants(b, d)}
    OBVIOUS
  <2>1. Watching' = Watching \cup {b}  BY <1>1, <1>3, <1>4, <1>5 DEF Watching
  <2>2. view'[b] = [d \in Device |-> IF d \in scope THEN [v \in User |-> StateOf(v)][d]
                                                    ELSE "unknown"]
    BY <1>1, <1>5 DEF SInv, TypeOK, ListFor, User
  <2>3. \A o \in Watching : o # b => view'[o] = told[o]
    BY <1>5, <1>4 DEF SInv, TypeOK, Watching
  <2>4. told' = [o \in DOMAIN told \cup {b} |-> IF o = b THEN view'[b] ELSE told[o]]
    BY <2>1, <2>3
  <2>5. [v \in User |-> StateOf(v)]' = [v \in User |-> StateOf(v)]  BY <1>2
  <2>6. Observers!Observe(b, scope)
    BY <2>2, <2>4, <2>5 DEF Observers!Observe
  <2> QED  BY <1>1, <2>6
<1>6. CASE fresh' = fresh \ {b} \/ UNCHANGED <<view, fresh>>
  <2>1. NoNewObserver  BY <1>1, <1>3, <1>4, <1>6 DEF NoNewObserver, Watching
  <2> QED  BY <1>2, <2>1, LeavingIsSilent
<1> QED  BY <1>5, <1>6 DEF Snapshot

LEMMA ClosedIsTold ==
  ASSUME SInv, SInv', NEW c \in Sock, Closed(c)
  PROVE  Observers!Change(owner[c], "SUSPEND") \/ Observers!Leave
<1> DEFINE u == owner[c]
<1>1. /\ u \in User /\ c # NoSock
      /\ fresh' = fresh
      /\ \A x \in Sock : net'[x] = "open" => net[x] = "open"
  BY SessionAssumption DEF SInv, TypeOK, Closed
<1>2. CASE Bound(c) /\ sess[u].socket = c
  <2>1. sess' = [sess EXCEPT ![u] = Suspended(u)] /\ sess[u].state = "ONLINE"
    BY <1>1, <1>2 DEF Closed, HandleDisconnect, SInv, SuspendedIsTimed
  <2>2. NoNewObserver
    BY <1>1, <2>1, SessionAssumption
    DEF SInv, TypeOK, User, NoNewObserver, Watching, IsActive, Suspended
  <2>3. <<StateOf(u), "SUSPEND">> \in Observers!Legal
    BY <2>1 DEF StateOf, Observers!Legal
  <2>4. \A v \in User : StateOf(v)' = IF v = u THEN "SUSPEND" ELSE StateOf(v)
    BY <1>1, <2>1 DEF SInv, TypeOK, StateOf, Suspended
  <2> QED  BY <1>1, <2>2, <2>3, <2>4, ChangeIsTold
<1>3. CASE ~ (Bound(c) /\ sess[u].socket = c)
  <2>1. sess' = sess  BY <1>3 DEF Closed, HandleDisconnect
  <2> QED  BY <1>1, <2>1, SocketsAreSilent
<1> QED  BY <1>2, <1>3

LEMMA SuspendTimeoutIsTold ==
  ASSUME SInv, SInv', NEW u \in User, SuspendTimeout(u)
  PROVE  Observers!Change(u, "OFFLINE")
<1>1. /\ sess[u].state = "SUSPEND"
      /\ sess' = [sess EXCEPT ![u] = NoSession]
      /\ fresh' = fresh /\ net' = net
  BY DEF SInv, SuspendedIsTimed, SuspendTimeout
<1>2. NoNewObserver
  BY <1>1, SessionAssumption
  DEF SInv, TypeOK, User, NoNewObserver, Watching, IsActive, NoSession
<1>3. <<StateOf(u), "OFFLINE">> \in Observers!Legal
  BY <1>1 DEF StateOf, Observers!Legal
<1>4. \A v \in User : StateOf(v)' = IF v = u THEN "OFFLINE" ELSE StateOf(v)
  BY <1>1 DEF SInv, TypeOK, StateOf, NoSession
<1> QED  BY <1>2, <1>3, <1>4, ChangeIsTold

LEMMA PresenceStep == SInv /\ SInv' /\ [Next]_vars => [Observers!Next]_(Observers!vars)
<1> SUFFICES ASSUME SInv, SInv', [Next]_vars PROVE Observers!Next
  OBVIOUS
<1>1. Observers!User = User  BY DEF Observers!User, User
<1>2. ASSUME NEW c \in Sock, Open(c) \/ Reject(c) \/ StartClose(c) \/ Pong(c)
      PROVE  Observers!Leave
  <2>1. sess' = sess /\ fresh' = fresh
    BY <1>2 DEF Open, Reject, StartClose, Pong
  <2>2. \A x \in Sock : Bound(x) /\ net'[x] = "open" => net[x] = "open"
    BY <1>2 DEF Open, Reject, StartClose, Pong, Bound, SInv, TypeOK
  <2> QED  BY <2>1, <2>2, SocketsAreSilent
<1>3. ASSUME HeartbeatTick PROVE Observers!Leave
  BY <1>3, SocketsAreSilent DEF HeartbeatTick
<1>4. ASSUME UNCHANGED vars PROVE Observers!Leave
  BY <1>4, SocketsAreSilent DEF vars
<1>5. ASSUME NEW c \in Sock, Authenticated(c) \/ Closed(c)
      PROVE  Observers!Next
  <2>1. owner[c] \in User  BY DEF SInv, TypeOK
  <2> QED  BY <1>1, <1>5, <2>1, AuthenticatedIsTold, ClosedIsTold DEF Observers!Next
<1> QED
  BY <1>1, <1>2, <1>3, <1>4, <1>5, SnapshotIsTold, SuspendTimeoutIsTold DEF Next, Observers!Next

LEMMA PresenceInit == Init => Observers!Init
<1> SUFFICES ASSUME Init PROVE Observers!Init  OBVIOUS
<1>1. Watching = {}  BY DEF Init, Watching
<1>2. [u \in User |-> StateOf(u)] = [u \in Observers!User |-> "OFFLINE"]
  BY DEF Init, StateOf, NoSession, User, Observers!User
<1>3. [b \in Watching |-> view[b]] = Observers!Nobody
  BY <1>1 DEF Observers!Nobody
<1> QED  BY <1>2, <1>3 DEF Observers!Init

\* Sessions, their lifecycles and the snapshot keep the promise of module Presence
\* for any number of users and sockets.
THEOREM PresenceKept == Spec => KeepsPresence
BY PresenceInit, PresenceStep, SInvInvariant, PTL DEF Spec, KeepsPresence, Observers!Spec
=============================================================================
