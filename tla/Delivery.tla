------------------------------ MODULE Delivery ------------------------------
(***************************************************************************)
(* Reliable delivery: the event store of module EventStore driven by the   *)
(* parts of the gateway that use it.                                       *)
(*                                                                         *)
(*   - event handlers publish (BaseWsEventJSON.executeBase, qossing);      *)
(*   - a connecting client is sent what it missed (BaseLifecycle);         *)
(*   - clients acknowledge (EventAcknowledgmentEvent);                     *)
(*   - two intervals and one timeout per event run on their own            *)
(*     (EventRetryService, setupCleanupInterval, the TTL timer).           *)
(*                                                                         *)
(* The gateway is one Node process.  A step of this module is what runs    *)
(* between two returns to the event loop.  A handler returns to it at its  *)
(* database queries: the receivers are computed in one step                *)
(* (BeginPublish) and used in a later one (Publish), and anything may      *)
(* happen to their sockets in between.                                     *)
(***************************************************************************)
EXTENDS EventStore

CONSTANTS
  Route,    \* who may publish to whom: [from, to, allowed]
  Kind,     \* the event handlers: [qos, ttl, notify]
  AckTtl,   \* the TTL of a stored event:delivered notification
  Handler,  \* bound: handlers that may be in flight at the same time
  MaxNow,   \* bound: the last value of the clock
  MaxSends, \* bound: sends of one event after which its user reconnects no more
  MaxCrashes, \* bound: how often the process may die
  Away      \* bound: the users that never connect

\* `to` is the database's answer for the tenant and the product, `allowed` are
\* the users whose whitelist (or blacklist) lets the event through.
ASSUME DeliveryAssumption ==
  /\ Route \subseteq [from : User, to : SUBSET User, allowed : SUBSET User]
  /\ Kind \subseteq [qos : 1 .. 2, ttl : Nat \ {0}, notify : BOOLEAN]
  /\ AckTtl \in Nat \ {0}
  /\ MaxNow \in Nat /\ MaxSends \in Nat /\ MaxCrashes \in Nat

VARIABLES
  store,      \* EventStoreService
  conn,       \* each user's session socket
  inflight,   \* handlers waiting for the database
  nextId,     \* the next event
  now,        \* Date.now()
  crashes,    \* how often the process has died and been restarted
  log,        \* history: what was published, for whom and until when
  seen,       \* history: what each client was sent and has acknowledged
  redundant   \* history: sends to a client that was done with the event

vars == <<store, conn, inflight, nextId, now, crashes, log, seen, redundant>>

\* "open" is readyState OPEN; "closing" is a socket that is bound to the session
\* but no longer OPEN; "none" is a session without a socket, or no session.
ConnState == {"open", "closing", "none"}

\* A handler at its query.  The receivers are session objects: lost are those
\* that have left the registry since.
Request == [handler : Handler, from : User, to : SUBSET User,
            allowed : SUBSET User, receivers : SUBSET User, lost : SUBSET User,
            qos : 1 .. 2, ttl : Nat \ {0}, notify : BOOLEAN]

LogEntry == [to : SUBSET User, qos : 0 .. 2, deadline : Nat]

\* qos 0 marks an event number that is not used yet.
NoEntry == [to |-> {}, qos |-> 0, deadline |-> 0]

TypeOK ==
  /\ store \in Store
  /\ conn \in [User -> ConnState]
  /\ inflight \subseteq Request
  /\ nextId \in 1 .. (NEvents + 1)
  /\ now \in Nat \ {0}
  /\ crashes \in Nat
  /\ log \in [Id -> LogEntry]
  /\ seen \in [Id -> [User -> {"no", "sent", "acked"}]]
  /\ redundant \subseteq Id \X User

Init ==
  /\ store = EmptyStore
  /\ conn = [u \in User |-> "none"]
  /\ inflight = {}
  /\ nextId = 1
  /\ now = 1
  /\ crashes = 0
  /\ log = [e \in Id |-> NoEntry]
  /\ seen = [e \in Id |-> [u \in User |-> "no"]]
  /\ redundant = {}

-----------------------------------------------------------------------------
(* Helpers.                                                                *)

Open == {u \in User : conn[u] = "open"}

\* Client u is done with e: a QoS 1 event once it was sent, a QoS 2 event once
\* its acknowledgement was processed.
Done(e, u) == \/ log[e].qos = 1 /\ seen[e][u] # "no"
              \/ log[e].qos = 2 /\ seen[e][u] = "acked"

\* Client u is sent event e, for every pair <<e, u>> of sent.
Send(sent) ==
  /\ seen' = [e \in Id |-> [u \in User |->
                IF <<e, u>> \in sent /\ seen[e][u] = "no" THEN "sent" ELSE seen[e][u]]]
  /\ redundant' = redundant \cup {p \in sent : Done(p[1], p[2])}

\* Bound: reconnecting sends every pending QoS 2 event once more.
CanConnect(u) == u \notin Away /\ \A e \in Id : store.attempts[e][u] < MaxSends

\* Bound: an event is only created if it also expires before the clock stops.
CanCreate(ttl) == nextId <= NEvents /\ now + ttl < MaxNow

-----------------------------------------------------------------------------
(* Sessions, as far as delivery depends on them (see module Session).      *)

\* Mutant: pending events are sent, the store is not told.
ConnectWithoutMarks(u) ==
  /\ CanConnect(u)
  /\ conn' = [conn EXCEPT ![u] = "open"]
  /\ Send(GetPending(store, u, now) \X {u})
  /\ UNCHANGED <<store, inflight, nextId, now, crashes, log>>

\* deliverPendingEvents() on an open socket of u's session.
DeliverPending(u) ==
  LET pending == GetPending(store, u, now) \X {u}
  IN  /\ Send(pending)
      /\ store' = MarkSent(store, pending, now)
      /\ UNCHANGED <<inflight, nextId, now, crashes, log>>

\* A socket is bound to u's session, a new, a resumed or a replaced one, and
\* onConnect() delivers what is pending without yielding.
Connect(u) ==
  /\ CanConnect(u)
  /\ conn' = [conn EXCEPT ![u] = "open"]
  /\ DeliverPending(u)

\* The socket has closed while it was authenticated and is bound all the same;
\* deliverPendingEvents() stops at the first event.
ConnectTooLate(u) ==
  /\ u \notin Away
  /\ conn' = [conn EXCEPT ![u] = "closing"]
  /\ UNCHANGED <<store, inflight, nextId, now, crashes, log, seen, redundant>>

\* The peer's close frame, or close() from the heartbeat, which may drop several
\* sockets in one go: no longer OPEN.
StartClose(U) ==
  /\ U # {} /\ U \subseteq Open
  /\ conn' = [u \in User |-> IF u \in U THEN "closing" ELSE conn[u]]
  /\ UNCHANGED <<store, inflight, nextId, now, crashes, log, seen, redundant>>

\* The close event: onSuspend() drops the socket from the session.
Disconnect(u) ==
  /\ conn[u] # "none"
  /\ conn' = [conn EXCEPT ![u] = "none"]
  /\ UNCHANGED <<store, inflight, nextId, now, crashes, log, seen, redundant>>

\* The registered session of u goes: handlers that wait keep an object that will
\* never have a socket again.
LoseSession(u) ==
  inflight' = {[q EXCEPT !.lost = @ \cup ({u} \cap q.receivers)] : q \in inflight}

\* The suspend timer unregisters u's session.  (Without a waiting handler that
\* holds it, nothing changes that delivery could tell.)
Removed(u) ==
  /\ conn[u] = "none"
  /\ LoseSession(u)
  /\ inflight' # inflight
  /\ UNCHANGED <<store, conn, nextId, now, crashes, log, seen, redundant>>

-----------------------------------------------------------------------------
(* Publishing.                                                             *)

(***************************************************************************)
(* executeBase() runs, for a message of r.from, up to the query for all    *)
(* target ids: the receivers are the active sessions the whitelist lets    *)
(* through.  It may have awaited other queries and an API before, and      *)
(* r.from may have lost its socket meanwhile; nothing asks for it.         *)
(***************************************************************************)
BeginPublish(h, r, k) ==
  /\ \A q \in inflight : q.handler # h
  /\ CanCreate(k.ttl)
  /\ inflight' = inflight \cup
       {[handler |-> h, from |-> r.from, to |-> r.to, allowed |-> r.allowed,
         receivers |-> r.allowed \cap Open, lost |-> {},
         qos |-> k.qos, ttl |-> k.ttl, notify |-> k.notify]}
  /\ UNCHANGED <<store, conn, nextId, now, crashes, log, seen, redundant>>

\* getAllReceiversIds(): who of the receivers is still active, and who else the
\* database lists.
OnlineIds(q) == (q.receivers \ q.lost) \cap Open
OfflineIds(q) == q.to \ OnlineIds(q)

\* A receiver whose session lost its socket: r.socket!.send throws.  Without a
\* single target a QoS 2 event is not sent at all.
Broken(q) ==
  /\ q.qos = 1 \/ OnlineIds(q) \cup OfflineIds(q) # {}
  /\ \E u \in q.receivers : u \in q.lost \/ conn[u] = "none"

MetaOf(q) == [qos |-> q.qos, expiresAt |-> now + q.ttl,
              notifyTo |-> IF q.qos = 2 /\ q.notify THEN q.from ELSE NoUser]

Record(q) ==
  log' = [log EXCEPT ![nextId] = [to |-> q.to \cup OnlineIds(q), qos |-> q.qos,
                                  deadline |-> now + q.ttl]]

\* qossing(), QoS 1: what is left is stored for the users who are not online.
PublishQos1(q) ==
  store' = IF OfflineIds(q) = {} THEN store
           ELSE Create(store, nextId, OfflineIds(q), MetaOf(q), now)

\* qossing(), QoS 2: stored for everyone, then marked for those it was sent to.
PublishQos2(q) ==
  LET all  == OnlineIds(q) \cup OfflineIds(q)
      sent == {nextId} \X OnlineIds(q)
  IN  store' = IF all = {} THEN store
               ELSE MarkDelivered(Create(store, nextId, all, MetaOf(q), now), sent, now)

\* The query has returned and every receiver still has a socket.
Publish(q) ==
  /\ CanCreate(q.ttl)
  /\ ~ Broken(q)
  /\ \/ q.qos = 1 /\ PublishQos1(q)
     \/ q.qos = 2 /\ PublishQos2(q)
  /\ Send({nextId} \X OnlineIds(q))
  /\ Record(q)
  /\ nextId' = nextId + 1
  /\ inflight' = inflight \ {q}
  /\ UNCHANGED <<conn, now, crashes>>

\* dispatch() does not await qossing(): an error in it is an unhandled
\* rejection, which ends the Node process.  It starts with an empty memory.
Restart ==
  /\ crashes < MaxCrashes
  /\ crashes' = crashes + 1
  /\ store' = EmptyStore
  /\ conn' = [u \in User |-> "none"]
  /\ inflight' = {}

\* The query has failed.
QueryFails(q) ==
  /\ Restart
  /\ UNCHANGED <<nextId, now, log, seen, redundant>>

\* The query has returned and a receiver lost its socket meanwhile: its send
\* throws.  The receivers before it (reached) did get the message.
PublishCrash(q) ==
  /\ CanCreate(q.ttl)
  /\ Broken(q)
  /\ Restart
  /\ \E reached \in SUBSET OnlineIds(q) : Send({nextId} \X reached)
  /\ Record(q)
  /\ nextId' = nextId + 1
  /\ UNCHANGED now

-----------------------------------------------------------------------------
(* Acknowledging.                                                          *)

(***************************************************************************)
(* event:ack of a QoS 2 event that client u was sent, on this or an earlier *)
(* socket.  The sender is told with event:delivered, now if it is active   *)
(* and otherwise through the store.  The handler asks no database, so all  *)
(* of it is one step; an ack that finds no record changes nothing.         *)
(***************************************************************************)
Ack(u, e) ==
  LET applied == MarkApplied(store, {<<e, u>>})
      sender  == store.meta[e].notifyTo
      notifies == sender \notin {NoUser, u}
  IN  /\ conn[u] # "none" /\ seen[e][u] # "no"
      /\ e \in store.events /\ store.meta[e].qos = 2
      /\ \/ /\ ~ (notifies /\ conn[sender] # "open")
            /\ store' = applied
            /\ seen' = [seen EXCEPT ![e][u] = "acked"]
            /\ UNCHANGED <<nextId, log>>
         \/ /\ notifies /\ conn[sender] # "open"
            /\ CanCreate(AckTtl)
            /\ store' = Create(applied, nextId, {sender},
                               [qos |-> 1, expiresAt |-> now + AckTtl, notifyTo |-> NoUser],
                               now)
            /\ seen' = [seen EXCEPT ![e][u] = "acked"]
            /\ log' = [log EXCEPT ![nextId] = [to |-> {sender}, qos |-> 1,
                                               deadline |-> now + AckTtl]]
            /\ nextId' = nextId + 1
      /\ UNCHANGED <<conn, inflight, now, crashes, redundant>>

-----------------------------------------------------------------------------
(* The timers.                                                             *)

\* retryPendingEvents(): every user with a due event and an active session.
RetryTick ==
  \E lucky \in SUBSET {p \in Id \X User :
                         conn[p[2]] = "open" /\ MayRetry(store, p[1], p[2], now)} :
    LET sent == {p \in Id \X User :
                   /\ conn[p[2]] = "open"
                   /\ p[1] \in GetPendingWithRetry(store, p[2], now, lucky)}
    IN  /\ Send(sent)
        /\ store' = MarkSent(store, sent, now)
        /\ UNCHANGED <<conn, inflight, nextId, now, crashes, log>>

\* The TTL timeout of e: it fires at expiresAt or later, and only an event
\* that is expired by then is removed.
ExpiryTimer(e) ==
  /\ e \in store.timers
  /\ now >= store.meta[e].expiresAt
  /\ store' = IF IsExpired(store, e, now)
              THEN RemoveEvents(store, {e}, TRUE)
              ELSE [store EXCEPT !.timers = @ \ {e}]
  /\ UNCHANGED <<conn, inflight, nextId, now, crashes, log, seen, redundant>>

\* setupCleanupInterval().
CleanupTick ==
  /\ store' = Cleanup(store, now)
  /\ UNCHANGED <<conn, inflight, nextId, now, crashes, log, seen, redundant>>

Tick ==
  /\ now < MaxNow
  /\ now' = now + 1
  /\ UNCHANGED <<store, conn, inflight, nextId, crashes, log, seen, redundant>>

Next ==
  \/ \E u \in User : Connect(u) \/ ConnectTooLate(u) \/ Disconnect(u) \/ Removed(u)
  \/ \E U \in SUBSET User : StartClose(U)
  \/ \E h \in Handler, r \in Route, k \in Kind : BeginPublish(h, r, k)
  \/ \E q \in inflight : Publish(q) \/ PublishCrash(q) \/ QueryFails(q)
  \/ \E u \in User, e \in Id : Ack(u, e)
  \/ \E e \in Id : ExpiryTimer(e)
  \/ RetryTick
  \/ CleanupTick
  \/ Tick

Spec == Init /\ [][Next]_vars

\* setInterval keeps firing, whatever clients, handlers and the clock do: these
\* may stop at any point, so none of their actions is fair.
TimerSpec == Spec /\ WF_vars(CleanupTick) /\ WF_vars(RetryTick)

-----------------------------------------------------------------------------
(* Safety.                                                                 *)

\* The two halves of EventStoreService agree after every method and every
\* interleaving of methods: removal, eviction, forced cleanup, late acks.
StoreConsistent == IndexSound(store) /\ IndexComplete(store)

\* create() and the cleanup interval keep the number of records within one of
\* EVENT_STORE_MAX_TOTAL (create() makes room before it inserts).
TotalBound == Cardinality(store.events) <= MaxTotal + 1

\* enforcePerUserLimit(): no user ever has more than EVENT_STORE_MAX_PER_USER
\* events waiting, whatever mix of expired and applied ids its index holds.
PendingBound ==
  \A u \in User : Cardinality(GetPending(store, u, now)) <= MaxPerUser

\* No client is sent a QoS 1 event twice, or a QoS 2 event again after the
\* gateway has processed its acknowledgement, by any of the three senders
\* (publish, connect, retry) in any order.
NoRedundantSend == redundant = {}

\* The users to whom the gateway owes event e.
Owed(e) == {u \in log[e].to : seen[e][u] # "acked"}

\* More was published in total, or for one user, than the limits allow.
Overloaded ==
  \/ Cardinality({e \in Id : log[e] # NoEntry}) > MaxTotal
  \/ \E u \in User : Cardinality({e \in Id : u \in log[e].to}) > MaxPerUser

\* As long as the process lives and nobody was sent more than the limits allow, a
\* QoS 2 event stays pending for every target that has not acknowledged it, up to
\* its TTL.
NoEarlyLoss ==
  crashes = 0 /\ ~ Overloaded =>
    \A e \in Id : log[e].qos = 2 /\ now <= log[e].deadline =>
      \A u \in Owed(e) : e \in GetPending(store, u, now)

\* The sender is told event_expired only if some target really did not
\* acknowledge the event (removeEvent's feedback).
ExpiredIsHonest == \A e \in store.emitted : Owed(e) # {}

\* With TTLs that do not exceed EVENT_STORE_STALE_TIMEOUT no event ever becomes
\* FAILED: it is expired, and gone with the same run of the cleanup interval,
\* before it is stale.  The backoff branch of shouldRetry is then never taken.
NeverFailed ==
  \A e \in store.events, u \in User : store.userStatus[e][u] # "FAILED"

-----------------------------------------------------------------------------
(* The service.                                                            *)

Pending == UNION {GetPending(store, u, now) \X {u} : u \in User}

Service == INSTANCE DeliveryService WITH
             entry    <- log,
             owed     <- Pending,
             received <- {p \in Id \X User : seen[p[1]][p[2]] # "no"},
             acked    <- {p \in Id \X User : seen[p[1]][p[2]] = "acked"},
             restarts <- crashes,
             clock    <- now

\* The event store, its timers and the three senders together do what module
\* DeliveryService promises: what is pending is exactly what is owed, through
\* evictions, late acknowledgements, timers at the deadline and restarts.
KeepsPromise == Service!Spec

-----------------------------------------------------------------------------
(* Liveness.                                                               *)

\* An expired record leaves the store.  The TTL timer alone does not ensure it, as
\* it may fire at expiresAt exactly; the cleanup interval does.
ExpiredIsRemoved ==
  \A e \in Id : (e \in store.events /\ IsExpired(store, e, now)) ~> e \notin store.events

\* An event stored for a user whose session is active is sent to it (the retry
\* interval), unless the session ends, the event expires first, or removal or
\* eviction takes it from the user.
StoredIsSent ==
  \A e \in Id, u \in User :
    (store.userStatus[e][u] = "STORED" /\ conn[u] = "open")
      ~> (seen[e][u] # "no" \/ conn[u] # "open" \/ IsExpired(store, e, now)
          \/ store.userStatus[e][u] = "none")

-----------------------------------------------------------------------------
(* What a comment says and the code does not do.                           *)

\* "Terapkan limit per user", the comment on enforcePerUserLimit()'s call: each
\* user is kept to the limit, so one who is below it loses nothing pending.
EvictsOnlyAboveLimit ==
  [][\A u \in User :
       Cardinality(GetPending(store, u, now)) < MaxPerUser =>
         \A e \in GetPending(store, u, now) :
           e \in store'.userEvents[u] \/ seen'[e][u] # "no"]_vars
=============================================================================
