----------------------------- MODULE EventStore -----------------------------
(***************************************************************************)
(* The in-memory event store of the gateway: EventStoreService and         *)
(* EventRecord.                                                            *)
(*                                                                         *)
(* The service is a data structure with two redundant halves, `events`     *)
(* (records, each with a per-user status map) and `userEvents` (an index   *)
(* from a user to event ids), and methods that keep the halves together.   *)
(* Every method runs to completion without yielding to the event loop, so  *)
(* it is a function from one value of the store to the next.  Module       *)
(* Delivery holds the store in a variable and applies these functions in   *)
(* its actions.                                                            *)
(*                                                                         *)
(* Events are numbered in the order they are created.  createdAt is taken  *)
(* from a clock that does not go back and every sort on it is stable over  *)
(* a Map or Set in insertion order, so that order IS the order of the      *)
(* numbers, and createdAt itself needs no field.                           *)
(***************************************************************************)
EXTENDS Integers, FiniteSets

CONSTANTS
  User,             \* end-user ids (id_enduser), which also name sessions
  NoUser,           \* the absent senderId
  NEvents,          \* bound: how many events are ever published
  MaxTotal,         \* EVENT_STORE_MAX_TOTAL
  MaxPerUser,       \* EVENT_STORE_MAX_PER_USER
  DeliveredTimeout, \* EVENT_STORE_DELIVERED_TIMEOUT
  StaleTimeout,     \* EVENT_STORE_STALE_TIMEOUT
  MaxAttempts,      \* EVENT_STORE_MAX_ATTEMPTS
  BackoffBase       \* EVENT_BACKOFF_BASE

\* Limits are positive and durations are numbers of clock units.
ASSUME StoreAssumption ==
  /\ IsFiniteSet(User) /\ NoUser \notin User
  /\ NEvents \in Nat \ {0}
  /\ MaxTotal \in Nat \ {0} /\ MaxPerUser \in Nat \ {0}
  /\ DeliveredTimeout \in Nat /\ StaleTimeout \in Nat
  /\ MaxAttempts \in Nat /\ BackoffBase \in Nat \ {0}

Id == 1 .. NEvents

\* TypeEventStatus; "none" is a user without an entry in userStatus.
Status == {"none", "STORED", "DELIVERED", "APPLIED", "FAILED"}

\* The immutable part of an EventRecord.  notifyTo is senderId when
\* notifySender is set and NoUser otherwise: the code reads the two together.
Meta == [qos : 1 .. 2, expiresAt : Nat, notifyTo : User \cup {NoUser}]

NoMeta == [qos |-> 1, expiresAt |-> 0, notifyTo |-> NoUser]

(***************************************************************************)
(* events     the keys of the `events` map                                 *)
(* meta       the immutable fields of each record                          *)
(* userStatus, attempts, last   the maps of a record; last = 0 is absent   *)
(* userEvents the index                                                    *)
(* timers     the records whose TTL timeout is scheduled                   *)
(* emitted    the events for which 'event.expired' was emitted             *)
(***************************************************************************)
Store ==
  [events     : SUBSET Id,
   meta       : [Id -> Meta],
   userStatus : [Id -> [User -> Status]],
   attempts   : [Id -> [User -> Nat]],
   last       : [Id -> [User -> Nat]],
   userEvents : [User -> SUBSET Id],
   timers     : SUBSET Id,
   emitted    : SUBSET Id]

EmptyStore ==
  [events     |-> {},
   meta       |-> [e \in Id |-> NoMeta],
   userStatus |-> [e \in Id |-> [u \in User |-> "none"]],
   attempts   |-> [e \in Id |-> [u \in User |-> 0]],
   last       |-> [e \in Id |-> [u \in User |-> 0]],
   userEvents |-> [u \in User |-> {}],
   timers     |-> {},
   emitted    |-> {}]

-----------------------------------------------------------------------------
(* EventRecord.                                                            *)

\* Mutant: an event is already expired at expiresAt.
IsExpiredAtDeadline(s, e, t) == t >= s.meta[e].expiresAt

\* get isExpired(): strictly after expiresAt.
IsExpired(s, e, t) == t > s.meta[e].expiresAt

\* The users the record knows: userStatus.keys().
Targets(s, e) == {u \in User : s.userStatus[e][u] # "none"}

\* Mutant: one applied recipient is taken for all of them.
IsSomeApplied(s, e) == \E u \in Targets(s, e) : s.userStatus[e][u] = "APPLIED"

IsAllApplied(s, e) == \A u \in Targets(s, e) : s.userStatus[e][u] = "APPLIED"

\* Mutant: a stored event waits for the next connect instead of the retry.
ShouldRetryDeliveredOnly(s, e, u, t) ==
  /\ s.userStatus[e][u] = "DELIVERED"
  /\ t - s.last[e][u] > DeliveredTimeout

\* shouldRetry(), when its answer does not depend on Math.random().
ShouldRetry(s, e, u, t) ==
  \/ s.userStatus[e][u] = "STORED"
  \/ /\ s.userStatus[e][u] = "DELIVERED"
     /\ s.last[e][u] = 0 \/ t - s.last[e][u] > DeliveredTimeout
  \/ /\ s.userStatus[e][u] = "FAILED"
     /\ s.attempts[e][u] < MaxAttempts
     /\ \/ s.last[e][u] = 0
        \/ 2 * (t - s.last[e][u]) >= 3 * BackoffBase * 2 ^ s.attempts[e][u]

\* shouldRetry() of a FAILED event inside the jitter window: the backoff is
\* backoffBase * 2^attempts scaled by a factor in [0.5, 1.5).
MayRetry(s, e, u, t) ==
  /\ s.userStatus[e][u] = "FAILED"
  /\ s.attempts[e][u] < MaxAttempts
  /\ 2 * (t - s.last[e][u]) > BackoffBase * 2 ^ s.attempts[e][u]

-----------------------------------------------------------------------------
(* Removal.                                                                *)

\* Mutant: the record goes, the index keeps the ids.
RemoveEventsKeepingIndex(s, R, emits) ==
  [s EXCEPT
     !.events     = @ \ R,
     !.userStatus = [e \in Id |-> IF e \in R THEN [u \in User |-> "none"] ELSE @[e]],
     !.timers     = @ \ R]

(***************************************************************************)
(* removeEvent() for every event of R.  Each removal cancels the TTL       *)
(* timer, emits 'event.expired' unless the reason is 'applied' (emits) and *)
(* deletes the id from the index of the users the record still knows, and  *)
(* only of those.                                                          *)
(***************************************************************************)
RemoveEvents(s, R, emits) ==
  [events     |-> s.events \ R,
   meta       |-> s.meta,
   userStatus |-> [e \in Id |-> IF e \in R THEN [u \in User |-> "none"]
                                           ELSE s.userStatus[e]],
   attempts   |-> [e \in Id |-> IF e \in R THEN [u \in User |-> 0]
                                           ELSE s.attempts[e]],
   last       |-> [e \in Id |-> IF e \in R THEN [u \in User |-> 0]
                                           ELSE s.last[e]],
   userEvents |-> [u \in User |->
                     s.userEvents[u] \ {e \in R : s.userStatus[e][u] # "none"}],
   timers     |-> s.timers \ R,
   emitted    |-> s.emitted \cup
                    {e \in R : emits /\ s.meta[e].notifyTo # NoUser}]

-----------------------------------------------------------------------------
(* Delivery marks.                                                         *)

\* Mutant: the attempts still left are counted, from nothing.
MarkDeliveredCountingDown(s, sent, t) ==
  [s EXCEPT !.attempts = [e \in Id |-> [u \in User |->
      IF <<e, u>> \in sent THEN s.attempts[e][u] - 1 ELSE s.attempts[e][u]]]]

(***************************************************************************)
(* markDelivered(u, e) for every pair <<e, u>> in sent: a missing record   *)
(* or an APPLIED user is left alone.                                       *)
(***************************************************************************)
MarkDelivered(s, sent, t) ==
  LET marks(e, u) == /\ <<e, u>> \in sent /\ e \in s.events
                     /\ s.userStatus[e][u] # "APPLIED"
  IN  [events     |-> s.events,
       meta       |-> s.meta,
       userStatus |-> [e \in Id |-> [u \in User |->
                         IF marks(e, u) THEN "DELIVERED" ELSE s.userStatus[e][u]]],
       attempts   |-> [e \in Id |-> [u \in User |->
                         IF marks(e, u) THEN s.attempts[e][u] + 1 ELSE s.attempts[e][u]]],
       last       |-> [e \in Id |-> [u \in User |->
                         IF marks(e, u) THEN t ELSE s.last[e][u]]],
       userEvents |-> s.userEvents,
       timers     |-> s.timers,
       emitted    |-> s.emitted]

\* The status part of markApplied: the record is not asked whether it knows u.
SetApplied(s, done) ==
  [events     |-> s.events,
   meta       |-> s.meta,
   userStatus |-> [e \in Id |-> [u \in User |->
                     IF <<e, u>> \in done /\ e \in s.events
                     THEN "APPLIED" ELSE s.userStatus[e][u]]],
   attempts   |-> s.attempts,
   last       |-> s.last,
   userEvents |-> s.userEvents,
   timers     |-> s.timers,
   emitted    |-> s.emitted]

\* Mutant: an applied event stays until its TTL removes it.
MarkAppliedKeeping(s, done) == SetApplied(s, done)

(***************************************************************************)
(* markApplied(u, e) for every pair <<e, u>> in done; a record whose users *)
(* are now all APPLIED is removed.                                         *)
(***************************************************************************)
MarkApplied(s, done) ==
  LET after == SetApplied(s, done)
  IN  RemoveEvents(after,
                   {e \in s.events : /\ \E u \in User : <<e, u>> \in done
                                     /\ IsAllApplied(after, e)},
                   FALSE)

(***************************************************************************)
(* What both senders of stored events do after socket.send: QoS 1 is       *)
(* applied at once, QoS 2 is delivered and waits for the acknowledgement.  *)
(***************************************************************************)
MarkSent(s, sent, t) ==
  LET ofQos(q) == {p \in sent : s.meta[p[1]].qos = q}
  IN  MarkApplied(MarkDelivered(s, ofQos(2), t), ofQos(1))

-----------------------------------------------------------------------------
(* Queries.                                                                *)

\* Mutant: applied events are sent again on every connect.
GetPendingWithApplied(s, u, t) ==
  {e \in s.userEvents[u] : e \in s.events /\ ~ IsExpired(s, e, t)}

\* getPending(userId); the order, by createdAt, is that of the ids.
GetPending(s, u, t) ==
  {e \in s.userEvents[u] : /\ e \in s.events
                           /\ s.userStatus[e][u] # "APPLIED"
                           /\ ~ IsExpired(s, e, t)}

\* getPendingWithRetry(userId); lucky holds the pairs <<e, u>> of the jitter
\* window that Math.random() lets through.
GetPendingWithRetry(s, u, t, lucky) ==
  {e \in s.userEvents[u] : /\ e \in s.events /\ ~ IsExpired(s, e, t)
                           /\ \/ ShouldRetry(s, e, u, t)
                              \/ MayRetry(s, e, u, t) /\ <<e, u>> \in lucky}

-----------------------------------------------------------------------------
(* Limits.                                                                 *)

\* How many elements Array.prototype.slice(0, end) keeps of n: a negative end
\* counts from the back.  (A negative result keeps none.)
SliceLength(n, end) == IF end < 0 THEN n + end ELSE end

\* The weight forceCleanup() gives a record.
Weight(s, e) ==
  LET having(x) == Cardinality({u \in User : s.userStatus[e][u] = x})
  IN  4 * having("FAILED") + 3 * having("DELIVERED")
      + 2 * having("STORED") + having("APPLIED")

\* forceCleanup() sorts by descending weight, then by age.
RemovedBefore(s, e, f) ==
  \/ Weight(s, e) > Weight(s, f)
  \/ Weight(s, e) = Weight(s, f) /\ e < f

\* Mutant: the limit is taken for the number of events to drop.
ForceCleanupNothing(s) == s

\* forceCleanup(): the head of the sorted list goes until MaxTotal are left.
ForceCleanup(s) ==
  RemoveEvents(s,
               {e \in s.events :
                  Cardinality({f \in s.events : RemovedBefore(s, f, e)})
                    < Cardinality(s.events) - MaxTotal},
               TRUE)

\* Mutant: the oldest events are kept and no one is ever evicted.
EvictedNone(s, u, t) == {}

(***************************************************************************)
(* The events enforcePerUserLimit(u) takes from user u.  The early return  *)
(* looks at the whole index entry, the slice only at its pending part: a   *)
(* pending part below the limit gives slice() a negative end.              *)
(***************************************************************************)
Evicted(s, u, t) ==
  LET pending == GetPending(s, u, t)
      count   == Cardinality(pending)
  IN  IF Cardinality(s.userEvents[u]) <= MaxPerUser
      THEN {}
      ELSE {e \in pending : Cardinality({f \in pending : f < e})
                              < SliceLength(count, count - MaxPerUser)}

\* A victim leaves the user's index entry and loses the user's status.
EvictFrom(s, victims) ==
  [events     |-> s.events,
   meta       |-> s.meta,
   userStatus |-> [e \in Id |-> [u \in User |->
                     IF e \in victims[u] THEN "none" ELSE s.userStatus[e][u]]],
   attempts   |-> s.attempts,
   last       |-> s.last,
   userEvents |-> [u \in User |-> s.userEvents[u] \ victims[u]],
   timers     |-> s.timers,
   emitted    |-> s.emitted]

\* Mutant: the status of an evicted user stays in the record.
EnforcePerUserLimitIndexOnly(s, U, t) ==
  [s EXCEPT !.userEvents =
     [u \in User |-> IF u \in U THEN @[u] \ Evicted(s, u, t) ELSE @[u]]]

\* enforcePerUserLimit for every user of U; a record that no user is left in is
\* removed.
EnforcePerUserLimit(s, U, t) ==
  LET victims == [u \in User |-> IF u \in U THEN Evicted(s, u, t) ELSE {}]
      after   == EvictFrom(s, victims)
  IN  RemoveEvents(after,
                   {e \in s.events : /\ \E u \in User : e \in victims[u]
                                     /\ Targets(after, e) = {}},
                   TRUE)

-----------------------------------------------------------------------------
(* Creation and the cleanup interval.                                      *)

\* Entering a new record, its users and its TTL timer.
Insert(s, e, U, m) ==
  [events     |-> s.events \cup {e},
   meta       |-> [s.meta EXCEPT ![e] = m],
   userStatus |-> [s.userStatus EXCEPT ![e] =
                     [u \in User |-> IF u \in U THEN "STORED" ELSE "none"]],
   attempts   |-> s.attempts,
   last       |-> s.last,
   userEvents |-> [u \in User |-> IF u \in U THEN s.userEvents[u] \cup {e}
                                             ELSE s.userEvents[u]],
   timers     |-> s.timers \cup {e},
   emitted    |-> s.emitted]

(***************************************************************************)
(* create(targetIds = U) of event e at time t.  Room is made BEFORE the    *)
(* record is entered, and only down to the limit.                          *)
(***************************************************************************)
Create(s, e, U, m, t) ==
  LET room == IF Cardinality(s.events) >= MaxTotal THEN ForceCleanup(s) ELSE s
  IN  EnforcePerUserLimit(Insert(room, e, U, m), U, t)

CleanupExpiredEvents(s, t) ==
  RemoveEvents(s, {e \in s.events : IsExpired(s, e, t)}, TRUE)

\* Mutant: stale as soon as the timeout is reached.
CleanupStaleAtTimeout(s, t) ==
  [s EXCEPT !.userStatus = [e \in Id |-> [u \in User |->
      IF /\ e \in s.events /\ s.userStatus[e][u] = "DELIVERED"
         /\ s.last[e][u] # 0 /\ t - s.last[e][u] >= StaleTimeout
      THEN "FAILED" ELSE s.userStatus[e][u]]]]

\* Mutant: a stale event is dropped instead of marked.
CleanupStaleRemoving(s, t) ==
  RemoveEvents(s, {e \in s.events : \E u \in User :
                     /\ s.userStatus[e][u] = "DELIVERED"
                     /\ s.last[e][u] # 0 /\ t - s.last[e][u] > StaleTimeout}, TRUE)

\* cleanupStaleDelivered(): DELIVERED for too long becomes FAILED.
CleanupStaleDelivered(s, t) ==
  [events     |-> s.events,
   meta       |-> s.meta,
   userStatus |-> [e \in Id |-> [u \in User |->
                     IF /\ e \in s.events /\ s.userStatus[e][u] = "DELIVERED"
                        /\ s.last[e][u] # 0 /\ t - s.last[e][u] > StaleTimeout
                     THEN "FAILED" ELSE s.userStatus[e][u]]],
   attempts   |-> s.attempts,
   last       |-> s.last,
   userEvents |-> s.userEvents,
   timers     |-> s.timers,
   emitted    |-> s.emitted]

\* Mutant: an event is dropped as soon as the limit is reached.
EnforceMemoryLimitsEarly(s) ==
  IF Cardinality(s.events) >= MaxTotal THEN RemoveEvents(s, s.events, TRUE) ELSE s

\* enforceMemoryLimits(): forced cleanup when there are too many.
EnforceMemoryLimits(s) ==
  IF Cardinality(s.events) > MaxTotal THEN ForceCleanup(s) ELSE s

\* Mutant: expired events are left to their timers.
CleanupWithoutExpiry(s, t) == EnforceMemoryLimits(CleanupStaleDelivered(s, t))

\* The body of the cleanup interval, in its order.
Cleanup(s, t) ==
  EnforceMemoryLimits(CleanupStaleDelivered(CleanupExpiredEvents(s, t), t))

-----------------------------------------------------------------------------
(* What the two halves of the store owe each other.                        *)

\* Every id in a user's index entry names a record that knows the user.  The
\* store dereferences these ids without a check (enforcePerUserLimit's
\* events.get(id)!), so a dangling one is a crash.
IndexSound(s) ==
  \A u \in User : \A e \in s.userEvents[u] :
    e \in s.events /\ s.userStatus[e][u] # "none"

\* Every user a record still waits for finds it through the index: otherwise
\* neither a reconnect nor a retry would ever send the event.
IndexComplete(s) ==
  \A e \in s.events, u \in User :
    s.userStatus[e][u] \notin {"none", "APPLIED"} => e \in s.userEvents[u]

=============================================================================
