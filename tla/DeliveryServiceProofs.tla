------------------------ MODULE DeliveryServiceProofs ------------------------
(***************************************************************************)
(* Delivery implements DeliveryService, for every set of users, every      *)
(* routing, every limit and every timeout; and no client is sent what it   *)
(* is done with.                                                           *)
(*                                                                         *)
(* Both follow from what a method does to the users an event waits for,    *)
(* so the first part of this module says that of every method of the       *)
(* event store, the second what the store and the histories owe each       *)
(* other, and the third compares the steps.                                *)
(***************************************************************************)
EXTENDS DeliveryProofs

-----------------------------------------------------------------------------
(* What the methods of the store do to the users an event waits for.       *)

\* Event e is stored and waits for user u.
Waits(s, e, u) == e \in s.events /\ s.userStatus[e][u] \notin {"none", "APPLIED"}

\* In a consistent store that is what getPending() finds, up to the deadline.
LEMMA PendingIsWaiting ==
  ASSUME NEW s, Good(s), NEW t \in Nat, NEW e \in Id, NEW u \in User
  PROVE  e \in GetPending(s, u, t) <=> Waits(s, e, u) /\ t <= s.meta[e].expiresAt
<1>1. s.meta[e].expiresAt \in Nat  BY DEF Good, Store, Meta
<1> QED  BY <1>1 DEF Good, GetPending, Waits, IsExpired, IndexSound, IndexComplete

LEMMA RemoveWaits ==
  ASSUME NEW s, NEW R, NEW emits
  PROVE  LET r == RemoveEvents(s, R, emits)
         IN  /\ r.events = s.events \ R /\ r.meta = s.meta
             /\ r.emitted \subseteq s.emitted \cup {e \in R : emits /\ s.meta[e].notifyTo # NoUser}
             /\ \A e \in Id, u \in User : Waits(r, e, u) <=> Waits(s, e, u) /\ e \notin R
             /\ \A e \in Id, u \in User : r.userStatus[e][u] \in {"none", s.userStatus[e][u]}
BY DEF RemoveEvents, Waits

LEMMA MarkDeliveredWaits ==
  ASSUME NEW s, NEW sent, NEW t,
         \A e \in Id, u \in User : <<e, u>> \in sent => Waits(s, e, u) \/ e \notin s.events
  PROVE  LET r == MarkDelivered(s, sent, t)
         IN  /\ r.events = s.events /\ r.meta = s.meta /\ r.emitted = s.emitted
             /\ \A e \in Id, u \in User : Waits(r, e, u) <=> Waits(s, e, u)
             /\ \A e \in Id, u \in User : r.userStatus[e][u] = "none" <=> s.userStatus[e][u] = "none"
BY DEF MarkDelivered, Waits

LEMMA SetAppliedWaits ==
  ASSUME NEW s, NEW done
  PROVE  LET r == SetApplied(s, done)
         IN  /\ r.events = s.events /\ r.meta = s.meta /\ r.emitted = s.emitted
             /\ \A e \in Id, u \in User : Waits(r, e, u) <=> Waits(s, e, u) /\ <<e, u>> \notin done
             /\ \A e \in Id, u \in User :
                  r.userStatus[e][u] # "none" => s.userStatus[e][u] # "none" \/ <<e, u>> \in done
BY DEF SetApplied, Waits

\* A record that is removed because it is applied for everyone waits for nobody.
LEMMA MarkAppliedWaits ==
  ASSUME NEW s, Good(s), NEW done
  PROVE  LET r == MarkApplied(s, done)
         IN  /\ r.events \subseteq s.events /\ r.meta = s.meta /\ r.emitted \subseteq s.emitted
             /\ \A e \in Id, u \in User : Waits(r, e, u) <=> Waits(s, e, u) /\ <<e, u>> \notin done
             /\ \A e \in Id, u \in User :
                  r.userStatus[e][u] # "none" => s.userStatus[e][u] # "none" \/ <<e, u>> \in done
             /\ \A e \in r.events : (\E u \in User : <<e, u>> \in done) => \E u \in User : Waits(r, e, u)
<1> DEFINE a == SetApplied(s, done)
           R == {e \in s.events : /\ \E u \in User : <<e, u>> \in done
                                  /\ IsAllApplied(a, e)}
           r == RemoveEvents(a, R, FALSE)
<1>1. MarkApplied(s, done) = r  BY DEF MarkApplied
<1>2. /\ a.events = s.events /\ a.meta = s.meta /\ a.emitted = s.emitted
      /\ \A e \in Id, u \in User : Waits(a, e, u) <=> Waits(s, e, u) /\ <<e, u>> \notin done
      /\ \A e \in Id, u \in User :
           a.userStatus[e][u] # "none" => s.userStatus[e][u] # "none" \/ <<e, u>> \in done
  BY SetAppliedWaits
<1>3. \A e \in R : e \in s.events /\ \A u \in User : ~ Waits(a, e, u)
  BY DEF IsAllApplied, Targets, Waits
<1>4. \A e \in s.events \ R : (\E u \in User : <<e, u>> \in done) => \E u \in User : Waits(a, e, u)
  BY <1>2 DEF IsAllApplied, Targets, Waits
<1>5. s.events \subseteq Id  BY DEF Good, Store
<1> HIDE DEF a, R
<1>6. /\ r.events = a.events \ R /\ r.meta = a.meta /\ r.emitted \subseteq a.emitted
      /\ \A e \in Id, u \in User : Waits(r, e, u) <=> Waits(a, e, u) /\ e \notin R
      /\ \A e \in Id, u \in User : r.userStatus[e][u] \in {"none", a.userStatus[e][u]}
  BY RemoveWaits
<1> HIDE DEF r
<1>7. \A e \in Id, u \in User : Waits(r, e, u) <=> Waits(s, e, u) /\ <<e, u>> \notin done
  BY <1>2, <1>3, <1>6
<1>8. \A e \in Id, u \in User :
        r.userStatus[e][u] # "none" => s.userStatus[e][u] # "none" \/ <<e, u>> \in done
  BY <1>2, <1>6
<1>9. \A e \in r.events : (\E u \in User : <<e, u>> \in done) => \E u \in User : Waits(r, e, u)
  <2> SUFFICES ASSUME NEW e \in r.events, NEW v \in User, <<e, v>> \in done
               PROVE  \E u \in User : Waits(r, e, u)
    OBVIOUS
  <2>1. e \in s.events \ R /\ e \in Id  BY <1>2, <1>5, <1>6
  <2> QED  BY <1>4, <1>6, <2>1
<1> QED  BY <1>1, <1>2, <1>6, <1>7, <1>8, <1>9

\* What was sent is applied if it is of QoS 1; of QoS 2 it goes on waiting.
LEMMA MarkSentWaits ==
  ASSUME NEW s, Good(s), NEW sent \in SUBSET (Id \X User), NEW t \in Nat,
         \A e \in Id, u \in User : <<e, u>> \in sent => Waits(s, e, u)
  PROVE  LET r == MarkSent(s, sent, t)
         IN  /\ r.events \subseteq s.events /\ r.meta = s.meta /\ r.emitted \subseteq s.emitted
             /\ \A e \in Id, u \in User :
                  Waits(r, e, u) <=> Waits(s, e, u) /\ ~ (<<e, u>> \in sent /\ s.meta[e].qos = 1)
             /\ \A e \in Id, u \in User : r.userStatus[e][u] # "none" => s.userStatus[e][u] # "none"
<1> DEFINE ofQos(q) == {p \in sent : s.meta[p[1]].qos = q}
           d == MarkDelivered(s, ofQos(2), t)
           r == MarkApplied(d, ofQos(1))
<1>1. MarkSent(s, sent, t) = r  BY DEF MarkSent
<1>2. /\ \A e \in Id, u \in User : <<e, u>> \in ofQos(2) => Waits(s, e, u)
      /\ \A e \in Id, u \in User : <<e, u>> \in ofQos(1) => Waits(s, e, u)
      /\ \A e \in Id, u \in User : <<e, u>> \in ofQos(1) <=> <<e, u>> \in sent /\ s.meta[e].qos = 1
  OBVIOUS
<1> HIDE DEF ofQos
<1>3. /\ d.events = s.events /\ d.meta = s.meta /\ d.emitted = s.emitted
      /\ \A e \in Id, u \in User : Waits(d, e, u) <=> Waits(s, e, u)
      /\ \A e \in Id, u \in User : d.userStatus[e][u] = "none" <=> s.userStatus[e][u] = "none"
  BY <1>2, MarkDeliveredWaits
<1>4. Good(d)
  <2>1. \A e \in s.events, u \in User : <<e, u>> \in ofQos(2) => e \in s.userEvents[u]
    BY <1>2 DEF Good, Store, IndexComplete, Waits
  <2> QED  BY <2>1, MarkDeliveredGood
<1> HIDE DEF d
<1>5. /\ r.events \subseteq d.events /\ r.meta = d.meta /\ r.emitted \subseteq d.emitted
      /\ \A e \in Id, u \in User : Waits(r, e, u) <=> Waits(d, e, u) /\ <<e, u>> \notin ofQos(1)
      /\ \A e \in Id, u \in User :
           r.userStatus[e][u] # "none" => d.userStatus[e][u] # "none" \/ <<e, u>> \in ofQos(1)
  BY <1>4, MarkAppliedWaits
<1> HIDE DEF r
<1>6. \A e \in Id, u \in User : Waits(s, e, u) => s.userStatus[e][u] # "none"  BY DEF Waits
<1> QED  BY <1>1, <1>2, <1>3, <1>5, <1>6

\* forceCleanup() drops something only from a store above its limit.
LEMMA ForceCleanupWaits ==
  ASSUME NEW s, Good(s)
  PROVE  LET r == ForceCleanup(s)
         IN  /\ r.events \subseteq s.events /\ r.meta = s.meta
             /\ \A e \in r.emitted \ s.emitted : e \in s.events \ r.events
             /\ \A e \in r.emitted \ s.emitted : s.meta[e].notifyTo # NoUser
             /\ \A e \in Id, u \in User : Waits(r, e, u) => Waits(s, e, u)
             /\ \A e \in Id, u \in User :
                  Waits(s, e, u) /\ ~ Waits(r, e, u) => Cardinality(s.events) > MaxTotal
             /\ \A e \in Id, u \in User : r.userStatus[e][u] \in {"none", s.userStatus[e][u]}
             /\ \A u \in User : r.userEvents[u] \subseteq s.userEvents[u]
<1> DEFINE before(e) == {f \in s.events : RemovedBefore(s, f, e)}
           R == {e \in s.events : Cardinality(before(e)) < Cardinality(s.events) - MaxTotal}
           r == RemoveEvents(s, R, TRUE)
<1>1. ForceCleanup(s) = r  BY DEF ForceCleanup
<1>2. s.events \in SUBSET Id  BY DEF Good, Store
<1>3. R # {} => Cardinality(s.events) > MaxTotal
  <2> SUFFICES ASSUME NEW e \in R PROVE Cardinality(s.events) > MaxTotal  OBVIOUS
  <2>1. before(e) \in SUBSET Id  BY <1>2
  <2> HIDE DEF before
  <2>2. Cardinality(before(e)) \in Nat /\ Cardinality(s.events) \in Nat  BY <1>2, <2>1, IdFinite
  <2> QED  BY <2>2, StoreAssumption
<1>4. R \subseteq s.events  OBVIOUS
<1> HIDE DEF R
<1>5. \A u \in User : r.userEvents[u] \subseteq s.userEvents[u]  BY DEF RemoveEvents
<1>6. /\ r.events = s.events \ R /\ r.meta = s.meta
      /\ r.emitted \subseteq s.emitted \cup {e \in R : TRUE /\ s.meta[e].notifyTo # NoUser}
      /\ \A e \in Id, u \in User : Waits(r, e, u) <=> Waits(s, e, u) /\ e \notin R
      /\ \A e \in Id, u \in User : r.userStatus[e][u] \in {"none", s.userStatus[e][u]}
  BY RemoveWaits
<1> HIDE DEF r
<1> QED  BY <1>1, <1>3, <1>4, <1>5, <1>6

\* Somebody's index entry is longer than EVENT_STORE_MAX_PER_USER.
Crowded(s) == \E v \in User : Cardinality(s.userEvents[v]) > MaxPerUser

\* enforcePerUserLimit() takes something from a user only if there is too much
\* in the user's index entry, and a record only from its last user.
LEMMA EnforceWaits ==
  ASSUME NEW s, Good(s), NEW U \in SUBSET User, NEW t
  PROVE  LET r == EnforcePerUserLimit(s, U, t)
         IN  /\ r.events \subseteq s.events /\ r.meta = s.meta
             /\ \A e \in r.emitted \ s.emitted : e \in s.events \ r.events
             /\ \A e \in r.emitted \ s.emitted : s.meta[e].notifyTo # NoUser
             /\ \A e \in Id, u \in User : Waits(r, e, u) => Waits(s, e, u)
             /\ \A e \in Id, u \in User : Waits(s, e, u) /\ ~ Waits(r, e, u) => Crowded(s)
             /\ \A e \in Id, u \in User : r.userStatus[e][u] \in {"none", s.userStatus[e][u]}
             /\ \A e \in Id : (\A u \in User : e \notin Evicted(s, u, t)) =>
                  /\ e \in s.events => e \in r.events
                  /\ \A u \in User : Waits(s, e, u) => Waits(r, e, u)
<1> DEFINE victims == [u \in User |-> IF u \in U THEN Evicted(s, u, t) ELSE {}]
           a == EvictFrom(s, victims)
           R == {e \in s.events : /\ \E u \in User : e \in victims[u]
                                  /\ Targets(a, e) = {}}
           r == RemoveEvents(a, R, TRUE)
<1>1. EnforcePerUserLimit(s, U, t) = r  BY DEF EnforcePerUserLimit
<1>2. /\ a.events = s.events /\ a.meta = s.meta /\ a.emitted = s.emitted
      /\ \A e \in Id, u \in User : Waits(a, e, u) <=> Waits(s, e, u) /\ e \notin victims[u]
      /\ \A e \in Id, u \in User : a.userStatus[e][u] \in {"none", s.userStatus[e][u]}
  BY DEF EvictFrom, Waits
<1>3. \A u \in User : victims[u] # {} => Crowded(s)
  <2> SUFFICES ASSUME NEW u \in User, NEW e \in Evicted(s, u, t) PROVE Crowded(s)
    OBVIOUS
  <2>1. ~ (Cardinality(s.userEvents[u]) <= MaxPerUser)  BY DEF Evicted
  <2>2. s.userEvents[u] \in SUBSET Id  BY DEF Good, Store
  <2>3. Cardinality(s.userEvents[u]) \in Nat  BY <2>2, IdFinite
  <2> QED  BY <2>1, <2>3, StoreAssumption DEF Crowded
<1>4. \A e \in Id : (\A u \in User : e \notin Evicted(s, u, t)) => \A u \in User : e \notin victims[u]
  OBVIOUS
<1>5. \A e \in R : e \in s.events /\ (\E u \in User : e \in victims[u]) /\ \A u \in User : ~ Waits(a, e, u)
  BY DEF Targets, Waits
<1> HIDE DEF victims, a, R
<1>6. /\ r.events = a.events \ R /\ r.meta = a.meta
      /\ r.emitted \subseteq a.emitted \cup {e \in R : TRUE /\ a.meta[e].notifyTo # NoUser}
      /\ \A e \in Id, u \in User : Waits(r, e, u) <=> Waits(a, e, u) /\ e \notin R
      /\ \A e \in Id, u \in User : r.userStatus[e][u] \in {"none", a.userStatus[e][u]}
  BY RemoveWaits
<1> HIDE DEF r
<1>7. \A e \in Id, u \in User : Waits(r, e, u) <=> Waits(s, e, u) /\ e \notin victims[u]
  BY <1>2, <1>5, <1>6
<1>8. \A e \in Id, u \in User : r.userStatus[e][u] \in {"none", s.userStatus[e][u]}
  BY <1>2, <1>6
<1>9. \A e \in Id, u \in User : Waits(s, e, u) /\ ~ Waits(r, e, u) => Crowded(s)
  BY <1>3, <1>7
<1>10. /\ \A e \in r.emitted \ s.emitted : e \in s.events \ r.events
       /\ \A e \in r.emitted \ s.emitted : s.meta[e].notifyTo # NoUser
  BY <1>2, <1>5, <1>6
<1>11. ASSUME NEW e \in Id, \A u \in User : e \notin Evicted(s, u, t)
       PROVE  /\ e \in s.events => e \in r.events
              /\ \A u \in User : Waits(s, e, u) => Waits(r, e, u)
  <2>1. \A u \in User : e \notin victims[u]  BY <1>4, <1>11
  <2>2. e \notin R  BY <1>5, <2>1
  <2> QED  BY <1>2, <1>6, <1>7, <2>1, <2>2
<1> QED  BY <1>1, <1>2, <1>6, <1>7, <1>8, <1>9, <1>10, <1>11

\* create() has turned s into r: the new event waits for its users; others may
\* be dropped, but only if there are too many of them in the store or in
\* somebody's index entry.
Created(s, r, n, U, m) ==
  /\ r.events \subseteq s.events \cup {n} /\ n \in r.events
  /\ r.meta[n] = m /\ \A e \in Id \ {n} : r.meta[e] = s.meta[e]
  /\ \A e \in r.emitted \ s.emitted :
       e \in s.events \ r.events /\ s.meta[e].notifyTo # NoUser
  /\ \A u \in User : Waits(r, n, u) <=> u \in U
  /\ \A e \in Id \ {n}, u \in User : Waits(r, e, u) => Waits(s, e, u)
  /\ \A e \in Id \ {n}, u \in User : Waits(s, e, u) /\ ~ Waits(r, e, u) =>
       \/ Cardinality(s.events) > MaxTotal
       \/ \E v \in User : \E I \in SUBSET (s.userEvents[v] \cup {e2 \in {n} : v \in U}) :
            Cardinality(I) > MaxPerUser
  /\ \A u \in User : r.userStatus[n][u] # "none" => u \in U
  /\ \A e \in Id \ {n}, u \in User : r.userStatus[e][u] \in {"none", s.userStatus[e][u]}

LEMMA CreateWaits ==
  ASSUME NEW s, Good(s), NEW n \in Id, \A f \in s.events : f < n,
         NEW U \in SUBSET User, NEW m \in Meta, NEW t
  PROVE  Created(s, Create(s, n, U, m, t), n, U, m)
<1> DEFINE room == IF Cardinality(s.events) >= MaxTotal THEN ForceCleanup(s) ELSE s
           ins  == Insert(room, n, U, m)
           r    == EnforcePerUserLimit(ins, U, t)
<1>1. Create(s, n, U, m, t) = r  BY DEF Create
<1>2. /\ room.events \subseteq s.events /\ room.meta = s.meta
      /\ \A e \in room.emitted \ s.emitted : e \in s.events \ room.events
      /\ \A e \in room.emitted \ s.emitted : s.meta[e].notifyTo # NoUser
      /\ \A e \in Id, u \in User : Waits(room, e, u) => Waits(s, e, u)
      /\ \A e \in Id, u \in User :
           Waits(s, e, u) /\ ~ Waits(room, e, u) => Cardinality(s.events) > MaxTotal
      /\ \A e \in Id, u \in User : room.userStatus[e][u] \in {"none", s.userStatus[e][u]}
      /\ \A u \in User : room.userEvents[u] \subseteq s.userEvents[u]
  BY ForceCleanupWaits
<1>3. Good(room)  BY ForceCleanupGood
<1> HIDE DEF room
<1>4. n \notin room.events /\ s.events \subseteq Id
  BY <1>2, StoreAssumption DEF Id, Good, Store
<1>5. Good(ins)  BY <1>3, <1>4, InsertGood
<1>6. /\ ins.events = room.events \cup {n} /\ ins.emitted = room.emitted
      /\ ins.meta[n] = m /\ \A e \in Id \ {n} : ins.meta[e] = s.meta[e]
      /\ \A u \in User : ins.userStatus[n][u] = IF u \in U THEN "STORED" ELSE "none"
      /\ \A e \in Id \ {n}, u \in User : ins.userStatus[e][u] = room.userStatus[e][u]
      /\ \A u \in User : ins.userEvents[u] \subseteq s.userEvents[u] \cup {e \in {n} : u \in U}
  BY <1>2, <1>3 DEF Insert, Good, Store
<1>7. /\ \A u \in User : Waits(ins, n, u) <=> u \in U
      /\ \A e \in Id \ {n}, u \in User : Waits(ins, e, u) <=> Waits(room, e, u)
  BY <1>6 DEF Waits
<1> HIDE DEF ins
<1>8. \A f \in ins.events : f <= n
  BY <1>2, <1>4, <1>6, StoreAssumption DEF Id
<1>9. \A u \in User : n \notin Evicted(ins, u, t)  BY <1>5, <1>8, NewestKept
<1>10. /\ r.events \subseteq ins.events /\ r.meta = ins.meta
       /\ \A e \in r.emitted \ ins.emitted : e \in ins.events \ r.events
       /\ \A e \in r.emitted \ ins.emitted : ins.meta[e].notifyTo # NoUser
       /\ \A e \in Id, u \in User : Waits(r, e, u) => Waits(ins, e, u)
       /\ \A e \in Id, u \in User : Waits(ins, e, u) /\ ~ Waits(r, e, u) => Crowded(ins)
       /\ \A e \in Id, u \in User : r.userStatus[e][u] \in {"none", ins.userStatus[e][u]}
  BY <1>5, EnforceWaits
<1>11. /\ n \in ins.events => n \in r.events
       /\ \A u \in User : Waits(ins, n, u) => Waits(r, n, u)
  BY <1>5, <1>9, EnforceWaits
<1> HIDE DEF r
<1>12. n \in r.events /\ \A u \in User : Waits(r, n, u) <=> u \in U
  BY <1>6, <1>7, <1>10, <1>11
<1>13. \A e \in r.emitted \ s.emitted : e \in s.events \ r.events /\ s.meta[e].notifyTo # NoUser
  <2> SUFFICES ASSUME NEW e \in r.emitted \ s.emitted
               PROVE  e \in s.events \ r.events /\ s.meta[e].notifyTo # NoUser
    OBVIOUS
  <2>1. CASE e \in room.emitted
    <3>1. e \in s.events \ room.events /\ s.meta[e].notifyTo # NoUser  BY <1>2, <2>1
    <3>2. e # n  BY <1>4, <3>1, StoreAssumption DEF Id
    <3> QED  BY <1>6, <1>10, <3>1, <3>2
  <2>2. CASE e \notin room.emitted
    <3>1. e \in ins.events \ r.events /\ ins.meta[e].notifyTo # NoUser  BY <1>6, <1>10, <2>2
    <3>2. e # n /\ e \in room.events /\ e \in Id  BY <1>2, <1>4, <1>6, <1>12, <3>1
    <3> QED  BY <1>2, <1>6, <3>1, <3>2
  <2> QED  BY <2>1, <2>2
<1>14. ASSUME NEW e \in Id \ {n}, NEW u \in User, Waits(s, e, u), ~ Waits(r, e, u)
       PROVE  \/ Cardinality(s.events) > MaxTotal
              \/ \E v \in User : \E I \in SUBSET (s.userEvents[v] \cup {e2 \in {n} : v \in U}) :
                   Cardinality(I) > MaxPerUser
  <2>1. CASE ~ Waits(room, e, u)  BY <1>2, <1>14, <2>1
  <2>2. CASE Waits(room, e, u)
    <3>1. Crowded(ins)  BY <1>7, <1>10, <1>14, <2>2
    <3>2. PICK v \in User : Cardinality(ins.userEvents[v]) > MaxPerUser  BY <3>1 DEF Crowded
    <3>3. ins.userEvents[v] \in SUBSET (s.userEvents[v] \cup {e2 \in {n} : v \in U})  BY <1>6
    <3> QED  BY <3>2, <3>3
  <2> QED  BY <2>1, <2>2
<1>15. \A u \in User : r.userStatus[n][u] # "none" => u \in U
  <2> SUFFICES ASSUME NEW u \in User, r.userStatus[n][u] # "none" PROVE u \in U  OBVIOUS
  <2>1. r.userStatus[n][u] = ins.userStatus[n][u]  BY <1>10
  <2> QED  BY <1>6, <2>1
<1>16. \A e \in Id \ {n}, u \in User : r.userStatus[e][u] \in {"none", s.userStatus[e][u]}
  BY <1>2, <1>6, <1>10
<1>17. \A e \in Id \ {n}, u \in User : Waits(r, e, u) => Waits(s, e, u)
  BY <1>2, <1>7, <1>10
<1>18. r.events \subseteq s.events \cup {n}  BY <1>2, <1>6, <1>10
<1>19. r.meta[n] = m /\ \A e \in Id \ {n} : r.meta[e] = s.meta[e]  BY <1>6, <1>10
<1> QED  BY <1>1, <1>12, <1>13, <1>14, <1>15, <1>16, <1>17, <1>18, <1>19 DEF Created

\* The cleanup interval drops what is expired and, above the limit, more.
LEMMA CleanupWaits ==
  ASSUME NEW s, Good(s), NEW t
  PROVE  LET r == Cleanup(s, t)
         IN  /\ r.events \subseteq s.events /\ r.meta = s.meta
             /\ \A e \in r.emitted \ s.emitted :
                  e \in s.events \ r.events /\ s.meta[e].notifyTo # NoUser
             /\ \A e \in Id, u \in User : Waits(r, e, u) => Waits(s, e, u)
             /\ \A e \in Id, u \in User : Waits(s, e, u) /\ ~ Waits(r, e, u) =>
                  IsExpired(s, e, t) \/ Cardinality(s.events) > MaxTotal
             /\ \A e \in Id, u \in User : r.userStatus[e][u] # "none" => s.userStatus[e][u] # "none"
<1> DEFINE R == {e \in s.events : IsExpired(s, e, t)}
           x == CleanupExpiredEvents(s, t)
           y == CleanupStaleDelivered(x, t)
           r == EnforceMemoryLimits(y)
<1>1. Cleanup(s, t) = r  BY DEF Cleanup
<1>2. x = RemoveEvents(s, R, TRUE)  BY DEF CleanupExpiredEvents
<1>3. \A e \in R : e \in s.events /\ IsExpired(s, e, t)  OBVIOUS
<1> HIDE DEF R
<1>4. Good(x)  BY CleanupExpiredGood
<1> DEFINE z == RemoveEvents(s, R, TRUE)
<1>12. /\ z.events = s.events \ R /\ z.meta = s.meta
       /\ z.emitted \subseteq s.emitted \cup {e \in R : TRUE /\ s.meta[e].notifyTo # NoUser}
       /\ \A e \in Id, u \in User : Waits(z, e, u) <=> Waits(s, e, u) /\ e \notin R
       /\ \A e \in Id, u \in User : z.userStatus[e][u] \in {"none", s.userStatus[e][u]}
  BY RemoveWaits
<1>13. x = z  BY <1>2
<1> HIDE DEF x, z
<1>5. /\ x.events = s.events \ R /\ x.meta = s.meta
      /\ x.emitted \subseteq s.emitted \cup {e \in R : TRUE /\ s.meta[e].notifyTo # NoUser}
      /\ \A e \in Id, u \in User : Waits(x, e, u) <=> Waits(s, e, u) /\ e \notin R
      /\ \A e \in Id, u \in User : x.userStatus[e][u] \in {"none", s.userStatus[e][u]}
  BY <1>12, <1>13
<1>6. Good(y)  BY <1>4, CleanupStaleGood
<1>7. /\ y.events = x.events /\ y.meta = x.meta /\ y.emitted = x.emitted
      /\ \A e \in Id, u \in User : Waits(y, e, u) <=> Waits(x, e, u)
      /\ \A e \in Id, u \in User : y.userStatus[e][u] # "none" => x.userStatus[e][u] # "none"
  BY DEF CleanupStaleDelivered, Waits
<1> HIDE DEF y
<1>8. /\ r.events \subseteq y.events /\ r.meta = y.meta
      /\ \A e \in r.emitted \ y.emitted : e \in y.events \ r.events
      /\ \A e \in r.emitted \ y.emitted : y.meta[e].notifyTo # NoUser
      /\ \A e \in Id, u \in User : Waits(r, e, u) => Waits(y, e, u)
      /\ \A e \in Id, u \in User : Waits(y, e, u) /\ ~ Waits(r, e, u) => Cardinality(y.events) > MaxTotal
      /\ \A e \in Id, u \in User : r.userStatus[e][u] \in {"none", y.userStatus[e][u]}
  BY <1>6, ForceCleanupWaits DEF EnforceMemoryLimits
<1> HIDE DEF r
<1>9. Cardinality(y.events) > MaxTotal => Cardinality(s.events) > MaxTotal
  <2>1. s.events \in SUBSET Id /\ y.events \subseteq s.events  BY <1>5, <1>7 DEF Good, Store
  <2>2. Cardinality(y.events) <= Cardinality(s.events)  BY <2>1, IdFinite, FS_Subset
  <2>3. y.events \in SUBSET Id  BY <2>1
  <2>4. Cardinality(y.events) \in Nat /\ Cardinality(s.events) \in Nat  BY <2>1, <2>3, IdFinite
  <2> QED  BY <2>2, <2>4, StoreAssumption
<1>10. \A e \in r.emitted \ s.emitted : e \in s.events \ r.events /\ s.meta[e].notifyTo # NoUser
  <2> SUFFICES ASSUME NEW e \in r.emitted, e \notin s.emitted
               PROVE  e \in s.events \ r.events /\ s.meta[e].notifyTo # NoUser
    OBVIOUS
  <2>1. CASE e \in x.emitted  BY <1>3, <1>5, <1>7, <1>8, <2>1
  <2>2. CASE e \notin x.emitted
    <3>1. e \in y.events \ r.events /\ y.meta[e].notifyTo # NoUser  BY <1>7, <1>8, <2>2
    <3> QED  BY <1>5, <1>7, <3>1
  <2> QED  BY <2>1, <2>2
<1>11. \A e \in Id, u \in User : Waits(s, e, u) /\ ~ Waits(r, e, u) =>
         IsExpired(s, e, t) \/ Cardinality(s.events) > MaxTotal
  BY <1>3, <1>5, <1>7, <1>8, <1>9
<1> QED  BY <1>1, <1>5, <1>7, <1>8, <1>10, <1>11

\* A TTL timer is cancelled with its record: no method leaves one behind.
Timed(s) == s.timers \subseteq s.events

LEMMA MethodsTimed ==
  ASSUME NEW s, Timed(s), NEW t
  PROVE  /\ \A R, emits : Timed(RemoveEvents(s, R, emits))
         /\ \A done : Timed(MarkApplied(s, done))
         /\ \A sent : Timed(MarkDelivered(s, sent, t)) /\ Timed(MarkSent(s, sent, t))
         /\ \A n, U, m : Timed(Create(s, n, U, m, t))
         /\ Timed(Cleanup(s, t))
<1>1. \A x, R, emits : Timed(x) => Timed(RemoveEvents(x, R, emits))
  BY DEF Timed, RemoveEvents
<1>2. \A x, done : Timed(x) => Timed(SetApplied(x, done))  BY DEF Timed, SetApplied
<1>3. \A x, done : Timed(x) => Timed(MarkApplied(x, done))  BY <1>1, <1>2 DEF MarkApplied
<1>4. \A x, sent : Timed(x) => Timed(MarkDelivered(x, sent, t))  BY DEF Timed, MarkDelivered
<1>5. \A sent : Timed(MarkSent(s, sent, t))  BY <1>3, <1>4 DEF MarkSent
<1>6. \A x : Timed(x) => Timed(ForceCleanup(x))  BY <1>1 DEF ForceCleanup
<1>7. \A x, v : Timed(x) => Timed(EvictFrom(x, v))  BY DEF Timed, EvictFrom
<1>8. \A x, U : Timed(x) => Timed(EnforcePerUserLimit(x, U, t))
  BY <1>1, <1>7 DEF EnforcePerUserLimit
<1>9. \A x, n, U, m : Timed(x) => Timed(Insert(x, n, U, m))  BY DEF Timed, Insert
<1>10. \A n, U, m : Timed(Create(s, n, U, m, t))  BY <1>6, <1>8, <1>9 DEF Create
<1>11. \A x : Timed(x) => Timed(CleanupStaleDelivered(x, t))  BY DEF Timed, CleanupStaleDelivered
<1>12. Timed(Cleanup(s, t))
  BY <1>1, <1>6, <1>11 DEF Cleanup, CleanupExpiredEvents, EnforceMemoryLimits
<1> QED  BY <1>1, <1>3, <1>4, <1>5, <1>10, <1>12

-----------------------------------------------------------------------------
(* What the store and the histories owe each other.                        *)

\* A record has the QoS and the deadline of its publication, and only a QoS 2
\* event notifies its sender.
Agrees ==
  \A e \in store.events :
    /\ log[e].qos = store.meta[e].qos
    /\ log[e].deadline = store.meta[e].expiresAt
    /\ store.meta[e].notifyTo # NoUser => log[e].qos = 2

\* Nothing is known of an event number that is not used yet.
Fresh ==
  \A e \in Id : e >= nextId =>
    /\ log[e] = NoEntry /\ e \notin store.emitted
    /\ \A u \in User : seen[e][u] = "no"

\* Only the users of an event are sent it or have a status in its record.
Known ==
  \A e \in Id, u \in User :
    \/ seen[e][u] # "no"
    \/ e \in store.events /\ store.userStatus[e][u] # "none"
    => u \in log[e].to

\* An event never waits for a user who is done with it.
Quiet == \A e \in Id, u \in User : Done(e, u) => ~ Waits(store, e, u)

\* A QoS 2 record has a user who has not acknowledged it, and an event whose
\* expiry was reported had one when its record went.
Honest ==
  /\ \A e \in store.events : log[e].qos = 2 => Owed(e) # {}
  /\ \A e \in store.emitted : e \notin store.events /\ Owed(e) # {}

RInv == IInv /\ Timed(store) /\ Agrees /\ Fresh /\ Known /\ Quiet /\ NoRedundantSend /\ Honest

\* Steps that change neither the store nor what is known of an event.
LEMMA QuietKeeps ==
  ASSUME RInv, IInv', UNCHANGED <<store, nextId, log, seen, redundant>>
  PROVE  RInv'
BY DEF RInv, Timed, Agrees, Fresh, Known, Quiet, NoRedundantSend, Honest, Done, Owed

\* Steps that only remove records or users from them, and report what they remove.
LEMMA ShrinkKeeps ==
  ASSUME RInv, IInv', UNCHANGED <<nextId, log, seen, redundant>>, Timed(store'),
         store'.events \subseteq store.events,
         \A e \in store'.events : store'.meta[e] = store.meta[e],
         \A e \in store'.emitted \ store.emitted :
           e \in store.events \ store'.events /\ store.meta[e].notifyTo # NoUser,
         \A e \in Id, u \in User : Waits(store', e, u) => Waits(store, e, u),
         \A e \in store'.events, u \in User :
           store'.userStatus[e][u] # "none" => store.userStatus[e][u] # "none"
  PROVE  RInv'
<1>1. store.events \subseteq Id /\ store'.events \subseteq Id /\ store.emitted \subseteq Id
  BY DEF RInv, IInv, Good, Store
<1>2. Agrees'  BY DEF RInv, Agrees
<1>3. Fresh'
  <2>1. \A f \in store.events : f \in Id /\ f < nextId  BY <1>1 DEF RInv, IInv
  <2>2. nextId \in Int  BY DEF RInv, IInv, TypeOK
  <2>3. \A e \in Id : e >= nextId => e \notin store'.emitted
    <3> SUFFICES ASSUME NEW e \in Id, e >= nextId, e \in store'.emitted PROVE FALSE  OBVIOUS
    <3>1. e \notin store.emitted  BY DEF RInv, Fresh
    <3>2. e \in store.events  BY <3>1
    <3>3. e < nextId /\ e \in Int  BY <2>1, <3>2 DEF Id
    <3> QED  BY <2>2, <3>3
  <2> QED  BY <2>3 DEF RInv, Fresh
<1>4. Known'  BY <1>1 DEF RInv, Known
<1>5. Quiet'  BY DEF RInv, Quiet, Done
<1>6. NoRedundantSend'  BY DEF RInv, NoRedundantSend
<1>7. Honest'
  <2>1. \A e \in store'.emitted \ store.emitted : e \notin store'.events /\ Owed(e) # {}
    BY DEF RInv, Agrees, Honest
  <2>2. \A e \in store.emitted : e \notin store'.events /\ Owed(e) # {}
    BY DEF RInv, Honest
  <2>3. \A e \in store'.events : log[e].qos = 2 => Owed(e) # {}
    BY DEF RInv, Honest
  <2> QED  BY <2>1, <2>2, <2>3 DEF Honest, Owed
<1> QED  BY <1>2, <1>3, <1>4, <1>5, <1>6, <1>7 DEF RInv, Timed

\* Steps that send what waits, and mark it.
LEMMA SendKeeps ==
  ASSUME RInv, IInv', NEW sent \in SUBSET (Id \X User), Send(sent),
         \A e \in Id, u \in User : <<e, u>> \in sent => Waits(store, e, u),
         store' = MarkSent(store, sent, now), UNCHANGED <<nextId, log>>
  PROVE  /\ RInv'
         /\ \A e \in Id, u \in User :
              Waits(store', e, u) <=> Waits(store, e, u) /\ ~ (<<e, u>> \in sent /\ log[e].qos = 1)
<1>1. /\ store'.events \subseteq store.events /\ store'.meta = store.meta
      /\ store'.emitted \subseteq store.emitted
      /\ \A e \in Id, u \in User :
           Waits(store', e, u) <=>
             Waits(store, e, u) /\ ~ (<<e, u>> \in sent /\ store.meta[e].qos = 1)
      /\ \A e \in Id, u \in User :
           store'.userStatus[e][u] # "none" => store.userStatus[e][u] # "none"
  <2> DEFINE r == MarkSent(store, sent, now)
  <2>1. Good(store) /\ now \in Nat  BY DEF RInv, IInv, TypeOK
  <2>2. /\ r.events \subseteq store.events /\ r.meta = store.meta
        /\ r.emitted \subseteq store.emitted
        /\ \A e \in Id, u \in User :
             Waits(r, e, u) <=> Waits(store, e, u) /\ ~ (<<e, u>> \in sent /\ store.meta[e].qos = 1)
        /\ \A e \in Id, u \in User : r.userStatus[e][u] # "none" => store.userStatus[e][u] # "none"
    BY <2>1, MarkSentWaits
  <2>3. store' = r  OBVIOUS
  <2> HIDE DEF r
  <2> QED  BY <2>2, <2>3
<1>2. \A e \in Id, u \in User :
        Waits(store', e, u) <=> Waits(store, e, u) /\ ~ (<<e, u>> \in sent /\ log[e].qos = 1)
  BY <1>1 DEF RInv, Agrees, Waits
<1>3. /\ \A e \in Id, u \in User :
           seen'[e][u] = IF <<e, u>> \in sent /\ seen[e][u] = "no" THEN "sent" ELSE seen[e][u]
      /\ redundant' = redundant \cup {p \in sent : Done(p[1], p[2])}
  BY DEF Send
<1>4. \A e \in Id, u \in User :
        <<e, u>> \in sent => e \in store.events /\ store.userStatus[e][u] # "none" /\ ~ Done(e, u)
  BY DEF RInv, Quiet, Waits
<1>5. store.events \subseteq Id /\ store.emitted \subseteq Id
  BY DEF RInv, IInv, Good, Store
<1>6. Agrees'  BY <1>1 DEF RInv, Agrees
<1>7. Fresh'
  <2>1. \A f \in store.events : f \in Id /\ f < nextId  BY <1>5 DEF RInv, IInv
  <2>2. nextId \in Int  BY DEF RInv, IInv, TypeOK
  <2>3. \A e \in Id, u \in User : e >= nextId => <<e, u>> \notin sent
    <3> SUFFICES ASSUME NEW e \in Id, NEW u \in User, e >= nextId, <<e, u>> \in sent
                 PROVE  FALSE
      OBVIOUS
    <3>1. e < nextId /\ e \in Int  BY <1>4, <2>1 DEF Id
    <3> QED  BY <2>2, <3>1
  <2> SUFFICES ASSUME NEW e \in Id, e >= nextId
               PROVE  /\ log[e] = NoEntry /\ e \notin store'.emitted
                      /\ \A u \in User : seen'[e][u] = "no"
    BY DEF Fresh
  <2>4. log[e] = NoEntry /\ e \notin store.emitted /\ \A u \in User : seen[e][u] = "no"
    BY DEF RInv, Fresh
  <2> QED  BY <1>1, <1>3, <2>3, <2>4
<1>8. Known'  BY <1>1, <1>3, <1>4, <1>5 DEF RInv, Known
<1>9. Quiet'
  <2> SUFFICES ASSUME NEW e \in Id, NEW u \in User, Done(e, u)', Waits(store', e, u)
               PROVE  FALSE
    BY DEF Quiet
  <2>1. Waits(store, e, u) /\ ~ (<<e, u>> \in sent /\ log[e].qos = 1)  BY <1>2
  <2>2. Done(e, u)  BY <1>3, <2>1 DEF Done
  <2> QED  BY <2>1, <2>2 DEF RInv, Quiet
<1>10. NoRedundantSend'
  <2>1. {p \in sent : Done(p[1], p[2])} = {}
    <3> SUFFICES ASSUME NEW p \in sent, Done(p[1], p[2]) PROVE FALSE  OBVIOUS
    <3>1. p = <<p[1], p[2]>> /\ p[1] \in Id /\ p[2] \in User  OBVIOUS
    <3> QED  BY <1>4, <3>1
  <2> QED  BY <1>3, <2>1 DEF RInv, NoRedundantSend
<1>11. Honest'
  <2>1. \A e \in Id : Owed(e)' = Owed(e)
    <3> SUFFICES ASSUME NEW e \in Id, NEW u \in log[e].to
                 PROVE  seen'[e][u] # "acked" <=> seen[e][u] # "acked"
      BY DEF Owed
    <3>1. u \in User  BY DEF RInv, IInv, TypeOK, LogEntry
    <3> QED  BY <1>3, <3>1
  <2> QED  BY <1>1, <1>5, <2>1 DEF RInv, Honest
<1>12. Timed(store')  BY MethodsTimed DEF RInv
<1> QED  BY <1>2, <1>6, <1>7, <1>8, <1>9, <1>10, <1>11, <1>12 DEF RInv, Timed

\* What the connect step and the retry step send waits for its user.
LEMMA DuePairs ==
  ASSUME RInv, NEW e \in Id, NEW u \in User,
         \/ e \in GetPending(store, u, now)
         \/ \E lucky : e \in GetPendingWithRetry(store, u, now, lucky)
  PROVE  Waits(store, e, u) /\ now <= log[e].deadline
<1>1. Good(store) /\ now \in Nat  BY DEF RInv, IInv, TypeOK
<1>2. e \in store.userEvents[u] /\ e \in store.events /\ ~ IsExpired(store, e, now)
  BY DEF GetPending, GetPendingWithRetry
<1>3. store.userStatus[e][u] # "none"  BY <1>1, <1>2 DEF Good, IndexSound
<1>4. store.userStatus[e][u] # "APPLIED"
  BY DEF GetPending, GetPendingWithRetry, ShouldRetry, MayRetry
<1>5. store.meta[e].expiresAt \in Nat  BY <1>1 DEF Good, Store, Meta
<1>6. now <= log[e].deadline  BY <1>1, <1>2, <1>5 DEF IsExpired, RInv, Agrees
<1> QED  BY <1>2, <1>3, <1>4, <1>6 DEF Waits

(***************************************************************************)
(* The effect of a step that may enter the event nextId, published as L    *)
(* and sent to S, and may take an acknowledgement of another: publishing,  *)
(* and acknowledging with or without a notification of the sender.         *)
(***************************************************************************)
Enters(L, S) ==
  /\ L \in LogEntry /\ S \subseteq L.to
  /\ \/ nextId' = nextId + 1
     \/ nextId' = nextId /\ L = NoEntry /\ nextId \notin store'.events
  /\ \A e \in Id : log'[e] = IF e = nextId THEN L ELSE log[e]
  /\ \A e \in Id, u \in User :
       IF e = nextId THEN seen'[e][u] = IF u \in S THEN "sent" ELSE "no"
       ELSE \/ seen'[e][u] = seen[e][u]
            \/ /\ seen[e][u] # "no" /\ seen'[e][u] = "acked"
               /\ e \in store.events /\ log[e].qos = 2 /\ ~ Waits(store', e, u)
  /\ redundant' = redundant
  /\ store'.events \subseteq store.events \cup {nextId}
  /\ nextId \in store'.events =>
       /\ L.qos = store'.meta[nextId].qos /\ L.deadline = store'.meta[nextId].expiresAt
       /\ store'.meta[nextId].notifyTo # NoUser => L.qos = 2
       /\ L.qos = 2 => L.to # {}
  /\ \A e \in store'.events : e # nextId => store'.meta[e] = store.meta[e]
  /\ store'.emitted \ store.emitted \subseteq store.events \ store'.events
  /\ \A e \in Id \ {nextId} :
       \/ e \in store'.events /\ log[e].qos = 2
       \/ e \in store'.emitted \ store.emitted
       => \E u \in User : u \in log[e].to /\ seen'[e][u] # "acked"
  /\ \A e \in Id, u \in User :
       IF e = nextId
       THEN Waits(store', e, u) <=> u \in L.to /\ ~ (L.qos = 1 /\ u \in S)
       ELSE Waits(store', e, u) => Waits(store, e, u)
  /\ \A e \in store'.events, u \in User :
       store'.userStatus[e][u] # "none" =>
         IF e = nextId THEN u \in L.to
         ELSE store.userStatus[e][u] # "none" \/ seen[e][u] # "no"

LEMMA EnterKeeps ==
  ASSUME RInv, IInv', Timed(store'), NEW L, NEW S, Enters(L, S)
  PROVE  RInv'
<1>1. store.events \subseteq Id /\ store'.events \subseteq Id /\ store'.emitted \subseteq Id
  BY DEF RInv, IInv, Good, Store
<1>2. nextId \in Int /\ \A f \in store.events : f < nextId /\ f # nextId
  BY <1>1 DEF RInv, IInv, TypeOK, Id
<1>3. Agrees'
  <2> SUFFICES ASSUME NEW e \in store'.events
               PROVE  /\ log'[e].qos = store'.meta[e].qos
                      /\ log'[e].deadline = store'.meta[e].expiresAt
                      /\ store'.meta[e].notifyTo # NoUser => log'[e].qos = 2
    BY DEF Agrees
  <2>1. CASE e = nextId  BY <1>1, <2>1 DEF Enters
  <2>2. CASE e # nextId
    <3>1. e \in store.events /\ store'.meta[e] = store.meta[e] /\ log'[e] = log[e]
      BY <1>1, <2>2 DEF Enters
    <3> QED  BY <3>1 DEF RInv, Agrees
  <2> QED  BY <2>1, <2>2
<1>4. Fresh'
  <2> SUFFICES ASSUME NEW e \in Id, e >= nextId'
               PROVE  /\ log'[e] = NoEntry /\ e \notin store'.emitted
                      /\ \A u \in User : seen'[e][u] = "no"
    BY DEF Fresh
  <2>1. e \in Int /\ e >= nextId  BY <1>2 DEF Enters, Id
  <2>2. log[e] = NoEntry /\ e \notin store.emitted /\ \A u \in User : seen[e][u] = "no"
    BY <2>1 DEF RInv, Fresh
  <2>3. e \notin store.events  BY <1>2, <2>1
  <2>4. e \notin store'.emitted  BY <2>2, <2>3 DEF Enters
  <2>5. CASE e = nextId
    <3>1. nextId' = nextId /\ L = NoEntry  BY <1>2, <2>5 DEF Enters
    <3>2. L.to = {}  BY <3>1 DEF NoEntry
    <3> QED  BY <2>4, <2>5, <3>1, <3>2 DEF Enters
  <2>6. CASE e # nextId  BY <2>2, <2>3, <2>4, <2>6 DEF Enters
  <2> QED  BY <2>5, <2>6
<1>5. Known'
  <2> SUFFICES ASSUME NEW e \in Id, NEW u \in User,
                      \/ seen'[e][u] # "no"
                      \/ e \in store'.events /\ store'.userStatus[e][u] # "none"
               PROVE  u \in log'[e].to
    BY DEF Known
  <2>1. CASE e = nextId  BY <2>1 DEF Enters
  <2>2. CASE e # nextId
    <3>1. log'[e] = log[e]  BY <2>2 DEF Enters
    <3>2. \/ seen[e][u] # "no"
          \/ e \in store.events /\ store.userStatus[e][u] # "none"
      BY <2>2 DEF Enters
    <3> QED  BY <3>1, <3>2 DEF RInv, Known
  <2> QED  BY <2>1, <2>2
<1>6. Quiet'
  <2> SUFFICES ASSUME NEW e \in Id, NEW u \in User, Done(e, u)', Waits(store', e, u)
               PROVE  FALSE
    BY DEF Quiet
  <2>1. CASE e = nextId
    <3>1. log'[e] = L /\ ~ (L.qos = 1 /\ u \in S) /\ seen'[e][u] = IF u \in S THEN "sent" ELSE "no"
      BY <2>1 DEF Enters
    <3> QED  BY <3>1 DEF Done
  <2>2. CASE e # nextId
    <3>1. log'[e] = log[e] /\ Waits(store, e, u) /\ seen'[e][u] = seen[e][u]
      BY <2>2 DEF Enters
    <3> QED  BY <3>1 DEF RInv, Quiet, Done
  <2> QED  BY <2>1, <2>2
<1>7. NoRedundantSend'  BY DEF RInv, NoRedundantSend, Enters
<1>8. Honest'
  <2>1. ASSUME NEW e \in store'.events, log'[e].qos = 2 PROVE Owed(e)' # {}
    <3>1. CASE e = nextId
      <4>1. log'[e] = L /\ L.to # {} /\ L.to \subseteq User
        BY <1>1, <2>1, <3>1 DEF Enters, LogEntry
      <4>2. \A u \in L.to : seen'[e][u] # "acked"  BY <1>1, <3>1, <4>1 DEF Enters
      <4> QED  BY <4>1, <4>2 DEF Owed
    <3>2. CASE e # nextId
      <4>1. log'[e] = log[e] /\ \E u \in User : u \in log[e].to /\ seen'[e][u] # "acked"
        BY <1>1, <2>1, <3>2 DEF Enters
      <4> QED  BY <4>1 DEF Owed
    <3> QED  BY <3>1, <3>2
  <2>2. ASSUME NEW e \in store'.emitted PROVE e \notin store'.events /\ Owed(e)' # {}
    <3>1. CASE e \in store.emitted
      <4>1. e \in Id /\ e \notin store.events /\ Owed(e) # {}  BY <1>1, <3>1 DEF RInv, Honest
      <4>2. e # nextId  BY <1>2, <3>1, <4>1 DEF RInv, Fresh
      <4>3. PICK u \in log[e].to : seen[e][u] # "acked"  BY <4>1 DEF Owed
      <4>4. u \in User  BY <4>1 DEF RInv, IInv, TypeOK, LogEntry
      <4>5. log'[e] = log[e] /\ seen'[e][u] = seen[e][u] /\ e \notin store'.events
        BY <4>1, <4>2, <4>4 DEF Enters
      <4> QED  BY <4>3, <4>5 DEF Owed
    <3>2. CASE e \notin store.emitted
      <4>1. e \in store.events /\ e \notin store'.events  BY <3>2 DEF Enters
      <4>2. e \in Id /\ e # nextId  BY <1>1, <1>2, <4>1
      <4>3. log'[e] = log[e] /\ \E u \in User : u \in log[e].to /\ seen'[e][u] # "acked"
        BY <3>2, <4>2 DEF Enters
      <4> QED  BY <4>1, <4>3 DEF Owed
    <3> QED  BY <3>1, <3>2
  <2> QED  BY <2>1, <2>2 DEF Honest
<1> QED  BY <1>3, <1>4, <1>5, <1>6, <1>7, <1>8 DEF RInv, Timed

\* A restart: the store is empty, and what was sent before the process died was
\* sent of a new event.
LEMMA RestartKeeps ==
  ASSUME RInv, IInv', store' = EmptyStore, redundant' = redundant,
         \/ nextId' = nextId + 1
         \/ nextId' = nextId /\ \A e \in Id : log'[e] = log[e] /\ seen'[e] = seen[e],
         \A e \in Id :
           e # nextId => log'[e] = log[e] /\ \A u \in User : seen'[e][u] = seen[e][u],
         \A e \in Id, u \in User :
           e = nextId /\ seen'[e][u] # "no" => u \in log'[e].to
  PROVE  RInv'
<1>1. /\ store'.events = {} /\ store'.emitted = {} /\ Timed(store')
      /\ \A e \in Id, u \in User : ~ Waits(store', e, u)
  BY DEF EmptyStore, Waits, Timed
<1>2. nextId \in Int  BY DEF RInv, IInv, TypeOK
<1>3. Agrees' /\ Honest'  BY <1>1 DEF Agrees, Honest
<1>4. Fresh'
  <2> SUFFICES ASSUME NEW e \in Id, e >= nextId'
               PROVE  /\ log'[e] = NoEntry /\ e \notin store'.emitted
                      /\ \A u \in User : seen'[e][u] = "no"
    BY DEF Fresh
  <2>1. log[e] = NoEntry /\ \A u \in User : seen[e][u] = "no"
    BY <1>2 DEF RInv, Fresh, Id
  <2>2. CASE e = nextId
    BY <1>1, <1>2, <2>1, <2>2
  <2>3. CASE e # nextId
    BY <1>1, <2>1, <2>3
  <2> QED  BY <2>2, <2>3
<1>5. Known'
  <2> SUFFICES ASSUME NEW e \in Id, NEW u \in User, seen'[e][u] # "no"
               PROVE  u \in log'[e].to
    BY <1>1 DEF Known
  <2>1. CASE e = nextId  BY <2>1
  <2>2. CASE e # nextId  BY <2>2 DEF RInv, Known
  <2> QED  BY <2>1, <2>2
<1>6. Quiet'  BY <1>1 DEF Quiet
<1> QED  BY <1>1, <1>3, <1>4, <1>5, <1>6 DEF RInv, Timed, NoRedundantSend

-----------------------------------------------------------------------------
(* The steps of the service.                                               *)

\* What a store whose records agree with their publications still owes.
LEMMA OwedPairs ==
  ASSUME NEW s, Good(s), NEW t \in Nat, NEW l,
         \A e \in s.events : l[e].deadline = s.meta[e].expiresAt
  PROVE  LET P == UNION {GetPending(s, u, t) \X {u} : u \in User}
         IN  /\ P \subseteq Id \X User
             /\ \A e \in Id, u \in User :
                  <<e, u>> \in P <=> Waits(s, e, u) /\ t <= l[e].deadline
<1> DEFINE P == UNION {GetPending(s, u, t) \X {u} : u \in User}
<1>1. \A u \in User : GetPending(s, u, t) \subseteq Id  BY DEF GetPending, Good, Store
<1>2. ASSUME NEW e \in Id, NEW u \in User
      PROVE  <<e, u>> \in P <=> Waits(s, e, u) /\ t <= l[e].deadline
  <2>1. <<e, u>> \in P <=> e \in GetPending(s, u, t)  OBVIOUS
  <2>2. e \in GetPending(s, u, t) <=> Waits(s, e, u) /\ t <= s.meta[e].expiresAt
    BY PendingIsWaiting
  <2> QED  BY <2>1, <2>2 DEF Waits
<1> QED  BY <1>1, <1>2

\* That, of the two stores of a step.
LEMMA PendingPairs ==
  ASSUME RInv, RInv'
  PROVE  /\ Pending \subseteq Id \X User
         /\ \A e \in Id, u \in User :
              <<e, u>> \in Pending <=> Waits(store, e, u) /\ now <= log[e].deadline
         /\ Pending' \subseteq Id \X User
         /\ \A e \in Id, u \in User :
              <<e, u>> \in Pending' <=> Waits(store', e, u) /\ now' <= log'[e].deadline
<1>1. /\ Good(store) /\ now \in Nat
      /\ \A e \in store.events : log[e].deadline = store.meta[e].expiresAt
  BY DEF RInv, IInv, TypeOK, Agrees
<1>2. /\ Good(store') /\ now' \in Nat
      /\ \A e \in store'.events : log'[e].deadline = store'.meta[e].expiresAt
  BY DEF RInv, IInv, TypeOK, Agrees, Good
<1>3. /\ Pending \subseteq Id \X User
      /\ \A e \in Id, u \in User :
           <<e, u>> \in Pending <=> Waits(store, e, u) /\ now <= log[e].deadline
  BY <1>1, OwedPairs DEF Pending
<1>4. /\ Pending' \subseteq Id \X User
      /\ \A e \in Id, u \in User :
           <<e, u>> \in Pending' <=> Waits(store', e, u) /\ now' <= log'[e].deadline
  BY <1>2, OwedPairs DEF Pending, GetPending, IsExpired
<1> QED  BY <1>3, <1>4

\* The pairs that enter are those of the event nextId.
LEMMA EnteringPairs ==
  ASSUME TypeOK, TypeOK'
  PROVE  /\ Service!Entering \subseteq Id \X User
         /\ \A e \in Id, u \in User :
              <<e, u>> \in Service!Entering <=> log[e] = NoEntry /\ u \in log'[e].to
<1>1. \A e \in Id : log'[e].to \subseteq User  BY DEF TypeOK, LogEntry
<1>2. Service!Entering = UNION {{e} \X log'[e].to : e \in {f \in Id : log[f] = NoEntry}}
  BY DEF Service!Entering, Service!Accepted, Service!Event, Service!NoEntry, Id, NoEntry
<1>3. ASSUME NEW e \in Id, NEW u \in User
      PROVE  <<e, u>> \in Service!Entering <=> log[e] = NoEntry /\ u \in log'[e].to
  BY <1>2
<1> QED  BY <1>1, <1>2, <1>3

LEMMA ExchangeStep ==
  ASSUME RInv, RInv', now' = now,
         \A e \in Id : e # nextId => log'[e] = log[e],
         \A e \in Id, u \in User :
           \/ seen'[e][u] = seen[e][u]
           \/ /\ seen[e][u] = "no" /\ seen'[e][u] = "sent"
              /\ e = nextId \/ (Waits(store, e, u) /\ now <= log[e].deadline)
           \/ seen[e][u] # "no" /\ seen'[e][u] = "acked" /\ log[e].qos = 2
  PROVE  Service!Exchange
<1> DEFINE got == {p \in Id \X User : seen[p[1]][p[2]] # "no"}
           ackd == {p \in Id \X User : seen[p[1]][p[2]] = "acked"}
<1>1. TypeOK /\ TypeOK'  BY DEF RInv, IInv
<1>2. /\ Service!Entering \subseteq Id \X User
      /\ \A e \in Id, u \in User :
           <<e, u>> \in Service!Entering <=> log[e] = NoEntry /\ u \in log'[e].to
  BY <1>1, EnteringPairs
<1>3. \A e \in Id, u \in User :
        <<e, u>> \in Pending <=> Waits(store, e, u) /\ now <= log[e].deadline
  BY PendingPairs
<1>4. nextId \in Id => log[nextId] = NoEntry
  BY DEF RInv, IInv, TypeOK, Fresh, Id
<1>5. \/ log' = log
      \/ \E e \in Id : log[e] = NoEntry /\ \A f \in Id \ {e} : log'[f] = log[f]
  <2>1. CASE nextId \in Id  BY <1>4, <2>1
  <2>2. CASE nextId \notin Id
    <3>1. \A e \in Id : log'[e] = log[e]  BY <2>2
    <3> QED  BY <1>1, <3>1 DEF TypeOK
  <2> QED  BY <2>1, <2>2
<1>6. got \subseteq got' /\ ackd \subseteq ackd'
  <2>1. \A e \in Id, u \in User :
          /\ seen[e][u] # "no" => seen'[e][u] # "no"
          /\ seen[e][u] = "acked" => seen'[e][u] = "acked"
    OBVIOUS
  <2> QED  BY <2>1
<1>7. got' \ got \subseteq Pending \cup Service!Entering
  <2> SUFFICES ASSUME NEW p \in Id \X User, seen[p[1]][p[2]] = "no", seen'[p[1]][p[2]] # "no"
               PROVE  p \in Pending \cup Service!Entering
    OBVIOUS
  <2> DEFINE e == p[1]
             u == p[2]
  <2>1. p = <<e, u>> /\ e \in Id /\ u \in User  OBVIOUS
  <2>2. e = nextId \/ (Waits(store, e, u) /\ now <= log[e].deadline)  BY <2>1
  <2>3. CASE e = nextId
    <3>1. u \in log'[e].to  BY <2>1 DEF RInv, Known
    <3> QED  BY <1>2, <1>4, <2>1, <2>3, <3>1
  <2> QED  BY <1>3, <2>1, <2>2, <2>3
<1>8. ackd' \ ackd \subseteq {p \in got : log[p[1]].qos = 2}
  <2> SUFFICES ASSUME NEW p \in Id \X User, seen[p[1]][p[2]] # "acked", seen'[p[1]][p[2]] = "acked"
               PROVE  seen[p[1]][p[2]] # "no" /\ log[p[1]].qos = 2
    OBVIOUS
  <2>1. p[1] \in Id /\ p[2] \in User  OBVIOUS
  <2> QED  BY <2>1
<1>9. \/ log' = log
      \/ \E e \in Service!Event : /\ ~ Service!Accepted(e)
                                  /\ \A f \in Service!Event \ {e} : log'[f] = log[f]
  BY <1>5 DEF Service!Event, Service!Accepted, Service!NoEntry, Id, NoEntry
<1> QED  BY <1>6, <1>7, <1>8, <1>9 DEF Service!Exchange

\* A store above its limit, or a user with too many events, is an overload of
\* the service: every record was accepted, for each user that finds it.
LEMMA OverloadStep ==
  ASSUME RInv, RInv',
         \A e \in Id : e # nextId => log'[e] = log[e],
         \/ Cardinality(store.events) > MaxTotal
         \/ \E v \in User :
              \E I \in SUBSET (store.userEvents[v] \cup {e \in Id : e = nextId /\ v \in log'[e].to}) :
                Cardinality(I) > MaxPerUser
  PROVE  Service!Overload
<1> DEFINE all == {e \in Id : log'[e] # NoEntry}
           of(v) == {e \in Id : v \in log'[e].to}
<1>1. /\ store.events \in SUBSET Id /\ nextId \in Int
      /\ \A f \in store.events : f < nextId
      /\ \A e \in store.events : store.meta[e].qos \in 1 .. 2
      /\ \A v \in User : store.userEvents[v] \subseteq Id
      /\ IndexSound(store)
  BY DEF RInv, IInv, TypeOK, Good, Store, Meta
<1>2. \A e \in store.events : e \in Id /\ log'[e] = log[e]  BY <1>1 DEF Id
<1>3. \A e \in store.events : log[e].qos # 0 BY <1>1 DEF RInv, Agrees
<1>4. store.events \subseteq all  BY <1>2, <1>3 DEF NoEntry
<1>5. \A v \in User : store.userEvents[v] \subseteq of(v)
  BY <1>1, <1>2 DEF RInv, Known, IndexSound
<1>6. Service!Overload <=> \/ Cardinality(all) > MaxTotal
                           \/ \E v \in User : Cardinality(of(v)) > MaxPerUser
  <2>1. \A S : Service!Cardinality(S) = Cardinality(S)
    BY DEF Service!Cardinality, Cardinality
  <2> QED  BY <2>1 DEF Service!Overload, Service!Event, Service!NoEntry, Id, NoEntry
<1>7. \A I \in SUBSET Id : IsFiniteSet(I) /\ Cardinality(I) \in Nat  BY IdFinite
<1>8. CASE Cardinality(store.events) > MaxTotal
  <2>1. all \in SUBSET Id  OBVIOUS
  <2> HIDE DEF all
  <2>2. Cardinality(store.events) <= Cardinality(all)  BY <1>4, <1>7, <2>1, FS_Subset
  <2>3. Cardinality(all) > MaxTotal  BY <1>1, <1>7, <1>8, <2>1, <2>2, StoreAssumption
  <2> QED  BY <1>6, <2>3
<1>9. CASE \E v \in User :
             \E I \in SUBSET (store.userEvents[v] \cup {e \in Id : e = nextId /\ v \in log'[e].to}) :
               Cardinality(I) > MaxPerUser
  <2>5. PICK v \in User :
          \E I \in SUBSET (store.userEvents[v] \cup {e \in Id : e = nextId /\ v \in log'[e].to}) :
            Cardinality(I) > MaxPerUser
    BY <1>9
  <2>1. PICK I \in SUBSET (store.userEvents[v] \cup {e \in Id : e = nextId /\ v \in log'[e].to}) :
          Cardinality(I) > MaxPerUser
    BY <2>5
  <2>2. I \subseteq of(v) /\ of(v) \in SUBSET Id  BY <1>5
  <2> HIDE DEF of
  <2>3. I \in SUBSET Id /\ Cardinality(I) <= Cardinality(of(v))  BY <1>7, <2>2, FS_Subset
  <2>4. Cardinality(of(v)) > MaxPerUser  BY <1>7, <2>1, <2>2, <2>3, StoreAssumption
  <2> QED  BY <1>6, <2>4
<1> QED  BY <1>8, <1>9

LEMMA ServeOrShed ==
  ASSUME RInv, RInv', UNCHANGED <<now, crashes>>, Service!Exchange,
         \A e \in Id, u \in User :
           Waits(store', e, u) /\ now <= log'[e].deadline =>
             \/ Waits(store, e, u) /\ now <= log[e].deadline
             \/ log[e] = NoEntry /\ u \in log'[e].to,
         \A e \in Id, u \in User :
           /\ \/ Waits(store, e, u) /\ now <= log[e].deadline
              \/ log[e] = NoEntry /\ u \in log'[e].to
           /\ ~ (Waits(store', e, u) /\ now <= log'[e].deadline)
           => \/ seen'[e][u] = "acked"
              \/ seen'[e][u] # "no" /\ log'[e].qos = 1
              \/ Service!Overload
  PROVE  Service!Serve \/ Service!Shed
<1> DEFINE served == {p \in {q \in Id \X User : seen'[q[1]][q[2]] # "no"} : log'[p[1]].qos = 1}
                     \cup {q \in Id \X User : seen'[q[1]][q[2]] = "acked"}
           before == Pending \cup Service!Entering
           after  == Pending'
<1>1. /\ Pending \subseteq Id \X User
      /\ \A e \in Id, u \in User :
           <<e, u>> \in Pending <=> Waits(store, e, u) /\ now <= log[e].deadline
      /\ after \subseteq Id \X User
      /\ \A e \in Id, u \in User :
           <<e, u>> \in after <=> Waits(store', e, u) /\ now <= log'[e].deadline
  BY PendingPairs
<1>2. /\ Service!Entering \subseteq Id \X User
      /\ \A e \in Id, u \in User :
           <<e, u>> \in Service!Entering <=> log[e] = NoEntry /\ u \in log'[e].to
  BY EnteringPairs DEF RInv, IInv
<1>3. Service!Served = served  BY DEF Service!Served
<1>4. \A e \in Id, u \in User : Waits(store', e, u) => log'[e].qos \in 1 .. 2
  BY DEF RInv, IInv, Good, Store, Meta, Agrees, Waits
<1>5. \A e \in Id, u \in User :
        <<e, u>> \in served <=> \/ seen'[e][u] # "no" /\ log'[e].qos = 1
                               \/ seen'[e][u] = "acked"
  OBVIOUS
<1>6. \A e \in Id, u \in User : <<e, u>> \in served => ~ Waits(store', e, u)
  BY <1>4, <1>5 DEF RInv, Quiet, Done
<1>7. \A e \in Id, u \in User : <<e, u>> \in before <=>
        \/ Waits(store, e, u) /\ now <= log[e].deadline
        \/ log[e] = NoEntry /\ u \in log'[e].to
  BY <1>1, <1>2
<1>8. before \subseteq Id \X User  BY <1>1, <1>2
<1> HIDE DEF served, before, after
<1>9. \A e \in Id, u \in User : <<e, u>> \in after => <<e, u>> \in before \ served
  BY <1>1, <1>6, <1>7
<1>10. \A e \in Id, u \in User :
         <<e, u>> \in before \ served => <<e, u>> \in after \/ Service!Overload
  BY <1>1, <1>5, <1>7
<1>11. after \subseteq before \ served  BY <1>1, <1>9
<1>12. ~ Service!Overload => after = before \ served
  <2> SUFFICES ASSUME ~ Service!Overload PROVE before \ served \subseteq after  BY <1>11
  <2> QED  BY <1>8, <1>10
<1> QED  BY <1>3, <1>11, <1>12 DEF Service!Serve, Service!Shed, before, after

-----------------------------------------------------------------------------
(* One lemma per kind of step.                                             *)

LEMMA SendServes ==
  ASSUME RInv, IInv', NEW sent \in SUBSET (Id \X User), Send(sent),
         \A e \in Id, u \in User :
           <<e, u>> \in sent => Waits(store, e, u) /\ now <= log[e].deadline,
         store' = MarkSent(store, sent, now), UNCHANGED <<nextId, log, now, crashes>>
  PROVE  RInv' /\ Service!Next
<1>1. /\ RInv'
      /\ \A e \in Id, u \in User :
           Waits(store', e, u) <=> Waits(store, e, u) /\ ~ (<<e, u>> \in sent /\ log[e].qos = 1)
  BY SendKeeps
<1>2. \A e \in Id, u \in User :
        seen'[e][u] = IF <<e, u>> \in sent /\ seen[e][u] = "no" THEN "sent" ELSE seen[e][u]
  BY DEF Send
<1>3. Service!Exchange
  <2>1. \A e \in Id, u \in User :
          \/ seen'[e][u] = seen[e][u]
          \/ /\ seen[e][u] = "no" /\ seen'[e][u] = "sent"
             /\ Waits(store, e, u) /\ now <= log[e].deadline
    BY <1>2
  <2> QED  BY <1>1, <2>1, ExchangeStep
<1>4. \A e \in Id, u \in User : ~ (log[e] = NoEntry /\ u \in log[e].to)  BY DEF NoEntry
<1>5. \A e \in Id, u \in User : <<e, u>> \in sent => seen'[e][u] # "no"  BY <1>2
<1>6. Service!Serve \/ Service!Shed
  BY <1>1, <1>3, <1>4, <1>5, ServeOrShed
<1> QED  BY <1>1, <1>6 DEF Service!Next

LEMMA ConnectServes ==
  ASSUME RInv, IInv', NEW u \in User, Connect(u)
  PROVE  RInv' /\ Service!Next
<1> DEFINE P == GetPending(store, u, now) \X {u}
<1>1. P \in SUBSET (Id \X User)  BY PendingType DEF RInv, IInv
<1>2. \A e \in Id, v \in User : <<e, v>> \in P => Waits(store, e, v) /\ now <= log[e].deadline
  <2> SUFFICES ASSUME NEW e \in Id, NEW v \in User, <<e, v>> \in P
               PROVE  Waits(store, e, v) /\ now <= log[e].deadline
    OBVIOUS
  <2>1. v = u /\ e \in GetPending(store, u, now)  OBVIOUS
  <2> QED  BY <2>1, DuePairs
<1>3. Send(P) /\ store' = MarkSent(store, P, now) /\ UNCHANGED <<nextId, log, now, crashes>>
  BY DEF Connect, DeliverPending
<1> HIDE DEF P
<1> QED  BY <1>1, <1>2, <1>3, SendServes

LEMMA RetryServes ==
  ASSUME RInv, IInv', RetryTick
  PROVE  RInv' /\ Service!Next
<1> DEFINE P(lucky) == {p \in Id \X User :
                          /\ conn[p[2]] = "open"
                          /\ p[1] \in GetPendingWithRetry(store, p[2], now, lucky)}
<1>1. PICK lucky : /\ Send(P(lucky)) /\ store' = MarkSent(store, P(lucky), now)
                   /\ UNCHANGED <<nextId, log, now, crashes>>
  BY DEF RetryTick
<1>2. P(lucky) \in SUBSET (Id \X User)  OBVIOUS
<1>3. \A e \in Id, v \in User :
        <<e, v>> \in P(lucky) => Waits(store, e, v) /\ now <= log[e].deadline
  <2> SUFFICES ASSUME NEW e \in Id, NEW v \in User, <<e, v>> \in P(lucky)
               PROVE  Waits(store, e, v) /\ now <= log[e].deadline
    OBVIOUS
  <2>1. e \in GetPendingWithRetry(store, v, now, lucky)  OBVIOUS
  <2> QED  BY <2>1, DuePairs
<1> HIDE DEF P
<1> QED  BY <1>1, <1>2, <1>3, SendServes

\* Steps that remove records, or users from them, for no user who is owed.
LEMMA ShrinkServes ==
  ASSUME RInv, RInv', UNCHANGED <<log, seen, now, crashes>>,
         \A e \in Id, u \in User : Waits(store', e, u) => Waits(store, e, u),
         \A e \in Id, u \in User :
           Waits(store, e, u) /\ ~ Waits(store', e, u) =>
             now > log[e].deadline \/ Cardinality(store.events) > MaxTotal
  PROVE  Service!Next
<1>1. Service!Exchange  BY ExchangeStep
<1>2. Cardinality(store.events) > MaxTotal => Service!Overload  BY OverloadStep
<1>3. \A e \in Id, u \in User : ~ (log[e] = NoEntry /\ u \in log[e].to)  BY DEF NoEntry
<1>4. \A e \in Id, u \in User : Waits(store, e, u) =>
        now \in Int /\ log[e].deadline \in Int
  BY DEF RInv, IInv, TypeOK, LogEntry
<1>5. Service!Serve \/ Service!Shed  BY <1>1, <1>2, <1>3, <1>4, ServeOrShed
<1> QED  BY <1>5 DEF Service!Next

LEMMA CleanupServes ==
  ASSUME RInv, IInv', CleanupTick
  PROVE  RInv' /\ Service!Next
<1> DEFINE r == Cleanup(store, now)
<1>1. Good(store) /\ now \in Nat  BY DEF RInv, IInv, TypeOK
<1>2. /\ r.events \subseteq store.events /\ r.meta = store.meta
      /\ \A e \in r.emitted \ store.emitted :
           e \in store.events \ r.events /\ store.meta[e].notifyTo # NoUser
      /\ \A e \in Id, u \in User : Waits(r, e, u) => Waits(store, e, u)
      /\ \A e \in Id, u \in User : Waits(store, e, u) /\ ~ Waits(r, e, u) =>
           IsExpired(store, e, now) \/ Cardinality(store.events) > MaxTotal
      /\ \A e \in Id, u \in User : r.userStatus[e][u] # "none" => store.userStatus[e][u] # "none"
  BY <1>1, CleanupWaits
<1>3. store' = r /\ UNCHANGED <<nextId, log, seen, redundant, now, crashes>>
  BY DEF CleanupTick
<1>9. Timed(store')  BY <1>3, MethodsTimed DEF RInv
<1> HIDE DEF r
<1>4. store.events \subseteq Id  BY <1>1 DEF Good, Store
<1>5. RInv'  BY <1>2, <1>3, <1>4, <1>9, ShrinkKeeps
<1>6. \A e \in store.events : IsExpired(store, e, now) => now > log[e].deadline
  BY DEF IsExpired, RInv, Agrees
<1>7. \A e \in Id, u \in User : Waits(store, e, u) /\ ~ Waits(store', e, u) =>
        now > log[e].deadline \/ Cardinality(store.events) > MaxTotal
  BY <1>2, <1>3, <1>6 DEF Waits
<1>8. Service!Next  BY <1>2, <1>3, <1>5, <1>7, ShrinkServes
<1> QED  BY <1>5, <1>8

LEMMA ExpiryServes ==
  ASSUME RInv, IInv', NEW e0 \in Id, ExpiryTimer(e0)
  PROVE  RInv' /\ Service!Next
<1>1. Good(store) /\ now \in Nat  BY DEF RInv, IInv, TypeOK
<1>2. UNCHANGED <<nextId, log, seen, redundant, now, crashes>>  BY DEF ExpiryTimer
<1>3. Timed(store) /\ store.timers \subseteq store.events  BY DEF RInv, Timed
<1>4. CASE IsExpired(store, e0, now)
  <2> DEFINE r == RemoveEvents(store, {e0}, TRUE)
  <2>1. /\ r.events = store.events \ {e0} /\ r.meta = store.meta
        /\ r.emitted \subseteq store.emitted \cup {e \in {e0} : TRUE /\ store.meta[e].notifyTo # NoUser}
        /\ \A e \in Id, u \in User : Waits(r, e, u) <=> Waits(store, e, u) /\ e \notin {e0}
        /\ \A e \in Id, u \in User : r.userStatus[e][u] \in {"none", store.userStatus[e][u]}
    BY RemoveWaits
  <2>2. store' = r /\ e0 \in store.events  BY <1>3, <1>4 DEF ExpiryTimer
  <2>7. Timed(r)  BY <1>3, MethodsTimed
  <2> HIDE DEF r
  <2>3. store.events \subseteq Id  BY <1>1 DEF Good, Store
  <2>4. RInv'
    <3>1. \A e \in store'.emitted \ store.emitted :
            e \in store.events \ store'.events /\ store.meta[e].notifyTo # NoUser
      BY <2>1, <2>2
    <3>2. \A e \in store'.events, u \in User :
            store'.userStatus[e][u] # "none" => store.userStatus[e][u] # "none"
      BY <2>1, <2>2, <2>3
    <3> QED  BY <1>2, <2>1, <2>2, <2>7, <3>1, <3>2, ShrinkKeeps
  <2>5. \A e \in Id, u \in User : Waits(store, e, u) /\ ~ Waits(store', e, u) =>
          now > log[e].deadline
    BY <1>4, <2>1, <2>2 DEF IsExpired, RInv, Agrees
  <2>6. Service!Next  BY <1>2, <2>1, <2>2, <2>4, <2>5, ShrinkServes
  <2> QED  BY <2>4, <2>6
<1>5. CASE ~ IsExpired(store, e0, now)
  <2>1. store' = [store EXCEPT !.timers = @ \ {e0}]  BY <1>5 DEF ExpiryTimer
  <2>2. /\ store'.events = store.events /\ store'.meta = store.meta
        /\ store'.emitted = store.emitted /\ store'.userStatus = store.userStatus
        /\ Timed(store')
    BY <1>1, <1>3, <2>1 DEF Good, Store, Timed
  <2>3. \A e \in Id, u \in User : Waits(store', e, u) <=> Waits(store, e, u)
    BY <2>2 DEF Waits
  <2>4. RInv'  BY <1>2, <2>2, <2>3, ShrinkKeeps
  <2>5. Service!Next  BY <1>2, <2>3, <2>4, ShrinkServes
  <2> QED  BY <2>4, <2>5
<1> QED  BY <1>4, <1>5

\* Sockets, waiting handlers: nothing the service would see.
LEMMA QuietServes ==
  ASSUME UNCHANGED <<store, log, seen, now, crashes>>
  PROVE  UNCHANGED Service!vars
BY DEF Service!vars, Pending

LEMMA TickServes ==
  ASSUME RInv, RInv', Tick
  PROVE  Service!Next
<1> DEFINE left == {p \in Pending : now' <= log[p[1]].deadline}
<1>1. UNCHANGED <<store, log, seen, crashes>> /\ now' = now + 1  BY DEF Tick
<1>2. /\ Pending \subseteq Id \X User /\ Pending' \subseteq Id \X User
      /\ \A e \in Id, u \in User :
           <<e, u>> \in Pending <=> Waits(store, e, u) /\ now <= log[e].deadline
      /\ \A e \in Id, u \in User :
           <<e, u>> \in Pending' <=> Waits(store', e, u) /\ now' <= log'[e].deadline
  BY PendingPairs
<1>3. now \in Int /\ \A e \in Id : log[e].deadline \in Int
  BY DEF RInv, IInv, TypeOK, LogEntry
<1>4. \A e \in Id, u \in User : <<e, u>> \in Pending' <=> <<e, u>> \in left
  <2> SUFFICES ASSUME NEW e \in Id, NEW u \in User
               PROVE  <<e, u>> \in Pending' <=> <<e, u>> \in left
    OBVIOUS
  <2>1. <<e, u>> \in left <=> <<e, u>> \in Pending /\ now + 1 <= log[e].deadline  BY <1>1
  <2>2. <<e, u>> \in Pending' <=> Waits(store, e, u) /\ now + 1 <= log[e].deadline
    BY <1>1, <1>2
  <2>3. now + 1 <= log[e].deadline => now <= log[e].deadline  BY <1>3
  <2> QED  BY <1>2, <2>1, <2>2, <2>3
<1>5. left \subseteq Id \X User  BY <1>2
<1> HIDE DEF left
<1>6. Pending' = left
  <2>1. ASSUME NEW p \in Id \X User PROVE p \in Pending' <=> p \in left
    <3>1. p = <<p[1], p[2]>> /\ p[1] \in Id /\ p[2] \in User  OBVIOUS
    <3>2. <<p[1], p[2]>> \in Pending' <=> <<p[1], p[2]>> \in left  BY <1>4, <3>1
    <3> QED  BY <3>1, <3>2
  <2> QED  BY <1>2, <1>5, <2>1
<1>7. Service!Tick  BY <1>1, <1>6 DEF Service!Tick, left
<1> QED  BY <1>7 DEF Service!Next

\* The effect Enters is what the service does when the new event is owed to all
\* it was not served to, and others are given up only in an overload.
LEMMA EnterServes ==
  ASSUME RInv, RInv', NEW L, NEW S, Enters(L, S), UNCHANGED <<now, crashes>>,
         L.to # {} => now <= L.deadline,
         \A e \in Id \ {nextId}, u \in User :
           Waits(store, e, u) /\ ~ Waits(store', e, u) /\ seen'[e][u] # "acked" =>
             \/ Cardinality(store.events) > MaxTotal
             \/ \E v \in User :
                  \E I \in SUBSET (store.userEvents[v] \cup {f \in Id : f = nextId /\ v \in L.to}) :
                    Cardinality(I) > MaxPerUser
  PROVE  Service!Next
<1>1. \A e \in Id : log'[e] = IF e = nextId THEN L ELSE log[e]  BY DEF Enters
<1>2. /\ nextId \in Int /\ nextId \notin store.events
      /\ nextId \in Id => log[nextId] = NoEntry /\ \A u \in User : seen[nextId][u] = "no"
  BY DEF RInv, IInv, TypeOK, Fresh, Id
<1>3. Service!Exchange
  <2> SUFFICES ASSUME NEW e \in Id, NEW u \in User
               PROVE  \/ seen'[e][u] = seen[e][u]
                      \/ /\ seen[e][u] = "no" /\ seen'[e][u] = "sent"
                         /\ e = nextId \/ (Waits(store, e, u) /\ now <= log[e].deadline)
                      \/ seen[e][u] # "no" /\ seen'[e][u] = "acked" /\ log[e].qos = 2
    <3>1. \A e \in Id : e # nextId => log'[e] = log[e]  BY <1>1
    <3> QED  BY <3>1, ExchangeStep
  <2>1. CASE e = nextId
    <3>1. seen[e][u] = "no"  BY <1>2, <2>1
    <3>2. seen'[e][u] = "sent" \/ seen'[e][u] = "no"  BY <2>1 DEF Enters
    <3> QED  BY <2>1, <3>1, <3>2
  <2>2. CASE e # nextId  BY <2>2 DEF Enters
  <2> QED  BY <2>1, <2>2
<1>4. ASSUME NEW e \in Id, NEW u \in User, Waits(store', e, u), now <= log'[e].deadline
      PROVE  \/ Waits(store, e, u) /\ now <= log[e].deadline
             \/ log[e] = NoEntry /\ u \in log'[e].to
  <2>1. CASE e = nextId  BY <1>1, <1>2, <1>4, <2>1 DEF Enters
  <2>2. CASE e # nextId  BY <1>1, <1>4, <2>2 DEF Enters
  <2> QED  BY <2>1, <2>2
<1>5. ASSUME NEW e \in Id, NEW u \in User,
             \/ Waits(store, e, u) /\ now <= log[e].deadline
             \/ log[e] = NoEntry /\ u \in log'[e].to,
             ~ (Waits(store', e, u) /\ now <= log'[e].deadline)
      PROVE  \/ seen'[e][u] = "acked"
             \/ seen'[e][u] # "no" /\ log'[e].qos = 1
             \/ Service!Overload
  <2>1. CASE e = nextId
    <3>1. ~ Waits(store, e, u)  BY <1>2, <2>1 DEF Waits
    <3>2. u \in L.to /\ log'[e] = L  BY <1>1, <1>5, <2>1, <3>1
    <3>3. ~ Waits(store', e, u)  BY <1>5, <3>2
    <3>4. L.qos = 1 /\ u \in S  BY <2>1, <3>2, <3>3 DEF Enters
    <3>5. seen'[e][u] = "sent"  BY <2>1, <3>4 DEF Enters
    <3> QED  BY <3>2, <3>4, <3>5
  <2>2. CASE e # nextId
    <3>1. log'[e] = log[e]  BY <1>1, <2>2
    <3>2. Waits(store, e, u) /\ now <= log[e].deadline  BY <1>5, <3>1 DEF NoEntry
    <3>3. ~ Waits(store', e, u)  BY <1>5, <3>1, <3>2
    <3>4. CASE seen'[e][u] # "acked"
      <4>1. \/ Cardinality(store.events) > MaxTotal
            \/ \E v \in User :
                 \E I \in SUBSET (store.userEvents[v] \cup {f \in Id : f = nextId /\ v \in L.to}) :
                   Cardinality(I) > MaxPerUser
        BY <2>2, <3>2, <3>3, <3>4
      <4>2. \A v \in User : {f \in Id : f = nextId /\ v \in log'[f].to}
                            = {f \in Id : f = nextId /\ v \in L.to}
        BY <1>1
      <4>3. \A f \in Id : f # nextId => log'[f] = log[f]  BY <1>1
      <4>4. CASE Cardinality(store.events) > MaxTotal  BY <4>3, <4>4, OverloadStep
      <4>5. CASE \E v \in User :
                   \E I \in SUBSET (store.userEvents[v] \cup {f \in Id : f = nextId /\ v \in L.to}) :
                     Cardinality(I) > MaxPerUser
        <5>1. \E v \in User :
                \E I \in SUBSET (store.userEvents[v] \cup {f \in Id : f = nextId /\ v \in log'[f].to}) :
                  Cardinality(I) > MaxPerUser
          BY <4>2, <4>5
        <5> QED  BY <4>3, <5>1, OverloadStep
      <4> QED  BY <4>1, <4>4, <4>5
    <3> QED  BY <3>4
  <2> QED  BY <2>1, <2>2
<1>6. Service!Serve \/ Service!Shed  BY <1>3, <1>4, <1>5, ServeOrShed
<1> QED  BY <1>6 DEF Service!Next

LEMMA PublishServes ==
  ASSUME RInv, IInv', NEW q \in inflight, Publish(q)
  PROVE  RInv' /\ Service!Next
<1> DEFINE n == nextId
           S == OnlineIds(q)
           L == [to |-> q.to \cup OnlineIds(q), qos |-> q.qos, deadline |-> now + q.ttl]
           m == MetaOf(q)
           U == IF q.qos = 1 THEN OfflineIds(q) ELSE OnlineIds(q) \cup OfflineIds(q)
<1>1. /\ TypeOK /\ Good(store) /\ Timed(store) /\ now \in Nat
      /\ \A f \in store.events : f < n
  BY DEF RInv, IInv, TypeOK
<1>2. n \in Id  BY <1>1, StoreAssumption DEF TypeOK, Publish, CanCreate, Id
<1>3. m \in Meta /\ S \in SUBSET User /\ OfflineIds(q) \in SUBSET User /\ q \in Request
  BY <1>1, MetaType
<1>4. q.qos \in 1 .. 2 /\ q.ttl \in Nat /\ q.to \in SUBSET User  BY <1>3 DEF Request
<1>5. /\ L \in LogEntry /\ S \subseteq L.to /\ U \in SUBSET User /\ now <= L.deadline
      /\ \A u \in User : u \in U <=> u \in L.to /\ ~ (L.qos = 1 /\ u \in S)
      /\ L.qos = m.qos /\ L.deadline = m.expiresAt /\ (m.notifyTo # NoUser => L.qos = 2)
      /\ L.qos = 2 => U = L.to
  BY <1>1, <1>3, <1>4 DEF LogEntry, OfflineIds, MetaOf
<1>6. /\ \A e \in Id : log'[e] = IF e = n THEN L ELSE log[e]
      /\ n' = n + 1 /\ UNCHANGED <<now, crashes>> /\ Send({n} \X S)
  BY <1>1, <1>2 DEF Publish, Record, TypeOK
<1>7. \/ U = {} /\ store' = store
      \/ U # {} /\ q.qos = 1 /\ store' = Create(store, n, U, m, now)
      \/ U # {} /\ q.qos = 2 /\ store' = MarkDelivered(Create(store, n, U, m, now), {n} \X S, now)
  BY DEF Publish, PublishQos1, PublishQos2
<1>8. log[n] = NoEntry /\ (\A u \in User : seen[n][u] = "no") /\ n \notin store.events
  BY <1>1, <1>2 DEF RInv, IInv, TypeOK, Fresh, Id
<1>9. /\ \A e \in Id, u \in User :
           seen'[e][u] = IF e = n THEN (IF u \in S THEN "sent" ELSE "no") ELSE seen[e][u]
      /\ redundant' = redundant
  <2>1. \A e \in Id, u \in User :
          seen'[e][u] = IF <<e, u>> \in {n} \X S /\ seen[e][u] = "no" THEN "sent" ELSE seen[e][u]
    BY <1>6 DEF Send
  <2>2. \A e \in Id, u \in User :
          seen'[e][u] = IF e = n THEN (IF u \in S THEN "sent" ELSE "no") ELSE seen[e][u]
    BY <1>8, <2>1
  <2>3. redundant' = redundant \cup {p \in {n} \X S : Done(p[1], p[2])}  BY <1>6 DEF Send
  <2>4. \A u : ~ Done(n, u)  BY <1>8 DEF Done, NoEntry
  <2>5. \A p \in {n} \X S : p[1] = n  OBVIOUS
  <2>6. {p \in {n} \X S : Done(p[1], p[2])} = {}  BY <2>4, <2>5
  <2> QED  BY <2>2, <2>3, <2>6
<1> HIDE DEF n, S, L, m, U
<1>10. /\ store'.events \subseteq store.events \cup {n}
       /\ n \in store'.events => store'.meta[n] = m /\ U # {}
       /\ \A e \in Id \ {n} : store'.meta[e] = store.meta[e]
       /\ \A e \in store'.emitted \ store.emitted :
            e \in store.events \ store'.events /\ store.meta[e].notifyTo # NoUser
       /\ \A u \in User : Waits(store', n, u) <=> u \in U
       /\ \A e \in Id \ {n}, u \in User : Waits(store', e, u) => Waits(store, e, u)
       /\ \A e \in Id \ {n}, u \in User : Waits(store, e, u) /\ ~ Waits(store', e, u) =>
            \/ Cardinality(store.events) > MaxTotal
            \/ \E v \in User : \E I \in SUBSET (store.userEvents[v] \cup {e2 \in {n} : v \in U}) :
                 Cardinality(I) > MaxPerUser
       /\ \A u \in User : n \in store'.events /\ store'.userStatus[n][u] # "none" => u \in U
       /\ \A e \in Id \ {n}, u \in User :
            store'.userStatus[e][u] # "none" => store.userStatus[e][u] # "none"
       /\ Timed(store')
  <2> DEFINE c == Create(store, n, U, m, now)
             d == MarkDelivered(c, {n} \X S, now)
  <2>1. Created(store, c, n, U, m)
    BY <1>1, <1>2, <1>3, <1>5, CreateWaits
  <2>2. Timed(c)  BY <1>1, MethodsTimed
  <2>3. Timed(d)  BY <2>2, MethodsTimed
  <2> HIDE DEF c
  <2>4. CASE U = {} /\ store' = store  BY <1>1, <1>8, <2>4 DEF Waits
  <2>5. CASE store' = c /\ U # {}  BY <2>1, <2>2, <2>5 DEF Created
  <2>6. CASE U # {} /\ q.qos = 2 /\ store' = d
    <3>1. \A e \in Id, u \in User : <<e, u>> \in {n} \X S => Waits(c, e, u) \/ e \notin c.events
      BY <1>5, <2>1, <2>6 DEF L, Created
    <3>2. /\ d.events = c.events /\ d.meta = c.meta /\ d.emitted = c.emitted
          /\ \A e \in Id, u \in User : Waits(d, e, u) <=> Waits(c, e, u)
          /\ \A e \in Id, u \in User : d.userStatus[e][u] = "none" <=> c.userStatus[e][u] = "none"
      BY <3>1, MarkDeliveredWaits
    <3> HIDE DEF d
    <3>3. store' = d /\ U # {}  BY <2>6
    <3> QED  BY <1>2, <2>1, <2>3, <3>2, <3>3 DEF Created
  <2> QED  BY <1>7, <2>4, <2>5, <2>6 DEF c, d
<1>11. store.events \subseteq Id /\ store'.events \subseteq Id
  BY <1>1 DEF IInv, Good, Store
<1>12. \A e \in store.events : log[e].qos = 2 =>
         \E u \in User : u \in log[e].to /\ seen'[e][u] # "acked"
  <2> SUFFICES ASSUME NEW e \in store.events, log[e].qos = 2
               PROVE  \E u \in User : u \in log[e].to /\ seen'[e][u] # "acked"
    OBVIOUS
  <2>1. e \in Id /\ e # n  BY <1>8, <1>11
  <2>2. PICK u \in log[e].to : seen[e][u] # "acked"  BY DEF RInv, Honest, Owed
  <2>3. u \in User  BY <1>1, <2>1 DEF TypeOK, LogEntry
  <2> QED  BY <1>9, <2>1, <2>2, <2>3
<1>13. Enters(L, S)
  <2>1. \A e \in Id \ {n} :
          \/ e \in store'.events /\ log[e].qos = 2
          \/ e \in store'.emitted \ store.emitted
          => \E u \in User : u \in log[e].to /\ seen'[e][u] # "acked"
    <3>1. \A e \in store'.emitted \ store.emitted : e \in store.events /\ log[e].qos = 2
      BY <1>10 DEF RInv, Agrees
    <3>2. \A e \in store'.events : e # n => e \in store.events  BY <1>10
    <3> QED  BY <1>12, <3>1, <3>2
  <2>2. n \in store'.events =>
          /\ L.qos = store'.meta[n].qos /\ L.deadline = store'.meta[n].expiresAt
          /\ store'.meta[n].notifyTo # NoUser => L.qos = 2
          /\ L.qos = 2 => L.to # {}
    BY <1>5, <1>10
  <2>3. \A e \in Id, u \in User :
          IF e = n
          THEN Waits(store', e, u) <=> u \in L.to /\ ~ (L.qos = 1 /\ u \in S)
          ELSE Waits(store', e, u) => Waits(store, e, u)
    BY <1>5, <1>10
  <2>4. \A e \in store'.events, u \in User :
          store'.userStatus[e][u] # "none" =>
            IF e = n THEN u \in L.to
            ELSE store.userStatus[e][u] # "none" \/ seen[e][u] # "no"
    BY <1>5, <1>10, <1>11
  <2>5. \A e \in store'.events : e # n => store'.meta[e] = store.meta[e]  BY <1>10, <1>11
  <2>6. store'.emitted \ store.emitted \subseteq store.events \ store'.events  BY <1>10
  <2>7. \A e \in Id, u \in User :
          IF e = n THEN seen'[e][u] = IF u \in S THEN "sent" ELSE "no"
          ELSE seen'[e][u] = seen[e][u]
    BY <1>9
  <2>8. L \in LogEntry /\ S \subseteq L.to  BY <1>5
  <2>9. store'.events \subseteq store.events \cup {n}  BY <1>10
  <2> QED  BY <1>6, <1>9, <2>1, <2>2, <2>3, <2>4, <2>5, <2>6, <2>7, <2>8, <2>9 DEF Enters, n
<1>14. RInv'  BY <1>10, <1>13, EnterKeeps
<1>15. \A e \in Id \ {nextId}, u \in User :
         Waits(store, e, u) /\ ~ Waits(store', e, u) /\ seen'[e][u] # "acked" =>
           \/ Cardinality(store.events) > MaxTotal
           \/ \E v \in User :
                \E I \in SUBSET (store.userEvents[v] \cup {f \in Id : f = nextId /\ v \in L.to}) :
                  Cardinality(I) > MaxPerUser
  <2>1. \A v \in User : {e2 \in {n} : v \in U} \subseteq {f \in Id : f = nextId /\ v \in L.to}
    BY <1>2, <1>5 DEF n
  <2>2. \A v \in User : SUBSET (store.userEvents[v] \cup {e2 \in {n} : v \in U})
          \subseteq SUBSET (store.userEvents[v] \cup {f \in Id : f = nextId /\ v \in L.to})
    BY <2>1
  <2> QED  BY <1>10, <2>2 DEF n
<1>16. Service!Next  BY <1>5, <1>6, <1>13, <1>14, <1>15, EnterServes
<1> QED  BY <1>14, <1>16

\* What an acknowledgement does before the sender is notified.
LEMMA AckApplies ==
  ASSUME RInv, NEW u0 \in User, NEW e0 \in store.events,
         seen[e0][u0] # "no", store.meta[e0].qos = 2
  PROVE  LET a == MarkApplied(store, {<<e0, u0>>})
         IN  /\ Good(a) /\ Timed(a)
             /\ a.events \subseteq store.events /\ a.meta = store.meta
             /\ a.emitted \subseteq store.emitted
             /\ \A u \in User : a.userEvents[u] \subseteq store.userEvents[u]
             /\ \A e \in Id, u \in User :
                  Waits(a, e, u) <=> Waits(store, e, u) /\ <<e, u>> # <<e0, u0>>
             /\ \A e \in Id, u \in User :
                  a.userStatus[e][u] # "none" => store.userStatus[e][u] # "none" \/ seen[e][u] # "no"
             /\ \A e \in a.events : log[e].qos = 2 =>
                  \E u \in User : /\ u \in log[e].to /\ seen[e][u] # "acked"
                                 /\ <<e, u>> # <<e0, u0>>
<1> DEFINE done == {<<e0, u0>>}
           a == MarkApplied(store, done)
<1>1. TypeOK /\ Good(store) /\ Timed(store) /\ store.events \subseteq Id
  BY DEF RInv, IInv, Good, Store
<1>2. Good(a) /\ Timed(a)  BY <1>1, MarkAppliedGood, MethodsTimed
<1>3. \A u \in User : a.userEvents[u] \subseteq store.userEvents[u]
  BY DEF MarkApplied, RemoveEvents, SetApplied
<1>4. /\ a.events \subseteq store.events /\ a.meta = store.meta /\ a.emitted \subseteq store.emitted
      /\ \A e \in Id, u \in User : Waits(a, e, u) <=> Waits(store, e, u) /\ <<e, u>> \notin done
      /\ \A e \in Id, u \in User :
           a.userStatus[e][u] # "none" => store.userStatus[e][u] # "none" \/ <<e, u>> \in done
      /\ \A e \in a.events : (\E u \in User : <<e, u>> \in done) => \E u \in User : Waits(a, e, u)
  BY <1>1, MarkAppliedWaits
<1> HIDE DEF a
<1>5. ASSUME NEW e \in a.events, log[e].qos = 2
      PROVE  \E u \in User : u \in log[e].to /\ seen[e][u] # "acked" /\ <<e, u>> # <<e0, u0>>
  <2>1. e \in Id /\ e \in store.events  BY <1>1, <1>4
  <2>2. CASE e = e0
    <3>1. PICK u \in User : Waits(a, e, u)  BY <1>4, <2>2
    <3>2. Waits(store, e, u) /\ <<e, u>> # <<e0, u0>>  BY <1>4, <2>1, <3>1
    <3>3. u \in log[e].to  BY <2>1, <3>2 DEF RInv, Known, Waits
    <3>4. seen[e][u] # "acked"  BY <1>5, <2>1, <3>2 DEF RInv, Quiet, Done
    <3> QED  BY <3>2, <3>3, <3>4
  <2>3. CASE e # e0
    <3>1. PICK u \in log[e].to : seen[e][u] # "acked"  BY <1>5, <2>1 DEF RInv, Honest, Owed
    <3>2. u \in User  BY <1>1, <2>1 DEF TypeOK, LogEntry
    <3> QED  BY <2>3, <3>1, <3>2
  <2> QED  BY <2>2, <2>3
<1>6. \A e \in Id, u \in User : <<e, u>> \in done => seen[e][u] # "no"  OBVIOUS
<1> QED  BY <1>2, <1>3, <1>4, <1>5, <1>6 DEF a

LEMMA AckServes ==
  ASSUME RInv, IInv', NEW u0 \in User, NEW e0 \in Id, Ack(u0, e0)
  PROVE  RInv' /\ Service!Next
<1> DEFINE n == nextId
           a == MarkApplied(store, {<<e0, u0>>})
           sender == store.meta[e0].notifyTo
           m == [qos |-> 1, expiresAt |-> now + AckTtl, notifyTo |-> NoUser]
           note == [to |-> {sender}, qos |-> 1, deadline |-> now + AckTtl]
           U == {sender}
           c == Create(a, n, U, m, now)
<1>1. /\ TypeOK /\ Good(store) /\ Timed(store) /\ now \in Nat /\ n \in Int
      /\ store.events \subseteq Id /\ \A f \in store.events : f < n /\ f # n
  BY DEF RInv, IInv, TypeOK, Good, Store, Id
<1>2. /\ e0 \in store.events /\ store.meta[e0].qos = 2 /\ seen[e0][u0] # "no"
      /\ seen' = [seen EXCEPT ![e0][u0] = "acked"] /\ UNCHANGED <<now, crashes, redundant>>
  BY DEF Ack
<1>3. log[e0].qos = 2 /\ e0 # n  BY <1>1, <1>2 DEF RInv, Agrees
<1>4. /\ Good(a) /\ Timed(a)
      /\ a.events \subseteq store.events /\ a.meta = store.meta /\ a.emitted \subseteq store.emitted
      /\ \A u \in User : a.userEvents[u] \subseteq store.userEvents[u]
      /\ \A e \in Id, u \in User :
           Waits(a, e, u) <=> Waits(store, e, u) /\ <<e, u>> # <<e0, u0>>
      /\ \A e \in Id, u \in User :
           a.userStatus[e][u] # "none" => store.userStatus[e][u] # "none" \/ seen[e][u] # "no"
      /\ \A e \in a.events : log[e].qos = 2 =>
           \E u \in User : /\ u \in log[e].to /\ seen[e][u] # "acked"
                          /\ <<e, u>> # <<e0, u0>>
  BY <1>2, AckApplies
<1>5. \/ store' = a /\ nextId' = nextId /\ log' = log
      \/ /\ sender # NoUser /\ CanCreate(AckTtl) /\ store' = c
         /\ log' = [log EXCEPT ![n] = note] /\ nextId' = nextId + 1
  BY DEF Ack
<1>6. \A e \in Id, u \in User :
        seen'[e][u] = IF <<e, u>> = <<e0, u0>> THEN "acked" ELSE seen[e][u]
  BY <1>1, <1>2 DEF TypeOK
<1>7. n \in Id => log[n] = NoEntry /\ \A u \in User : seen[n][u] = "no"
  BY <1>1 DEF RInv, Fresh
<1>8. \A e \in a.events : log[e].qos = 2 =>
        \E u \in User : u \in log[e].to /\ seen'[e][u] # "acked"
  <2> SUFFICES ASSUME NEW e \in a.events, log[e].qos = 2
               PROVE  \E u \in User : u \in log[e].to /\ seen'[e][u] # "acked"
    OBVIOUS
  <2>1. PICK u \in User : u \in log[e].to /\ seen[e][u] # "acked" /\ <<e, u>> # <<e0, u0>>
    BY <1>4
  <2>2. e \in Id  BY <1>1, <1>4
  <2>3. seen'[e][u] = seen[e][u]  BY <1>6, <2>1, <2>2
  <2> QED  BY <2>1, <2>3
<1>9. ~ Waits(a, e0, u0)  BY <1>4
<1>10. \A e \in Id, u \in User :
         IF e = n THEN seen'[e][u] = "no"
         ELSE \/ seen'[e][u] = seen[e][u]
              \/ /\ seen[e][u] # "no" /\ seen'[e][u] = "acked"
                 /\ e \in store.events /\ log[e].qos = 2 /\ ~ Waits(a, e, u)
  <2> SUFFICES ASSUME NEW e \in Id, NEW u \in User
               PROVE  IF e = n THEN seen'[e][u] = "no"
                      ELSE \/ seen'[e][u] = seen[e][u]
                           \/ /\ seen[e][u] # "no" /\ seen'[e][u] = "acked"
                              /\ e \in store.events /\ log[e].qos = 2 /\ ~ Waits(a, e, u)
    OBVIOUS
  <2>1. CASE <<e, u>> = <<e0, u0>>
    <3>1. e = e0 /\ u = u0 /\ seen'[e][u] = "acked"  BY <1>6, <2>1
    <3> QED  BY <1>2, <1>3, <1>9, <3>1
  <2>2. CASE <<e, u>> # <<e0, u0>>
    <3>1. seen'[e][u] = seen[e][u]  BY <1>6, <2>2
    <3> QED  BY <1>7, <3>1
  <2> QED  BY <2>1, <2>2
<1>11. \A e \in Id, u \in User : seen'[e][u] # "acked" => <<e, u>> # <<e0, u0>>  BY <1>6
<1> HIDE DEF a
<1>12. CASE store' = a /\ nextId' = nextId /\ log' = log
  <2> HIDE DEF n, m, note, U, c
  <2>1. Enters(NoEntry, {})
    <3>1. NoEntry \in LogEntry /\ NoEntry.to = {}  BY DEF NoEntry, LogEntry
    <3>2. nextId' = nextId /\ nextId \notin store'.events  BY <1>1, <1>4, <1>12 DEF n
    <3>3. \A e \in Id : log'[e] = IF e = nextId THEN NoEntry ELSE log[e]
      BY <1>7, <1>12 DEF n
    <3>4. \A e \in Id, u \in User :
            IF e = nextId THEN seen'[e][u] = IF u \in {} THEN "sent" ELSE "no"
            ELSE \/ seen'[e][u] = seen[e][u]
                 \/ /\ seen[e][u] # "no" /\ seen'[e][u] = "acked"
                    /\ e \in store.events /\ log[e].qos = 2 /\ ~ Waits(store', e, u)
      BY <1>10, <1>12 DEF n
    <3>5. store'.events \subseteq store.events /\ store'.meta = store.meta
      BY <1>4, <1>12
    <3>6. store'.emitted \ store.emitted = {}  BY <1>4, <1>12
    <3>7. \A e \in store'.events : log[e].qos = 2 =>
            \E u \in User : u \in log[e].to /\ seen'[e][u] # "acked"
      BY <1>8, <1>12
    <3>8. \A e \in Id, u \in User :
            IF e = nextId
            THEN Waits(store', e, u) <=> u \in NoEntry.to /\ ~ (NoEntry.qos = 1 /\ u \in {})
            ELSE Waits(store', e, u) => Waits(store, e, u)
      BY <1>4, <1>12, <3>1, <3>2 DEF Waits
    <3>9. \A e \in store'.events, u \in User :
            store'.userStatus[e][u] # "none" =>
              IF e = nextId THEN u \in NoEntry.to
              ELSE store.userStatus[e][u] # "none" \/ seen[e][u] # "no"
      BY <1>1, <1>4, <1>12, <3>2
    <3> QED  BY <1>2, <3>1, <3>2, <3>3, <3>4, <3>5, <3>6, <3>7, <3>8, <3>9 DEF Enters
  <2>2. Timed(store')  BY <1>4, <1>12
  <2>3. RInv'  BY <2>1, <2>2, EnterKeeps
  <2>4. \A e \in Id \ {nextId}, u \in User :
          ~ (Waits(store, e, u) /\ ~ Waits(store', e, u) /\ seen'[e][u] # "acked")
    BY <1>4, <1>11, <1>12
  <2>5. NoEntry.to = {}  BY DEF NoEntry
  <2>6. Service!Next  BY <1>2, <2>1, <2>3, <2>4, <2>5, EnterServes
  <2> QED  BY <2>3, <2>6
<1>13. CASE /\ sender # NoUser /\ CanCreate(AckTtl) /\ store' = c
            /\ log' = [log EXCEPT ![n] = note] /\ nextId' = nextId + 1
  <2>1. n \in Id  BY <1>1, <1>13, StoreAssumption DEF CanCreate, TypeOK, Id
  <2>2. sender \in User  BY <1>1, <1>13 DEF Good, Store, Meta
  <2>3. AckTtl \in Nat  BY DeliveryAssumption
  <2>4. m \in Meta /\ note \in LogEntry  BY <1>1, <2>2, <2>3 DEF Meta, LogEntry
  <2>5. \A f \in a.events : f < n  BY <1>1, <1>4
  <2>8. /\ m.qos = 1 /\ m.expiresAt = note.deadline /\ m.notifyTo = NoUser
        /\ note.qos = 1 /\ note.to = {sender} /\ now <= note.deadline
    BY <1>1, <2>3
  <2>9. \A e \in Id : log'[e] = IF e = n THEN note ELSE log[e]
    BY <1>1, <1>13, <2>1 DEF TypeOK
  <2>16. U \in SUBSET User /\ note.to = U  BY <2>2
  <2>17. Good(a)  BY <1>4
  <2> HIDE DEF n, m, note, sender, U
  <2>6. Created(a, c, n, U, m)  BY <2>1, <2>4, <2>5, <2>16, <2>17, CreateWaits
  <2>7. Timed(c)  BY <1>4, MethodsTimed
  <2>10. c.events \subseteq Id  BY <1>1, <1>4, <2>1, <2>6 DEF Created
  <2> HIDE DEF c
  <2>11. Enters(note, {})
    <3>1. note \in LogEntry /\ {} \subseteq note.to  BY <2>4
    <3>2. nextId' = nextId + 1  BY <1>13
    <3>3. \A e \in Id : log'[e] = IF e = nextId THEN note ELSE log[e]  BY <2>9 DEF n
    <3>4. \A e \in Id, u \in User :
            IF e = nextId THEN seen'[e][u] = IF u \in {} THEN "sent" ELSE "no"
            ELSE \/ seen'[e][u] = seen[e][u]
                 \/ /\ seen[e][u] # "no" /\ seen'[e][u] = "acked"
                    /\ e \in store.events /\ log[e].qos = 2 /\ ~ Waits(store', e, u)
      BY <1>10, <1>13, <2>6 DEF n, Created
    <3>5. store'.events \subseteq store.events \cup {nextId}  BY <1>4, <1>13, <2>6 DEF n, Created
    <3>6. nextId \in store'.events =>
            /\ note.qos = store'.meta[nextId].qos /\ note.deadline = store'.meta[nextId].expiresAt
            /\ store'.meta[nextId].notifyTo # NoUser => note.qos = 2
            /\ note.qos = 2 => note.to # {}
      BY <1>13, <2>6, <2>8 DEF n, Created
    <3>7. \A e \in store'.events : e # nextId => store'.meta[e] = store.meta[e]
      BY <1>4, <1>13, <2>6, <2>10 DEF n, Created
    <3>8. \A e \in store'.emitted \ store.emitted : e \in a.events \ store'.events /\ log[e].qos = 2
      <4>1. \A e \in store'.emitted \ store.emitted : e \in a.events \ store'.events /\ store.meta[e].notifyTo # NoUser
        BY <1>4, <1>13, <2>6 DEF Created
      <4> QED  BY <1>4, <4>1 DEF RInv, Agrees
    <3>9. store'.emitted \ store.emitted \subseteq store.events \ store'.events
      BY <1>4, <3>8
    <3>10. \A e \in Id \ {nextId} :
             \/ e \in store'.events /\ log[e].qos = 2
             \/ e \in store'.emitted \ store.emitted
             => \E u \in User : u \in log[e].to /\ seen'[e][u] # "acked"
      <4>1. \A e \in store'.events : e # nextId => e \in a.events  BY <1>13, <2>6 DEF n, Created
      <4> QED  BY <1>8, <3>8, <4>1
    <3>11. \A e \in Id, u \in User :
            IF e = nextId
            THEN Waits(store', e, u) <=> u \in note.to /\ ~ (note.qos = 1 /\ u \in {})
            ELSE Waits(store', e, u) => Waits(store, e, u)
      BY <1>4, <1>13, <2>6, <2>8, <2>16 DEF n, Created
    <3>12. \A e \in store'.events, u \in User :
            store'.userStatus[e][u] # "none" =>
              IF e = nextId THEN u \in note.to
              ELSE store.userStatus[e][u] # "none" \/ seen[e][u] # "no"
      BY <1>4, <1>13, <2>6, <2>8, <2>10, <2>16 DEF n, Created
    <3> QED  BY <1>2, <3>1, <3>2, <3>3, <3>4, <3>5, <3>6, <3>7, <3>9, <3>10, <3>11, <3>12 DEF Enters
  <2>12. Timed(store')  BY <1>13, <2>7
  <2>13. RInv'  BY <2>11, <2>12, EnterKeeps
  <2>14. ASSUME NEW e \in Id \ {nextId}, NEW u \in User,
                Waits(store, e, u), ~ Waits(store', e, u), seen'[e][u] # "acked"
         PROVE  \/ Cardinality(store.events) > MaxTotal
                \/ \E v \in User :
                     \E I \in SUBSET (store.userEvents[v] \cup {f \in Id : f = nextId /\ v \in note.to}) :
                       Cardinality(I) > MaxPerUser
    <3>1. Waits(a, e, u)  BY <1>4, <1>11, <2>14
    <3>2. CASE Cardinality(a.events) > MaxTotal
      <4>1. a.events \in SUBSET Id /\ store.events \in SUBSET Id  BY <1>1, <1>4
      <4>2. Cardinality(a.events) <= Cardinality(store.events)  BY <1>4, <4>1, IdFinite, FS_Subset
      <4>3. Cardinality(a.events) \in Nat /\ Cardinality(store.events) \in Nat  BY <4>1, IdFinite
      <4> QED  BY <3>2, <4>2, <4>3, StoreAssumption
    <3>3. CASE \E v \in User : \E I \in SUBSET (a.userEvents[v] \cup {e2 \in {n} : v \in U}) :
                 Cardinality(I) > MaxPerUser
      <4>1. \A v \in User : {e2 \in {n} : v \in U} \subseteq {f \in Id : f = nextId /\ v \in note.to}
        BY <2>1, <2>16 DEF n
      <4>2. \A v \in User : SUBSET (a.userEvents[v] \cup {e2 \in {n} : v \in U})
              \subseteq SUBSET (store.userEvents[v] \cup {f \in Id : f = nextId /\ v \in note.to})
        BY <1>4, <4>1
      <4> QED  BY <3>3, <4>2
    <3> QED  BY <1>13, <2>6, <2>14, <3>1, <3>2, <3>3 DEF n, Created
  <2>15. Service!Next  BY <1>2, <2>8, <2>11, <2>13, <2>14, EnterServes
  <2> QED  BY <2>13, <2>15
<1> QED  BY <1>5, <1>12, <1>13

\* A restart forgets what is owed; a new event may have been sent to some.
LEMMA RestartServes ==
  ASSUME RInv, IInv', NEW q \in inflight, PublishCrash(q) \/ QueryFails(q)
  PROVE  RInv' /\ Service!Next
<1>1. /\ TypeOK /\ Good(store) /\ nextId \in Int /\ now \in Nat
      /\ nextId \in Id => log[nextId] = NoEntry /\ \A u \in User : seen[nextId][u] = "no"
  BY DEF RInv, IInv, TypeOK, Fresh, Id
<1>2. store' = EmptyStore /\ crashes' = crashes + 1 /\ now' = now
  BY DEF PublishCrash, QueryFails, Restart
<1>3. /\ redundant' = redundant
      /\ \/ nextId' = nextId + 1
         \/ nextId' = nextId /\ \A e \in Id : log'[e] = log[e] /\ seen'[e] = seen[e]
      /\ \A e \in Id : e # nextId => log'[e] = log[e] /\ \A u \in User : seen'[e][u] = seen[e][u]
      /\ \A u \in User : nextId \in Id =>
           seen'[nextId][u] = "no" \/ (seen'[nextId][u] = "sent" /\ u \in log'[nextId].to)
  <2>1. CASE QueryFails(q)  BY <1>1, <2>1 DEF QueryFails
  <2>2. CASE PublishCrash(q)
    <3> DEFINE L == [to |-> q.to \cup OnlineIds(q), qos |-> q.qos, deadline |-> now + q.ttl]
    <3>1. PICK reached \in SUBSET OnlineIds(q) : Send({nextId} \X reached)
      BY <2>2 DEF PublishCrash
    <3>2. nextId \in Id  BY <1>1, <2>2, StoreAssumption DEF PublishCrash, CanCreate, TypeOK, Id
    <3>3. \A e \in Id : log'[e] = IF e = nextId THEN L ELSE log[e]
      BY <1>1, <2>2, <3>2 DEF PublishCrash, Record, TypeOK
    <3>4. \A e \in Id, u \in User :
            seen'[e][u] = IF <<e, u>> \in {nextId} \X reached /\ seen[e][u] = "no"
                          THEN "sent" ELSE seen[e][u]
      BY <3>1 DEF Send
    <3>5. reached \subseteq L.to  OBVIOUS
    <3> HIDE DEF L
    <3>6. redundant' = redundant
      <4>1. redundant' = redundant \cup {p \in {nextId} \X reached : Done(p[1], p[2])}
        BY <3>1 DEF Send
      <4>2. \A u : ~ Done(nextId, u)  BY <1>1, <3>2 DEF Done, NoEntry
      <4>3. \A p \in {nextId} \X reached : p[1] = nextId  OBVIOUS
      <4>4. {p \in {nextId} \X reached : Done(p[1], p[2])} = {}  BY <4>2, <4>3
      <4> QED  BY <4>1, <4>4
    <3>7. nextId' = nextId + 1  BY <2>2 DEF PublishCrash
    <3>8. \A e \in Id : e # nextId => log'[e] = log[e] /\ \A u \in User : seen'[e][u] = seen[e][u]
      BY <3>3, <3>4
    <3>9. \A u \in User :
            seen'[nextId][u] = "no" \/ (seen'[nextId][u] = "sent" /\ u \in log'[nextId].to)
      BY <1>1, <3>2, <3>3, <3>4, <3>5
    <3> QED  BY <3>6, <3>7, <3>8, <3>9
  <2> QED  BY <2>1, <2>2
<1>4. RInv'  BY <1>2, <1>3, RestartKeeps
<1>5. Service!Exchange
  <2>1. \A e \in Id, u \in User :
          \/ seen'[e][u] = seen[e][u]
          \/ /\ seen[e][u] = "no" /\ seen'[e][u] = "sent"
             /\ e = nextId \/ (Waits(store, e, u) /\ now <= log[e].deadline)
    BY <1>1, <1>3
  <2>2. \A e \in Id : e # nextId => log'[e] = log[e]  BY <1>3
  <2> QED  BY <1>2, <1>4, <2>1, <2>2, ExchangeStep
<1>6. Pending' = {}
  <2>1. \A u \in User : GetPending(store', u, now') = {}  BY <1>2 DEF EmptyStore, GetPending
  <2>2. Pending' = UNION {GetPending(store', u, now') \X {u} : u \in User}
    BY DEF Pending, GetPending, IsExpired
  <2> QED  BY <2>1, <2>2
<1>7. Service!Restart  BY <1>2, <1>5, <1>6 DEF Service!Restart
<1> QED  BY <1>4, <1>7 DEF Service!Next

-----------------------------------------------------------------------------
(* The theorems.                                                           *)

LEMMA InitRInv == Init => RInv /\ Service!Init
<1> SUFFICES ASSUME Init PROVE RInv /\ Service!Init  OBVIOUS
<1>1. IInv  BY InitIInv
<1>2. /\ store = EmptyStore /\ store.events = {} /\ store.emitted = {} /\ Timed(store)
      /\ \A e \in Id, u \in User : ~ Waits(store, e, u)
      /\ \A e \in Id : log[e] = NoEntry /\ \A u \in User : seen[e][u] = "no"
      /\ redundant = {}
  BY DEF Init, EmptyStore, Timed, Waits
<1>3. RInv
  BY <1>1, <1>2 DEF RInv, Agrees, Fresh, Known, Quiet, NoRedundantSend, Honest
<1>4. \A u \in User : GetPending(store, u, now) = {}
  BY DEF Init, EmptyStore, GetPending
<1>5. Pending = {}  BY <1>4 DEF Pending
<1>6. /\ {p \in Id \X User : seen[p[1]][p[2]] # "no"} = {}
      /\ {p \in Id \X User : seen[p[1]][p[2]] = "acked"} = {}
  BY <1>2
<1>7. Service!Init
  BY <1>5, <1>6 DEF Init, Service!Init, Service!Event, Service!NoEntry, Id, NoEntry
<1> QED  BY <1>3, <1>7

LEMMA NextRInv == RInv /\ [Next]_vars => RInv' /\ [Service!Next]_(Service!vars)
<1> SUFFICES ASSUME RInv, [Next]_vars
             PROVE  RInv' /\ (Service!Next \/ UNCHANGED Service!vars)
  OBVIOUS
<1>1. IInv'  BY NextIInv DEF RInv
<1>2. ASSUME NEW u \in User, Connect(u) PROVE RInv' /\ Service!Next
  BY <1>1, <1>2, ConnectServes
<1>3. ASSUME UNCHANGED <<store, nextId, log, seen, redundant, now, crashes>>
      PROVE  RInv' /\ UNCHANGED Service!vars
  <2>1. RInv'  BY <1>1, <1>3, QuietKeeps
  <2>2. UNCHANGED Service!vars  BY <1>3, QuietServes
  <2> QED  BY <2>1, <2>2
<1>4. ASSUME NEW u \in User, ConnectTooLate(u) \/ Disconnect(u) \/ Removed(u)
      PROVE  RInv' /\ UNCHANGED Service!vars
  BY <1>3, <1>4 DEF ConnectTooLate, Disconnect, Removed
<1>5. ASSUME NEW U \in SUBSET User, StartClose(U) PROVE RInv' /\ UNCHANGED Service!vars
  BY <1>3, <1>5 DEF StartClose
<1>6. ASSUME NEW h \in Handler, NEW r \in Route, NEW k \in Kind, BeginPublish(h, r, k)
      PROVE  RInv' /\ UNCHANGED Service!vars
  BY <1>3, <1>6 DEF BeginPublish
<1>7. ASSUME NEW q \in inflight, Publish(q) PROVE RInv' /\ Service!Next
  BY <1>1, <1>7, PublishServes
<1>8. ASSUME NEW q \in inflight, PublishCrash(q) \/ QueryFails(q) PROVE RInv' /\ Service!Next
  BY <1>1, <1>8, RestartServes
<1>9. ASSUME NEW u \in User, NEW e \in Id, Ack(u, e) PROVE RInv' /\ Service!Next
  BY <1>1, <1>9, AckServes
<1>10. ASSUME NEW e \in Id, ExpiryTimer(e) PROVE RInv' /\ Service!Next
  BY <1>1, <1>10, ExpiryServes
<1>11. CASE RetryTick  BY <1>1, <1>11, RetryServes
<1>12. CASE CleanupTick  BY <1>1, <1>12, CleanupServes
<1>13. CASE Tick
  <2>1. RInv'  BY <1>1, <1>13, QuietKeeps DEF Tick
  <2> QED  BY <1>13, <2>1, TickServes
<1>14. CASE UNCHANGED vars  BY <1>3, <1>14 DEF vars
<1> QED
  BY <1>2, <1>4, <1>5, <1>6, <1>7, <1>8, <1>9, <1>10, <1>11, <1>12, <1>13, <1>14 DEF Next

\* Store, waiting handlers and histories of Delivery belong together in every
\* reachable state: the inductive invariant behind the three theorems below.
THEOREM Related == Spec => []RInv
<1>1. Init => RInv  BY InitRInv
<1>2. RInv /\ [Next]_vars => RInv'  BY NextRInv
<1> QED  BY <1>1, <1>2, PTL DEF Spec

\* No client is sent a QoS 1 event twice, or a QoS 2 event whose acknowledgement
\* was processed, by publish, connect and retry in any order.
THEOREM NeverTwice == Spec => []NoRedundantSend
<1>1. RInv => NoRedundantSend  BY DEF RInv
<1> QED  BY <1>1, Related, PTL

\* event_expired is told to a sender only of an event that some target has not
\* acknowledged, however evictions, acks, timers and restarts interleave.
THEOREM HonestExpiry == Spec => []ExpiredIsHonest
<1>1. RInv => ExpiredIsHonest  BY DEF RInv, Honest, ExpiredIsHonest
<1> QED  BY <1>1, Related, PTL

\* The event store, its timers and its three senders implement the service: what
\* is pending is what is owed, and it is given up for the service's reasons only.
THEOREM Implements == Spec => KeepsPromise
<1>1. Init => Service!Init  BY InitRInv
<1>2. RInv /\ [Next]_vars => [Service!Next]_(Service!vars)  BY NextRInv
<1> QED  BY <1>1, <1>2, Related, PTL DEF Spec, KeepsPromise, Service!Spec

-----------------------------------------------------------------------------
(* What follows from the service alone.                                    *)

\* Pending holds the pairs that getPending() finds, before a step and after it.
LEMMA PendingOf ==
  /\ \A e \in Id, u \in User : <<e, u>> \in Pending <=> e \in GetPending(store, u, now)
  /\ \A e \in Id, u \in User : <<e, u>> \in Pending' <=> e \in GetPending(store', u, now')
<1>1. Pending' = UNION {GetPending(store', u, now') \X {u} : u \in User}
  BY DEF Pending, GetPending, IsExpired
<1>2. \A e \in Id, u \in User : <<e, u>> \in Pending <=> e \in GetPending(store, u, now)
  BY DEF Pending
<1>3. \A e \in Id, u \in User : <<e, u>> \in Pending' <=> e \in GetPending(store', u, now')
  BY <1>1
<1> QED  BY <1>2, <1>3

\* A service that is overloaded once remains so: what it accepted it knows.
LEMMA OverloadStays ==
  ASSUME RInv, RInv', \A e \in Id : log[e] = NoEntry \/ log'[e] = log[e],
         ~ Overloaded'
  PROVE  ~ Overloaded /\ ~ Service!Overload
<1> DEFINE all == {e \in Id : log[e] # NoEntry}
           new == {e \in Id : log'[e] # NoEntry}
           of(u) == {e \in Id : u \in log[e].to}
           newOf(u) == {e \in Id : u \in log'[e].to}
<1>1. \A S \in SUBSET Id, T \in SUBSET Id : S \subseteq T =>
        /\ Cardinality(S) \in Nat /\ Cardinality(T) \in Nat
        /\ Cardinality(S) <= Cardinality(T)
  BY IdFinite, FS_Subset
<1>2. ~ (Cardinality(new) > MaxTotal) /\ \A u \in User : ~ (Cardinality(newOf(u)) > MaxPerUser)
  BY DEF Overloaded
<1>3. all \subseteq new /\ \A u \in User : of(u) \subseteq newOf(u)
  BY DEF NoEntry
<1>4. all \in SUBSET Id /\ new \in SUBSET Id
      /\ \A u \in User : of(u) \in SUBSET Id /\ newOf(u) \in SUBSET Id
  OBVIOUS
<1>5. Service!Overload <=> \/ Cardinality(new) > MaxTotal
                           \/ \E v \in User : Cardinality(newOf(v)) > MaxPerUser
  <2>1. \A S : Service!Cardinality(S) = Cardinality(S)
    BY DEF Service!Cardinality, Cardinality
  <2> QED  BY <2>1 DEF Service!Overload, Service!Event, Service!NoEntry, Id, NoEntry
<1>6. Overloaded <=> \/ Cardinality(all) > MaxTotal
                     \/ \E v \in User : Cardinality(of(v)) > MaxPerUser
  BY DEF Overloaded
<1> HIDE DEF all, new, of, newOf
<1>7. ~ (Cardinality(all) > MaxTotal)
  BY <1>1, <1>2, <1>3, <1>4, StoreAssumption
<1>8. ASSUME NEW v \in User PROVE ~ (Cardinality(of(v)) > MaxPerUser)
  <2>1. /\ Cardinality(of(v)) \in Nat /\ Cardinality(newOf(v)) \in Nat
        /\ Cardinality(of(v)) <= Cardinality(newOf(v))
    BY <1>1, <1>3, <1>4
  <2> QED  BY <1>2, <2>1, StoreAssumption
<1> QED  BY <1>2, <1>5, <1>6, <1>7, <1>8

\* A service that serves, or lets time pass, keeps what it owes.
LEMMA ServiceKeeps ==
  ASSUME RInv, RInv', NoEarlyLoss, Service!Next
  PROVE  NoEarlyLoss'
<1>1. /\ TypeOK /\ TypeOK' /\ crashes \in Nat /\ now \in Nat /\ now' \in Nat
      /\ \A e \in Id : log[e].deadline \in Nat /\ log'[e].deadline \in Nat
  BY DEF RInv, IInv, TypeOK, LogEntry
<1>2. \A e \in Id, u \in User :
        /\ <<e, u>> \in Pending <=> e \in GetPending(store, u, now)
        /\ <<e, u>> \in Pending' <=> e \in GetPending(store', u, now')
  BY PendingOf
<1>3. \A e \in Id, u \in User :
        <<e, u>> \in Service!Entering <=> log[e] = NoEntry /\ u \in log'[e].to
  BY <1>1, EnteringPairs
<1>4. \A e \in Id, u \in User :
        <<e, u>> \in Service!Served =>
          seen'[e][u] = "acked" \/ log'[e].qos = 1
  BY DEF Service!Served
<1>5. Service!Exchange =>
        /\ now' = now
        /\ \A e \in Id : log[e] = NoEntry \/ log'[e] = log[e]
        /\ \A e \in Id, u \in User : seen[e][u] = "acked" => seen'[e][u] = "acked"
  <2> SUFFICES ASSUME Service!Exchange
               PROVE  /\ now' = now
                      /\ \A e \in Id : log[e] = NoEntry \/ log'[e] = log[e]
                      /\ \A e \in Id, u \in User : seen[e][u] = "acked" => seen'[e][u] = "acked"
    OBVIOUS
  <2>1. \A e \in Id : log[e] = NoEntry \/ log'[e] = log[e]
    BY DEF Service!Exchange, Service!Event, Service!Accepted, Service!NoEntry, Id, NoEntry
  <2>2. {p \in Id \X User : seen[p[1]][p[2]] = "acked"}
          \subseteq {p \in Id \X User : seen'[p[1]][p[2]] = "acked"}
    BY DEF Service!Exchange
  <2>3. ASSUME NEW e \in Id, NEW u \in User, seen[e][u] = "acked" PROVE seen'[e][u] = "acked"
    <3>1. <<e, u>> \in {p \in Id \X User : seen[p[1]][p[2]] = "acked"}  BY <2>3
    <3>2. <<e, u>> \in {p \in Id \X User : seen'[p[1]][p[2]] = "acked"}  BY <2>2, <3>1
    <3> QED  BY <3>2
  <2> QED  BY <2>1, <2>3 DEF Service!Exchange
<1>6. /\ Service!Serve => crashes' = crashes /\ Service!Exchange
      /\ Service!Shed => Service!Overload /\ Service!Exchange
      /\ Service!Restart => crashes' = crashes + 1
      /\ Service!Tick => /\ now' = now + 1 /\ log' = log /\ crashes' = crashes
                         /\ \A e \in Id, u \in User : seen'[e][u] = "acked" <=> seen[e][u] = "acked"
  <2>1. Service!Tick => /\ now' = now + 1 /\ log' = log /\ crashes' = crashes
                        /\ {p \in Id \X User : seen[p[1]][p[2]] = "acked"}
                             = {p \in Id \X User : seen'[p[1]][p[2]] = "acked"}
    BY DEF Service!Tick
  <2>2. ASSUME {p \in Id \X User : seen[p[1]][p[2]] = "acked"}
                 = {p \in Id \X User : seen'[p[1]][p[2]] = "acked"},
               NEW e \in Id, NEW u \in User
        PROVE  seen'[e][u] = "acked" <=> seen[e][u] = "acked"
    <3>1. /\ <<e, u>> \in {p \in Id \X User : seen[p[1]][p[2]] = "acked"} <=> seen[e][u] = "acked"
          /\ <<e, u>> \in {p \in Id \X User : seen'[p[1]][p[2]] = "acked"} <=> seen'[e][u] = "acked"
      OBVIOUS
    <3> QED  BY <2>2, <3>1
  <2> QED  BY <2>1, <2>2 DEF Service!Serve, Service!Shed, Service!Restart
<1> SUFFICES ASSUME crashes' = 0, ~ Overloaded', NEW e \in Id, log'[e].qos = 2,
                    now' <= log'[e].deadline, NEW u \in log'[e].to, seen'[e][u] # "acked"
             PROVE  <<e, u>> \in Pending'
  BY <1>1, <1>2 DEF NoEarlyLoss, Owed, TypeOK, LogEntry
<1>7. u \in User  BY <1>1 DEF TypeOK, LogEntry
<1>8. ASSUME crashes = 0, ~ Overloaded, log'[e] = log[e], now <= log[e].deadline,
             seen[e][u] # "acked"
      PROVE  <<e, u>> \in Pending
  BY <1>2, <1>7, <1>8 DEF NoEarlyLoss, Owed
<1>9. CASE Service!Serve
  <2>1. ~ Overloaded  BY <1>5, <1>6, <1>9, OverloadStays
  <2>2. <<e, u>> \in Pending \cup Service!Entering
    <3>1. CASE log[e] = NoEntry  BY <1>3, <1>7, <3>1
    <3>2. CASE log'[e] = log[e]  BY <1>5, <1>6, <1>7, <1>8, <1>9, <2>1, <3>2
    <3> QED  BY <1>5, <1>6, <1>9, <3>1, <3>2
  <2>3. <<e, u>> \notin Service!Served  BY <1>4, <1>7
  <2> QED  BY <1>9, <2>2, <2>3 DEF Service!Serve
<1>10. CASE Service!Shed  BY <1>5, <1>6, <1>10, OverloadStays
<1>11. CASE Service!Restart  BY <1>1, <1>6, <1>11
<1>12. CASE Service!Tick
  <2>1. ~ Overloaded  BY <1>6, <1>12 DEF Overloaded
  <2>2. <<e, u>> \in Pending  BY <1>1, <1>6, <1>7, <1>8, <1>12, <2>1
  <2>3. Pending' = {p \in Pending : now' <= log[p[1]].deadline}
    BY <1>12 DEF Service!Tick
  <2> QED  BY <1>6, <1>12, <2>2, <2>3
<1> QED  BY <1>9, <1>10, <1>11, <1>12 DEF Service!Next

\* A process that lives and is not asked for more than its limits forgets no QoS 2
\* event before its deadline: what the refinement is good for.
THEOREM NothingLost == Spec => []NoEarlyLoss
<1>1. Init => NoEarlyLoss
  BY DEF Init, NoEarlyLoss, NoEntry
<1>2. RInv /\ NoEarlyLoss /\ [Next]_vars => NoEarlyLoss'
  <2> SUFFICES ASSUME RInv, NoEarlyLoss, [Next]_vars PROVE NoEarlyLoss'  OBVIOUS
  <2>1. RInv' /\ [Service!Next]_(Service!vars)  BY NextRInv
  <2>2. CASE Service!Next  BY <2>1, <2>2, ServiceKeeps
  <2>3. CASE UNCHANGED Service!vars
    <3> USE <2>3 DEF Service!vars
    <3>1. log' = log /\ now' = now /\ crashes' = crashes /\ Pending' = Pending
          /\ {p \in Id \X User : seen[p[1]][p[2]] = "acked"}
               = {p \in Id \X User : seen'[p[1]][p[2]] = "acked"}
      OBVIOUS
    <3>2. \A e \in Id, u \in User : seen'[e][u] = "acked" <=> seen[e][u] = "acked"
      <4> SUFFICES ASSUME NEW e \in Id, NEW u \in User
                   PROVE  seen'[e][u] = "acked" <=> seen[e][u] = "acked"
        OBVIOUS
      <4>1. /\ <<e, u>> \in {p \in Id \X User : seen[p[1]][p[2]] = "acked"} <=> seen[e][u] = "acked"
            /\ <<e, u>> \in {p \in Id \X User : seen'[p[1]][p[2]] = "acked"} <=> seen'[e][u] = "acked"
        OBVIOUS
      <4> QED  BY <3>1, <4>1
    <3>3. \A e \in Id, u \in User :
            e \in GetPending(store, u, now) <=> e \in GetPending(store', u, now')
      <4> HIDE <2>3 DEF Service!vars
      <4> QED  BY <3>1, PendingOf
    <3>4. \A e \in Id : log[e].to \subseteq User  BY DEF RInv, IInv, TypeOK, LogEntry
    <3> QED  BY <3>1, <3>2, <3>3, <3>4 DEF NoEarlyLoss, Overloaded, Owed, GetPending, IsExpired
  <2> QED  BY <2>1, <2>2, <2>3
<1> QED  BY <1>1, <1>2, Related, PTL DEF Spec

-----------------------------------------------------------------------------
(* The limits.                                                             *)

\* Without a new event nothing is pending that was not pending before: a step of
\* the service adds only what enters.
LEMMA NothingEnters ==
  ASSUME RInv, RInv', [Service!Next]_(Service!vars), log' = log
  PROVE  Pending' \subseteq Pending
<1>1. Service!Entering = {}
  <2>1. TypeOK /\ TypeOK'  BY DEF RInv, IInv
  <2>2. \A e \in Id, u \in User : <<e, u>> \notin Service!Entering
    <3> SUFFICES ASSUME NEW e \in Id, NEW u \in User, <<e, u>> \in Service!Entering
                 PROVE  FALSE
      OBVIOUS
    <3>1. log[e] = NoEntry /\ u \in log'[e].to  BY <2>1, EnteringPairs
    <3>2. NoEntry.to = {}  BY DEF NoEntry
    <3> QED  BY <3>1, <3>2
  <2>3. Service!Entering \subseteq Id \X User  BY <2>1, EnteringPairs
  <2> QED  BY <2>2, <2>3
<1>2. CASE Service!Serve  BY <1>1, <1>2 DEF Service!Serve
<1>3. CASE Service!Shed  BY <1>1, <1>3 DEF Service!Shed
<1>4. CASE Service!Restart  BY <1>4 DEF Service!Restart
<1>5. CASE Service!Tick  BY <1>5 DEF Service!Tick
<1>6. CASE UNCHANGED Service!vars  BY <1>6 DEF Service!vars
<1> QED  BY <1>2, <1>3, <1>4, <1>5, <1>6 DEF Service!Next

Limits == WithinTotal(store) /\ WithinPerUser(store, now)

\* Sets that shrink keep a bound.
LEMMA BoundShrinks ==
  ASSUME NEW S \in SUBSET Id, NEW T \in SUBSET S, NEW n \in Nat, Cardinality(S) <= n
  PROVE  Cardinality(T) <= n
<1>1. T \in SUBSET Id  OBVIOUS
<1>2. IsFiniteSet(S) /\ Cardinality(S) \in Nat /\ Cardinality(T) \in Nat  BY <1>1, IdFinite
<1>3. Cardinality(T) <= Cardinality(S)  BY <1>2, FS_Subset
<1> QED  BY <1>2, <1>3

\* A store with no more records and no more pending events is within its limits.
LEMMA FewerKeepsLimits ==
  ASSUME NEW s, NEW r, Good(s), Good(r), NEW t, NEW t2, WithinTotal(s), WithinPerUser(s, t),
         r.events \subseteq s.events,
         \A u \in User : GetPending(r, u, t2) \subseteq GetPending(s, u, t)
  PROVE  WithinTotal(r) /\ WithinPerUser(r, t2)
<1>1. s.events \in SUBSET Id /\ \A u \in User : GetPending(s, u, t) \in SUBSET Id
  BY EvictedPending DEF Good, Store
<1>2. WithinTotal(r)
  <2>1. Cardinality(s.events) <= MaxTotal + 1 /\ MaxTotal + 1 \in Nat
    BY StoreAssumption DEF WithinTotal
  <2>2. Cardinality(r.events) <= MaxTotal + 1  BY <1>1, <2>1, BoundShrinks
  <2> QED  BY <2>2 DEF WithinTotal
<1>3. ASSUME NEW u \in User PROVE Cardinality(GetPending(r, u, t2)) <= MaxPerUser
  <2>1. Cardinality(GetPending(s, u, t)) <= MaxPerUser /\ MaxPerUser \in Nat
    BY StoreAssumption DEF WithinPerUser
  <2> QED  BY <1>1, <2>1, BoundShrinks
<1> QED  BY <1>2, <1>3 DEF WithinPerUser

\* Publishing creates one record at most, and marks it.
LEMMA PublishLimits ==
  ASSUME RInv, Limits, NEW q \in inflight, Publish(q)
  PROVE  Limits'
<1>1. /\ TypeOK /\ Good(store) /\ now \in Nat /\ now' = now
      /\ \A f \in store.events : f < nextId
  BY DEF RInv, IInv, TypeOK, Publish
<1>2. nextId \in Id
  BY <1>1, StoreAssumption DEF TypeOK, Publish, CanCreate, Id
<1>3. MetaOf(q) \in Meta /\ OnlineIds(q) \in SUBSET User /\ OfflineIds(q) \in SUBSET User
  BY <1>1, MetaType
<1>4. \A U \in SUBSET User :
        LET c == Create(store, nextId, U, MetaOf(q), now)
        IN  /\ Good(c) /\ \A u \in U : nextId \in c.userEvents[u]
            /\ WithinTotal(c) /\ WithinPerUser(c, now)
  <2> SUFFICES ASSUME NEW U \in SUBSET User
               PROVE  LET c == Create(store, nextId, U, MetaOf(q), now)
                      IN  /\ Good(c) /\ \A u \in U : nextId \in c.userEvents[u]
                          /\ WithinTotal(c) /\ WithinPerUser(c, now)
    OBVIOUS
  <2> DEFINE c == Create(store, nextId, U, MetaOf(q), now)
  <2>1. Good(c) /\ \A u \in U : nextId \in c.userEvents[u]
    BY <1>1, <1>2, <1>3, CreateGood
  <2>2. WithinTotal(c)  BY <1>1, <1>2, <1>3, CreateTotal DEF Limits
  <2>3. WithinPerUser(c, now)  BY <1>1, <1>2, <1>3, CreatePerUser DEF Limits
  <2> QED  BY <2>1, <2>2, <2>3
<1>5. CASE q.qos = 1 /\ PublishQos1(q)
  <2>1. store' = store \/ store' = Create(store, nextId, OfflineIds(q), MetaOf(q), now)
    BY <1>5 DEF PublishQos1
  <2>2. WithinTotal(store') /\ WithinPerUser(store', now)
    BY <1>3, <1>4, <2>1 DEF Limits
  <2> QED  BY <1>1, <2>2 DEF Limits, WithinTotal, WithinPerUser, GetPending, IsExpired
<1>6. CASE q.qos = 2 /\ PublishQos2(q)
  <2> DEFINE all == OnlineIds(q) \cup OfflineIds(q)
             sent == {nextId} \X OnlineIds(q)
             c == Create(store, nextId, all, MetaOf(q), now)
             d == MarkDelivered(c, sent, now)
  <2>1. /\ Good(c) /\ \A u \in all : nextId \in c.userEvents[u]
        /\ WithinTotal(c) /\ WithinPerUser(c, now)
    BY <1>3, <1>4
  <2>2. store' = IF all = {} THEN store ELSE d
    BY <1>6 DEF PublishQos2
  <2>3. \A e \in c.events, u \in User : <<e, u>> \in sent => e \in c.userEvents[u]
    BY <2>1
  <2> HIDE DEF c, sent, all
  <2>4. Good(d) /\ d.events = c.events
    BY <1>1, <2>1, <2>3, MarkDeliveredGood, MarksAddNothing
  <2>5. \A u \in User : GetPending(d, u, now) \subseteq GetPending(c, u, now)
    <3> SUFFICES ASSUME NEW u \in User
                 PROVE  GetPending(d, u, now) \subseteq GetPending(c, u, now)
      OBVIOUS
    <3>1. c.userEvents[u] \in SUBSET Id  BY <2>1 DEF Good, Store
    <3>2. /\ d.events = c.events /\ d.meta = c.meta /\ d.userEvents = c.userEvents
          /\ \A e \in Id : d.userStatus[e][u] # "APPLIED" => c.userStatus[e][u] # "APPLIED"
      BY DEF MarkDelivered
    <3> HIDE DEF d
    <3> QED  BY <3>1, <3>2 DEF GetPending, IsExpired
  <2> HIDE DEF d
  <2>6. WithinTotal(d) /\ WithinPerUser(d, now)
    BY <2>1, <2>4, <2>5, FewerKeepsLimits
  <2>7. WithinTotal(store') /\ WithinPerUser(store', now)
    BY <2>2, <2>6 DEF Limits
  <2> QED  BY <1>1, <2>7 DEF Limits, WithinTotal, WithinPerUser, GetPending, IsExpired
<1> QED  BY <1>5, <1>6 DEF Publish

\* An acknowledgement may create the note to a sender that is away.
LEMMA AckLimits ==
  ASSUME RInv, Limits, NEW u0 \in User, NEW e0 \in Id, Ack(u0, e0)
  PROVE  Limits'
<1> DEFINE done == {<<e0, u0>>}
           a == MarkApplied(store, done)
           sender == store.meta[e0].notifyTo
           m == [qos |-> 1, expiresAt |-> now + AckTtl, notifyTo |-> NoUser]
           c == Create(a, nextId, {sender}, m, now)
<1>1. /\ TypeOK /\ Good(store) /\ now \in Nat /\ now' = now
      /\ \A f \in store.events : f < nextId
  BY DEF RInv, IInv, TypeOK, Ack
<1>2. Good(a) /\ a.events \subseteq store.events
  BY <1>1, MarkAppliedGood, MarksAddNothing
<1>3. \A u \in User : GetPending(a, u, now) \subseteq GetPending(store, u, now)
  <2> SUFFICES ASSUME NEW u \in User
               PROVE  GetPending(a, u, now) \subseteq GetPending(store, u, now)
    OBVIOUS
  <2>1. /\ a.meta = store.meta
        /\ \A e \in Id, v \in User : Waits(a, e, v) => Waits(store, e, v)
    BY <1>1, MarkAppliedWaits
  <2>2. GetPending(a, u, now) \subseteq Id  BY <1>2, EvictedPending DEF Good
  <2> HIDE DEF a
  <2>3. ASSUME NEW e \in GetPending(a, u, now) PROVE e \in GetPending(store, u, now)
    <3>1. Waits(a, e, u) /\ now <= a.meta[e].expiresAt  BY <1>1, <1>2, <2>2, PendingIsWaiting
    <3> QED  BY <1>1, <2>1, <2>2, <3>1, PendingIsWaiting
  <2> QED  BY <2>3
<1>4. \/ store' = a
      \/ sender # NoUser /\ CanCreate(AckTtl) /\ store' = c
  BY DEF Ack
<1> HIDE DEF a
<1>5. WithinTotal(a) /\ WithinPerUser(a, now)
  BY <1>1, <1>2, <1>3, FewerKeepsLimits DEF Limits
<1>6. CASE sender # NoUser /\ CanCreate(AckTtl) /\ store' = c
  <2>1. nextId \in Id  BY <1>1, <1>6, StoreAssumption DEF TypeOK, CanCreate, Id
  <2>2. m \in Meta  BY <1>1, DeliveryAssumption DEF Meta
  <2>3. {sender} \in SUBSET User  BY <1>1, <1>6 DEF Good, Store, Meta
  <2>4. \A f \in a.events : f < nextId  BY <1>1, <1>2
  <2> HIDE DEF m, sender
  <2>5. WithinTotal(c)  BY <1>2, <1>5, <2>1, <2>2, <2>3, <2>4, CreateTotal
  <2>6. WithinPerUser(c, now)  BY <1>2, <1>5, <2>1, <2>2, <2>3, <2>4, CreatePerUser
  <2> HIDE DEF c
  <2> QED  BY <1>1, <1>6, <2>5, <2>6 DEF Limits, WithinTotal, WithinPerUser, GetPending, IsExpired
<1>7. CASE store' = a
  BY <1>1, <1>5, <1>7 DEF Limits, WithinTotal, WithinPerUser, GetPending, IsExpired
<1> QED  BY <1>4, <1>6, <1>7

\* No other step creates a record.
LEMMA OthersLimits ==
  ASSUME RInv, RInv', [Service!Next]_(Service!vars), Limits,
         store'.events \subseteq store.events, log' = log
  PROVE  Limits'
<1>1. Pending' \subseteq Pending  BY NothingEnters
<1>2. \A e \in Id, u \in User :
        /\ <<e, u>> \in Pending <=> e \in GetPending(store, u, now)
        /\ <<e, u>> \in Pending' <=> e \in GetPending(store', u, now')
  BY PendingOf
<1>3. Good(store) /\ Good(store')  BY DEF RInv, IInv, Good, Store, IndexSound, IndexComplete, Cleared
<1>4. \A u \in User : GetPending(store', u, now') \in SUBSET Id
  BY <1>3, EvictedPending DEF Good
<1>5. \A u \in User : GetPending(store', u, now') \subseteq GetPending(store, u, now)
  BY <1>1, <1>2, <1>4
<1>6. WithinTotal(store') /\ WithinPerUser(store', now')
  BY <1>3, <1>5, FewerKeepsLimits DEF Limits
<1> QED  BY <1>6 DEF Limits, WithinTotal, WithinPerUser, GetPending, IsExpired

\* A restart empties the store.
LEMMA RestartLimits ==
  ASSUME Restart
  PROVE  Limits'
<1>1. store'.events = {} /\ \A u \in User : GetPending(store', u, now') = {}
  BY DEF Restart, EmptyStore, GetPending
<1>2. Cardinality({}) = 0  BY FS_EmptySet
<1>3. WithinTotal(store') /\ WithinPerUser(store', now')
  BY <1>1, <1>2, StoreAssumption DEF WithinTotal, WithinPerUser
<1> QED  BY <1>3 DEF Limits, WithinTotal, WithinPerUser, GetPending, IsExpired

LEMMA NextLimits == RInv /\ Limits /\ [Next]_vars => Limits'
<1> SUFFICES ASSUME RInv, Limits, [Next]_vars PROVE Limits'  OBVIOUS
<1>1. RInv' /\ [Service!Next]_(Service!vars)  BY NextRInv
<1>2. Good(store)  BY DEF RInv, IInv
<1>3. ASSUME NEW q \in inflight, Publish(q) PROVE Limits'  BY <1>3, PublishLimits
<1>4. ASSUME NEW u \in User, NEW e \in Id, Ack(u, e) PROVE Limits'  BY <1>4, AckLimits
<1>5. ASSUME NEW q \in inflight, PublishCrash(q) \/ QueryFails(q) PROVE Limits'
  BY <1>5, RestartLimits DEF PublishCrash, QueryFails
<1>6. ASSUME NEW u \in User, Connect(u) PROVE Limits'
  <2>1. store'.events \subseteq store.events /\ log' = log
    BY <1>6, MarksAddNothing DEF Connect, DeliverPending
  <2> QED  BY <1>1, <2>1, OthersLimits
<1>7. CASE RetryTick
  <2>1. store'.events \subseteq store.events /\ log' = log
    BY <1>7, MarksAddNothing DEF RetryTick
  <2> QED  BY <1>1, <2>1, OthersLimits
<1>8. ASSUME NEW e \in Id, ExpiryTimer(e) PROVE Limits'
  <2>1. store'.events \subseteq store.events /\ log' = log
    BY <1>8 DEF ExpiryTimer, RemoveEvents
  <2> QED  BY <1>1, <2>1, OthersLimits
<1>9. CASE CleanupTick
  <2>1. store'.events \subseteq store.events /\ log' = log
    BY <1>2, <1>9, CleanupGood DEF CleanupTick
  <2> QED  BY <1>1, <2>1, OthersLimits
<1>10. ASSUME store' = store, log' = log PROVE Limits'
  BY <1>1, <1>10, OthersLimits
<1>11. ASSUME NEW u \in User, ConnectTooLate(u) \/ Disconnect(u) \/ Removed(u) PROVE Limits'
  BY <1>10, <1>11 DEF ConnectTooLate, Disconnect, Removed
<1>12. ASSUME NEW U \in SUBSET User, StartClose(U) PROVE Limits'
  BY <1>10, <1>12 DEF StartClose
<1>13. ASSUME NEW h \in Handler, NEW r \in Route, NEW k \in Kind, BeginPublish(h, r, k)
       PROVE  Limits'
  BY <1>10, <1>13 DEF BeginPublish
<1>14. CASE Tick  BY <1>10, <1>14 DEF Tick
<1>15. CASE UNCHANGED vars  BY <1>10, <1>15 DEF vars
<1> QED
  BY <1>3, <1>4, <1>5, <1>6, <1>7, <1>8, <1>9, <1>11, <1>12, <1>13, <1>14, <1>15 DEF Next

\* Both limits hold in every state: forced cleanup and eviction take enough.
LEMMA LimitsHold == Spec => []Limits
<1>1. Init => Limits
  <2> SUFFICES ASSUME Init PROVE Limits  OBVIOUS
  <2>1. store.events = {} /\ \A u \in User : GetPending(store, u, now) = {}
    BY DEF Init, EmptyStore, GetPending
  <2>2. Cardinality({}) = 0  BY FS_EmptySet
  <2> QED  BY <2>1, <2>2, StoreAssumption DEF Limits, WithinTotal, WithinPerUser
<1>2. RInv /\ Limits /\ [Next]_vars => Limits'  BY NextLimits
<1> QED  BY <1>1, <1>2, Related, PTL DEF Spec

\* The store never holds more than one record above EVENT_STORE_MAX_TOTAL: forced
\* cleanup takes at least one from a store that is above the limit.
THEOREM TotalBounded == Spec => []TotalBound
<1>1. Limits => TotalBound  BY DEF Limits, WithinTotal, TotalBound
<1> QED  BY <1>1, LimitsHold, PTL

\* No user ever has more events pending than EVENT_STORE_MAX_PER_USER, although the
\* eviction counts on two different lists.
THEOREM PendingBounded == Spec => []PendingBound
<1>1. Limits => PendingBound  BY DEF Limits, WithinPerUser, PendingBound
<1> QED  BY <1>1, LimitsHold, PTL

-----------------------------------------------------------------------------
(* What the intervals achieve.  Fairness is written out, as the prover has  *)
(* no rule for ENABLED: an interval keeps firing, or again and again finds  *)
(* nothing to do.  WF_vars of the two actions implies it, since an interval *)
(* that has something to do can do it (CleanupIsPossible, RetryIsPossible). *)

SweepIsDue == \E e \in store.events : IsExpired(store, e, now)

SweepFires == []<>~ SweepIsDue \/ []<><<CleanupTick>>_vars

RetryIsDue ==
  \E e \in Id, u \in User : /\ store.userStatus[e][u] = "STORED" /\ conn[u] = "open"
                            /\ ~ IsExpired(store, e, now)

RetryFires == []<>~ RetryIsDue \/ []<><<RetryTick>>_vars

\* The cleanup interval removes whatever has expired.
LEMMA CleanupSweeps ==
  \A s, t : \A e \in Cleanup(s, t).events : e \in s.events /\ ~ IsExpired(s, e, t)
<1>1. \A s, t : \A e \in CleanupExpiredEvents(s, t).events : e \in s.events /\ ~ IsExpired(s, e, t)
  BY DEF CleanupExpiredEvents, RemoveEvents
<1>2. \A s, t : CleanupStaleDelivered(s, t).events = s.events  BY DEF CleanupStaleDelivered
<1>3. \A s : EnforceMemoryLimits(s).events \subseteq s.events
  BY DEF EnforceMemoryLimits, ForceCleanup, RemoveEvents
<1> QED  BY <1>1, <1>2, <1>3 DEF Cleanup

\* With an expired record the cleanup interval has a step to take.
LEMMA CleanupIsPossible == SweepIsDue => Cleanup(store, now) # store
  BY CleanupSweeps DEF SweepIsDue

\* Expired stays expired: a record keeps its deadline, and the clock only advances.
LEMMA ExpiredStays ==
  ASSUME RInv, RInv', [Service!Next]_(Service!vars),
         NEW e \in Id, e \in store.events, IsExpired(store, e, now), e \in store'.events
  PROVE  IsExpired(store', e, now')
<1>1. log[e].deadline = store.meta[e].expiresAt /\ log'[e].deadline = store'.meta[e].expiresAt
  BY DEF RInv, Agrees
<1>2. log[e] # NoEntry
  <2>1. log[e].qos = store.meta[e].qos /\ store.meta[e] \in Meta
    BY DEF RInv, Agrees, IInv, Good, Store
  <2> QED  BY <2>1 DEF Meta, NoEntry
<1>3. now \in Int /\ now' \in Int  BY DEF RInv, IInv, TypeOK
<1>4. log[e].deadline \in Int  BY DEF RInv, IInv, TypeOK, LogEntry
<1>5. log'[e] = log[e] /\ now' >= now
  <2>1. CASE Service!Exchange
    BY <1>2, <1>3, <2>1 DEF Service!Exchange, Service!Accepted, Service!NoEntry, NoEntry,
       Service!Event, Id
  <2>2. CASE Service!Tick  BY <1>3, <2>2 DEF Service!Tick
  <2>3. CASE UNCHANGED Service!vars  BY <1>3, <2>3 DEF Service!vars
  <2> QED
    BY <2>1, <2>2, <2>3 DEF Service!Next, Service!Serve, Service!Shed, Service!Restart
<1> QED  BY <1>1, <1>3, <1>4, <1>5 DEF IsExpired

\* As long as the cleanup interval keeps firing, every expired record goes, whatever
\* its TTL timer does.
THEOREM ExpiredLeave == Spec /\ SweepFires => ExpiredIsRemoved
<1> DEFINE P(e) == e \in store.events /\ IsExpired(store, e, now)
<1>1. ASSUME NEW e \in Id PROVE Spec /\ SweepFires => (P(e) ~> e \notin store.events)
  <2>1. RInv /\ RInv' /\ [Next]_vars /\ P(e) => P(e)' \/ (e \notin store.events)'
    <3> SUFFICES ASSUME RInv, RInv', [Next]_vars, P(e), e \in store'.events
                 PROVE  IsExpired(store', e, now')
      BY DEF IsExpired
    <3> QED  BY NextRInv, ExpiredStays
  <2>2. <<CleanupTick>>_vars => (e \notin store.events)' \/ ~ P(e)
    BY CleanupSweeps DEF CleanupTick
  <2>3. P(e) => SweepIsDue  BY DEF SweepIsDue
  <2> HIDE DEF P
  <2> QED  BY <2>1, <2>2, <2>3, Related, PTL DEF Spec, SweepFires
<1> QED  BY <1>1 DEF ExpiredIsRemoved

\* What the methods do to a user's status: they keep it, drop it, or mark the pairs
\* they are told to mark.
LEMMA StatusAfter ==
  ASSUME NEW e \in Id, NEW u \in User, NEW s, NEW t
  PROVE  /\ \A R, emits : RemoveEvents(s, R, emits).userStatus[e][u]
                            \in {s.userStatus[e][u], "none"}
         /\ \A done : <<e, u>> \notin done =>
              MarkApplied(s, done).userStatus[e][u] \in {s.userStatus[e][u], "none"}
         /\ \A sent : <<e, u>> \notin sent =>
              /\ MarkDelivered(s, sent, t).userStatus[e][u] = s.userStatus[e][u]
              /\ MarkSent(s, sent, t).userStatus[e][u] \in {s.userStatus[e][u], "none"}
         /\ \A n \in Id : \A U, m : n # e /\ s.userStatus \in [Id -> [User -> Status]] =>
              Create(s, n, U, m, t).userStatus[e][u] \in {s.userStatus[e][u], "none"}
         /\ s.userStatus[e][u] = "STORED" =>
              Cleanup(s, t).userStatus[e][u] \in {"STORED", "none"}
<1>1. \A x, R, emits : RemoveEvents(x, R, emits).userStatus[e][u] \in {x.userStatus[e][u], "none"}
  BY DEF RemoveEvents
<1>2. \A x, done : <<e, u>> \notin done =>
        SetApplied(x, done).userStatus[e][u] = x.userStatus[e][u]
  BY DEF SetApplied
<1>3. \A x, done : <<e, u>> \notin done =>
        MarkApplied(x, done).userStatus[e][u] \in {x.userStatus[e][u], "none"}
  <2> SUFFICES ASSUME NEW x, NEW done, <<e, u>> \notin done
               PROVE  MarkApplied(x, done).userStatus[e][u] \in {x.userStatus[e][u], "none"}
    OBVIOUS
  <2>1. SetApplied(x, done).userStatus[e][u] = x.userStatus[e][u]  BY <1>2
  <2>2. MarkApplied(x, done).userStatus[e][u] \in {SetApplied(x, done).userStatus[e][u], "none"}
    BY <1>1 DEF MarkApplied
  <2> QED  BY <2>1, <2>2
<1>4. \A x, sent : <<e, u>> \notin sent =>
        MarkDelivered(x, sent, t).userStatus[e][u] = x.userStatus[e][u]
  BY DEF MarkDelivered
<1>5. \A sent : <<e, u>> \notin sent =>
        MarkSent(s, sent, t).userStatus[e][u] \in {s.userStatus[e][u], "none"}
  <2> SUFFICES ASSUME NEW sent, <<e, u>> \notin sent
               PROVE  MarkSent(s, sent, t).userStatus[e][u] \in {s.userStatus[e][u], "none"}
    OBVIOUS
  <2> DEFINE ofQos(q) == {p \in sent : s.meta[p[1]].qos = q}
             d == MarkDelivered(s, ofQos(2), t)
  <2>1. <<e, u>> \notin ofQos(1) /\ <<e, u>> \notin ofQos(2)  OBVIOUS
  <2>2. MarkSent(s, sent, t) = MarkApplied(d, ofQos(1))  BY DEF MarkSent
  <2> HIDE DEF ofQos
  <2>3. d.userStatus[e][u] = s.userStatus[e][u]  BY <1>4, <2>1
  <2> HIDE DEF d
  <2>4. MarkApplied(d, ofQos(1)).userStatus[e][u] \in {d.userStatus[e][u], "none"}
    BY <1>3, <2>1
  <2> QED  BY <2>2, <2>3, <2>4
<1>6. \A x : ForceCleanup(x).userStatus[e][u] \in {x.userStatus[e][u], "none"}
  BY <1>1 DEF ForceCleanup
<1>7. \A x, U : EnforcePerUserLimit(x, U, t).userStatus[e][u] \in {x.userStatus[e][u], "none"}
  <2>1. \A x, v : EvictFrom(x, v).userStatus[e][u] \in {x.userStatus[e][u], "none"}
    BY DEF EvictFrom
  <2> SUFFICES ASSUME NEW x, NEW U
               PROVE  EnforcePerUserLimit(x, U, t).userStatus[e][u] \in {x.userStatus[e][u], "none"}
    OBVIOUS
  <2> DEFINE v == [w \in User |-> IF w \in U THEN Evicted(x, w, t) ELSE {}]
             a == EvictFrom(x, v)
  <2>2. a.userStatus[e][u] \in {x.userStatus[e][u], "none"}  BY <2>1
  <2>3. PICK R : EnforcePerUserLimit(x, U, t) = RemoveEvents(a, R, TRUE)
    BY DEF EnforcePerUserLimit
  <2> HIDE DEF a
  <2>4. RemoveEvents(a, R, TRUE).userStatus[e][u] \in {a.userStatus[e][u], "none"}  BY <1>1
  <2> QED  BY <2>2, <2>3, <2>4
<1>8. \A n \in Id : \A U, m : n # e /\ s.userStatus \in [Id -> [User -> Status]] =>
        Create(s, n, U, m, t).userStatus[e][u] \in {s.userStatus[e][u], "none"}
  <2> SUFFICES ASSUME NEW n \in Id, NEW U, NEW m, n # e,
                      s.userStatus \in [Id -> [User -> Status]]
               PROVE  Create(s, n, U, m, t).userStatus[e][u] \in {s.userStatus[e][u], "none"}
    OBVIOUS
  <2> DEFINE room == IF Cardinality(s.events) >= MaxTotal THEN ForceCleanup(s) ELSE s
             i == Insert(room, n, U, m)
  <2>1. room.userStatus[e][u] \in {s.userStatus[e][u], "none"}  BY <1>6
  <2>2. room.userStatus \in [Id -> [User -> Status]]
    BY DEF ForceCleanup, RemoveEvents, Status
  <2> HIDE DEF room
  <2>3. i.userStatus[e][u] = room.userStatus[e][u]  BY <2>2 DEF Insert
  <2>4. Create(s, n, U, m, t) = EnforcePerUserLimit(i, U, t)  BY DEF Create, room
  <2> HIDE DEF i
  <2>5. EnforcePerUserLimit(i, U, t).userStatus[e][u] \in {i.userStatus[e][u], "none"}  BY <1>7
  <2> QED  BY <2>1, <2>3, <2>4, <2>5
<1>9. s.userStatus[e][u] = "STORED" => Cleanup(s, t).userStatus[e][u] \in {"STORED", "none"}
  <2> DEFINE x == CleanupExpiredEvents(s, t)
             y == CleanupStaleDelivered(x, t)
  <2>1. x.userStatus[e][u] \in {s.userStatus[e][u], "none"}
    BY <1>1 DEF CleanupExpiredEvents
  <2> HIDE DEF x
  <2>2. x.userStatus[e][u] # "DELIVERED" => y.userStatus[e][u] = x.userStatus[e][u]
    BY DEF CleanupStaleDelivered
  <2> HIDE DEF y
  <2>3. EnforceMemoryLimits(y).userStatus[e][u] \in {y.userStatus[e][u], "none"}
    BY <1>6 DEF EnforceMemoryLimits
  <2> QED  BY <2>1, <2>2, <2>3 DEF Cleanup, x, y
<1> QED  BY <1>1, <1>3, <1>4, <1>5, <1>8, <1>9

\* A stored event that waits for a user with an open socket.
StoredFor(e, u) == store.userStatus[e][u] = "STORED" /\ conn[u] = "open"

\* What may end that.
Settled(e, u) ==
  \/ seen[e][u] # "no" \/ conn[u] # "open"
  \/ IsExpired(store, e, now) \/ store.userStatus[e][u] = "none"

\* Whoever is sent an event has seen it.
LEMMA SentIsSeen ==
  ASSUME TypeOK, NEW sent, Send(sent), NEW e \in Id, NEW u \in User, <<e, u>> \in sent
  PROVE  seen'[e][u] # "no"
BY DEF TypeOK, Send

\* No step takes a stored event from its user in silence.
LEMMA StoredStays ==
  ASSUME RInv, [Next]_vars, NEW e \in Id, NEW u \in User, StoredFor(e, u), ~ Settled(e, u)
  PROVE  StoredFor(e, u)' \/ Settled(e, u)'
<1> SUFFICES ASSUME seen'[e][u] = "no", conn'[u] = "open"
             PROVE  store'.userStatus[e][u] \in {"STORED", "none"}
  BY DEF StoredFor, Settled
<1>1. store.userStatus[e][u] = "STORED" /\ seen[e][u] = "no"  BY DEF StoredFor, Settled
<1>2. TypeOK /\ Good(store) /\ store.userStatus \in [Id -> [User -> Status]]
  BY DEF RInv, IInv, Good, Store
<1>3. e \in store.events /\ e < nextId /\ e # nextId
  <2>1. e \in store.events  BY <1>1, <1>2 DEF Good, Cleared
  <2> QED  BY <1>2, <2>1 DEF RInv, IInv, TypeOK, Id
<1>4. CASE store' = store  BY <1>1, <1>4
<1>5. ASSUME NEW sent, Send(sent), store' = MarkSent(store, sent, now)
      PROVE  store'.userStatus[e][u] \in {"STORED", "none"}
  <2>1. <<e, u>> \notin sent  BY <1>2, <1>5, SentIsSeen
  <2> QED  BY <1>1, <1>5, <2>1, StatusAfter
<1>6. ASSUME NEW v \in User, Connect(v)
      PROVE  store'.userStatus[e][u] \in {"STORED", "none"}
  BY <1>5, <1>6 DEF Connect, DeliverPending
<1>7. ASSUME NEW q \in inflight, Publish(q)
      PROVE  store'.userStatus[e][u] \in {"STORED", "none"}
  <2>1. nextId \in Id  BY <1>2, <1>7, StoreAssumption DEF TypeOK, Publish, CanCreate, Id
  <2>2. \A U, m : Create(store, nextId, U, m, now).userStatus[e][u] \in {"STORED", "none"}
    BY <1>1, <1>2, <1>3, <2>1, StatusAfter
  <2>3. \A x, U : MarkDelivered(x, {nextId} \X U, now).userStatus[e][u] = x.userStatus[e][u]
    <3> SUFFICES ASSUME NEW x, NEW U
                 PROVE  MarkDelivered(x, {nextId} \X U, now).userStatus[e][u] = x.userStatus[e][u]
      OBVIOUS
    <3>1. <<e, u>> \notin {nextId} \X U  BY <1>3
    <3> QED  BY <3>1 DEF MarkDelivered
  <2>4. CASE PublishQos1(q)  BY <1>1, <2>2, <2>4 DEF PublishQos1
  <2>5. CASE PublishQos2(q)
    <3> DEFINE all == OnlineIds(q) \cup OfflineIds(q)
    <3>1. store' = IF all = {} THEN store
                   ELSE MarkDelivered(Create(store, nextId, all, MetaOf(q), now),
                                      {nextId} \X OnlineIds(q), now)
      BY <2>5 DEF PublishQos2
    <3> DEFINE c == Create(store, nextId, all, MetaOf(q), now)
    <3>2. c.userStatus[e][u] \in {"STORED", "none"}  BY <2>2
    <3>3. MarkDelivered(c, {nextId} \X OnlineIds(q), now).userStatus[e][u] = c.userStatus[e][u]
      BY <2>3
    <3> HIDE DEF all, c
    <3> QED  BY <1>1, <3>1, <3>2, <3>3 DEF c
  <2> QED  BY <1>7, <2>4, <2>5 DEF Publish
<1>8. CASE store' = EmptyStore  BY <1>8 DEF EmptyStore
<1>9. ASSUME NEW v \in User, NEW f \in Id, Ack(v, f)
      PROVE  store'.userStatus[e][u] \in {"STORED", "none"}
  <2> DEFINE applied == MarkApplied(store, {<<f, v>>})
  <2>1. <<e, u>> \notin {<<f, v>>}  BY <1>1, <1>9 DEF Ack
  <2>2. applied.userStatus[e][u] \in {"STORED", "none"}  BY <1>1, <2>1, StatusAfter
  <2>3. applied.userStatus \in [Id -> [User -> Status]]
    BY <1>2, MarkAppliedGood DEF Good, Store
  <2>4. store' = applied \/ \E U, m : /\ CanCreate(AckTtl)
                                      /\ store' = Create(applied, nextId, U, m, now)
    BY <1>9 DEF Ack
  <2> HIDE DEF applied
  <2>5. ASSUME NEW U, NEW m, CanCreate(AckTtl), store' = Create(applied, nextId, U, m, now)
        PROVE  store'.userStatus[e][u] \in {"STORED", "none"}
    <3>1. nextId \in Id  BY <1>2, <2>5, StoreAssumption DEF TypeOK, CanCreate, Id
    <3>2. Create(applied, nextId, U, m, now).userStatus[e][u]
            \in {applied.userStatus[e][u], "none"}
      BY <1>3, <2>3, <3>1, StatusAfter
    <3> QED  BY <2>2, <2>5, <3>2
  <2> QED  BY <2>2, <2>4, <2>5
<1>10. ASSUME NEW f \in Id, ExpiryTimer(f)
       PROVE  store'.userStatus[e][u] \in {"STORED", "none"}
  <2>1. store' = RemoveEvents(store, {f}, TRUE) \/ store' = [store EXCEPT !.timers = @ \ {f}]
    BY <1>10 DEF ExpiryTimer
  <2>2. [store EXCEPT !.timers = @ \ {f}].userStatus = store.userStatus
    BY <1>2 DEF Good, Store
  <2>3. RemoveEvents(store, {f}, TRUE).userStatus[e][u] \in {store.userStatus[e][u], "none"}
    BY StatusAfter
  <2> QED  BY <1>1, <2>1, <2>2, <2>3
<1>11. CASE RetryTick
  <2>1. \E sent : Send(sent) /\ store' = MarkSent(store, sent, now)  BY <1>11 DEF RetryTick
  <2> QED  BY <1>5, <2>1
<1>12. CASE CleanupTick  BY <1>1, <1>12, StatusAfter DEF CleanupTick
<1> QED
  BY <1>4, <1>6, <1>7, <1>8, <1>9, <1>10, <1>11, <1>12
  DEF Next, vars, ConnectTooLate, Disconnect, Removed, StartClose, BeginPublish,
      PublishCrash, QueryFails, Restart, Tick

\* The retry interval sends every stored event to its user, if the socket is open.
LEMMA RetrySends ==
  ASSUME RInv, RetryTick, NEW e \in Id, NEW u \in User, StoredFor(e, u),
         ~ IsExpired(store, e, now)
  PROVE  seen'[e][u] # "no"
<1>1. TypeOK /\ Good(store)  BY DEF RInv, IInv
<1>2. store.userStatus[e][u] = "STORED" /\ conn[u] = "open"  BY DEF StoredFor
<1>3. e \in store.events  BY <1>1, <1>2 DEF Good, Cleared
<1>4. e \in store.userEvents[u]  BY <1>1, <1>2, <1>3 DEF Good, IndexComplete
<1>5. \A lucky : e \in GetPendingWithRetry(store, u, now, lucky)
  BY <1>2, <1>3, <1>4 DEF GetPendingWithRetry, ShouldRetry
<1>6. PICK lucky : Send({p \in Id \X User :
                           /\ conn[p[2]] = "open"
                           /\ p[1] \in GetPendingWithRetry(store, p[2], now, lucky)})
  BY DEF RetryTick
<1>7. <<e, u>> \in {p \in Id \X User :
                      /\ conn[p[2]] = "open"
                      /\ p[1] \in GetPendingWithRetry(store, p[2], now, lucky)}
  BY <1>2, <1>5
<1> QED  BY <1>1, <1>6, <1>7, SentIsSeen

\* With such an event the retry interval has a step to take, whatever the jitter.
LEMMA RetryIsPossible ==
  ASSUME RInv, RetryIsDue, NEW lucky
  PROVE  LET sent == {p \in Id \X User :
                        /\ conn[p[2]] = "open"
                        /\ p[1] \in GetPendingWithRetry(store, p[2], now, lucky)}
         IN  MarkSent(store, sent, now) # store
<1> DEFINE sent == {p \in Id \X User :
                      /\ conn[p[2]] = "open"
                      /\ p[1] \in GetPendingWithRetry(store, p[2], now, lucky)}
           ofQos(q) == {p \in sent : store.meta[p[1]].qos = q}
           d == MarkDelivered(store, ofQos(2), now)
           a == SetApplied(d, ofQos(1))
           r == MarkSent(store, sent, now)
<1>1. PICK e \in Id, u \in User : /\ store.userStatus[e][u] = "STORED" /\ conn[u] = "open"
                                  /\ ~ IsExpired(store, e, now)
  BY DEF RetryIsDue
<1>2. Good(store) /\ e \in store.events  BY <1>1 DEF RInv, IInv, Good, Cleared
<1>3. e \in store.userEvents[u]  BY <1>1, <1>2 DEF Good, IndexComplete
<1>4. <<e, u>> \in sent  BY <1>1, <1>2, <1>3 DEF GetPendingWithRetry, ShouldRetry
<1>5. store.meta[e].qos \in 1 .. 2  BY <1>2 DEF Good, Store, Meta
<1> HIDE DEF sent
<1>6. <<e, u>> \in ofQos(1) \/ <<e, u>> \in ofQos(2)
  <2>1. store.meta[e].qos = 1 \/ store.meta[e].qos = 2  BY <1>5
  <2> QED  BY <1>4, <2>1
<1> HIDE DEF ofQos
<1>7. d.events = store.events /\ d.userStatus[e][u] \in {"STORED", "DELIVERED"}
      /\ (<<e, u>> \in ofQos(2) => d.userStatus[e][u] = "DELIVERED")
  BY <1>1, <1>2 DEF MarkDelivered
<1> HIDE DEF d
<1>8. a.userStatus[e][u] # "STORED"
  BY <1>2, <1>6, <1>7 DEF SetApplied
<1>9. \E R : r = RemoveEvents(a, R, FALSE)  BY DEF MarkSent, MarkApplied, ofQos, d
<1> HIDE DEF a, r
<1>10. r.userStatus[e][u] # "STORED"  BY <1>8, <1>9 DEF RemoveEvents
<1>11. r # store  BY <1>1, <1>10
<1> QED  BY <1>11 DEF r, sent

\* As long as the retry interval keeps firing, a stored event reaches its user, unless
\* it is gone, late or without a socket before.
THEOREM StoredArrive == Spec /\ RetryFires => StoredIsSent
<1> DEFINE P(e, u) == store.userStatus[e][u] = "STORED" /\ conn[u] = "open"
           Q(e, u) == seen[e][u] # "no" \/ conn[u] # "open" \/ IsExpired(store, e, now)
                      \/ store.userStatus[e][u] = "none"
<1>1. ASSUME NEW e \in Id, NEW u \in User
      PROVE  Spec /\ RetryFires => (P(e, u) ~> Q(e, u))
  <2>1. (P(e, u) <=> StoredFor(e, u)) /\ (Q(e, u) <=> Settled(e, u))
    BY DEF StoredFor, Settled
  <2>2. RInv /\ [Next]_vars /\ StoredFor(e, u) /\ ~ Settled(e, u)
          => StoredFor(e, u)' \/ Settled(e, u)'
    BY StoredStays
  <2>3. RInv /\ <<RetryTick>>_vars /\ StoredFor(e, u) /\ ~ Settled(e, u) => Settled(e, u)'
    BY RetrySends DEF Settled
  <2>4. StoredFor(e, u) /\ ~ Settled(e, u) => RetryIsDue
    BY DEF StoredFor, Settled, RetryIsDue
  <2> HIDE DEF P, Q
  <2> QED  BY <2>1, <2>2, <2>3, <2>4, Related, PTL DEF Spec, RetryFires
<1> QED  BY <1>1 DEF StoredIsSent
=============================================================================
