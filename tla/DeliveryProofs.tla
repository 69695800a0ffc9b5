--------------------------- MODULE DeliveryProofs ---------------------------
(***************************************************************************)
(* Invariants of Delivery for every set of users, every routing, every     *)
(* limit and every timeout.  The first part says what every method of the  *)
(* event store preserves; the second combines that into invariants of the  *)
(* specification.                                                          *)
(***************************************************************************)
EXTENDS Delivery, FiniteSetTheorems, TLAPS

-----------------------------------------------------------------------------
(* The methods of the event store.                                         *)

\* A record that is not stored leaves no status behind.
Cleared(s) ==
  \A e \in Id : \A u \in User : e \notin s.events => s.userStatus[e][u] = "none"

\* The two halves of the store agree.
Good(s) == s \in Store /\ IndexSound(s) /\ IndexComplete(s) /\ Cleared(s)

\* Finitely many events, so every set of them has a cardinality.
LEMMA IdFinite == IsFiniteSet(Id) /\ \A S \in SUBSET Id : IsFiniteSet(S) /\ Cardinality(S) \in Nat
<1>1. 1 \in Int /\ NEvents \in Int
  BY StoreAssumption
<1>2. IsFiniteSet(Id)
  BY <1>1, FS_Interval DEF Id
<1> QED BY <1>2, FS_Subset, FS_CardinalityType

\* A new service is empty and consistent (EventStoreService's fields).
LEMMA EmptyGood == Good(EmptyStore)
  BY StoreAssumption
  DEF Good, EmptyStore, Store, Meta, NoMeta, Status, IndexSound, IndexComplete, Cleared, Id

\* removeEvent() keeps the halves together although it only visits the index
\* entries of the users in the record: IndexSound says there are no others.
LEMMA RemoveGood ==
  ASSUME NEW s, Good(s), NEW R \in SUBSET Id, NEW emits \in BOOLEAN
  PROVE  Good(RemoveEvents(s, R, emits))
<1> DEFINE r == RemoveEvents(s, R, emits)
<1>1. r \in Store
  BY DEF Good, RemoveEvents, Store, Status
<1>2. IndexSound(r)
  BY DEF Good, RemoveEvents, Store, IndexSound
<1>3. IndexComplete(r)
  BY DEF Good, RemoveEvents, Store, IndexComplete
<1>4. Cleared(r)
  BY DEF Good, RemoveEvents, Store, Cleared
<1> QED BY <1>1, <1>2, <1>3, <1>4 DEF Good

\* markDelivered() of events that their users find through the index.
LEMMA MarkDeliveredGood ==
  ASSUME NEW s, Good(s), NEW sent, NEW t \in Nat,
         \A e \in s.events, u \in User : <<e, u>> \in sent => e \in s.userEvents[u]
  PROVE  Good(MarkDelivered(s, sent, t))
<1> DEFINE r == MarkDelivered(s, sent, t)
<1>1. r \in Store
  BY DEF Good, MarkDelivered, Store, Status
<1>2. IndexSound(r)
  BY DEF Good, MarkDelivered, Store, IndexSound
<1>3. IndexComplete(r)
  BY DEF Good, MarkDelivered, Store, IndexComplete
<1>4. Cleared(r)
  BY DEF Good, MarkDelivered, Store, Cleared
<1> QED BY <1>1, <1>2, <1>3, <1>4 DEF Good

\* markApplied() keeps the halves together for ANY user, also one the record
\* does not know: the acknowledgement of an evicted user is such a call.
LEMMA SetAppliedGood ==
  ASSUME NEW s, Good(s), NEW done
  PROVE  Good(SetApplied(s, done))
<1> DEFINE r == SetApplied(s, done)
<1>1. r \in Store
  BY DEF Good, SetApplied, Store, Status
<1>2. IndexSound(r)
  BY DEF Good, SetApplied, Store, IndexSound
<1>3. IndexComplete(r)
  BY DEF Good, SetApplied, Store, IndexComplete
<1>4. Cleared(r)
  BY DEF Good, SetApplied, Store, Cleared
<1> QED BY <1>1, <1>2, <1>3, <1>4 DEF Good

\* markApplied(), with the removal of what is now applied for everyone.
LEMMA MarkAppliedGood ==
  ASSUME NEW s, Good(s), NEW done
  PROVE  Good(MarkApplied(s, done))
<1> DEFINE R == {e \in s.events : /\ \E u \in User : <<e, u>> \in done
                                  /\ IsAllApplied(SetApplied(s, done), e)}
<1>1. R \in SUBSET Id
  BY DEF Good, Store
<1>2. Good(SetApplied(s, done))
  BY SetAppliedGood
<1>3. MarkApplied(s, done) = RemoveEvents(SetApplied(s, done), R, FALSE)
  BY DEF MarkApplied
<1> HIDE DEF R
<1> QED BY <1>1, <1>2, <1>3, RemoveGood

\* The marks after a connect or a retry: both only send what is indexed.
LEMMA MarkSentGood ==
  ASSUME NEW s, Good(s), NEW sent, NEW t \in Nat,
         \A e \in s.events, u \in User : <<e, u>> \in sent => e \in s.userEvents[u]
  PROVE  Good(MarkSent(s, sent, t))
<1> DEFINE ofQos(q) == {p \in sent : s.meta[p[1]].qos = q}
<1>1. Good(MarkDelivered(s, ofQos(2), t))
  <2>1. \A e \in s.events, u \in User : <<e, u>> \in ofQos(2) => e \in s.userEvents[u]
    OBVIOUS
  <2> HIDE DEF ofQos
  <2> QED BY <2>1, MarkDeliveredGood
<1>2. MarkSent(s, sent, t) = MarkApplied(MarkDelivered(s, ofQos(2), t), ofQos(1))
  BY DEF MarkSent
<1> HIDE DEF ofQos
<1> QED BY <1>1, <1>2, MarkAppliedGood

-----------------------------------------------------------------------------
(* Limits and creation.                                                    *)

\* forceCleanup() is a removal.
LEMMA ForceCleanupGood ==
  ASSUME NEW s, Good(s)
  PROVE  /\ Good(ForceCleanup(s))
         /\ ForceCleanup(s).events \subseteq s.events
<1> DEFINE R == {e \in s.events :
                   Cardinality({f \in s.events : RemovedBefore(s, f, e)})
                     < Cardinality(s.events) - MaxTotal}
<1>1. R \in SUBSET Id
  BY DEF Good, Store
<1>2. ForceCleanup(s) = RemoveEvents(s, R, TRUE)
  BY DEF ForceCleanup
<1> HIDE DEF R
<1>3. RemoveEvents(s, R, TRUE).events = s.events \ R
  BY DEF RemoveEvents
<1> QED BY <1>1, <1>2, <1>3, RemoveGood

\* Entering a record under a new id.
LEMMA InsertGood ==
  ASSUME NEW s, Good(s), NEW e \in Id, e \notin s.events,
         NEW U \in SUBSET User, NEW m \in Meta
  PROVE  Good(Insert(s, e, U, m))
<1> DEFINE r == Insert(s, e, U, m)
<1>1. r \in Store
  BY DEF Good, Insert, Store, Status
<1>2. IndexSound(r)
  BY DEF Good, Insert, Store, IndexSound
<1>3. IndexComplete(r)
  BY DEF Good, Insert, Store, IndexComplete
<1>4. Cleared(r)
  BY DEF Good, Insert, Store, Cleared
<1> QED BY <1>1, <1>2, <1>3, <1>4 DEF Good

\* Eviction takes id and status together.
LEMMA EvictFromGood ==
  ASSUME NEW s, Good(s), NEW victims \in [User -> SUBSET Id]
  PROVE  Good(EvictFrom(s, victims))
<1> DEFINE r == EvictFrom(s, victims)
<1>1. r \in Store
  BY DEF Good, EvictFrom, Store, Status
<1>2. IndexSound(r)
  BY DEF Good, EvictFrom, Store, IndexSound
<1>3. IndexComplete(r)
  BY DEF Good, EvictFrom, Store, IndexComplete
<1>4. Cleared(r)
  BY DEF Good, EvictFrom, Store, Cleared
<1> QED BY <1>1, <1>2, <1>3, <1>4 DEF Good

\* What enforcePerUserLimit() takes was pending.
LEMMA EvictedPending ==
  ASSUME NEW s \in Store, NEW u \in User, NEW t
  PROVE  /\ Evicted(s, u, t) \subseteq GetPending(s, u, t)
         /\ GetPending(s, u, t) \subseteq s.userEvents[u]
         /\ GetPending(s, u, t) \in SUBSET Id
<1>1. s.userEvents[u] \in SUBSET Id
  BY DEF Store
<1> QED BY <1>1 DEF Evicted, GetPending

\* enforcePerUserLimit() for any set of users.
LEMMA EnforcePerUserLimitGood ==
  ASSUME NEW s, Good(s), NEW U \in SUBSET User, NEW t
  PROVE  /\ Good(EnforcePerUserLimit(s, U, t))
         /\ EnforcePerUserLimit(s, U, t).events \subseteq s.events
<1> DEFINE victims == [u \in User |-> IF u \in U THEN Evicted(s, u, t) ELSE {}]
           after   == EvictFrom(s, victims)
           R == {e \in s.events : /\ \E u \in User : e \in victims[u]
                                  /\ Targets(after, e) = {}}
<1>1. victims \in [User -> SUBSET Id]
  BY EvictedPending DEF Good
<1>2. R \in SUBSET Id
  BY DEF Good, Store
<1>3. EnforcePerUserLimit(s, U, t) = RemoveEvents(after, R, TRUE)
  BY DEF EnforcePerUserLimit
<1>4. after.events = s.events
  BY DEF EvictFrom
<1> HIDE DEF victims
<1>5. Good(after)
  BY <1>1, EvictFromGood
<1> HIDE DEF after, R
<1>6. RemoveEvents(after, R, TRUE).events = after.events \ R
  BY DEF RemoveEvents
<1> QED BY <1>2, <1>3, <1>4, <1>5, <1>6, RemoveGood

\* enforcePerUserLimit() never takes the event it was called for: the newest
\* pending event is behind the end of the slice, a negative end included.
LEMMA NewestKept ==
  ASSUME NEW s, Good(s), NEW u \in User, NEW t, NEW e \in Id,
         \A f \in s.events : f <= e
  PROVE  e \notin Evicted(s, u, t)
<1> SUFFICES ASSUME e \in Evicted(s, u, t) PROVE FALSE
  OBVIOUS
<1> DEFINE P == GetPending(s, u, t)
           n == Cardinality(P)
<1>1. P \in SUBSET Id /\ e \in P
  BY EvictedPending DEF Good
<1>2. IsFiniteSet(P)
  BY <1>1, IdFinite
<1>3. \A f \in P : f \in s.events
  BY DEF GetPending
<1>4. {f \in P : f < e} = P \ {e}
  BY <1>1, <1>3, StoreAssumption DEF Id
<1>5. n \in Nat /\ Cardinality({f \in P : f < e}) = n - 1
  BY <1>1, <1>2, <1>4, FS_CardinalityType, FS_RemoveElement
<1>6. Cardinality({f \in P : f < e}) < SliceLength(n, n - MaxPerUser)
  BY DEF Evicted
<1> HIDE DEF P, n
<1>7. n - 1 < SliceLength(n, n - MaxPerUser)
  BY <1>5, <1>6
<1> QED BY <1>5, <1>7, StoreAssumption DEF SliceLength

\* create() of a new event: the store stays consistent, nothing else appears in
\* it, and every target finds the event through its index.
LEMMA CreateGood ==
  ASSUME NEW s, Good(s), NEW e \in Id, \A f \in s.events : f < e,
         NEW U \in SUBSET User, NEW m \in Meta, NEW t
  PROVE  /\ Good(Create(s, e, U, m, t))
         /\ Create(s, e, U, m, t).events \subseteq s.events \cup {e}
         /\ \A u \in U : e \in Create(s, e, U, m, t).userEvents[u]
<1> DEFINE room == IF Cardinality(s.events) >= MaxTotal THEN ForceCleanup(s) ELSE s
           ins  == Insert(room, e, U, m)
           victims == [u \in User |-> IF u \in U THEN Evicted(ins, u, t) ELSE {}]
           after   == EvictFrom(ins, victims)
           R == {f \in ins.events : /\ \E u \in User : f \in victims[u]
                                    /\ Targets(after, f) = {}}
<1>1. Good(room) /\ room.events \subseteq s.events
  BY ForceCleanupGood
<1>2. Create(s, e, U, m, t) = EnforcePerUserLimit(ins, U, t)
  BY DEF Create
<1> HIDE DEF room
<1>3. e \notin room.events
  BY <1>1, StoreAssumption DEF Id
<1>4. Good(ins)
  BY <1>1, <1>3, InsertGood
<1>5. ins.events = room.events \cup {e}
  BY DEF Insert
<1>6. \A u \in U : e \in ins.userEvents[u]
  BY DEF Insert
<1>7. \A f \in ins.events : f <= e
  BY <1>1, <1>5, StoreAssumption DEF Id, Good, Store
<1> HIDE DEF ins
<1>8. \A u \in User : e \notin victims[u]
  BY <1>4, <1>7, NewestKept
<1>9. EnforcePerUserLimit(ins, U, t) = RemoveEvents(after, R, TRUE)
  BY DEF EnforcePerUserLimit
<1>10. e \notin R
  BY <1>8
<1> HIDE DEF victims
<1>11. \A u \in U : e \in after.userEvents[u]
  BY <1>6, <1>8 DEF EvictFrom
<1> HIDE DEF after, R
<1>12. \A u \in U : e \in RemoveEvents(after, R, TRUE).userEvents[u]
  BY <1>10, <1>11 DEF RemoveEvents
<1>13. Good(EnforcePerUserLimit(ins, U, t))
       /\ EnforcePerUserLimit(ins, U, t).events \subseteq ins.events
  BY <1>4, EnforcePerUserLimitGood
<1> QED BY <1>1, <1>2, <1>5, <1>9, <1>12, <1>13

-----------------------------------------------------------------------------
(* The cleanup interval.                                                   *)

\* cleanupExpiredEvents() is a removal.
LEMMA CleanupExpiredGood ==
  ASSUME NEW s, Good(s), NEW t
  PROVE  /\ Good(CleanupExpiredEvents(s, t))
         /\ CleanupExpiredEvents(s, t).events \subseteq s.events
<1> DEFINE R == {e \in s.events : IsExpired(s, e, t)}
<1>1. R \in SUBSET Id
  BY DEF Good, Store
<1>2. CleanupExpiredEvents(s, t) = RemoveEvents(s, R, TRUE)
  BY DEF CleanupExpiredEvents
<1> HIDE DEF R
<1>3. RemoveEvents(s, R, TRUE).events = s.events \ R
  BY DEF RemoveEvents
<1> QED BY <1>1, <1>2, <1>3, RemoveGood

\* cleanupStaleDelivered() changes the status of users that are indexed.
LEMMA CleanupStaleGood ==
  ASSUME NEW s, Good(s), NEW t
  PROVE  /\ Good(CleanupStaleDelivered(s, t))
         /\ CleanupStaleDelivered(s, t).events = s.events
<1> DEFINE r == CleanupStaleDelivered(s, t)
<1>1. r \in Store
  BY DEF Good, CleanupStaleDelivered, Store, Status
<1>2. IndexSound(r)
  BY DEF Good, CleanupStaleDelivered, Store, IndexSound
<1>3. IndexComplete(r)
  BY DEF Good, CleanupStaleDelivered, Store, IndexComplete
<1>4. Cleared(r)
  BY DEF Good, CleanupStaleDelivered, Store, Cleared
<1>5. r.events = s.events
  BY DEF CleanupStaleDelivered
<1> QED BY <1>1, <1>2, <1>3, <1>4, <1>5 DEF Good

\* The whole interval body.
LEMMA CleanupGood ==
  ASSUME NEW s, Good(s), NEW t
  PROVE  /\ Good(Cleanup(s, t))
         /\ Cleanup(s, t).events \subseteq s.events
<1> DEFINE s1 == CleanupExpiredEvents(s, t)
           s2 == CleanupStaleDelivered(s1, t)
<1>1. Good(s1) /\ s1.events \subseteq s.events
  BY CleanupExpiredGood
<1> HIDE DEF s1
<1>2. Good(s2) /\ s2.events = s1.events
  BY <1>1, CleanupStaleGood
<1> HIDE DEF s2
<1>3. Good(EnforceMemoryLimits(s2)) /\ EnforceMemoryLimits(s2).events \subseteq s2.events
  BY <1>2, ForceCleanupGood DEF EnforceMemoryLimits
<1> QED BY <1>1, <1>2, <1>3 DEF Cleanup, s1, s2

\* Marks never add a record.
LEMMA MarksAddNothing ==
  ASSUME NEW s, NEW sent, NEW t
  PROVE  /\ MarkDelivered(s, sent, t).events = s.events
         /\ MarkApplied(s, sent).events \subseteq s.events
         /\ MarkSent(s, sent, t).events \subseteq s.events
<1>1. \A x, d : MarkDelivered(x, d, t).events = x.events
  BY DEF MarkDelivered
<1>2. \A x, d : MarkApplied(x, d).events \subseteq x.events
  BY DEF MarkApplied, RemoveEvents, SetApplied
<1> QED BY <1>1, <1>2 DEF MarkSent

-----------------------------------------------------------------------------
(* What the limits bound.                                                  *)

\* How long the head of a list is that the code sorts and cuts: of a finite set with
\* a strict total order, k elements have fewer than k before them.
LEMMA HeadLength ==
  ASSUME NEW S, IsFiniteSet(S), NEW before \in [S -> SUBSET S],
         \A x \in S : x \notin before[x],
         \A x \in S, y \in S, z \in S : x \in before[y] /\ y \in before[z] => x \in before[z],
         \A x \in S, y \in S : x = y \/ x \in before[y] \/ y \in before[x],
         NEW k \in 0 .. Cardinality(S),
         NEW head \in SUBSET S,
         \A e \in S : e \in head <=> Cardinality(before[e]) < k
  PROVE  Cardinality(head) = k
<1> DEFINE n == Cardinality(S)
           rank == [e \in S |-> Cardinality(before[e])]
<1>1. n \in Nat /\ k \in Nat /\ k <= n  BY FS_CardinalityType
<1>2. ASSUME NEW e \in S
      PROVE  IsFiniteSet(before[e]) /\ rank[e] \in Nat /\ rank[e] < n
  <2>1. before[e] \in SUBSET (S \ {e})  OBVIOUS
  <2>2. IsFiniteSet(S \ {e}) /\ Cardinality(S \ {e}) = n - 1  BY FS_RemoveElement
  <2> HIDE DEF n
  <2>3. IsFiniteSet(before[e]) /\ Cardinality(before[e]) <= n - 1
    BY <2>1, <2>2, FS_Subset
  <2>4. Cardinality(before[e]) \in Nat  BY <2>3, FS_CardinalityType
  <2> QED  BY <1>1, <2>3, <2>4
<1>3. ASSUME NEW e \in S, NEW f \in S, e \in before[f]
      PROVE  rank[e] # rank[f]
  <2>1. before[e] \in SUBSET before[f] /\ e \in before[f] /\ e \notin before[e]
    BY <1>3
  <2> QED  BY <1>2, <2>1, FS_Subset
<1>4. rank \in Injection(S, 0 .. n - 1)
  <2> HIDE DEF n
  <2>1. rank \in [S -> 0 .. n - 1]  BY <1>1, <1>2
  <2> HIDE DEF rank
  <2>2. \A e \in S, f \in S : rank[e] = rank[f] => e = f  BY <1>3
  <2> QED  BY <2>1, <2>2 DEF Injection, IsInjective
<1>5. rank \in Surjection(S, 0 .. n - 1)
  <2> HIDE DEF rank
  <2>1. Cardinality(S) = n  OBVIOUS
  <2> HIDE DEF n
  <2>2. n - 1 \in Int  BY <1>1
  <2>3. IsFiniteSet(0 .. n - 1) /\ Cardinality(0 .. n - 1) = n  BY <1>1, <2>2, FS_Interval
  <2> QED  BY <1>4, <2>1, <2>3, FS_Injection
<1> DEFINE g == [e \in head |-> rank[e]]
<1>6. g \in Injection(head, 0 .. k - 1) /\ g \in Surjection(head, 0 .. k - 1)
  <2>1. \A e \in S : e \in head <=> rank[e] < k  OBVIOUS
  <2> HIDE DEF rank
  <2>2. \A e \in head : rank[e] \in 0 .. k - 1  BY <2>1, <1>1, <1>4 DEF Injection, IsInjective
  <2>3. g \in [head -> 0 .. k - 1]  BY <2>2
  <2>4. \A e \in head, f \in head : g[e] = g[f] => e = f  BY <1>4 DEF Injection, IsInjective
  <2>5. \A i \in 0 .. k - 1 : \E e \in head : g[e] = i
    <3> SUFFICES ASSUME NEW i \in 0 .. k - 1 PROVE \E e \in head : g[e] = i  OBVIOUS
    <3>1. i \in 0 .. n - 1  BY <1>1
    <3>2. PICK e \in S : rank[e] = i  BY <1>5, <3>1 DEF Surjection
    <3> QED  BY <2>1, <3>2
  <2> HIDE DEF g
  <2> QED  BY <2>3, <2>4, <2>5 DEF Injection, IsInjective, Surjection
<1>7. IsFiniteSet(0 .. k - 1) /\ Cardinality(0 .. k - 1) = k
  <2>1. k - 1 \in Int  BY <1>1
  <2> HIDE DEF n
  <2> QED  BY <1>1, <2>1, FS_Interval
<1>8. Cardinality(head) = k
  <2> HIDE DEF g
  <2> QED  BY <1>6, <1>7, FS_Injection
<1> QED  BY <1>8

\* The weights that forceCleanup() compares are numbers.
LEMMA WeightType == \A s, e : Weight(s, e) \in Int
<1> SUFFICES ASSUME NEW s, NEW e PROVE Weight(s, e) \in Int  OBVIOUS
<1> DEFINE n(x) == Cardinality({u \in User : s.userStatus[e][u] = x})
<1>1. \A x : n(x) \in Nat
  <2> SUFFICES ASSUME NEW x PROVE n(x) \in Nat  OBVIOUS
  <2>1. {u \in User : s.userStatus[e][u] = x} \subseteq User  OBVIOUS
  <2> QED  BY <2>1, StoreAssumption, FS_Subset, FS_CardinalityType
<1>2. Weight(s, e) = 4 * n("FAILED") + 3 * n("DELIVERED") + 2 * n("STORED") + n("APPLIED")
  BY DEF Weight
<1>3. n("FAILED") \in Nat /\ n("DELIVERED") \in Nat /\ n("STORED") \in Nat /\ n("APPLIED") \in Nat
  BY <1>1
<1> HIDE DEF n
<1> QED  BY <1>2, <1>3

\* forceCleanup() takes a store that is over its limit down to exactly the limit,
\* whatever the weights of the records are.
THEOREM ForceCleanupIsExact ==
  ASSUME NEW s, Good(s), Cardinality(s.events) >= MaxTotal
  PROVE  Cardinality(ForceCleanup(s).events) = MaxTotal
<1> DEFINE before == [e \in s.events |-> {f \in s.events : RemovedBefore(s, f, e)}]
           n == Cardinality(s.events)
           k == n - MaxTotal
           R == {e \in s.events : Cardinality({f \in s.events : RemovedBefore(s, f, e)}) < k}
<1>1. s.events \in SUBSET Id /\ IsFiniteSet(s.events) /\ n \in Nat
  BY IdFinite DEF Good, Store
<1>2. k \in 0 .. n /\ n - k = MaxTotal
  <2> HIDE DEF n
  <2>1. n >= MaxTotal  BY DEF n
  <2> QED  BY <1>1, <2>1, StoreAssumption
<1>3. /\ before \in [s.events -> SUBSET s.events]
      /\ \A x \in s.events, y \in s.events : x \in before[y] <=> RemovedBefore(s, x, y)
  OBVIOUS
<1>4. /\ \A x \in s.events : x \notin before[x]
      /\ \A x \in s.events, y \in s.events, z \in s.events :
           x \in before[y] /\ y \in before[z] => x \in before[z]
      /\ \A x \in s.events, y \in s.events : x = y \/ x \in before[y] \/ y \in before[x]
  <2>1. \A x \in Id : x \in Int /\ Weight(s, x) \in Int
    BY WeightType, StoreAssumption DEF Id
  <2> HIDE DEF before
  <2> QED  BY <1>1, <1>3, <2>1 DEF RemovedBefore
<1>5. Cardinality(R) = k
  <2>1. IsFiniteSet(s.events) /\ k \in 0 .. Cardinality(s.events)  BY <1>1, <1>2
  <2>2. R \in SUBSET s.events /\ \A e \in s.events : e \in R <=> Cardinality(before[e]) < k
    <3> HIDE DEF k
    <3> QED  OBVIOUS
  <2> HIDE DEF before, k, n, R
  <2> QED  BY <1>3, <1>4, <2>1, <2>2, HeadLength
<1>6. Cardinality(R) = k /\ R \subseteq s.events  BY <1>5
<1>7. ForceCleanup(s).events = s.events \ R
  BY DEF ForceCleanup, RemoveEvents
<1> HIDE DEF R, k
<1>8. s.events \cap R = R  BY <1>6
<1>9. Cardinality(s.events \ R) = n - k
  <2>1. Cardinality(s.events \ R) = Cardinality(s.events) - Cardinality(s.events \cap R)
    BY <1>1, FS_Difference
  <2> QED  BY <1>6, <1>8, <2>1
<1> QED  BY <1>2, <1>7, <1>9

\* It leaves a store within its limit in any case.
LEMMA ForceCleanupLimit ==
  ASSUME NEW s, Good(s)
  PROVE  Cardinality(ForceCleanup(s).events) <= MaxTotal
<1>1. s.events \in SUBSET Id /\ IsFiniteSet(s.events) /\ Cardinality(s.events) \in Nat
  BY IdFinite DEF Good, Store
<1>2. ForceCleanup(s).events \subseteq s.events  BY DEF ForceCleanup, RemoveEvents
<1>3. /\ Cardinality(ForceCleanup(s).events) <= Cardinality(s.events)
      /\ Cardinality(ForceCleanup(s).events) \in Nat
  BY <1>1, <1>2, FS_Subset, FS_CardinalityType
<1>4. CASE Cardinality(s.events) >= MaxTotal
  <2>1. Cardinality(ForceCleanup(s).events) = MaxTotal  BY <1>4, ForceCleanupIsExact
  <2> QED  BY <2>1, StoreAssumption
<1>5. CASE Cardinality(s.events) < MaxTotal
  BY <1>1, <1>3, <1>5, StoreAssumption
<1> QED  BY <1>1, <1>4, <1>5, StoreAssumption

\* What waits for a user can only shrink when the index and the records do.
Shrinks(r, s, u, t) == GetPending(r, u, t) \subseteq GetPending(s, u, t)

LEMMA RemoveShrinks ==
  ASSUME NEW s \in Store, NEW R, NEW emits, NEW u \in User, NEW t
  PROVE  Shrinks(RemoveEvents(s, R, emits), s, u, t)
<1> DEFINE r == RemoveEvents(s, R, emits)
<1>1. s.userEvents[u] \in SUBSET Id  BY DEF Store
<1>2. /\ r.events = s.events \ R /\ r.meta = s.meta
      /\ r.userEvents[u] \subseteq s.userEvents[u]
      /\ \A e \in Id \ R : r.userStatus[e] = s.userStatus[e]
  BY DEF RemoveEvents
<1> HIDE DEF r
<1> QED  BY <1>1, <1>2 DEF Shrinks, GetPending, IsExpired, r

\* How many events enforcePerUserLimit() takes from a user with n pending ones: as
\* many as are above the limit, or, if the negative end of slice() is counted from
\* the back, as many as 2 n is.
EvictionCount(n) ==
  IF n >= MaxPerUser THEN n - MaxPerUser
  ELSE IF 2 * n >= MaxPerUser THEN 2 * n - MaxPerUser ELSE 0

\* The cut of enforcePerUserLimit(), exactly: once the index of a user is over the
\* limit, one whose pending events are between half of the limit and the limit loses
\* some of them, although there is room for all.
THEOREM EvictionIsExact ==
  ASSUME NEW s, Good(s), NEW u \in User, NEW t
  PROVE  Cardinality(Evicted(s, u, t)) =
           IF Cardinality(s.userEvents[u]) <= MaxPerUser THEN 0
           ELSE EvictionCount(Cardinality(GetPending(s, u, t)))
<1> DEFINE P == GetPending(s, u, t)
           n == Cardinality(P)
           k == SliceLength(n, n - MaxPerUser)
           before == [e \in P |-> {f \in P : f < e}]
           V == Evicted(s, u, t)
<1>1. P \in SUBSET Id /\ IsFiniteSet(P) /\ n \in Nat
  BY EvictedPending, IdFinite DEF Good
<1>2. CASE Cardinality(s.userEvents[u]) <= MaxPerUser
  <2>1. Evicted(s, u, t) = {}  BY <1>2 DEF Evicted
  <2> QED  BY <1>2, <2>1, FS_EmptySet
<1>3. CASE ~ (Cardinality(s.userEvents[u]) <= MaxPerUser)
  <2>1. /\ before \in [P -> SUBSET P]
        /\ \A x \in P, y \in P : x \in before[y] <=> x < y
    <3> HIDE DEF P
    <3> QED  OBVIOUS
  <2>2. /\ \A x \in P : x \notin before[x]
        /\ \A x \in P, y \in P, z \in P :
             x \in before[y] /\ y \in before[z] => x \in before[z]
        /\ \A x \in P, y \in P : x = y \/ x \in before[y] \/ y \in before[x]
    <3>1. \A x \in Id : x \in Int  BY DEF Id
    <3> HIDE DEF before, P
    <3> QED  BY <1>1, <2>1, <3>1
  <2>3. V \in SUBSET P /\ \A e \in P : e \in V <=> Cardinality(before[e]) < k
    <3>1. V = {e \in P : Cardinality({f \in P : f < e}) < k}
      BY <1>3 DEF Evicted
    <3> HIDE DEF k, P, V
    <3> QED  BY <3>1
  <2>4. n = Cardinality(P)  OBVIOUS
  <2>5. k = IF n >= MaxPerUser THEN n - MaxPerUser ELSE 2 * n - MaxPerUser
    <3> HIDE DEF n
    <3> QED  BY <1>1, StoreAssumption DEF SliceLength
  <2> HIDE DEF n, k
  <2>6. CASE 2 * n >= MaxPerUser
    <3>1. k \in 0 .. n /\ k = EvictionCount(n)
      BY <1>1, <2>5, <2>6, StoreAssumption DEF EvictionCount
    <3> HIDE DEF P, before, V
    <3>2. k \in 0 .. Cardinality(P)  BY <2>4, <3>1
    <3>3. Cardinality(V) = k  BY <1>1, <2>1, <2>2, <2>3, <3>2, HeadLength
    <3> QED  BY <1>3, <2>4, <3>1, <3>3 DEF P, V
  <2>7. CASE ~ (2 * n >= MaxPerUser)
    <3>1. k < 0 /\ k \in Int /\ EvictionCount(n) = 0
      BY <1>1, <2>5, <2>7, StoreAssumption DEF EvictionCount
    <3>2. \A e \in P : Cardinality(before[e]) \in Nat
      <4> HIDE DEF P, before
      <4> SUFFICES ASSUME NEW e \in P PROVE Cardinality(before[e]) \in Nat  OBVIOUS
      <4>1. before[e] \in SUBSET Id  BY <1>1, <2>1
      <4> QED  BY <4>1, IdFinite
    <3> HIDE DEF P, before, V
    <3>3. V = {}  BY <2>3, <3>1, <3>2
    <3> QED  BY <1>3, <2>4, <3>1, <3>3, FS_EmptySet DEF P, V
  <2> QED  BY <2>6, <2>7
<1> QED  BY <1>2, <1>3

\* Whatever it takes, the limit is kept.
LEMMA EvictedLimit ==
  ASSUME NEW s, Good(s), NEW u \in User, NEW t
  PROVE  Cardinality(GetPending(s, u, t) \ Evicted(s, u, t)) <= MaxPerUser
<1> DEFINE P == GetPending(s, u, t)
           V == Evicted(s, u, t)
<1>1. /\ P \in SUBSET Id /\ IsFiniteSet(P) /\ Cardinality(P) \in Nat
      /\ V \subseteq P /\ P \subseteq s.userEvents[u]
  BY EvictedPending, IdFinite DEF Good
<1>2. Cardinality(P) <= Cardinality(s.userEvents[u]) /\ Cardinality(s.userEvents[u]) \in Nat
  <2>1. s.userEvents[u] \in SUBSET Id  BY DEF Good, Store
  <2> HIDE DEF P, V
  <2> QED  BY <1>1, <2>1, IdFinite, FS_Subset
<1>3. Cardinality(V) = IF Cardinality(s.userEvents[u]) <= MaxPerUser THEN 0
                       ELSE EvictionCount(Cardinality(P))
  BY EvictionIsExact
<1>4. Cardinality(P \ V) = Cardinality(P) - Cardinality(V)
  <2> HIDE DEF P, V
  <2>1. P \cap V = V  BY <1>1
  <2>2. Cardinality(P \ V) = Cardinality(P) - Cardinality(P \cap V)  BY <1>1, FS_Difference
  <2> QED  BY <2>1, <2>2
<1> HIDE DEF P, V
<1>5. Cardinality(P \ V) <= MaxPerUser
  BY <1>1, <1>2, <1>3, <1>4, StoreAssumption DEF EvictionCount
<1> QED  BY <1>5 DEF P, V

\* No more records than create() and the cleanup interval leave, and no more
\* pending events of a user.
WithinTotal(s) == Cardinality(s.events) <= MaxTotal + 1
WithinPerUser(s, t) == \A u \in User : Cardinality(GetPending(s, u, t)) <= MaxPerUser

\* create() adds one record, and makes room for it first.
LEMMA CreateTotal ==
  ASSUME NEW s, Good(s), WithinTotal(s), NEW e \in Id, \A f \in s.events : f < e,
         NEW U \in SUBSET User, NEW m \in Meta, NEW t
  PROVE  WithinTotal(Create(s, e, U, m, t))
<1> DEFINE room == IF Cardinality(s.events) >= MaxTotal THEN ForceCleanup(s) ELSE s
           r == Create(s, e, U, m, t)
<1>1. Good(room) /\ room.events \subseteq s.events
  BY ForceCleanupGood
<1>2. Cardinality(room.events) <= MaxTotal
  <2>1. s.events \in SUBSET Id /\ Cardinality(s.events) \in Nat  BY IdFinite DEF Good, Store
  <2> QED  BY <2>1, ForceCleanupLimit, StoreAssumption DEF WithinTotal
<1>3. r = EnforcePerUserLimit(Insert(room, e, U, m), U, t)
  BY DEF Create
<1> HIDE DEF room, r
<1>4. e \notin room.events
  BY <1>1, StoreAssumption DEF Id
<1>5. r.events \subseteq room.events \cup {e}
  <2>1. Good(Insert(room, e, U, m))  BY <1>1, <1>4, InsertGood
  <2>2. r.events \subseteq Insert(room, e, U, m).events  BY <1>3, <2>1, EnforcePerUserLimitGood
  <2> QED  BY <2>2 DEF Insert
<1>6. room.events \in SUBSET Id /\ IsFiniteSet(room.events) /\ Cardinality(room.events) \in Nat
  BY <1>1, IdFinite DEF Good, Store
<1>7. /\ IsFiniteSet(room.events \cup {e})
      /\ Cardinality(room.events \cup {e}) = Cardinality(room.events) + 1
  BY <1>4, <1>6, FS_AddElement
<1>8. Cardinality(r.events) <= Cardinality(room.events \cup {e})
  BY <1>5, <1>7, FS_Subset
<1>9. Cardinality(r.events) \in Nat
  BY <1>5, <1>7, FS_Subset, FS_CardinalityType
<1> QED  BY <1>2, <1>6, <1>7, <1>8, <1>9, StoreAssumption DEF WithinTotal, r

\* create() leaves nobody more than the limit, if nobody had more.
LEMMA CreatePerUser ==
  ASSUME NEW s, Good(s), NEW e \in Id, \A f \in s.events : f < e,
         NEW U \in SUBSET User, NEW m \in Meta, NEW t, WithinPerUser(s, t)
  PROVE  WithinPerUser(Create(s, e, U, m, t), t)
<1> DEFINE room == IF Cardinality(s.events) >= MaxTotal THEN ForceCleanup(s) ELSE s
           ins  == Insert(room, e, U, m)
           victims == [u \in User |-> IF u \in U THEN Evicted(ins, u, t) ELSE {}]
           after == EvictFrom(ins, victims)
           R == {f \in ins.events : /\ \E u \in User : f \in victims[u]
                                    /\ Targets(after, f) = {}}
           r == Create(s, e, U, m, t)
<1> SUFFICES ASSUME NEW u \in User PROVE Cardinality(GetPending(r, u, t)) <= MaxPerUser
  BY DEF WithinPerUser
<1>1. Good(room) /\ room.events \subseteq s.events
  BY ForceCleanupGood
<1>2. Shrinks(room, s, u, t)
  BY RemoveShrinks DEF ForceCleanup, Good, Shrinks
<1>3. r = RemoveEvents(after, R, TRUE)
  BY DEF Create, EnforcePerUserLimit
<1> HIDE DEF r, room
<1>4. e \notin room.events
  BY <1>1, StoreAssumption DEF Id
<1>5. Good(ins)
  BY <1>1, <1>4, InsertGood
<1>6. /\ GetPending(ins, u, t) \subseteq GetPending(room, u, t) \cup {e}
      /\ u \notin U => GetPending(ins, u, t) \subseteq GetPending(room, u, t)
  <2>1. room.userEvents[u] \in SUBSET Id /\ e \notin room.userEvents[u]
    BY <1>1, <1>4 DEF Good, Store, IndexSound
  <2>2. /\ \A f \in Id : f # e => /\ ins.userStatus[f] = room.userStatus[f]
                                  /\ ins.meta[f] = room.meta[f]
        /\ ins.events = room.events \cup {e}
        /\ ins.userEvents[u] \subseteq room.userEvents[u] \cup {e}
        /\ u \notin U => ins.userEvents[u] = room.userEvents[u]
    BY <1>1 DEF Insert, Good, Store
  <2> HIDE DEF ins
  <2> QED  BY <2>1, <2>2 DEF GetPending, IsExpired
<1> HIDE DEF ins
<1>7. Good(after)
  <2>1. victims \in [User -> SUBSET Id]  BY <1>5, EvictedPending DEF Good
  <2> HIDE DEF victims
  <2> QED  BY <1>5, <2>1, EvictFromGood
<1>8. GetPending(after, u, t) \subseteq GetPending(ins, u, t) \ victims[u]
  <2>1. ins.userEvents[u] \in SUBSET Id  BY <1>5 DEF Good, Store
  <2>2. /\ after.events = ins.events /\ after.meta = ins.meta
        /\ after.userEvents[u] = ins.userEvents[u] \ victims[u]
        /\ \A f \in Id : f \notin victims[u] => after.userStatus[f][u] = ins.userStatus[f][u]
    BY DEF EvictFrom
  <2> HIDE DEF victims, after
  <2> QED  BY <2>1, <2>2 DEF GetPending, IsExpired
<1>9. GetPending(r, u, t) \subseteq GetPending(after, u, t)
  <2> HIDE DEF after, R
  <2> QED  BY <1>3, <1>7, RemoveShrinks DEF Good, Shrinks
<1>10. /\ IsFiniteSet(GetPending(s, u, t)) /\ Cardinality(GetPending(s, u, t)) \in Nat
       /\ Cardinality(GetPending(s, u, t)) <= MaxPerUser
  BY EvictedPending, IdFinite DEF Good, WithinPerUser
<1> HIDE DEF after, R
<1>11. CASE u \notin U
  <2>1. GetPending(r, u, t) \subseteq GetPending(s, u, t)
    BY <1>2, <1>6, <1>8, <1>9, <1>11 DEF Shrinks
  <2>2. Cardinality(GetPending(r, u, t)) <= Cardinality(GetPending(s, u, t))
        /\ Cardinality(GetPending(r, u, t)) \in Nat
    BY <1>10, <2>1, FS_Subset, FS_CardinalityType
  <2> QED  BY <1>10, <2>2, StoreAssumption
<1>12. CASE u \in U
  <2> DEFINE P == GetPending(ins, u, t)
             S == GetPending(s, u, t)
  <2>1. P \subseteq S \cup {e}  BY <1>2, <1>6 DEF Shrinks
  <2>2. Cardinality(P) <= MaxPerUser + 1
    <3> HIDE DEF P
    <3>1. /\ IsFiniteSet(S \cup {e}) /\ Cardinality(S \cup {e}) \in Nat
          /\ Cardinality(S \cup {e}) <= Cardinality(S) + 1
      <4>1. CASE e \in S
        <5>1. S \cup {e} = S  BY <4>1
        <5> QED  BY <1>10, <5>1
      <4>2. CASE e \notin S
        <5> HIDE DEF S
        <5>1. IsFiniteSet(S) /\ Cardinality(S) \in Nat  BY <1>10 DEF S
        <5>2. IsFiniteSet(S \cup {e}) /\ Cardinality(S \cup {e}) = Cardinality(S) + 1
          BY <4>2, <5>1, FS_AddElement
        <5> QED  BY <5>1, <5>2
      <4> QED  BY <4>1, <4>2
    <3>2. Cardinality(P) <= Cardinality(S \cup {e}) /\ Cardinality(P) \in Nat
      BY <2>1, <3>1, FS_Subset, FS_CardinalityType
    <3> QED  BY <1>10, <3>1, <3>2, StoreAssumption
  <2>3. Cardinality(P \ Evicted(ins, u, t)) <= MaxPerUser
    BY <1>5, <2>2, EvictedLimit
  <2>4. GetPending(r, u, t) \subseteq P \ Evicted(ins, u, t)
    BY <1>8, <1>9, <1>12
  <2>5. IsFiniteSet(P \ Evicted(ins, u, t)) /\ Cardinality(P \ Evicted(ins, u, t)) \in Nat
    <3>1. P \in SUBSET Id  BY <1>5, EvictedPending DEF Good
    <3>2. P \ Evicted(ins, u, t) \in SUBSET Id  BY <3>1
    <3> QED  BY <3>2, IdFinite
  <2>6. Cardinality(GetPending(r, u, t)) <= Cardinality(P \ Evicted(ins, u, t))
        /\ Cardinality(GetPending(r, u, t)) \in Nat
    BY <2>4, <2>5, FS_Subset, FS_CardinalityType
  <2> QED  BY <2>3, <2>5, <2>6, StoreAssumption
<1> QED  BY <1>11, <1>12

-----------------------------------------------------------------------------
(* The stale timeout.                                                      *)

\* No event outlives t, nor its last delivery, by more than the stale timeout, and
\* none has failed.
Young(s, t) ==
  /\ \A e \in s.events : s.meta[e].expiresAt <= t + StaleTimeout
  /\ \A e \in s.events, u \in User :
       s.userStatus[e][u] = "DELIVERED" => s.meta[e].expiresAt <= s.last[e][u] + StaleTimeout
  /\ \A e \in Id, u \in User : s.userStatus[e][u] # "FAILED"

LEMMA RemoveYoung ==
  ASSUME NEW s \in Store, NEW t, Young(s, t), NEW R, NEW emits
  PROVE  Young(RemoveEvents(s, R, emits), t)
  BY DEF RemoveEvents, Young, Store

LEMMA MarkDeliveredYoung ==
  ASSUME NEW s \in Store, NEW t \in Nat, Young(s, t), NEW sent
  PROVE  Young(MarkDelivered(s, sent, t), t)
  BY DEF MarkDelivered, Young, Store

LEMMA MarkAppliedYoung ==
  ASSUME NEW s, Good(s), NEW t, Young(s, t), NEW done
  PROVE  Young(MarkApplied(s, done), t)
<1> DEFINE a == SetApplied(s, done)
<1>1. a \in Store
  BY SetAppliedGood DEF Good
<1>2. Young(a, t)
  BY DEF SetApplied, Young, Good, Store
<1> HIDE DEF a
<1> QED  BY <1>1, <1>2, RemoveYoung DEF MarkApplied, a

LEMMA MarkSentYoung ==
  ASSUME NEW s, Good(s), NEW t \in Nat, Young(s, t), NEW sent,
         \A e \in s.events, u \in User : <<e, u>> \in sent => e \in s.userEvents[u]
  PROVE  Young(MarkSent(s, sent, t), t)
<1> DEFINE ofQos(q) == {p \in sent : s.meta[p[1]].qos = q}
           d == MarkDelivered(s, ofQos(2), t)
<1>1. Young(d, t)
  BY MarkDeliveredYoung DEF Good
<1>2. Good(d)
  <2>1. \A e \in s.events, u \in User : <<e, u>> \in ofQos(2) => e \in s.userEvents[u]
    OBVIOUS
  <2> HIDE DEF ofQos
  <2> QED  BY <2>1, MarkDeliveredGood
<1>3. MarkSent(s, sent, t) = MarkApplied(d, ofQos(1))
  BY DEF MarkSent
<1> HIDE DEF d, ofQos
<1> QED  BY <1>1, <1>2, <1>3, MarkAppliedYoung

\* An event that lives no longer than the stale timeout keeps the store young.
LEMMA CreateYoung ==
  ASSUME NEW s, Good(s), NEW t \in Nat, Young(s, t), NEW e \in Id, \A f \in s.events : f < e,
         NEW U \in SUBSET User, NEW m \in Meta, m.expiresAt <= t + StaleTimeout
  PROVE  Young(Create(s, e, U, m, t), t)
<1> DEFINE room == IF Cardinality(s.events) >= MaxTotal THEN ForceCleanup(s) ELSE s
           ins  == Insert(room, e, U, m)
           victims == [u \in User |-> IF u \in U THEN Evicted(ins, u, t) ELSE {}]
           after == EvictFrom(ins, victims)
           R == {f \in ins.events : /\ \E u \in User : f \in victims[u]
                                    /\ Targets(after, f) = {}}
<1>1. Good(room) /\ room.events \subseteq s.events
  BY ForceCleanupGood
<1>2. Young(room, t)
  BY RemoveYoung DEF ForceCleanup, Good
<1>3. Create(s, e, U, m, t) = RemoveEvents(after, R, TRUE)
  BY DEF Create, EnforcePerUserLimit
<1> HIDE DEF room
<1>4. e \notin room.events
  BY <1>1, StoreAssumption DEF Id
<1>5. Good(ins)
  BY <1>1, <1>4, InsertGood
<1>6. Young(ins, t)
  BY <1>1, <1>2, <1>4 DEF Insert, Young, Good, Store
<1> HIDE DEF ins
<1>7. Good(after)
  <2>1. victims \in [User -> SUBSET Id]  BY <1>5, EvictedPending DEF Good
  <2> HIDE DEF victims
  <2> QED  BY <1>5, <2>1, EvictFromGood
<1>8. Young(after, t)
  <2> HIDE DEF victims
  <2> QED  BY <1>5, <1>6 DEF EvictFrom, Young, Good, Store
<1> HIDE DEF after, R
<1> QED  BY <1>3, <1>7, <1>8, RemoveYoung DEF Good

\* The cleanup interval removes what has expired before it looks for what is
\* stale; nothing that is left is.
LEMMA CleanupYoung ==
  ASSUME NEW s, Good(s), NEW t \in Nat, Young(s, t)
  PROVE  Young(Cleanup(s, t), t)
<1> DEFINE s1 == CleanupExpiredEvents(s, t)
           s2 == CleanupStaleDelivered(s1, t)
<1>1. Young(s1, t)
  BY RemoveYoung DEF CleanupExpiredEvents, Good
<1>2. Good(s1)
  BY CleanupExpiredGood
<1>3. \A e \in s1.events : t <= s1.meta[e].expiresAt
  <2>1. \A e \in s.events : s.meta[e].expiresAt \in Nat  BY DEF Good, Store, Meta
  <2> QED  BY <2>1 DEF CleanupExpiredEvents, RemoveEvents, IsExpired
<1> HIDE DEF s1
<1>4. Young(s2, t)
  <2>1. /\ s2.events = s1.events /\ s2.meta = s1.meta /\ s2.last = s1.last
        /\ \A e \in Id, u \in User :
             s2.userStatus[e][u] = IF /\ e \in s1.events /\ s1.userStatus[e][u] = "DELIVERED"
                                      /\ s1.last[e][u] # 0 /\ t - s1.last[e][u] > StaleTimeout
                                   THEN "FAILED" ELSE s1.userStatus[e][u]
    BY DEF CleanupStaleDelivered
  <2> HIDE DEF s2
  <2>2. s1.events \subseteq Id  BY <1>2 DEF Good, Store
  <2>3. ASSUME NEW e \in Id, NEW u \in User, e \in s1.events, s1.userStatus[e][u] = "DELIVERED"
        PROVE  ~ (t - s1.last[e][u] > StaleTimeout)
    <3>1. t <= s1.meta[e].expiresAt /\ s1.meta[e].expiresAt <= s1.last[e][u] + StaleTimeout
      BY <1>1, <1>3, <2>3 DEF Young
    <3>2. s1.meta[e].expiresAt \in Nat /\ s1.last[e][u] \in Nat
      BY <1>2 DEF Good, Store, Meta
    <3> QED  BY <3>1, <3>2, StoreAssumption
  <2>4. \A e \in Id, u \in User : s2.userStatus[e][u] = s1.userStatus[e][u]
    BY <2>1, <2>3
  <2> QED  BY <1>1, <2>1, <2>2, <2>4 DEF Young
<1>5. Good(s2)
  BY <1>2, CleanupStaleGood
<1> HIDE DEF s2
<1>6. Cleanup(s, t) = s2 \/ Cleanup(s, t) = ForceCleanup(s2)
  BY DEF Cleanup, EnforceMemoryLimits, s1, s2
<1> QED  BY <1>4, <1>5, <1>6, RemoveYoung DEF ForceCleanup, Good

-----------------------------------------------------------------------------
(* The specification.                                                      *)

\* The inductive invariant: types, a consistent store, and event numbers that
\* are not used again (a fresh id is what create() relies on).
IInv ==
  /\ TypeOK
  /\ Good(store)
  /\ \A f \in store.events : f < nextId

-----------------------------------------------------------------------------
(* Types of the pieces.                                                    *)

\* Sending keeps the histories well typed.
LEMMA SendType ==
  ASSUME TypeOK, NEW sent \in SUBSET (Id \X User), Send(sent)
  PROVE  /\ seen' \in [Id -> [User -> {"no", "sent", "acked"}]]
         /\ redundant' \subseteq Id \X User
  BY DEF TypeOK, Send

\* What a client can be sent is a set of event-user pairs.
LEMMA PendingType ==
  ASSUME TypeOK, NEW u \in User
  PROVE  /\ GetPending(store, u, now) \X {u} \in SUBSET (Id \X User)
         /\ \A e \in Id, v \in User :
              <<e, v>> \in GetPending(store, u, now) \X {u} => e \in store.userEvents[v]
<1>1. store.userEvents[u] \in SUBSET Id
  BY DEF TypeOK, Store
<1> QED BY <1>1 DEF GetPending

\* The record of a request is well typed.
LEMMA MetaType ==
  ASSUME TypeOK, NEW q \in inflight
  PROVE  /\ MetaOf(q) \in Meta
         /\ OnlineIds(q) \in SUBSET User
         /\ OfflineIds(q) \in SUBSET User
         /\ q \in Request
  BY DEF TypeOK, Request, MetaOf, Meta, OnlineIds, OfflineIds

\* The publication log stays well typed.
LEMMA RecordType ==
  ASSUME TypeOK, NEW q \in inflight, Record(q)
  PROVE  log' \in [Id -> LogEntry]
<1>1. q \in Request /\ OnlineIds(q) \in SUBSET User
  BY MetaType
<1>2. [to |-> q.to \cup OnlineIds(q), qos |-> q.qos, deadline |-> now + q.ttl]
        \in LogEntry
  BY <1>1 DEF TypeOK, Request, LogEntry
<1> QED BY <1>2 DEF TypeOK, Record

-----------------------------------------------------------------------------
(* One lemma per action.                                                   *)

\* onConnect() with deliverPendingEvents().
LEMMA ConnectStep ==
  ASSUME IInv, NEW u \in User, Connect(u)
  PROVE  IInv'
<1> DEFINE P == GetPending(store, u, now) \X {u}
<1>1. TypeOK /\ Good(store) /\ now \in Nat
  BY DEF IInv, TypeOK
<1>2. /\ P \in SUBSET (Id \X User)
      /\ \A e \in Id, v \in User : <<e, v>> \in P => e \in store.userEvents[v]
  BY <1>1, PendingType
<1>3. Send(P) /\ store' = MarkSent(store, P, now)
  BY DEF Connect, DeliverPending
<1> HIDE DEF P
<1>4. \A e \in store.events, v \in User : <<e, v>> \in P => e \in store.userEvents[v]
  BY <1>1, <1>2 DEF Good, Store
<1>5. Good(store')
  BY <1>1, <1>3, <1>4, MarkSentGood
<1>6. store'.events \subseteq store.events
  BY <1>3, MarksAddNothing
<1>7. /\ seen' \in [Id -> [User -> {"no", "sent", "acked"}]]
      /\ redundant' \subseteq Id \X User
  BY <1>1, <1>2, <1>3, SendType
<1>8. /\ conn' \in [User -> ConnState]
      /\ UNCHANGED <<inflight, nextId, now, crashes, log>>
  BY <1>1 DEF Connect, DeliverPending, TypeOK, ConnState
<1>9. TypeOK'
  BY <1>1, <1>5, <1>7, <1>8 DEF TypeOK, Good
<1> QED BY <1>5, <1>6, <1>8, <1>9 DEF IInv

\* The query has returned and the event is sent and stored.
LEMMA PublishStep ==
  ASSUME IInv, NEW q \in inflight, Publish(q)
  PROVE  IInv'
<1> DEFINE all == OnlineIds(q) \cup OfflineIds(q)
           sent == {nextId} \X OnlineIds(q)
<1>1. TypeOK /\ Good(store) /\ now \in Nat /\ \A f \in store.events : f < nextId
  BY DEF IInv, TypeOK
<1>2. nextId \in Id
  BY <1>1, StoreAssumption DEF TypeOK, Publish, CanCreate, Id
<1>3. MetaOf(q) \in Meta /\ OnlineIds(q) \in SUBSET User /\ OfflineIds(q) \in SUBSET User
  BY <1>1, MetaType
<1>4. \A U \in SUBSET User :
        LET c == Create(store, nextId, U, MetaOf(q), now)
        IN  /\ Good(c) /\ c.events \subseteq store.events \cup {nextId}
            /\ \A u \in U : nextId \in c.userEvents[u]
  BY <1>1, <1>2, <1>3, CreateGood
<1>5. Good(store') /\ store'.events \subseteq store.events \cup {nextId}
  <2>1. CASE q.qos = 1 /\ PublishQos1(q)
    BY <2>1, <1>1, <1>3, <1>4 DEF PublishQos1
  <2>2. CASE q.qos = 2 /\ PublishQos2(q)
    <3> DEFINE c == Create(store, nextId, all, MetaOf(q), now)
    <3>1. /\ Good(c) /\ c.events \subseteq store.events \cup {nextId}
          /\ \A u \in all : nextId \in c.userEvents[u]
      BY <1>3, <1>4
    <3>2. store' = IF all = {} THEN store ELSE MarkDelivered(c, sent, now)
      BY <2>2 DEF PublishQos2
    <3>3. \A e \in c.events, u \in User : <<e, u>> \in sent => e \in c.userEvents[u]
      BY <3>1
    <3> HIDE DEF c, sent, all
    <3>4. Good(MarkDelivered(c, sent, now))
      BY <1>1, <3>1, <3>3, MarkDeliveredGood
    <3>5. MarkDelivered(c, sent, now).events = c.events
      BY MarksAddNothing
    <3> QED BY <1>1, <3>1, <3>2, <3>4, <3>5
  <2> QED BY <2>1, <2>2 DEF Publish
<1>6. nextId' = nextId + 1
  BY DEF Publish
<1>7. \A f \in store'.events : f < nextId'
  BY <1>1, <1>2, <1>5, <1>6, StoreAssumption DEF Good, Store, Id
<1>8. sent \in SUBSET (Id \X User) /\ Send(sent)
  BY <1>2, <1>3 DEF Publish
<1>9. /\ seen' \in [Id -> [User -> {"no", "sent", "acked"}]]
      /\ redundant' \subseteq Id \X User
  BY <1>1, <1>8, SendType
<1>10. log' \in [Id -> LogEntry]
  BY <1>1, RecordType DEF Publish
<1>11. /\ inflight' \subseteq inflight
       /\ UNCHANGED <<conn, now, crashes>>
       /\ nextId' \in 1 .. (NEvents + 1)
  BY <1>2, <1>6, StoreAssumption DEF Publish, Id
<1>12. TypeOK'
  BY <1>1, <1>5, <1>9, <1>10, <1>11 DEF TypeOK, Good
<1> QED BY <1>5, <1>7, <1>12 DEF IInv

\* Steps that leave the store and the event numbers alone: closing sockets,
\* a handler that starts its query, the passing of time.
LEMMA QuietStep ==
  ASSUME IInv, UNCHANGED <<store, nextId>>, TypeOK'
  PROVE  IInv'
  BY DEF IInv

\* Sockets that are bound closed, and the close event.
LEMMA CloseStep ==
  ASSUME IInv, NEW u \in User, ConnectTooLate(u) \/ Disconnect(u)
  PROVE  IInv'
<1>1. TypeOK'
  BY DEF IInv, TypeOK, ConnState, ConnectTooLate, Disconnect
<1> QED BY <1>1, QuietStep DEF ConnectTooLate, Disconnect

\* close() of one socket or several.
LEMMA StartCloseStep ==
  ASSUME IInv, NEW U \in SUBSET User, StartClose(U)
  PROVE  IInv'
<1>1. TypeOK'
  BY DEF IInv, TypeOK, ConnState, StartClose
<1> QED BY <1>1, QuietStep DEF StartClose

\* The suspend timer unregisters a session that waiting handlers hold.
LEMMA RemovedStep ==
  ASSUME IInv, NEW u \in User, Removed(u)
  PROVE  IInv'
<1>1. \A q \in inflight : [q EXCEPT !.lost = @ \cup ({u} \cap q.receivers)] \in Request
  <2> SUFFICES ASSUME NEW q \in inflight
               PROVE  [q EXCEPT !.lost = @ \cup ({u} \cap q.receivers)] \in Request
    OBVIOUS
  <2>1. q \in Request
    BY DEF IInv, TypeOK
  <2> QED BY <2>1 DEF Request
<1>2. inflight' \subseteq Request
  BY <1>1 DEF Removed, LoseSession
<1>3. TypeOK'
  BY <1>2 DEF IInv, TypeOK, Removed
<1> QED BY <1>3, QuietStep DEF Removed

\* executeBase() up to its query.
LEMMA BeginPublishStep ==
  ASSUME IInv, NEW h \in Handler, NEW r \in Route, NEW k \in Kind, BeginPublish(h, r, k)
  PROVE  IInv'
<1> DEFINE q == [handler |-> h, from |-> r.from, to |-> r.to, allowed |-> r.allowed,
                 receivers |-> r.allowed \cap Open, lost |-> {},
                 qos |-> k.qos, ttl |-> k.ttl, notify |-> k.notify]
<1>1. /\ r \in [from : User, to : SUBSET User, allowed : SUBSET User]
      /\ k \in [qos : 1 .. 2, ttl : Nat \ {0}, notify : BOOLEAN]
  BY DeliveryAssumption
<1>2. q \in Request
  BY <1>1 DEF Request, Open
<1>3. inflight' = inflight \cup {q}
  BY DEF BeginPublish
<1> HIDE DEF q
<1>4. TypeOK'
  BY <1>2, <1>3 DEF IInv, TypeOK, BeginPublish
<1> QED BY <1>4, QuietStep DEF BeginPublish

\* The process dies and starts again with an empty memory.
LEMMA RestartGood ==
  ASSUME IInv, Restart
  PROVE  /\ Good(store') /\ store'.events = {}
         /\ conn' \in [User -> ConnState] /\ inflight' = {} /\ crashes' \in Nat
<1>1. Good(store') /\ store'.events = {}
  BY EmptyGood DEF Restart, EmptyStore
<1> QED BY <1>1 DEF IInv, TypeOK, Restart, ConnState

\* The query for the target ids fails.
LEMMA QueryFailsStep ==
  ASSUME IInv, NEW q \in inflight, QueryFails(q)
  PROVE  IInv'
<1>1. /\ Good(store') /\ store'.events = {}
      /\ conn' \in [User -> ConnState] /\ inflight' = {} /\ crashes' \in Nat
  BY RestartGood DEF QueryFails
<1>2. TypeOK'
  BY <1>1 DEF IInv, TypeOK, Good, QueryFails
<1> QED BY <1>1, <1>2 DEF IInv

\* A receiver has no socket left when the event is sent.
LEMMA PublishCrashStep ==
  ASSUME IInv, NEW q \in inflight, PublishCrash(q)
  PROVE  IInv'
<1>1. TypeOK
  BY DEF IInv
<1>2. nextId \in Id /\ nextId' \in 1 .. (NEvents + 1)
  BY <1>1, StoreAssumption DEF TypeOK, PublishCrash, CanCreate, Id
<1>3. PICK reached \in SUBSET OnlineIds(q) : Send({nextId} \X reached)
  BY DEF PublishCrash
<1>4. {nextId} \X reached \in SUBSET (Id \X User)
  BY <1>1, <1>2, MetaType
<1>5. /\ seen' \in [Id -> [User -> {"no", "sent", "acked"}]]
      /\ redundant' \subseteq Id \X User
  BY <1>1, <1>3, <1>4, SendType
<1>6. log' \in [Id -> LogEntry]
  BY <1>1, RecordType DEF PublishCrash
<1>7. /\ Good(store') /\ store'.events = {}
      /\ conn' \in [User -> ConnState] /\ inflight' = {} /\ crashes' \in Nat
  BY RestartGood DEF PublishCrash
<1>8. now' = now
  BY DEF PublishCrash
<1>9. TypeOK'
  BY <1>1, <1>2, <1>5, <1>6, <1>7, <1>8 DEF TypeOK, Good
<1> QED BY <1>7, <1>9 DEF IInv

\* event:ack, with the notification of a sender that is away.
LEMMA AckStep ==
  ASSUME IInv, NEW u \in User, NEW e \in Id, Ack(u, e)
  PROVE  IInv'
<1> DEFINE applied == MarkApplied(store, {<<e, u>>})
           sender == store.meta[e].notifyTo
           notice == [qos |-> 1, expiresAt |-> now + AckTtl, notifyTo |-> NoUser]
<1>1. TypeOK /\ Good(store) /\ now \in Nat /\ \A f \in store.events : f < nextId
  BY DEF IInv, TypeOK
<1>2. Good(applied) /\ applied.events \subseteq store.events
  BY <1>1, MarkAppliedGood, MarksAddNothing
<1>3. seen' = [seen EXCEPT ![e][u] = "acked"]
  BY DEF Ack
<1>4. seen' \in [Id -> [User -> {"no", "sent", "acked"}]]
  BY <1>1, <1>3 DEF TypeOK
<1>5. UNCHANGED <<conn, inflight, now, crashes, redundant>>
  BY DEF Ack
<1>6. CASE store' = applied /\ UNCHANGED <<nextId, log>>
  <2>1. TypeOK'
    BY <1>1, <1>2, <1>4, <1>5, <1>6 DEF TypeOK, Good
  <2> QED BY <1>1, <1>2, <1>6, <2>1 DEF IInv
<1>7. CASE /\ sender \notin {NoUser, u}
           /\ CanCreate(AckTtl)
           /\ store' = Create(applied, nextId, {sender}, notice, now)
           /\ log' = [log EXCEPT ![nextId] = [to |-> {sender}, qos |-> 1,
                                              deadline |-> now + AckTtl]]
           /\ nextId' = nextId + 1
  <2>1. sender \in User /\ notice \in Meta
    BY <1>1, <1>7, DeliveryAssumption DEF Good, Store, Meta
  <2>2. nextId \in Id /\ nextId' \in 1 .. (NEvents + 1)
    BY <1>1, <1>7, StoreAssumption DEF TypeOK, CanCreate, Id
  <2>3. Good(store') /\ store'.events \subseteq applied.events \cup {nextId}
    <3>1. \A f \in applied.events : f < nextId
      BY <1>1, <1>2
    <3>2. {sender} \in SUBSET User
      BY <2>1
    <3> HIDE DEF applied, notice, sender
    <3> QED BY <1>2, <1>7, <2>1, <2>2, <3>1, <3>2, CreateGood
  <2>4. \A f \in store'.events : f < nextId'
    <3>1. nextId' = nextId + 1 /\ nextId \in Nat
      BY <1>7, <2>2, StoreAssumption DEF Id
    <3>2. \A f \in store.events : f \in Nat
      BY <1>1, StoreAssumption DEF Good, Store, Id
    <3> HIDE DEF applied
    <3> QED BY <1>1, <1>2, <2>3, <3>1, <3>2
  <2> HIDE DEF applied, notice, sender
  <2>5. [to |-> {sender}, qos |-> 1, deadline |-> now + AckTtl] \in LogEntry
    BY <1>1, <2>1, DeliveryAssumption DEF LogEntry
  <2>6. log' \in [Id -> LogEntry]
    BY <1>1, <1>7, <2>5 DEF TypeOK
  <2>7. TypeOK'
    BY <1>1, <1>4, <1>5, <2>2, <2>3, <2>6 DEF TypeOK, Good
  <2> QED BY <2>3, <2>4, <2>7 DEF IInv
<1> QED BY <1>6, <1>7 DEF Ack

\* retryPendingEvents().
LEMMA RetryStep ==
  ASSUME IInv, RetryTick
  PROVE  IInv'
<1>1. TypeOK /\ Good(store) /\ now \in Nat
  BY DEF IInv, TypeOK
<1>2. PICK sent \in SUBSET (Id \X User) :
        /\ \A e \in Id, v \in User : <<e, v>> \in sent => e \in store.userEvents[v]
        /\ Send(sent) /\ store' = MarkSent(store, sent, now)
  <2>1. PICK lucky : LET sent == {p \in Id \X User :
                                    /\ conn[p[2]] = "open"
                                    /\ p[1] \in GetPendingWithRetry(store, p[2], now, lucky)}
                     IN  Send(sent) /\ store' = MarkSent(store, sent, now)
    BY DEF RetryTick
  <2> DEFINE sent == {p \in Id \X User :
                        /\ conn[p[2]] = "open"
                        /\ p[1] \in GetPendingWithRetry(store, p[2], now, lucky)}
  <2>2. \A e \in Id, v \in User : <<e, v>> \in sent => e \in store.userEvents[v]
    BY DEF GetPendingWithRetry
  <2>3. sent \in SUBSET (Id \X User)
    OBVIOUS
  <2>4. Send(sent) /\ store' = MarkSent(store, sent, now)
    BY <2>1
  <2> HIDE DEF sent
  <2> QED BY <2>2, <2>3, <2>4
<1>3. \A e \in store.events, v \in User : <<e, v>> \in sent => e \in store.userEvents[v]
  BY <1>1, <1>2 DEF Good, Store
<1>4. Good(store') /\ store'.events \subseteq store.events
  BY <1>1, <1>2, <1>3, MarkSentGood, MarksAddNothing
<1>5. /\ seen' \in [Id -> [User -> {"no", "sent", "acked"}]]
      /\ redundant' \subseteq Id \X User
  BY <1>1, <1>2, SendType
<1>6. UNCHANGED <<conn, inflight, nextId, now, crashes, log>>
  BY DEF RetryTick
<1>7. TypeOK'
  BY <1>1, <1>4, <1>5, <1>6 DEF TypeOK, Good
<1> QED BY <1>4, <1>6, <1>7 DEF IInv

\* The TTL timeout of an event.
LEMMA ExpiryStep ==
  ASSUME IInv, NEW e \in Id, ExpiryTimer(e)
  PROVE  IInv'
<1>1. TypeOK /\ Good(store)
  BY DEF IInv, TypeOK
<1>2. Good(store') /\ store'.events \subseteq store.events
  <2>1. CASE store' = RemoveEvents(store, {e}, TRUE)
    <3>1. Good(store')
      BY <1>1, <2>1, RemoveGood
    <3> QED BY <2>1, <3>1 DEF RemoveEvents
  <2>2. CASE store' = [store EXCEPT !.timers = @ \ {e}]
    BY <1>1, <2>2 DEF Good, Store, IndexSound, IndexComplete, Cleared
  <2> QED BY <2>1, <2>2 DEF ExpiryTimer
<1>3. UNCHANGED <<conn, inflight, nextId, now, crashes, log, seen, redundant>>
  BY DEF ExpiryTimer
<1>4. TypeOK'
  BY <1>1, <1>2, <1>3 DEF TypeOK, Good
<1> QED BY <1>2, <1>3, <1>4 DEF IInv

\* The cleanup interval.
LEMMA CleanupStep ==
  ASSUME IInv, CleanupTick
  PROVE  IInv'
<1>1. TypeOK /\ Good(store)
  BY DEF IInv, TypeOK
<1>2. Good(store') /\ store'.events \subseteq store.events
  BY <1>1, CleanupGood DEF CleanupTick
<1>3. UNCHANGED <<conn, inflight, nextId, now, crashes, log, seen, redundant>>
  BY DEF CleanupTick
<1>4. TypeOK'
  BY <1>1, <1>2, <1>3 DEF TypeOK, Good
<1> QED BY <1>2, <1>3, <1>4 DEF IInv

\* Time passes.
LEMMA TickStep ==
  ASSUME IInv, Tick
  PROVE  IInv'
<1>1. TypeOK'
  BY DEF IInv, TypeOK, Tick
<1> QED BY <1>1, QuietStep DEF Tick

-----------------------------------------------------------------------------
(* The invariant and its consequences.                                     *)

\* A gateway that has just started.
LEMMA InitIInv == Init => IInv
<1> SUFFICES ASSUME Init PROVE IInv
  OBVIOUS
<1>1. Good(store) /\ store.events = {}
  BY EmptyGood DEF Init, EmptyStore
<1>2. log \in [Id -> LogEntry]
  BY DEF Init, NoEntry, LogEntry
<1>3. TypeOK
  BY <1>1, <1>2, StoreAssumption DEF Init, TypeOK, ConnState, Good
<1> QED BY <1>1, <1>3 DEF IInv

\* Every step of the gateway keeps it.
LEMMA NextIInv == IInv /\ [Next]_vars => IInv'
<1> SUFFICES ASSUME IInv, [Next]_vars PROVE IInv'
  OBVIOUS
<1>1. ASSUME NEW u \in User, Connect(u) PROVE IInv'
  BY <1>1, ConnectStep
<1>2. ASSUME NEW u \in User, ConnectTooLate(u) \/ Disconnect(u) PROVE IInv'
  BY <1>2, CloseStep
<1>13. ASSUME NEW U \in SUBSET User, StartClose(U) PROVE IInv'
  BY <1>13, StartCloseStep
<1>14. ASSUME NEW u \in User, Removed(u) PROVE IInv'
  BY <1>14, RemovedStep
<1>3. ASSUME NEW h \in Handler, NEW r \in Route, NEW k \in Kind, BeginPublish(h, r, k)
      PROVE  IInv'
  BY <1>3, BeginPublishStep
<1>4. ASSUME NEW q \in inflight, Publish(q) PROVE IInv'
  BY <1>4, PublishStep
<1>5. ASSUME NEW q \in inflight, PublishCrash(q) PROVE IInv'
  BY <1>5, PublishCrashStep
<1>6. ASSUME NEW u \in User, NEW e \in Id, Ack(u, e) PROVE IInv'
  BY <1>6, AckStep
<1>7. ASSUME NEW e \in Id, ExpiryTimer(e) PROVE IInv'
  BY <1>7, ExpiryStep
<1>8. CASE RetryTick
  BY <1>8, RetryStep
<1>9. CASE CleanupTick
  BY <1>9, CleanupStep
<1>10. CASE Tick
  BY <1>10, TickStep
<1>11. ASSUME NEW q \in inflight, QueryFails(q) PROVE IInv'
  BY <1>11, QueryFailsStep
<1>12. CASE UNCHANGED vars
  BY <1>12 DEF IInv, TypeOK, vars
<1> QED
  BY <1>1, <1>2, <1>3, <1>4, <1>5, <1>6, <1>7, <1>8, <1>9, <1>10, <1>11, <1>12, <1>13, <1>14
  DEF Next

\* The inductive invariant holds in every reachable state.
THEOREM Inductive == Spec => []IInv
  BY InitIInv, NextIInv, PTL DEF Spec

\* Every variable keeps its type, and the store its shape.
THEOREM TypeCorrect == Spec => []TypeOK
<1>1. IInv => TypeOK
  BY DEF IInv
<1> QED BY <1>1, Inductive, PTL

\* The index and the records of EventStoreService agree in every reachable
\* state: no index entry dangles (events.get(id)! is never undefined) and no
\* recipient that an event waits for is missing from the index, whatever the
\* limits, the timeouts and the order of timers, acks, publishes and restarts.
THEOREM Consistent == Spec => []StoreConsistent
<1>1. IInv => StoreConsistent
  BY DEF IInv, Good, StoreConsistent
<1> QED BY <1>1, Inductive, PTL

-----------------------------------------------------------------------------
(* The status FAILED.                                                      *)

\* The configuration keeps every TTL within EVENT_STORE_STALE_TIMEOUT.
ShortLived == AckTtl <= StaleTimeout /\ \A k \in Kind : k.ttl <= StaleTimeout

\* What the store holds, and what is about to be published, lives no longer.
YoungAll ==
  /\ Young(store, now)
  /\ \A q \in inflight : q.ttl <= StaleTimeout

\* The publication of a short-lived event.
LEMMA PublishYoung ==
  ASSUME IInv, YoungAll, NEW q \in inflight, Publish(q)
  PROVE  Young(store', now)
<1>1. TypeOK /\ Good(store) /\ now \in Nat /\ \A f \in store.events : f < nextId
  BY DEF IInv, TypeOK
<1>2. nextId \in Id
  BY <1>1, StoreAssumption DEF TypeOK, Publish, CanCreate, Id
<1>3. MetaOf(q) \in Meta /\ OnlineIds(q) \in SUBSET User /\ OfflineIds(q) \in SUBSET User
      /\ q \in Request
  BY <1>1, MetaType
<1>4. MetaOf(q).expiresAt <= now + StaleTimeout
  BY <1>1, <1>3, StoreAssumption DEF MetaOf, YoungAll, Request
<1>5. \A U \in SUBSET User :
        LET c == Create(store, nextId, U, MetaOf(q), now)
        IN  Good(c) /\ Young(c, now)
  <2> SUFFICES ASSUME NEW U \in SUBSET User
               PROVE  LET c == Create(store, nextId, U, MetaOf(q), now)
                      IN  Good(c) /\ Young(c, now)
    OBVIOUS
  <2> HIDE DEF YoungAll
  <2>1. Young(store, now)  BY DEF YoungAll
  <2> QED  BY <1>1, <1>2, <1>3, <1>4, <2>1, CreateGood, CreateYoung
<1>6. CASE q.qos = 1 /\ PublishQos1(q)
  BY <1>3, <1>5, <1>6 DEF PublishQos1, YoungAll
<1>7. CASE q.qos = 2 /\ PublishQos2(q)
  <2> DEFINE all == OnlineIds(q) \cup OfflineIds(q)
             sent == {nextId} \X OnlineIds(q)
             c == Create(store, nextId, all, MetaOf(q), now)
  <2>1. Good(c) /\ Young(c, now)
    BY <1>3, <1>5
  <2>2. store' = IF all = {} THEN store ELSE MarkDelivered(c, sent, now)
    BY <1>7 DEF PublishQos2
  <2> HIDE DEF c, sent, all
  <2>3. Young(MarkDelivered(c, sent, now), now)
    BY <1>1, <2>1, MarkDeliveredYoung DEF Good
  <2> QED  BY <2>2, <2>3 DEF YoungAll
<1> QED  BY <1>6, <1>7 DEF Publish

\* An acknowledgement, with the note to a sender that is away.
LEMMA AckYoung ==
  ASSUME ShortLived, IInv, YoungAll, NEW u0 \in User, NEW e0 \in Id, Ack(u0, e0)
  PROVE  Young(store', now)
<1> DEFINE a == MarkApplied(store, {<<e0, u0>>})
           sender == store.meta[e0].notifyTo
           m == [qos |-> 1, expiresAt |-> now + AckTtl, notifyTo |-> NoUser]
<1>1. TypeOK /\ Good(store) /\ now \in Nat /\ \A f \in store.events : f < nextId
  BY DEF IInv, TypeOK
<1>2. Good(a) /\ a.events \subseteq store.events /\ Young(a, now)
  BY <1>1, MarkAppliedGood, MarksAddNothing, MarkAppliedYoung DEF YoungAll
<1>3. \/ store' = a
      \/ sender # NoUser /\ CanCreate(AckTtl) /\ store' = Create(a, nextId, {sender}, m, now)
  BY DEF Ack
<1> HIDE DEF a
<1>4. CASE sender # NoUser /\ CanCreate(AckTtl) /\ store' = Create(a, nextId, {sender}, m, now)
  <2>1. nextId \in Id  BY <1>1, <1>4, StoreAssumption DEF TypeOK, CanCreate, Id
  <2>2. m \in Meta  BY <1>1, DeliveryAssumption DEF Meta
  <2>3. {sender} \in SUBSET User  BY <1>1, <1>4 DEF Good, Store, Meta
  <2>4. \A f \in a.events : f < nextId  BY <1>1, <1>2
  <2>5. m.expiresAt <= now + StaleTimeout
    BY <1>1, DeliveryAssumption, StoreAssumption DEF ShortLived
  <2> HIDE DEF m, sender
  <2> QED  BY <1>1, <1>2, <1>4, <2>1, <2>2, <2>3, <2>4, <2>5, CreateYoung
<1> QED  BY <1>2, <1>3, <1>4

LEMMA NextYoung == ShortLived /\ IInv /\ YoungAll /\ [Next]_vars => YoungAll'
<1> SUFFICES ASSUME ShortLived, IInv, YoungAll, [Next]_vars PROVE YoungAll'
  OBVIOUS
<1>1. TypeOK /\ Good(store) /\ now \in Nat
  BY DEF IInv, TypeOK
<1>2. ASSUME now' = now, inflight' \subseteq inflight, Young(store', now) PROVE YoungAll'
  BY <1>2 DEF YoungAll, Young
<1>3. ASSUME NEW q \in inflight, Publish(q) PROVE YoungAll'
  <2>1. now' = now /\ inflight' \subseteq inflight  BY <1>3 DEF Publish
  <2> QED  BY <1>2, <1>3, <2>1, PublishYoung
<1>4. ASSUME NEW u \in User, NEW e \in Id, Ack(u, e) PROVE YoungAll'
  <2>1. now' = now /\ inflight' \subseteq inflight  BY <1>4 DEF Ack
  <2> QED  BY <1>2, <1>4, <2>1, AckYoung
<1>5. ASSUME NEW q \in inflight, PublishCrash(q) \/ QueryFails(q) PROVE YoungAll'
  <2>1. now' = now /\ inflight' = {} /\ store' = EmptyStore
    BY <1>5 DEF PublishCrash, QueryFails, Restart
  <2>2. Young(store', now)  BY <2>1 DEF EmptyStore, Young
  <2> QED  BY <1>2, <2>1, <2>2
<1>6. ASSUME NEW u \in User, Connect(u) PROVE YoungAll'
  <2> DEFINE P == GetPending(store, u, now) \X {u}
  <2>1. now' = now /\ inflight' = inflight /\ store' = MarkSent(store, P, now)
    BY <1>6 DEF Connect, DeliverPending
  <2>2. \A e \in Id, v \in User : <<e, v>> \in P => e \in store.userEvents[v]
    BY <1>1, PendingType
  <2> HIDE DEF P
  <2>3. \A e \in store.events, v \in User : <<e, v>> \in P => e \in store.userEvents[v]
    BY <1>1, <2>2 DEF Good, Store
  <2>4. Young(store', now)  BY <1>1, <2>1, <2>3, MarkSentYoung DEF YoungAll
  <2> QED  BY <1>2, <2>1, <2>4
<1>7. CASE RetryTick
  <2>1. PICK lucky :
          LET sent == {p \in Id \X User :
                         /\ conn[p[2]] = "open"
                         /\ p[1] \in GetPendingWithRetry(store, p[2], now, lucky)}
          IN  store' = MarkSent(store, sent, now) /\ now' = now /\ inflight' = inflight
    BY <1>7 DEF RetryTick
  <2> DEFINE sent == {p \in Id \X User :
                        /\ conn[p[2]] = "open"
                        /\ p[1] \in GetPendingWithRetry(store, p[2], now, lucky)}
  <2>2. \A e \in store.events, v \in User : <<e, v>> \in sent => e \in store.userEvents[v]
    BY DEF GetPendingWithRetry
  <2>3. store' = MarkSent(store, sent, now)
    BY <2>1
  <2> HIDE DEF sent
  <2>4. Young(store', now)  BY <1>1, <2>2, <2>3, MarkSentYoung DEF YoungAll
  <2> QED  BY <1>2, <2>1, <2>4
<1>8. ASSUME NEW e \in Id, ExpiryTimer(e) PROVE YoungAll'
  <2>1. /\ now' = now /\ inflight' = inflight
        /\ \/ store' = RemoveEvents(store, {e}, TRUE)
           \/ store' = [store EXCEPT !.timers = @ \ {e}]
    BY <1>8 DEF ExpiryTimer
  <2>2. store \in Store /\ Young(store, now)  BY <1>1 DEF Good, YoungAll
  <2>3. Young(RemoveEvents(store, {e}, TRUE), now)  BY <2>2, RemoveYoung
  <2>4. Young([store EXCEPT !.timers = @ \ {e}], now)  BY <2>2 DEF Young, Store
  <2> QED  BY <1>2, <2>1, <2>3, <2>4
<1>9. CASE CleanupTick
  <2>1. Young(store', now)  BY <1>1, <1>9, CleanupYoung DEF CleanupTick, YoungAll
  <2> QED  BY <1>2, <1>9, <2>1 DEF CleanupTick
<1>10. ASSUME NEW u \in User, ConnectTooLate(u) \/ Disconnect(u) PROVE YoungAll'
  BY <1>10 DEF ConnectTooLate, Disconnect, YoungAll, Young
<1>11. ASSUME NEW U \in SUBSET User, StartClose(U) PROVE YoungAll'
  BY <1>11 DEF StartClose, YoungAll, Young
<1>12. ASSUME NEW u \in User, Removed(u) PROVE YoungAll'
  <2>1. store' = store /\ now' = now
    BY <1>12 DEF Removed
  <2>2. \A q \in inflight' : \E p \in inflight : q.ttl = p.ttl
    <3>1. \A p \in inflight : p \in Request  BY <1>1 DEF TypeOK
    <3>2. \A p \in inflight : [p EXCEPT !.lost = @ \cup ({u} \cap p.receivers)].ttl = p.ttl
      BY <3>1 DEF Request
    <3> QED  BY <1>12, <3>2 DEF Removed, LoseSession
  <2> QED  BY <2>1, <2>2 DEF YoungAll, Young
<1>13. ASSUME NEW h \in Handler, NEW r \in Route, NEW k \in Kind, BeginPublish(h, r, k)
       PROVE  YoungAll'
  <2>1. \A q \in inflight' : q \in inflight \/ q.ttl = k.ttl
    BY <1>13 DEF BeginPublish
  <2>2. store' = store /\ now' = now
    BY <1>13 DEF BeginPublish
  <2> QED  BY <2>1, <2>2 DEF YoungAll, Young, ShortLived
<1>14. CASE Tick
  <2>1. store' = store /\ inflight' = inflight /\ now' = now + 1
    BY <1>14 DEF Tick
  <2>2. \A e \in store.events : store.meta[e].expiresAt \in Nat
    BY <1>1 DEF Good, Store, Meta
  <2> QED  BY <1>1, <2>1, <2>2, StoreAssumption DEF YoungAll, Young
<1>15. CASE UNCHANGED vars
  BY <1>15 DEF vars, YoungAll, Young
<1> QED
  BY <1>3, <1>4, <1>5, <1>6, <1>7, <1>8, <1>9, <1>10, <1>11, <1>12, <1>13, <1>14, <1>15
  DEF Next

\* With TTLs within the stale timeout no event is ever FAILED: the cleanup interval
\* removes what has expired before it looks for what is stale.
THEOREM NoneFails ==
  ASSUME ShortLived
  PROVE  Spec => []NeverFailed
<1>1. Init => YoungAll
  BY DEF Init, EmptyStore, YoungAll, Young
<1>2. IInv /\ YoungAll /\ [Next]_vars => YoungAll'
  BY NextYoung
<1>3. IInv /\ YoungAll => NeverFailed
  BY DEF IInv, Good, Store, YoungAll, Young, NeverFailed
<1> QED  BY <1>1, <1>2, <1>3, Inductive, PTL DEF Spec
=============================================================================
