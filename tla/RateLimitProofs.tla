-------------------------- MODULE RateLimitProofs --------------------------
(***************************************************************************)
(* No client extends its own block, and no burst exceeds two windows, for  *)
(* every set of rules, windows, limits, addresses and credentials, however *)
(* their keys coincide, and every number of requests.                      *)
(***************************************************************************)
EXTENDS RateLimit, FiniteSetTheorems, TLAPS

Made == admitted \cup refused

\* Requests are numbered in the order in which they are made.
Numbered ==
  /\ IsFiniteSet(Made)
  /\ \A r \in Made : r.n <= Cardinality(Made) /\ r.at <= now

\* A block that ends at u began at t or earlier: some rule's window is as long.
Ends(u, t) == \E rule \in Rule : u <= t + Config[rule].windowMs

\* No block lasts longer than a window from now.
BlockBound == \A k \in Key : store[k].blockedUntil # 0 => Ends(store[k].blockedUntil, now)

\* After a refusal the key is still in the block that refused it, which is not
\* longer than a window from then, or it was let through since.
LockedOnce ==
  \A a \in refused :
    \/ \E r \in admitted : r.key = a.key /\ a.n < r.n
    \/ store[a.key].blockedUntil # 0 /\ Ends(store[a.key].blockedUntil, a.at)

RLInv == TypeOK /\ Numbered /\ BlockBound /\ LockedOnce /\ LockoutBound

-----------------------------------------------------------------------------

LEMMA ConfigType ==
  ASSUME NEW rule \in Rule
  PROVE  /\ rule \in RuleName
         /\ Config[rule].windowMs \in Nat \ {0}
         /\ Config[rule].maxAttempts \in Nat
BY RateLimitAssumption DEF RateLimitAssumption, Rule

LEMMA KeyOfType ==
  ASSUME NEW rule \in Rule, NEW ip \in Ip, NEW cred \in Cred \cup {NoCred}
  PROVE  KeyOf(rule, ip, cred) \in Key
BY RateLimitAssumption DEF KeyOf, RateLimitAssumption

\* What increment() makes of an entry: it opens a window, leaves a block as it
\* is, or counts, and starts a block only where there is none.
LEMMA IncrementEffect ==
  ASSUME now \in Nat \ {0}, NEW info \in Info, NEW rule \in Rule
  PROVE  LET new == Increment(info, Config[rule])
         IN  /\ new \in Info
             /\ new.blockedUntil # 0 =>
                  \/ new = info /\ now < info.blockedUntil
                  \/ info.blockedUntil = 0 /\ new.blockedUntil = now + Config[rule].windowMs
<1> DEFINE r == Config[rule]
           counted == [info EXCEPT !.count = @ + 1]
           blocked == [counted EXCEPT !.blockedUntil = now + r.windowMs]
           new == Increment(info, r)
<1>1. r.windowMs \in Nat \ {0} /\ r.maxAttempts \in Nat  BY ConfigType
<1>2. /\ info.count \in Nat /\ info.firstAttempt \in Nat /\ info.blockedUntil \in Nat
      /\ counted \in Info /\ counted.blockedUntil = info.blockedUntil
  BY DEF Info
<1>3. Fresh \in Info /\ Fresh.blockedUntil = 0
  BY DEF Fresh, Info
<1>4. blocked \in Info /\ blocked.blockedUntil = now + r.windowMs
  <2> HIDE DEF counted, r
  <2>1. now + r.windowMs \in Nat  BY <1>1
  <2> QED  BY <1>2, <2>1 DEF Info
<1>5. \/ new = Fresh
      \/ new = info /\ info.blockedUntil # 0 /\ ~(info.blockedUntil <= now)
      \/ new = blocked /\ info.blockedUntil = 0
      \/ new = counted /\ info.blockedUntil = 0
  BY Zenon DEF Increment
<1> HIDE DEF r, counted, new, blocked
<1>6. new \in Info
  BY <1>2, <1>3, <1>4, <1>5
<1>7. new.blockedUntil # 0 =>
           \/ new = info /\ now < info.blockedUntil
           \/ info.blockedUntil = 0 /\ new.blockedUntil = now + r.windowMs
  BY <1>2, <1>3, <1>4, <1>5
<1> QED  BY <1>6, <1>7 DEF new, r

\* The requests of one step, let through or refused.
LEMMA ExecuteStep ==
  ASSUME RLInv, NEW rule \in Rule, NEW ip \in Ip, NEW cred \in Cred \cup {NoCred},
         Execute(rule, ip, cred)
  PROVE  RLInv'
<1> DEFINE key  == KeyOf(rule, ip, cred)
           info == Increment(store[key], Config[rule])
           n    == Cardinality(Made) + 1
           req  == [key |-> key, rule |-> rule, at |-> now, n |-> n]
<1>1. key \in Key  BY KeyOfType
<1>2. now \in Nat \ {0} /\ store[key] \in Info /\ MaxRequests \in Nat
  BY <1>1, RateLimitAssumption DEF RLInv, TypeOK, RateLimitAssumption
<1>3. /\ info \in Info
      /\ info.blockedUntil # 0 =>
           \/ info = store[key] /\ now < store[key].blockedUntil
           \/ /\ store[key].blockedUntil = 0
              /\ info.blockedUntil = now + Config[rule].windowMs
  BY <1>2, IncrementEffect
<1>4. IsFiniteSet(Made) /\ Cardinality(Made) \in Nat
  BY FS_CardinalityType DEF RLInv, Numbered
<1>5. /\ n <= MaxRequests /\ now' = now
      /\ \A k \in Key : store'[k] = IF k = key THEN info ELSE store[k]
      /\ store' \in [Key -> Info]
  BY <1>1, <1>3 DEF Execute, Made, RLInv, TypeOK
<1>6. \/ info.blockedUntil = 0 /\ admitted' = admitted \cup {req} /\ refused' = refused
      \/ info.blockedUntil # 0 /\ refused' = refused \cup {req} /\ admitted' = admitted
  BY DEF Execute, Made
<1>7. /\ req \in Request /\ req.key = key /\ req.at = now /\ req.n = n
      /\ n \in Nat /\ n = Cardinality(Made) + 1
  BY <1>1, <1>2, <1>4, <1>5 DEF Request, Rule
<1>8. \A r \in Made : r.n \in Nat /\ r.at \in Nat /\ r.at <= now /\ r.n < n
                      /\ r.key \in Key
  <2> SUFFICES ASSUME NEW r \in Made
               PROVE  r.n \in Nat /\ r.at \in Nat /\ r.at <= now /\ r.n < n /\ r.key \in Key
    OBVIOUS
  <2>1. r \in Request  BY DEF RLInv, TypeOK, Made
  <2>2. r.n \in 1 .. MaxRequests /\ r.at \in Nat /\ r.key \in Key  BY <2>1 DEF Request
  <2>3. r.n <= Cardinality(Made) /\ r.at <= now  BY DEF RLInv, Numbered
  <2> QED  BY <1>2, <1>4, <1>7, <2>2, <2>3
<1> HIDE DEF key, info, n, req
<1>9. req \notin Made  BY <1>7, <1>8
<1>10. Made' = Made \cup {req}  BY <1>6 DEF Made
<1>11. TypeOK'
  BY <1>2, <1>5, <1>6, <1>7 DEF RLInv, TypeOK
<1>12. Numbered'
  <2>1. IsFiniteSet(Made') /\ Cardinality(Made') = n
    BY <1>4, <1>7, <1>9, <1>10, FS_AddElement
  <2>2. \A r \in Made' : r.n <= n /\ r.at <= now'
    BY <1>2, <1>5, <1>7, <1>8, <1>10
  <2> QED  BY <2>1, <2>2 DEF Numbered
<1>13. info.blockedUntil # 0 => Ends(info.blockedUntil, now)
  <2> SUFFICES ASSUME info.blockedUntil # 0 PROVE Ends(info.blockedUntil, now)  OBVIOUS
  <2>1. CASE info = store[key]
    BY <1>1, <2>1 DEF RLInv, BlockBound
  <2>2. CASE info.blockedUntil = now + Config[rule].windowMs
    <3>1. Config[rule].windowMs \in Nat  BY ConfigType
    <3>2. info.blockedUntil <= now + Config[rule].windowMs  BY <1>2, <2>2, <3>1
    <3> QED  BY <3>2 DEF Ends
  <2> QED  BY <1>3, <2>1, <2>2
<1>14. BlockBound'
  BY <1>5, <1>13 DEF RLInv, BlockBound, Ends, Rule
<1>15. LockedOnce'
  <2> SUFFICES ASSUME NEW a \in refused'
               PROVE  \/ \E r \in admitted' : r.key = a.key /\ a.n < r.n
                      \/ store'[a.key].blockedUntil # 0 /\ Ends(store'[a.key].blockedUntil, a.at)
    BY DEF LockedOnce, Ends, Rule
  <2>1. CASE a = req /\ info.blockedUntil # 0
    BY <1>1, <1>5, <1>7, <1>13, <2>1
  <2>2. CASE a \in refused
    <3>1. a \in Made /\ a.key \in Key /\ a.n < n  BY <1>8, <2>2 DEF Made
    <3>2. CASE \E r \in admitted : r.key = a.key /\ a.n < r.n
      BY <1>6, <3>2
    <3>3. CASE store[a.key].blockedUntil # 0 /\ Ends(store[a.key].blockedUntil, a.at)
      <4>1. CASE a.key # key  BY <1>5, <3>1, <3>3, <4>1
      <4>2. CASE a.key = key /\ info.blockedUntil = 0
        <5>1. req \in admitted'  BY <1>6, <4>2
        <5> QED  BY <1>7, <3>1, <4>2, <5>1
      <4>3. CASE a.key = key /\ info.blockedUntil # 0
        <5>1. info = store[key]  BY <1>3, <3>3, <4>3
        <5> QED  BY <1>5, <3>1, <3>3, <4>3, <5>1
      <4> QED  BY <4>1, <4>2, <4>3
    <3> QED  BY <2>2, <3>2, <3>3 DEF RLInv, LockedOnce
  <2> QED  BY <1>6, <2>1, <2>2
<1>16. LockoutBound'
  <2> SUFFICES ASSUME NEW a \in refused', NEW b \in refused', a.key = b.key,
                      \A q \in Rule : b.at - a.at >= Config[q].windowMs
               PROVE  \E r \in admitted' : r.key = a.key /\ a.n < r.n /\ r.n < b.n
    BY DEF LockoutBound, Rule
  <2>1. Config[rule].windowMs \in Nat \ {0} /\ b.at - a.at >= Config[rule].windowMs
    BY ConfigType
  <2>2. CASE a \in refused /\ b \in refused
    <3>1. \E r \in admitted : r.key = a.key /\ a.n < r.n /\ r.n < b.n
      BY <2>2 DEF RLInv, LockoutBound
    <3> QED  BY <1>6, <3>1
  <2>3. CASE a = req
    <3>1. a.at = now  BY <1>7, <2>3
    <3>2. b.at \in Nat /\ b.at <= now
      BY <1>2, <1>6, <1>7, <1>8 DEF Made
    <3> QED  BY <1>2, <2>1, <3>1, <3>2
  <2>4. CASE a \in refused /\ b = req /\ info.blockedUntil # 0
    <3>1. a \in Made /\ a.at \in Nat /\ a.n \in Nat /\ a.key \in Key  BY <1>8, <2>4 DEF Made
    <3>2. b.at = now /\ b.n = n /\ a.key = key  BY <1>7, <2>4
    <3>3. ~ (store[a.key].blockedUntil # 0 /\ Ends(store[a.key].blockedUntil, a.at))
      <4> SUFFICES ASSUME store[a.key].blockedUntil # 0, Ends(store[a.key].blockedUntil, a.at)
                   PROVE  FALSE
        OBVIOUS
      <4>1. PICK q \in Rule : store[key].blockedUntil <= a.at + Config[q].windowMs
        BY <3>2 DEF Ends
      <4>2. Config[q].windowMs \in Nat /\ b.at - a.at >= Config[q].windowMs  BY ConfigType
      <4>3. store[key].blockedUntil \in Nat  BY <1>2 DEF Info
      <4>4. store[key].blockedUntil <= now  BY <1>2, <3>1, <3>2, <4>1, <4>2, <4>3
      <4> QED  BY <1>2, <1>3, <2>4, <3>2, <4>3, <4>4
    <3>4. PICK r \in admitted : r.key = a.key /\ a.n < r.n
      BY <2>4, <3>3 DEF RLInv, LockedOnce
    <3>5. r \in admitted' /\ r.n < b.n  BY <1>6, <1>8, <3>2, <3>4 DEF Made
    <3> QED  BY <3>4, <3>5
  <2> QED  BY <1>6, <2>2, <2>3, <2>4
<1> QED  BY <1>11, <1>12, <1>14, <1>15, <1>16 DEF RLInv

\* Time passes: what was at most so far from now still is.
LEMMA TickStep ==
  ASSUME RLInv, Tick
  PROVE  RLInv'
<1>1. /\ now' = now + 1 /\ now \in Nat \ {0} /\ store' = store
      /\ admitted' = admitted /\ refused' = refused
  BY DEF Tick, RLInv, TypeOK
<1>2. TypeOK'  BY <1>1 DEF RLInv, TypeOK
<1>3. Numbered'
  <2>1. \A r \in Made : r.at \in Nat  BY DEF RLInv, TypeOK, Made, Request
  <2>2. Made' = Made  BY <1>1 DEF Made
  <2>3. \A r \in Made' : r.n <= Cardinality(Made') /\ r.at <= now'
    BY <1>1, <2>1, <2>2 DEF RLInv, Numbered
  <2> QED  BY <2>2, <2>3 DEF RLInv, Numbered
<1>4. BlockBound'
  <2> SUFFICES ASSUME NEW k \in Key, store[k].blockedUntil # 0
               PROVE  Ends(store[k].blockedUntil, now + 1)
    BY <1>1 DEF BlockBound, Ends, Rule
  <2>1. PICK q \in Rule : store[k].blockedUntil <= now + Config[q].windowMs
    BY DEF RLInv, BlockBound, Ends
  <2>2. Config[q].windowMs \in Nat /\ store[k].blockedUntil \in Nat
    BY ConfigType DEF RLInv, TypeOK, Info
  <2>3. store[k].blockedUntil <= now + 1 + Config[q].windowMs  BY <1>1, <2>1, <2>2
  <2> QED  BY <2>3 DEF Ends
<1>5. LockedOnce' /\ LockoutBound'
  BY <1>1 DEF RLInv, LockedOnce, LockoutBound, Ends, Rule
<1> QED  BY <1>2, <1>3, <1>4, <1>5 DEF RLInv

LEMMA InitRLInv == Init => RLInv
<1> SUFFICES ASSUME Init PROVE RLInv  OBVIOUS
<1>1. TypeOK  BY DEF Init, TypeOK, NoInfo, Info
<1>2. Made = {} /\ IsFiniteSet(Made)  BY FS_EmptySet DEF Init, Made
<1>3. \A k \in Key : store[k].blockedUntil = 0  BY DEF Init, NoInfo
<1> QED
  BY <1>1, <1>2, <1>3 DEF Init, RLInv, Numbered, BlockBound, LockedOnce, LockoutBound

LEMMA NextRLInv == RLInv /\ [Next]_vars => RLInv'
<1> SUFFICES ASSUME RLInv, [Next]_vars PROVE RLInv'  OBVIOUS
<1>1. CASE UNCHANGED vars
  BY <1>1 DEF vars, RLInv, TypeOK, Numbered, Made, BlockBound, LockedOnce, LockoutBound, Ends, Rule
<1>2. CASE Next
  <2>1. CASE \E rule \in Rule, ip \in Ip, cred \in Cred \cup {NoCred} : Execute(rule, ip, cred)
    BY <2>1, ExecuteStep
  <2>2. CASE Tick  BY <2>2, TickStep
  <2> QED  BY <1>2, <2>1, <2>2 DEF Next
<1> QED  BY <1>1, <1>2

\* The counters, the clock and the history always fit together: the inductive
\* invariant of InMemoryProvider and its callers.
THEOREM RLInvariant == Spec => []RLInv
BY InitRLInv, NextRLInv, PTL DEF Spec

\* The one map in which all rules count holds an entry of the right type for
\* every key that the three extractors make.
THEOREM TypeCorrect == Spec => []TypeOK
<1>1. RLInv => TypeOK  BY DEF RLInv
<1> QED  BY <1>1, RLInvariant, PTL

\* A client that goes on trying while increment() blocks it is let through again
\* after a window, even on a key that several rules share.
THEOREM LockoutEnds == Spec => []LockoutBound
<1>1. RLInv => LockoutBound  BY DEF RLInv
<1> QED  BY <1>1, RLInvariant, PTL

-----------------------------------------------------------------------------
(* Bursts.                                                                 *)

\* The requests of a key from number m on, and those before it that came less
\* than d before time t.
Since(S, k, m) == {r \in S : r.key = k /\ r.n >= m}
Before(S, k, m, t, d) == {r \in S : r.key = k /\ r.n < m /\ t < r.at + d}

\* The window that request m opened for key k: what it and the end of the one
\* before it have let through, and how far it and its block reach.
OneWindow(k, m, d, p) ==
  LET i == store[k]
  IN  /\ i.count = 0 => \A r \in admitted : r.key # k
      /\ i.count # 0 =>
           /\ i.firstAttempt <= now /\ m <= Cardinality(Made)
           /\ \A r \in admitted : r.key = k /\ r.n < m => r.at <= i.firstAttempt
           /\ Cardinality(Since(admitted, k, m)) <= p
           /\ Cardinality(Before(admitted, k, m, i.firstAttempt, d)) <= p
           /\ i.blockedUntil = 0 => Cardinality(Since(admitted, k, m)) <= i.count
           /\ i.blockedUntil # 0 => i.firstAttempt + d <= i.blockedUntil

\* Two windows in a row under every key, whichever rules count there.
Windows ==
  \A k \in Key, short \in Rule, generous \in Rule :
    Within(k, short, generous) =>
      \E m \in Nat : OneWindow(k, m, Config[short].windowMs, PerWindow(Config[generous]))

LEMMA PerWindowType ==
  ASSUME NEW rule \in Rule
  PROVE  /\ PerWindow(Config[rule]) \in Nat /\ PerWindow(Config[rule]) >= 1
         /\ \A n \in Nat : 1 < n /\ n < Config[rule].maxAttempts => n <= PerWindow(Config[rule])
BY ConfigType DEF PerWindow

LEMMA AdmittedFinite ==
  ASSUME RLInv, NEW S \in SUBSET admitted
  PROVE  IsFiniteSet(S) /\ Cardinality(S) \in Nat
BY FS_Subset, FS_CardinalityType DEF RLInv, Numbered, Made

LEMMA OneMore ==
  ASSUME NEW S, IsFiniteSet(S), NEW x, NEW T, T \subseteq S \cup {x}
  PROVE  Cardinality(T) \in Nat /\ Cardinality(T) <= Cardinality(S) + 1
<1>1. Cardinality(S) \in Nat  BY FS_CardinalityType
<1>2. /\ IsFiniteSet(S \cup {x})
      /\ Cardinality(S \cup {x}) = Cardinality(S) \/ Cardinality(S \cup {x}) = Cardinality(S) + 1
  BY FS_AddElement
<1>3. Cardinality(T) \in Nat /\ Cardinality(T) <= Cardinality(S \cup {x})
      /\ Cardinality(S \cup {x}) \in Nat
  BY <1>2, FS_Subset, FS_CardinalityType
<1> QED  BY <1>1, <1>2, <1>3

\* The four things increment() may do, each with its reason.
LEMMA IncrementCases ==
  ASSUME now \in Nat \ {0}, NEW info \in Info, NEW rule \in Rule
  PROVE  LET new == Increment(info, Config[rule])
             d   == Config[rule].windowMs
         IN  \/ /\ new = Fresh
                /\ \/ info.count = 0
                   \/ info.blockedUntil # 0 /\ info.blockedUntil <= now
                   \/ info.blockedUntil = 0 /\ now > info.firstAttempt + d
             \/ new = info /\ info.count # 0 /\ info.blockedUntil # 0
             \/ /\ info.count # 0 /\ info.blockedUntil = 0
                /\ new.count = info.count + 1 /\ new.firstAttempt = info.firstAttempt
                /\ new.blockedUntil = now + d
             \/ /\ info.count # 0 /\ info.blockedUntil = 0
                /\ new.count = info.count + 1 /\ new.firstAttempt = info.firstAttempt
                /\ new.blockedUntil = 0
                /\ new.count < Config[rule].maxAttempts
                /\ now <= info.firstAttempt + d
<1> DEFINE r == Config[rule]
           counted == [info EXCEPT !.count = @ + 1]
           blocked == [counted EXCEPT !.blockedUntil = now + r.windowMs]
           stale == \/ info.count = 0
                    \/ info.blockedUntil # 0 /\ info.blockedUntil <= now
                    \/ info.blockedUntil = 0 /\ now - info.firstAttempt > r.windowMs
           new == Increment(info, r)
<1>1. r.windowMs \in Nat \ {0} /\ r.maxAttempts \in Nat  BY ConfigType
<1>2. /\ info.count \in Nat /\ info.firstAttempt \in Nat /\ info.blockedUntil \in Nat
      /\ counted \in Info /\ counted.blockedUntil = info.blockedUntil
      /\ counted.count = info.count + 1 /\ counted.firstAttempt = info.firstAttempt
  BY DEF Info
<1>3. /\ blocked.blockedUntil = now + r.windowMs /\ blocked.count = info.count + 1
      /\ blocked.firstAttempt = info.firstAttempt
  <2> HIDE DEF counted, r
  <2> QED  BY <1>2 DEF Info
<1>4. \/ stale /\ new = Fresh
      \/ ~ stale /\ info.blockedUntil # 0 /\ new = info
      \/ ~ stale /\ info.blockedUntil = 0 /\ counted.count >= r.maxAttempts /\ new = blocked
      \/ ~ stale /\ info.blockedUntil = 0 /\ ~ (counted.count >= r.maxAttempts) /\ new = counted
  BY Zenon DEF Increment
<1> HIDE DEF r, counted, blocked, new
<1>5. /\ stale => \/ info.count = 0
                  \/ info.blockedUntil # 0 /\ info.blockedUntil <= now
                  \/ info.blockedUntil = 0 /\ now > info.firstAttempt + r.windowMs
      /\ ~ stale => /\ info.count # 0
                    /\ info.blockedUntil = 0 => now <= info.firstAttempt + r.windowMs
  BY <1>1, <1>2
<1> HIDE DEF stale
<1>6. ~ (counted.count >= r.maxAttempts) => counted.count < r.maxAttempts
  BY <1>1, <1>2
<1>7. \/ /\ new = Fresh
         /\ \/ info.count = 0
            \/ info.blockedUntil # 0 /\ info.blockedUntil <= now
            \/ info.blockedUntil = 0 /\ now > info.firstAttempt + r.windowMs
      \/ new = info /\ info.count # 0 /\ info.blockedUntil # 0
      \/ /\ info.count # 0 /\ info.blockedUntil = 0
         /\ new.count = info.count + 1 /\ new.firstAttempt = info.firstAttempt
         /\ new.blockedUntil = now + r.windowMs
      \/ /\ info.count # 0 /\ info.blockedUntil = 0
         /\ new.count = info.count + 1 /\ new.firstAttempt = info.firstAttempt
         /\ new.blockedUntil = 0
         /\ new.count < r.maxAttempts
         /\ now <= info.firstAttempt + r.windowMs
  BY <1>2, <1>3, <1>4, <1>5, <1>6
<1> QED  BY <1>7 DEF new, r

\* What a request does, as far as windows are concerned.
LEMMA RequestMade ==
  ASSUME RLInv, NEW rule \in Rule, NEW ip \in Ip, NEW cred \in Cred \cup {NoCred},
         Execute(rule, ip, cred)
  PROVE  LET key  == KeyOf(rule, ip, cred)
             info == Increment(store[key], Config[rule])
         IN  /\ key \in Key /\ store[key] \in Info /\ info \in Info /\ now' = now
             /\ \A k \in Key : store'[k] = IF k = key THEN info ELSE store[k]
             /\ \E req : /\ req.key = key /\ req.rule = rule /\ req.at = now
                         /\ req.n = Cardinality(Made) + 1 /\ Made' = Made \cup {req}
                         /\ Cardinality(Made') = Cardinality(Made) + 1
                         /\ \/ info.blockedUntil = 0 /\ admitted' = admitted \cup {req}
                            \/ info.blockedUntil # 0 /\ admitted' = admitted
<1> DEFINE key  == KeyOf(rule, ip, cred)
           info == Increment(store[key], Config[rule])
           req  == [key |-> key, rule |-> rule, at |-> now, n |-> Cardinality(Made) + 1]
<1>1. key \in Key  BY KeyOfType
<1>2. store[key] \in Info /\ now \in Nat \ {0}  BY <1>1 DEF RLInv, TypeOK
<1>3. info \in Info  BY <1>2, IncrementEffect
<1>4. now' = now /\ \A k \in Key : store'[k] = IF k = key THEN info ELSE store[k]
  BY <1>1 DEF Execute, RLInv, TypeOK
<1>5. /\ req.key = key /\ req.rule = rule /\ req.at = now /\ req.n = Cardinality(Made) + 1
      /\ \/ info.blockedUntil = 0 /\ admitted' = admitted \cup {req} /\ refused' = refused
         \/ info.blockedUntil # 0 /\ refused' = refused \cup {req} /\ admitted' = admitted
  BY DEF Execute, Made
<1> HIDE DEF req
<1>6. Made' = Made \cup {req}  BY <1>5 DEF Made
<1>7. Cardinality(Made') = Cardinality(Made) + 1
  <2>1. IsFiniteSet(Made) /\ Cardinality(Made) \in Nat
        /\ \A r \in Made : r.n <= Cardinality(Made)
    BY FS_CardinalityType DEF RLInv, Numbered
  <2>2. req \notin Made  BY <1>5, <2>1
  <2> QED  BY <1>6, <2>1, <2>2, FS_AddElement
<1> QED  BY <1>1, <1>2, <1>3, <1>4, <1>5, <1>6, <1>7

\* The rules under a key only become more.
LEMMA WithinBefore ==
  ASSUME Made \subseteq Made', NEW k \in Key, NEW short \in Rule, NEW generous \in Rule,
         Within(k, short, generous)'
  PROVE  Within(k, short, generous)
<1>1. \A r \in Made : r.key = k => r.rule \in CountedUnder(k)'
  BY DEF CountedUnder, Made
<1> QED  BY <1>1 DEF Within, CountedUnder, Made

\* A request under another key leaves the windows of a key as they are.
LEMMA OtherKey ==
  ASSUME NEW k \in Key, NEW m \in Nat, NEW d \in Nat, NEW p \in Nat, OneWindow(k, m, d, p),
         store'[k] = store[k], now' >= now, now \in Nat, now' \in Nat,
         store[k].firstAttempt \in Nat,
         {r \in admitted' : r.key = k} = {r \in admitted : r.key = k},
         Cardinality(Made) \in Nat, Cardinality(Made') \in Nat,
         Cardinality(Made') >= Cardinality(Made)
  PROVE  OneWindow(k, m, d, p)'
<1>1. \A r : r \in admitted /\ r.key = k <=> r \in admitted' /\ r.key = k  OBVIOUS
<1>2. Since(admitted', k, m) = Since(admitted, k, m)  BY <1>1 DEF Since
<1>3. Before(admitted', k, m, store[k].firstAttempt, d)
      = Before(admitted, k, m, store[k].firstAttempt, d)
  BY <1>1 DEF Before
<1>4. /\ store[k].firstAttempt <= now => store[k].firstAttempt <= now'
      /\ m <= Cardinality(Made) => m <= Cardinality(Made')
  OBVIOUS
<1> QED  BY <1>1, <1>2, <1>3, <1>4 DEF OneWindow

\* A request keeps the windows of its key within their bounds: it opens a window,
\* finds it blocked, blocks it, or counts below its own rule's limit.
LEMMA OwnKey ==
  ASSUME RLInv, NEW rule \in Rule, NEW ip \in Ip, NEW cred \in Cred \cup {NoCred},
         Execute(rule, ip, cred), NEW short \in Rule, NEW generous \in Rule,
         Config[short].windowMs <= Config[rule].windowMs,
         PerWindow(Config[rule]) <= PerWindow(Config[generous]),
         NEW m \in Nat,
         OneWindow(KeyOf(rule, ip, cred), m, Config[short].windowMs, PerWindow(Config[generous]))
  PROVE  \E x \in Nat :
           OneWindow(KeyOf(rule, ip, cred), x, Config[short].windowMs,
                     PerWindow(Config[generous]))'
<1> DEFINE k    == KeyOf(rule, ip, cred)
           info == Increment(store[k], Config[rule])
           w    == Config[rule].windowMs
           d    == Config[short].windowMs
           p    == PerWindow(Config[generous])
           old  == store[k]
           n    == Cardinality(Made) + 1
<1>1. PICK req : /\ req.key = k /\ req.at = now /\ req.n = n /\ Cardinality(Made') = n
                 /\ \/ info.blockedUntil = 0 /\ admitted' = admitted \cup {req}
                    \/ info.blockedUntil # 0 /\ admitted' = admitted
  BY RequestMade
<1>2. /\ k \in Key /\ old \in Info /\ info \in Info /\ now' = now /\ now \in Nat \ {0}
      /\ store'[k] = info
  BY RequestMade DEF RLInv, TypeOK
<1>3. \A r \in admitted : r.at \in Nat /\ r.at <= now /\ r.n \in Nat /\ r.n < n /\ n \in Nat
  <2>1. Cardinality(Made) \in Nat  BY FS_CardinalityType DEF RLInv, Numbered
  <2>2. MaxRequests \in Nat  BY RateLimitAssumption DEF RateLimitAssumption
  <2>3. \A r \in admitted : r.at \in Nat /\ r.n \in 1 .. MaxRequests
    BY DEF RLInv, TypeOK, Request
  <2>4. \A r \in admitted : r.at <= now /\ r.n <= Cardinality(Made)
    BY DEF RLInv, Numbered, Made
  <2> QED  BY <2>1, <2>2, <2>3, <2>4
<1>4. n \in Nat  BY FS_CardinalityType DEF RLInv, Numbered
<1>5. /\ d \in Nat \ {0} /\ p \in Nat /\ p >= 1 /\ w \in Nat /\ d <= w
      /\ \A c \in Nat : 1 < c /\ c < Config[rule].maxAttempts => c <= p
  <2>1. /\ PerWindow(Config[rule]) \in Nat
        /\ \A c \in Nat : 1 < c /\ c < Config[rule].maxAttempts => c <= PerWindow(Config[rule])
    BY PerWindowType
  <2> QED  BY <2>1, ConfigType, PerWindowType
<1>6. /\ old.count \in Nat /\ old.firstAttempt \in Nat /\ old.blockedUntil \in Nat
      /\ info.count \in Nat /\ info.firstAttempt \in Nat /\ info.blockedUntil \in Nat
  BY <1>2 DEF Info
<1>7. \/ /\ info = Fresh
         /\ \/ old.count = 0
            \/ old.blockedUntil # 0 /\ old.blockedUntil <= now
            \/ old.blockedUntil = 0 /\ now > old.firstAttempt + w
      \/ info = old /\ old.count # 0 /\ old.blockedUntil # 0
      \/ /\ old.count # 0 /\ old.blockedUntil = 0
         /\ info.count = old.count + 1 /\ info.firstAttempt = old.firstAttempt
         /\ info.blockedUntil = now + w
      \/ /\ old.count # 0 /\ old.blockedUntil = 0
         /\ info.count = old.count + 1 /\ info.firstAttempt = old.firstAttempt
         /\ info.blockedUntil = 0
         /\ info.count < Config[rule].maxAttempts
         /\ now <= old.firstAttempt + w
  BY <1>2, IncrementCases
<1>8. Fresh.count = 1 /\ Fresh.firstAttempt = now /\ Fresh.blockedUntil = 0  BY DEF Fresh
<1>9. OneWindow(k, m, d, p)  OBVIOUS
<1> SUFFICES \E x \in Nat : OneWindow(k, x, d, p)'  OBVIOUS
<1> HIDE DEF info, k, d, p, w, n
<1> DEFINE C == Since(admitted, k, m)
<1>10. /\ old.count = 0 => \A r \in admitted : r.key # k
       /\ old.count # 0 =>
            /\ old.firstAttempt <= now /\ m < n
            /\ \A r \in admitted : r.key = k /\ r.n < m => r.at <= old.firstAttempt
            /\ Cardinality(C) <= p
            /\ Cardinality(Before(admitted, k, m, old.firstAttempt, d)) <= p
            /\ old.blockedUntil = 0 => Cardinality(C) <= old.count
            /\ old.blockedUntil # 0 => old.firstAttempt + d <= old.blockedUntil
  <2>1. Cardinality(Made) \in Nat  BY FS_CardinalityType DEF RLInv, Numbered
  <2>2. m <= Cardinality(Made) => m < n  BY <2>1 DEF n
  <2> QED  BY <1>9, <2>2 DEF OneWindow
<1> HIDE DEF old
<1>11. IsFiniteSet(C) /\ Cardinality(C) \in Nat
  BY AdmittedFinite DEF Since
<1>12. ASSUME NEW x \in Nat, x <= n, info.count # 0, info.firstAttempt <= now,
              \A r \in admitted' : r.key = k /\ r.n < x => r.at <= info.firstAttempt,
              Cardinality(Since(admitted', k, x)) <= p,
              Cardinality(Before(admitted', k, x, info.firstAttempt, d)) <= p,
              info.blockedUntil = 0 => Cardinality(Since(admitted', k, x)) <= info.count,
              info.blockedUntil # 0 => info.firstAttempt + d <= info.blockedUntil
       PROVE  \E y \in Nat : OneWindow(k, y, d, p)'
  BY <1>1, <1>2, <1>12 DEF OneWindow
<1>13. CASE /\ info = Fresh
            /\ \/ old.count = 0
               \/ old.blockedUntil # 0 /\ old.blockedUntil <= now
               \/ old.blockedUntil = 0 /\ now > old.firstAttempt + w
  <2>1. info.count = 1 /\ info.firstAttempt = now /\ info.blockedUntil = 0  BY <1>8, <1>13
  <2>2. admitted' = admitted \cup {req}  BY <1>1, <2>1
  <2>3. Since(admitted', k, n) = {req}
    <3>1. \A r \in admitted : ~ (r.n >= n)  BY <1>3
    <3>2. req.key = k /\ req.n >= n  BY <1>1, <1>4
    <3> QED  BY <2>2, <3>1, <3>2 DEF Since
  <2>4. Cardinality(Since(admitted', k, n)) = 1  BY <2>3, FS_Singleton
  <2>5. Before(admitted', k, n, now, d) \subseteq C
    <3> SUFFICES ASSUME NEW r \in admitted', r.key = k, r.n < n, now < r.at + d
                 PROVE  r \in C
      BY DEF Before
    <3>1. r # req  BY <1>1, <1>4
    <3>2. r \in admitted /\ r.at \in Nat /\ r.n \in Nat  BY <1>3, <2>2, <3>1
    <3>3. old.count # 0  BY <1>10, <3>2
    <3>4. ~ (r.at <= old.firstAttempt)
      BY <1>2, <1>5, <1>6, <1>10, <1>13, <3>2, <3>3
    <3>5. r.n >= m  BY <1>10, <3>2, <3>3, <3>4
    <3> QED  BY <3>2, <3>5 DEF Since
  <2>6. Cardinality(Before(admitted', k, n, now, d)) <= p
    <3>1. CASE old.count = 0
      <4>1. C = {}  BY <1>10, <3>1 DEF Since
      <4>2. Before(admitted', k, n, now, d) = {}  BY <2>5, <4>1
      <4> QED  BY <1>5, <4>2, FS_EmptySet
    <3>2. CASE old.count # 0
      <4> DEFINE B == Before(admitted', k, n, now, d)
      <4>1. B \subseteq C  BY <2>5
      <4> HIDE DEF B, C
      <4>2. Cardinality(B) <= Cardinality(C) /\ Cardinality(B) \in Nat
        BY <1>11, <4>1, FS_Subset, FS_CardinalityType
      <4>3. Cardinality(B) <= p  BY <1>5, <1>10, <1>11, <3>2, <4>2
      <4> QED  BY <4>3 DEF B
    <3> QED  BY <3>1, <3>2
  <2>7. \A r \in admitted' : r.key = k /\ r.n < n => r.at <= now
    BY <1>1, <1>2, <1>3, <2>2
  <2> QED  BY <1>2, <1>4, <1>5, <1>12, <2>1, <2>4, <2>6, <2>7
<1>14. CASE info = old /\ old.count # 0 /\ old.blockedUntil # 0
  <2>1. admitted' = admitted  BY <1>1, <1>14
  <2> QED  BY <1>4, <1>10, <1>12, <1>14, <2>1
<1>15. CASE /\ old.count # 0 /\ old.blockedUntil = 0
            /\ info.count = old.count + 1 /\ info.firstAttempt = old.firstAttempt
            /\ info.blockedUntil = now + w
  <2>1. info.blockedUntil # 0 /\ info.count # 0  BY <1>2, <1>5, <1>6, <1>15
  <2>2. admitted' = admitted  BY <1>1, <2>1
  <2>3. info.firstAttempt + d <= info.blockedUntil
    BY <1>2, <1>5, <1>6, <1>10, <1>15
  <2> QED  BY <1>4, <1>10, <1>12, <1>15, <2>1, <2>2, <2>3
<1>16. CASE /\ old.count # 0 /\ old.blockedUntil = 0
            /\ info.count = old.count + 1 /\ info.firstAttempt = old.firstAttempt
            /\ info.blockedUntil = 0
            /\ info.count < Config[rule].maxAttempts
            /\ now <= old.firstAttempt + w
  <2>1. admitted' = admitted \cup {req}  BY <1>1, <1>16
  <2> DEFINE D == Since(admitted', k, m)
  <2>2. D \subseteq C \cup {req}  BY <2>1 DEF Since
  <2> HIDE DEF C, D
  <2>3. Cardinality(D) \in Nat /\ Cardinality(D) <= Cardinality(C) + 1
    BY <1>11, <2>2, OneMore
  <2>4. Cardinality(D) <= info.count  BY <1>6, <1>10, <1>11, <1>16, <2>3
  <2>5. info.count <= p  BY <1>5, <1>6, <1>16
  <2>6. Cardinality(D) <= p  BY <1>5, <1>6, <2>3, <2>4, <2>5
  <2>7. m <= n /\ ~ (req.n < m)  BY <1>1, <1>4, <1>10, <1>16
  <2>8. Before(admitted', k, m, info.firstAttempt, d)
        = Before(admitted, k, m, old.firstAttempt, d)
    BY <1>16, <2>1, <2>7 DEF Before
  <2>9. \A r \in admitted' : r.key = k /\ r.n < m => r.at <= info.firstAttempt
    BY <1>10, <1>16, <2>1, <2>7
  <2>10. info.count # 0  BY <1>6, <1>16
  <2> QED  BY <1>6, <1>10, <1>12, <1>16, <2>4, <2>6, <2>7, <2>8, <2>9, <2>10 DEF D
<1> QED  BY <1>7, <1>13, <1>14, <1>15, <1>16 DEF old

\* A request keeps the windows of every key within their bounds.
LEMMA WindowsStep ==
  ASSUME RLInv, Windows, NEW rule \in Rule, NEW ip \in Ip, NEW cred \in Cred \cup {NoCred},
         Execute(rule, ip, cred)
  PROVE  Windows'
<1> DEFINE key  == KeyOf(rule, ip, cred)
           info == Increment(store[key], Config[rule])
<1>1. PICK req : /\ req.key = key /\ req.rule = rule /\ Made' = Made \cup {req}
                 /\ Cardinality(Made') = Cardinality(Made) + 1
                 /\ \/ admitted' = admitted \cup {req}
                    \/ admitted' = admitted
  BY RequestMade
<1>2. /\ key \in Key /\ now' = now /\ now \in Nat
      /\ \A k \in Key : k # key => store'[k] = store[k]
  BY RequestMade DEF RLInv, TypeOK
<1> HIDE DEF key, info
<1> SUFFICES ASSUME NEW k \in Key, NEW short \in Rule, NEW generous \in Rule,
                    Within(k, short, generous)'
             PROVE  \E m \in Nat : OneWindow(k, m, Config[short].windowMs,
                                             PerWindow(Config[generous]))'
  BY DEF Windows, Within, CountedUnder, Rule, PerWindow
<1>3. Within(k, short, generous)  BY <1>1, WithinBefore
<1>4. PICK m \in Nat : OneWindow(k, m, Config[short].windowMs, PerWindow(Config[generous]))
  BY <1>3 DEF Windows
<1>5. CASE k # key
  <2>1. {r \in admitted' : r.key = k} = {r \in admitted : r.key = k}  BY <1>1, <1>5
  <2>2. store'[k] = store[k] /\ store[k].firstAttempt \in Nat
    BY <1>2, <1>5 DEF RLInv, TypeOK, Info
  <2>3. Cardinality(Made) \in Nat  BY FS_CardinalityType DEF RLInv, Numbered
  <2>4. Cardinality(Made') \in Nat /\ Cardinality(Made') >= Cardinality(Made)
    BY <1>1, <2>3
  <2>5. Config[short].windowMs \in Nat /\ PerWindow(Config[generous]) \in Nat
    BY ConfigType, PerWindowType
  <2>6. now' >= now /\ now' \in Nat  BY <1>2
  <2>7. OneWindow(k, m, Config[short].windowMs, PerWindow(Config[generous]))'
    BY <1>2, <1>4, <2>1, <2>2, <2>3, <2>4, <2>5, <2>6, OtherKey
  <2> QED  BY <2>7
<1>6. CASE k = key
  <2>1. rule \in CountedUnder(k)'  BY <1>1, <1>6 DEF CountedUnder, Made
  <2>2. /\ Config[short].windowMs <= Config[rule].windowMs
        /\ PerWindow(Config[rule]) <= PerWindow(Config[generous])
    BY <2>1 DEF Within
  <2> QED  BY <1>4, <1>6, <2>2, OwnKey DEF key
<1> QED  BY <1>5, <1>6

\* An interval that a new request falls into lies in two windows in a row.
LEMMA BurstStep ==
  ASSUME RLInv, Windows', BurstBound,
         NEW rule \in Rule, NEW ip \in Ip, NEW cred \in Cred \cup {NoCred},
         Execute(rule, ip, cred), RLInv'
  PROVE  BurstBound'
<1> DEFINE key  == KeyOf(rule, ip, cred)
<1>1. PICK req : /\ req.key = key /\ req.at = now /\ Made' = Made \cup {req}
                 /\ \/ admitted' = admitted \cup {req}
                    \/ admitted' = admitted
  BY RequestMade
<1>2. now' = now /\ now \in Nat \ {0} /\ \A x \in Key : store'[x].firstAttempt \in Nat
  BY RequestMade DEF RLInv, TypeOK, Info
<1>3. \A r \in admitted' : r.at \in Nat /\ r.n \in Nat
  <2>1. MaxRequests \in Nat  BY RateLimitAssumption DEF RateLimitAssumption
  <2> QED  BY <2>1 DEF RLInv, TypeOK, Request
<1> HIDE DEF key
<1> SUFFICES ASSUME NEW k \in Key, NEW t \in 1 .. now, NEW short \in Rule, NEW generous \in Rule,
                    Within(k, short, generous)'
             PROVE  Cardinality(AdmittedIn(k, t, Config[short].windowMs)')
                      <= 2 * PerWindow(Config[generous])
  BY <1>2 DEF BurstBound, Within, CountedUnder, Rule, PerWindow
<1> DEFINE d == Config[short].windowMs
           p == PerWindow(Config[generous])
           T == {r \in admitted' : r.key = k /\ r.at \in t .. (t + d - 1)}
<1>4. d \in Nat \ {0} /\ p \in Nat  BY ConfigType, PerWindowType
<1>5. AdmittedIn(k, t, Config[short].windowMs)' = T  BY DEF AdmittedIn
<1>6. CASE T \subseteq admitted
  <2>1. T = AdmittedIn(k, t, d)  BY <1>1, <1>6 DEF AdmittedIn
  <2>2. Within(k, short, generous)  BY <1>1, WithinBefore
  <2>3. Cardinality(AdmittedIn(k, t, d)) <= 2 * p  BY <2>2 DEF BurstBound
  <2> QED  BY <1>5, <2>1, <2>3
<1>7. CASE ~ (T \subseteq admitted)
  <2>1. k = key /\ now \in t .. (t + d - 1) /\ \E r \in admitted' : r.key = k
    BY <1>1, <1>7
  <2>2. PICK m \in Nat : OneWindow(k, m, d, p)'
    BY DEF Windows, Within, CountedUnder, Rule, PerWindow
  <2> DEFINE C == Since(admitted', k, m)
             B == Before(admitted', k, m, store'[k].firstAttempt, d)
  <2>3. store'[k].firstAttempt <= now /\ Cardinality(C) <= p /\ Cardinality(B) <= p
    BY <1>2, <2>1, <2>2 DEF OneWindow
  <2>4. T \subseteq C \cup B
    <3> SUFFICES ASSUME NEW r \in T, ~ (r.n >= m)
                 PROVE  r \in B
      BY DEF Since
    <3>1. /\ r \in admitted' /\ r.key = k /\ r.at \in Nat /\ r.at >= t /\ r.n \in Nat
          /\ store'[k].firstAttempt \in Nat
      BY <1>2, <1>3
    <3>2. r.n < m /\ store'[k].firstAttempt < r.at + d
      BY <1>2, <1>4, <2>1, <2>3, <3>1
    <3> QED  BY <3>1, <3>2 DEF Before
  <2>5. IsFiniteSet(admitted')
    BY FS_Subset DEF RLInv, Numbered, Made
  <2>6. IsFiniteSet(C) /\ IsFiniteSet(B)
    <3>1. C \subseteq admitted' /\ B \subseteq admitted'  BY DEF Since, Before
    <3> QED  BY <2>5, <3>1, FS_Subset
  <2> HIDE DEF C, B, T
  <2>7. /\ Cardinality(C) \in Nat /\ Cardinality(B) \in Nat /\ Cardinality(C \cap B) \in Nat
        /\ IsFiniteSet(C \cup B)
        /\ Cardinality(C \cup B) = Cardinality(C) + Cardinality(B) - Cardinality(C \cap B)
    BY <2>6, FS_Union, FS_Intersection, FS_CardinalityType
  <2>8. Cardinality(T) <= Cardinality(C \cup B) /\ Cardinality(T) \in Nat
    BY <2>4, <2>7, FS_Subset, FS_CardinalityType
  <2> QED  BY <1>4, <1>5, <2>3, <2>7, <2>8
<1> QED  BY <1>6, <1>7

\* Nothing was let through at a time that has just come.
LEMMA BurstTick ==
  ASSUME RLInv, Windows, BurstBound, Tick
  PROVE  Windows' /\ BurstBound'
<1>1. /\ now' = now + 1 /\ now \in Nat \ {0} /\ store' = store
      /\ admitted' = admitted /\ refused' = refused
      /\ \A k \in Key : store[k].firstAttempt \in Nat
  BY DEF Tick, RLInv, TypeOK, Info
<1>2. Windows'
  <2> SUFFICES ASSUME NEW k \in Key, NEW m \in Nat, NEW short \in Rule, NEW generous \in Rule,
                      OneWindow(k, m, Config[short].windowMs, PerWindow(Config[generous]))
               PROVE  OneWindow(k, m, Config[short].windowMs, PerWindow(Config[generous]))'
    BY <1>1 DEF Windows, Within, CountedUnder, Rule, PerWindow
  <2>1. Config[short].windowMs \in Nat /\ PerWindow(Config[generous]) \in Nat
    BY ConfigType, PerWindowType
  <2>2. Made' = Made /\ Cardinality(Made) \in Nat
    BY <1>1, FS_CardinalityType DEF RLInv, Numbered, Made
  <2>3. now' >= now /\ now' \in Nat /\ now \in Nat  BY <1>1
  <2>4. Cardinality(Made') \in Nat /\ Cardinality(Made') >= Cardinality(Made)  BY <2>2
  <2> QED  BY <1>1, <2>1, <2>2, <2>3, <2>4, OtherKey
<1>3. BurstBound'
  <2> SUFFICES ASSUME NEW k \in Key, NEW t \in 1 .. now', NEW short \in Rule,
                      NEW generous \in Rule, Within(k, short, generous)
               PROVE  Cardinality(AdmittedIn(k, t, Config[short].windowMs))
                        <= 2 * PerWindow(Config[generous])
    BY <1>1 DEF BurstBound, AdmittedIn, Within, CountedUnder, Rule, PerWindow
  <2>1. CASE t \in 1 .. now  BY <2>1 DEF BurstBound
  <2>2. CASE t = now + 1
    <3>1. \A r \in admitted : r.at \in Nat /\ r.at <= now
      BY DEF RLInv, TypeOK, Request, Numbered, Made
    <3>2. AdmittedIn(k, t, Config[short].windowMs) = {}
      BY <1>1, <2>2, <3>1, ConfigType DEF AdmittedIn
    <3>3. PerWindow(Config[generous]) \in Nat  BY PerWindowType
    <3> QED  BY <3>2, <3>3, FS_EmptySet
  <2> QED  BY <1>1, <2>1, <2>2
<1> QED  BY <1>2, <1>3

\* The windows and the blocks of increment() keep every burst down to what two
\* windows in a row let through, for every set of rules, however their keys
\* coincide, and every number of requests.
THEOREM BurstsAreBounded == Spec => []BurstBound
<1> DEFINE Inv == RLInv /\ Windows /\ BurstBound
<1>1. Init => Inv
  <2> SUFFICES ASSUME Init PROVE Inv  OBVIOUS
  <2>1. RLInv  BY InitRLInv
  <2>2. Windows
    <3>1. \A k \in Key : store[k].count = 0 /\ admitted = {}  BY DEF Init, NoInfo
    <3>2. 0 \in Nat  OBVIOUS
    <3> QED  BY <3>1, <3>2 DEF Windows, OneWindow
  <2>3. BurstBound
    <3> SUFFICES ASSUME NEW k \in Key, NEW t \in 1 .. now, NEW short \in Rule,
                        NEW generous \in Rule
                 PROVE  Cardinality(AdmittedIn(k, t, Config[short].windowMs))
                          <= 2 * PerWindow(Config[generous])
      BY DEF BurstBound
    <3>1. AdmittedIn(k, t, Config[short].windowMs) = {}  BY DEF Init, AdmittedIn
    <3>2. PerWindow(Config[generous]) \in Nat  BY PerWindowType
    <3> QED  BY <3>1, <3>2, FS_EmptySet
  <2> QED  BY <2>1, <2>2, <2>3
<1>2. Inv /\ [Next]_vars => Inv'
  <2> SUFFICES ASSUME Inv, [Next]_vars PROVE Inv'  OBVIOUS
  <2>1. RLInv'  BY NextRLInv
  <2>2. CASE UNCHANGED vars
    <3>1. Windows'
      <4> SUFFICES ASSUME NEW k \in Key, NEW m \in Nat, NEW short \in Rule, NEW generous \in Rule,
                          OneWindow(k, m, Config[short].windowMs, PerWindow(Config[generous]))
                   PROVE  OneWindow(k, m, Config[short].windowMs, PerWindow(Config[generous]))'
        BY <2>2 DEF vars, Windows, Within, CountedUnder, Rule, PerWindow
      <4> QED  BY <2>2 DEF vars, OneWindow, Since, Before, Made
    <3>2. BurstBound'
      BY <2>2 DEF vars, BurstBound, AdmittedIn, Within, CountedUnder, Rule, PerWindow
    <3> QED  BY <2>1, <3>1, <3>2
  <2>3. CASE Next
    <3>1. CASE \E rule \in Rule, ip \in Ip, cred \in Cred \cup {NoCred} : Execute(rule, ip, cred)
      BY <2>1, <3>1, WindowsStep, BurstStep
    <3>2. CASE Tick  BY <2>1, <3>2, BurstTick
    <3> QED  BY <2>3, <3>1, <3>2 DEF Next
  <2> QED  BY <2>2, <2>3
<1>3. Inv => BurstBound  OBVIOUS
<1> QED  BY <1>1, <1>2, <1>3, PTL DEF Spec

=============================================================================
