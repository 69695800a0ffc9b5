----------------------------- MODULE RateLimit -----------------------------
(***************************************************************************)
(* Rate limiting of REST calls and WebSocket handshakes: the guards, their *)
(* key extractors, RateLimitService and its InMemoryProvider.              *)
(*                                                                         *)
(* All rules count in ONE map, whose keys are bare strings.  A request is  *)
(* counted under the key its rule's extractor makes of what the client     *)
(* sends, with the window and the limit of the rule it came in under: any  *)
(* rule may count under any key.  increment() does not yield, so it is one *)
(* step.                                                                   *)
(***************************************************************************)
EXTENDS Integers, FiniteSets

CONSTANTS
  Key,         \* the strings that are keys of the map
  Ip,          \* client addresses, a forwarded one as the client sends it
  Cred,        \* what identifies a client: token, client_id or header
  NoCred,      \* a request without it
  Join,        \* the string "ip:token"; it may be what another rule takes as it is
  Config,      \* rate-limit.config: the rules in use, [rule -> [windowMs, maxAttempts]]
  MaxNow,      \* bound: the last value of the clock
  MaxRequests  \* bound: how many requests are made

\* The rules the guards know; ws:postConnect has no extractor and no caller.
RuleName == {"ws:preConnect", "rest:preConnect", "rest:postConnect"}

ASSUME RateLimitAssumption ==
  /\ Ip \subseteq Key /\ Cred \subseteq Key /\ NoCred \notin Cred
  /\ Join \in [Ip \X Cred -> Key]
  /\ \E R \in SUBSET RuleName :
       Config \in [R -> [windowMs : Nat \ {0}, maxAttempts : Nat]]
  /\ MaxNow \in Nat /\ MaxRequests \in Nat

Rule == DOMAIN Config

VARIABLES
  store,    \* InMemoryProvider.store
  now,      \* Date.now()
  admitted, \* history: the requests that were let through
  refused   \* history: the requests that were not

vars == <<store, now, admitted, refused>>

\* RateLimitInfo; count 0 is a key that is not in the map, blockedUntil 0 one
\* that is not blocked.
Info == [count : Nat, firstAttempt : Nat, blockedUntil : Nat]

NoInfo == [count |-> 0, firstAttempt |-> 0, blockedUntil |-> 0]

Request == [key : Key, rule : Rule, at : Nat, n : 1 .. MaxRequests]

TypeOK ==
  /\ store \in [Key -> Info]
  /\ now \in Nat \ {0}
  /\ admitted \subseteq Request
  /\ refused \subseteq Request

Init ==
  /\ store = [k \in Key |-> NoInfo]
  /\ now = 1
  /\ admitted = {}
  /\ refused = {}

-----------------------------------------------------------------------------
\* The key extractors: address and token of a WebSocket handshake, client_id of a
\* REST login, Authorization header of a later REST call.  Without these, all
\* three take the address.
KeyOf(rule, ip, cred) ==
  IF cred = NoCred THEN ip
  ELSE IF rule = "ws:preConnect" THEN Join[<<ip, cred>>]
  ELSE cred

\* A first attempt, or the first one after a window or a block has passed.
Fresh == [count |-> 1, firstAttempt |-> now, blockedUntil |-> 0]

\* Mutant: every attempt of a blocked client starts its block again.
IncrementExtending(info, rule) ==
  LET counted == [info EXCEPT !.count = @ + 1]
  IN  IF \/ info.count = 0
         \/ info.blockedUntil # 0 /\ info.blockedUntil <= now
         \/ info.blockedUntil = 0 /\ now - info.firstAttempt > rule.windowMs
      THEN Fresh
      ELSE IF counted.count >= rule.maxAttempts
           THEN [counted EXCEPT !.blockedUntil = now + rule.windowMs]
           ELSE counted

\* Mutant: the limit itself is still let through.
IncrementAboveLimit(info, rule) ==
  LET counted == [info EXCEPT !.count = @ + 1]
  IN  IF \/ info.count = 0
         \/ info.blockedUntil # 0 /\ info.blockedUntil <= now
         \/ info.blockedUntil = 0 /\ now - info.firstAttempt > rule.windowMs
      THEN Fresh
      ELSE IF info.blockedUntil # 0 THEN info
           ELSE IF counted.count > rule.maxAttempts
                THEN [counted EXCEPT !.blockedUntil = now + rule.windowMs]
                ELSE counted

\* Mutant: the block is counted back from the first attempt.
IncrementBackwards(info, rule) ==
  IF info.count = 0 THEN Fresh
  ELSE [info EXCEPT !.count = @ + 1, !.blockedUntil = info.firstAttempt - rule.windowMs]

\* increment(): the entry after one more attempt.
Increment(info, rule) ==
  LET counted == [info EXCEPT !.count = @ + 1]
  IN  IF \/ info.count = 0
         \/ info.blockedUntil # 0 /\ info.blockedUntil <= now
         \/ info.blockedUntil = 0 /\ now - info.firstAttempt > rule.windowMs
      THEN Fresh
      ELSE IF info.blockedUntil # 0 THEN info
           ELSE IF counted.count >= rule.maxAttempts
                THEN [counted EXCEPT !.blockedUntil = now + rule.windowMs]
                ELSE counted

\* A guard's execute(): the attempt is counted and refused if the key is blocked.
Execute(rule, ip, cred) ==
  LET key  == KeyOf(rule, ip, cred)
      info == Increment(store[key], Config[rule])
      n    == Cardinality(admitted \cup refused) + 1
      req  == [key |-> key, rule |-> rule, at |-> now, n |-> n]
  IN  /\ n <= MaxRequests
      /\ store' = [store EXCEPT ![key] = info]
      /\ \/ info.blockedUntil = 0 /\ admitted' = admitted \cup {req} /\ UNCHANGED refused
         \/ info.blockedUntil # 0 /\ refused' = refused \cup {req} /\ UNCHANGED admitted
      /\ UNCHANGED now

Tick ==
  /\ now < MaxNow
  /\ now' = now + 1
  /\ UNCHANGED <<store, admitted, refused>>

Next ==
  \/ \E rule \in Rule, ip \in Ip, cred \in Cred \cup {NoCred} : Execute(rule, ip, cred)
  \/ Tick

Spec == Init /\ [][Next]_vars

-----------------------------------------------------------------------------
(* Safety.                                                                 *)

\* What one counting window lets through: the attempt that opens it and those
\* below the limit.
PerWindow(rule) == IF rule.maxAttempts <= 2 THEN 1 ELSE rule.maxAttempts - 1

\* The requests of a key that were let through in the d milliseconds from t on.
AdmittedIn(k, t, d) == {r \in admitted : r.key = k /\ r.at \in t .. (t + d - 1)}

\* The rules that have counted under key k.
CountedUnder(k) == {r.rule : r \in {q \in admitted \cup refused : q.key = k}}

\* No rule under k has a shorter window than short, and none is more generous.
Within(k, short, generous) ==
  \A rule \in CountedUnder(k) :
    /\ Config[short].windowMs <= Config[rule].windowMs
    /\ PerWindow(Config[rule]) <= PerWindow(Config[generous])

\* A fixed window lets a burst through at its end and one more at the start of
\* the next, and a rule with a shorter window starts it anew for the others.  It
\* is never more than that: no interval as long as the shortest window of the
\* rules that count under a key lets more through than two windows of the most
\* generous of them.  For a key of one rule that is its own window and limit.
BurstBound ==
  \A k \in Key, t \in 1 .. now, short \in Rule, generous \in Rule :
    Within(k, short, generous) =>
      Cardinality(AdmittedIn(k, t, Config[short].windowMs)) <= 2 * PerWindow(Config[generous])

\* A client that keeps trying is not shut out for longer than a window, whichever
\* rules its attempts come in under: between two refusals a window or more apart
\* the key was let through.
LockoutBound ==
  \A a, b \in refused :
    /\ a.key = b.key
    /\ \A rule \in Rule : b.at - a.at >= Config[rule].windowMs
    => \E r \in admitted : r.key = a.key /\ a.n < r.n /\ r.n < b.n
=============================================================================
