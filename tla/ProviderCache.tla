--------------------------- MODULE ProviderCache ---------------------------
(***************************************************************************)
(* The cache of per-tenant providers: ProviderFactory with                 *)
(* EmailProviderFactory (SmtpEmailProvider) and AuthProviderFactory        *)
(* (FirebaseProvider), used by MailChannel and FireBaseAuthStrategy.       *)
(*                                                                         *)
(* A miss awaits the client's row and then the tenant's configuration, so  *)
(* several callers of one key may miss at the same time, and each of them  *)
(* stores its own instance and starts its own timer.  A hit runs without   *)
(* yielding.                                                               *)
(***************************************************************************)
EXTENDS Integers, FiniteSets

CONSTANTS
  Key,      \* client, type of provider and provider
  Caller,   \* bound: calls of getProvider() that run at the same time
  TTL,      \* the TTL of an entry
  MaxNow,   \* bound: the last value of the clock
  MaxTimer  \* bound: how many timers are ever started

ASSUME CacheAssumption == TTL \in Nat \ {0} /\ MaxNow \in Nat /\ MaxTimer \in Nat

VARIABLES
  cache,   \* the cache map: the timer of each entry, 0 for a key without one
  timers,  \* the scheduled timeouts
  nextT,   \* the next timer
  calls,   \* the calls that wait for the database, [caller, key, step]
  now      \* the clock

vars == <<cache, timers, nextT, calls, now>>

Timer == [id : 1 .. MaxTimer, key : Key, due : Nat]

TypeOK ==
  /\ cache \in [Key -> 0 .. MaxTimer]
  /\ timers \subseteq Timer
  /\ nextT \in 1 .. (MaxTimer + 1)
  /\ calls \subseteq [caller : Caller, key : Key, step : {"client", "config"}]
  /\ now \in Nat \ {0}

Init ==
  /\ cache = [k \in Key |-> 0]
  /\ timers = {}
  /\ nextT = 1
  /\ calls = {}
  /\ now = 1

-----------------------------------------------------------------------------
(* getProvider().                                                          *)

Idle(c) == \A x \in calls : x.caller # c

\* setTimeout(() => removeFromCache(key), TTL), after some timers were cleared.
\* (Bound: a timer is only started if it also comes due.)
Schedule(k, cleared) ==
  /\ nextT <= MaxTimer /\ now + TTL <= MaxNow
  /\ nextT' = nextT + 1
  /\ timers' = (timers \ cleared) \cup {[id |-> nextT, key |-> k, due |-> now + TTL]}

\* The timer of the entry under k.
TimerOf(k) == {x \in timers : x.id = cache[k]}

\* Mutant: a hit clears the timer and does not start a new one.
HitUntimed(k) ==
  /\ cache[k] # 0
  /\ timers' = timers \ TimerOf(k)
  /\ UNCHANGED <<cache, nextT, calls, now>>

\* The key is cached: its timer starts anew.
Hit(k) ==
  /\ cache[k] # 0
  /\ Schedule(k, TimerOf(k))
  /\ cache' = [cache EXCEPT ![k] = nextT]
  /\ UNCHANGED <<calls, now>>

\* It is not: the client is looked up.
Miss(c, k) ==
  /\ Idle(c)
  /\ cache[k] = 0
  /\ calls' = calls \cup {[caller |-> c, key |-> k, step |-> "client"]}
  /\ UNCHANGED <<cache, timers, nextT, now>>

\* Mutant: the switch falls through to a type without a factory.
FoundClientDefault(x) ==
  /\ x.step = "client"
  /\ calls' = (calls \ {x}) \cup {[x EXCEPT !.step = "default"]}
  /\ UNCHANGED <<cache, timers, nextT, now>>

\* The client is there; the factory looks up the tenant's configuration.
FoundClient(x) ==
  /\ x.step = "client"
  /\ calls' = (calls \ {x}) \cup {[x EXCEPT !.step = "config"]}
  /\ UNCHANGED <<cache, timers, nextT, now>>

\* The instance is made, cached and returned.  What another caller has cached
\* under the key meanwhile is overwritten; its timer runs on.
Created(x) ==
  /\ x.step = "config"
  /\ calls' = calls \ {x}
  /\ Schedule(x.key, {})
  /\ cache' = [cache EXCEPT ![x.key] = nextT]
  /\ UNCHANGED now

\* No such client, no configuration, an unknown provider or a failed query.
Failed(x) ==
  /\ calls' = calls \ {x}
  /\ UNCHANGED <<cache, timers, nextT, now>>

\* Mutant: the timeout starts itself again and leaves the entry.
FireAgain(x) ==
  /\ now >= x.due
  /\ timers' = (timers \ {x}) \cup {[x EXCEPT !.due = now + TTL]}
  /\ UNCHANGED <<cache, nextT, calls, now>>

\* A timeout fires: removeFromCache() removes whatever is cached under the key.
Fire(x) ==
  /\ now >= x.due
  /\ cache' = [cache EXCEPT ![x.key] = 0]
  /\ timers' = timers \ ({x} \cup TimerOf(x.key))
  /\ UNCHANGED <<nextT, calls, now>>

\* The event loop runs the timers that are due before a coarse clock moves on.
Tick ==
  /\ now < MaxNow
  /\ \A x \in timers : now < x.due
  /\ now' = now + 1
  /\ UNCHANGED <<cache, timers, nextT, calls>>

Next ==
  \/ \E k \in Key : Hit(k)
  \/ \E c \in Caller, k \in Key : Miss(c, k)
  \/ \E x \in calls : FoundClient(x) \/ Created(x) \/ Failed(x)
  \/ \E x \in timers : Fire(x)
  \/ Tick

Spec == Init /\ [][Next]_vars

\* Time passes and a timeout that is due fires.  Callers need not be fair.
FairSpec ==
  /\ Spec
  /\ WF_vars(Tick)
  /\ WF_vars(\E x \in timers : Fire(x))

-----------------------------------------------------------------------------
(* Safety.                                                                 *)

\* Every entry is on its way out: its own timer is scheduled, through hits,
\* overwrites by concurrent misses and timeouts of overwritten entries.
EntryIsTimed ==
  \A k \in Key : cache[k] # 0 =>
    \E x \in timers : x.id = cache[k] /\ x.key = k /\ x.due <= now + TTL

-----------------------------------------------------------------------------
(* Liveness.                                                               *)

\* A cached provider does not stay for ever: its entry is removed, unless it is
\* asked for again.
EntryIsRemoved ==
  \A k \in Key, n \in 1 .. MaxTimer :
    cache[k] = n ~> cache[k] # n
=============================================================================
