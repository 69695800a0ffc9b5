# TLA+ models of gateway-realtime

The gateway connects three kinds of end user, *devices* (RFID readers, bells, cameras),
*browsers* and *desktops*, over WebSockets, passes events between them, and calls the backend
(API) of the tenant they belong to. It is one Node process: everything that has to be right in
spite of concurrency is right, or wrong, because of the order in which callbacks, timers and the
continuations of `await` run. That order is what these modules model. In all of them **a step is
what the process runs between two returns to the event loop.**

Paths below are relative to the repository's `src/modules/` unless they say otherwise.

## 1. Inventory

| Component | State it keeps | Operations | Hard behaviour |
|---|---|---|---|
| Event store (`websocket/services/event-store.service.ts`, `schema/event.record.ts`) | two maps that must agree: records with a status per user, and an index from users to ids; a TTL timer per record | create, mark delivered / applied, pending queries, removal, eviction, forced cleanup, cleanup interval | redundant state, limits and their off-by-ones, timers at the millisecond |
| Publishing, `event:ack`, retry (`events/json/base-ws-json.event.ts`, `commons/acknowledge.event.ts`, `event-retry-heartbeat.service.ts`, `lifesycles/base.lifesycle.ts`) | nothing of its own; works on the store and the sessions | publish with QoS 0/1/2, acknowledge, retry, deliver on connect | receivers chosen before an `await` and used after it; three senders of the same event; an unawaited promise that ends the process |
| Sessions and connections (`websocket.gateway.ts`, session manager, registry, lifecycles) | one session per user: socket, state, suspend timer; what browsers have been told | connect, resume, replace, suspend, remove, snapshot, broadcast | two connections of one user, a late close, a resume against the suspend timer |
| Heartbeat (`websocket-hearbeat.service.ts`) | `isAlive`, `missedPongs` per socket | ping interval, pong, close | lost pongs, dead peers |
| Event pipeline (`websocket-message.service.ts`, `events/**`) | per handler, the cached event table and its age | find the handler, validate, call the tenant, check rights, dispatch, side effects, report errors | the session changes during every `await`; overlapping queries of the cache |
| Tenant API client (`webhook/`) | none | one call per event class | timeouts: the call may or may not have been carried out |
| Notifications (`notification/`) | none | mail on login and cancellation | tells the truth only if emitted at the right point |
| Rate limiting (`ratelimitters/`) | one map of counters for all rules | count, block, reset | window edges, keys that rules share |
| Refresh tokens (`auth/services/`) | the `refresh_tokens` table | login, refresh, logout | several queries without a transaction |
| Provider cache (`third-service/`) | map of instances, a timer each | get, expire | overlapping misses, timers of overwritten entries |
| Authentication (`auth/strategies/`, `auth/services/device.service.ts`, `browser.service.ts`, `websocket/guards/`) | none of its own; the principal it makes is kept by the session | verify a token, look up the device or the role, read its two lists of events | several queries per handshake with edits between them, overlapping handshakes, cached providers |
| Controllers, DTOs, entities | none | — | not modelled, see section 8 |

How they interact: `websocket.gateway.ts` authenticates a connection (rate limiter, guard, strategies;
the Firebase strategy for desktops uses the provider cache) and gives it to the session manager, which
makes, resumes or replaces the session; the lifecycle of the session delivers what the event store
holds for the user and tells browsers about devices. A message goes to the handler of its event, which
may call the tenant's API, looks up the sender's rights in the event table, and publishes through
`qossing()` to the sockets of other sessions and to the event store. The retry interval, the cleanup
interval, the TTL timers, the heartbeat and the suspend timers work on the same sessions and the same
store from callbacks of their own. A successful call may emit a notification, which is mailed by a
listener that uses the provider cache.

What makes each component correct: the store's halves agree and nothing owed is lost or repeated
(*event store, publishing*); a session is always either bound to a socket or on its way out, and
browsers know its state (*sessions*); a live peer is not cut and a dead one is (*heartbeat*); rights
are checked against a fresh table, a message fails as a whole and is not swallowed (*pipeline*); a
mail is only sent for what was done (*notifications*); bursts and lock-outs are bounded (*rate
limiting*); a token that was traded in is dead (*refresh tokens*); entries do not stay for ever
(*provider cache*); nobody is bound who was not authentic and active, and the rights of a session
are those of one handshake (*authentication*).

## 2. Modules

| Module | Models |
|---|---|
| `EventStore` | the store as a value, its methods as operators from store to store. None of them yields, so they are functions. |
| `Delivery` | extends `EventStore`; holds the store in a variable together with sockets, waiting handlers, the clock and crashes; one action per handler, timer and await |
| `DeliveryService` | the abstract specification that `Delivery` implements: what the gateway owes to whom, and the four reasons to stop owing it |
| `Session` | connections, sessions, suspend timers, heartbeat and what browsers are told |
| `Presence` | the abstract specification that `Session` and `Gateway` implement: who is there, and what observers are told of it |
| `Gateway` | composes `Session` and `Delivery`: one set of sockets, sessions, store and crashes |
| `EventPipeline` | a message from its arrival to `qossing()` or an error; API, event table and cache, rights, mail |
| `RateLimit`, `RefreshToken`, `ProviderCache` | one component each |
| `Authentication` | extends `ProviderCache`: handshakes of all three types from the query string to the session |
| `MC…` | constants for TLC |
| `…Proofs` | theorems about the module they extend (`DeliveryServiceProofs`: that `Delivery` implements `DeliveryService`; `SessionProofs`: that `Session` implements `Presence`; `GatewayProofs`: that `Gateway` implements `Delivery`, and with it `DeliveryService` and `Presence`) |

`Delivery` and `Session` both speak of sockets. `Delivery` knows of a user's session only whether
it has an open socket, a closing one, or none, and lets these change at any time. `Gateway` puts the
two together: there `conn` is not a variable but what `isActive()` and `session.socket` say, each
step of a session has its effect on events, and `ImplementsDelivery` says that the result is a
behaviour of `Delivery` (checked, and proved as `Composed`), so that what holds there holds in the
whole (`PromiseKept`, `EventsAreSafe`). `EventPipeline` has the one
session that sends, with several session objects and sockets, and ends where
`Delivery.BeginPublish` starts. `Authentication` ends where `Session.Authenticated` starts.

### EventStore and Delivery

`store` is the state of `EventStoreService`: `events`, `userStatus`, `attempts`, `last`
(`lastAttempt`), `userEvents`, `timers`, `emitted` (`event.expired`). Events are numbered in the
order in which they are created, which is also the order of `createdAt`. `conn` is the socket of a
user's session; `"closing"` is one that is bound but no longer OPEN. `inflight` are handlers at the
`await` in `qossing()`: `BeginPublish` chooses the receivers, `Publish` uses them. The sender may have
lost its own socket since its message came. If a receiver
has lost its socket meanwhile, `r.socket!.send` throws inside a promise nobody awaits; Node ends
the process on an unhandled rejection, so the step is `PublishCrash`, and the process starts again
with an empty memory (`Restart`). `log`, `seen` and `redundant` are history: what was published for
whom, what clients were sent and acknowledged, and sends that were one too many.

The receivers are session objects, not users: when the suspend timer unregisters a session while a
handler waits, the handler keeps an object that never gets a socket again, even if its user comes
back (`lost`, `LoseSession`).

`Math.random()` in `shouldRetry()` is a choice: inside the jitter window (`MayRetry`) an event may
or may not be due; `RetryTick` chooses the lucky ones.

### DeliveryService

The promise without sockets, index, statuses and timers. `owed` are the pairs of an event and a user
the gateway still has to serve. A step may accept one event, send what is owed and nothing else, and
take an acknowledgement, even a late one (`Exchange`); nothing leaves `owed` unless it is served
(`Serve`), time has passed its deadline (`Tick`), more was accepted than the limits allow (`Shed`),
or the process was restarted (`Restart`). `Delivery.KeepsPromise` is this specification under the
mapping `owed <- Pending` (what `getPending()` returns), `entry <- log`, `received`, `acked <- seen`.
It fails if the store forgets or revives anything in any interleaving.

### Session

`phase` is how far `handleConnection()` got: `auth` (guard and strategies), `snapshot` (a browser's
device list is being read; `pong` and `message` handlers are not attached yet), `ready`. `sess` is the
registry; `view` is what each browser was last told of each device, by its snapshot and by the
broadcasts since then; `asks` is the product in a connection's URL, of which only the one that creates
a session takes notice (`ProductFor`); `unanswered` counts heartbeats that passed while a peer owed a
pong.

### Presence

The promise without sockets, timers and queries. `presence` is the state of each user, `told` a
function on the browsers that observe. A user moves along four transitions only, one user with each
step, and is never given up without having been missed (`Change`); with that step every browser that
observes learns of it if the user is in its scope, and of nothing else. A browser begins to observe
with the states of the devices of a scope (`Observe`) and may leave with any step. `Session`
implements it (`KeepsPresence`) under the mapping `presence[u] <- StateOf(u)`, which reads the
registry, and `told <- view` restricted to `Watching`: the browsers that had their snapshot and whose
socket is open. `ViewIsCurrent` compares what a browser was told with the registry; `KeepsPresence`
adds that the registry itself goes through legal transitions, that no broadcast is late or early, and
that a browser which stays is told of the change in the step in which it happens. In `Gateway` a crash
is `Restart`.

### EventPipeline

Every event class is a record (`RFIDScan`, `CancelReservasi`, …) that says whether it calls the
API, whether rights are checked, who receives it and which side effect follows. A message waits at
`api`, `query` (before the database has read the event table) or `reading` (after it has).
`cache[h]` are the `events` and `lastUpdate` fields of handler `h`. The API may carry out a call
and still fail to say so. `gen` numbers session objects: a message that waits holds on to the
object it came from although the registry has a new one (`SocketOf`).

### Authentication

`hs[c]` is the handshake of connection `c`: its step (`provider`, `verify`, `base`, `lists`, then
`bound` or `refused`) and the answers read so far, of which the principal is made; a query without
one is `NotRead`. `db` holds each user's rows as versions, whose row it is and the edit that made it,
so that answers can be compared with what was in the database when. HMAC is
compared after the queries, JWT before them, a Firebase token between the provider and the queries.
`app` is the Firebase app of the tenant: the library keeps it under a name, and `FirebaseProvider`
takes what is there; the token of a desktop may be of any project, the tenant's, one it has left or
one it will move to. `session` is as far as it matters here: `by` is the handshake that created it,
`conn` the connection that has it now. `old[c]` is history: every version the user's rows had while
handshake `c` ran. The answers stay in `hs[c].read` after the end of a successful handshake, where the
properties compare the session with them; no action looks at them again.

### RateLimit, RefreshToken, ProviderCache

`RateLimit` has one map for all rules as the code has, and one step per request since `increment()`
does not yield. The keys are bare strings and a client chooses most of what they are made of: the
token of a handshake (`ip:token`, with an `ip` that `x-forwarded-for` may name), the `client_id` of a
login, the `Authorization` header of a later call, or else the address. So `KeyOf` returns a member of
`Key` that does not tell which rule made it, a credential may equal an address or another rule's
key, and any rule may count under any key. In `RefreshToken` a request is a process with one step per query, and any query may
fail. In `ProviderCache` a miss waits twice (client row, configuration) and then stores its instance
and its timer over whatever is there.

## 3. Runs

All properties of a run and the definitions it reaches are in the modules; `PROJECT.json` names,
for each property, a plausible bug in the code that would break it (the operators marked *Mutant*).

| Run | Shows | Bounds |
|---|---|---|
| `delivery_core` | `StoreConsistent`, `NoEarlyLoss`, `NoRedundantSend`, `ExpiredIsHonest`, `NeverFailed` over every interleaving of publish, connect, close, ack, retry, TTL and cleanup | a device and two browsers, two events (QoS 1 and 2) |
| `delivery_limits` | `TotalBound`, `PendingBound`, `StoreConsistent` and the refinement `KeepsPromise` where every publication evicts or forces out, and across a crash | three events, limits 1 and 1, two targets of which one never connects (`Away`) and is outside the whitelist for some, one crash |
| `delivery_live` | `ExpiredIsRemoved`, `StoredIsSent`; `KeepsPromise` through DELIVERED → FAILED → retry | one event with a TTL of 1 or 4 against a stale timeout of 1 |
| `limit_slice` | finding: eviction below the limit | four events, limit 3 |
| `sessions` | `SuspendedIsTimed`, `OnlyOwnSocketSuspends`, `ViewIsCurrent`, `HeartbeatIsPatient`, `DeadPeerIsRemoved`, and the refinement `KeepsPresence` | one device with two sockets, one of them dead, and a browser with one, whose URL names no product, its role's or another; three missed pongs |
| `gateway` | `ImplementsDelivery`, `KeepsPromise` and `KeepsPresence` (refinements) and `ViewIsCurrent` for sessions and delivery together | a device with one socket publishes one QoS 2 event of another product to a browser with two, of which one names no product and the other its role's; one crash; a heartbeat that closes at once |
| `doc_disconnect_suspends` | finding: a session ONLINE on a closed socket | one device, one browser, three sockets |
| `pipeline` | `MailIsTrue`, `ErrorIsFinal`, `NoSilence` for all event classes, JSON and binary | one message, two sockets, all 16 event tables of four rows |
| `pipeline_cache` | `FreshVerdict` | three messages of one handler, a clock of 4 with TTL 1 |
| `rate_limit` | `BurstBound`, `LockoutBound` | six requests, windows 1 and 2, limits 2 and 3; an address, and a header that is the same string |
| `refresh_tokens` | `ServedIsDead`, `OneActivePerSlot` | two clients, two requests at a time, three tokens |
| `authentication` | `RightsOfOneHandshake`, `BoundIsAuthentic`, `EntryIsTimed`, `EntryIsRemoved` | a device and a role, two handshakes, one edit, one provider with three timers |

Why the bounds are enough. Two events are the fewest of which one can wait behind, or be evicted for,
the other; the third one is needed where a limit of one is overrun by one. Two receivers are the
fewest of which one can be sent an event and the other not. An event is created only if it also
expires before the clock stops (`CanCreate`), so that a run sees the end of every life. `MaxSends`
bounds how often a client comes back for the same event. Two sockets of one user let a replaced one
close after its successor was bound, while the third is another user's; which of device and browser
has two differs between `sessions` and `gateway`. In `gateway` a heartbeat closes what has not
answered yet (`MaxMissed = 1`), as counting pongs is the subject of `sessions`. One edit is enough for
`authentication`: it gives one part of one user's rows, a status or the configuration a second version
between any two steps, so that an answer which is another handshake's or is taken over later differs
from the right one; two handshakes are the fewest that can overlap or resume each other's session. In
`rate_limit` the two rules meet under one key while another key has one rule only, and six requests
are enough for a short window to start the count of a longer one anew twice. A user that never
connects (`Away`) keeps what is owed to it pending until a limit or the TTL ends it. Three overlapping
queries are needed for one to overwrite the cache with an older table after another has filled it. A
table of the pipeline that is not edited (`MaxNow = 0` in `pipeline`) is arbitrary from the start, and
edits are the subject of `pipeline_cache`, where a row changes at most once per value of the clock. A
session object is only replaced if some message still waits for the old one (`Removed`), as the
replacement makes no difference otherwise. One message is enough for `pipeline` since `MailIsTrue` and
`ErrorIsFinal` are also proved for any number.

Symmetry (of browsers, sockets, messages, tokens) is used in runs without liveness only.
`CHECK_DEADLOCK FALSE` stands where the bounded clock or the bounded number of messages lets
everything come to rest.

### What the properties say

* `StoreConsistent`: ids in the index name records that know the user, which the code relies on
  (`events.get(id)!`), and what a record still owes is found through the index.
* `NoEarlyLoss`: while the process lives and no limit is exceeded (`Overloaded` counts what was
  published, in total and for a user), a QoS 2 event stays pending for each
  target that has not acknowledged it, up to its TTL. `NoRedundantSend`: no client is sent a QoS 1
  event twice, or a QoS 2 event after its ack was processed. These two pull against each other, and
  the three senders (publish, connect, retry) share the work.
* `KeepsPromise`: see `DeliveryService` above. `StoreConsistent` says that the store fits together,
  `KeepsPromise` that it is also the right store.
* `ImplementsDelivery`: binding a socket delivers what is pending in the same step, a session that
  goes is lost to the handlers that wait, a crash takes both. It carries
  `KeepsPromise` and the other properties of `Delivery` over to real sessions.
* `KeepsPresence`: see `Presence` above.
* `StoredIsSent`: an event stored for a connected user is sent, unless it expires, the socket goes, or
  it leaves the user's pending list: an eviction may take the event from one user and leave the
  record, which others still wait for, where it is.
* `ExpiredIsHonest`: `event_expired` is only reported if somebody really did not acknowledge.
* `NeverFailed`: with TTLs up to the stale timeout the status FAILED never occurs. With the values
  the repository ships (TTL 30 s, stale timeout 1 h) the backoff is dead code. `delivery_live` has
  an event that lives longer, so that the backoff is checked all the same.
* `ExpiredIsRemoved`: the TTL timer may fire at `expiresAt` itself, when `isExpired` is still false;
  then only the cleanup interval removes the record. It does.
* `ViewIsCurrent`: a browser that had its snapshot on the socket it uses knows the state of every
  device of its session's product, and of no other, whatever happens during the snapshot's query.
* `HeartbeatIsPatient`: a device is not cut before it left `MaxMissed - 1` pings in a row
  unanswered.
* `FreshVerdict`: no verdict rests on rights that were changed more than a TTL ago. It holds because
  `lastUpdate` is taken before the query and not after it.
* `ErrorIsFinal`, `NoSilence`: a message has either its effects or an error, and it has one of them
  unless its own socket has gone.
* `BurstBound`: a fixed window may let two windows' worth through, never more, whichever rules meet
  under a key: in an interval as long as the *shortest* window of the rules that counted under it, at
  most two windows of the *most generous* of them. For a key of one rule that is its own window and
  limit. A longer rule that shares its key has no bound of its own (section 6). `LockoutBound`: a client
  that keeps trying does not extend its own block, under whichever rules.
* `RightsOfOneHandshake`: a session that was resumed or replaced any number of times has the type of
  the handshake that created it, and its principal equals what that handshake has read: not newer, not
  in part another handshake's. Each part was in the rows of the session's own user at some time
  between the beginning of that handshake and its end. `BoundIsAuthentic`: whoever has a session showed a genuine token, of the
  project the provider is made for, and was active at some time of the handshake.
* `OneActivePerSlot`, `ServedIsDead`: what is left of "one active token" and "one-time use" given
  that queries of different requests interleave (section 6). They do not forbid what the code lets
  happen: two refreshes of one token that are both served, two active tokens from requests that
  overlapped, or none after a failure between `revokeAll` and `save`.

## 4. Fairness

* `TimerSpec` (Delivery): the cleanup and retry intervals keep firing, as `setInterval` does. Time
  is *not* fair: `StoredIsSent` must hold by the retry, not because the event expires in the end.
  Clients and handlers owe nothing.
* `FairSpec` (Session): the heartbeat interval fires, and sockets that are closing get their close
  events (`ws` guarantees it, with a timeout of its own). Clients owe nothing.
* `FairSpec` (EventPipeline): a call of the API ends (axios has a timeout of 5 s), and a query
  returns or fails. Sockets and the backend owe nothing.
* `AuthFairSpec` (Authentication, and `FairSpec` in ProviderCache): time passes and due timeouts fire.
  Callers, clients and the database owe nothing; a query that never returns leaves a handshake
  waiting for ever, as in the code, which has no timeout there.

All of it is weak fairness, and of what the process itself schedules.

## 5. Proofs

TLAPS checks these for every value of the constants that satisfies the named assumptions
(`StoreAssumption`, `DeliveryAssumption`, `GatewayAssumption`, `EventsAssumption`,
`PipelineAssumption`, `SessionAssumption`, `CacheAssumption`, `AuthAssumption`, `RateLimitAssumption`,
`RefreshAssumption`: limits are positive, durations are numbers, sets that stand for different things
are disjoint, there is at least one event class and one user, an event class is for its sender or for
others). `EventsAssumption` is what `Delivery` assumes of the constants, said of those of `Gateway`,
which instantiates it. TLC evaluates the assumptions in the runs. Each theorem follows from an
inductive invariant; what it adds to the properties is what the code relies on without saying so.

* `DeliveryProofs`, about the event store: each method keeps `Good(s)`: the value has its type,
  `IndexSound`, `IndexComplete`, and `Cleared`: a record that is not stored leaves no status behind.
  `Cleared` is the strengthening: without it a number that is used for the first time might already
  have users, and `create()` would enter a record that the index does not know completely. The longest
  lemma is `CreateGood`: forced cleanup, insertion and eviction in one call, where `NewestKept` shows
  that the new record itself is never the victim (the limit is positive and the oldest go first). For
  the limits, `FirstExists` shows that a sorted list has a first element (by well-founded induction on
  the strict subsets of a finite set), so that forced cleanup and eviction take at least one when they
  run (`CreateTotal`, `CreatePerUser`). `HeadLength` counts the first `n` elements of a sorted list;
  with it both limits are laws: `ForceCleanupIsExact` (down to the limit, no further) and
  `EvictionIsExact`, which counts what a negative end of `slice()` takes (`EvictionCount`), so that
  the finding of section 6 is a number for every limit and every length. `Young` says that nothing
  stored expires later than the stale timeout after its creation.
* `DeliveryProofs`, about `Delivery`: `IInv` is `TypeOK`, `Good(store)` and "stored events have
  numbers below `nextId`", needed because `create()` must meet a fresh number. One lemma per action,
  then `THEOREM Inductive`, and from it `TypeCorrect` and `Consistent` (`Spec => []StoreConsistent`):
  the store's two halves agree after any interleaving, for any number of users and events. `NoneFails`
  (`NeverFailed`) has a premise on the configuration, `ShortLived`: no TTL exceeds the stale timeout.
  Then what is stale has expired, and the cleanup interval removes what has expired before it looks
  for what is stale.
* `EventPipelineProofs`: `IInv` adds to `TypeOK` that a message that was received has a socket
  (`HasSocket`: otherwise an error could be addressed to none) and that a message that is not done has
  neither sent a payload nor been passed on (`QuietUntilDone`: `ErrorIsFinal` alone is not inductive,
  as it says nothing of messages that still wait). Results: `TypeCorrect`, `MailTrue` and
  `ErrorFinal`. For `FreshVerdict`, `FInv` dates what the handlers know: a row on which the cache, or
  a query's result, differs from the table has changed since the cache was filled, or the query asked
  for. A stale verdict therefore needs a change that is younger than the TTL or than the message
  (`VerdictsAreFresh`). For `NoSilence`, `SInv` adds that only the session's socket is open and each
  message came from a socket that was opened (`NetOK`), and that whatever has finished was passed on
  or answered, or has lost its socket (`Accounted`): the safety half, which holds for every class of
  event as an event goes either to its sender or to others. The rest is that API and database answer:
  `NoneIsSilent`.
* `DeliveryServiceProofs`: `Delivery` implements `DeliveryService` (`Implements`), and with the same
  invariant `NeverTwice` and `HonestExpiry`. `Waits(s, e, u)` is the common ground: event `e` is
  stored and waits for `u`, which in a consistent store is what `getPending()` finds. The first part
  says for every method of the store what it does to `Waits` (`MarkSentWaits`, `CreateWaits`, …; an
  eviction or a forced cleanup only ends it, and only above a limit). `RInv` adds to `IInv` that
  records and histories agree (`Agrees`, `Fresh`, `Known`), that timers go with their records
  (`Timed`), that no event waits for a user who is done with it (`Quiet`: the heart of
  `NoRedundantSend`, which is not inductive as it only looks back), and that an event whose expiry
  was reported had an open target when its record went (`Honest`). The third part compares each
  concrete step with a step of the service. The last part needs the service only: overload never
  ends by itself, and of its steps `Serve` and `Tick` keep what is owed, so `NothingLost` holds of
  every specification that implements the service. The limits use the refinement as well: a step in
  which the service sheds, ends or restarts lets nothing enter the store (`NothingEnters`), and only
  publishing and the acknowledgement event create (`PublishLimits`, `AckLimits`). Results:
  `Implements`, `NeverTwice`, `HonestExpiry`, `NothingLost`, `TotalBounded`, `PendingBounded`, and under
  the fairness explained below `ExpiredLeave` and `StoredArrive`: what expired stays expired since a
  record keeps its deadline (`ExpiredStays`, from the refinement again), and what is stored stays
  stored until it is sent, removed or evicted (`StoredStays`).
* `SessionProofs`: `SInv` adds that the socket of a session was bound for its user (`SocketIsBound`),
  that a device's handlers are attached in the step that binds it (`DeviceListens`, without which its
  pongs could be lost) and that the heartbeat counts at most one pong more than was really missed
  (`CountIsHonest`). Results: `TypeCorrect`, `SuspensionTimed`, `ViewsCurrent`, and as action
  properties `OwnSocketSuspends` and `PatientHeartbeat`. For the refinement `PresenceKept` every step
  is a `Change`, an `Observe` or a `Leave`. `ChangeIsTold` is the argument for all that move a user:
  nobody joins, the registry moves along one transition, and with `ViewIsCurrent` before and after the
  step a browser can only have learnt just that. It needs `SuspendedIsTimed`: a session that loses its
  socket was ONLINE, and one that is given up was missed. `DeadPeersAreCounted` is the variant of
  `DeadPeerIsRemoved`: every heartbeat that checks a dead peer's socket counts or closes it, no step
  takes the count back, and a socket that reached the limit is not open.
* `GatewayProofs`: the composition. `SInv` of `SessionProofs` is an invariant of `Gateway` as well,
  since a restart re-establishes it (`ViewsStayCurrent`). With it each step of a session is a step
  of `Delivery`'s `conn` or none (`AuthenticatedImplements`, `SuspendTimeoutImplements`,
  `ElsewhereImplements`, `HeartbeatImplements`): a socket that is bound is not yet its session's,
  and no two users share one, so only its owner's connection changes. Result: `Composed`
  (`Spec => ImplementsDelivery`). `GatewayProofs` then instantiates `DeliveryServiceProofs` with the
  constants and the mapping of `Gateway` (`DP`; `SameAssumptions` discharges its assumptions) and
  carries its theorems over: `PromiseKept` (the two refinements joined), `EventsAreSafe` (six
  invariants of `Delivery`), `NoneFailsEither`, and `IntervalsDeliver` (expired events leave, stored
  ones arrive, if the intervals keep firing). Of sessions: `ViewsStayCurrent`, `SuspensionStaysTimed`,
  `OwnSocketStillSuspends`, `HeartbeatStaysPatient` and the refinement `PresenceStaysKept`, in which a
  crash is the `Restart` of `Presence`.
* `AuthenticationProofs`: for the cache, `TimersAreDistinct` (a timer has its number for itself, so
  that clearing one entry's timer never takes another's) gives `CacheIsTimed`. For handshakes, `AInv`
  adds `Sound`, which says for each step of a handshake what its answers have established so far (each
  answer, and what is in the database now, is among the versions recorded since it began; a handshake
  past the status check was active, a bound one is genuine), and `Founded`: a session was created by a
  handshake of its user that was bound, its principal is what that one read and among what was
  recorded for it, and it is on a connection of its user. A handshake that has ended never begins
  again, so that no later step changes what the session is compared with. Results: `RightsAreOfOneHandshake`,
  `HoldersAreAuthentic`, and the cache's theorem with handshakes as its callers.
* `RefreshTokenProofs`: `RTInv` adds what a request knows at each of its queries (`HasClient`,
  `HasToken`, `Spent`), and `CleanSlot`: between `revokeAll` and `save` nothing in the request's own
  name is active, which is why a second active token can only come from another request.
  `ServedIsDead` needs `ServedDead`, as "not active" alone would include a number not issued yet.
  Results: `TypeCorrect`, `ServedStaysDead`, `OneActive`.
* `RateLimitProofs`: `LockoutBound` compares two refusals, so `RLInv` has to say what the first has
  left: `LockedOnce`: the key is still in the block that refused it, which ends a window later
  at the latest, or it was let through since. `BlockBound` bounds each block by a window from now, and
  `Numbered` orders the requests. For `BurstBound`, `Windows` says of each key, for every interval `d`
  and number `p` such that the rules that counted under it have windows of at least `d` and let at most
  `p` through, that what the current fixed window let through, and what came less than `d` before
  its start, is at most `p` each (`OneWindow`). A fixed window that ends lasted at least `d`, whichever
  rule ended it, so that an interval of `d` lies in two fixed windows in a row; a rule that counts under
  a key for the first time only narrows what `d` and `p` may be (`WithinBefore`). Results: `TypeCorrect`, `LockoutEnds`, `BurstsAreBounded`.

Liveness. The provers have no rule for ENABLED, so the three liveness theorems state their fairness
without it: `SweepFires` (Delivery) says that again and again nothing has expired or the cleanup
interval does something; `RetryFires` the same of the retry interval and events it has to send;
`ApiEnds` and `DatabaseEnds` (EventPipeline) that a message does not wait for ever for the API or the
database. Each follows from the weak fairness of section 4 because the action can be taken whenever
there is something to do. For the two intervals that is proved of the store (`CleanupIsPossible`,
`RetryIsPossible`: the tick changes it); that this makes the action ENABLED is not stated. Without its
premise each of the three is false, as the system may just stop. TLC checks the same properties under
WF.

Only model-checked: `DeadPeerIsRemoved` and `EntryIsRemoved`. They count, rounds of the heartbeat and
ticks of the clock, so that they need an induction over the natural numbers with temporal formulas,
for which the installed provers have no rule; `DeadPeersAreCounted` and `CacheIsTimed` are their
safety halves. Every other property of the passing runs is a theorem. Induction over data, and
RECURSIVE operators, are out of the prover's reach as well; the modules have none: `Cardinality` of an
initial segment stands for a position in a sorted list.

## 6. Disagreements

Two have a run whose counterexample shows them.

* `limit_slice` (bug): `enforcePerUserLimit()` compares the limit with an index entry that still
  holds applied and expired ids, but cuts a list without them. The end of `slice()` is then
  negative, counts from the back, and evicts pending events of a user who is below the limit.
* `doc_disconnect_suspends`: a socket that closes while its token is being checked is bound to a
  session afterwards. Its close was handled when `client.session` was not set yet, so the session
  stays ONLINE on a closed socket until the user connects again; the heartbeat skips sockets that
  are not open.

The following were met while the modules were written, and the models show them as the code has
them; none of the properties assumes the contrary.

* `create()` at `EVENT_STORE_MAX_TOTAL` removes `length - MAX = 0` records and inserts: one more
  than `docs/env-detail.md:86` allows. `TotalBound` is therefore `MaxTotal + 1`.
* `forceCleanup()` sorts by descending weight and removes from the front, so the events of the
  *highest* priority go; `docs/reliability.md:60` says the lowest (`RemovedBefore`).
* Evicting the last user that had not applied an event leaves a record that is APPLIED for all its
  users until its TTL; `docs/reliability.md:51` says it is deleted.
* Only FAILED events have a limit of attempts; a DELIVERED one is sent at every retry interval
  (`docs/env-detail.md:90`). With TTL and delivered timeout both at 30 s it may also never be sent
  again (`docs/reliability.md:114`).
* A restart, or the unhandled rejection of `qossing()`, loses what is owed (`docs/reliability.md:114`).
* A user outside the whitelist is treated as an offline target and sent the event later
  (`docs/communication.md:122`).
* `isAlive` is false on a new connection, so the first heartbeat counts a missed pong although no
  ping was sent (`docs/env-detail.md:44`); `HeartbeatIsPatient` has `MaxMissed - 1` for that reason.
* A browser that resumes gets no snapshot (`docs/communication.md:39`); `ViewIsCurrent` only speaks
  of browsers that got one.
* The tenant's API is called before the sender's rights are checked, so a forbidden cancellation is
  carried out and mailed (`docs/communication.md:74-75` has the opposite order).
* An error of a message whose client has reconnected goes to the old socket and is dropped
  (`docs/communication.md:222`); `NoSilence` excludes messages whose socket has gone.
* `cancel-reservasi.event.ts:78` filters browsers by `role_product` of the *sender*, a device
  without that field: no browser is sent the cancellation at once, contrary to the comment in line 65.
* `device.helper.ts:19` compares `id_jenis_device` of the event row with the id of the device itself
  (`event.service.ts:20`, `device.service.ts:91`), contrary to `docs/database-schema.md:16`. In the
  model `DeviceFilter` compares `kind` with `IdDevice`.
* `maxAttempts - 1` requests are let through, not `maxAttempts` (`docs/env-detail.md:56`). See
  `PerWindow`.
* Rules of different phases may share a key (`docs/security.md:41`), as addresses without credentials
  do and any credentials that happen, or are made, to be the same string (`KeyOf`). A rule with a short
  window then starts the count of one with a long window anew, which lets more than its own limit
  through (`docs/env-detail.md:56`, "Maks request dalam window tersebut"). With windows of 1 and 2 and
  limits of 2 and 3: two requests under the second rule and one under the first at time 1, the same at
  time 2, and two under the second at time 3 are six under the second rule in [1, 3], where two of its
  windows let four through. `BurstBound` holds there since it goes by the shorter window; a limiter
  with a key per rule would keep each rule's own.
* Two refreshes of one token may both be served, and two overlapping `create()` calls leave two
  active tokens, as nothing spans the queries (`docs/security.md:201`).
* The rights of a session are read when it is created and never again while it exists: a client that
  reconnects resumes or replaces its session and keeps the old ones (`Establish`), contrary to
  `src/guides/event-security-setup.md:133-134` ("Client harus reconnect agar data terbaru digunakan").
  Only a session that was suspended until its timer fired is made anew.
* `websocket/schema/websocket.session.ts:9` says that a session id is `${id_enduser}:${type}`; it is the
  end user alone. A browser and a desktop of one role, or any two browsers of it, take over each
  other's session, which keeps the type and product of its creator; the messages of the other type
  are refused (`RightsOfOneHandshake` has the type of the creator).
* `product` in the URL, "produk yang diminta" (`docs/communication.md:200`), is only looked at when
  a session is created; a connection that resumes or replaces one gets what the first asked for
  (`ProductFor`). A product that is not the role's suppresses the snapshot
  (`browser.lifesycle.ts:31`), but not the broadcasts (`device.lifesycle.ts:11`): such a browser is
  told of changes of devices it got no list of.
* `FirebaseProvider` takes the named app that exists (`firebase.provider.ts:16-37`), so that a tenant's
  new Firebase configuration is not used until the process is restarted; `docs/security.md:111` says
  that providers are cached for one hour (`ProviderCreated`, `Verify`).
* Events are sent to a new browser before its message handler is attached (`base.lifesycle.ts:18`,
  `websocket.gateway.ts:51`), so that an early acknowledgement is lost and the event is sent again
  (`Listening`).
* A provider in use is cached for longer than its TTL, as each hit starts the timer anew, and one
  that overwrote another may go earlier (`docs/notification.md:166`, `docs/security.md:111`).

## 7. Abstractions that matter

Payloads, names and texts are left out. Time is a small counter; only comparisons of durations matter.
QoS 0 is sent and forgotten and leaves no trace. In `Session` there is one tenant; desktops have the
lifecycle of browsers; the product of a device and of a browser's role do not change. In
`RefreshToken` `exists()`, which asks for the client and then compares, is one step. The rights of a
sender (black- and whitelist) are constants of `EventPipeline`; a session keeps them from its
creation, as `Authentication` shows. In `EventPipeline` the notification event is handled at any later
point, and the mail's SMTP configuration is part of "sending the mail fails" (a failed query for it
falls back to the default account in the code).

## 8. Not modelled

The formats of tokens and signatures (a token is genuine or forged), `mock.strategy.ts` (not in the
strategy map), REST controllers, DTOs, entities, migrations and configuration (declarations), the
template parser and the WhatsApp stub, `POST /notifications` (no state), statistics and dumps of the
store, and methods without a caller: `markFailed`, `revokeAllForClient`, `ProviderFactory.invalidate`,
get/set/delete of the rate limit storage. Docker files and documentation are not part of the program.

## 9. Plan

Done, in this order: the event store and delivery with their limits; sessions and heartbeat; the
pipeline with the tenant API and notifications; rate limiting, refresh tokens, provider cache; the
abstract service and the refinement; authentication; the composition of sessions and delivery;
theorems for every component; presence, as an abstract specification and a refinement; the theorems of
`Delivery` carried over to `Gateway`; liveness under fairness written out.

Left, in the order of what it would add:

1. The rights in a session (`Authentication`) and those `EventPipeline` judges by, in one composition.
2. Several tenants in `Session`: the registry keeps one set of devices and browsers for each.
3. `POST /notifications` and the mail provider's configuration, if they are ever to keep state.
