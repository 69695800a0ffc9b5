---------------------------- MODULE EventPipeline ----------------------------
(***************************************************************************)
(* What happens to a message of a client before it is published:           *)
(* WebSocketMessageService (find the handler), BaseWsEvent and its         *)
(* subclasses (validate, call the tenant's API, check the sender's rights  *)
(* against the cached event table, dispatch, side effects) and the mail    *)
(* that a successful call triggers.  Publishing itself is Delivery.        *)
(*                                                                         *)
(* One session sends; it may lose its socket, get a new one or be removed  *)
(* while its messages wait for the API or for the database.  A step is     *)
(* what the Node process runs between two returns to the event loop.       *)
(***************************************************************************)
EXTENDS Integers, FiniteSets

CONSTANTS
  Task,       \* bound: the messages that are ever received
  Event,      \* the kinds of event they may ask for, among the ones below
  Row,        \* rows the event table may hold, [id, label, kind]
  IdDevice,   \* id_device of the sender, if it is a device
  Blacklist,  \* blacklistSend of the sender, if it is a device
  Whitelist,  \* whiteListSend of the sender, if it is a browser
  TTL,        \* EVENT_CACHE_TTL
  MaxNow,     \* bound: the last value of the clock
  MaxSock     \* bound: the sockets the sender ever opens

ASSUME PipelineAssumption ==
  /\ Event # {} /\ \A e \in Event : e.receiver \in {"self", "peers"}
  /\ TTL \in Nat /\ MaxNow \in Nat /\ MaxSock \in Nat \ {0}

VARIABLES
  type,       \* type of the sender's session
  gen,        \* which of the sender's session objects is registered
  sock,       \* its socket, 0 if it has none
  net,        \* the state of each socket
  task,       \* the messages, see Message
  applied,    \* messages the tenant's backend has carried out
  notices,    \* emitted notifications that were not handled yet
  mailed,     \* history: messages that a mail was sent for
  table,      \* the rows of the event table
  changed,    \* history: when each row was last added or removed
  cache,      \* events and lastUpdate of each handler
  now,        \* the clock
  answers,    \* history: what the sender was sent
  passed      \* history: messages passed on to the receivers (to qossing(), or sent)

vars == <<type, gen, sock, net, task, applied, notices, mailed, table, changed,
          cache, now, answers, passed>>

-----------------------------------------------------------------------------
(* The event classes.  An event is handled by a handler; label is the name *)
(* that is looked up in the event table.                                   *)

Plain(name, sender) ==
  [handler |-> name, label |-> name, type |-> sender, api |-> FALSE, mails |-> FALSE,
   checked |-> TRUE, receiver |-> "peers", after |-> "none"]

RFIDScan(mode) ==
  [Plain("rfid-scan", "device") EXCEPT
     !.label = mode, !.api = TRUE, !.mails = (mode = "login"), !.after = "apply"]

CancelReservasi ==
  [Plain("cancel-reservasi", "device") EXCEPT
     !.api = TRUE, !.mails = TRUE, !.receiver = "self", !.after = "browsers"]

GetAllReservasi ==
  [Plain("get-all-reservasi", "device") EXCEPT !.api = TRUE, !.receiver = "self"]

ChangeMode(mode) == [Plain("change-mode", "browser") EXCEPT !.label = mode]

CreateSesi == [Plain("create-sesi", "browser") EXCEPT !.api = TRUE]

DestroySesi == [Plain("destroy-sesi", "browser") EXCEPT !.api = TRUE]

DestroyAllSesi == [Plain("destroy-all-sesi", "browser") EXCEPT !.api = TRUE]

SyncAlarm == Plain("sync-alarm", "browser")

SendMetadataAudio == Plain("send-metadata-audio", "device")

UploadAudioStart == [Plain("upload-audio-start", "browser") EXCEPT !.checked = FALSE]

UploadAudioEnd == [Plain("upload-audio-end", "browser") EXCEPT !.checked = FALSE]

UploadAudio == Plain("upload-audio", "browser")

StreamImage == Plain("stream-image", "device")

Handler == {e.handler : e \in Event}

\* The steps at which a message waits: "api" for the tenant's API, "query" and
\* "reading" for the database (before and after it has read the table).
Waiting == {"api", "query", "reading"}

\* A message: its socket and session object, when the cache was looked at, and
\* what the database read for it.
Message ==
  [step : {"unused", "done", "failed", "forbidden"} \cup Waiting,
   event : Event, sock : 0 .. MaxSock, gen : Nat, asked : Nat, read : SUBSET Row]

Code == {"reply", "EVENT_ERROR", "UNAUTHENTICATED", "FORBIDDEN_EVENT", "API_ERROR",
         "INVALID_RESPONSE", "INTERNAL_ERROR"}

TypeOK ==
  /\ type \in {"device", "browser"}
  /\ gen \in Nat
  /\ sock \in 0 .. MaxSock
  /\ net \in [1 .. MaxSock -> {"unused", "open", "closing", "closed"}]
  /\ task \in [Task -> Message]
  /\ applied \subseteq Task /\ notices \subseteq Task /\ mailed \subseteq Task
  /\ table \subseteq Row /\ changed \in [Row -> 0 .. MaxNow]
  /\ cache \in [Handler -> [filled : BOOLEAN, events : SUBSET Row, lastUpdate : Nat]]
  /\ now \in 0 .. MaxNow
  /\ answers \subseteq [task : Task, sock : 1 .. MaxSock, code : Code]
  /\ passed \subseteq Task

Init ==
  /\ type \in {"device", "browser"}
  /\ gen = 0
  /\ sock = 0
  /\ net = [s \in 1 .. MaxSock |-> "unused"]
  /\ task = [t \in Task |-> [step |-> "unused", event |-> CHOOSE e \in Event : TRUE,
                             sock |-> 0, gen |-> 0, asked |-> 0, read |-> {}]]
  /\ applied = {} /\ notices = {} /\ mailed = {}
  /\ table \in SUBSET Row
  /\ changed = [r \in Row |-> 0]
  /\ cache = [h \in Handler |-> [filled |-> FALSE, events |-> {}, lastUpdate |-> 0]]
  /\ now = 0
  /\ answers = {}
  /\ passed = {}

sessionVars == <<type, gen, sock, net>>
backendVars == <<applied, notices, mailed>>
tableVars == <<table, changed, now>>
outVars == <<answers, passed>>

-----------------------------------------------------------------------------
(* The sender's session.  Session models it in full.                       *)

\* A new connection: the session gets its socket, the old one is closed.
Connect(s) ==
  /\ net[s] = "unused" /\ \A s2 \in 1 .. s - 1 : net[s2] # "unused"
  /\ sock' = s
  /\ net' = [s2 \in DOMAIN net |-> IF s2 = s THEN "open"
                                   ELSE IF s2 = sock /\ net[s2] = "open" THEN "closing"
                                   ELSE net[s2]]
  /\ UNCHANGED <<type, gen, task, backendVars, tableVars, cache, outVars>>

\* Either side starts to close the session's socket.
StartClose ==
  /\ sock # 0 /\ net[sock] = "open"
  /\ net' = [net EXCEPT ![sock] = "closing"]
  /\ UNCHANGED <<type, gen, sock, task, backendVars, tableVars, cache, outVars>>

\* A socket is closed.  If it is the session's, the session is suspended.
Closed(s) ==
  /\ net[s] = "closing"
  /\ net' = [net EXCEPT ![s] = "closed"]
  /\ sock' = IF s = sock THEN 0 ELSE sock
  /\ UNCHANGED <<type, gen, task, backendVars, tableVars, cache, outVars>>

\* The suspended session is removed.  Messages that still wait hold on to it; a
\* new connection makes another.  (Bound: only if some message waits.)
Removed ==
  /\ sock = 0 /\ \E t \in Task : task[t].step \in Waiting /\ task[t].gen = gen
  /\ gen' = gen + 1
  /\ UNCHANGED <<type, sock, net, task, backendVars, tableVars, cache, outVars>>

\* session.socket of the session object that a message came from.
SocketOf(m) == IF m.gen = gen THEN sock ELSE 0

IsOpen(s) == s # 0 /\ net[s] = "open"

-----------------------------------------------------------------------------
(* How a message ends.  Each of these sets task, answers and passed.       *)

\* Mutant: the error is logged and not sent.
HandleErrorLogged(t, m, code) ==
  /\ task' = [task EXCEPT ![t] = [m EXCEPT !.step =
                IF code = "FORBIDDEN_EVENT" THEN "forbidden" ELSE "failed", !.read = {}]]
  /\ UNCHANGED outVars

\* The handler threw: the error goes to the socket the message came from, if
\* that is still open.
HandleError(t, m, code) ==
  /\ task' = [task EXCEPT ![t] = [m EXCEPT !.step =
                IF code = "FORBIDDEN_EVENT" THEN "forbidden" ELSE "failed", !.read = {}]]
  /\ answers' = IF net[m.sock] # "open" THEN answers
                ELSE answers \cup {[task |-> t, sock |-> m.sock, code |-> code]}
  /\ UNCHANGED passed

\* A payload is sent to a socket; it is lost unless that is open.
Reply(t, s) ==
  answers' = IF IsOpen(s) THEN answers \cup {[task |-> t, sock |-> s, code |-> "reply"]}
             ELSE answers

\* Mutant: the side effect runs before the payload is sent.
DispatchEffectFirst(t, m) ==
  LET s == SocketOf(m)
      fails == m.event.receiver = "self" /\ s = 0
  IN  /\ task' = [task EXCEPT ![t] = [m EXCEPT !.step = IF fails THEN "failed" ELSE "done"]]
      /\ passed' = IF m.event.receiver = "peers" \/ m.event.after = "browsers"
                   THEN passed \cup {t} ELSE passed
      /\ IF m.event.receiver = "self" \/ m.event.after = "apply"
           THEN Reply(t, s) ELSE UNCHANGED answers

\* dispatch() and sideEffectEvent().  "self": the payload goes to the socket the
\* session has by now, and the handler throws if it has none.  "peers": it goes
\* to qossing(), which nobody waits for, and a scan is confirmed to the sender if
\* its session is active.
Dispatch(t, m) ==
  LET s == SocketOf(m)
  IN  IF m.event.receiver = "self" /\ s = 0 THEN HandleError(t, m, "INTERNAL_ERROR")
      ELSE /\ task' = [task EXCEPT ![t] = [m EXCEPT !.step = "done", !.read = {}]]
           /\ IF m.event.receiver = "self" \/ m.event.after = "apply"
                THEN Reply(t, s) ELSE UNCHANGED answers
           /\ passed' = IF m.event.receiver = "peers" \/ m.event.after = "browsers"
                        THEN passed \cup {t} ELSE passed

-----------------------------------------------------------------------------
(* The sender's rights.                                                    *)

\* getByProduct() calls the kind a row is for id_device; the principal's field of
\* that name is the id of the device itself.
DeviceFilter(label, events) ==
  {r \in events : r.id \notin Blacklist /\ r.label = label /\ r.kind = IdDevice}

BrowserFilter(label, events) ==
  {r \in events : r.id \in Whitelist /\ r.label = label}

\* Do these rows of the event table let the sender send the event?
Allowed(event, events) ==
  (IF type = "device" THEN DeviceFilter(event.label, events)
                      ELSE BrowserFilter(event.label, events)) # {}

Verdict(t, m, events) ==
  IF Allowed(m.event, events) THEN Dispatch(t, m)
                              ELSE HandleError(t, m, "FORBIDDEN_EVENT")

\* The cached events of a handler are used as long as they are young enough.
IsCached(h) == cache[h].filled /\ now - cache[h].lastUpdate <= TTL

\* getReceivers(), when the payload is there.
GetReceivers(t, m) ==
  LET asked == [m EXCEPT !.asked = now]
  IN  CASE ~m.event.checked -> Dispatch(t, asked)
        [] m.event.checked /\ IsCached(m.event.handler) ->
             Verdict(t, asked, cache[m.event.handler].events)
        [] OTHER -> /\ task' = [task EXCEPT ![t] = [asked EXCEPT !.step = "query"]]
                    /\ UNCHANGED outVars

-----------------------------------------------------------------------------
(* A message arrives.                                                      *)

\* The message t asks for e on the session's socket.
New(t, e) ==
  [task[t] EXCEPT !.event = e, !.sock = sock, !.gen = gen]

Arrives(t) == sock # 0 /\ task[t].step = "unused"

\* It is not JSON, names no event, or its payload is not what the event asks for.
Malformed(t, e) ==
  /\ Arrives(t)
  /\ HandleError(t, New(t, e), "EVENT_ERROR")
  /\ UNCHANGED <<sessionVars, backendVars, tableVars, cache>>

\* The event is not for senders of this type.  The socket is closed as well.
WrongType(t, e) ==
  /\ Arrives(t) /\ e.type # type
  /\ HandleError(t, New(t, e), "UNAUTHENTICATED")
  /\ net' = [net EXCEPT ![sock] = IF @ = "open" THEN "closing" ELSE @]
  /\ UNCHANGED <<type, gen, sock, backendVars, tableVars, cache>>

\* modifiedPayload() calls the tenant's API ...
CallApi(t, e) ==
  /\ Arrives(t) /\ e.type = type /\ e.api
  /\ task' = [task EXCEPT ![t] = [New(t, e) EXCEPT !.step = "api"]]
  /\ UNCHANGED <<sessionVars, applied, notices, mailed, tableVars, cache, outVars>>

\* ... or leaves the payload as it is.
NoApi(t, e) ==
  /\ Arrives(t) /\ e.type = type /\ ~e.api
  /\ GetReceivers(t, New(t, e))
  /\ UNCHANGED <<sessionVars, backendVars, tableVars, cache>>

-----------------------------------------------------------------------------
(* The tenant's API.                                                       *)

\* The backend carries out a request; its answer may still get lost.
BackendApplies(t) ==
  /\ task[t].step = "api" /\ t \notin applied
  /\ applied' = applied \cup {t}
  /\ UNCHANGED <<sessionVars, task, notices, mailed, tableVars, cache, outVars>>

\* It answers that it has: a login or a cancellation is also to be mailed.
ApiSucceeds(t) ==
  /\ task[t].step = "api" /\ t \in applied
  /\ notices' = IF task[t].event.mails THEN notices \cup {t} ELSE notices
  /\ GetReceivers(t, task[t])
  /\ UNCHANGED <<sessionVars, applied, mailed, tableVars, cache>>

\* Mutant: the notification is emitted whatever isSuccess says.
ApiRefusesNotified(t) ==
  /\ task[t].step = "api" /\ t \notin applied
  /\ notices' = IF task[t].event.mails THEN notices \cup {t} ELSE notices
  /\ GetReceivers(t, task[t])
  /\ UNCHANGED <<sessionVars, applied, mailed, tableVars, cache>>

\* It answers isSuccess: false.  The answer is dispatched like any payload.
ApiRefuses(t) ==
  /\ task[t].step = "api" /\ t \notin applied
  /\ GetReceivers(t, task[t])
  /\ UNCHANGED <<sessionVars, backendVars, tableVars, cache>>

\* A status other than 2xx, no connection, or no answer within the timeout.
ApiFails(t) ==
  /\ task[t].step = "api"
  /\ HandleError(t, task[t], "API_ERROR")
  /\ UNCHANGED <<sessionVars, backendVars, tableVars, cache>>

\* The answer is not of the expected shape.
ApiMisanswers(t) ==
  /\ task[t].step = "api"
  /\ HandleError(t, task[t], "INVALID_RESPONSE")
  /\ UNCHANGED <<sessionVars, backendVars, tableVars, cache>>

-----------------------------------------------------------------------------
(* The event table.                                                        *)

\* The database reads the table for a query.
QueryReads(t) ==
  /\ task[t].step = "query"
  /\ task' = [task EXCEPT ![t].step = "reading", ![t].read = table]
  /\ UNCHANGED <<sessionVars, backendVars, tableVars, cache, outVars>>

\* Mutant: lastUpdate is the time of the answer.
QueryReturnsLate(t) ==
  /\ task[t].step = "reading"
  /\ cache' = [cache EXCEPT ![task[t].event.handler] =
                 [filled |-> TRUE, events |-> task[t].read, lastUpdate |-> now]]
  /\ Verdict(t, task[t], task[t].read)
  /\ UNCHANGED <<sessionVars, backendVars, tableVars>>

\* Mutant: the TTL is already taken off when the time is kept.
QueryReturnsAged(t) ==
  /\ task[t].step = "reading"
  /\ cache' = [cache EXCEPT ![task[t].event.handler] =
                 [filled |-> TRUE, events |-> task[t].read, lastUpdate |-> task[t].asked - TTL]]
  /\ Verdict(t, task[t], task[t].read)
  /\ UNCHANGED <<sessionVars, backendVars, tableVars>>

\* The result is there.  lastUpdate is the time at which the query was sent.
\* Queries that overlap may come back in any order; the last one is kept.
QueryReturns(t) ==
  /\ task[t].step = "reading"
  /\ cache' = [cache EXCEPT ![task[t].event.handler] =
                 [filled |-> TRUE, events |-> task[t].read, lastUpdate |-> task[t].asked]]
  /\ Verdict(t, task[t], task[t].read)
  /\ UNCHANGED <<sessionVars, backendVars, tableVars>>

\* The query fails.
QueryFails(t) ==
  /\ task[t].step \in {"query", "reading"}
  /\ HandleError(t, task[t], "INTERNAL_ERROR")
  /\ UNCHANGED <<sessionVars, backendVars, tableVars, cache>>

\* Someone edits the table.  (Bound: a row changes once per value of the clock.)
EditTable(r) ==
  /\ changed[r] < now
  /\ table' = (table \ {r}) \cup ({r} \ table)
  /\ changed' = [changed EXCEPT ![r] = now]
  /\ UNCHANGED <<sessionVars, task, backendVars, cache, now, outVars>>

-----------------------------------------------------------------------------
(* Notifications.                                                          *)

\* The tenant has a template for the event: the mail is sent.
SendNotice(t) ==
  /\ t \in notices
  /\ notices' = notices \ {t} /\ mailed' = mailed \cup {t}
  /\ UNCHANGED <<sessionVars, task, applied, tableVars, cache, outVars>>

\* There is no template, or reading it or sending the mail fails.
DropNotice(t) ==
  /\ t \in notices
  /\ notices' = notices \ {t}
  /\ UNCHANGED <<sessionVars, task, applied, mailed, tableVars, cache, outVars>>

Tick ==
  /\ now < MaxNow
  /\ now' = now + 1
  /\ UNCHANGED <<sessionVars, task, backendVars, table, changed, cache, outVars>>

-----------------------------------------------------------------------------
Receive(t, e) == Malformed(t, e) \/ WrongType(t, e) \/ CallApi(t, e) \/ NoApi(t, e)

ApiAnswers(t) == ApiSucceeds(t) \/ ApiRefuses(t) \/ ApiFails(t) \/ ApiMisanswers(t)

QueryEnds(t) == QueryReturns(t) \/ QueryFails(t)

Next ==
  \/ \E s \in 1 .. MaxSock : Connect(s) \/ Closed(s)
  \/ StartClose \/ Removed
  \/ \E t \in Task, e \in Event : Receive(t, e)
  \/ \E t \in Task : \/ BackendApplies(t) \/ ApiAnswers(t)
                     \/ QueryReads(t) \/ QueryEnds(t)
                     \/ SendNotice(t) \/ DropNotice(t)
  \/ \E r \in Row : EditTable(r)
  \/ Tick

Spec == Init /\ [][Next]_vars

\* A call of the API ends within its timeout; the database answers each query or
\* reports that it cannot.  Clients, sockets and the backend owe nothing.
FairSpec ==
  /\ Spec
  /\ \A t \in Task : /\ WF_vars(ApiAnswers(t))
                     /\ WF_vars(QueryReads(t) \/ QueryEnds(t))

-----------------------------------------------------------------------------
(* Safety.                                                                 *)

Decided(t) == task[t].step \notin {"done", "forbidden"} /\ task'[t].step \in {"done", "forbidden"}

\* A message is let through or refused according to the event table as it is, or
\* as it was at most TTL ago (or when its own, slow query was sent): queries of
\* the same handler that overlap, come back out of order or take long never make
\* the cache serve an older table.
FreshVerdict ==
  [][\A t \in Task : LET m == task'[t] IN
       Decided(t) /\ m.event.checked
         /\ (m.step = "done") # Allowed(m.event, table) =>
         \E r \in Row : /\ r.label = m.event.label
                        /\ changed[r] >= m.asked \/ changed[r] >= now - TTL]_vars

\* A mail is only sent for what the tenant's backend has really done: not for
\* what it refused, and not for a call that failed or was answered wrongly.
MailIsTrue == mailed \cup notices \subseteq applied

Answered(t, codes) == \E a \in answers : a.task = t /\ a.code \in codes

\* A message fails as a whole: if its handler throws, at whatever point and
\* whatever has become of the session meanwhile, nothing of it was passed on to
\* a receiver and its sender was sent no payload.
ErrorIsFinal ==
  \A t \in Task : task[t].step \in {"failed", "forbidden"} =>
    /\ ~Answered(t, {"reply"})
    /\ t \notin passed

-----------------------------------------------------------------------------
(* Liveness.                                                               *)

\* No message is swallowed: it is passed on, its sender gets an answer, or the
\* socket it came from goes away first.
NoSilence ==
  \A t \in Task :
    task[t].step \in Waiting ~>
      \/ t \in passed
      \/ Answered(t, Code)
      \/ ~IsOpen(task[t].sock)
=============================================================================
