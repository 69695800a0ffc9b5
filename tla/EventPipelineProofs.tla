------------------------- MODULE EventPipelineProofs -------------------------
(* Type correctness of EventPipeline, its safety invariants, and the age   *)
(* of its verdicts.                                                        *)
EXTENDS EventPipeline, TLAPS

\* A message that was received names the socket it came from.
HasSocket == \A t \in Task : task[t].step # "unused" => task[t].sock # 0

\* Until a message is done its sender was sent no payload, nor anyone else.
QuietUntilDone ==
  \A t \in Task : task[t].step # "done" =>
    /\ ~Answered(t, {"reply"})
    /\ t \notin passed

\* What a way to end a message has to preserve.
MessagesOK ==
  /\ task \in [Task -> Message]
  /\ answers \subseteq [task : Task, sock : 1 .. MaxSock, code : Code]
  /\ passed \subseteq Task
  /\ HasSocket
  /\ QuietUntilDone

IInv == TypeOK /\ HasSocket /\ QuietUntilDone /\ MailIsTrue

\* A message record that may be carried on with at this step.
Pending(t, m) ==
  /\ t \in Task /\ task[t].step # "done"
  /\ m \in Message /\ m.sock # 0

-----------------------------------------------------------------------------
(* The ways a message ends.                                                *)

LEMMA HandleErrorKeeps ==
  ASSUME NEW t, NEW m, NEW code \in Code \ {"reply"},
         TypeOK, MessagesOK, Pending(t, m), HandleError(t, m, code)
  PROVE  MessagesOK'
<1>1. task' \in [Task -> Message]
  BY DEF HandleError, Pending, MessagesOK, Message, Waiting
<1>2. answers' \subseteq [task : Task, sock : 1 .. MaxSock, code : Code]
  BY PipelineAssumption DEF HandleError, Pending, MessagesOK, Message
<1>3. HasSocket'
  BY DEF HandleError, Pending, MessagesOK, HasSocket, Message
<1>4. QuietUntilDone'
  BY DEF HandleError, Pending, MessagesOK, QuietUntilDone, Answered, Message
<1>5. QED
  BY <1>1, <1>2, <1>3, <1>4 DEF HandleError, MessagesOK

LEMMA ReplyAdds ==
  ASSUME NEW t \in Task, NEW m \in Message, TypeOK, MessagesOK,
         Reply(t, SocketOf(m)) \/ answers' = answers
  PROVE  /\ answers' \subseteq [task : Task, sock : 1 .. MaxSock, code : Code]
         /\ \A a \in answers' : a \in answers \/ a.task = t
<1>1. SocketOf(m) \in 0 .. MaxSock
  BY PipelineAssumption DEF SocketOf, TypeOK
<1>2. QED
  BY <1>1, PipelineAssumption DEF Reply, IsOpen, MessagesOK, Code

LEMMA DispatchKeeps ==
  ASSUME NEW t, NEW m, TypeOK, MessagesOK, Pending(t, m), Dispatch(t, m)
  PROVE  MessagesOK'
<1>1. CASE m.event.receiver = "self" /\ SocketOf(m) = 0
  <2>1. HandleError(t, m, "INTERNAL_ERROR")
    BY <1>1 DEF Dispatch
  <2>2. QED
    BY <2>1, HandleErrorKeeps DEF Code
<1>2. CASE ~(m.event.receiver = "self" /\ SocketOf(m) = 0)
  <2>1. /\ task' = [task EXCEPT ![t] = [m EXCEPT !.step = "done", !.read = {}]]
        /\ Reply(t, SocketOf(m)) \/ answers' = answers
        /\ passed' = passed \cup {t} \/ passed' = passed
    BY <1>2 DEF Dispatch
  <2>2. /\ answers' \subseteq [task : Task, sock : 1 .. MaxSock, code : Code]
        /\ \A a \in answers' : a \in answers \/ a.task = t
    BY <2>1, ReplyAdds DEF Pending
  <2>3. /\ passed' \subseteq Task
        /\ \A u \in passed' : u \in passed \/ u = t
    BY <2>1 DEF MessagesOK, Pending
  <2>4. task' \in [Task -> Message] /\ HasSocket'
    BY <2>1 DEF Pending, MessagesOK, Message, HasSocket
  <2>5. \A u \in Task : u # t => task'[u] = task[u]
    BY <2>1 DEF MessagesOK
  <2>6. task'[t].step = "done"
    BY <2>1 DEF MessagesOK, Pending, Message
  <2>7. QuietUntilDone'
    BY <2>2, <2>3, <2>5, <2>6 DEF MessagesOK, QuietUntilDone, Answered
  <2>8. QED
    BY <2>2, <2>3, <2>4, <2>7 DEF MessagesOK
<1>3. QED
  BY <1>1, <1>2

LEMMA VerdictKeeps ==
  ASSUME NEW t, NEW m, NEW events,
         TypeOK, MessagesOK, Pending(t, m), Verdict(t, m, events)
  PROVE  MessagesOK'
<1>1. CASE Allowed(m.event, events)
  BY <1>1, DispatchKeeps DEF Verdict
<1>2. CASE ~Allowed(m.event, events)
  <2>1. HandleError(t, m, "FORBIDDEN_EVENT")
    BY <1>2 DEF Verdict
  <2>2. QED
    BY <2>1, HandleErrorKeeps DEF Code
<1>3. QED
  BY <1>1, <1>2

LEMMA GetReceiversKeeps ==
  ASSUME NEW t, NEW m, TypeOK, MessagesOK, Pending(t, m), GetReceivers(t, m)
  PROVE  MessagesOK'
<1> DEFINE asked == [m EXCEPT !.asked = now]
<1>1. Pending(t, asked)
  <2>1. now \in Nat
    BY PipelineAssumption DEF TypeOK
  <2>2. asked \in Message /\ asked.sock = m.sock
    BY <2>1 DEF Pending, Message
  <2>3. QED
    BY <2>2 DEF Pending
<1>2. CASE Dispatch(t, asked)
  BY <1>1, <1>2, DispatchKeeps
<1>3. CASE Verdict(t, asked, cache[m.event.handler].events)
  BY <1>1, <1>3, VerdictKeeps
<1>4. CASE /\ task' = [task EXCEPT ![t] = [asked EXCEPT !.step = "query"]]
           /\ UNCHANGED outVars
  <2>1. task' \in [Task -> Message] /\ HasSocket'
    BY <1>1, <1>4 DEF Pending, MessagesOK, Message, HasSocket, Waiting
  <2>2. QuietUntilDone'
    BY <1>4 DEF Pending, MessagesOK, QuietUntilDone, Answered, outVars
  <2>3. QED
    BY <1>4, <2>1, <2>2 DEF MessagesOK, outVars
<1>5. QED
  BY <1>2, <1>3, <1>4 DEF GetReceivers

-----------------------------------------------------------------------------
(* Every step.                                                             *)

LEMMA Arriving ==
  ASSUME NEW t \in Task, NEW e \in Event, TypeOK, Arrives(t)
  PROVE  Pending(t, New(t, e))
  BY DEF Arrives, New, Pending, TypeOK, Message

LEMMA Going ==
  ASSUME NEW t \in Task, TypeOK, HasSocket, task[t].step \in Waiting
  PROVE  Pending(t, task[t])
  BY DEF Pending, TypeOK, HasSocket, Waiting

\* A step that ends messages leaves the rest of the state alone.
LEMMA MessagesSuffice ==
  ASSUME IInv, MessagesOK', MailIsTrue',
         type' \in {"device", "browser"}, gen' \in Nat, sock' \in 0 .. MaxSock,
         net' \in [1 .. MaxSock -> {"unused", "open", "closing", "closed"}],
         applied' \subseteq Task /\ notices' \subseteq Task /\ mailed' \subseteq Task,
         UNCHANGED tableVars,
         cache' \in [Handler -> [filled : BOOLEAN, events : SUBSET Row, lastUpdate : Nat]]
  PROVE  IInv'
  BY DEF IInv, TypeOK, MessagesOK, tableVars

LEMMA InitIInv == Init => IInv
<1> SUFFICES ASSUME Init PROVE IInv
  OBVIOUS
<1>1. (CHOOSE e \in Event : TRUE) \in Event
  BY PipelineAssumption
<1>2. task \in [Task -> Message]
  BY <1>1, PipelineAssumption DEF Init, Message, Waiting
<1>3. TypeOK
  BY <1>2, PipelineAssumption DEF Init, TypeOK, Handler
<1>4. HasSocket /\ QuietUntilDone /\ MailIsTrue
  BY DEF Init, HasSocket, QuietUntilDone, Answered, MailIsTrue
<1>5. QED
  BY <1>3, <1>4 DEF IInv

LEMMA SessionSteps ==
  ASSUME IInv,
         \/ \E s \in 1 .. MaxSock : Connect(s) \/ Closed(s)
         \/ StartClose \/ Removed
  PROVE  IInv'
<1>1. UNCHANGED <<task, backendVars, tableVars, cache, outVars, type>>
  BY DEF Connect, Closed, StartClose, Removed
<1>2. gen' \in Nat
  BY DEF IInv, TypeOK, Connect, Closed, StartClose, Removed
<1>3. sock' \in 0 .. MaxSock
  BY PipelineAssumption DEF IInv, TypeOK, Connect, Closed, StartClose, Removed
<1>4. net' \in [1 .. MaxSock -> {"unused", "open", "closing", "closed"}]
  BY DEF IInv, TypeOK, Connect, Closed, StartClose, Removed
<1>5. TypeOK'
  BY <1>1, <1>2, <1>3, <1>4 DEF IInv, TypeOK, backendVars, tableVars, outVars
<1>6. QED
  BY <1>1, <1>5
     DEF IInv, HasSocket, QuietUntilDone, Answered, MailIsTrue, backendVars, outVars

LEMMA ReceiveSteps ==
  ASSUME NEW t \in Task, NEW e \in Event, IInv, Receive(t, e)
  PROVE  IInv'
<1>1. Arrives(t) /\ Pending(t, New(t, e)) /\ MessagesOK
  BY Arriving DEF Receive, Malformed, WrongType, CallApi, NoApi, IInv, MessagesOK, TypeOK
<1>2. CASE Malformed(t, e)
  <2>1. MessagesOK'
    BY <1>1, <1>2, HandleErrorKeeps DEF Malformed, Code, IInv
  <2>2. QED
    BY <1>2, <2>1, MessagesSuffice
       DEF Malformed, IInv, TypeOK, MailIsTrue, sessionVars, backendVars, tableVars
<1>3. CASE WrongType(t, e)
  <2>1. MessagesOK'
    BY <1>1, <1>3, HandleErrorKeeps DEF WrongType, Code, IInv
  <2>2. net' \in [1 .. MaxSock -> {"unused", "open", "closing", "closed"}]
    BY <1>3 DEF WrongType, IInv, TypeOK
  <2>3. QED
    BY <1>3, <2>1, <2>2, MessagesSuffice
       DEF WrongType, IInv, TypeOK, MailIsTrue, backendVars, tableVars
<1>4. CASE CallApi(t, e)
  <2>1. task' \in [Task -> Message] /\ HasSocket'
    BY <1>1, <1>4 DEF CallApi, Pending, MessagesOK, Message, HasSocket, Waiting
  <2>2. QuietUntilDone'
    BY <1>1, <1>4 DEF CallApi, Pending, MessagesOK, QuietUntilDone, Answered, outVars
  <2>3. MessagesOK'
    BY <1>1, <1>4, <2>1, <2>2 DEF CallApi, MessagesOK, outVars
  <2>4. QED
    BY <1>4, <2>3, MessagesSuffice
       DEF CallApi, IInv, TypeOK, MailIsTrue, sessionVars, tableVars
<1>5. CASE NoApi(t, e)
  <2>1. MessagesOK'
    BY <1>1, <1>5, GetReceiversKeeps DEF NoApi, IInv
  <2>2. QED
    BY <1>5, <2>1, MessagesSuffice
       DEF NoApi, IInv, TypeOK, MailIsTrue, sessionVars, backendVars, tableVars
<1>6. QED
  BY <1>2, <1>3, <1>4, <1>5 DEF Receive

LEMMA ApiSteps ==
  ASSUME NEW t \in Task, IInv, BackendApplies(t) \/ ApiAnswers(t)
  PROVE  IInv'
<1>1. Pending(t, task[t]) /\ MessagesOK
  BY Going DEF BackendApplies, ApiAnswers, ApiSucceeds, ApiRefuses, ApiFails,
               ApiMisanswers, IInv, MessagesOK, TypeOK, Waiting
<1>2. CASE BackendApplies(t)
  <2>1. QED
    BY <1>2 DEF BackendApplies, IInv, TypeOK, HasSocket, QuietUntilDone, Answered,
                MailIsTrue, sessionVars, tableVars, outVars
<1>3. CASE ApiSucceeds(t)
  <2>1. MessagesOK'
    BY <1>1, <1>3, GetReceiversKeeps DEF ApiSucceeds, IInv
  <2>2. notices' \subseteq Task /\ MailIsTrue'
    BY <1>3 DEF ApiSucceeds, IInv, TypeOK, MailIsTrue
  <2>3. QED
    BY <1>3, <2>1, <2>2, MessagesSuffice
       DEF ApiSucceeds, IInv, TypeOK, sessionVars, tableVars
<1>4. CASE ApiRefuses(t) \/ ApiFails(t) \/ ApiMisanswers(t)
  <2>1. MessagesOK'
    BY <1>1, <1>4, GetReceiversKeeps, HandleErrorKeeps
       DEF ApiRefuses, ApiFails, ApiMisanswers, Code, IInv
  <2>2. QED
    BY <1>4, <2>1, MessagesSuffice
       DEF ApiRefuses, ApiFails, ApiMisanswers, IInv, TypeOK, MailIsTrue, sessionVars,
           backendVars, tableVars
<1>5. QED
  BY <1>2, <1>3, <1>4 DEF ApiAnswers

LEMMA QuerySteps ==
  ASSUME NEW t \in Task, IInv, QueryReads(t) \/ QueryEnds(t)
  PROVE  IInv'
<1>1. Pending(t, task[t]) /\ MessagesOK
  BY Going DEF QueryReads, QueryEnds, QueryReturns, QueryFails, IInv, MessagesOK, TypeOK,
               Waiting
<1>2. CASE QueryReads(t)
  <2>1. task' \in [Task -> Message] /\ HasSocket'
    BY <1>1, <1>2 DEF QueryReads, Pending, MessagesOK, Message, HasSocket, Waiting, IInv,
                      TypeOK
  <2>2. QuietUntilDone'
    BY <1>1, <1>2 DEF QueryReads, Pending, MessagesOK, QuietUntilDone, Answered, outVars
  <2>3. MessagesOK'
    BY <1>1, <1>2, <2>1, <2>2 DEF QueryReads, MessagesOK, outVars
  <2>4. QED
    BY <1>2, <2>3, MessagesSuffice
       DEF QueryReads, IInv, TypeOK, MailIsTrue, sessionVars, backendVars, tableVars
<1>3. CASE QueryReturns(t)
  <2>1. MessagesOK'
    BY <1>1, <1>3, VerdictKeeps DEF QueryReturns, IInv
  <2>2. cache' \in [Handler -> [filled : BOOLEAN, events : SUBSET Row, lastUpdate : Nat]]
    BY <1>3 DEF QueryReturns, IInv, TypeOK, Message
  <2>3. QED
    BY <1>3, <2>1, <2>2, MessagesSuffice
       DEF QueryReturns, IInv, TypeOK, MailIsTrue, sessionVars, backendVars, tableVars
<1>4. CASE QueryFails(t)
  <2>1. MessagesOK'
    BY <1>1, <1>4, HandleErrorKeeps DEF QueryFails, Code, IInv
  <2>2. QED
    BY <1>4, <2>1, MessagesSuffice
       DEF QueryFails, IInv, TypeOK, MailIsTrue, sessionVars, backendVars, tableVars
<1>5. QED
  BY <1>2, <1>3, <1>4 DEF QueryEnds

LEMMA OtherSteps ==
  ASSUME IInv,
         \/ \E t \in Task : SendNotice(t) \/ DropNotice(t)
         \/ \E r \in Row : EditTable(r)
         \/ Tick
  PROVE  IInv'
<1>1. UNCHANGED <<sessionVars, task, outVars, applied, cache>>
  BY DEF SendNotice, DropNotice, EditTable, Tick, backendVars
<1>2. HasSocket' /\ QuietUntilDone'
  BY <1>1 DEF IInv, HasSocket, QuietUntilDone, Answered, outVars
<1>3. notices' \subseteq Task /\ mailed' \subseteq Task /\ MailIsTrue'
  BY <1>1 DEF SendNotice, DropNotice, EditTable, Tick, backendVars, IInv, TypeOK, MailIsTrue
<1>4. table' \subseteq Row /\ changed' \in [Row -> 0 .. MaxNow] /\ now' \in 0 .. MaxNow
  BY PipelineAssumption
     DEF SendNotice, DropNotice, EditTable, Tick, tableVars, IInv, TypeOK
<1>5. TypeOK'
  BY <1>1, <1>3, <1>4 DEF IInv, TypeOK, sessionVars, outVars
<1>6. QED
  BY <1>2, <1>3, <1>5 DEF IInv

LEMMA NextIInv == IInv /\ [Next]_vars => IInv'
<1> SUFFICES ASSUME IInv, [Next]_vars PROVE IInv'
  OBVIOUS
<1>1. CASE Next
  BY <1>1, SessionSteps, ReceiveSteps, ApiSteps, QuerySteps, OtherSteps DEF Next
<1>2. CASE UNCHANGED vars
  BY <1>2 DEF vars, IInv, TypeOK, HasSocket, QuietUntilDone, Answered, MailIsTrue
<1>3. QED
  BY <1>1, <1>2

-----------------------------------------------------------------------------
(* The theorems.                                                           *)

\* The inductive invariant holds in every state of every behaviour.
THEOREM Inductive == Spec => []IInv
<1>1. QED
  BY InitIInv, NextIInv, PTL DEF Spec

\* Every variable always has its type; above all an error is only ever addressed
\* to a socket that a message came from.
THEOREM TypeCorrect == Spec => []TypeOK
<1>1. IInv => TypeOK
  BY DEF IInv
<1>2. QED
  BY <1>1, Inductive, PTL

\* Mail is only sent for what the tenant's backend has done.
THEOREM MailTrue == Spec => []MailIsTrue
<1>1. IInv => MailIsTrue
  BY DEF IInv
<1>2. QED
  BY <1>1, Inductive, PTL

\* A message whose handler throws fails as a whole.
THEOREM ErrorFinal == Spec => []ErrorIsFinal
<1>1. IInv => ErrorIsFinal
  BY DEF IInv, QuietUntilDone, ErrorIsFinal
<1>2. QED
  BY <1>1, Inductive, PTL

-----------------------------------------------------------------------------
(* The age of a verdict.                                                   *)

\* These rows are the event table as it was at time t or later: whatever is
\* different by now was changed since.
Since(rows, t) == \A r \in Row : ~(r \in rows <=> r \in table) => changed[r] >= t

\* A filled cache holds the table of lastUpdate or later.
CacheIsDated ==
  \A h \in Handler : cache[h].filled =>
    cache[h].lastUpdate <= now /\ Since(cache[h].events, cache[h].lastUpdate)

\* So does a query's result, of the time at which it was asked for.
QueryIsDated ==
  \A t \in Task :
    /\ task[t].step \in {"query", "reading"} => task[t].asked <= now
    /\ task[t].step = "reading" => Since(task[t].read, task[t].asked)

FInv == IInv /\ CacheIsDated /\ QueryIsDated

\* The step of a message m of task t that ends it, or lets it ask the database.
Carries(t, m) ==
  /\ \A u \in Task : u # t => task'[u] = task[u]
  /\ task'[t].event = m.event /\ task'[t].asked = m.asked
  /\ task'[t].step \in {"done", "failed", "forbidden", "query"}

\* It was let through or refused according to these rows.
Judges(t, m, rows) ==
  /\ Carries(t, m) /\ task'[t].step # "query"
  /\ task'[t].step = "done" => Allowed(m.event, rows)
  /\ task'[t].step = "forbidden" => ~Allowed(m.event, rows)

LEMMA HandleErrorCarries ==
  ASSUME NEW t \in Task, NEW m \in Message, NEW code, task \in [Task -> Message],
         HandleError(t, m, code)
  PROVE  /\ Carries(t, m)
         /\ task'[t].step = IF code = "FORBIDDEN_EVENT" THEN "forbidden" ELSE "failed"
  BY DEF HandleError, Carries, Message

LEMMA DispatchCarries ==
  ASSUME NEW t \in Task, NEW m \in Message, task \in [Task -> Message], Dispatch(t, m)
  PROVE  Carries(t, m) /\ task'[t].step \in {"done", "failed"}
<1>1. CASE HandleError(t, m, "INTERNAL_ERROR")
  BY <1>1, HandleErrorCarries
<1>2. CASE task' = [task EXCEPT ![t] = [m EXCEPT !.step = "done", !.read = {}]]
  BY <1>2 DEF Carries, Message
<1>3. QED
  BY <1>1, <1>2 DEF Dispatch

LEMMA VerdictJudges ==
  ASSUME NEW t \in Task, NEW m \in Message, task \in [Task -> Message], NEW rows,
         Verdict(t, m, rows)
  PROVE  Judges(t, m, rows)
<1>1. CASE Allowed(m.event, rows)
  BY <1>1, DispatchCarries DEF Verdict, Judges
<1>2. CASE ~Allowed(m.event, rows)
  <2>1. HandleError(t, m, "FORBIDDEN_EVENT")
    BY <1>2 DEF Verdict
  <2>2. Carries(t, m) /\ task'[t].step = "forbidden"
    BY <2>1, HandleErrorCarries
  <2>3. QED
    BY <1>2, <2>2 DEF Judges
<1>3. QED
  BY <1>1, <1>2

\* What getReceivers() does with a message that it looks at now.
LEMMA GetReceiversCarries ==
  ASSUME NEW t \in Task, NEW m \in Message, task \in [Task -> Message], now \in Nat,
         GetReceivers(t, m)
  PROVE  /\ \A u \in Task : u # t => task'[u] = task[u]
         /\ task'[t].event = m.event /\ task'[t].asked = now
         /\ \/ task'[t].step = "query"
            \/ ~m.event.checked /\ task'[t].step \in {"done", "failed"}
            \/ /\ IsCached(m.event.handler)
               /\ Judges(t, [m EXCEPT !.asked = now], cache[m.event.handler].events)
<1> DEFINE asked == [m EXCEPT !.asked = now]
<1>1. asked \in Message /\ asked.event = m.event /\ asked.asked = now
  BY DEF Message
<1>2. CASE ~m.event.checked /\ Dispatch(t, asked)
  BY <1>1, <1>2, DispatchCarries DEF Carries
<1>3. CASE IsCached(m.event.handler) /\ Verdict(t, asked, cache[m.event.handler].events)
  <2>1. Judges(t, asked, cache[m.event.handler].events)
    BY <1>1, <1>3, VerdictJudges
  <2>2. QED
    BY <1>1, <1>3, <2>1 DEF Judges, Carries
<1>4. CASE task' = [task EXCEPT ![t] = [asked EXCEPT !.step = "query"]]
  BY <1>4 DEF Message
<1>5. QED
  BY <1>2, <1>3, <1>4 DEF GetReceivers

\* Two sets of rows that disagree on a sender's rights differ in a row of the event.
LEMMA RightsDiffer ==
  ASSUME NEW event, NEW A \in SUBSET Row, NEW B \in SUBSET Row,
         ~(Allowed(event, A) <=> Allowed(event, B))
  PROVE  \E r \in Row : r.label = event.label /\ ~(r \in A <=> r \in B)
<1>1. CASE type = "device"
  BY <1>1 DEF Allowed, DeviceFilter
<1>2. CASE type # "device"
  BY <1>2 DEF Allowed, BrowserFilter
<1>3. QED
  BY <1>1, <1>2

-----------------------------------------------------------------------------

\* Neither the table nor the clock moves, and at most one message is carried on.
LEMMA CarryingKeepsDates ==
  ASSUME FInv, IInv', NEW t \in Task, UNCHANGED <<table, changed, now>>,
         \A u \in Task : u # t => task'[u] = task[u],
         task'[t].step # "reading", task'[t].step = "query" => task'[t].asked <= now
  PROVE  QueryIsDated'
  BY DEF FInv, QueryIsDated, Since

LEMMA NextFInv == FInv /\ [Next]_vars => FInv'
<1> SUFFICES ASSUME FInv, [Next]_vars PROVE FInv'
  OBVIOUS
<1>1. IInv'
  BY NextIInv DEF FInv
<1>2. /\ now \in Nat /\ task \in [Task -> Message] /\ table \subseteq Row
      /\ changed \in [Row -> 0 .. MaxNow] /\ TypeOK
  BY PipelineAssumption DEF FInv, IInv, TypeOK
<1>3. ASSUME UNCHANGED <<task, cache, table, changed, now>> PROVE FInv'
  BY <1>1, <1>3 DEF FInv, CacheIsDated, QueryIsDated, Since
<1>4. ASSUME UNCHANGED <<cache, table, changed, now>> PROVE CacheIsDated'
  BY <1>4 DEF FInv, CacheIsDated, Since
<1>5. CASE \/ \E s \in 1 .. MaxSock : Connect(s) \/ Closed(s)
           \/ StartClose \/ Removed
  BY <1>3, <1>5 DEF Connect, Closed, StartClose, Removed, tableVars
<1>6. ASSUME NEW t \in Task, NEW e \in Event, Receive(t, e) PROVE FInv'
  <2>1. Arrives(t) /\ New(t, e) \in Message /\ UNCHANGED <<cache, table, changed, now>>
    <3>1. Arrives(t) /\ UNCHANGED <<cache, table, changed, now>>
      BY <1>6 DEF Receive, Malformed, WrongType, CallApi, NoApi, tableVars
    <3>2. QED
      BY <1>2, <3>1, Arriving DEF Pending
  <2>2. CASE CallApi(t, e)
    <3>1. /\ \A u \in Task : u # t => task'[u] = task[u]
          /\ task'[t].step = "api"
      BY <1>2, <2>1, <2>2 DEF CallApi, Message
    <3>2. QED
      BY <1>1, <1>4, <2>1, <3>1, CarryingKeepsDates DEF FInv
  <2>3. CASE NoApi(t, e)
    <3>1. GetReceivers(t, New(t, e))
      BY <2>3 DEF NoApi
    <3>2. /\ \A u \in Task : u # t => task'[u] = task[u]
          /\ task'[t].step # "reading" /\ task'[t].asked = now
      BY <1>2, <2>1, <3>1, GetReceiversCarries DEF Judges, Carries
    <3>3. QED
      BY <1>1, <1>2, <1>4, <2>1, <3>2, CarryingKeepsDates DEF FInv
  <2>4. CASE Malformed(t, e) \/ WrongType(t, e)
    <3>1. \E code \in Code : HandleError(t, New(t, e), code)
      BY <2>4 DEF Malformed, WrongType, Code
    <3>2. /\ \A u \in Task : u # t => task'[u] = task[u]
          /\ task'[t].step \in {"failed", "forbidden"}
      BY <1>2, <2>1, <3>1, HandleErrorCarries DEF Carries
    <3>3. QED
      BY <1>1, <1>4, <2>1, <3>2, CarryingKeepsDates DEF FInv
  <2>5. QED
    BY <1>6, <2>2, <2>3, <2>4 DEF Receive
<1>7. ASSUME NEW t \in Task, BackendApplies(t) \/ SendNotice(t) \/ DropNotice(t) PROVE FInv'
  BY <1>3, <1>7 DEF BackendApplies, SendNotice, DropNotice, tableVars
<1>8. ASSUME NEW t \in Task, ApiAnswers(t) PROVE FInv'
  <2>1. task[t] \in Message /\ UNCHANGED <<cache, table, changed, now>>
    BY <1>2, <1>8 DEF ApiAnswers, ApiSucceeds, ApiRefuses, ApiFails, ApiMisanswers, tableVars
  <2>2. GetReceivers(t, task[t]) \/ \E code \in Code : HandleError(t, task[t], code)
    BY <1>8 DEF ApiAnswers, ApiSucceeds, ApiRefuses, ApiFails, ApiMisanswers, Code
  <2>3. /\ \A u \in Task : u # t => task'[u] = task[u]
        /\ task'[t].step # "reading"
        /\ task'[t].step = "query" => task'[t].asked = now
    BY <1>2, <2>1, <2>2, GetReceiversCarries, HandleErrorCarries DEF Judges, Carries
  <2>4. QED
    BY <1>1, <1>2, <1>4, <2>1, <2>3, CarryingKeepsDates DEF FInv
<1>9. ASSUME NEW t \in Task, QueryReads(t) PROVE FInv'
  <2>1. UNCHANGED <<cache, table, changed, now>> /\ task[t].step = "query"
    BY <1>9 DEF QueryReads, tableVars
  <2>2. /\ \A u \in Task : u # t => task'[u] = task[u]
        /\ task'[t].step = "reading" /\ task'[t].read = table
        /\ task'[t].asked = task[t].asked
    BY <1>2, <1>9 DEF QueryReads, Message
  <2>3. QueryIsDated'
    BY <2>1, <2>2 DEF FInv, QueryIsDated, Since
  <2>4. QED
    BY <1>1, <1>4, <2>1, <2>3 DEF FInv
<1>10. ASSUME NEW t \in Task, QueryEnds(t) PROVE FInv'
  <2>1. UNCHANGED <<table, changed, now>> /\ task[t] \in Message
    BY <1>2, <1>10 DEF QueryEnds, QueryReturns, QueryFails, tableVars
  <2>2. Verdict(t, task[t], task[t].read) \/ HandleError(t, task[t], "INTERNAL_ERROR")
    BY <1>10 DEF QueryEnds, QueryReturns, QueryFails
  <2>3. /\ \A u \in Task : u # t => task'[u] = task[u]
        /\ task'[t].step \notin {"query", "reading"}
    BY <1>2, <2>1, <2>2, VerdictJudges, HandleErrorCarries DEF Judges, Carries
  <2>4. QueryIsDated'
    BY <1>1, <2>1, <2>3, CarryingKeepsDates
  <2>5. CASE QueryReturns(t)
    <3> DEFINE entry == [filled |-> TRUE, events |-> task[t].read, lastUpdate |-> task[t].asked]
    <3>1. \A h \in Handler : cache'[h] = cache[h] \/ cache'[h] = entry
      BY <1>2, <2>5 DEF QueryReturns, TypeOK
    <3>2. entry.lastUpdate <= now /\ Since(entry.events, entry.lastUpdate)
      BY <2>5 DEF QueryReturns, FInv, QueryIsDated
    <3> HIDE DEF entry
    <3>3. CacheIsDated'
      BY <2>1, <3>1, <3>2 DEF FInv, CacheIsDated, Since
    <3>4. QED
      BY <1>1, <2>4, <3>3 DEF FInv
  <2>6. CASE QueryFails(t)
    BY <1>1, <1>4, <2>1, <2>4, <2>6 DEF QueryFails, FInv
  <2>7. QED
    BY <1>10, <2>5, <2>6 DEF QueryEnds
<1>11. ASSUME NEW r \in Row, EditTable(r) PROVE FInv'
  <2>1. UNCHANGED <<task, cache, now>>
    BY <1>11 DEF EditTable
  <2>2. /\ changed' = [changed EXCEPT ![r] = now]
        /\ \A q \in Row : q # r => (q \in table' <=> q \in table)
    BY <1>11 DEF EditTable
  <2>3. ASSUME NEW rows, NEW d \in Nat, d <= now, Since(rows, d) PROVE Since(rows, d)'
    <3>1. changed'[r] = now /\ \A q \in Row : q # r => changed'[q] = changed[q]
      BY <1>2, <2>2
    <3>2. QED
      BY <1>2, <2>2, <2>3, <3>1 DEF Since
  <2>4. \A t \in Task : task[t].asked \in Nat
    BY <1>2 DEF Message
  <2>5. \A h \in Handler : cache[h].lastUpdate \in Nat
    BY <1>2 DEF TypeOK
  <2>6. CacheIsDated'
    BY <2>1, <2>3, <2>5 DEF FInv, CacheIsDated
  <2>7. QueryIsDated'
    BY <2>1, <2>3, <2>4 DEF FInv, QueryIsDated
  <2>8. QED
    BY <1>1, <2>6, <2>7 DEF FInv
<1>12. CASE Tick
  <2>1. UNCHANGED <<task, cache, table, changed>> /\ now' = now + 1
    BY <1>12 DEF Tick
  <2>2. \A t \in Task : task[t].asked \in Nat
    BY <1>2 DEF Message
  <2>3. \A h \in Handler : cache[h].lastUpdate \in Nat
    BY <1>2 DEF TypeOK
  <2>4. CacheIsDated' /\ QueryIsDated'
    BY <1>2, <2>1, <2>2, <2>3 DEF FInv, CacheIsDated, QueryIsDated, Since
  <2>5. QED
    BY <1>1, <2>4 DEF FInv
<1>13. CASE UNCHANGED vars
  BY <1>3, <1>13 DEF vars
<1>14. QED
  BY <1>5, <1>6, <1>7, <1>8, <1>9, <1>10, <1>11, <1>12, <1>13 DEF Next

\* The event that is behind a verdict of step t which the table contradicts.
FreshTask(t) ==
  LET m == task'[t] IN
    Decided(t) /\ m.event.checked
      /\ (m.step = "done") # Allowed(m.event, table) =>
      \E r \in Row : /\ r.label = m.event.label
                     /\ changed[r] >= m.asked \/ changed[r] >= now - TTL

\* A verdict by rows of a known date is as fresh as these.
LEMMA JudgedIsFresh ==
  ASSUME FInv, NEW t \in Task, NEW m, NEW rows \in SUBSET Row, NEW d,
         Judges(t, m, rows), Since(rows, d),
         d = m.asked \/ (d \in Int /\ d >= now - TTL)
  PROVE  FreshTask(t)
<1> SUFFICES ASSUME Decided(t), task'[t].event.checked,
                    (task'[t].step = "done") # Allowed(task'[t].event, table)
             PROVE  \E r \in Row : /\ r.label = task'[t].event.label
                                   /\ changed[r] >= task'[t].asked \/ changed[r] >= now - TTL
  BY DEF FreshTask
<1>1. task'[t].event = m.event /\ task'[t].asked = m.asked
  BY DEF Judges, Carries
<1>2. task'[t].step \in {"done", "forbidden"}
  BY DEF Decided
<1>3. ~(Allowed(m.event, rows) <=> Allowed(m.event, table))
  <2>1. Allowed(m.event, rows) \in BOOLEAN /\ Allowed(m.event, table) \in BOOLEAN
    BY DEF Allowed
  <2>2. QED
    BY <1>1, <1>2, <2>1 DEF Judges
<1>4. PICK r \in Row : r.label = m.event.label /\ ~(r \in rows <=> r \in table)
  BY <1>3, RightsDiffer DEF FInv, IInv, TypeOK
<1>5. changed[r] >= d
  BY <1>4 DEF Since
<1>6. changed[r] \in Int /\ now \in Int /\ TTL \in Int
  BY PipelineAssumption DEF FInv, IInv, TypeOK
<1>7. changed[r] >= m.asked \/ changed[r] >= now - TTL
  BY <1>5, <1>6
<1>8. QED
  BY <1>1, <1>4, <1>7

LEMMA NextFresh ==
  ASSUME FInv, [Next]_vars, NEW t \in Task
  PROVE  FreshTask(t)
<1>1. /\ now \in Nat /\ task \in [Task -> Message] /\ TypeOK
  BY PipelineAssumption DEF FInv, IInv, TypeOK
<1>2. ASSUME ~Decided(t) PROVE FreshTask(t)
  BY <1>2 DEF FreshTask
<1>3. ASSUME task'[t] = task[t] \/ task'[t].step \notin {"done", "forbidden"}
      PROVE  FreshTask(t)
  BY <1>2, <1>3 DEF Decided
<1>4. ASSUME NEW m \in Message, m.event \in Event, GetReceivers(t, m) PROVE FreshTask(t)
  <2> DEFINE h == m.event.handler
  <2>1. CASE task'[t].step = "query"
    BY <1>3, <2>1
  <2>2. CASE ~task'[t].event.checked
    BY <2>2 DEF FreshTask
  <2>3. CASE IsCached(h) /\ Judges(t, [m EXCEPT !.asked = now], cache[h].events)
    <3>1. h \in Handler
      BY <1>4 DEF Handler
    <3>2. /\ cache[h].events \in SUBSET Row /\ cache[h].lastUpdate \in Nat
      BY <1>1, <3>1 DEF TypeOK
    <3>3. Since(cache[h].events, cache[h].lastUpdate) /\ now - cache[h].lastUpdate <= TTL
      BY <2>3, <3>1 DEF IsCached, FInv, CacheIsDated
    <3>4. cache[h].lastUpdate \in Int /\ cache[h].lastUpdate >= now - TTL
      BY <1>1, <3>2, <3>3, PipelineAssumption
    <3>5. QED
      BY <2>3, <3>2, <3>3, <3>4, JudgedIsFresh
  <2>4. QED
    BY <1>1, <1>4, <2>1, <2>2, <2>3, GetReceiversCarries
<1>5. ASSUME NEW m \in Message, NEW code, code # "FORBIDDEN_EVENT", HandleError(t, m, code)
      PROVE  FreshTask(t)
  BY <1>1, <1>3, <1>5, HandleErrorCarries
<1>6. ASSUME NEW u \in Task, u # t,
             \/ \E e \in Event : Receive(u, e)
             \/ BackendApplies(u) \/ ApiAnswers(u) \/ QueryReads(u) \/ QueryEnds(u)
             \/ SendNotice(u) \/ DropNotice(u)
      PROVE  FreshTask(t)
  <2>1. task'[t] = task[t]
    <3>1. task[u] \in Message /\ \A e \in Event : Arrives(u) => New(u, e) \in Message
      BY <1>1, Arriving DEF Pending
    <3>2. CASE BackendApplies(u) \/ SendNotice(u) \/ DropNotice(u)
      BY <3>2 DEF BackendApplies, SendNotice, DropNotice
    <3>3. CASE QueryReads(u)
      BY <1>6, <3>3, <1>1 DEF QueryReads
    <3>4. CASE ApiAnswers(u) \/ QueryEnds(u)
      <4>1. \/ GetReceivers(u, task[u]) \/ Verdict(u, task[u], task[u].read)
            \/ \E code : HandleError(u, task[u], code)
        BY <3>4 DEF ApiAnswers, ApiSucceeds, ApiRefuses, ApiFails, ApiMisanswers,
                    QueryEnds, QueryReturns, QueryFails
      <4>2. QED
        BY <1>1, <1>6, <3>1, <4>1, GetReceiversCarries, VerdictJudges, HandleErrorCarries
           DEF Judges, Carries
    <3>5. ASSUME NEW e \in Event, Receive(u, e) PROVE task'[t] = task[t]
      <4>1. Arrives(u)
        BY <3>5 DEF Receive, Malformed, WrongType, CallApi, NoApi
      <4>2. \/ GetReceivers(u, New(u, e))
            \/ \E code : HandleError(u, New(u, e), code)
            \/ task' = [task EXCEPT ![u] = [New(u, e) EXCEPT !.step = "api"]]
        BY <3>5 DEF Receive, Malformed, WrongType, CallApi, NoApi
      <4>3. QED
        BY <1>1, <1>6, <3>1, <4>1, <4>2, GetReceiversCarries, HandleErrorCarries DEF Carries
    <3>6. QED
      BY <1>6, <3>2, <3>3, <3>4, <3>5
  <2>2. QED
    BY <1>3, <2>1
<1>7. ASSUME NEW e \in Event, Receive(t, e) PROVE FreshTask(t)
  <2>1. Arrives(t) /\ New(t, e) \in Message /\ New(t, e).event = e
    <3>1. Arrives(t)
      BY <1>7 DEF Receive, Malformed, WrongType, CallApi, NoApi
    <3>2. QED
      BY <1>1, <3>1, Arriving DEF Pending, New, Message
  <2>2. CASE NoApi(t, e)
    BY <1>4, <2>1, <2>2 DEF NoApi
  <2>3. CASE CallApi(t, e)
    BY <1>1, <1>3, <2>1, <2>3 DEF CallApi, Message
  <2>4. CASE Malformed(t, e) \/ WrongType(t, e)
    BY <1>5, <2>1, <2>4 DEF Malformed, WrongType
  <2>5. QED
    BY <1>7, <2>2, <2>3, <2>4 DEF Receive
<1>8. CASE ApiAnswers(t)
  <2>1. task[t] \in Message /\ task[t].event \in Event
    BY <1>1 DEF Message
  <2>2. \/ GetReceivers(t, task[t])
        \/ \E code : code # "FORBIDDEN_EVENT" /\ HandleError(t, task[t], code)
    BY <1>8 DEF ApiAnswers, ApiSucceeds, ApiRefuses, ApiFails, ApiMisanswers
  <2>3. QED
    BY <1>4, <1>5, <2>1, <2>2
<1>9. CASE QueryReads(t)
  BY <1>1, <1>3, <1>9 DEF QueryReads, Message
<1>10. CASE QueryReturns(t)
  <2>1. task[t] \in Message /\ task[t].read \in SUBSET Row /\ task[t].step = "reading"
    BY <1>1, <1>10 DEF Message, QueryReturns
  <2>2. Judges(t, task[t], task[t].read)
    BY <1>1, <1>10, <2>1, VerdictJudges DEF QueryReturns
  <2>3. Since(task[t].read, task[t].asked)
    BY <2>1 DEF FInv, QueryIsDated
  <2>4. QED
    BY <2>1, <2>2, <2>3, JudgedIsFresh
<1>11. CASE QueryFails(t)
  BY <1>1, <1>5, <1>11 DEF QueryFails
<1>12. ASSUME task' = task PROVE FreshTask(t)
  BY <1>3, <1>12
<1>13. CASE BackendApplies(t) \/ SendNotice(t) \/ DropNotice(t)
  BY <1>12, <1>13 DEF BackendApplies, SendNotice, DropNotice
<1>14. CASE \/ \E s \in 1 .. MaxSock : Connect(s) \/ Closed(s)
            \/ StartClose \/ Removed
            \/ \E r \in Row : EditTable(r)
            \/ Tick
  BY <1>12, <1>14 DEF Connect, Closed, StartClose, Removed, EditTable, Tick
<1>15. CASE UNCHANGED vars
  BY <1>12, <1>15 DEF vars
<1>16. QED
  BY <1>6, <1>7, <1>8, <1>9, <1>10, <1>11, <1>13, <1>14, <1>15 DEF Next, QueryEnds

\* A verdict is right by the event table as it is, or as it was a TTL ago or when
\* the message asked: for any number of overlapping queries and edits.
THEOREM VerdictsAreFresh == Spec => FreshVerdict
<1>1. Init => FInv
  BY InitIInv DEF FInv, Init, CacheIsDated, QueryIsDated
<1>2. FInv /\ [Next]_vars => FInv'
  BY NextFInv
<1>3. FInv /\ [Next]_vars =>
        [\A t \in Task : LET m == task'[t] IN
           Decided(t) /\ m.event.checked
             /\ (m.step = "done") # Allowed(m.event, table) =>
             \E r \in Row : /\ r.label = m.event.label
                            /\ changed[r] >= m.asked \/ changed[r] >= now - TTL]_vars
  BY NextFresh DEF FreshTask
<1>4. QED
  BY <1>1, <1>2, <1>3, PTL DEF Spec, FreshVerdict

-----------------------------------------------------------------------------
(* What becomes of a message.                                              *)

\* Only the session's socket is open, and a message came from a socket that has
\* been opened.
NetOK ==
  /\ \A c \in 1 .. MaxSock : net[c] = "open" => c = sock
  /\ sock # 0 => net[sock] # "unused"
  /\ \A t \in Task : task[t].step # "unused" => net[task[t].sock] # "unused"

Finished(t) == task[t].step \in {"done", "failed", "forbidden"}

\* The message was passed on or answered, or its socket is not open.
Accounted(t) == t \in passed \/ Answered(t, Code) \/ ~IsOpen(task[t].sock)

SInv == IInv /\ NetOK /\ \A t \in Task : Finished(t) => Accounted(t)

\* A step that carries on with message m of task t, ends it or asks the database.
Outcome(t, m) ==
  /\ \A u \in Task \ {t} : task'[u] = task[u]
  /\ task'[t].sock = m.sock
  /\ answers \subseteq answers' /\ passed \subseteq passed'
  /\ \/ task'[t].step = "query"
     \/ /\ task'[t].step \in {"done", "failed", "forbidden"}
        /\ t \in passed' \/ Answered(t, Code)' \/ net[m.sock] # "open"

\* An error is an answer, if there is a socket to send it to.
LEMMA HandleErrorAccounts ==
  ASSUME NEW t \in Task, NEW m \in Message, NEW code \in Code, task \in [Task -> Message],
         HandleError(t, m, code)
  PROVE  Outcome(t, m) /\ Finished(t)'
<1>1. /\ task' = [task EXCEPT ![t] = [m EXCEPT !.step =
                    IF code = "FORBIDDEN_EVENT" THEN "forbidden" ELSE "failed", !.read = {}]]
      /\ answers' = IF net[m.sock] # "open" THEN answers
                    ELSE answers \cup {[task |-> t, sock |-> m.sock, code |-> code]}
      /\ passed' = passed
  BY DEF HandleError
<1>2. /\ task'[t].step \in {"done", "failed", "forbidden"} /\ task'[t].sock = m.sock
      /\ \A u \in Task \ {t} : task'[u] = task[u]
  BY <1>1 DEF Message
<1>3. net[m.sock] = "open" => Answered(t, Code)'
  <2> DEFINE a == [task |-> t, sock |-> m.sock, code |-> code]
  <2>1. a.task = t /\ a.code \in Code  OBVIOUS
  <2>2. net[m.sock] = "open" => a \in answers'  BY <1>1
  <2> HIDE DEF a
  <2>3. QED
    BY <2>1, <2>2 DEF Answered
<1>4. QED
  BY <1>1, <1>2, <1>3 DEF Outcome, Finished

\* What is dispatched reaches a receiver or the socket that the session has by now;
\* if that is not the one the message came from, the latter is closed.
LEMMA DispatchAccounts ==
  ASSUME NEW t \in Task, NEW m \in Message, m.sock # 0, IInv, NetOK, Dispatch(t, m)
  PROVE  Outcome(t, m) /\ Finished(t)'
<1>1. task \in [Task -> Message]  BY DEF IInv, TypeOK
<1>2. CASE m.event.receiver = "self" /\ SocketOf(m) = 0
  BY <1>1, <1>2, HandleErrorAccounts DEF Dispatch, Code
<1>3. CASE ~(m.event.receiver = "self" /\ SocketOf(m) = 0)
  <2>1. /\ task' = [task EXCEPT ![t] = [m EXCEPT !.step = "done", !.read = {}]]
        /\ m.event.receiver = "self" => Reply(t, SocketOf(m))
        /\ Reply(t, SocketOf(m)) \/ answers' = answers
        /\ passed' = IF m.event.receiver = "peers" \/ m.event.after = "browsers"
                     THEN passed \cup {t} ELSE passed
    BY <1>3 DEF Dispatch
  <2>2. /\ task'[t].step = "done" /\ task'[t].sock = m.sock
        /\ \A u \in Task \ {t} : task'[u] = task[u]
    BY <1>1, <2>1 DEF Message
  <2>3. answers \subseteq answers' /\ passed \subseteq passed'  BY <2>1 DEF Reply
  <2>4. m.event.receiver \in {"self", "peers"}  BY PipelineAssumption DEF Message
  <2>5. CASE m.event.receiver = "peers"  BY <2>1, <2>2, <2>3, <2>5 DEF Outcome, Finished
  <2>6. CASE m.event.receiver = "self"
    <3>1. SocketOf(m) = sock /\ sock # 0  BY <1>3, <2>6 DEF SocketOf
    <3>2. m.sock \in 1 .. MaxSock  BY PipelineAssumption DEF Message
    <3>3. net[m.sock] = "open" => Answered(t, Code)'
      <4>1. SUFFICES ASSUME net[m.sock] = "open" PROVE Answered(t, Code)'
        OBVIOUS
      <4>2. IsOpen(SocketOf(m))  BY <3>1, <3>2, <4>1 DEF NetOK, IsOpen
      <4> DEFINE a == [task |-> t, sock |-> SocketOf(m), code |-> "reply"]
      <4>3. a.task = t /\ a.code \in Code  BY DEF Code
      <4>4. a \in answers'  BY <2>1, <2>6, <4>2 DEF Reply
      <4> HIDE DEF a
      <4>5. QED
        BY <4>3, <4>4 DEF Answered
    <3>4. QED
      BY <2>2, <2>3, <3>3 DEF Outcome, Finished
  <2>7. QED
    BY <2>4, <2>5, <2>6
<1>4. QED
  BY <1>2, <1>3

LEMMA VerdictAccounts ==
  ASSUME NEW t \in Task, NEW m \in Message, m.sock # 0, IInv, NetOK, NEW events,
         Verdict(t, m, events)
  PROVE  Outcome(t, m) /\ Finished(t)'
<1>1. task \in [Task -> Message]  BY DEF IInv, TypeOK
<1>2. QED
  BY <1>1, DispatchAccounts, HandleErrorAccounts DEF Verdict, Code

LEMMA GetReceiversAccounts ==
  ASSUME NEW t \in Task, NEW m \in Message, m.sock # 0, IInv, NetOK, GetReceivers(t, m)
  PROVE  Outcome(t, m) /\ (Finished(t)' \/ task'[t].step = "query")
<1> DEFINE asked == [m EXCEPT !.asked = now]
<1>1. task \in [Task -> Message] /\ now \in Nat  BY PipelineAssumption DEF IInv, TypeOK
<1>2. asked \in Message /\ asked.sock = m.sock  BY <1>1 DEF Message
<1>3. Outcome(t, asked) => Outcome(t, m)  BY <1>2 DEF Outcome
<1>4. CASE Dispatch(t, asked)  BY <1>2, <1>3, <1>4, DispatchAccounts
<1>5. CASE Verdict(t, asked, cache[m.event.handler].events)
  BY <1>2, <1>3, <1>5, VerdictAccounts
<1>6. CASE /\ task' = [task EXCEPT ![t] = [asked EXCEPT !.step = "query"]]
           /\ UNCHANGED outVars
  <2>1. task'[t].step = "query" /\ task'[t].sock = m.sock  BY <1>1, <1>2, <1>6 DEF Message
  <2>2. \A u \in Task \ {t} : task'[u] = task[u]  BY <1>1, <1>6
  <2>3. QED
    BY <1>6, <2>1, <2>2 DEF Outcome, outVars
<1>7. QED
  BY <1>4, <1>5, <1>6 DEF GetReceivers

\* A socket that is not open any more stays so.
NetAges == \A c \in 1 .. MaxSock : net[c] \in {"closing", "closed"} => net'[c] # "open"

\* How message t moves on with a step.
Moves(t) ==
  \/ task'[t] = task[t]
  \/ task[t].step = "unused" /\ task'[t].step \in {"api", "query"}
  \/ task[t].step = "api" /\ task'[t].step = "query"
  \/ task[t].step = "query" /\ task'[t].step = "reading"
  \/ task[t].step \in {"unused"} \cup Waiting /\ Finished(t)' /\ Accounted(t)'

\* A step of one message, from a socket that has been opened.
LEMMA OutcomeMoves ==
  ASSUME SInv, NEW t \in Task, NEW m \in Message, m.sock # 0, net[m.sock] # "unused",
         Outcome(t, m), task[t].step \in {"unused", "api"} \/ Finished(t)',
         task[t].step \in {"unused"} \cup Waiting, NetAges,
         net' \in [1 .. MaxSock -> {"unused", "open", "closing", "closed"}]
  PROVE  /\ \A u \in Task : Moves(u)
         /\ \A u \in Task : task'[u].step # "unused" =>
              task'[u].sock # 0 /\ net[task'[u].sock] # "unused"
<1>1. m.sock \in 1 .. MaxSock /\ net[m.sock] \in {"open", "closing", "closed"}
  BY PipelineAssumption DEF SInv, IInv, TypeOK, Message
<1>2. task'[t].sock = m.sock /\ \A u \in Task \ {t} : task'[u] = task[u]  BY DEF Outcome
<1>3. net[m.sock] # "open" => net'[task'[t].sock] # "open"
  BY <1>1, <1>2 DEF NetAges
<1>4. Moves(t)
  <2>1. CASE task'[t].step = "query"  BY <2>1 DEF Moves, Finished
  <2>2. CASE task'[t].step # "query"
    BY <1>3, <2>2 DEF Outcome, Moves, Finished, Accounted, IsOpen
  <2>3. QED
    BY <2>1, <2>2
<1>5. \A u \in Task : Moves(u)  BY <1>2, <1>4 DEF Moves
<1>6. QED
  BY <1>1, <1>2, <1>5 DEF SInv, IInv, HasSocket, NetOK

\* A step that carries on with message m of task t and leaves the sockets alone.
LEMMA CarryingMoves ==
  ASSUME SInv, NEW t \in Task, NEW m \in Message, m.sock # 0, net[m.sock] # "unused",
         Outcome(t, m), task[t].step \in {"unused", "api"} \/ Finished(t)',
         task[t].step \in {"unused"} \cup Waiting, UNCHANGED <<sock, net>>
  PROVE  NetOK' /\ NetAges /\ \A u \in Task : Moves(u)
<1>1. net' \in [1 .. MaxSock -> {"unused", "open", "closing", "closed"}] /\ NetAges
  BY DEF SInv, IInv, TypeOK, NetAges
<1>2. /\ \A u \in Task : Moves(u)
      /\ \A u \in Task : task'[u].step # "unused" => net[task'[u].sock] # "unused"
  BY <1>1, OutcomeMoves
<1>3. NetOK'  BY <1>2 DEF SInv, NetOK
<1>4. QED
  BY <1>1, <1>2, <1>3

\* Steps that change no message.
LEMMA IdleMoves ==
  ASSUME SInv, UNCHANGED <<task, answers, passed>>,
         NetAges, \A c \in 1 .. MaxSock : net'[c] = "open" => c = sock',
         sock' # 0 => net'[sock'] # "unused",
         \A c \in 1 .. MaxSock : net[c] # "unused" => net'[c] # "unused"
  PROVE  NetOK' /\ NetAges /\ \A u \in Task : Moves(u)
<1>1. \A u \in Task : task[u].step # "unused" => task[u].sock \in 1 .. MaxSock
  BY PipelineAssumption DEF SInv, IInv, TypeOK, HasSocket, Message
<1>2. NetOK'  BY <1>1 DEF SInv, NetOK
<1>3. QED
  BY <1>2 DEF Moves

\* Every message moves on, and the sockets stay in order.
LEMMA NextMoves ==
  ASSUME SInv, [Next]_vars
  PROVE  NetOK' /\ NetAges /\ \A u \in Task : Moves(u)
<1>1. /\ task \in [Task -> Message] /\ IInv /\ NetOK
      /\ net \in [1 .. MaxSock -> {"unused", "open", "closing", "closed"}]
      /\ sock \in 0 .. MaxSock
  BY DEF SInv, IInv, TypeOK
<1>2. CASE UNCHANGED <<task, answers, passed, net, sock>>
  BY <1>1, <1>2, IdleMoves DEF NetOK, NetAges
<1>3. ASSUME NEW c \in 1 .. MaxSock, Connect(c) \/ Closed(c)
      PROVE  NetOK' /\ NetAges /\ \A u \in Task : Moves(u)
  <2>1. UNCHANGED <<task, answers, passed>>  BY <1>3 DEF Connect, Closed, outVars
  <2>2. c # 0  BY PipelineAssumption
  <2>3. CASE Connect(c)
    <3>1. /\ sock' = c /\ net[c] = "unused"
          /\ net' = [s2 \in 1 .. MaxSock |-> IF s2 = c THEN "open"
                       ELSE IF s2 = sock /\ net[s2] = "open" THEN "closing" ELSE net[s2]]
      BY <1>1, <2>3 DEF Connect
    <3>2. QED
      BY <1>1, <2>1, <3>1, IdleMoves DEF NetOK, NetAges
  <2>4. CASE Closed(c)
    <3>1. /\ net[c] = "closing" /\ net' = [net EXCEPT ![c] = "closed"]
          /\ sock' = IF c = sock THEN 0 ELSE sock
      BY <2>4 DEF Closed
    <3>2. /\ \A d \in 1 .. MaxSock : net'[d] = IF d = c THEN "closed" ELSE net[d]
          /\ sock # 0 => sock \in 1 .. MaxSock
      BY <1>1, <3>1, PipelineAssumption
    <3>3. QED
      BY <1>1, <2>1, <3>1, <3>2, IdleMoves DEF NetOK, NetAges
  <2>5. QED
    BY <1>3, <2>3, <2>4
<1>4. CASE StartClose
  <2>1. /\ sock \in 1 .. MaxSock /\ net[sock] = "open" /\ sock' = sock
        /\ net' = [net EXCEPT ![sock] = "closing"] /\ UNCHANGED <<task, answers, passed>>
    BY <1>1, <1>4, PipelineAssumption DEF StartClose, outVars
  <2>2. QED
    BY <1>1, <2>1, IdleMoves DEF NetOK, NetAges
<1>5. ASSUME NEW t \in Task, NEW e \in Event, Receive(t, e)
      PROVE  NetOK' /\ NetAges /\ \A u \in Task : Moves(u)
  <2> DEFINE m == New(t, e)
  <2>1. /\ m \in Message /\ m.sock = sock /\ sock # 0 /\ task[t].step = "unused"
        /\ net[sock] # "unused" /\ sock \in 1 .. MaxSock
    <3>1. Arrives(t)  BY <1>5 DEF Receive, Malformed, WrongType, CallApi, NoApi
    <3>2. m \in Message  BY <1>1, <3>1, Arriving DEF IInv, Pending
    <3>3. task[t] \in Message  BY <1>1
    <3>4. m.sock = sock  BY <3>3 DEF New, Message
    <3> HIDE DEF m
    <3>5. sock # 0 /\ task[t].step = "unused"  BY <3>1 DEF Arrives
    <3>6. sock \in 1 .. MaxSock  BY <1>1, <3>5, PipelineAssumption
    <3>7. net[sock] # "unused"  BY <1>1, <3>5 DEF NetOK
    <3>8. QED
      BY <3>2, <3>4, <3>5, <3>6, <3>7
  <2>2. CASE Malformed(t, e)
    <3>1. Outcome(t, m) /\ Finished(t)' /\ UNCHANGED <<sock, net>>
      BY <1>1, <2>1, <2>2, HandleErrorAccounts DEF Malformed, Code, sessionVars
    <3> HIDE DEF m
    <3>2. QED
      BY <2>1, <3>1, CarryingMoves
  <2>3. CASE WrongType(t, e)
    <3>1. Outcome(t, m) /\ Finished(t)'
      BY <1>1, <2>1, <2>3, HandleErrorAccounts DEF WrongType, Code
    <3>2. sock' = sock /\ net' = [net EXCEPT ![sock] = IF @ = "open" THEN "closing" ELSE @]
      BY <2>3 DEF WrongType
    <3>3. /\ net' \in [1 .. MaxSock -> {"unused", "open", "closing", "closed"}] /\ NetAges
          /\ \A c \in 1 .. MaxSock : /\ net'[c] = "open" => net[c] = "open"
                                     /\ net[c] # "unused" => net'[c] # "unused"
      BY <1>1, <3>2 DEF NetAges
    <3> HIDE DEF m
    <3>4. /\ \A u \in Task : Moves(u)
          /\ \A u \in Task : task'[u].step # "unused" =>
               task'[u].sock # 0 /\ net[task'[u].sock] # "unused"
      BY <2>1, <3>1, <3>3, OutcomeMoves
    <3>5. task' \in [Task -> Message]
      <4>1. IInv'  BY <1>5, <1>1, ReceiveSteps
      <4>2. QED
        BY <4>1 DEF IInv, TypeOK
    <3>6. \A u \in Task : task'[u].sock \in 0 .. MaxSock  BY <3>5 DEF Message
    <3>7. \A c \in 0 .. MaxSock : c # 0 => c \in 1 .. MaxSock  BY PipelineAssumption
    <3>8. NetOK'  BY <1>1, <2>1, <3>2, <3>3, <3>4, <3>6, <3>7 DEF NetOK
    <3>9. QED
      BY <3>3, <3>4, <3>8
  <2>4. CASE CallApi(t, e)
    <3>1. /\ task' = [task EXCEPT ![t] = [m EXCEPT !.step = "api"]]
          /\ UNCHANGED <<sock, net, answers, passed>>
      BY <2>4 DEF CallApi, sessionVars, outVars
    <3>2. /\ task'[t].step = "api" /\ task'[t].sock = sock
          /\ \A u \in Task \ {t} : task'[u] = task[u]
      BY <1>1, <2>1, <3>1 DEF Message
    <3>3. NetOK'  BY <1>1, <2>1, <3>1, <3>2 DEF NetOK
    <3>4. \A u \in Task : Moves(u)  BY <2>1, <3>2 DEF Moves
    <3>5. QED
      BY <3>1, <3>3, <3>4 DEF NetAges
  <2>5. CASE NoApi(t, e)
    <3>1. GetReceivers(t, m) /\ UNCHANGED <<sock, net>>  BY <2>5 DEF NoApi, sessionVars
    <3> HIDE DEF m
    <3>2. Outcome(t, m)  BY <1>1, <2>1, <3>1, GetReceiversAccounts
    <3>3. QED
      BY <2>1, <3>1, <3>2, CarryingMoves
  <2>6. QED
    BY <1>5, <2>2, <2>3, <2>4, <2>5 DEF Receive
<1>6. ASSUME NEW t \in Task, ApiAnswers(t) \/ QueryEnds(t)
      PROVE  NetOK' /\ NetAges /\ \A u \in Task : Moves(u)
  <2> DEFINE m == task[t]
  <2>1. /\ m \in Message /\ m.step \in Waiting
        /\ m.sock # 0 /\ net[m.sock] # "unused" /\ UNCHANGED <<sock, net>>
    <3>1. m.step \in Waiting /\ UNCHANGED <<sock, net>>
      BY <1>6 DEF ApiAnswers, ApiSucceeds, ApiRefuses, ApiFails, ApiMisanswers, QueryEnds,
                  QueryReturns, QueryFails, Waiting, sessionVars
    <3>2. QED
      BY <1>1, <3>1 DEF IInv, HasSocket, NetOK, Waiting
  <2>2. Outcome(t, m) /\ (Finished(t)' \/ m.step = "api")
    <3> USE <1>1, <2>1
    <3>1. CASE ApiAnswers(t)
      BY <3>1, GetReceiversAccounts, HandleErrorAccounts
         DEF ApiAnswers, ApiSucceeds, ApiRefuses, ApiFails, ApiMisanswers, Code
    <3>2. CASE QueryReturns(t)  BY <3>2, VerdictAccounts DEF QueryReturns
    <3>3. CASE QueryFails(t)  BY <3>3, HandleErrorAccounts DEF QueryFails, Code
    <3>4. QED
      BY <1>6, <3>1, <3>2, <3>3 DEF QueryEnds
  <2>3. QED
    BY <2>1, <2>2, CarryingMoves
<1>7. ASSUME NEW t \in Task, QueryReads(t)
      PROVE  NetOK' /\ NetAges /\ \A u \in Task : Moves(u)
  <2>1. /\ task[t].step = "query" /\ UNCHANGED <<sock, net, answers, passed>>
        /\ task' = [task EXCEPT ![t].step = "reading", ![t].read = table]
    BY <1>7 DEF QueryReads, sessionVars, outVars
  <2>2. /\ task'[t].step = "reading" /\ task'[t].sock = task[t].sock
        /\ \A u \in Task \ {t} : task'[u] = task[u]
    BY <1>1, <2>1 DEF Message
  <2>3. NetOK'  BY <1>1, <2>1, <2>2 DEF NetOK
  <2>4. QED
    BY <2>1, <2>2, <2>3 DEF Moves, NetAges
<1>8. QED
  BY <1>2, <1>3, <1>4, <1>5, <1>6, <1>7
  DEF Next, vars, Removed, BackendApplies, QueryEnds, SendNotice, DropNotice, EditTable, Tick,
      sessionVars, outVars

\* What is accounted for stays so.
LEMMA NextSInv == SInv /\ [Next]_vars => SInv'
<1> SUFFICES ASSUME SInv, [Next]_vars PROVE SInv'
  OBVIOUS
<1>1. NetOK' /\ NetAges /\ \A u \in Task : Moves(u)  BY NextMoves
<1>2. IInv'  BY NextIInv DEF SInv
<1>3. answers \subseteq answers' /\ passed \subseteq passed'
  <2>1. \A t, m, c : HandleError(t, m, c) => answers \subseteq answers' /\ passed \subseteq passed'
    BY DEF HandleError
  <2>2. \A t, m : Dispatch(t, m) => answers \subseteq answers' /\ passed \subseteq passed'
    BY <2>1 DEF Dispatch, Reply
  <2>3. \A t, m, r : Verdict(t, m, r) => answers \subseteq answers' /\ passed \subseteq passed'
    BY <2>1, <2>2 DEF Verdict
  <2>4. \A t, m : GetReceivers(t, m) => answers \subseteq answers' /\ passed \subseteq passed'
    BY <2>2, <2>3 DEF GetReceivers, outVars
  <2>5. QED
    BY <2>1, <2>3, <2>4
    DEF Next, vars, Connect, Closed, StartClose, Removed, Receive, Malformed, WrongType,
        CallApi, NoApi, BackendApplies, ApiAnswers, ApiSucceeds, ApiRefuses, ApiFails,
        ApiMisanswers, QueryReads, QueryEnds, QueryReturns, QueryFails, SendNotice,
        DropNotice, EditTable, Tick, outVars
<1>4. ASSUME NEW t \in Task, Finished(t)' PROVE Accounted(t)'
  <2>1. CASE task'[t] = task[t]
    <3>1. Finished(t) /\ Accounted(t)  BY <1>4, <2>1 DEF SInv, Finished
    <3>2. task[t].sock \in 1 .. MaxSock /\ net[task[t].sock] # "unused"
      <4>1. task[t].step # "unused"  BY <3>1 DEF Finished
      <4>2. task[t].sock # 0 /\ net[task[t].sock] # "unused"
        BY <4>1 DEF SInv, IInv, HasSocket, NetOK
      <4>3. task[t].sock \in 0 .. MaxSock  BY DEF SInv, IInv, TypeOK, Message
      <4>4. QED
        BY <4>2, <4>3, PipelineAssumption
    <3>3. net[task[t].sock] # "open" => net'[task[t].sock] # "open"
      BY <1>1, <3>2 DEF SInv, IInv, TypeOK, NetAges
    <3>4. QED
      BY <1>3, <2>1, <3>1, <3>2, <3>3 DEF Accounted, Answered, IsOpen
  <2>2. CASE task'[t] # task[t]
    BY <1>1, <1>4, <2>2 DEF Moves, Finished
  <2>3. QED
    BY <2>1, <2>2
<1>5. QED
  BY <1>1, <1>2, <1>4 DEF SInv

\* The sockets and the ends of messages are in order in every reachable state.
LEMMA Accounting == Spec => []SInv
<1>1. Init => SInv
  <2> SUFFICES ASSUME Init PROVE SInv
    OBVIOUS
  <2>2. \A t \in Task : task[t].step = "unused"  BY DEF Init
  <2>3. sock = 0 /\ \A c \in 1 .. MaxSock : net[c] = "unused"  BY DEF Init
  <2>4. NetOK /\ \A t \in Task : ~ Finished(t)
    BY <2>2, <2>3 DEF NetOK, Finished
  <2>5. QED
    BY <2>4, InitIInv DEF SInv
<1>2. QED
  BY <1>1, NextSInv, PTL DEF Spec

-----------------------------------------------------------------------------
(* Every message gets to its end.  Fairness is written out, as the prover   *)
(* has no rule for ENABLED: FairSpec implies it, since in each of the named  *)
(* steps the API or the database can fail, whatever else holds.              *)

\* A call of the API ends.
ApiEnds(t) == []<>(task[t].step # "api") \/ []<><<ApiAnswers(t)>>_vars

\* The database answers, or reports that it cannot.
DatabaseEnds(t) ==
  []<>(task[t].step \notin {"query", "reading"}) \/ []<><<QueryReads(t) \/ QueryEnds(t)>>_vars

\* What the answers of the API and of the database do to a message that waits.
LEMMA AnswersMove ==
  ASSUME SInv, SInv', NEW t \in Task
  PROVE  /\ ApiAnswers(t) /\ task[t].step = "api" => task'[t].step # "api"
         /\ QueryReads(t) /\ task[t].step = "query" => task'[t].step = "reading"
         /\ QueryEnds(t) => Finished(t)'
<1>1. /\ task \in [Task -> Message] /\ IInv /\ NetOK
  BY DEF SInv, IInv, TypeOK
<1>2. ASSUME ApiAnswers(t) PROVE Finished(t)' \/ task'[t].step = "query"
  <2>1. task[t] \in Message /\ task[t].sock # 0
    BY <1>1, <1>2
    DEF IInv, HasSocket, ApiAnswers, ApiSucceeds, ApiRefuses, ApiFails, ApiMisanswers
  <2>2. QED
    BY <1>1, <1>2, <2>1, GetReceiversAccounts, HandleErrorAccounts
    DEF ApiAnswers, ApiSucceeds, ApiRefuses, ApiFails, ApiMisanswers, Code
<1>3. QueryReads(t) => task'[t].step = "reading"  BY <1>1 DEF QueryReads, Message
<1>4. ASSUME QueryEnds(t) PROVE Finished(t)'
  <2>1. task[t] \in Message /\ task[t].sock # 0
    BY <1>1, <1>4 DEF IInv, HasSocket, QueryEnds, QueryReturns, QueryFails
  <2>2. QED
    BY <1>1, <1>4, <2>1, VerdictAccounts, HandleErrorAccounts
    DEF QueryEnds, QueryReturns, QueryFails, Code
<1>5. QED
  BY <1>2, <1>3, <1>4 DEF Finished

\* No message is swallowed: if the API and the database answer or fail, every message
\* is passed on or answered, or its socket goes.
THEOREM NoneIsSilent ==
  Spec /\ (\A t \in Task : ApiEnds(t) /\ DatabaseEnds(t)) => NoSilence
<1> DEFINE Heard(t) == \/ t \in passed
                       \/ Answered(t, Code)
                       \/ ~IsOpen(task[t].sock)
           At(t, s) == task[t].step = s
           Fair == \A t \in Task : ApiEnds(t) /\ DatabaseEnds(t)
<1>1. ASSUME NEW t \in Task
      PROVE  Spec /\ Fair => (task[t].step \in Waiting ~> Heard(t))
  <2>1. Fair => ApiEnds(t) /\ DatabaseEnds(t)  OBVIOUS
  <2>2. SInv /\ Finished(t) => Heard(t)  BY DEF SInv, Accounted
  <2>3. task[t].step \in Waiting => At(t, "api") \/ At(t, "query") \/ At(t, "reading")
    BY DEF Waiting
  <2>4. SInv /\ [Next]_vars => /\ At(t, "api") => (At(t, "api") \/ At(t, "query") \/ Finished(t))'
                               /\ At(t, "query") => (At(t, "query") \/ At(t, "reading") \/ Finished(t))'
                               /\ At(t, "reading") => (At(t, "reading") \/ Finished(t))'
    BY NextMoves DEF Moves, Finished
  <2>5. SInv /\ SInv' /\ <<ApiAnswers(t)>>_vars /\ At(t, "api") => ~ At(t, "api")'
    BY AnswersMove
  <2>6. SInv /\ SInv' /\ <<QueryReads(t) \/ QueryEnds(t)>>_vars =>
          /\ At(t, "query") => ~ At(t, "query")'
          /\ At(t, "reading") => Finished(t)'
    BY AnswersMove DEF Finished, QueryReads
  <2>7. /\ task[t].step # "api" <=> ~ At(t, "api")
        /\ task[t].step \notin {"query", "reading"} <=> ~ At(t, "query") /\ ~ At(t, "reading")
    OBVIOUS
  <2> HIDE DEF Heard, At, Fair
  <2>8. QED
    BY <2>1, <2>2, <2>3, <2>4, <2>5, <2>6, <2>7, Accounting, PTL DEF Spec, ApiEnds, DatabaseEnds
<1>2. QED
  BY <1>1 DEF NoSilence
=============================================================================
