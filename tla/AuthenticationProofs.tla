------------------------- MODULE AuthenticationProofs -------------------------
(***************************************************************************)
(* Theorems of modules ProviderCache and Authentication.                   *)
(***************************************************************************)
EXTENDS Authentication, TLAPS

-----------------------------------------------------------------------------
(* The cache.                                                              *)

\* A timer has its number for itself, and the next number is not in use.
TimersAreDistinct ==
  \A x \in timers : x.id < nextT /\ \A y \in timers : x.id = y.id => x = y

CInv == TypeOK /\ TimersAreDistinct /\ EntryIsTimed

LEMMA CInvInit == Init => CInv
BY CacheAssumption DEF Init, CInv, TypeOK, TimersAreDistinct, EntryIsTimed

\* The timer of one key's entry is not that of another's.
LEMMA TimerOfOne ==
  ASSUME CInv, NEW k \in Key, NEW j \in Key, j # k, NEW y \in timers, y.key = j
  PROVE  y \notin TimerOf(k)
<1> SUFFICES ASSUME y.id = cache[k] PROVE FALSE  BY DEF TimerOf
<1>1. cache[k] # 0  BY DEF CInv, TypeOK, Timer
<1>2. PICK z \in timers : z.id = cache[k] /\ z.key = k  BY <1>1 DEF CInv, EntryIsTimed
<1> QED  BY <1>2 DEF CInv, TimersAreDistinct

\* Starting a timer for k, with those of k's entry cleared or not.
LEMMA ScheduleKeepsCInv ==
  ASSUME CInv, NEW k \in Key, NEW cleared, cleared = TimerOf(k) \/ cleared = {},
         Schedule(k, cleared), cache' = [cache EXCEPT ![k] = nextT],
         calls' \subseteq calls, now' = now
  PROVE  CInv'
<1> DEFINE new == [id |-> nextT, key |-> k, due |-> now + TTL]
<1> USE CacheAssumption
<1>1. /\ nextT \in 1 .. MaxTimer /\ nextT' = nextT + 1
      /\ timers' = (timers \ cleared) \cup {new}
      /\ now \in Nat \ {0} /\ TTL \in Nat /\ now + TTL \in Nat
  BY DEF Schedule, CInv, TypeOK
<1>2. TypeOK'
  <2>1. new \in Timer  BY <1>1 DEF Timer
  <2>2. timers' \subseteq Timer  BY <1>1, <2>1 DEF CInv, TypeOK
  <2>3. cache' \in [Key -> 0 .. MaxTimer]  BY <1>1 DEF CInv, TypeOK
  <2> QED  BY <1>1, <2>2, <2>3 DEF CInv, TypeOK
<1>3. TimersAreDistinct'
  <2>1. \A x \in timers : x.id \in 1 .. MaxTimer /\ x.id < nextT
    BY DEF CInv, TypeOK, Timer, TimersAreDistinct
  <2>2. new.id = nextT  OBVIOUS
  <2>3. \A x \in timers, y \in timers : x.id = y.id => x = y
    BY DEF CInv, TimersAreDistinct
  <2>4. nextT \in Nat /\ nextT < nextT'  BY <1>1
  <2> HIDE DEF new
  <2>5. \A x \in timers' : x = new \/ x \in timers  BY <1>1
  <2>6. ASSUME NEW x \in timers' PROVE x.id < nextT'  BY <1>1, <2>1, <2>2, <2>4, <2>5
  <2>7. ASSUME NEW x \in timers', NEW y \in timers', x.id = y.id PROVE x = y
    <3>1. CASE x \in timers /\ y \in timers  BY <3>1, <2>3, <2>7
    <3>2. CASE x \in timers /\ y = new  BY <3>2, <2>1, <2>2, <2>4, <2>7
    <3>3. CASE x = new /\ y \in timers  BY <3>3, <2>1, <2>2, <2>4, <2>7
    <3> QED  BY <2>5, <3>1, <3>2, <3>3
  <2> QED  BY <2>6, <2>7 DEF TimersAreDistinct
<1>4. EntryIsTimed'
  <2> SUFFICES ASSUME NEW j \in Key, cache'[j] # 0
               PROVE  \E x \in timers' : x.id = cache'[j] /\ x.key = j /\ x.due <= now + TTL
    BY DEF EntryIsTimed
  <2>1. CASE j = k
    <3>1. new \in timers' /\ new.id = nextT /\ new.key = k /\ new.due = now + TTL
      BY <1>1
    <3>2. cache'[j] = nextT  BY <2>1 DEF CInv, TypeOK
    <3>3. new.due <= now + TTL  BY <1>1, <3>1
    <3> HIDE DEF new
    <3> QED  BY <2>1, <3>1, <3>2, <3>3
  <2>2. CASE j # k
    <3>1. cache'[j] = cache[j]  BY <2>2 DEF CInv, TypeOK
    <3>2. PICK x \in timers : x.id = cache[j] /\ x.key = j /\ x.due <= now + TTL
      BY <3>1 DEF CInv, EntryIsTimed
    <3>3. x \notin cleared  BY <2>2, <3>2, TimerOfOne
    <3> QED  BY <1>1, <3>1, <3>2, <3>3
  <2> QED  BY <2>1, <2>2
<1> QED  BY <1>2, <1>3, <1>4 DEF CInv

\* The steps of a call before its entry is made leave timers and entries alone.
LEMMA CallKeepsCInv ==
  ASSUME CInv, UNCHANGED <<cache, timers, nextT, now>>,
         calls' \subseteq [caller : Caller, key : Key, step : {"client", "config"}]
  PROVE  CInv'
BY DEF CInv, TypeOK, TimersAreDistinct, EntryIsTimed

LEMMA FireKeepsCInv ==
  ASSUME CInv, NEW x \in timers, Fire(x)
  PROVE  CInv'
<1>1. /\ x.key \in Key
      /\ cache' = [cache EXCEPT ![x.key] = 0]
      /\ timers' = timers \ ({x} \cup TimerOf(x.key))
      /\ UNCHANGED <<nextT, calls, now>>
  BY DEF CInv, TypeOK, Timer, Fire
<1>2. TypeOK'  BY <1>1, CacheAssumption DEF CInv, TypeOK
<1>3. TimersAreDistinct'  BY <1>1 DEF CInv, TimersAreDistinct
<1>4. EntryIsTimed'
  <2> SUFFICES ASSUME NEW j \in Key, cache'[j] # 0
               PROVE  \E y \in timers' : y.id = cache'[j] /\ y.key = j /\ y.due <= now + TTL
    BY <1>1 DEF EntryIsTimed
  <2>1. j # x.key /\ cache'[j] = cache[j]  BY <1>1 DEF CInv, TypeOK
  <2>2. PICK y \in timers : y.id = cache[j] /\ y.key = j /\ y.due <= now + TTL
    BY <2>1 DEF CInv, EntryIsTimed
  <2>3. y # x /\ y \notin TimerOf(x.key)  BY <1>1, <2>1, <2>2, TimerOfOne
  <2> QED  BY <1>1, <2>1, <2>2, <2>3
<1> QED  BY <1>2, <1>3, <1>4 DEF CInv

LEMMA TickKeepsCInv ==
  ASSUME CInv, Tick
  PROVE  CInv'
<1>1. now' = now + 1 /\ UNCHANGED <<cache, timers, nextT, calls>>  BY DEF Tick
<1>2. now \in Nat /\ TTL \in Nat /\ \A x \in timers : x.due \in Nat
  BY CacheAssumption DEF CInv, TypeOK, Timer
<1>3. TypeOK'  BY <1>1 DEF CInv, TypeOK
<1>4. TimersAreDistinct'  BY <1>1 DEF CInv, TimersAreDistinct
<1>5. EntryIsTimed'
  <2> SUFFICES ASSUME NEW j \in Key, cache[j] # 0
               PROVE  \E x \in timers : x.id = cache[j] /\ x.key = j /\ x.due <= now' + TTL
    BY <1>1 DEF EntryIsTimed
  <2>1. PICK x \in timers : x.id = cache[j] /\ x.key = j /\ x.due <= now + TTL
    BY DEF CInv, EntryIsTimed
  <2> QED  BY <1>1, <1>2, <2>1
<1> QED  BY <1>3, <1>4, <1>5 DEF CInv

LEMMA HitKeepsCInv ==
  ASSUME CInv, NEW k \in Key, Hit(k)
  PROVE  CInv'
BY ScheduleKeepsCInv DEF Hit

LEMMA MissKeepsCInv ==
  ASSUME CInv, NEW c \in Caller, NEW k \in Key, Miss(c, k)
  PROVE  CInv'
BY CallKeepsCInv DEF Miss, CInv, TypeOK

LEMMA FoundClientKeepsCInv ==
  ASSUME CInv, NEW x \in calls, FoundClient(x)
  PROVE  CInv'
<1>1. [x EXCEPT !.step = "config"] \in [caller : Caller, key : Key, step : {"client", "config"}]
  BY DEF CInv, TypeOK
<1> QED  BY <1>1, CallKeepsCInv DEF FoundClient, CInv, TypeOK

LEMMA CreatedKeepsCInv ==
  ASSUME CInv, NEW x \in calls, Created(x)
  PROVE  CInv'
<1>1. x.key \in Key  BY DEF CInv, TypeOK
<1> QED  BY <1>1, ScheduleKeepsCInv DEF Created

LEMMA FailedKeepsCInv ==
  ASSUME CInv, NEW x \in calls, Failed(x)
  PROVE  CInv'
BY CallKeepsCInv DEF Failed, CInv, TypeOK

LEMMA CInvStep == CInv /\ [Next]_vars => CInv'
<1> SUFFICES ASSUME CInv, [Next]_vars PROVE CInv'  OBVIOUS
<1>1. CASE UNCHANGED vars
  BY <1>1 DEF vars, CInv, TypeOK, TimersAreDistinct, EntryIsTimed
<1> QED  BY <1>1, HitKeepsCInv, MissKeepsCInv, FoundClientKeepsCInv, CreatedKeepsCInv,
            FailedKeepsCInv, FireKeepsCInv, TickKeepsCInv DEF Next

\* ProviderFactory alone: whatever its callers do, every cached provider has a
\* scheduled timeout.
THEOREM CacheIsTimed == Spec => []EntryIsTimed
BY CInvInit, CInvStep, PTL DEF Spec, CInv

-----------------------------------------------------------------------------
(* Handshakes and sessions.                                                *)

\* A call for a provider is that of a handshake that waits for it.
CallsOfHandshakes ==
  \A x \in calls :
    hs[x.caller].step = "provider" /\ \A y \in calls : x.caller = y.caller => x = y

\* What a handshake h has established so far; o is what the database held of its
\* user since it began, d what it holds now, and a is the tenant's app.
Sound(h, o, d, a) ==
  /\ h.step \in {"provider", "verify", "base", "lists"} =>
       /\ \A x \in Part : d[x] \in o[x] /\ (h.read[x] # NotRead => h.read[x] \in o[x])
       /\ d.active => o.active
  /\ h.step = "lists" => h.read["base"] # NotRead
  /\ h.step \in {"lists", "bound"} => o.active
  /\ h.step = "bound" => h.genuine
  /\ h.step \in {"base", "lists", "bound"} /\ h.type = "desktop" => h.project = a

HandshakesAreSound == \A c \in Conn : Sound(hs[c], old[c], db[hs[c].user], app)

\* A session s of u was created by a handshake of u and is on a connection of u.
Founded(u, s) ==
  /\ s.state # "NONE" =>
       /\ s.by \in Conn /\ hs[s.by].step \in {"bound", "left"}
       /\ hs[s.by].user = u /\ hs[s.by].type = s.type
       /\ s.principal = hs[s.by].read
       /\ \A x \in Part : s.principal[x] \in old[s.by][x]
  /\ s.state = "ONLINE" =>
       s.conn \in Conn /\ hs[s.conn].step = "bound" /\ hs[s.conn].user = u
  /\ s.state # "ONLINE" => s.conn = NoConn

SessionsAreFounded == \A u \in User : Founded(u, session[u])

AInv ==
  /\ CInv
  /\ AuthTypeOK
  /\ CallsOfHandshakes
  /\ HandshakesAreSound
  /\ SessionsAreFounded

-----------------------------------------------------------------------------
(* Types.                                                                  *)

LEMMA Constants ==
  /\ MaxEdits \in Nat /\ 0 \in Edit /\ NotRead \notin Version
  /\ NothingRead \in [Part -> Version \cup {NotRead}]
  /\ \A u \in User : FirstRows(u) \in Rows
  /\ NoPast \in Past
  /\ \A step \in Step : NoHandshake(step) \in Handshake
  /\ \A u \in User : NoSession(u) \in
       [state : {"NONE", "ONLINE", "SUSPEND"}, conn : Conn \cup {NoConn},
        by : Conn \cup {NoConn}, type : Type, principal : [Part -> Version \cup {NotRead}]]
<1> USE AuthAssumption DEF Edit
<1>1. MaxEdits \in Nat /\ 0 \in Edit /\ NotRead \notin Version
  BY DEF AuthAssumption, Version, User
<1>2. NothingRead \in [Part -> Version \cup {NotRead}]  BY DEF NothingRead
<1>3. ASSUME NEW u \in User PROVE FirstRows(u) \in Rows
  BY <1>1 DEF FirstRows, Rows, Version
<1>4. NoPast \in Past  BY DEF NoPast, Past
<1>5. (CHOOSE u \in User : TRUE) \in User  BY DEF User, AuthAssumption
<1>6. ASSUME NEW step \in Step PROVE NoHandshake(step) \in Handshake
  <2> DEFINE any == CHOOSE u \in User : TRUE
  <2>1. any \in User  BY <1>5
  <2> HIDE DEF any
  <2>2. [step |-> step, user |-> any, type |-> "device", genuine |-> FALSE, project |-> 0,
         read |-> NothingRead] \in Handshake
    BY <1>2, <2>1 DEF Handshake, Type
  <2> QED  BY <2>2 DEF NoHandshake, any
<1>7. ASSUME NEW u \in User
      PROVE  NoSession(u) \in
       [state : {"NONE", "ONLINE", "SUSPEND"}, conn : Conn \cup {NoConn},
        by : Conn \cup {NoConn}, type : Type, principal : [Part -> Version \cup {NotRead}]]
  <2> DEFINE some == CHOOSE t \in TypesOf(u) : TRUE
  <2>1. some \in Type  BY DEF TypesOf, Type
  <2> HIDE DEF some
  <2>2. [state |-> "NONE", conn |-> NoConn, by |-> NoConn, type |-> some,
         principal |-> NothingRead] \in
       [state : {"NONE", "ONLINE", "SUSPEND"}, conn : Conn \cup {NoConn},
        by : Conn \cup {NoConn}, type : Type, principal : [Part -> Version \cup {NotRead}]]
    BY <1>2, <2>1
  <2> QED  BY <2>2 DEF NoSession, some
<1> QED  BY <1>1, <1>2, <1>3, <1>6, <1>7, <1>4

\* What is recorded of a past keeps what was there.
LEMMA RecordedType ==
  ASSUME NEW past \in Past, NEW rows \in Rows
  PROVE  /\ Recorded(past, rows) \in Past
         /\ past.active \/ rows.active => Recorded(past, rows).active
         /\ \A x \in Part : /\ Recorded(past, rows)[x] = past[x] \cup {rows[x]}
                            /\ rows[x] \in Version
BY DEF Recorded, Past, Rows, Part

\* A handshake that is over has nothing to be sound about.
LEMMA OverIsSound ==
  ASSUME NEW step \in {"idle", "refused"}, NEW o, NEW d, NEW a
  PROVE  Sound(NoHandshake(step), o, d, a)
BY DEF Sound, NoHandshake

LEMMA AInvInit == AuthInit => AInv
<1> SUFFICES ASSUME AuthInit PROVE AInv  OBVIOUS
<1>1. CInv  BY CInvInit DEF AuthInit
<1>2. AuthTypeOK
  <2>1. NoHandshake("idle") \in Handshake  BY Constants DEF Step
  <2> QED  BY <1>1, <2>1, Constants, AuthAssumption DEF AuthInit, AuthTypeOK, CInv, Edit
<1>3. CallsOfHandshakes  BY DEF CallsOfHandshakes, AuthInit, Init
<1>4. HandshakesAreSound  BY OverIsSound DEF HandshakesAreSound, AuthInit
<1>5. SessionsAreFounded
  <2>1. \A u \in User : session[u].state = "NONE" /\ session[u].conn = NoConn
    BY DEF AuthInit, NoSession
  <2> QED  BY <2>1 DEF SessionsAreFounded, Founded
<1> QED  BY <1>1, <1>2, <1>3, <1>4, <1>5 DEF AInv

-----------------------------------------------------------------------------
(* Steps of one handshake.                                                 *)

\* A handshake moves, soundly, and no session is touched.
LEMMA MoveKeepsAInv ==
  ASSUME AInv, CInv', CallsOfHandshakes',
         NEW c \in Conn, NEW h \in Handshake, NEW o \in Past,
         hs[c].step \notin {"bound", "left"},
         hs' = [hs EXCEPT ![c] = h], old' = [old EXCEPT ![c] = o],
         UNCHANGED <<db, config, edits, app, session>>,
         Sound(h, o, db[h.user], app)
  PROVE  AInv'
<1> USE DEF AInv
<1>1. /\ hs \in [Conn -> Handshake] /\ old \in [Conn -> Past]
      /\ hs' \in [Conn -> Handshake] /\ old' \in [Conn -> Past]
      /\ hs'[c] = h /\ old'[c] = o
      /\ \A d \in Conn \ {c} : hs'[d] = hs[d] /\ old'[d] = old[d]
  BY DEF AuthTypeOK
<1>2. AuthTypeOK'  BY <1>1 DEF AuthTypeOK, CInv
<1>3. HandshakesAreSound'
  <2> SUFFICES ASSUME NEW d \in Conn PROVE Sound(hs'[d], old'[d], db[hs'[d].user], app)
    BY DEF HandshakesAreSound
  <2>1. CASE d = c  BY <1>1, <2>1
  <2>2. CASE d # c  BY <1>1, <2>2 DEF HandshakesAreSound
  <2> QED  BY <2>1, <2>2
<1>4. SessionsAreFounded'
  <2> SUFFICES ASSUME NEW u \in User PROVE Founded(u, session[u])'
    BY DEF SessionsAreFounded
  <2>1. Founded(u, session[u])  BY DEF SessionsAreFounded
  <2>2. \A d \in Conn : hs[d].step \in {"bound", "left"} => hs'[d] = hs[d] /\ old'[d] = old[d]
    BY <1>1
  <2> QED  BY <2>1, <2>2 DEF Founded
<1> QED  BY <1>2, <1>3, <1>4

\* No call begins or ends, and c waits for none: the calls stay with their
\* handshakes.
LEMMA CallsStay ==
  ASSUME AInv, NEW c \in Conn, hs[c].step # "provider", NEW h,
         hs' = [hs EXCEPT ![c] = h], UNCHANGED calls
  PROVE  CallsOfHandshakes'
BY DEF AInv, CallsOfHandshakes, AuthTypeOK, CInv, TypeOK, Conn

\* The call of c ends.
LEMMA CallEnds ==
  ASSUME AInv, NEW x \in calls, NEW h, hs' = [hs EXCEPT ![x.caller] = h], calls' = calls \ {x}
  PROVE  CallsOfHandshakes'
BY DEF AInv, CallsOfHandshakes, AuthTypeOK, CInv, TypeOK, Conn

\* What SetStep makes of a handshake.
LEMMA SetStepMoves ==
  ASSUME AuthTypeOK, NEW c \in Conn, NEW step \in Step, SetStep(c, step)
  PROVE  \E h \in Handshake :
           /\ hs' = [hs EXCEPT ![c] = h]
           /\ h.step = step /\ h.user = hs[c].user /\ h.type = hs[c].type
           /\ h.genuine = hs[c].genuine /\ h.project = hs[c].project /\ h.read = hs[c].read
<1>1. hs' = [hs EXCEPT ![c] = [hs[c] EXCEPT !.step = step]]  BY DEF SetStep
<1>2. hs[c] \in Handshake  BY DEF AuthTypeOK
<1>3. [hs[c] EXCEPT !.step = step] \in Handshake  BY <1>2 DEF Handshake
<1> QED  BY <1>1, <1>2, <1>3 DEF Handshake

\* What Answer makes of a handshake.
LEMMA AnswerMoves ==
  ASSUME AuthTypeOK, NEW c \in Conn, NEW x \in Part, NEW v \in Version, Answer(c, x, v)
  PROVE  \E h \in Handshake :
           /\ hs' = [hs EXCEPT ![c] = h]
           /\ h.step = "lists" /\ h.user = hs[c].user /\ h.type = hs[c].type
           /\ h.genuine = hs[c].genuine /\ h.project = hs[c].project
           /\ h.read = [hs[c].read EXCEPT ![x] = v]
<1> DEFINE h == [hs[c] EXCEPT !.read = [hs[c].read EXCEPT ![x] = v], !.step = "lists"]
<1>1. hs[c] \in Handshake /\ hs[c].read \in [Part -> Version \cup {NotRead}]
  BY DEF AuthTypeOK, Handshake, Part
<1>2. hs' = [hs EXCEPT ![c] = h]  BY <1>1 DEF Answer, Handshake, AuthTypeOK
<1>3. [hs[c].read EXCEPT ![x] = v] \in [Part -> Version \cup {NotRead}]
  BY <1>1, Constants DEF Version
<1>4. h \in Handshake  BY <1>1, <1>3 DEF Handshake, Part, Step
<1> QED  BY <1>1, <1>2, <1>4 DEF Handshake

\* Refusing a handshake that is not over, and has no call, is sound.
LEMMA RefuseKeepsAInv ==
  ASSUME AInv, CInv', CallsOfHandshakes', NEW c \in Conn, Refuse(c),
         hs[c].step \notin {"bound", "left"}, UNCHANGED <<db, config, edits, app, session>>
  PROVE  AInv'
<1>1. NoHandshake("refused") \in Handshake /\ NoPast \in Past  BY Constants DEF Step
<1>2. Sound(NoHandshake("refused"), NoPast, db[NoHandshake("refused").user], app)
  BY OverIsSound
<1> QED  BY <1>1, <1>2, MoveKeepsAInv DEF Refuse

\* Beginning is sound: nothing is read, nothing has changed since.
LEMMA BeginKeepsAInv ==
  ASSUME AInv, CInv', CallsOfHandshakes', NEW c \in Conn, NEW u \in User, NEW t \in Type,
         NEW g \in BOOLEAN, NEW step \in {"provider", "verify", "base"}, Begin(c, u, t, g, step),
         t = "desktop" => step # "base"
  PROVE  AInv'
<1> DEFINE hand(project) == [step |-> step, user |-> u, type |-> t, genuine |-> g,
                             project |-> project, read |-> NothingRead]
<1>1. PICK project \in Edit : hs' = [hs EXCEPT ![c] = hand(project)]
  <2>1. 0 \in Edit  BY Constants
  <2> QED  BY <2>1 DEF Begin
<1> DEFINE h == hand(project)
           o == Recorded(NoPast, db[u])
<1>2. db[u] \in Rows /\ NoPast \in Past  BY Constants DEF AInv, AuthTypeOK
<1>3. h \in Handshake  BY Constants DEF Handshake, Step
<1>4. o \in Past /\ (db[u].active => o.active) /\ \A x \in Part : db[u][x] \in o[x]
  BY <1>2, RecordedType
<1>5. Sound(h, o, db[u], app)
  <2> HIDE DEF o
  <2> QED  BY <1>4 DEF Sound, NothingRead
<1>6. hs' = [hs EXCEPT ![c] = h] /\ old' = [old EXCEPT ![c] = o] /\ h.user = u
      /\ hs[c].step = "idle" /\ UNCHANGED <<db, config, edits, app, session>>
  BY <1>1 DEF Begin, dbVars
<1> HIDE DEF h, o
<1> QED  BY <1>3, <1>4, <1>5, <1>6, MoveKeepsAInv

-----------------------------------------------------------------------------
(* One lemma per action.                                                   *)

\* The cache does not move.
LEMMA CacheStays ==
  ASSUME CInv, UNCHANGED cacheVars
  PROVE  CInv' /\ UNCHANGED calls
BY DEF cacheVars, CInv, TypeOK, TimersAreDistinct, EntryIsTimed

LEMMA BeginsKeepAInv ==
  ASSUME AInv, NEW c \in Conn, NEW u \in User,
         BeginDevice(c, u) \/ BeginBrowser(c, u) \/ BeginDesktopHit(c, u) \/ BeginDesktopMiss(c, u)
  PROVE  AInv'
<1> USE DEF AInv
<1>1. ASSUME NEW t, NEW g, NEW step, Begin(c, u, t, g, step)
      PROVE  hs[c].step = "idle" /\ \E h : hs' = [hs EXCEPT ![c] = h]
  BY <1>1 DEF Begin
<1>2. CASE BeginDevice(c, u)
  <2>1. PICK g \in BOOLEAN : Begin(c, u, "device", g, "base")  BY <1>2 DEF BeginDevice
  <2>2. CInv' /\ UNCHANGED calls  BY <1>2, CacheStays DEF BeginDevice
  <2>3. CallsOfHandshakes'  BY <1>1, <2>1, <2>2, CallsStay
  <2> QED  BY <2>1, <2>2, <2>3, BeginKeepsAInv DEF Type
<1>3. CASE BeginBrowser(c, u)
  <2>1. Begin(c, u, "browser", TRUE, "base")  BY <1>3 DEF BeginBrowser
  <2>2. CInv' /\ UNCHANGED calls  BY <1>3, CacheStays DEF BeginBrowser
  <2>3. CallsOfHandshakes'  BY <1>1, <2>1, <2>2, CallsStay
  <2> QED  BY <2>1, <2>2, <2>3, BeginKeepsAInv DEF Type
<1>4. CASE BeginDesktopHit(c, u)
  <2>1. PICK g \in BOOLEAN : Begin(c, u, "desktop", g, "verify")  BY <1>4 DEF BeginDesktopHit
  <2>2. CInv' /\ UNCHANGED calls
    BY <1>4, HitKeepsCInv, AuthAssumption DEF BeginDesktopHit, Hit
  <2>3. CallsOfHandshakes'  BY <1>1, <2>1, <2>2, CallsStay
  <2> QED  BY <2>1, <2>2, <2>3, BeginKeepsAInv DEF Type
<1>5. CASE BeginDesktopMiss(c, u)
  <2>1. PICK g \in BOOLEAN : Begin(c, u, "desktop", g, "provider")  BY <1>5 DEF BeginDesktopMiss
  <2>2. CInv'  BY <1>5, MissKeepsCInv, AuthAssumption DEF BeginDesktopMiss, Conn
  <2>3. CallsOfHandshakes'
    <3>1. hs'[c].step = "provider" /\ \A d \in Conn \ {c} : hs'[d] = hs[d]
      BY <2>1 DEF Begin, AuthTypeOK
    <3>2. /\ calls' = calls \cup {[caller |-> c, key |-> Tenant, step |-> "client"]}
          /\ \A x \in calls : x.caller # c /\ x.caller \in Conn
      BY <1>5 DEF BeginDesktopMiss, Miss, Idle, CInv, TypeOK, Conn
    <3> QED  BY <3>1, <3>2 DEF CallsOfHandshakes
  <2> QED  BY <2>1, <2>2, <2>3, BeginKeepsAInv DEF Type
<1> QED  BY <1>2, <1>3, <1>4, <1>5

LEMMA BeginInvalidKeepsAInv ==
  ASSUME AInv, NEW c \in Conn, BeginInvalid(c)
  PROVE  AInv'
<1>1. hs[c].step = "idle" /\ Refuse(c) /\ UNCHANGED <<db, config, edits, app, session>>
  BY DEF BeginInvalid, dbVars
<1>2. CInv' /\ UNCHANGED calls  BY CacheStays DEF BeginInvalid, AInv
<1>3. CallsOfHandshakes'  BY <1>1, <1>2, CallsStay DEF Refuse
<1> QED  BY <1>1, <1>2, <1>3, RefuseKeepsAInv

\* Steps of the cache that no handshake notices.
LEMMA CacheStepKeepsAInv ==
  ASSUME AInv, CInv', CallsOfHandshakes', UNCHANGED authVars
  PROVE  AInv'
<1> USE DEF AInv, authVars, dbVars
<1>1. AuthTypeOK'  BY DEF AuthTypeOK, CInv
<1>2. HandshakesAreSound'  BY DEF HandshakesAreSound
<1>3. SessionsAreFounded'  BY DEF SessionsAreFounded, Founded
<1> QED  BY <1>1, <1>2, <1>3

LEMMA ProviderClientKeepsAInv ==
  ASSUME AInv, NEW x \in calls, ProviderClient(x)
  PROVE  AInv'
<1> USE DEF AInv
<1>1. CInv'  BY FoundClientKeepsCInv DEF ProviderClient
<1>2. CallsOfHandshakes'
  <2> DEFINE y == [x EXCEPT !.step = "config"]
  <2>1. y.caller = x.caller  BY DEF CInv, TypeOK
  <2>2. calls' = (calls \ {x}) \cup {y} /\ hs' = hs
    BY DEF ProviderClient, FoundClient, authVars
  <2> HIDE DEF y
  <2> QED  BY <2>1, <2>2 DEF CallsOfHandshakes
<1> QED  BY <1>1, <1>2, CacheStepKeepsAInv DEF ProviderClient

LEMMA ProviderFailedKeepsAInv ==
  ASSUME AInv, NEW x \in calls, ProviderFailed(x)
  PROVE  AInv'
<1>1. x.caller \in Conn /\ hs[x.caller].step = "provider"
  BY DEF AInv, CInv, TypeOK, Conn, CallsOfHandshakes
<1>2. /\ Failed(x) /\ Refuse(x.caller) /\ calls' = calls \ {x}
      /\ UNCHANGED <<db, config, edits, app, session>>
  BY DEF ProviderFailed, Failed, dbVars
<1>3. CInv'  BY <1>2, FailedKeepsCInv DEF AInv
<1>4. CallsOfHandshakes'  BY <1>2, CallEnds DEF Refuse
<1> QED  BY <1>1, <1>2, <1>3, <1>4, RefuseKeepsAInv

\* The app is made at most once, and nobody was verified before it is there.
LEMMA ProviderCreatedKeepsAInv ==
  ASSUME AInv, NEW x \in calls, ProviderCreated(x)
  PROVE  AInv'
<1> DEFINE c == x.caller
<1> USE DEF AInv
<1>1. c \in Conn /\ hs[c].step = "provider"
  BY DEF CInv, TypeOK, Conn, CallsOfHandshakes
<1>2. /\ Created(x) /\ SetStep(c, "verify") /\ calls' = calls \ {x}
      /\ app' = IF app = -1 THEN config ELSE app
      /\ UNCHANGED <<db, config, edits, session, old>>
  BY DEF ProviderCreated, Created, dbVars
<1>3. CInv'  BY <1>2, CreatedKeepsCInv
<1>4. PICK h \in Handshake :
           /\ hs' = [hs EXCEPT ![c] = h]
           /\ h.step = "verify" /\ h.user = hs[c].user /\ h.type = hs[c].type
           /\ h.genuine = hs[c].genuine /\ h.project = hs[c].project /\ h.read = hs[c].read
  BY <1>1, <1>2, SetStepMoves DEF Step
<1>5. CallsOfHandshakes'  BY <1>2, <1>4, CallEnds
<1>6. AuthTypeOK'  BY <1>1, <1>2, <1>3, <1>4 DEF AuthTypeOK, CInv, Edit
<1>7. HandshakesAreSound'
  <2> SUFFICES ASSUME NEW d \in Conn PROVE Sound(hs'[d], old[d], db[hs'[d].user], app')
    BY <1>2 DEF HandshakesAreSound
  <2>1. Sound(hs[d], old[d], db[hs[d].user], app)  BY DEF HandshakesAreSound
  <2>2. CASE d = c  BY <1>1, <1>4, <2>1, <2>2 DEF Sound, AuthTypeOK
  <2>3. CASE d # c
    <3>1. hs'[d] = hs[d]  BY <1>4, <2>3 DEF AuthTypeOK
    <3>2. hs[d].project # -1  BY Constants DEF AuthTypeOK, Handshake, Edit
    <3> QED  BY <1>2, <2>1, <3>1, <3>2 DEF Sound
  <2> QED  BY <2>2, <2>3
<1>8. SessionsAreFounded'
  <2>1. \A d \in Conn : hs[d].step \in {"bound", "left"} => hs'[d] = hs[d]
    BY <1>1, <1>4 DEF AuthTypeOK
  <2> QED  BY <1>2, <2>1 DEF SessionsAreFounded, Founded
<1> QED  BY <1>3, <1>5, <1>6, <1>7, <1>8

LEMMA VerifyKeepsAInv ==
  ASSUME AInv, NEW c \in Conn, Verify(c)
  PROVE  AInv'
<1> USE DEF AInv
<1>1. hs[c].step = "verify" /\ UNCHANGED <<db, config, edits, app, session>>
  BY DEF Verify, dbVars
<1>2. CInv' /\ UNCHANGED calls  BY CacheStays DEF Verify
<1>3. CASE hs[c].genuine /\ hs[c].project = app /\ SetStep(c, "base") /\ UNCHANGED old
  <2>1. PICK h \in Handshake :
           /\ hs' = [hs EXCEPT ![c] = h]
           /\ h.step = "base" /\ h.user = hs[c].user /\ h.type = hs[c].type
           /\ h.genuine = hs[c].genuine /\ h.project = hs[c].project /\ h.read = hs[c].read
    BY <1>3, SetStepMoves DEF Step
  <2>2. CallsOfHandshakes'  BY <1>1, <1>2, <2>1, CallsStay
  <2>3. old[c] \in Past /\ old' = [old EXCEPT ![c] = old[c]]  BY <1>3 DEF AuthTypeOK
  <2>4. Sound(hs[c], old[c], db[hs[c].user], app)  BY DEF HandshakesAreSound
  <2>5. Sound(h, old[c], db[h.user], app)  BY <1>1, <1>3, <2>1, <2>4 DEF Sound
  <2> QED  BY <1>1, <1>2, <2>1, <2>2, <2>3, <2>5, MoveKeepsAInv
<1>4. CASE Refuse(c)
  <2>1. CallsOfHandshakes'  BY <1>1, <1>2, <1>4, CallsStay DEF Refuse
  <2> QED  BY <1>1, <1>2, <1>4, <2>1, RefuseKeepsAInv
<1> QED  BY <1>3, <1>4 DEF Verify

\* The row that is found was active now, and so at some time since the beginning.
LEMMA ReadBaseKeepsAInv ==
  ASSUME AInv, NEW c \in Conn, ReadBase(c)
  PROVE  AInv'
<1> DEFINE u == hs[c].user
<1> USE DEF AInv
<1>1. /\ hs[c].step = "base" /\ UNCHANGED <<db, config, edits, app, session>>
      /\ u \in User /\ db[u] \in Rows /\ db[u].base = db[u]["base"] /\ db[u].base \in Version
      /\ hs[c].read \in [Part -> Version \cup {NotRead}]
  BY DEF ReadBase, dbVars, AuthTypeOK, Handshake, Rows, Part
<1>2. CInv' /\ UNCHANGED calls  BY CacheStays DEF ReadBase
<1>3. CASE db[u].active /\ Answer(c, "base", db[u].base) /\ UNCHANGED old
  <2>1. PICK h \in Handshake :
           /\ hs' = [hs EXCEPT ![c] = h]
           /\ h.step = "lists" /\ h.user = hs[c].user /\ h.type = hs[c].type
           /\ h.genuine = hs[c].genuine /\ h.project = hs[c].project
           /\ h.read = [hs[c].read EXCEPT !["base"] = db[u].base]
    BY <1>1, <1>3, AnswerMoves DEF Part
  <2>2. CallsOfHandshakes'  BY <1>1, <1>2, <2>1, CallsStay
  <2>3. old[c] \in Past /\ old' = [old EXCEPT ![c] = old[c]]  BY <1>3 DEF AuthTypeOK
  <2>4. Sound(hs[c], old[c], db[u], app)  BY DEF HandshakesAreSound
  <2>5. Sound(h, old[c], db[u], app)
    <3>1. h.read["base"] = db[u]["base"] /\ db[u]["base"] # NotRead
      BY <1>1, <2>1, Constants DEF Part, Version
    <3>2. \A x \in Part \ {"base"} : h.read[x] = hs[c].read[x]  BY <1>1, <2>1
    <3> QED  BY <1>1, <1>3, <2>1, <2>4, <3>1, <3>2 DEF Sound
  <2> QED  BY <1>1, <1>2, <2>1, <2>2, <2>3, <2>5, MoveKeepsAInv
<1>4. CASE Refuse(c)
  <2>1. CallsOfHandshakes'  BY <1>1, <1>2, <1>4, CallsStay DEF Refuse
  <2> QED  BY <1>1, <1>2, <1>4, <2>1, RefuseKeepsAInv
<1> QED  BY <1>3, <1>4 DEF ReadBase, DeviceFound, RoleFound

LEMMA ReadListKeepsAInv ==
  ASSUME AInv, NEW c \in Conn, NEW x \in {"send", "get"}, ReadList(c, x)
  PROVE  AInv'
<1> DEFINE u == hs[c].user
<1> USE DEF AInv
<1>1. /\ hs[c].step = "lists" /\ UNCHANGED <<db, config, edits, app, session, old>>
      /\ Answer(c, x, db[u][x])
      /\ u \in User /\ db[u] \in Rows /\ x \in Part /\ db[u][x] \in Version
      /\ hs[c].read \in [Part -> Version \cup {NotRead}]
  BY DEF ReadList, dbVars, AuthTypeOK, Handshake, Rows, Part
<1>2. CInv' /\ UNCHANGED calls  BY CacheStays DEF ReadList
<1>3. PICK h \in Handshake :
         /\ hs' = [hs EXCEPT ![c] = h]
         /\ h.step = "lists" /\ h.user = hs[c].user /\ h.type = hs[c].type
         /\ h.genuine = hs[c].genuine /\ h.project = hs[c].project
         /\ h.read = [hs[c].read EXCEPT ![x] = db[u][x]]
  BY <1>1, AnswerMoves
<1>4. CallsOfHandshakes'  BY <1>1, <1>2, <1>3, CallsStay
<1>5. old[c] \in Past /\ old' = [old EXCEPT ![c] = old[c]]  BY <1>1 DEF AuthTypeOK
<1>6. Sound(hs[c], old[c], db[u], app)  BY DEF HandshakesAreSound
<1>7. Sound(h, old[c], db[u], app)
  <2>1. h.read[x] = db[u][x] /\ \A y \in Part \ {x} : h.read[y] = hs[c].read[y]
    BY <1>1, <1>3
  <2>2. x # "base"  OBVIOUS
  <2> QED  BY <1>1, <1>3, <1>6, <2>1, <2>2 DEF Sound, Part
<1> QED  BY <1>1, <1>2, <1>3, <1>4, <1>5, <1>7, MoveKeepsAInv

LEMMA QueryFailsKeepsAInv ==
  ASSUME AInv, NEW c \in Conn, QueryFails(c)
  PROVE  AInv'
<1>1. /\ hs[c].step \in {"base", "lists"} /\ Refuse(c)
      /\ UNCHANGED <<db, config, edits, app, session>>
  BY DEF QueryFails, dbVars
<1>2. CInv' /\ UNCHANGED calls  BY CacheStays DEF QueryFails, AInv
<1>3. CallsOfHandshakes'  BY <1>1, <1>2, CallsStay DEF Refuse
<1> QED  BY <1>1, <1>2, <1>3, RefuseKeepsAInv

LEMMA FinishKeepsAInv ==
  ASSUME AInv, NEW c \in Conn, Finish(c)
  PROVE  AInv'
<1> DEFINE u == hs[c].user
<1> USE DEF AInv
<1>1. /\ hs[c].step = "lists" /\ \A x \in {"send", "get"} : hs[c].read[x] # NotRead
      /\ UNCHANGED <<db, config, edits, app>>
      /\ hs[c] \in Handshake /\ u \in User /\ c # NoConn
  BY AuthAssumption DEF Finish, AnsweredLists, dbVars, AuthTypeOK, Handshake
<1>2. CInv' /\ UNCHANGED calls  BY CacheStays DEF Finish
<1>3. CASE Refuse(c) /\ UNCHANGED session
  <2>1. CallsOfHandshakes'  BY <1>1, <1>2, <1>3, CallsStay DEF Refuse
  <2> QED  BY <1>1, <1>2, <1>3, <2>1, RefuseKeepsAInv
<1>4. CASE hs[c].genuine /\ Establish(c) /\ UNCHANGED old /\ SetStep(c, "bound")
  <2>1. PICK h \in Handshake :
           /\ hs' = [hs EXCEPT ![c] = h]
           /\ h.step = "bound" /\ h.user = hs[c].user /\ h.type = hs[c].type
           /\ h.genuine = hs[c].genuine /\ h.project = hs[c].project /\ h.read = hs[c].read
    BY <1>4, SetStepMoves DEF Step
  <2>2. hs'[c] = h /\ \A d \in Conn \ {c} : hs'[d] = hs[d]  BY <2>1 DEF AuthTypeOK
  <2>3. CallsOfHandshakes'  BY <1>1, <1>2, <2>1, CallsStay
  <2>4. Sound(hs[c], old[c], db[u], app)  BY DEF HandshakesAreSound
  <2>5. HandshakesAreSound'
    <3> SUFFICES ASSUME NEW d \in Conn PROVE Sound(hs'[d], old[d], db[hs'[d].user], app)
      BY <1>1, <1>4 DEF HandshakesAreSound
    <3>1. CASE d = c  BY <1>1, <1>4, <2>1, <2>2, <2>4, <3>1 DEF Sound
    <3>2. CASE d # c  BY <2>2, <3>2 DEF HandshakesAreSound
    <3> QED  BY <3>1, <3>2
  <2>6. /\ \A v \in User \ {u} : session'[v] = session[v]
        /\ session[u].state = "NONE" =>
             session'[u] = [state |-> "ONLINE", conn |-> c, by |-> c, type |-> hs[c].type,
                            principal |-> hs[c].read]
        /\ session[u].state # "NONE" =>
             session'[u] = [session[u] EXCEPT !.state = "ONLINE", !.conn = c]
        /\ DOMAIN session' = User
    BY <1>1, <1>4 DEF Establish, AuthTypeOK
  <2>7. AuthTypeOK'
    <3>1. session'[u] \in [state : {"NONE", "ONLINE", "SUSPEND"}, conn : Conn \cup {NoConn},
             by : Conn \cup {NoConn}, type : Type, principal : [Part -> Version \cup {NotRead}]]
      <4>1. CASE session[u].state = "NONE"
        BY <1>1, <2>6, <4>1 DEF Handshake, Part
      <4>2. CASE session[u].state # "NONE"
        BY <1>1, <2>6, <4>2 DEF AuthTypeOK, Part
      <4> QED  BY <4>1, <4>2
    <3>2. session' = [session EXCEPT ![u] = session'[u]]
      BY <1>1, <1>4 DEF Establish, AuthTypeOK
    <3>3. session' \in [User -> [state : {"NONE", "ONLINE", "SUSPEND"}, conn : Conn \cup {NoConn},
             by : Conn \cup {NoConn}, type : Type, principal : [Part -> Version \cup {NotRead}]]]
      BY <1>1, <3>1, <3>2 DEF AuthTypeOK, Part
    <3>4. hs' \in [Conn -> Handshake]  BY <2>1 DEF AuthTypeOK
    <3> QED  BY <1>1, <1>2, <1>4, <3>3, <3>4 DEF AuthTypeOK, CInv, Part
  <2>8. SessionsAreFounded'
    <3> SUFFICES ASSUME NEW v \in User PROVE Founded(v, session[v])'
      BY DEF SessionsAreFounded
    <3>1. Founded(v, session[v])  BY DEF SessionsAreFounded
    <3>2. \A d \in Conn : hs[d].step \in {"bound", "left"} => hs'[d] = hs[d] /\ old'[d] = old[d]
      BY <1>1, <1>4, <2>2
    <3>3. CASE v # u  BY <2>6, <3>1, <3>2, <3>3 DEF Founded
    <3>4. CASE v = u /\ session[u].state = "NONE"
      <4>1. \A x \in Part : hs[c].read[x] \in old[c][x]
        <5>1. \A x \in Part : hs[c].read[x] # NotRead  BY <1>1, <2>4 DEF Sound, Part
        <5> QED  BY <1>1, <2>4, <5>1 DEF Sound
      <4>2. /\ session'[v].state = "ONLINE" /\ session'[v].conn = c /\ session'[v].by = c
            /\ session'[v].type = hs[c].type /\ session'[v].principal = hs[c].read
        BY <2>6, <3>4
      <4>3. hs'[c].step = "bound" /\ hs'[c].user = v /\ hs'[c].type = hs[c].type /\ old'[c] = old[c]
            /\ hs'[c].read = hs[c].read
        BY <1>4, <2>1, <2>2, <3>4
      <4> QED  BY <1>1, <4>1, <4>2, <4>3 DEF Founded
    <3>5. CASE v = u /\ session[u].state # "NONE"
      <4>1. /\ session'[u].state = "ONLINE" /\ session'[u].conn = c
            /\ session'[u].by = session[u].by /\ session'[u].type = session[u].type
            /\ session'[u].principal = session[u].principal
        BY <1>1, <2>6, <3>5 DEF AuthTypeOK
      <4> QED  BY <2>1, <2>2, <3>1, <3>2, <3>5, <4>1 DEF Founded
    <3> QED  BY <3>3, <3>4, <3>5
  <2> QED  BY <1>2, <2>3, <2>5, <2>7, <2>8
<1> QED  BY <1>3, <1>4 DEF Finish

LEMMA LeaveKeepsAInv ==
  ASSUME AInv, NEW c \in Conn, Leave(c)
  PROVE  AInv'
<1> DEFINE u == hs[c].user
<1> USE DEF AInv
<1>1. /\ hs[c].step = "bound" /\ SetStep(c, "left") /\ UNCHANGED <<db, config, edits, app, old>>
      /\ u \in User /\ c # NoConn
  BY AuthAssumption DEF Leave, dbVars, AuthTypeOK, Handshake
<1>2. CInv' /\ UNCHANGED calls  BY CacheStays DEF Leave
<1>3. PICK h \in Handshake :
           /\ hs' = [hs EXCEPT ![c] = h]
           /\ h.step = "left" /\ h.user = hs[c].user /\ h.type = hs[c].type
           /\ h.genuine = hs[c].genuine /\ h.project = hs[c].project /\ h.read = hs[c].read
  BY <1>1, SetStepMoves DEF Step
<1>4. hs'[c] = h /\ \A d \in Conn \ {c} : hs'[d] = hs[d]  BY <1>3 DEF AuthTypeOK
<1>5. CallsOfHandshakes'  BY <1>1, <1>2, <1>3, CallsStay
<1>6. HandshakesAreSound'
  <2> SUFFICES ASSUME NEW d \in Conn PROVE Sound(hs'[d], old[d], db[hs'[d].user], app)
    BY <1>1 DEF HandshakesAreSound
  <2>1. CASE d = c  BY <1>3, <1>4, <2>1 DEF Sound
  <2>2. CASE d # c  BY <1>4, <2>2 DEF HandshakesAreSound
  <2> QED  BY <2>1, <2>2
<1>7. \/ UNCHANGED session /\ session[u].conn # c
      \/ /\ session[u].conn = c
         /\ session' = [session EXCEPT ![u] = [session[u] EXCEPT !.state = "SUSPEND", !.conn = NoConn]]
  BY <1>1 DEF Leave, AuthTypeOK
<1>8. AuthTypeOK'
  <2>1. session' \in [User -> [state : {"NONE", "ONLINE", "SUSPEND"}, conn : Conn \cup {NoConn},
             by : Conn \cup {NoConn}, type : Type, principal : [Part -> Version \cup {NotRead}]]]
    <3> DEFINE left == [session[u] EXCEPT !.state = "SUSPEND", !.conn = NoConn]
    <3>1. left \in [state : {"NONE", "ONLINE", "SUSPEND"}, conn : Conn \cup {NoConn},
             by : Conn \cup {NoConn}, type : Type, principal : [Part -> Version \cup {NotRead}]]
      <4>1. session[u] \in [state : {"NONE", "ONLINE", "SUSPEND"}, conn : Conn \cup {NoConn},
             by : Conn \cup {NoConn}, type : Type, principal : [Part -> Version \cup {NotRead}]]
        BY <1>1 DEF AuthTypeOK
      <4> QED  BY <4>1
    <3>2. UNCHANGED session \/ session' = [session EXCEPT ![u] = left]  BY <1>7
    <3> HIDE DEF left
    <3> QED  BY <1>1, <3>1, <3>2 DEF AuthTypeOK
  <2> QED  BY <1>1, <1>2, <1>3, <2>1 DEF AuthTypeOK, CInv
<1>9. SessionsAreFounded'
  <2> SUFFICES ASSUME NEW v \in User PROVE Founded(v, session[v])'
    BY DEF SessionsAreFounded
  <2>1. Founded(v, session[v])  BY DEF SessionsAreFounded
  <2>2. \A d \in Conn : hs'[d].user = hs[d].user /\ hs'[d].type = hs[d].type
                        /\ hs'[d].read = hs[d].read
                        /\ (hs[d].step \in {"bound", "left"} => hs'[d].step \in {"bound", "left"})
    BY <1>1, <1>3, <1>4
  <2>3. CASE session[v].conn # c \/ v # u
    <3>1. session'[v] = session[v]  BY <1>7, <2>3 DEF AuthTypeOK
    <3>2. session[v].state = "ONLINE" => session[v].conn # c  BY <2>1, <2>3 DEF Founded
    <3> QED  BY <1>1, <1>4, <2>1, <2>2, <3>1, <3>2 DEF Founded
  <2>4. CASE session[v].conn = c /\ v = u
    <3>1. /\ session'[v].state = "SUSPEND" /\ session'[v].conn = NoConn /\ session'[v].by = session[v].by
          /\ session'[v].type = session[v].type /\ session'[v].principal = session[v].principal
      <4>1. session' = [session EXCEPT ![u] = [session[u] EXCEPT !.state = "SUSPEND", !.conn = NoConn]]
        BY <1>7, <2>4
      <4>2. session'[u] = [session[u] EXCEPT !.state = "SUSPEND", !.conn = NoConn]
        BY <1>1, <4>1 DEF AuthTypeOK
      <4> QED  BY <1>1, <2>4, <4>2 DEF AuthTypeOK
    <3>2. session[v].state # "NONE"
        BY <1>1, <2>1, <2>4 DEF Founded
    <3> QED  BY <1>1, <2>1, <2>2, <3>1, <3>2 DEF Founded
  <2> QED  BY <2>3, <2>4
<1> QED  BY <1>2, <1>5, <1>6, <1>8, <1>9

\* The suspend timer: the user has no session.
LEMMA SuspendTimeoutKeepsAInv ==
  ASSUME AInv, NEW u \in User, SuspendTimeout(u)
  PROVE  AInv'
<1> USE DEF AInv
<1>1. session' = [session EXCEPT ![u] = NoSession(u)] /\ UNCHANGED <<db, config, edits, app, hs, old>>
  BY DEF SuspendTimeout, dbVars
<1>2. CInv' /\ UNCHANGED calls  BY CacheStays DEF SuspendTimeout
<1>3. AuthTypeOK'
  <2>1. NoSession(u) \in [state : {"NONE", "ONLINE", "SUSPEND"}, conn : Conn \cup {NoConn},
             by : Conn \cup {NoConn}, type : Type, principal : [Part -> Version \cup {NotRead}]]
    BY Constants DEF Part
  <2> QED  BY <1>1, <1>2, <2>1 DEF AuthTypeOK, CInv
<1>4. CallsOfHandshakes'  BY <1>1, <1>2 DEF CallsOfHandshakes
<1>5. HandshakesAreSound'  BY <1>1 DEF HandshakesAreSound
<1>6. SessionsAreFounded'
  <2>1. session'[u].state = "NONE" /\ session'[u].conn = NoConn
    BY <1>1 DEF NoSession, AuthTypeOK
  <2>2. \A v \in User \ {u} : session'[v] = session[v]  BY <1>1 DEF AuthTypeOK
  <2> QED  BY <1>1, <2>1, <2>2 DEF SessionsAreFounded, Founded
<1> QED  BY <1>2, <1>3, <1>4, <1>5, <1>6

\* What an edit makes of the database is recorded for the handshakes that wait.
LEMMA EditRowsKeepsAInv ==
  ASSUME AInv, NEW u \in User, EditRows(u)
  PROVE  AInv'
<1> USE DEF AInv
<1>1. /\ edits' \in Edit /\ edits + 1 \in Edit
      /\ UNCHANGED <<config, app, hs, session>>
  BY Constants DEF EditRows, AuthTypeOK, Edit
<1>2. CInv' /\ UNCHANGED calls  BY CacheStays DEF EditRows
<1>3. db' \in [User -> Rows] /\ \A v \in User \ {u} : db'[v] = db[v]
  <2>1. db \in [User -> Rows] /\ db[u] \in Rows  BY DEF AuthTypeOK
  <2>2. CASE \E x \in Part : db' = [db EXCEPT ![u][x] = <<u, edits + 1>>]
    <3>1. PICK x \in Part : db' = [db EXCEPT ![u][x] = <<u, edits + 1>>]  BY <2>2
    <3>2. <<u, edits + 1>> \in Version  BY <1>1 DEF Version
    <3>3. [db[u] EXCEPT ![x] = <<u, edits + 1>>] \in Rows
      <4> DEFINE v == <<u, edits + 1>>
      <4> HIDE DEF v
      <4>1. v \in Version  BY <3>2 DEF v
      <4>2. CASE x = "base"  BY <2>1, <4>1, <4>2 DEF Rows, v
      <4>3. CASE x = "send"  BY <2>1, <4>1, <4>3 DEF Rows, v
      <4>4. CASE x = "get"   BY <2>1, <4>1, <4>4 DEF Rows, v
      <4> QED  BY <4>2, <4>3, <4>4 DEF Part
    <3> QED  BY <2>1, <3>1, <3>3
  <2>3. CASE db' = [db EXCEPT ![u].active = ~ @]
    <3>1. [db[u] EXCEPT !.active = ~ db[u].active] \in Rows  BY <2>1 DEF Rows
    <3> QED  BY <2>1, <2>3, <3>1
  <2> QED  BY <2>2, <2>3 DEF EditRows
<1>4. /\ old' \in [Conn -> Past]
      /\ \A c \in Conn : IF Waiting(c) /\ hs[c].user = u
                          THEN old'[c] = Recorded(old[c], db'[u]) ELSE old'[c] = old[c]
  <2>1. \A c \in Conn : old[c] \in Past /\ Recorded(old[c], db'[u]) \in Past
    BY <1>3, RecordedType DEF AuthTypeOK
  <2> QED  BY <2>1 DEF EditRows
<1>5. AuthTypeOK'  BY <1>1, <1>2, <1>3, <1>4 DEF AuthTypeOK, CInv
<1>6. CallsOfHandshakes'  BY <1>1, <1>2 DEF CallsOfHandshakes
<1>7. \A c \in Conn : /\ old[c] \in Past /\ (old[c].active => old'[c].active)
                      /\ \A x \in Part : old[c][x] \subseteq old'[c][x]
  <2> SUFFICES ASSUME NEW c \in Conn
               PROVE  /\ old[c] \in Past /\ (old[c].active => old'[c].active)
                      /\ \A x \in Part : old[c][x] \subseteq old'[c][x]
    OBVIOUS
  <2>1. old[c] \in Past /\ db'[u] \in Rows  BY <1>3 DEF AuthTypeOK
  <2>2. CASE old'[c] = Recorded(old[c], db'[u])  BY <2>1, <2>2, RecordedType
  <2>3. CASE old'[c] = old[c]  BY <2>1, <2>3
  <2> QED  BY <1>4, <2>2, <2>3
<1>8. HandshakesAreSound'
  <2> SUFFICES ASSUME NEW c \in Conn PROVE Sound(hs[c], old'[c], db'[hs[c].user], app)
    BY <1>1 DEF HandshakesAreSound
  <2>1. Sound(hs[c], old[c], db[hs[c].user], app) /\ hs[c].user \in User
    BY DEF HandshakesAreSound, AuthTypeOK, Handshake
  <2>2. ASSUME Waiting(c)
        PROVE  /\ \A x \in Part : db'[hs[c].user][x] \in old'[c][x]
               /\ db'[hs[c].user].active => old'[c].active
    <3>1. CASE hs[c].user = u
      <4>1. old'[c] = Recorded(old[c], db'[u]) /\ old[c] \in Past /\ db'[u] \in Rows
        BY <1>3, <1>4, <1>7, <2>2, <3>1
      <4> QED  BY <3>1, <4>1, RecordedType
    <3>2. CASE hs[c].user # u  BY <1>3, <1>4, <2>1, <2>2, <3>2 DEF Sound, Waiting
    <3> QED  BY <3>1, <3>2
  <2>3. ASSUME Waiting(c), NEW x \in Part, hs[c].read[x] # NotRead
        PROVE  hs[c].read[x] \in old'[c][x]
    BY <1>7, <2>1, <2>3 DEF Sound, Waiting
  <2>4. hs[c].step \in {"lists", "bound"} => old'[c].active  BY <1>7, <2>1 DEF Sound
  <2> QED  BY <2>1, <2>2, <2>3, <2>4 DEF Sound, Waiting
<1>9. SessionsAreFounded'
  <2> SUFFICES ASSUME NEW v \in User PROVE Founded(v, session[v])'
    BY DEF SessionsAreFounded
  <2>1. Founded(v, session[v])  BY DEF SessionsAreFounded
  <2> QED  BY <1>1, <1>7, <2>1 DEF Founded
<1> QED  BY <1>2, <1>5, <1>6, <1>8, <1>9

LEMMA EditConfigKeepsAInv ==
  ASSUME AInv, EditConfig
  PROVE  AInv'
<1> USE DEF AInv
<1>1. /\ edits \in Nat /\ edits' = edits + 1 /\ edits' \in Edit /\ config' \in Edit
      /\ UNCHANGED <<db, app, hs, session, old>>
  BY Constants DEF EditConfig, AuthTypeOK, Edit
<1>2. CInv' /\ UNCHANGED calls  BY CacheStays DEF EditConfig
<1>3. AuthTypeOK'  BY <1>1, <1>2 DEF AuthTypeOK, CInv
<1>4. CallsOfHandshakes'  BY <1>1, <1>2 DEF CallsOfHandshakes
<1>5. HandshakesAreSound'  BY <1>1 DEF HandshakesAreSound
<1>6. SessionsAreFounded'  BY <1>1 DEF SessionsAreFounded, Founded
<1> QED  BY <1>2, <1>3, <1>4, <1>5, <1>6

LEMMA TimersKeepAInv ==
  ASSUME AInv, (\E x \in timers : Fire(x)) \/ Tick, UNCHANGED authVars
  PROVE  AInv'
<1>1. CInv'  BY FireKeepsCInv, TickKeepsCInv DEF AInv
<1>2. UNCHANGED <<calls, hs>>  BY DEF Fire, Tick, authVars
<1>3. CallsOfHandshakes'  BY <1>2 DEF AInv, CallsOfHandshakes
<1> QED  BY <1>1, <1>3, CacheStepKeepsAInv

LEMMA AInvStep == AInv /\ [AuthNext]_allVars => AInv'
<1> SUFFICES ASSUME AInv, [AuthNext]_allVars PROVE AInv'  OBVIOUS
<1>1. ASSUME NEW u \in User, EditRows(u) \/ SuspendTimeout(u) PROVE AInv'
  BY <1>1, EditRowsKeepsAInv, SuspendTimeoutKeepsAInv
<1>2. CASE EditConfig  BY <1>2, EditConfigKeepsAInv
<1>3. ASSUME NEW c \in Conn, NEW u \in User,
             BeginDevice(c, u) \/ BeginBrowser(c, u) \/ BeginDesktopHit(c, u) \/ BeginDesktopMiss(c, u)
      PROVE  AInv'
  BY <1>3, BeginsKeepAInv
<1>4. ASSUME NEW x \in calls, ProviderClient(x) \/ ProviderCreated(x) \/ ProviderFailed(x)
      PROVE  AInv'
  BY <1>4, ProviderClientKeepsAInv, ProviderCreatedKeepsAInv, ProviderFailedKeepsAInv
<1>5. ASSUME NEW c \in Conn, BeginInvalid(c) \/ Verify(c) \/ ReadBase(c)
      PROVE  AInv'
  BY <1>5, BeginInvalidKeepsAInv, VerifyKeepsAInv, ReadBaseKeepsAInv
<1>6. ASSUME NEW c \in Conn, QueryFails(c) \/ Finish(c) \/ Leave(c)
      PROVE  AInv'
  BY <1>6, QueryFailsKeepsAInv, FinishKeepsAInv, LeaveKeepsAInv
<1>7. ASSUME NEW c \in Conn, NEW x \in {"send", "get"}, ReadList(c, x) PROVE AInv'
  BY <1>7, ReadListKeepsAInv
<1>8. ASSUME (\E x \in timers : Fire(x) /\ UNCHANGED authVars) \/ (Tick /\ UNCHANGED authVars)
      PROVE AInv'
  BY <1>8, TimersKeepAInv
<1>9. CASE UNCHANGED allVars
  <2>1. UNCHANGED authVars /\ UNCHANGED cacheVars  BY <1>9 DEF allVars
  <2>2. CInv' /\ UNCHANGED calls  BY <2>1, CacheStays DEF AInv
  <2>3. CallsOfHandshakes'  BY <2>1, <2>2 DEF AInv, CallsOfHandshakes, authVars
  <2> QED  BY <2>1, <2>2, <2>3, CacheStepKeepsAInv
<1> QED  BY <1>1, <1>2, <1>3, <1>4, <1>5, <1>6, <1>7, <1>8, <1>9 DEF AuthNext

LEMMA AInvInvariant == AuthSpec => []AInv
BY AInvInit, AInvStep, PTL DEF AuthSpec

-----------------------------------------------------------------------------
(* The theorems.                                                           *)

\* Handshakes, sessions and rows keep their types.
THEOREM AuthTypeCorrect == AuthSpec => []AuthTypeOK
BY AInvInvariant, PTL DEF AInv

\* With handshakes as its callers, too, every cached provider is timed.
THEOREM ProvidersAreTimed == AuthSpec => []EntryIsTimed
BY AInvInvariant, PTL DEF AInv, CInv

\* establishSession(): the rights of a session are what the handshake that created
\* it has read of its user's rows while it ran, and nothing else ever becomes part
\* of them, however handshakes and edits overlap and whoever resumes the session.
THEOREM RightsAreOfOneHandshake == AuthSpec => []RightsOfOneHandshake
<1>1. AInv => RightsOfOneHandshake
  BY DEF AInv, SessionsAreFounded, Founded, RightsOfOneHandshake
<1> QED  BY <1>1, AInvInvariant, PTL

\* WebSocketAuthGuard and the strategies: a session is held by somebody who was
\* verified, and whose row was active after the handshake began.
THEOREM HoldersAreAuthentic == AuthSpec => []BoundIsAuthentic
<1>1. AInv => BoundIsAuthentic
  BY DEF AInv, SessionsAreFounded, Founded, HandshakesAreSound, Sound, BoundIsAuthentic
<1> QED  BY <1>1, AInvInvariant, PTL
=============================================================================
