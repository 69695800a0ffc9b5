------------------------- MODULE RefreshTokenProofs -------------------------
(***************************************************************************)
(* What overlapping logins, refreshes and logouts can never do, for every  *)
(* number of requests, clients and tokens.                                 *)
(***************************************************************************)
EXTENDS RefreshToken, TLAPS

Dead == {"revoked", "expired"}

\* A request that is past its credentials knows its client.
HasClient ==
  \A p \in Req :
    pc[p] \in {"exists", "revoke", "findClient", "revokeAll", "save"} => client[p] \in Client

\* A request that came with a token still has it, and tokens do not vanish.
HasToken ==
  \A p \in Req :
    pc[p] \in {"validate", "revoke", "logout"} =>
      given[p] \in Token /\ row[given[p]].state # "none"

\* A login has no token, and a refresh gets to create() only with a dead one.
Spent ==
  \A p \in Req :
    /\ pc[p] = "exists" => given[p] = None
    /\ pc[p] \in {"findClient", "revokeAll", "save"} =>
         given[p] = None \/ row[given[p]].state \in Dead

\* What was answered is dead, not merely inactive: a number that is not issued
\* yet could still become active.
ServedDead == \A t \in served : row[t].state \in Dead

\* Between revokeAll and save nobody else issues a token in the name of p.
CleanSlot ==
  \A p \in Req : pc[p] = "save" =>
    \A t \in Token : row[t].state = "active" /\ row[t].client = client[p] => row[t].by # p

RTInv ==
  TypeOK /\ HasClient /\ HasToken /\ Spent /\ ServedDead /\ CleanSlot /\ OneActivePerSlot

-----------------------------------------------------------------------------

\* Only one request moves, and only to `to`.
LEMMA Moves ==
  ASSUME TypeOK, NEW p \in Req, NEW to \in Pc, Goto(p, to)
  PROVE  pc' \in [Req -> Pc] /\ \A q \in Req : pc'[q] = IF q = p THEN to ELSE pc[q]
BY DEF TypeOK, Goto

\* A step that revokes or lets expire some active tokens.
LEMMA Weakened ==
  ASSUME RTInv, row' \in [Token -> Row],
         \A t \in Token : \/ row'[t] = row[t]
                          \/ /\ row[t].state = "active" /\ row'[t].state \in Dead
                             /\ row'[t].client = row[t].client /\ row'[t].by = row[t].by
  PROVE  /\ \A t \in Token : row[t].state \in Dead => row'[t].state \in Dead
         /\ \A t \in Token : row[t].state # "none" => row'[t].state # "none"
         /\ \A t \in Token : row'[t].state = "active" => row'[t] = row[t]
         /\ OneActivePerSlot'
BY DEF RTInv, Dead, OneActivePerSlot, Active

\* Revoked is such a change.
LEMMA RevokedRow ==
  ASSUME NEW r \in Row
  PROVE  /\ Revoked(r) \in Row
         /\ \/ Revoked(r) = r /\ r.state # "active"
            \/ /\ r.state = "active" /\ Revoked(r).state \in Dead
               /\ Revoked(r).client = r.client /\ Revoked(r).by = r.by
<1>1. CASE r \in [state : {"active", "revoked", "expired"}, client : Client, by : Req]
  BY <1>1 DEF Revoked, Row, Dead
<1>2. CASE r = NoRow
  BY <1>2 DEF Revoked, Row, NoRow
<1> QED  BY <1>1, <1>2 DEF Row

LEMMA LoginStep ==
  ASSUME RTInv, NEW p \in Req, NEW c \in Client, Login(p, c)
  PROVE  RTInv'
<1>1. pc' \in [Req -> Pc] /\ \A q \in Req : pc'[q] = IF q = p THEN "exists" ELSE pc[q]
  BY Moves DEF RTInv, Login, Pc
<1>2. /\ \A q \in Req : client'[q] = IF q = p THEN c ELSE client[q]
      /\ \A q \in Req : given'[q] = IF q = p THEN None ELSE given[q]
      /\ row' = row /\ served' = served
  BY DEF RTInv, TypeOK, Login
<1>3. TypeOK'  BY <1>1 DEF RTInv, TypeOK, Login
<1>4. HasClient' /\ HasToken' /\ Spent' /\ CleanSlot'
  BY <1>1, <1>2 DEF RTInv, HasClient, HasToken, Spent, CleanSlot, Dead
<1>5. ServedDead' /\ OneActivePerSlot'
  BY <1>2 DEF RTInv, ServedDead, OneActivePerSlot, Active
<1> QED  BY <1>3, <1>4, <1>5 DEF RTInv

LEMMA PresentStep ==
  ASSUME RTInv, NEW p \in Req, NEW t \in Token, NEW next \in {"validate", "logout"},
         Present(p, t, next)
  PROVE  RTInv'
<1>1. pc' \in [Req -> Pc] /\ \A q \in Req : pc'[q] = IF q = p THEN next ELSE pc[q]
  BY Moves DEF RTInv, Present, Pc
<1>2. /\ \A q \in Req : given'[q] = IF q = p THEN t ELSE given[q]
      /\ row' = row /\ served' = served /\ client' = client /\ row[t].state # "none"
  BY DEF RTInv, TypeOK, Present
<1>3. TypeOK'  BY <1>1 DEF RTInv, TypeOK, Present
<1>4. HasClient' /\ HasToken' /\ Spent' /\ CleanSlot'
  BY <1>1, <1>2 DEF RTInv, HasClient, HasToken, Spent, CleanSlot, Dead
<1>5. ServedDead' /\ OneActivePerSlot'
  BY <1>2 DEF RTInv, ServedDead, OneActivePerSlot, Active
<1> QED  BY <1>3, <1>4, <1>5 DEF RTInv

\* exists(), findByClientId(), and the end of a request.
LEMMA QuietStep ==
  ASSUME RTInv, NEW p \in Req, Exists(p) \/ FindClient(p) \/ Fail(p)
  PROVE  RTInv'
<1>1. /\ pc' \in [Req -> Pc] /\ \A q \in Req : q # p => pc'[q] = pc[q]
      /\ \/ pc[p] = "exists" /\ pc'[p] = "findClient"
         \/ pc[p] = "findClient" /\ pc'[p] = "revokeAll"
         \/ pc'[p] = "idle"
      /\ row' = row /\ served' = served /\ client' = client /\ given' = given
  BY DEF RTInv, TypeOK, Exists, FindClient, Fail, Goto, Pc
<1>2. TypeOK'  BY <1>1 DEF RTInv, TypeOK
<1>3. HasClient' /\ HasToken' /\ Spent' /\ CleanSlot'
  BY <1>1 DEF RTInv, HasClient, HasToken, Spent, CleanSlot, Dead
<1>4. ServedDead' /\ OneActivePerSlot'
  BY <1>1 DEF RTInv, ServedDead, OneActivePerSlot, Active
<1> QED  BY <1>2, <1>3, <1>4 DEF RTInv

LEMMA ValidateStep ==
  ASSUME RTInv, NEW p \in Req, Validate(p)
  PROVE  RTInv'
<1>1. pc[p] = "validate" /\ given[p] \in Token
  BY DEF RTInv, HasToken, Validate
<1>2. row[given[p]].state = "active" => row[given[p]].client \in Client
  BY <1>1 DEF RTInv, TypeOK, Row, NoRow
<1>3. /\ pc' \in [Req -> Pc] /\ \A q \in Req : q # p => pc'[q] = pc[q] /\ client'[q] = client[q]
      /\ \/ pc'[p] = "revoke" /\ client'[p] \in Client
         \/ pc'[p] = "idle" /\ client' = client
      /\ client' \in [Req -> Client \cup {None}]
      /\ row' = row /\ served' = served /\ given' = given
  BY <1>1, <1>2 DEF RTInv, TypeOK, Validate, Goto, Pc
<1>4. TypeOK'  BY <1>3 DEF RTInv, TypeOK
<1>5. HasClient' /\ HasToken' /\ Spent' /\ CleanSlot'
  BY <1>1, <1>3 DEF RTInv, HasClient, HasToken, Spent, CleanSlot, Dead
<1>6. ServedDead' /\ OneActivePerSlot'
  BY <1>3 DEF RTInv, ServedDead, OneActivePerSlot, Active
<1> QED  BY <1>4, <1>5, <1>6 DEF RTInv

LEMMA RevokeStep ==
  ASSUME RTInv, NEW p \in Req, Revoke(p)
  PROVE  RTInv'
<1> DEFINE g == given[p]
<1>1. g \in Token  BY DEF RTInv, HasToken, Revoke
<1>2. /\ row' \in [Token -> Row] /\ row'[g].state # "active"
      /\ \A t \in Token : \/ row'[t] = row[t]
                          \/ /\ row[t].state = "active" /\ row'[t].state \in Dead
                             /\ row'[t].client = row[t].client /\ row'[t].by = row[t].by
  <2>1. \A t \in Token : row'[t] = IF t = g THEN Revoked(row[t]) ELSE row[t]
    BY <1>1 DEF RTInv, TypeOK, Revoke
  <2>2. row' = [t \in Token |-> IF t = g THEN Revoked(row[t]) ELSE row[t]]
    BY <1>1, <2>1 DEF RTInv, TypeOK, Revoke
  <2>3. \A t \in Token : row[t] \in Row  BY DEF RTInv, TypeOK
  <2>4. \A t \in Token : Revoked(row[t]) \in Row  BY <2>3, RevokedRow
  <2>5. row' \in [Token -> Row]  BY <2>2, <2>3, <2>4
  <2>6. row'[g].state # "active"  BY <1>1, <2>1, <2>3, RevokedRow DEF Dead
  <2> QED  BY <2>1, <2>3, <2>5, <2>6, RevokedRow
<1>3. /\ \A t \in Token : row[t].state \in Dead => row'[t].state \in Dead
      /\ \A t \in Token : row[t].state # "none" => row'[t].state # "none"
      /\ \A t \in Token : row'[t].state = "active" => row'[t] = row[t]
      /\ OneActivePerSlot'
  BY <1>2, Weakened
<1>4. row'[g].state \in Dead
  <2>1. row'[g].state # "none"  BY <1>1, <1>3 DEF RTInv, HasToken, Revoke
  <2>2. row'[g] \in Row  BY <1>1, <1>2
  <2> QED  BY <1>2, <2>1, <2>2 DEF Row, NoRow, Dead
<1>5. /\ pc' \in [Req -> Pc] /\ \A q \in Req : q # p => pc'[q] = pc[q]
      /\ \/ pc[p] = "revoke" /\ pc'[p] = "findClient"
         \/ pc'[p] = "idle"
      /\ served' = served /\ client' = client /\ given' = given
  BY DEF RTInv, TypeOK, Revoke, Goto, Pc
<1>6. TypeOK'  BY <1>2, <1>5 DEF RTInv, TypeOK
<1>7. HasClient' /\ HasToken'
  BY <1>3, <1>5 DEF RTInv, HasClient, HasToken
<1>8. Spent'
  <2>1. \A q \in Req : given[q] = None \/ given[q] \in Token  BY DEF RTInv, TypeOK
  <2> QED  BY <1>3, <1>4, <1>5, <2>1 DEF RTInv, Spent
<1>9. CleanSlot'  BY <1>3, <1>5 DEF RTInv, CleanSlot
<1>10. ServedDead'  BY <1>3, <1>5 DEF RTInv, TypeOK, ServedDead
<1> QED  BY <1>3, <1>6, <1>7, <1>8, <1>9, <1>10 DEF RTInv

LEMMA RevokeAllStep ==
  ASSUME RTInv, NEW p \in Req, RevokeAll(p)
  PROVE  RTInv'
<1>1. /\ row' \in [Token -> Row]
      /\ \A t \in Token : row'[t].state = "active" => row'[t].client # client[p]
      /\ \A t \in Token : \/ row'[t] = row[t]
                          \/ /\ row[t].state = "active" /\ row'[t].state \in Dead
                             /\ row'[t].client = row[t].client /\ row'[t].by = row[t].by
  <2>1. row' = [t \in Token |-> IF row[t].client = client[p] THEN Revoked(row[t]) ELSE row[t]]
    BY DEF RevokeAll
  <2>2. \A t \in Token : row[t] \in Row  BY DEF RTInv, TypeOK
  <2>3. \A t \in Token : Revoked(row[t]) \in Row  BY <2>2, RevokedRow
  <2>4. row' \in [Token -> Row]  BY <2>1, <2>2, <2>3
  <2>5. \A t \in Token : row'[t] = IF row[t].client = client[p] THEN Revoked(row[t]) ELSE row[t]
    BY <2>1
  <2>6. \A t \in Token : \/ Revoked(row[t]) = row[t] /\ row[t].state # "active"
                         \/ /\ row[t].state = "active" /\ Revoked(row[t]).state \in Dead
                            /\ Revoked(row[t]).client = row[t].client /\ Revoked(row[t]).by = row[t].by
    BY <2>2, RevokedRow
  <2> QED  BY <2>4, <2>5, <2>6 DEF Dead
<1>2. /\ \A t \in Token : row[t].state \in Dead => row'[t].state \in Dead
      /\ \A t \in Token : row[t].state # "none" => row'[t].state # "none"
      /\ \A t \in Token : row'[t].state = "active" => row'[t] = row[t]
      /\ OneActivePerSlot'
  BY <1>1, Weakened
<1>3. /\ pc' \in [Req -> Pc] /\ \A q \in Req : pc'[q] = IF q = p THEN "save" ELSE pc[q]
      /\ pc[p] = "revokeAll" /\ served' = served /\ client' = client /\ given' = given
  BY DEF RTInv, TypeOK, RevokeAll, Goto, Pc
<1>4. TypeOK'  BY <1>1, <1>3 DEF RTInv, TypeOK
<1>5. HasClient' /\ HasToken'
  BY <1>2, <1>3 DEF RTInv, HasClient, HasToken
<1>6. Spent'
  <2>1. \A q \in Req : given[q] = None \/ given[q] \in Token  BY DEF RTInv, TypeOK
  <2> QED  BY <1>2, <1>3, <2>1 DEF RTInv, Spent
<1>7. CleanSlot'  BY <1>1, <1>2, <1>3 DEF RTInv, CleanSlot
<1>8. ServedDead'  BY <1>2, <1>3 DEF RTInv, TypeOK, ServedDead
<1> QED  BY <1>2, <1>4, <1>5, <1>6, <1>7, <1>8 DEF RTInv

LEMMA SaveStep ==
  ASSUME RTInv, NEW p \in Req, Save(p)
  PROVE  RTInv'
<1>1. PICK t \in Token :
        /\ row[t].state = "none"
        /\ row' = [row EXCEPT ![t] = [state |-> "active", client |-> client[p], by |-> p]]
  BY DEF Save
<1>2. client[p] \in Client  BY DEF RTInv, HasClient, Save
<1>3. \A s \in Token : row'[s] = IF s = t THEN [state |-> "active", client |-> client[p], by |-> p]
                                 ELSE row[s]
  BY <1>1 DEF RTInv, TypeOK
<1>4. row' \in [Token -> Row]  BY <1>1, <1>2 DEF RTInv, TypeOK, Row
<1>5. /\ pc' \in [Req -> Pc] /\ \A q \in Req : pc'[q] = IF q = p THEN "idle" ELSE pc[q]
      /\ pc[p] = "save" /\ client' = client /\ given' = given
      /\ served' = served \cup ({given[p]} \ {None})
  BY DEF RTInv, TypeOK, Save, Goto, Pc
<1>6. given[p] = None \/ (given[p] \in Token /\ row[given[p]].state \in Dead)
  BY DEF RTInv, TypeOK, Spent, Save
<1>7. \A s \in Token : row[s].state \in Dead => row'[s].state \in Dead
  BY <1>1, <1>3 DEF Dead
<1>8. \A q \in Req : given[q] = None \/ given[q] \in Token  BY DEF RTInv, TypeOK
<1>9. TypeOK'  BY <1>4, <1>5, <1>6 DEF RTInv, TypeOK
<1>10. HasClient' /\ HasToken'
  BY <1>3, <1>5 DEF RTInv, HasClient, HasToken
<1>11. Spent'  BY <1>5, <1>7, <1>8 DEF RTInv, Spent
<1>12. ServedDead'  BY <1>5, <1>6, <1>7 DEF RTInv, TypeOK, ServedDead
<1>13. CleanSlot'  BY <1>3, <1>5 DEF RTInv, CleanSlot
<1>14. OneActivePerSlot'
  <2> SUFFICES ASSUME NEW c \in Client, NEW s \in Token, NEW u \in Token,
                      row'[s].state = "active", row'[s].client = c,
                      row'[u].state = "active", row'[u].client = c, row'[s].by = row'[u].by
               PROVE  s = u
    BY DEF OneActivePerSlot, Active
  <2>1. CASE s # t /\ u # t
    BY <1>3, <2>1 DEF RTInv, OneActivePerSlot, Active
  <2>2. \A x \in Token : x # t /\ row'[x].state = "active" /\ row'[x].client = client[p] => row'[x].by # p
    BY <1>3, <1>5 DEF RTInv, CleanSlot
  <2>3. row'[t].client = client[p] /\ row'[t].by = p  BY <1>3
  <2> QED  BY <2>1, <2>2, <2>3
<1> QED  BY <1>9, <1>10, <1>11, <1>12, <1>13, <1>14 DEF RTInv

LEMMA ExpireStep ==
  ASSUME RTInv, NEW t \in Token, Expire(t)
  PROVE  RTInv'
<1>1. row[t].state = "active" /\ row[t] \in Row  BY DEF RTInv, TypeOK, Expire
<1>2. \A s \in Token : row'[s] = IF s = t THEN [row[s] EXCEPT !.state = "expired"] ELSE row[s]
  BY DEF RTInv, TypeOK, Expire
<1>3. /\ [row[t] EXCEPT !.state = "expired"] \in Row
      /\ [row[t] EXCEPT !.state = "expired"].state \in Dead
      /\ [row[t] EXCEPT !.state = "expired"].client = row[t].client
      /\ [row[t] EXCEPT !.state = "expired"].by = row[t].by
  BY <1>1 DEF Row, NoRow, Dead
<1>4. /\ row' \in [Token -> Row]
      /\ \A s \in Token : \/ row'[s] = row[s]
                          \/ /\ row[s].state = "active" /\ row'[s].state \in Dead
                             /\ row'[s].client = row[s].client /\ row'[s].by = row[s].by
  BY <1>1, <1>2, <1>3 DEF RTInv, TypeOK, Expire
<1>5. /\ \A s \in Token : row[s].state \in Dead => row'[s].state \in Dead
      /\ \A s \in Token : row[s].state # "none" => row'[s].state # "none"
      /\ \A s \in Token : row'[s].state = "active" => row'[s] = row[s]
      /\ OneActivePerSlot'
  BY <1>4, Weakened
<1>6. pc' = pc /\ served' = served /\ client' = client /\ given' = given  BY DEF Expire
<1>7. TypeOK'  BY <1>4, <1>6 DEF RTInv, TypeOK
<1>8. HasClient' /\ HasToken'  BY <1>5, <1>6 DEF RTInv, HasClient, HasToken
<1>9. Spent'
  <2>1. \A q \in Req : given[q] = None \/ given[q] \in Token  BY DEF RTInv, TypeOK
  <2> QED  BY <1>5, <1>6, <2>1 DEF RTInv, Spent
<1>10. CleanSlot'  BY <1>5, <1>6 DEF RTInv, CleanSlot
<1>11. ServedDead'  BY <1>5, <1>6 DEF RTInv, TypeOK, ServedDead
<1> QED  BY <1>5, <1>7, <1>8, <1>9, <1>10, <1>11 DEF RTInv

-----------------------------------------------------------------------------

LEMMA InitRTInv == Init => RTInv
BY RefreshAssumption
   DEF Init, RTInv, TypeOK, HasClient, HasToken, Spent, ServedDead, CleanSlot,
       OneActivePerSlot, Active, Row, NoRow, Pc, Dead

LEMMA NextRTInv == RTInv /\ [Next]_vars => RTInv'
<1> SUFFICES ASSUME RTInv, [Next]_vars PROVE RTInv'  OBVIOUS
<1>1. ASSUME NEW p \in Req, NEW c \in Client, Login(p, c) PROVE RTInv'
  BY <1>1, LoginStep
<1>2. ASSUME NEW p \in Req, NEW t \in Token, Present(p, t, "validate") \/ Present(p, t, "logout")
      PROVE  RTInv'
  BY <1>2, PresentStep
<1>3. ASSUME NEW p \in Req, Exists(p) \/ FindClient(p) \/ Fail(p) PROVE RTInv'
  BY <1>3, QuietStep
<1>4. ASSUME NEW p \in Req, Validate(p) PROVE RTInv'  BY <1>4, ValidateStep
<1>5. ASSUME NEW p \in Req, Revoke(p) PROVE RTInv'  BY <1>5, RevokeStep
<1>6. ASSUME NEW p \in Req, RevokeAll(p) PROVE RTInv'  BY <1>6, RevokeAllStep
<1>7. ASSUME NEW p \in Req, Save(p) PROVE RTInv'  BY <1>7, SaveStep
<1>8. ASSUME NEW t \in Token, Expire(t) PROVE RTInv'  BY <1>8, ExpireStep
<1>9. CASE UNCHANGED vars
  BY <1>9 DEF RTInv, TypeOK, HasClient, HasToken, Spent, ServedDead, CleanSlot,
     OneActivePerSlot, Active, vars
<1> QED  BY <1>1, <1>2, <1>3, <1>4, <1>5, <1>6, <1>7, <1>8, <1>9 DEF Next

\* The table, the requests under way and what was answered belong together
\* between any two queries of RefreshTokenService: the inductive invariant.
THEOREM RTInvariant == Spec => []RTInv
BY InitRTInv, NextRTInv, PTL DEF Spec

\* The table and the requests keep their types: no row is ever saved without its
\* client, and no request calls create() without one.
THEOREM TypeCorrect == Spec => []TypeOK
<1>1. RTInv => TypeOK  BY DEF RTInv
<1> QED  BY <1>1, RTInvariant, PTL

\* A token that a refresh was answered for is dead for good, however many requests
\* race for it and wherever they fail.
THEOREM ServedStaysDead == Spec => []ServedIsDead
<1>1. RTInv => ServedIsDead  BY DEF RTInv, ServedDead, Dead, ServedIsDead
<1> QED  BY <1>1, RTInvariant, PTL

\* Two active tokens of one client come from requests that overlapped: create()
\* revokes before it saves.
THEOREM OneActive == Spec => []OneActivePerSlot
<1>1. RTInv => OneActivePerSlot  BY DEF RTInv
<1> QED  BY <1>1, RTInvariant, PTL
=============================================================================
