------------------------- MODULE TokenRefreshProofs -------------------------
(***************************************************************************)
(* Proofs about the renewal of Atlassian credentials in TokenRefresh, for  *)
(* any number of users, consents and requests at once.                     *)
(*                                                                         *)
(* A rotated refresh token is kept (TokenKept) and rotation serialises the *)
(* refreshes of a consent (Serialised) because of RefreshInv: a consent    *)
(* belongs to one user, no copy of its credentials is newer than the       *)
(* generation Atlassian accepts, and while a handler holds the newest one  *)
(* no other copy, stored or in flight, is as new.                          *)
(***************************************************************************)
EXTENDS TokenRefresh, TLAPS

-----------------------------------------------------------------------------
(* The store *)

LEMMA KeyInKey ==
    /\ \A t \in Bearers : TokenKey(t) \in Key
    /\ \A u \in Users : UserKey(u) \in Key
  BY DEF Key

LEMMA KeysApart ==
    ASSUME NEW x, NEW y
    PROVE  /\ TokenKey(x) # UserKey(y)
           /\ TokenKey(x) = TokenKey(y) => x = y
           /\ UserKey(x) = UserKey(y) => x = y
  BY DEF TokenKey, UserKey

StoreTyped ==
    /\ DOMAIN store = Key
    /\ \A t \in Bearers : store[TokenKey(t)] \in Entry([user : Users])
    /\ \A u \in Users : store[UserKey(u)] \in Entry(UserRecord)

LEMMA PutToken ==
    ASSUME StoreTyped, clock \in Nat, NEW t \in Bearers,
           NEW v \in [user : Users], Put(TokenKey(t), v, TokenTTL)
    PROVE  /\ StoreTyped'
           /\ \A u \in Users : store'[UserKey(u)] = store[UserKey(u)]
  <1>1. /\ DOMAIN store' = Key
        /\ \A k \in Key : k # TokenKey(t) => store'[k] = store[k]
        /\ store'[TokenKey(t)] = [val |-> v, exp |-> clock + TokenTTL]
    BY KeyInKey DEF StoreTyped, Put
  <1>2. [val |-> v, exp |-> clock + TokenTTL] \in Entry([user : Users])
    BY RefreshAssumption DEF Entry
  <1> QED BY <1>1, <1>2, KeyInKey, KeysApart DEF StoreTyped

LEMMA PutUser ==
    ASSUME StoreTyped, clock \in Nat, NEW u \in Users,
           NEW rec \in UserRecord, Put(UserKey(u), rec, UserTTL)
    PROVE  /\ StoreTyped'
           /\ store'[UserKey(u)] = [val |-> rec, exp |-> clock + UserTTL]
           /\ \A v \in Users : v # u =>
                  store'[UserKey(v)] = store[UserKey(v)]
  <1>1. /\ DOMAIN store' = Key
        /\ \A k \in Key : k # UserKey(u) => store'[k] = store[k]
        /\ store'[UserKey(u)] = [val |-> rec, exp |-> clock + UserTTL]
    BY KeyInKey DEF StoreTyped, Put
  <1>2. [val |-> rec, exp |-> clock + UserTTL] \in Entry(UserRecord)
    BY RefreshAssumption DEF Entry
  <1> QED BY <1>1, <1>2, KeyInKey, KeysApart DEF StoreTyped

LEMMA ElapseEffect ==
    ASSUME StoreTyped, clock \in Nat, Elapse
    PROVE  /\ StoreTyped'
           /\ \A u \in Users : Present(UserKey(u))' =>
                  /\ Present(UserKey(u))
                  /\ store'[UserKey(u)] = store[UserKey(u)]
  <1>1. /\ DOMAIN store' = Key
        /\ \A k \in Key : \/ store'[k] = store[k]
                          \/ store'[k] = Absent
    BY DEF StoreTyped, Elapse
  <1>2. StoreTyped'
    BY <1>1, KeyInKey DEF StoreTyped, Entry
  <1>3. ASSUME NEW u \in Users, Present(UserKey(u))'
        PROVE  Present(UserKey(u)) /\ store'[UserKey(u)] = store[UserKey(u)]
    <2>1. store'[UserKey(u)].exp > clock + 1
      BY <1>3 DEF Present, Elapse
    <2>2. store'[UserKey(u)] # Absent
      BY <2>1, SMT DEF Absent
    <2>3. store'[UserKey(u)] = store[UserKey(u)]
      BY <1>1, <2>2, KeyInKey
    <2>4. store[UserKey(u)].exp \in Nat
      BY DEF StoreTyped, Entry, Absent
    <2> QED BY <2>1, <2>3, <2>4 DEF Present
  <1> QED BY <1>2, <1>3

(* What a Get of a present key returns. *)
LEMMA GetTyped ==
    ASSUME StoreTyped, clock \in Nat
    PROVE  /\ \A t \in Bearers : Present(TokenKey(t)) =>
                  Value(TokenKey(t)) \in [user : Users]
           /\ \A u \in Users : Present(UserKey(u)) =>
                  Value(UserKey(u)) \in UserRecord
  BY DEF StoreTyped, Entry, Present, Value, Absent

-----------------------------------------------------------------------------
(* Type correctness *)

LEMMA ContinueTyped ==
    ASSUME req \in [Requests -> Handler], NEW r \in Requests,
           NEW h \in Handler, Continue(r, h)
    PROVE  /\ req' \in [Requests -> Handler]
           /\ req'[r] = h
           /\ \A q \in Requests : q # r => req'[q] = req[q]
  BY DEF Continue

LEMMA RespondTyped ==
    ASSUME req \in [Requests -> Handler], NEW r \in Requests, Respond(r)
    PROVE  /\ req' \in [Requests -> Handler]
           /\ req'[r] = Idle
           /\ \A q \in Requests : q # r => req'[q] = req[q]
  BY DEF Respond, Continue, Handler

(* What a handler at each step holds. *)
LEMMA HandlerAt ==
    ASSUME req \in [Requests -> Handler], NEW r \in Requests
    PROVE  /\ At(r, "user") => req[r] \in
                 [at : {"user"}, pass : {"check", "factory"},
                  bearer : Bearers, session : Sessions \union {None},
                  user : Users]
           /\ req[r].at \in {"refresh", "refresh.put"} => req[r] \in
                 [at : {"refresh", "refresh.put"},
                  pass : {"check", "factory"}, bearer : Bearers,
                  session : Sessions \union {None}, user : Users,
                  record : UserRecord]
           /\ At(r, "limit") => req[r] \in
                 [at : {"limit"}, bearer : Bearers,
                  session : Sessions \union {None}, expires : Nat]
  BY DEF Handler, At, Idle

LEMMA InitType == Init => TypeOK
  BY KeyInKey DEF Init, TypeOK, Entry, Handler

LEMMA TypeCompleteUser ==
    ASSUME TypeOK, NEW u \in Users, NEW g \in Grants, NEW tools \in ToolSets,
           NEW gen \in {0, None}, completeUser(u, g, tools, gen)
    PROVE  TypeOK'
  <1> DEFINE rec == [grant |-> g, gen |-> gen, expires |-> clock + AccessTTL,
                     tools |-> tools, sealed |-> TRUE]
  <1>1. rec \in UserRecord
    BY RefreshAssumption DEF UserRecord, Generations, TypeOK
  <1>2. Put(UserKey(u), rec, UserTTL)
    BY DEF completeUser
  <1> HIDE DEF rec
  <1>3. StoreTyped'
    BY <1>1, <1>2, PutUser DEF TypeOK, StoreTyped
  <1>4. live' \in [Grants -> Generations \union {None}]
    BY RefreshAssumption DEF completeUser, TypeOK, Generations
  <1> QED BY <1>3, <1>4 DEF completeUser, TypeOK, StoreTyped

LEMMA TypeToken ==
    ASSUME TypeOK, NEW t \in Bearers, NEW u \in Users, token(t, u)
    PROVE  TypeOK'
  <1>1. StoreTyped'
    BY PutToken DEF TypeOK, StoreTyped, token
  <1> QED BY <1>1 DEF token, TypeOK, StoreTyped

LEMMA TypeMcp ==
    ASSUME TypeOK, NEW r \in Requests, NEW t \in Bearers,
           NEW s \in Sessions \union {None}, mcp(r, t, s)
    PROVE  TypeOK'
  <1>1. [at |-> "user", pass |-> "check", bearer |-> t, session |-> s,
         user |-> Value(TokenKey(t)).user] \in Handler
    BY GetTyped DEF mcp, TypeOK, StoreTyped, Handler
  <1>2. req' \in [Requests -> Handler]
    BY <1>1, ContinueTyped DEF mcp, TypeOK
  <1> QED BY <1>2 DEF mcp, TypeOK

LEMMA TypeAuthenticated ==
    ASSUME TypeOK, NEW r \in Requests, req[r].pass \in {"check", "factory"},
           req[r].user \in Users, req[r].bearer \in Bearers,
           req[r].session \in Sessions \union {None},
           NEW rec \in UserRecord, Authenticated(r, rec)
    PROVE  /\ req' \in [Requests -> Handler]
           /\ sessions' \in [Sessions ->
                  [user : Users, tools : ToolSets, expires : Nat]
                      \union {None}]
           /\ req'[r].at \in {"limit", "idle"}
           /\ \A q \in Requests : q # r => req'[q] = req[q]
  <1>1. rec.expires \in Nat /\ rec.tools \in ToolSets
    BY DEF UserRecord
  <1>2. CASE Continue(r, [at |-> "limit", bearer |-> req[r].bearer,
                          session |-> req[r].session,
                          expires |-> rec.expires]) /\ UNCHANGED sessions
    <2>1. [at |-> "limit", bearer |-> req[r].bearer,
           session |-> req[r].session, expires |-> rec.expires] \in Handler
      BY <1>1 DEF Handler
    <2> QED BY <1>2, <2>1, ContinueTyped DEF TypeOK
  <1>3. CASE /\ \E s \in Sessions :
                    sessions' = [sessions EXCEPT ![s] =
                        [user |-> req[r].user, tools |-> rec.tools,
                         expires |-> rec.expires]]
             /\ Respond(r)
    <2>1. sessions' \in [Sessions ->
              [user : Users, tools : ToolSets, expires : Nat] \union {None}]
      BY <1>1, <1>3 DEF TypeOK
    <2>2. /\ req' \in [Requests -> Handler]
          /\ req'[r] = Idle
          /\ \A q \in Requests : q # r => req'[q] = req[q]
      BY <1>3, RespondTyped DEF TypeOK
    <2> QED BY <2>1, <2>2 DEF Idle
  <1> QED BY <1>2, <1>3 DEF Authenticated

LEMMA TypeUserFromRequest ==
    ASSUME TypeOK, NEW r \in Requests, userFromRequest(r)
    PROVE  TypeOK'
  <1> DEFINE user == UserKey(req[r].user)
             rec == Value(user)
  <1>1. req[r] \in [at : {"user"}, pass : {"check", "factory"},
                    bearer : Bearers, session : Sessions \union {None},
                    user : Users]
    BY HandlerAt DEF TypeOK, userFromRequest
  <1>2. Present(user) => rec \in UserRecord
    BY <1>1, GetTyped DEF TypeOK, StoreTyped
  <1>3. CASE Present(user) /\ Authenticated(r, rec)
    <2>1. /\ req' \in [Requests -> Handler]
          /\ sessions' \in [Sessions ->
                 [user : Users, tools : ToolSets, expires : Nat]
                     \union {None}]
      BY <1>1, <1>2, <1>3, TypeAuthenticated
    <2> QED BY <2>1 DEF TypeOK, userFromRequest
  <1>4. CASE /\ Present(user)
             /\ Continue(r, [at |-> "refresh", pass |-> req[r].pass,
                             bearer |-> req[r].bearer,
                             session |-> req[r].session,
                             user |-> req[r].user, record |-> rec])
             /\ UNCHANGED sessions
    <2>1. [at |-> "refresh", pass |-> req[r].pass, bearer |-> req[r].bearer,
           session |-> req[r].session, user |-> req[r].user,
           record |-> rec] \in Handler
      BY <1>1, <1>2, <1>4 DEF Handler
    <2>2. req' \in [Requests -> Handler]
      BY <1>4, <2>1, ContinueTyped DEF TypeOK
    <2> QED BY <1>4, <2>2 DEF TypeOK, userFromRequest
  <1>5. CASE Respond(r) /\ UNCHANGED sessions
    BY <1>5, RespondTyped DEF TypeOK, userFromRequest
  <1> QED BY <1>3, <1>4, <1>5 DEF userFromRequest

LEMMA RotatedTyped ==
    ASSUME NEW rec \in UserRecord, clock \in Nat, rec.gen # None,
           rec.gen < MaxRotations
    PROVE  /\ Rotated(rec) \in UserRecord
           /\ Rotated(rec).gen = rec.gen + 1
           /\ Rotated(rec).grant = rec.grant
  <1>1. rec.gen \in Nat
    BY DEF UserRecord, Generations
  <1>2. rec.gen + 1 \in Generations /\ clock + AccessTTL \in Nat
    BY <1>1, RefreshAssumption DEF Generations
  <1> DEFINE next == [rec EXCEPT !.gen = rec.gen + 1]
  <1>3. next \in UserRecord /\ next.gen = rec.gen + 1
        /\ next.grant = rec.grant
    BY <1>2 DEF UserRecord
  <1>4. Rotated(rec) = [next EXCEPT !.expires = clock + AccessTTL]
    BY DEF Rotated, UserRecord
  <1> QED BY <1>2, <1>3, <1>4 DEF UserRecord

LEMMA UnsealedTyped ==
    ASSUME NEW rec \in UserRecord, clock \in Nat
    PROVE  LET new == [rec EXCEPT !.expires = clock + AccessTTL,
                                  !.sealed = FALSE]
           IN  /\ new \in UserRecord
               /\ new.gen = rec.gen
               /\ new.grant = rec.grant
  <1>1. clock + AccessTTL \in Nat
    BY RefreshAssumption
  <1> DEFINE renewed == [rec EXCEPT !.expires = clock + AccessTTL]
             new == [renewed EXCEPT !.sealed = FALSE]
  <1>2. /\ renewed \in UserRecord /\ renewed.gen = rec.gen
        /\ renewed.grant = rec.grant
    BY <1>1 DEF UserRecord
  <1>3. /\ new \in UserRecord /\ new.gen = rec.gen
        /\ new.grant = rec.grant
    BY <1>2 DEF UserRecord
  <1>4. new = [rec EXCEPT !.expires = clock + AccessTTL, !.sealed = FALSE]
    BY DEF UserRecord
  <1> QED BY <1>3, <1>4

Refreshing(r) == req[r].at \in {"refresh", "refresh.put"}

(* A refresh is only asked for with a refresh token. *)
Asked == \A r \in Requests : Refreshing(r) => req[r].record.gen # None

Holding(h, record) ==
    [at |-> "refresh.put", pass |-> h.pass, bearer |-> h.bearer,
     session |-> h.session, user |-> h.user, record |-> record]

(* What the call to Atlassian leaves a handler with. *)
Renewal(r, new) ==
    LET old == req[r].record
    IN  /\ old.gen = live[old.grant]
        /\ new.grant = old.grant
        /\ Continue(r, Holding(req[r], new))
        /\ \/ /\ old.grant \in Rotating
              /\ old.gen + 1 \in Generations
              /\ new.gen = old.gen + 1
              /\ live' = [live EXCEPT ![old.grant] = old.gen + 1]
           \/ /\ old.grant \notin Rotating
              /\ new.gen = old.gen
              /\ UNCHANGED live

LEMMA RefreshEffect ==
    ASSUME TypeOK, Asked, NEW r \in Requests, refreshUser(r)
    PROVE  \/ Respond(r) /\ UNCHANGED live
           \/ \E new \in UserRecord : Renewal(r, new)
  <1> DEFINE old == req[r].record
  <1>1. /\ old \in UserRecord /\ old.gen # None /\ clock \in Nat
    BY HandlerAt DEF TypeOK, Asked, Refreshing, refreshUser, At
  <1>2. CASE /\ old.gen = live[old.grant]
             /\ old.grant \in Rotating
             /\ old.gen < MaxRotations
             /\ live' = [live EXCEPT ![old.grant] = old.gen + 1]
             /\ Continue(r, Holding(req[r], Rotated(old)))
    <2>1. old.gen + 1 \in Generations
      BY <1>1, <1>2, RefreshAssumption DEF UserRecord, Generations
    <2> QED BY <1>1, <1>2, <2>1, RotatedTyped DEF Renewal
  <1>3. CASE /\ old.gen = live[old.grant]
             /\ old.grant \notin Rotating
             /\ Continue(r, Holding(req[r],
                    [old EXCEPT !.expires = clock + AccessTTL,
                                !.sealed = FALSE]))
             /\ UNCHANGED live
    BY <1>1, <1>3, UnsealedTyped DEF Renewal
  <1> QED BY <1>2, <1>3 DEF refreshUser, Holding

LEMMA HoldingTyped ==
    ASSUME TypeOK, NEW r \in Requests, Refreshing(r), NEW new \in UserRecord
    PROVE  Holding(req[r], new) \in Handler
  <1>1. req[r] \in [at : {"refresh", "refresh.put"},
                    pass : {"check", "factory"}, bearer : Bearers,
                    session : Sessions \union {None}, user : Users,
                    record : UserRecord]
    BY HandlerAt DEF TypeOK, Refreshing
  <1> QED BY <1>1 DEF Holding, Handler

LEMMA TypeRefreshUser ==
    ASSUME TypeOK, Asked, NEW r \in Requests, refreshUser(r)
    PROVE  TypeOK'
  <1>1. CASE Respond(r) /\ UNCHANGED live
    BY <1>1, RespondTyped DEF TypeOK, refreshUser
  <1>2. ASSUME NEW new \in UserRecord, Renewal(r, new)
        PROVE  TypeOK'
    <2>1. Refreshing(r)
      BY DEF refreshUser, At, Refreshing
    <2>2. req' \in [Requests -> Handler]
      BY <1>2, <2>1, HoldingTyped, ContinueTyped DEF Renewal, TypeOK
    <2>3. req[r].record.grant \in Grants
      BY <2>1, HandlerAt DEF Refreshing, TypeOK, UserRecord
    <2>4. live' \in [Grants -> Generations \union {None}]
      BY <1>2, <2>3 DEF Renewal, TypeOK
    <2> QED BY <2>2, <2>4 DEF TypeOK, refreshUser
  <1> QED BY <1>1, <1>2, RefreshEffect

(* The stored record is the handler's, and the handler holds it no more.   *)
LEMMA PutEffect ==
    ASSUME TypeOK, NEW r \in Requests, refreshPut(r)
    PROVE  /\ TypeOK'
           /\ req[r].user \in Users /\ req[r].record \in UserRecord
           /\ store'[UserKey(req[r].user)].val = req[r].record
           /\ \A v \in Users : v # req[r].user =>
                  store'[UserKey(v)] = store[UserKey(v)]
           /\ ~ Refreshing(r)'
           /\ \A q \in Requests : q # r => req'[q] = req[q]
  <1>1. req[r] \in [at : {"refresh", "refresh.put"},
                    pass : {"check", "factory"}, bearer : Bearers,
                    session : Sessions \union {None}, user : Users,
                    record : UserRecord]
    BY HandlerAt DEF TypeOK, refreshPut, At
  <1> DEFINE u == req[r].user
             rec == req[r].record
  <1>2. u \in Users /\ rec \in UserRecord
    BY <1>1
  <1>3. Put(UserKey(u), rec, UserTTL) /\ Authenticated(r, rec)
    BY DEF refreshPut
  <1>4. /\ req' \in [Requests -> Handler]
        /\ sessions' \in [Sessions ->
               [user : Users, tools : ToolSets, expires : Nat]
                   \union {None}]
        /\ req'[r].at \in {"limit", "idle"}
        /\ \A q \in Requests : q # r => req'[q] = req[q]
    BY <1>1, <1>2, <1>3, TypeAuthenticated
  <1>5. /\ StoreTyped'
        /\ store'[UserKey(u)] = [val |-> rec, exp |-> clock + UserTTL]
        /\ \A v \in Users : v # u => store'[UserKey(v)] = store[UserKey(v)]
    BY <1>2, <1>3, PutUser DEF TypeOK, StoreTyped
  <1>6. TypeOK'
    BY <1>4, <1>5 DEF TypeOK, StoreTyped, refreshPut
  <1> QED BY <1>2, <1>4, <1>5, <1>6 DEF Refreshing

(* The session a request names was opened before. *)
SessionsOpen ==
    \A r \in Requests :
        (~ At(r, "idle") /\ req[r].session # None)
            => sessions[req[r].session] # None

LEMMA TypeServe ==
    ASSUME TypeOK, SessionsOpen, NEW r \in Requests, serve(r)
    PROVE  TypeOK'
  <1>1. req[r] \in [at : {"limit"}, bearer : Bearers,
                    session : Sessions \union {None}, expires : Nat]
    BY HandlerAt DEF TypeOK, serve
  <1> DEFINE bearer == TokenKey(req[r].bearer)
             s == req[r].session
             next == [at |-> "user", pass |-> "factory",
                      bearer |-> req[r].bearer, session |-> None,
                      user |-> Value(bearer).user]
  <1>5. s # None => sessions[s] # None
    BY <1>1 DEF SessionsOpen, At
  <1>2. CASE Respond(r) /\ UNCHANGED calls
    BY <1>2, RespondTyped DEF TypeOK, serve
  <1>3. CASE /\ calls' = calls \union
                    {[at |-> clock, checked |-> req[r].expires,
                      used |-> sessions[s].expires]}
             /\ s # None
             /\ Respond(r)
    <2>1. sessions[s].expires \in Nat
      BY <1>1, <1>3, <1>5 DEF TypeOK
    <2>2. calls' \subseteq [at : Nat, checked : Nat, used : Nat]
      BY <1>1, <1>3, <2>1 DEF TypeOK
    <2> QED BY <1>3, <2>2, RespondTyped DEF TypeOK, serve
  <1>4. CASE /\ Present(bearer) /\ Continue(r, next) /\ UNCHANGED calls
    <2>1. next \in Handler
      BY <1>1, <1>4, GetTyped DEF TypeOK, StoreTyped, Handler
    <2> HIDE DEF next
    <2>2. req' \in [Requests -> Handler]
      BY <1>4, <2>1, ContinueTyped DEF TypeOK
    <2> QED BY <1>4, <2>2 DEF TypeOK, serve
  <1> QED BY <1>2, <1>3, <1>4 DEF serve

LEMMA TypeStop ==
    ASSUME TypeOK, Asked, NEW r \in Requests, Stop(r)
    PROVE  TypeOK'
  <1>1. At(r, "refresh.put") => req[r].record.grant \in Grants
    BY HandlerAt DEF TypeOK, At, UserRecord
  <1>2. dropped' \subseteq Grants
    BY <1>1 DEF Stop, TypeOK
  <1>3. req' \in [Requests -> Handler]
    BY RespondTyped DEF Stop, TypeOK
  <1>4. /\ UNCHANGED <<store, clock, live, chosen, minted, sessions, calls>>
        /\ faults' \in Nat
    BY DEF Stop, TypeOK
  <1> QED BY <1>2, <1>3, <1>4 DEF TypeOK

LEMMA TypeTick ==
    ASSUME TypeOK, Tick
    PROVE  TypeOK'
  <1>1. StoreTyped'
    BY ElapseEffect DEF TypeOK, StoreTyped, Tick
  <1>2. clock' \in Nat
    BY DEF TypeOK, Tick, Elapse
  <1> QED BY <1>1, <1>2 DEF TypeOK, StoreTyped, Tick

(* What type correctness needs beside TypeOK. *)
TypeInv == TypeOK /\ Asked /\ SessionsOpen

LEMMA InitTypeInv == Init => TypeInv
  <1> SUFFICES ASSUME Init PROVE TypeInv
    OBVIOUS
  <1>1. TypeOK
    BY InitType
  <1> QED BY <1>1 DEF Init, TypeInv, Asked, SessionsOpen, At, Idle, Refreshing

LEMMA TypeInvStep == TypeInv /\ [Next]_vars => TypeInv'
  <1> SUFFICES ASSUME TypeInv, [Next]_vars
               PROVE  TypeInv'
    OBVIOUS
  <1> USE DEF TypeInv
  <1> DEFINE Opens == \A s \in Sessions :
                          sessions[s] # None => sessions'[s] # None
             Quiet(r) == \/ req'[r] = req[r]
                         \/ req'[r].at = "idle"
  <1>q. ASSUME TypeOK', Opens, \A r \in Requests : Quiet(r)
        PROVE  TypeInv'
    <2>1. Asked'
      BY <1>q DEF Asked, Refreshing
    <2>2. ASSUME NEW r \in Requests, ~ At(r, "idle")',
                 req'[r].session # None
          PROVE  sessions'[req'[r].session] # None
      <3>1. req'[r] = req[r] /\ ~ At(r, "idle")
        BY <1>q, <2>2 DEF At
      <3>2. req[r].session \in Sessions
        BY <2>2, <3>1, HandlerAt DEF TypeOK, At, Handler, Idle
      <3> QED BY <1>q, <2>2, <3>1, <3>2 DEF SessionsOpen
    <2> QED BY <1>q, <2>1, <2>2 DEF SessionsOpen
  <1>1. ASSUME NEW u \in Users, NEW g \in Grants, NEW tools \in ToolSets,
               NEW gen \in {0, None}, completeUser(u, g, tools, gen)
        PROVE  TypeInv'
    BY <1>1, <1>q, TypeCompleteUser DEF completeUser
  <1>2. ASSUME NEW t \in Bearers, NEW u \in Users, token(t, u)
        PROVE  TypeInv'
    BY <1>2, <1>q, TypeToken DEF token
  <1>3. ASSUME NEW r \in Requests, NEW t \in Bearers,
               NEW s \in Sessions \union {None}, mcp(r, t, s)
        PROVE  TypeInv'
    <2>1. /\ TypeOK' /\ sessions' = sessions
          /\ req'[r] = [at |-> "user", pass |-> "check", bearer |-> t,
                        session |-> s, user |-> Value(TokenKey(t)).user]
          /\ \A q \in Requests : q # r => req'[q] = req[q]
          /\ s # None => sessions[s] # None
      BY <1>3, TypeMcp DEF mcp, Continue, TypeOK
    <2> QED BY <2>1 DEF Asked, SessionsOpen, Refreshing, At
  <1>4. ASSUME NEW r \in Requests, userFromRequest(r)
        PROVE  TypeInv'
    <2>1. /\ TypeOK'
          /\ \A q \in Requests : q # r => req'[q] = req[q]
      BY <1>4, TypeUserFromRequest
         DEF userFromRequest, Authenticated, Respond, Continue, TypeOK
    <2>2. /\ Opens
          /\ \/ req'[r].at = "idle"
             \/ /\ req'[r].at = "limit"
                /\ req'[r].session = req[r].session
             \/ /\ req'[r].at = "refresh"
                /\ req'[r].session = req[r].session
                /\ req'[r].record.gen # None
      BY <1>4, HandlerAt, RefreshAssumption
         DEF userFromRequest, Authenticated, Respond, Continue, TypeOK, Idle
    <2>3. ~ At(r, "idle")
      BY <1>4 DEF userFromRequest, At
    <2>4. Asked'
      BY <2>1, <2>2 DEF Asked, Refreshing
    <2>5. ASSUME NEW q \in Requests, ~ At(q, "idle")',
                 req'[q].session # None
          PROVE  sessions'[req'[q].session] # None
      <3>1. req'[q].session = req[q].session /\ ~ At(q, "idle")
        BY <2>1, <2>2, <2>3, <2>5 DEF At
      <3>2. req[q].session \in Sessions
        BY <2>5, <3>1, HandlerAt DEF TypeOK, At, Handler, Idle
      <3> QED BY <2>2, <2>5, <3>1, <3>2 DEF SessionsOpen
    <2> QED BY <2>1, <2>4, <2>5 DEF SessionsOpen
  <1>5. ASSUME NEW r \in Requests, refreshUser(r)
        PROVE  TypeInv'
    <2>1. TypeOK' /\ sessions' = sessions
      BY <1>5, TypeRefreshUser DEF refreshUser
    <2>2. CASE Respond(r)
      <3>1. \A q \in Requests : Quiet(q)
        BY <2>2, RespondTyped DEF TypeOK, Idle
      <3> QED BY <1>q, <2>1, <3>1
    <2>3. ASSUME NEW new \in UserRecord, Renewal(r, new)
          PROVE  TypeInv'
      <3>1. /\ req'[r] = Holding(req[r], new)
            /\ \A q \in Requests : q # r => req'[q] = req[q]
        BY <2>3 DEF Renewal, Continue, TypeOK
      <3>2. /\ req'[r].at = "refresh.put"
            /\ req'[r].session = req[r].session
            /\ req'[r].record = new
        BY <3>1 DEF Holding
      <3>3. At(r, "refresh") /\ req[r].record.gen # None
        BY <1>5 DEF refreshUser, At, Asked, Refreshing
      <3>4. new.gen # None
        BY <2>3, <3>3, RefreshAssumption DEF Renewal, Generations
      <3> QED BY <2>1, <3>1, <3>2, <3>3, <3>4
              DEF Asked, SessionsOpen, Refreshing, At
    <2> QED BY <1>5, <2>2, <2>3, RefreshEffect
  <1>6. ASSUME NEW r \in Requests, refreshPut(r)
        PROVE  TypeInv'
    <2>1. /\ TypeOK' /\ ~ Refreshing(r)'
          /\ \A q \in Requests : q # r => req'[q] = req[q]
      BY <1>6, PutEffect
    <2>2. /\ Opens
          /\ \/ req'[r].at = "idle"
             \/ req'[r].session = req[r].session
      BY <1>6, HandlerAt
         DEF refreshPut, Authenticated, Respond, Continue, TypeOK, Idle, At
    <2>3. ~ At(r, "idle")
      BY <1>6 DEF refreshPut, At
    <2>4. Asked'
      BY <2>1 DEF Asked, Refreshing
    <2>5. ASSUME NEW q \in Requests, ~ At(q, "idle")',
                 req'[q].session # None
          PROVE  sessions'[req'[q].session] # None
      <3>1. req'[q].session = req[q].session /\ ~ At(q, "idle")
        BY <2>1, <2>2, <2>3, <2>5 DEF At
      <3>2. req[q].session \in Sessions
        BY <2>5, <3>1, HandlerAt DEF TypeOK, At, Handler, Idle
      <3> QED BY <2>2, <2>5, <3>1, <3>2 DEF SessionsOpen
    <2> QED BY <2>1, <2>4, <2>5 DEF SessionsOpen
  <1>7. ASSUME NEW r \in Requests, serve(r)
        PROVE  TypeInv'
    <2>1. TypeOK' /\ sessions' = sessions
      BY <1>7, TypeServe DEF serve
    <2>2. /\ \A q \in Requests : q # r => req'[q] = req[q]
          /\ \/ req'[r].at = "idle"
             \/ req'[r].at = "user" /\ req'[r].session = None
      BY <1>7 DEF serve, Respond, Continue, TypeOK, Idle
    <2> QED BY <2>1, <2>2 DEF Asked, SessionsOpen, Refreshing, At
  <1>8. ASSUME NEW r \in Requests, Stop(r)
        PROVE  TypeInv'
    <2>1. TypeOK' /\ Opens
      BY <1>8, TypeStop DEF Stop
    <2>2. \A q \in Requests : Quiet(q)
      BY <1>8, RespondTyped DEF Stop, TypeOK, Idle
    <2> QED BY <1>q, <2>1, <2>2
  <1>9. CASE Tick
    BY <1>9, <1>q, TypeTick DEF Tick
  <1>10. CASE UNCHANGED vars
    BY <1>10 DEF vars, TypeOK, Asked, SessionsOpen, At, Refreshing
  <1> QED BY <1>1, <1>2, <1>3, <1>4, <1>5, <1>6, <1>7, <1>8, <1>9, <1>10
          DEF Next

(* The credentials of users are well typed: no renewal loses a field or    *)
(* hands out a generation beyond the bound.                                *)
THEOREM TypeCorrect == Spec => []TypeOK
  <1>1. TypeInv => TypeOK
    BY DEF TypeInv
  <1> QED BY <1>1, InitTypeInv, TypeInvStep, PTL DEF Spec

-----------------------------------------------------------------------------
(* Rotation.  A copy of the credentials of user u: the stored one, or one  *)
(* a handler is renewing.                                                  *)

Stored(u, rec) == Present(UserKey(u)) /\ Value(UserKey(u)) = rec

InFlight(r, u, rec) ==
    Refreshing(r) /\ req[r].user = u /\ req[r].record = rec

Holds(u, rec) ==
    Stored(u, rec) \/ \E r \in Requests : InFlight(r, u, rec)

(* A consent was given before there is a copy, and is one user's; no copy  *)
(* is ahead of Atlassian.                                                  *)
ConsentInv ==
    /\ \A u \in Users, rec \in UserRecord :
           Holds(u, rec) =>
               /\ live[rec.grant] \in Generations
               /\ rec.gen # None => rec.gen <= live[rec.grant]
    /\ \A u, v \in Users, x, y \in UserRecord :
           (Holds(u, x) /\ Holds(v, y) /\ x.grant = y.grant) => u = v

(* A handler about to store credentials has the newest generation; of a    *)
(* rotating consent no other copy has it.                                  *)
NewestInv ==
    \A r \in Requests : Renewing(r) =>
        LET g == req[r].record.grant
        IN  /\ req[r].record.gen = live[g]
            /\ g \in Rotating =>
                   /\ \A q \in Requests \ {r} :
                          (Refreshing(q) /\ req[q].record.grant = g)
                              => req[q].record.gen # live[g]
                   /\ \A u \in Users, rec \in UserRecord :
                          (Stored(u, rec) /\ rec.grant = g)
                              => rec.gen # live[g]

(* RefreshTokenKept, for one copy. *)
Kept(u, rec) ==
    \/ rec.gen \in {None, live[rec.grant]}
    \/ rec.grant \in dropped
    \/ \E r \in Requests :
           /\ Renewing(r)
           /\ req[r].user = u
           /\ req[r].record.grant = rec.grant
           /\ req[r].record.gen = live[rec.grant]

KeptInv == \A u \in Users, rec \in UserRecord : Stored(u, rec) => Kept(u, rec)

RefreshInv == TypeInv /\ ConsentInv /\ NewestInv /\ KeptInv

(* What is in flight is well typed. *)
LEMMA InFlightTyped ==
    ASSUME TypeInv, NEW r \in Requests, Refreshing(r)
    PROVE  /\ req[r].user \in Users /\ req[r].record \in UserRecord
           /\ req[r].record.grant \in Grants
           /\ req[r].record.gen \in Generations
           /\ InFlight(r, req[r].user, req[r].record)
           /\ Holds(req[r].user, req[r].record)
  BY HandlerAt DEF TypeInv, TypeOK, Asked, Refreshing, UserRecord, InFlight,
                   Holds

LEMMA KeptInvSuffices == TypeInv /\ KeptInv => RefreshTokenKept
  <1> SUFFICES ASSUME TypeInv, KeptInv, NEW u \in Users, Present(UserKey(u))
               PROVE  Kept(u, Value(UserKey(u)))
    BY DEF RefreshTokenKept, Kept
  <1>1. Value(UserKey(u)) \in UserRecord
    BY GetTyped DEF TypeInv, TypeOK, StoreTyped
  <1> QED BY <1>1 DEF KeptInv, Stored

LEMMA NewestInvSuffices == TypeInv /\ NewestInv => RefreshSerialised
  BY DEF NewestInv, RefreshSerialised, Renewing, Refreshing, At

LEMMA InitRefreshInv == Init => RefreshInv
  <1> SUFFICES ASSUME Init PROVE RefreshInv
    OBVIOUS
  <1>1. TypeInv
    BY InitTypeInv
  <1>2. \A u \in Users : ~ Present(UserKey(u))
    BY KeyInKey DEF Init, Present, Absent
  <1>3. \A r \in Requests : ~ Refreshing(r) /\ ~ Renewing(r)
    BY DEF Init, Idle, Refreshing, Renewing, At
  <1> QED BY <1>1, <1>2, <1>3
          DEF RefreshInv, ConsentInv, NewestInv, KeptInv, Holds, Stored,
              InFlight

(* A step that makes no copy and forgets none that is needed.              *)
LEMMA QuietStep ==
    ASSUME RefreshInv, TypeInv', live' = live, dropped \subseteq dropped',
           \A u \in Users : Present(UserKey(u))' =>
               /\ Present(UserKey(u))
               /\ Value(UserKey(u))' = Value(UserKey(u)),
           \A r \in Requests :
               \/ req'[r] = req[r]
               \/ /\ ~ Refreshing(r)'
                  /\ Renewing(r) => req[r].record.grant \in dropped'
    PROVE  RefreshInv'
  <1>1. \A u \in Users, rec \in UserRecord :
            Stored(u, rec)' => Stored(u, rec)
    BY DEF Stored
  <1>2. \A r \in Requests :
            Refreshing(r)' => req'[r] = req[r] /\ Refreshing(r)
    BY DEF Refreshing
  <1>3. \A r \in Requests :
            Renewing(r)' => req'[r] = req[r] /\ Renewing(r)
    BY DEF Renewing, At, Refreshing
  <1>4. \A u \in Users, rec \in UserRecord : Holds(u, rec)' => Holds(u, rec)
    BY <1>1, <1>2 DEF Holds, InFlight
  <1>5. ConsentInv'
    BY <1>4 DEF RefreshInv, ConsentInv
  <1>6. NewestInv'
    BY <1>1, <1>2, <1>3 DEF RefreshInv, NewestInv
  <1>7. ASSUME NEW u \in Users, NEW rec \in UserRecord, Stored(u, rec)'
        PROVE  Kept(u, rec)'
    <2>1. Kept(u, rec)
      BY <1>1, <1>7 DEF RefreshInv, KeptInv
    <2>2. \A r \in Requests : Renewing(r) =>
              \/ req'[r] = req[r] /\ Renewing(r)'
              \/ req[r].record.grant \in dropped'
      BY DEF Renewing, At
    <2> QED BY <2>1, <2>2 DEF Kept
  <1> QED BY <1>5, <1>6, <1>7 DEF RefreshInv, KeptInv

(* A handler takes a copy of the stored record to renew it. *)
LEMMA BeginRefresh ==
    ASSUME RefreshInv, TypeInv', NEW r \in Requests, ~ Refreshing(r),
           UNCHANGED <<store, clock, live, dropped>>,
           \A q \in Requests : q # r => req'[q] = req[q],
           req'[r].at = "refresh",
           NEW u \in Users, req'[r].user = u, Present(UserKey(u)),
           req'[r].record = Value(UserKey(u))
    PROVE  RefreshInv'
  <1> DEFINE rec == Value(UserKey(u))
  <1>1. rec \in UserRecord /\ Stored(u, rec) /\ Holds(u, rec)
    BY GetTyped DEF RefreshInv, TypeInv, TypeOK, StoreTyped, Stored, Holds
  <1>2. \A v \in Users, x \in UserRecord : Stored(v, x)' = Stored(v, x)
    BY DEF Stored, Present, Value
  <1>3. \A q \in Requests : Renewing(q)' = Renewing(q) /\ ~ Renewing(r)
                            /\ (Renewing(q) => req'[q] = req[q])
    BY DEF Renewing, At, Refreshing
  <1>4. \A v \in Users, x \in UserRecord : Holds(v, x)' => Holds(v, x)
    BY <1>1, <1>2 DEF Holds, InFlight, Refreshing
  <1>5. ConsentInv'
    BY <1>4 DEF RefreshInv, ConsentInv
  <1>6. NewestInv'
    BY <1>1, <1>2, <1>3 DEF RefreshInv, NewestInv, Refreshing
  <1>7. KeptInv'
    BY <1>2, <1>3 DEF RefreshInv, KeptInv, Kept
  <1> QED BY <1>5, <1>6, <1>7 DEF RefreshInv

(* Atlassian rotates: the copy in flight is the newest, and the only one.  *)
LEMMA Rotates ==
    ASSUME RefreshInv, TypeInv', NEW r \in Requests, Refreshing(r),
           ~ Renewing(r), NEW new \in UserRecord, NEW g, NEW gen,
           g = req[r].record.grant, gen = live[g], req[r].record.gen = gen,
           g \in Rotating, gen + 1 \in Generations,
           new.grant = g, new.gen = gen + 1,
           req'[r] = Holding(req[r], new),
           \A q \in Requests : q # r => req'[q] = req[q],
           live' = [live EXCEPT ![g] = gen + 1],
           UNCHANGED <<store, clock, dropped>>
    PROVE  RefreshInv'
  <1> DEFINE u == req[r].user
             old == req[r].record
  <1>1. /\ u \in Users /\ old \in UserRecord /\ g \in Grants
        /\ gen \in Generations /\ gen \in Nat /\ Holds(u, old)
    BY InFlightTyped, RefreshAssumption DEF RefreshInv, Generations
  <1>2. /\ Renewing(r)' /\ Refreshing(r)'
        /\ req'[r].user = u /\ req'[r].record = new
    BY DEF Holding, Renewing, Refreshing, At
  <1>3. /\ live'[g] = gen + 1
        /\ \A h \in Grants : h # g => live'[h] = live[h]
    BY <1>1 DEF RefreshInv, TypeInv, TypeOK
  <1>4. \A v \in Users, x \in UserRecord :
            Stored(v, x)' = Stored(v, x)
    BY DEF Stored, Present, Value
  <1>5. \A v \in Users, x \in UserRecord :
            Holds(v, x)' => Holds(v, x) \/ (v = u /\ x = new)
    BY <1>2, <1>4 DEF Holds, InFlight, Refreshing
  <1>6. \A x \in UserRecord : x.grant \in Grants /\ x.gen \in Generations
                                                    \union {None}
    BY DEF UserRecord
  <1>7. \A v \in Users, x \in UserRecord :
            (Holds(v, x) /\ x.grant = g) =>
                v = u /\ (x.gen # None => x.gen <= gen)
    BY <1>1 DEF RefreshInv, ConsentInv
  <1>8. \A q \in Requests : Renewing(q) => q # r /\ req[q].record.grant # g
    BY DEF RefreshInv, NewestInv
  <1>9. ConsentInv'
    <2>1. ASSUME NEW v \in Users, NEW x \in UserRecord, Holds(v, x)'
          PROVE  /\ live'[x.grant] \in Generations
                 /\ x.gen # None => x.gen <= live'[x.grant]
      <3>1. CASE v = u /\ x = new
        BY <1>1, <1>3, <3>1
      <3>2. CASE Holds(v, x) /\ x.grant = g
        BY <1>1, <1>3, <1>6, <1>7, <3>2, RefreshAssumption DEF Generations
      <3>3. CASE Holds(v, x) /\ x.grant # g
        BY <1>3, <1>6, <3>3 DEF RefreshInv, ConsentInv
      <3> QED BY <1>5, <2>1, <3>1, <3>2, <3>3
    <2>2. ASSUME NEW v \in Users, NEW w \in Users, NEW x \in UserRecord,
                 NEW y \in UserRecord, Holds(v, x)', Holds(w, y)',
                 x.grant = y.grant
          PROVE  v = w
      BY <1>5, <1>7, <2>2 DEF RefreshInv, ConsentInv
    <2> QED BY <2>1, <2>2 DEF ConsentInv
  <1>10. ASSUME NEW x \in UserRecord, NEW v \in Users, Holds(v, x),
                x.grant = g
         PROVE  x.gen # live'[g]
    <2>1. x.gen = None \/ (x.gen \in Nat /\ x.gen <= gen)
      BY <1>6, <1>7, <1>10 DEF Generations
    <2> QED BY <1>1, <1>3, <2>1, RefreshAssumption
  <1>11. NewestInv'
    <2>1. ASSUME NEW q \in Requests, Renewing(q)', q # r
          PROVE  LET h == req'[q].record.grant
                 IN  /\ req'[q].record.gen = live'[h]
                     /\ h \in Rotating =>
                            /\ \A p \in Requests \ {q} :
                                   (Refreshing(p)' /\ req'[p].record.grant = h)
                                       => req'[p].record.gen # live'[h]
                            /\ \A v \in Users, x \in UserRecord :
                                   (Stored(v, x)' /\ x.grant = h)
                                       => x.gen # live'[h]
      <3>1. /\ Renewing(q) /\ req'[q] = req[q]
            /\ req[q].record.grant # g
        BY <1>8, <2>1 DEF Renewing, At
      <3>2. req[q].record.grant \in Grants
        BY <3>1, InFlightTyped DEF RefreshInv, Renewing, Refreshing, At
      <3>3. live'[req[q].record.grant] = live[req[q].record.grant]
        BY <1>3, <3>1, <3>2
      <3> QED BY <1>2, <1>4, <3>1, <3>3
              DEF RefreshInv, NewestInv, Refreshing
    <2>2. ASSUME NEW p \in Requests \ {r}, Refreshing(p)',
                 req'[p].record.grant = g
          PROVE  req'[p].record.gen # live'[g]
      <3>1. Refreshing(p) /\ req'[p] = req[p]
        BY <2>2 DEF Refreshing
      <3> QED BY <1>10, <2>2, <3>1, InFlightTyped DEF RefreshInv
    <2>3. \A v \in Users, x \in UserRecord :
              (Stored(v, x)' /\ x.grant = g) => x.gen # live'[g]
      BY <1>4, <1>10 DEF Holds
    <2>4. /\ req'[r].record.grant = g
          /\ req'[r].record.gen = live'[g]
      BY <1>2, <1>3
    <2> QED BY <2>1, <2>2, <2>3, <2>4 DEF NewestInv
  <1>12. KeptInv'
    <2> SUFFICES ASSUME NEW v \in Users, NEW x \in UserRecord, Stored(v, x)'
                 PROVE  Kept(v, x)'
      BY DEF KeptInv
    <2>1. Stored(v, x) /\ Kept(v, x) /\ Holds(v, x) /\ x.grant \in Grants
      BY <1>4, <1>6 DEF RefreshInv, KeptInv, Holds
    <2>2. CASE x.grant = g
      <3>1. v = u
        BY <1>7, <2>1, <2>2
      <3>2. /\ req'[r].user = v
            /\ req'[r].record.grant = x.grant
            /\ req'[r].record.gen = live'[x.grant]
        BY <1>2, <1>3, <2>2, <3>1
      <3> QED BY <1>2, <3>2 DEF Kept
    <2>3. CASE x.grant # g
      <3>1. live'[x.grant] = live[x.grant]
        BY <1>3, <2>1, <2>3
      <3>2. \A q \in Requests : Renewing(q) =>
                Renewing(q)' /\ req'[q] = req[q]
        BY <1>8 DEF Renewing, At
      <3> QED BY <2>1, <3>1, <3>2 DEF Kept
    <2> QED BY <2>2, <2>3
  <1> QED BY <1>9, <1>11, <1>12 DEF RefreshInv

(* A consent that does not rotate keeps its generation. *)
LEMMA RenewsInPlace ==
    ASSUME RefreshInv, TypeInv', NEW r \in Requests, Refreshing(r),
           ~ Renewing(r), NEW new \in UserRecord,
           req[r].record.grant \notin Rotating,
           req[r].record.gen = live[req[r].record.grant],
           new.grant = req[r].record.grant, new.gen = req[r].record.gen,
           req'[r] = Holding(req[r], new),
           \A q \in Requests : q # r => req'[q] = req[q],
           UNCHANGED <<store, clock, live, dropped>>
    PROVE  RefreshInv'
  <1> DEFINE u == req[r].user
             old == req[r].record
  <1>1. u \in Users /\ old \in UserRecord /\ Holds(u, old)
    BY InFlightTyped DEF RefreshInv
  <1>2. /\ Renewing(r)' /\ Refreshing(r)'
        /\ req'[r].user = u /\ req'[r].record = new
    BY DEF Holding, Renewing, Refreshing, At
  <1>3. \A v \in Users, x \in UserRecord : Stored(v, x)' = Stored(v, x)
    BY DEF Stored, Present, Value
  <1>4. \A v \in Users, x \in UserRecord :
            Holds(v, x)' => Holds(v, x) \/ (v = u /\ x = new)
    BY <1>2, <1>3 DEF Holds, InFlight, Refreshing
  <1>5. ConsentInv'
    BY <1>1, <1>4 DEF RefreshInv, ConsentInv
  <1>6. \A q \in Requests : q # r =>
            /\ Renewing(q)' = Renewing(q)
            /\ Refreshing(q)' = Refreshing(q)
    BY DEF Renewing, Refreshing, At
  <1>7. NewestInv'
    BY <1>2, <1>3, <1>6 DEF RefreshInv, NewestInv
  <1>8. KeptInv'
    BY <1>3, <1>6 DEF RefreshInv, KeptInv, Kept
  <1> QED BY <1>5, <1>7, <1>8 DEF RefreshInv

(* A handler stores what it renewed, over whatever is there. *)
LEMMA StoreRenewed ==
    ASSUME RefreshInv, TypeInv', NEW r \in Requests, Renewing(r),
           ~ Refreshing(r)',
           \A q \in Requests : q # r => req'[q] = req[q],
           store'[UserKey(req[r].user)].val = req[r].record,
           \A v \in Users : v # req[r].user =>
               store'[UserKey(v)] = store[UserKey(v)],
           UNCHANGED <<clock, live, dropped>>
    PROVE  RefreshInv'
  <1> DEFINE u == req[r].user
             rec == req[r].record
  <1>1. /\ Refreshing(r) /\ u \in Users /\ rec \in UserRecord
        /\ Holds(u, rec)
    BY InFlightTyped DEF RefreshInv, Renewing, Refreshing, At
  <1>2. \A v \in Users, x \in UserRecord :
            Stored(v, x)' => Stored(v, x) \/ (v = u /\ x = rec)
    BY DEF Stored, Present, Value
  <1>3. \A q \in Requests :
            Refreshing(q)' => /\ q # r /\ Refreshing(q) /\ req'[q] = req[q]
                              /\ Renewing(q)' => Renewing(q)
    BY DEF Refreshing, Renewing, At
  <1>4. \A q \in Requests : Renewing(q)' => Refreshing(q)'
    BY DEF Refreshing, Renewing, At
  <1>5. \A v \in Users, x \in UserRecord : Holds(v, x)' => Holds(v, x)
    BY <1>1, <1>2, <1>3 DEF Holds, InFlight
  <1>6. ConsentInv'
    BY <1>5 DEF RefreshInv, ConsentInv
  <1>7. NewestInv'
    BY <1>1, <1>2, <1>3, <1>4 DEF RefreshInv, NewestInv
  <1>8. ASSUME NEW v \in Users, NEW x \in UserRecord, Stored(v, x)'
        PROVE  Kept(v, x)'
    <2>1. CASE v = u
      <3>1. x = rec
        BY <1>8, <2>1 DEF Stored, Value
      <3>2. rec.gen = live[rec.grant]
        BY DEF RefreshInv, NewestInv
      <3> QED BY <3>1, <3>2 DEF Kept
    <2>2. CASE v # u
      <3>1. Kept(v, x)
        BY <1>2, <1>8, <2>2 DEF RefreshInv, KeptInv
      <3>2. \A q \in Requests :
                Renewing(q) /\ req[q].user = v =>
                    Renewing(q)' /\ req'[q] = req[q]
        BY <2>2 DEF Renewing, At
      <3> QED BY <3>1, <3>2 DEF Kept
    <2> QED BY <2>1, <2>2
  <1> QED BY <1>6, <1>7, <1>8 DEF RefreshInv, KeptInv

(* A fresh consent has no copy yet but the one stored with it. *)
LEMMA ConsentGiven ==
    ASSUME RefreshInv, TypeInv', NEW u \in Users, NEW g \in Grants,
           NEW gen \in {0, None}, NEW new, new.grant = g, new.gen = gen,
           live[g] = None, live' = [live EXCEPT ![g] = 0],
           store'[UserKey(u)].val = new,
           \A v \in Users : v # u =>
               store'[UserKey(v)] = store[UserKey(v)],
           UNCHANGED <<clock, req, dropped>>
    PROVE  RefreshInv'
  <1>1. /\ live'[g] = 0
        /\ \A h \in Grants : h # g => live'[h] = live[h]
    BY DEF RefreshInv, TypeInv, TypeOK
  <1>2. \A v \in Users, x \in UserRecord :
            Holds(v, x) => x.grant # g /\ x.grant \in Grants
    BY RefreshAssumption DEF RefreshInv, ConsentInv, UserRecord, Generations
  <1>3. \A v \in Users, x \in UserRecord :
            Stored(v, x)' => Stored(v, x) \/ (v = u /\ x = new)
    BY DEF Stored, Present, Value
  <1>4. \A q \in Requests : /\ Refreshing(q)' = Refreshing(q)
                            /\ Renewing(q)' = Renewing(q)
                            /\ req'[q] = req[q]
    BY DEF Refreshing, Renewing, At
  <1>5. \A v \in Users, x \in UserRecord :
            Holds(v, x)' => Holds(v, x) \/ (v = u /\ x = new)
    BY <1>3, <1>4 DEF Holds, InFlight
  <1>6. ConsentInv'
    <2>1. ASSUME NEW v \in Users, NEW x \in UserRecord, Holds(v, x)'
          PROVE  /\ live'[x.grant] \in Generations
                 /\ x.gen # None => x.gen <= live'[x.grant]
      <3>1. CASE v = u /\ x = new
        BY <1>1, <3>1, RefreshAssumption DEF Generations
      <3>2. CASE Holds(v, x)
        BY <1>1, <1>2, <3>2 DEF RefreshInv, ConsentInv
      <3> QED BY <1>5, <2>1, <3>1, <3>2
    <2>2. ASSUME NEW v \in Users, NEW w \in Users, NEW x \in UserRecord,
                 NEW y \in UserRecord, Holds(v, x)', Holds(w, y)',
                 x.grant = y.grant
          PROVE  v = w
      BY <1>2, <1>5, <2>2 DEF RefreshInv, ConsentInv
    <2> QED BY <2>1, <2>2 DEF ConsentInv
  <1>7. \A q \in Requests : Renewing(q) =>
            /\ Refreshing(q)
            /\ req[q].record.grant # g
            /\ live'[req[q].record.grant] = live[req[q].record.grant]
    <2> SUFFICES ASSUME NEW q \in Requests, Renewing(q)
                 PROVE  /\ Refreshing(q)
                        /\ req[q].record.grant # g
                        /\ live'[req[q].record.grant]
                               = live[req[q].record.grant]
      OBVIOUS
    <2>1. Refreshing(q)
      BY DEF Renewing, Refreshing, At
    <2> QED BY <1>1, <1>2, <2>1, InFlightTyped DEF RefreshInv
  <1>8. NewestInv'
    BY <1>3, <1>4, <1>7 DEF RefreshInv, NewestInv
  <1>9. ASSUME NEW v \in Users, NEW x \in UserRecord, Stored(v, x)'
        PROVE  Kept(v, x)'
    <2>1. CASE v = u /\ x = new
      BY <1>1, <2>1 DEF Kept
    <2>2. CASE Stored(v, x)
      <3>1. Kept(v, x) /\ live'[x.grant] = live[x.grant]
        BY <1>1, <1>2, <2>2 DEF RefreshInv, KeptInv, Holds
      <3> QED BY <1>4, <3>1 DEF Kept
    <2> QED BY <1>3, <1>9, <2>1, <2>2
  <1> QED BY <1>6, <1>8, <1>9 DEF RefreshInv, KeptInv

LEMMA RefreshInvStep == RefreshInv /\ [Next]_vars => RefreshInv'
  <1> SUFFICES ASSUME RefreshInv, [Next]_vars
               PROVE  RefreshInv'
    OBVIOUS
  <1>0. TypeInv /\ TypeInv'
    BY TypeInvStep DEF RefreshInv
  <1>t. /\ TypeOK /\ Asked /\ StoreTyped
        /\ req \in [Requests -> Handler]
    BY <1>0 DEF TypeInv, TypeOK, StoreTyped
  <1>1. ASSUME NEW u \in Users, NEW g \in Grants, NEW tools \in ToolSets,
               NEW gen \in {0, None}, completeUser(u, g, tools, gen)
        PROVE  RefreshInv'
    <2> DEFINE rec == [grant |-> g, gen |-> gen,
                       expires |-> clock + AccessTTL,
                       tools |-> tools, sealed |-> TRUE]
    <2>1. rec \in UserRecord /\ rec.grant = g /\ rec.gen = gen
      BY <1>t, RefreshAssumption DEF UserRecord, Generations, TypeOK
    <2>2. Put(UserKey(u), rec, UserTTL)
      BY <1>1 DEF completeUser
    <2> HIDE DEF rec
    <2>3. /\ store'[UserKey(u)] = [val |-> rec, exp |-> clock + UserTTL]
          /\ \A v \in Users : v # u =>
                 store'[UserKey(v)] = store[UserKey(v)]
      BY <1>t, <2>1, <2>2, PutUser DEF TypeOK
    <2>4. /\ store'[UserKey(u)].val = rec
          /\ live[g] = None /\ live' = [live EXCEPT ![g] = 0]
          /\ UNCHANGED <<clock, req, dropped>>
      BY <1>1, <2>3 DEF completeUser
    <2> QED BY <1>0, <2>1, <2>3, <2>4, ConsentGiven
  <1>2. ASSUME NEW t \in Bearers, NEW u \in Users, token(t, u)
        PROVE  RefreshInv'
    <2>1. \A v \in Users : store'[UserKey(v)] = store[UserKey(v)]
      BY <1>t, <1>2, PutToken DEF token, TypeOK
    <2>2. UNCHANGED <<clock, req, live, dropped>>
      BY <1>2 DEF token
    <2> QED BY <1>0, <2>1, <2>2, QuietStep DEF Present, Value
  <1>3. ASSUME NEW r \in Requests, NEW t \in Bearers,
               NEW s \in Sessions \union {None}, mcp(r, t, s)
        PROVE  RefreshInv'
    <2>1. /\ UNCHANGED <<store, clock, live, dropped>>
          /\ ~ Renewing(r) /\ ~ Refreshing(r)'
          /\ \A q \in Requests : q # r => req'[q] = req[q]
      BY <1>t, <1>3 DEF mcp, Continue, Renewing, Refreshing, At
    <2> QED BY <1>0, <2>1, QuietStep DEF Present, Value
  <1>4. ASSUME NEW r \in Requests, userFromRequest(r)
        PROVE  RefreshInv'
    <2> DEFINE u == req[r].user
               rec == Value(UserKey(u))
    <2>1. /\ UNCHANGED <<store, clock, live, dropped>>
          /\ ~ Renewing(r) /\ ~ Refreshing(r) /\ u \in Users
      BY <1>t, <1>4, HandlerAt DEF userFromRequest, Renewing, Refreshing, At
    <2>2. /\ \A q \in Requests : q # r => req'[q] = req[q]
          /\ \/ ~ Refreshing(r)'
             \/ /\ req'[r].at = "refresh" /\ req'[r].user = u
                /\ Present(UserKey(u)) /\ req'[r].record = rec
      BY <1>t, <1>4 DEF userFromRequest, Authenticated, Respond, Continue,
                        Idle, Refreshing
    <2>3. CASE ~ Refreshing(r)'
      BY <1>0, <2>1, <2>2, <2>3, QuietStep DEF Present, Value
    <2>4. CASE /\ req'[r].at = "refresh" /\ req'[r].user = u
               /\ Present(UserKey(u)) /\ req'[r].record = rec
      BY <1>0, <2>1, <2>2, <2>4, BeginRefresh
    <2> QED BY <2>2, <2>3, <2>4
  <1>5. ASSUME NEW r \in Requests, refreshUser(r)
        PROVE  RefreshInv'
    <2>1. /\ UNCHANGED <<store, clock, dropped>>
          /\ ~ Renewing(r) /\ Refreshing(r)
      BY <1>5 DEF refreshUser, Renewing, Refreshing, At
    <2>2. CASE Respond(r) /\ UNCHANGED live
      <3>1. /\ req'[r] = Idle
            /\ \A q \in Requests : q # r => req'[q] = req[q]
        BY <1>t, <2>2, RespondTyped
      <3>2. ~ Refreshing(r)'
        BY <3>1 DEF Refreshing, Idle
      <3> QED BY <1>0, <2>1, <2>2, <3>1, <3>2, QuietStep DEF Present, Value
    <2>3. ASSUME NEW new \in UserRecord, Renewal(r, new)
          PROVE  RefreshInv'
      <3>1. /\ req'[r] = Holding(req[r], new)
            /\ \A q \in Requests : q # r => req'[q] = req[q]
        BY <1>t, <2>3 DEF Renewal, Continue
      <3>2. CASE req[r].record.grant \in Rotating
        BY <1>0, <2>1, <2>3, <3>1, <3>2, Rotates DEF Renewal
      <3>3. CASE req[r].record.grant \notin Rotating
        BY <1>0, <2>1, <2>3, <3>1, <3>3, RenewsInPlace DEF Renewal
      <3> QED BY <3>2, <3>3
    <2> QED BY <1>t, <1>5, <2>2, <2>3, RefreshEffect
  <1>6. ASSUME NEW r \in Requests, refreshPut(r)
        PROVE  RefreshInv'
    <2>1. UNCHANGED <<clock, live, dropped>> /\ Renewing(r)
      BY <1>6 DEF refreshPut, Renewing
    <2> QED BY <1>0, <1>t, <1>6, <2>1, PutEffect, StoreRenewed
  <1>7. ASSUME NEW r \in Requests, serve(r)
        PROVE  RefreshInv'
    <2>1. /\ UNCHANGED <<store, clock, live, dropped>>
          /\ ~ Renewing(r) /\ ~ Refreshing(r)'
          /\ \A q \in Requests : q # r => req'[q] = req[q]
      BY <1>t, <1>7 DEF serve, Respond, Continue, Renewing, Refreshing, At,
                        Idle
    <2> QED BY <1>0, <2>1, QuietStep DEF Present, Value
  <1>8. ASSUME NEW r \in Requests, Stop(r)
        PROVE  RefreshInv'
    <2>1. /\ UNCHANGED <<store, clock, live>>
          /\ dropped \subseteq dropped'
          /\ Renewing(r) => req[r].record.grant \in dropped'
      BY <1>8 DEF Stop, Renewing
    <2>2. /\ req'[r] = Idle
          /\ \A q \in Requests : q # r => req'[q] = req[q]
      BY <1>t, <1>8, RespondTyped DEF Stop
    <2>3. ~ Refreshing(r)'
      BY <2>2 DEF Refreshing, Idle
    <2> QED BY <1>0, <2>1, <2>2, <2>3, QuietStep DEF Present, Value
  <1>9. CASE Tick
    <2>1. UNCHANGED <<req, live, dropped>> /\ Elapse
      BY <1>9 DEF Tick
    <2>2. \A u \in Users : Present(UserKey(u))' =>
              /\ Present(UserKey(u))
              /\ store'[UserKey(u)] = store[UserKey(u)]
      BY <1>t, <2>1, ElapseEffect DEF TypeOK
    <2>3. \A u \in Users : Present(UserKey(u))' =>
              /\ Present(UserKey(u))
              /\ Value(UserKey(u))' = Value(UserKey(u))
      BY <2>2 DEF Value
    <2> QED BY <1>0, <2>1, <2>3, QuietStep
  <1>10. CASE UNCHANGED vars
    <2>1. UNCHANGED <<store, clock, req, live, dropped>>
      BY <1>10 DEF vars
    <2> QED BY <1>0, <2>1, QuietStep DEF Present, Value
  <1> QED BY <1>1, <1>2, <1>3, <1>4, <1>5, <1>6, <1>7, <1>8, <1>9, <1>10
          DEF Next

LEMMA RefreshInvariant == Spec => []RefreshInv
  BY InitRefreshInv, RefreshInvStep, PTL DEF Spec

(* Whatever requests run at once, the refresh token Atlassian rotated to   *)
(* of the consent whose record is stored is there or about to be; only a   *)
(* handler stopped in between loses it.                                    *)
THEOREM TokenKept == Spec => []RefreshTokenKept
  <1>1. RefreshInv => RefreshTokenKept
    BY KeptInvSuffices DEF RefreshInv
  <1> QED BY <1>1, RefreshInvariant, PTL

(* No two handlers hold renewed credentials of one rotating consent.       *)
THEOREM Serialised == Spec => []RefreshSerialised
  <1>1. RefreshInv => RefreshSerialised
    BY NewestInvSuffices DEF RefreshInv
  <1> QED BY <1>1, RefreshInvariant, PTL
=============================================================================
