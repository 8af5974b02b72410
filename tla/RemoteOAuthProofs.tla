------------------------- MODULE RemoteOAuthProofs -------------------------
(***************************************************************************)
(* Proofs about the sign-in protocol of module RemoteOAuth.                *)
(*                                                                         *)
(* Type correctness needs one fact beside TypeOK, ConsentHeld: a handler   *)
(* between the exchange and the write holds a code Atlassian did issue.    *)
(* That a browser login gives one session (BrowserLoginSafe) follows from  *)
(* LoginInv: a login flow or a code that is still in the store, or held by *)
(* a handler that took it, has given no session yet, and no two handlers   *)
(* hold the same one.                                                      *)
(*                                                                         *)
(* The later parts prove the provenance of bearer tokens and browser       *)
(* sessions, the isolation of a browser login's record, that forms and     *)
(* codes are gone once they served, that a user record outlives what       *)
(* refers to it, and that no two codes or tokens come of one consent when  *)
(* requests do not overlap; each states its invariants where it begins.    *)
(***************************************************************************)
EXTENDS RemoteOAuth, Integers, TLAPS

-----------------------------------------------------------------------------
(* Keys of different name spaces never meet, and within one they are told  *)
(* apart by the value they are made from.                                  *)

LEMMA KeyInKey ==
    /\ \A c \in ClientIds : ClientKey(c) \in Key
    /\ \A s \in States : StateKey(s) \in Key /\ PendingKey(s) \in Key
    /\ \A c \in Codes : CodeKey(c) \in Key
    /\ \A t \in Tokens : TokenKey(t) \in Key
    /\ \A u \in UserIds : UserKey(u) \in Key
    /\ \A f \in Logins : FlowKey(f) \in Key
    /\ \A s \in Sessions : SessionKey(s) \in Key
  BY DEF Key

Prefix(k) == k[1]

LEMMA KeyPrefix ==
    ASSUME NEW x
    PROVE  /\ Prefix(ClientKey(x)) = "mcp:client"
           /\ Prefix(StateKey(x)) = "oauth:state"
           /\ Prefix(PendingKey(x)) = "oauth:pending"
           /\ Prefix(CodeKey(x)) = "oauth:code"
           /\ Prefix(TokenKey(x)) = "mcp:token"
           /\ Prefix(UserKey(x)) = "mcp:user"
           /\ Prefix(FlowKey(x)) = "web:flow"
           /\ Prefix(SessionKey(x)) = "web:session"
  BY DEF Prefix, ClientKey, StateKey, PendingKey, CodeKey, TokenKey, UserKey,
         FlowKey, SessionKey

LEMMA KeyInjective ==
    ASSUME NEW x, NEW y
    PROVE  /\ ClientKey(x) = ClientKey(y) => x = y
           /\ StateKey(x) = StateKey(y) => x = y
           /\ PendingKey(x) = PendingKey(y) => x = y
           /\ CodeKey(x) = CodeKey(y) => x = y
           /\ TokenKey(x) = TokenKey(y) => x = y
           /\ UserKey(x) = UserKey(y) => x = y
           /\ FlowKey(x) = FlowKey(y) => x = y
           /\ SessionKey(x) = SessionKey(y) => x = y
  BY DEF ClientKey, StateKey, PendingKey, CodeKey, TokenKey, UserKey,
         FlowKey, SessionKey

(* What the store holds after each command. *)
LEMMA PutEffect ==
    ASSUME StoreOK, NEW k \in Key, NEW v, NEW ttl, Put(k, v, ttl)
    PROVE  /\ DOMAIN store' = Key
           /\ \A j \in Key : j # k => store'[j] = store[j]
           /\ store'[k] = [val |-> v, exp |-> clock + ttl]
  BY DEF StoreOK, Put

LEMMA DeleteEffect ==
    ASSUME StoreOK, NEW k \in Key, Delete(k)
    PROVE  /\ DOMAIN store' = Key
           /\ \A j \in Key : j # k => store'[j] = store[j]
           /\ store'[k] = Absent
  BY DEF StoreOK, Delete

LEMMA DeleteStoreOK ==
    ASSUME StoreOK, NEW k \in Key, Delete(k)
    PROVE  StoreOK'
  <1>1. DOMAIN store' = Key /\ \A j \in Key : store'[j] \in {store[j], Absent}
    BY DeleteEffect
  <1> QED BY <1>1, KeyInKey DEF StoreOK, Entry

LEMMA ElapseStoreOK ==
    ASSUME StoreOK, Elapse
    PROVE  StoreOK'
  <1>1. DOMAIN store' = Key /\ \A j \in Key : store'[j] \in {store[j], Absent}
    BY DEF StoreOK, Elapse
  <1> QED BY <1>1, KeyInKey DEF StoreOK, Entry

(* A Put of a well-typed value leaves the store well typed: one lemma for  *)
(* each name space.                                                        *)
LEMMA PutClient ==
    ASSUME StoreOK, clock \in Nat, NEW c \in ClientIds, NEW ttl \in Nat,
           NEW v \in [redirects : SUBSET Redirects,
                      browser : BOOLEAN],
           Put(ClientKey(c), v, ttl)
    PROVE  StoreOK'
  <1>1. /\ DOMAIN store' = Key
        /\ \A j \in Key : j # ClientKey(c) => store'[j] = store[j]
        /\ store'[ClientKey(c)] = [val |-> v, exp |-> clock + ttl]
    BY PutEffect, KeyInKey
  <1> QED BY <1>1, KeyInKey, KeyPrefix, KeyInjective DEF StoreOK, Entry

LEMMA PutState ==
    ASSUME StoreOK, clock \in Nat, NEW s \in States, NEW ttl \in Nat,
           NEW v \in AuthorizationRequest,
           Put(StateKey(s), v, ttl)
    PROVE  StoreOK'
  <1>1. /\ DOMAIN store' = Key
        /\ \A j \in Key : j # StateKey(s) => store'[j] = store[j]
        /\ store'[StateKey(s)] = [val |-> v, exp |-> clock + ttl]
    BY PutEffect, KeyInKey
  <1> QED BY <1>1, KeyInKey, KeyPrefix, KeyInjective DEF StoreOK, Entry

LEMMA PutPending ==
    ASSUME StoreOK, clock \in Nat, NEW s \in States, NEW ttl \in Nat,
           NEW v \in Pending,
           Put(PendingKey(s), v, ttl)
    PROVE  StoreOK'
  <1>1. /\ DOMAIN store' = Key
        /\ \A j \in Key : j # PendingKey(s) => store'[j] = store[j]
        /\ store'[PendingKey(s)] = [val |-> v, exp |-> clock + ttl]
    BY PutEffect, KeyInKey
  <1> QED BY <1>1, KeyInKey, KeyPrefix, KeyInjective DEF StoreOK, Entry

LEMMA PutCode ==
    ASSUME StoreOK, clock \in Nat, NEW c \in Codes, NEW ttl \in Nat,
           NEW v \in Auth,
           Put(CodeKey(c), v, ttl)
    PROVE  StoreOK'
  <1>1. /\ DOMAIN store' = Key
        /\ \A j \in Key : j # CodeKey(c) => store'[j] = store[j]
        /\ store'[CodeKey(c)] = [val |-> v, exp |-> clock + ttl]
    BY PutEffect, KeyInKey
  <1> QED BY <1>1, KeyInKey, KeyPrefix, KeyInjective DEF StoreOK, Entry

LEMMA PutToken ==
    ASSUME StoreOK, clock \in Nat, NEW t \in Tokens, NEW ttl \in Nat,
           NEW v \in [user : UserIds],
           Put(TokenKey(t), v, ttl)
    PROVE  StoreOK'
  <1>1. /\ DOMAIN store' = Key
        /\ \A j \in Key : j # TokenKey(t) => store'[j] = store[j]
        /\ store'[TokenKey(t)] = [val |-> v, exp |-> clock + ttl]
    BY PutEffect, KeyInKey
  <1> QED BY <1>1, KeyInKey, KeyPrefix, KeyInjective DEF StoreOK, Entry

LEMMA PutUser ==
    ASSUME StoreOK, clock \in Nat, NEW u \in UserIds, NEW ttl \in Nat,
           NEW v \in [account : Accounts, site : Sites, grant : AtlCodes],
           Put(UserKey(u), v, ttl)
    PROVE  StoreOK'
  <1>1. /\ DOMAIN store' = Key
        /\ \A j \in Key : j # UserKey(u) => store'[j] = store[j]
        /\ store'[UserKey(u)] = [val |-> v, exp |-> clock + ttl]
    BY PutEffect, KeyInKey
  <1> QED BY <1>1, KeyInKey, KeyPrefix, KeyInjective DEF StoreOK, Entry

LEMMA PutFlow ==
    ASSUME StoreOK, clock \in Nat, NEW f \in Logins, NEW ttl \in Nat,
           NEW v \in Flow,
           Put(FlowKey(f), v, ttl)
    PROVE  StoreOK'
  <1>1. /\ DOMAIN store' = Key
        /\ \A j \in Key : j # FlowKey(f) => store'[j] = store[j]
        /\ store'[FlowKey(f)] = [val |-> v, exp |-> clock + ttl]
    BY PutEffect, KeyInKey
  <1> QED BY <1>1, KeyInKey, KeyPrefix, KeyInjective DEF StoreOK, Entry

LEMMA PutSession ==
    ASSUME StoreOK, clock \in Nat, NEW s \in Sessions, NEW ttl \in Nat,
           NEW v \in Session,
           Put(SessionKey(s), v, ttl)
    PROVE  StoreOK'
  <1>1. /\ DOMAIN store' = Key
        /\ \A j \in Key : j # SessionKey(s) => store'[j] = store[j]
        /\ store'[SessionKey(s)] = [val |-> v, exp |-> clock + ttl]
    BY PutEffect, KeyInKey
  <1> QED BY <1>1, KeyInKey, KeyPrefix, KeyInjective DEF StoreOK, Entry

(* What a Get of a present key returns. *)
LEMMA GetTyped ==
    ASSUME StoreOK, clock \in Nat
    PROVE  /\ \A c \in ClientIds : Present(ClientKey(c)) =>
               Value(ClientKey(c)) \in
                 [redirects : SUBSET Redirects,
                  browser : BOOLEAN]
           /\ \A s \in States : Present(StateKey(s)) =>
               Value(StateKey(s)) \in AuthorizationRequest
           /\ \A s \in States : Present(PendingKey(s)) =>
               Value(PendingKey(s)) \in Pending
           /\ \A c \in Codes : Present(CodeKey(c)) =>
               Value(CodeKey(c)) \in Auth
           /\ \A f \in Logins : Present(FlowKey(f)) =>
               Value(FlowKey(f)) \in Flow
           /\ \A s \in Sessions : Present(SessionKey(s)) =>
               Value(SessionKey(s)) \in Session
  BY DEF StoreOK, Entry, Present, Value, Absent

LEMMA ContinueOK ==
    ASSUME req \in [Requests -> Handler], NEW r \in Requests,
           NEW h \in Handler, Continue(r, h)
    PROVE  req' \in [Requests -> Handler]
  BY DEF Continue

LEMMA RespondOK ==
    ASSUME req \in [Requests -> Handler], NEW r \in Requests, Respond(r)
    PROVE  req' \in [Requests -> Handler]
  BY DEF Respond, Continue, Handler

LEMMA TypeInit == Init => StateOK
  BY KeyInKey DEF Init, StateOK, StoreOK, LogsOK, Handler, Idle, Entry

LEMMA TypeRegister ==
    ASSUME StateOK, NEW c \in ClientIds, NEW uris \in SUBSET Redirects,
           register(c, uris)
    PROVE  StateOK'
  <1>1. StoreOK'
    BY PutClient, TTLAssumption DEF StateOK, register
  <1> QED BY <1>1 DEF StateOK, register, external, logs, LogsOK

LEMMA TypeAuthorize ==
    ASSUME StateOK, NEW r \in Requests, NEW a \in AuthorizationRequest,
           authorize(r, a)
    PROVE  StateOK'
  <1>1. [at |-> "authorize.put", auth |-> a] \in Handler
    BY DEF Handler
  <1>2. req' \in [Requests -> Handler]
    BY <1>1, ContinueOK DEF StateOK, authorize
  <1> QED BY <1>2 DEF StateOK, authorize, external, logs, LogsOK, StoreOK

LEMMA TypeAuthorizePut ==
    ASSUME StateOK, NEW r \in Requests, NEW s \in States, authorizePut(r, s)
    PROVE  StateOK'
  <1>1. req[r].auth \in AuthorizationRequest
    BY DEF StateOK, authorizePut, At, Handler, Idle
  <1>2. StoreOK'
    BY <1>1, PutState, TTLAssumption DEF StateOK, authorizePut
  <1>3. req' \in [Requests -> Handler]
    BY RespondOK DEF StateOK, authorizePut
  <1> QED BY <1>1, <1>2, <1>3 DEF StateOK, authorizePut, external, LogsOK

LEMMA TypeCallback ==
    ASSUME StateOK, NEW r \in Requests, NEW s \in States,
           NEW code \in AtlCodes \union {None}, callback(r, s, code)
    PROVE  StateOK'
  <1>1. [at |-> "callback.delete", state |-> s, grant |-> code,
         auth |-> Value(StateKey(s))] \in Handler
    BY GetTyped DEF Handler, StateOK, callback
  <1>2. req' \in [Requests -> Handler]
    BY <1>1, ContinueOK DEF StateOK, callback
  <1>3. grants' \in [AtlCodes -> Grant \union {None}]
    BY DEF StateOK, callback, Consent, Grant
  <1> QED BY <1>2, <1>3 DEF StateOK, callback, logs, LogsOK, StoreOK

LEMMA TypeCallbackDelete ==
    ASSUME StateOK, NEW r \in Requests, callbackDelete(r)
    PROVE  StateOK'
  <1>1. req[r] \in [at : {"callback.delete"}, state : States,
            grant : AtlCodes \union {None}, auth : AuthorizationRequest]
    BY DEF StateOK, callbackDelete, At, Handler, Idle
  <1>2. StoreOK'
    BY <1>1, DeleteStoreOK, KeyInKey DEF StateOK, callbackDelete, StoreOK
  <1>3. req[r].grant # None =>
          [req[r] EXCEPT !.at = "callback.exchange"] \in Handler
    BY <1>1 DEF Handler
  <1>4. req' \in [Requests -> Handler]
    BY <1>3, ContinueOK, RespondOK DEF StateOK, callbackDelete
  <1>5. faults' \in Nat
    BY DEF StateOK, callbackDelete, Fault
  <1> QED BY <1>2, <1>4, <1>5
          DEF StateOK, callbackDelete, external, logs, LogsOK

LEMMA TypeExchange ==
    ASSUME StateOK, NEW r \in Requests, NEW sites \in SUBSET Sites,
           exchangeAtlassian(r, sites)
    PROVE  StateOK'
  <1>1. req[r] \in [at : {"callback.exchange"}, state : States,
                    grant : AtlCodes, auth : AuthorizationRequest]
    BY DEF StateOK, exchangeAtlassian, At, Handler, Idle
  <1>2. [at |-> "callback.put", state |-> req[r].state,
         auth |-> req[r].auth, grant |-> req[r].grant,
         sites |-> sites] \in Handler
    BY <1>1 DEF Handler
  <1>3. req' \in [Requests -> Handler]
    BY <1>2, ContinueOK, RespondOK DEF StateOK, exchangeAtlassian
  <1>4. spent' \subseteq AtlCodes
    BY <1>1 DEF StateOK, exchangeAtlassian
  <1> QED BY <1>3, <1>4 DEF StateOK, exchangeAtlassian, logs, LogsOK, StoreOK

(* A consent that a handler holds is one Atlassian gave. *)
LEMMA TypeCallbackPut ==
    ASSUME StateOK, NEW r \in Requests, callbackPut(r),
           grants[req[r].grant] # None
    PROVE  StateOK'
  <1>1. req[r] \in [at : {"callback.put"}, state : States,
            auth : AuthorizationRequest, grant : AtlCodes,
            sites : SUBSET Sites]
    BY DEF StateOK, callbackPut, At, Handler, Idle
  <1>2. [auth |-> req[r].auth, grant |-> req[r].grant,
         account |-> grants[req[r].grant].account,
         sites |-> req[r].sites] \in Pending
    BY <1>1 DEF Pending, StateOK, Grant
  <1>3. StoreOK'
    BY <1>1, <1>2, PutPending, TTLAssumption DEF StateOK, callbackPut
  <1>4. req' \in [Requests -> Handler]
    BY RespondOK DEF StateOK, callbackPut
  <1> QED BY <1>3, <1>4 DEF StateOK, callbackPut, external, logs, LogsOK

LEMMA TypeComplete ==
    ASSUME StateOK, NEW r \in Requests, NEW s \in States, NEW site \in Sites,
           complete(r, s, site)
    PROVE  StateOK'
  <1>1. [at |-> "complete.delete", state |-> s, site |-> site,
         pending |-> Value(PendingKey(s))] \in Handler
    BY GetTyped DEF Handler, StateOK, complete
  <1>2. req' \in [Requests -> Handler]
    BY <1>1, ContinueOK DEF StateOK, complete
  <1> QED BY <1>2 DEF StateOK, complete, external, logs, LogsOK, StoreOK

LEMMA TypeCompleteDelete ==
    ASSUME StateOK, NEW r \in Requests, completeDelete(r)
    PROVE  StateOK'
  <1>1. req[r] \in [at : {"complete.delete"}, state : States,
                    site : Sites, pending : Pending]
    BY DEF StateOK, completeDelete, At, Handler, Idle
  <1>2. [req[r] EXCEPT !.at = "complete.client"] \in Handler
    BY <1>1 DEF Handler
  <1>3. StoreOK'
    BY <1>1, DeleteStoreOK, KeyInKey DEF StateOK, completeDelete
  <1>4. req' \in [Requests -> Handler]
    BY <1>2, ContinueOK DEF StateOK, completeDelete
  <1> QED BY <1>3, <1>4 DEF StateOK, completeDelete, external, logs, LogsOK

LEMMA TypeCompleteClient ==
    ASSUME StateOK, NEW r \in Requests, completeClient(r)
    PROVE  StateOK'
  <1>1. req[r] \in [at : {"complete.client"}, state : States,
                    site : Sites, pending : Pending]
    BY DEF StateOK, completeClient, At, Handler, Idle
  <1> DEFINE H(u, ttl) ==
          [at |-> "complete.user", state |-> req[r].state,
           site |-> req[r].site, pending |-> req[r].pending,
           user |-> u, ttl |-> ttl]
  <1>2. \A u \in UserIds, ttl \in Nat : H(u, ttl) \in Handler
    BY <1>1 DEF Handler
  <1>3. H(<<req[r].pending.account, req[r].site>>, UserTTL) \in Handler
    <2>1. <<req[r].pending.account, req[r].site>> \in UserIds
      BY <1>1 DEF UserIds, AccountUsers, Pending
    <2> QED BY <2>1, <1>2, TTLAssumption
  <1>4. \A b \in BrowserIds : H(b, SessionTTL + CodeTTL) \in Handler
    BY <1>2, TTLAssumption DEF UserIds
  <1>5. \/ Respond(r)
        \/ Continue(r, H(<<req[r].pending.account, req[r].site>>, UserTTL))
        \/ \E b \in BrowserIds : Continue(r, H(b, SessionTTL + CodeTTL))
    BY DEF completeClient, BrowserUserTTL
  <1> HIDE DEF H
  <1>6. req' \in [Requests -> Handler]
    BY <1>3, <1>4, <1>5, ContinueOK, RespondOK DEF StateOK
  <1> QED BY <1>6 DEF StateOK, completeClient, external, logs, LogsOK, StoreOK

LEMMA TypeCompleteUser ==
    ASSUME StateOK, NEW r \in Requests, completeUser(r)
    PROVE  StateOK'
  <1>1. req[r] \in [at : {"complete.user"}, state : States, site : Sites,
                    pending : Pending, user : UserIds, ttl : Nat]
    BY DEF StateOK, completeUser, At, Handler, Idle
  <1>2. [account |-> req[r].pending.account, site |-> req[r].site,
         grant |-> req[r].pending.grant]
           \in [account : Accounts, site : Sites, grant : AtlCodes]
    BY <1>1 DEF Pending
  <1>3. StoreOK'
    BY <1>1, <1>2, PutUser DEF StateOK, completeUser
  <1>4. [req[r] EXCEPT !.at = "complete.code"] \in Handler
    BY <1>1 DEF Handler
  <1>5. req' \in [Requests -> Handler]
    BY <1>4, ContinueOK DEF StateOK, completeUser
  <1> QED BY <1>3, <1>5 DEF StateOK, completeUser, external, logs, LogsOK

LEMMA TypeCompleteCode ==
    ASSUME StateOK, NEW r \in Requests, NEW c \in Codes, completeCode(r, c)
    PROVE  StateOK'
  <1>1. req[r] \in [at : {"complete.code"}, state : States, site : Sites,
                    pending : Pending, user : UserIds, ttl : Nat]
    BY DEF StateOK, completeCode, At, Handler, Idle
  <1>2. req[r].pending.auth \in AuthorizationRequest
    BY <1>1 DEF Pending
  <1>3. [user |-> req[r].user, client |-> req[r].pending.auth.client,
         redirect |-> req[r].pending.auth.redirect,
         challenge |-> req[r].pending.auth.challenge] \in Auth
    BY <1>1, <1>2 DEF AuthorizationRequest, Auth
  <1>4. StoreOK'
    BY <1>3, PutCode, TTLAssumption DEF StateOK, completeCode
  <1>5. codeLog' \subseteq [code : Codes, state : States, client : ClientIds,
                            grant : AtlCodes, user : UserIds]
    BY <1>1, <1>2
       DEF StateOK, LogsOK, completeCode, AuthorizationRequest, Pending
  <1>6. req' \in [Requests -> Handler]
    BY RespondOK DEF StateOK, completeCode
  <1> QED BY <1>4, <1>5, <1>6 DEF StateOK, completeCode, external, LogsOK

LEMMA TypeToken ==
    ASSUME StateOK, NEW r \in Requests, NEW c \in Codes,
           NEW client \in ClientIds, NEW uri \in Redirects,
           NEW v \in Verifiers, token(r, c, client, uri, v)
    PROVE  StateOK'
  <1>1. [at |-> "token.delete", code |-> c, client |-> client,
         verifier |-> v, user |-> Value(CodeKey(c)).user] \in Handler
    BY GetTyped DEF Handler, StateOK, token, Auth
  <1>2. req' \in [Requests -> Handler]
    BY <1>1, ContinueOK DEF StateOK, token
  <1> QED BY <1>2 DEF StateOK, token, external, logs, LogsOK, StoreOK

LEMMA TypeTokenDelete ==
    ASSUME StateOK, NEW r \in Requests, tokenDelete(r)
    PROVE  StateOK'
  <1>1. req[r] \in [at : {"token.delete"}, code : Codes, client : ClientIds,
                    verifier : Verifiers, user : UserIds]
    BY DEF StateOK, tokenDelete, At, Handler, Idle
  <1>2. [req[r] EXCEPT !.at = "token.put"] \in Handler
    BY <1>1 DEF Handler
  <1>3. StoreOK'
    BY <1>1, DeleteStoreOK, KeyInKey DEF StateOK, tokenDelete, StoreOK
  <1>4. req' \in [Requests -> Handler]
    BY <1>2, ContinueOK DEF StateOK, tokenDelete
  <1>5. faults' \in Nat /\ kept' \subseteq Codes
    BY <1>1 DEF StateOK, tokenDelete, Fault, LogsOK
  <1> QED BY <1>3, <1>4, <1>5 DEF StateOK, tokenDelete, external, LogsOK

LEMMA TypeTokenPut ==
    ASSUME StateOK, NEW r \in Requests, NEW t \in Tokens, tokenPut(r, t)
    PROVE  StateOK'
  <1>1. req[r] \in [at : {"token.put"}, code : Codes, client : ClientIds,
                    verifier : Verifiers, user : UserIds]
    BY DEF StateOK, tokenPut, At, Handler, Idle
  <1>2. StoreOK'
    BY <1>1, PutToken, TTLAssumption DEF StateOK, tokenPut
  <1>3. tokenLog' \subseteq [token : Tokens, code : Codes,
            client : ClientIds, verifier : Verifiers, user : UserIds]
    BY <1>1 DEF StateOK, LogsOK, tokenPut
  <1>4. req' \in [Requests -> Handler]
    BY RespondOK DEF StateOK, tokenPut
  <1> QED BY <1>2, <1>3, <1>4 DEF StateOK, tokenPut, external, LogsOK

LEMMA TypeRevoke ==
    ASSUME StateOK, NEW t \in Tokens, revoke(t)
    PROVE  StateOK'
  <1>1. StoreOK'
    BY DeleteStoreOK, KeyInKey DEF StateOK, revoke, StoreOK
  <1>2. faults' \in Nat
    BY DEF StateOK, revoke, Fault
  <1> QED BY <1>1, <1>2 DEF StateOK, revoke, external, logs, LogsOK

LEMMA TypeWebLogin ==
    ASSUME StateOK, NEW r \in Requests, NEW f \in Logins, NEW c \in ClientIds,
           webLogin(r, f, c)
    PROVE  StateOK'
  <1>1. [at |-> "login.client", login |-> f, client |-> c] \in Handler
    BY DEF Handler
  <1>2. [client |-> c, verifier |-> f, expires |-> clock + StateTTL] \in Flow
    BY TTLAssumption DEF Flow, StateOK
  <1>3. StoreOK'
    BY <1>2, PutFlow, TTLAssumption DEF StateOK, webLogin
  <1>4. req' \in [Requests -> Handler]
    BY <1>1, ContinueOK DEF StateOK, webLogin
  <1> QED BY <1>3, <1>4 DEF StateOK, webLogin, external, logs, LogsOK

LEMMA TypeWebLoginClient ==
    ASSUME StateOK, NEW r \in Requests, webLoginClient(r)
    PROVE  StateOK'
  <1>1. req[r] \in [at : {"login.client"}, login : Logins, client : ClientIds]
    BY DEF StateOK, webLoginClient, At, Handler, Idle
  <1>2. StoreOK'
    BY <1>1, PutClient, TTLAssumption DEF StateOK, webLoginClient
  <1>3. started' \subseteq [login : Logins, client : ClientIds]
    BY <1>1 DEF StateOK, LogsOK, webLoginClient
  <1>4. req' \in [Requests -> Handler]
    BY RespondOK DEF StateOK, webLoginClient
  <1> QED BY <1>2, <1>3, <1>4 DEF StateOK, webLoginClient, external, LogsOK

LEMMA TypeWebCallback ==
    ASSUME StateOK, NEW r \in Requests, NEW f \in Logins, NEW c \in Codes,
           webCallback(r, f, c)
    PROVE  StateOK'
  <1>1. [at |-> "webcallback.code", code |-> c,
         flow |-> Value(FlowKey(f))] \in Handler
    BY GetTyped DEF Handler, StateOK, webCallback, Take
  <1>2. StoreOK'
    BY DeleteStoreOK, KeyInKey DEF StateOK, webCallback, Take
  <1>3. req' \in [Requests -> Handler]
    BY <1>1, ContinueOK, RespondOK DEF StateOK, webCallback
  <1> QED BY <1>2, <1>3 DEF StateOK, webCallback, external, logs, LogsOK

LEMMA TypeWebCallbackCode ==
    ASSUME StateOK, NEW r \in Requests, webCallbackCode(r)
    PROVE  StateOK'
  <1>1. req[r] \in [at : {"webcallback.code"}, code : Codes, flow : Flow]
    BY DEF StateOK, webCallbackCode, At, Handler, Idle
  <1>2. Present(CodeKey(req[r].code)) =>
            [at |-> "webcallback.take", code |-> req[r].code,
             login |-> req[r].flow.verifier,
             auth |-> Value(CodeKey(req[r].code))] \in Handler
    BY <1>1, GetTyped DEF Handler, StateOK, Flow
  <1>3. req' \in [Requests -> Handler]
    BY <1>2, ContinueOK, RespondOK DEF StateOK, webCallbackCode
  <1> QED BY <1>3
          DEF StateOK, webCallbackCode, external, logs, LogsOK, StoreOK

LEMMA TypeWebCallbackTake ==
    ASSUME StateOK, NEW r \in Requests, webCallbackTake(r)
    PROVE  StateOK'
  <1>1. req[r] \in [at : {"webcallback.take"}, code : Codes,
                    login : Logins, auth : Auth]
    BY DEF StateOK, webCallbackTake, At, Handler, Idle
  <1>2. [req[r] EXCEPT !.at = "webcallback.session"] \in Handler
    BY <1>1 DEF Handler
  <1>3. StoreOK'
    BY <1>1, DeleteStoreOK, KeyInKey
       DEF StateOK, webCallbackTake, Take, StoreOK
  <1>4. req' \in [Requests -> Handler]
    BY <1>2, ContinueOK, RespondOK DEF StateOK, webCallbackTake
  <1> QED BY <1>3, <1>4 DEF StateOK, webCallbackTake, external, logs, LogsOK

LEMMA TypeWebCallbackSession ==
    ASSUME StateOK, NEW r \in Requests, NEW s \in Sessions,
           webCallbackSession(r, s)
    PROVE  StateOK'
  <1>1. req[r] \in [at : {"webcallback.session"}, code : Codes,
                    login : Logins, auth : Auth]
    BY DEF StateOK, webCallbackSession, At, Handler, Idle
  <1>2. [user |-> req[r].auth.user, csrf |-> s,
         expires |-> clock + SessionTTL] \in Session
    BY <1>1, TTLAssumption DEF Session, Auth, StateOK
  <1>3. StoreOK'
    BY <1>2, PutSession, TTLAssumption DEF StateOK, webCallbackSession
  <1>4. sessionLog' \subseteq [session : Sessions, login : Logins,
            code : Codes, client : ClientIds, user : UserIds]
    BY <1>1 DEF StateOK, LogsOK, webCallbackSession, Auth
  <1>5. req' \in [Requests -> Handler]
    BY RespondOK DEF StateOK, webCallbackSession
  <1> QED BY <1>3, <1>4, <1>5
          DEF StateOK, webCallbackSession, external, LogsOK

LEMMA TypeWebLogout ==
    ASSUME StateOK, NEW r \in Requests, NEW s \in Sessions, NEW x \in Sessions,
           webLogout(r, s, x)
    PROVE  StateOK'
  <1>1. [at |-> "logout.user", session |-> s, csrf |-> x,
         read |-> Value(SessionKey(s))] \in Handler
    BY GetTyped DEF Handler, StateOK, webLogout, SessionLive
  <1>2. req' \in [Requests -> Handler]
    BY <1>1, ContinueOK DEF StateOK, webLogout
  <1> QED BY <1>2 DEF StateOK, webLogout, external, logs, LogsOK, StoreOK

LEMMA TypeWebLogoutUser ==
    ASSUME StateOK, NEW r \in Requests, webLogoutUser(r)
    PROVE  StateOK'
  <1>1. req[r] \in [at : {"logout.user"}, session : Sessions,
                    csrf : Sessions, read : Session]
    BY DEF StateOK, webLogoutUser, At, Handler, Idle
  <1>2. [at |-> "logout.delete", session |-> req[r].session] \in Handler
    BY <1>1 DEF Handler
  <1>3. req' \in [Requests -> Handler]
    BY <1>2, ContinueOK, RespondOK DEF StateOK, webLogoutUser
  <1> QED BY <1>3 DEF StateOK, webLogoutUser, external, logs, LogsOK, StoreOK

LEMMA TypeWebLogoutDelete ==
    ASSUME StateOK, NEW r \in Requests, webLogoutDelete(r)
    PROVE  StateOK'
  <1>1. req[r] \in [at : {"logout.delete"}, session : Sessions]
    BY DEF StateOK, webLogoutDelete, At, Handler, Idle
  <1>2. StoreOK'
    BY <1>1, DeleteStoreOK, KeyInKey DEF StateOK, webLogoutDelete
  <1>3. req' \in [Requests -> Handler]
    BY RespondOK DEF StateOK, webLogoutDelete
  <1> QED BY <1>2, <1>3 DEF StateOK, webLogoutDelete, external, logs, LogsOK

LEMMA TypeStop ==
    ASSUME StateOK, NEW r \in Requests, Stop(r)
    PROVE  StateOK'
  <1>1. req' \in [Requests -> Handler]
    BY RespondOK DEF StateOK, Stop
  <1>2. faults' \in Nat
    BY DEF StateOK, Stop, Fault
  <1> QED BY <1>1, <1>2 DEF StateOK, Stop, external, logs, LogsOK, StoreOK

LEMMA TypeTick ==
    ASSUME StateOK, Tick
    PROVE  StateOK'
  <1>1. StoreOK'
    BY ElapseStoreOK DEF StateOK, Tick
  <1> QED BY <1>1 DEF StateOK, Tick, Elapse, external, logs, LogsOK

-----------------------------------------------------------------------------
(* A callback that carries a code carries one that Atlassian issued for    *)
(* the state it answers: what callbackPut needs to find the account.       *)
ConsentHeld ==
    \A r \in Requests :
        (/\ req[r].at \in {"callback.delete", "callback.exchange",
                            "callback.put"}
         /\ req[r].grant # None)
        => /\ grants[req[r].grant] # None
           /\ grants[req[r].grant].state = req[r].state

TInv == StateOK /\ ConsentHeld

(* The actions a step may be, with the sets their parameters come from.    *)
LEMMA NextCases ==
    ASSUME StateOK, [Next]_vars
    PROVE  \/ \E r \in Requests, s \in States, code \in AtlCodes \union {None} :
               callback(r, s, code)
           \/ \E r \in Requests :
               callbackDelete(r)
           \/ \E r \in Requests, sites \in SUBSET Sites :
               exchangeAtlassian(r, sites)
           \/ \E c \in ClientIds, uris \in SUBSET Redirects :
               register(c, uris)
           \/ \E t \in Tokens :
               revoke(t)
           \/ \E r \in Requests, a \in AuthorizationRequest :
               authorize(r, a)
           \/ \E r \in Requests, s \in States, site \in Sites :
               complete(r, s, site)
           \/ \E r \in Requests, c \in Codes, client \in ClientIds,
               uri \in Redirects, v \in Verifiers :
               token(r, c, client, uri, v)
           \/ \E r \in Requests, f \in Logins, c \in ClientIds :
               webLogin(r, f, c)
           \/ \E r \in Requests, f \in Logins, c \in Codes :
               webCallback(r, f, c)
           \/ \E r \in Requests, s \in Sessions, x \in Sessions :
               webLogout(r, s, x)
           \/ \E r \in Requests, s \in States :
               authorizePut(r, s)
           \/ \E r \in Requests :
               callbackPut(r)
           \/ \E r \in Requests :
               completeDelete(r)
           \/ \E r \in Requests :
               completeClient(r)
           \/ \E r \in Requests :
               completeUser(r)
           \/ \E r \in Requests, c \in Codes :
               completeCode(r, c)
           \/ \E r \in Requests :
               tokenDelete(r)
           \/ \E r \in Requests, t \in Tokens :
               tokenPut(r, t)
           \/ \E r \in Requests :
               webLoginClient(r)
           \/ \E r \in Requests :
               webCallbackCode(r)
           \/ \E r \in Requests :
               webCallbackTake(r)
           \/ \E r \in Requests, s \in Sessions :
               webCallbackSession(r, s)
           \/ \E r \in Requests :
               webLogoutUser(r)
           \/ \E r \in Requests :
               webLogoutDelete(r)
           \/ \E r \in Requests :
               Stop(r)
           \/ Tick
           \/ UNCHANGED vars
  <1>1. \A x \in codeLog : x.code \in Codes
    BY DEF StateOK, LogsOK
  <1>2. \A l \in started : l.login \in Logins /\ l.client \in ClientIds
    BY DEF StateOK, LogsOK
  <1>3. \A x \in sessionLog : x.session \in Sessions
    BY DEF StateOK, LogsOK
  <1>4. \A x \in tokenLog : x.token \in Tokens
    BY DEF StateOK, LogsOK
  <1>5. \A c \in ClientIds : McpRequest(c) \subseteq AuthorizationRequest
    BY DEF McpRequest
  <1>6. \A l \in started : LoginRequest(l) \in AuthorizationRequest
    BY <1>2, TTLAssumption DEF LoginRequest, AuthorizationRequest
  <1>7. CASE \E c \in ClientIds, uris \in Registrations : register(c, uris)
    <2>1. Registrations \subseteq SUBSET Redirects
      BY TTLAssumption
    <2>2. \E c \in ClientIds, uris \in SUBSET Redirects : register(c, uris)
      BY <1>7, <2>1, Zenon
    <2> QED BY <2>2
  <1>8. CASE \E x \in tokenLog : revoke(x.token)
    BY <1>8, <1>4
  <1>9. ASSUME NEW r \in Requests, Arrive(r)
        PROVE  \/ \E a \in AuthorizationRequest : authorize(r, a)
               \/ \E s \in States, code \in AtlCodes \union {None} :
                      callback(r, s, code)
               \/ \E s \in States, site \in Sites : complete(r, s, site)
               \/ \E c \in Codes, client \in ClientIds, uri \in Redirects,
                     v \in Verifiers : token(r, c, client, uri, v)
               \/ \E f \in Logins, c \in ClientIds : webLogin(r, f, c)
               \/ \E f \in Logins, c \in Codes : webCallback(r, f, c)
               \/ \E s \in Sessions, x \in Sessions : webLogout(r, s, x)
    BY <1>1, <1>2, <1>3, <1>5, <1>6, <1>9, Zenon DEF Arrive
  <1>10. CASE \E r \in Requests : Arrive(r)
    BY <1>9, <1>10
  <1>11. CASE \E r \in Requests : Proceed(r)
    BY <1>11, Zenon DEF Proceed
  <1>12. CASE (\E r \in Requests : Stop(r)) \/ Tick \/ UNCHANGED vars
    BY <1>12
  <1> QED BY <1>7, <1>8, <1>10, <1>11, <1>12 DEF Next, Handle

LEMMA ConsentInit == Init => ConsentHeld
  BY DEF Init, ConsentHeld, Idle

(* A handler that moves on keeps its local variables. *)
LEMMA MoveLabel ==
    ASSUME StateOK, NEW r \in Requests, NEW label
    PROVE  [req[r] EXCEPT !.at = label].at = label
  BY DEF StateOK, Handler, Idle

(* A step that hands out no Atlassian code, and leaves each handler where  *)
(* it was or outside the callback, keeps the consents held.                *)
CallbackLabels == {"callback.delete", "callback.exchange", "callback.put"}

LeavesOut(L) ==
    \A q \in Requests : req'[q] = req[q] \/ req'[q].at \notin L

LEMMA ContinueLeavesOut ==
    ASSUME req \in [Requests -> Handler], NEW r \in Requests, NEW h, NEW L,
           Continue(r, h), h.at \notin L
    PROVE  LeavesOut(L)
  BY DEF Continue, LeavesOut

LEMMA MoveLeavesOut ==
    ASSUME StateOK, NEW r \in Requests, NEW label, NEW L, label \notin L,
           Continue(r, [req[r] EXCEPT !.at = label])
    PROVE  LeavesOut(L)
  <1>1. [req[r] EXCEPT !.at = label].at = label
    BY MoveLabel
  <1> QED BY <1>1 DEF Continue, LeavesOut, StateOK

LEMMA ConsentFrame ==
    ASSUME ConsentHeld, UNCHANGED grants, LeavesOut(CallbackLabels)
    PROVE  ConsentHeld'
  BY DEF ConsentHeld, LeavesOut, CallbackLabels

LEMMA ContinueEffect ==
    ASSUME req \in [Requests -> Handler], NEW r \in Requests, NEW h,
           Continue(r, h)
    PROVE  /\ req'[r] = h
           /\ \A q \in Requests : q # r => req'[q] = req[q]
  BY DEF Continue

LEMMA ConsentStep ==
    ASSUME TInv, [Next]_vars
    PROVE  ConsentHeld'
  <1> USE DEF TInv
  <1>1. ASSUME NEW r \in Requests, NEW s \in States,
               NEW code \in AtlCodes \union {None}, callback(r, s, code)
        PROVE  ConsentHeld'
    <2>1. /\ req'[r] = [at |-> "callback.delete", state |-> s, grant |-> code,
                        auth |-> Value(StateKey(s))]
          /\ \A q \in Requests : q # r => req'[q] = req[q]
      BY <1>1, ContinueEffect DEF callback, StateOK
    <2>2. \A a \in AtlCodes : grants[a] # None => grants'[a] = grants[a]
      BY <1>1 DEF callback, Consent, StateOK
    <2>3. code # None => grants'[code] # None /\ grants'[code].state = s
      BY <1>1, NoneAssumption DEF callback, Consent, StateOK, Grant
    <2>4. \A q \in Requests :
              req[q].at \in {"callback.delete", "callback.exchange",
                             "callback.put"} /\ req[q].grant # None
              => req[q].grant \in AtlCodes
      BY DEF StateOK, Handler, Idle
    <2> QED BY <2>1, <2>2, <2>3, <2>4 DEF ConsentHeld
  <1>2. ASSUME NEW r \in Requests, callbackDelete(r)
        PROVE  ConsentHeld'
    <2>1. req' = [req EXCEPT ![r] = Idle]
          \/ req' = [req EXCEPT ![r] =
                         [req[r] EXCEPT !.at = "callback.exchange"]]
      BY <1>2 DEF callbackDelete, Respond, Continue
    <2>2. req[r] \in [at : {"callback.delete"}, state : States,
              grant : AtlCodes \union {None}, auth : AuthorizationRequest]
      BY <1>2 DEF StateOK, callbackDelete, At, Handler, Idle
    <2>3. /\ req'[r].at = "callback.exchange"
             => req'[r].grant = req[r].grant /\ req'[r].state = req[r].state
          /\ req'[r].at \in {"idle", "callback.exchange"}
          /\ \A q \in Requests : q # r => req'[q] = req[q]
      BY <2>1, <2>2 DEF StateOK, Idle
    <2> QED BY <1>2, <2>2, <2>3 DEF ConsentHeld, callbackDelete, external
  <1>3. ASSUME NEW r \in Requests, NEW sites \in SUBSET Sites,
               exchangeAtlassian(r, sites)
        PROVE  ConsentHeld'
    <2>1. /\ \/ req'[r] = Idle
             \/ req'[r] = [at |-> "callback.put", state |-> req[r].state,
                            auth |-> req[r].auth, grant |-> req[r].grant,
                            sites |-> sites]
          /\ \A q \in Requests : q # r => req'[q] = req[q]
      BY <1>3, ContinueEffect DEF exchangeAtlassian, Respond, StateOK
    <2> QED BY <1>3, <2>1 DEF ConsentHeld, exchangeAtlassian, At, Idle
  <1>4. ASSUME NEW c \in ClientIds, NEW uris \in SUBSET Redirects,
               register(c, uris)
        PROVE  ConsentHeld'
    BY <1>4, ContinueEffect, ConsentFrame
       DEF register, Respond, Idle, StateOK, external, LeavesOut, CallbackLabels
  <1>5. ASSUME NEW t \in Tokens,
               revoke(t)
        PROVE  ConsentHeld'
    BY <1>5, ContinueEffect, ConsentFrame
       DEF revoke, Respond, Idle, StateOK, external, LeavesOut, CallbackLabels
  <1>6. ASSUME NEW r \in Requests, NEW a \in AuthorizationRequest,
               authorize(r, a)
        PROVE  ConsentHeld'
    BY <1>6, ContinueEffect, ConsentFrame
       DEF authorize, Respond, Idle, StateOK, external, LeavesOut, CallbackLabels
  <1>7. ASSUME NEW r \in Requests, NEW s \in States, NEW site \in Sites,
               complete(r, s, site)
        PROVE  ConsentHeld'
    BY <1>7, ContinueEffect, ConsentFrame
       DEF complete, Respond, Idle, StateOK, external, LeavesOut, CallbackLabels
  <1>8. ASSUME NEW r \in Requests, NEW c \in Codes,
               NEW client \in ClientIds, NEW uri \in Redirects,
               NEW v \in Verifiers,
               token(r, c, client, uri, v)
        PROVE  ConsentHeld'
    BY <1>8, ContinueEffect, ConsentFrame
       DEF token, Respond, Idle, StateOK, external, LeavesOut, CallbackLabels
  <1>9. ASSUME NEW r \in Requests, NEW f \in Logins, NEW c \in ClientIds,
               webLogin(r, f, c)
        PROVE  ConsentHeld'
    BY <1>9, ContinueEffect, ConsentFrame
       DEF webLogin, Respond, Idle, StateOK, external, LeavesOut, CallbackLabels
  <1>10. ASSUME NEW r \in Requests, NEW f \in Logins, NEW c \in Codes,
               webCallback(r, f, c)
        PROVE  ConsentHeld'
    BY <1>10, ContinueEffect, ConsentFrame
       DEF webCallback, Respond, Idle, StateOK, external, LeavesOut,
           CallbackLabels
  <1>11. ASSUME NEW r \in Requests, NEW s \in Sessions, NEW x \in Sessions,
               webLogout(r, s, x)
        PROVE  ConsentHeld'
    BY <1>11, ContinueEffect, ConsentFrame
       DEF webLogout, Respond, Idle, StateOK, external, LeavesOut, CallbackLabels
  <1>12. ASSUME NEW r \in Requests, NEW s \in States,
               authorizePut(r, s)
        PROVE  ConsentHeld'
    BY <1>12, ContinueEffect, ConsentFrame
       DEF authorizePut, Respond, Idle, StateOK, external, LeavesOut,
           CallbackLabels
  <1>13. ASSUME NEW r \in Requests,
               callbackPut(r)
        PROVE  ConsentHeld'
    BY <1>13, ContinueEffect, ConsentFrame
       DEF callbackPut, Respond, Idle, StateOK, external, LeavesOut,
           CallbackLabels
  <1>14. ASSUME NEW r \in Requests,
               completeDelete(r)
        PROVE  ConsentHeld'
    <2>1. LeavesOut(CallbackLabels)
      BY <1>14, MoveLeavesOut DEF completeDelete, CallbackLabels
    <2> QED BY <1>14, <2>1, ConsentFrame DEF completeDelete, external
  <1>15. ASSUME NEW r \in Requests,
               completeClient(r)
        PROVE  ConsentHeld'
    <2>1. \/ Respond(r)
          \/ \E u, ttl : Continue(r,
                 [at |-> "complete.user", state |-> req[r].state,
                  site |-> req[r].site, pending |-> req[r].pending,
                  user |-> u, ttl |-> ttl])
      BY <1>15 DEF completeClient
    <2>2. LeavesOut(CallbackLabels)
      BY <2>1, ContinueLeavesOut DEF CallbackLabels, StateOK, Respond, Idle
    <2> QED BY <1>15, <2>2, ConsentFrame DEF completeClient, external
  <1>16. ASSUME NEW r \in Requests,
               completeUser(r)
        PROVE  ConsentHeld'
    <2>1. LeavesOut(CallbackLabels)
      BY <1>16, MoveLeavesOut DEF completeUser, CallbackLabels
    <2> QED BY <1>16, <2>1, ConsentFrame DEF completeUser, external
  <1>17. ASSUME NEW r \in Requests, NEW c \in Codes,
               completeCode(r, c)
        PROVE  ConsentHeld'
    BY <1>17, ContinueEffect, ConsentFrame
       DEF completeCode, Respond, Idle, StateOK, external, LeavesOut,
           CallbackLabels
  <1>18. ASSUME NEW r \in Requests,
               tokenDelete(r)
        PROVE  ConsentHeld'
    <2>1. LeavesOut(CallbackLabels)
      BY <1>18, MoveLeavesOut DEF tokenDelete, CallbackLabels
    <2> QED BY <1>18, <2>1, ConsentFrame DEF tokenDelete, external
  <1>19. ASSUME NEW r \in Requests, NEW t \in Tokens,
               tokenPut(r, t)
        PROVE  ConsentHeld'
    BY <1>19, ContinueEffect, ConsentFrame
       DEF tokenPut, Respond, Idle, StateOK, external, LeavesOut, CallbackLabels
  <1>20. ASSUME NEW r \in Requests,
               webLoginClient(r)
        PROVE  ConsentHeld'
    BY <1>20, ContinueEffect, ConsentFrame
       DEF webLoginClient, Respond, Idle, StateOK, external, LeavesOut,
           CallbackLabels
  <1>21. ASSUME NEW r \in Requests,
               webCallbackCode(r)
        PROVE  ConsentHeld'
    BY <1>21, ContinueEffect, ConsentFrame
       DEF webCallbackCode, Respond, Idle, StateOK, external, LeavesOut,
           CallbackLabels
  <1>22. ASSUME NEW r \in Requests,
               webCallbackTake(r)
        PROVE  ConsentHeld'
    <2>1. \/ Continue(r, [req[r] EXCEPT !.at = "webcallback.session"])
          \/ Respond(r)
      BY <1>22 DEF webCallbackTake
    <2>2. {"webcallback.session", "idle"} \intersect CallbackLabels = {}
      BY DEF CallbackLabels
    <2>3. CASE Continue(r, [req[r] EXCEPT !.at = "webcallback.session"])
      <3>1. LeavesOut(CallbackLabels)
        BY <2>2, <2>3, MoveLeavesOut DEF TInv
      <3> QED BY <1>22, <3>1, ConsentFrame DEF webCallbackTake, external
    <2>4. CASE Respond(r)
      <3>1. LeavesOut(CallbackLabels)
        BY <2>2, <2>4, ContinueLeavesOut DEF Respond, Idle, TInv, StateOK
      <3> QED BY <1>22, <3>1, ConsentFrame DEF webCallbackTake, external
    <2> QED BY <2>1, <2>3, <2>4
  <1>23. ASSUME NEW r \in Requests, NEW s \in Sessions,
               webCallbackSession(r, s)
        PROVE  ConsentHeld'
    BY <1>23, ContinueEffect, ConsentFrame
       DEF webCallbackSession, Respond, Idle, StateOK, external, LeavesOut,
           CallbackLabels
  <1>24. ASSUME NEW r \in Requests,
               webLogoutUser(r)
        PROVE  ConsentHeld'
    BY <1>24, ContinueEffect, ConsentFrame
       DEF webLogoutUser, Respond, Idle, StateOK, external, LeavesOut,
           CallbackLabels
  <1>25. ASSUME NEW r \in Requests,
               webLogoutDelete(r)
        PROVE  ConsentHeld'
    BY <1>25, ContinueEffect, ConsentFrame
       DEF webLogoutDelete, Respond, Idle, StateOK, external, LeavesOut,
           CallbackLabels
  <1>26. ASSUME NEW r \in Requests,
               Stop(r)
        PROVE  ConsentHeld'
    BY <1>26, ContinueEffect, ConsentFrame
       DEF Stop, Respond, Idle, StateOK, external, LeavesOut, CallbackLabels
  <1>27. ASSUME Tick
        PROVE  ConsentHeld'
    BY <1>27, ContinueEffect, ConsentFrame
       DEF Tick, Respond, Idle, StateOK, external, LeavesOut, CallbackLabels
  <1>28. CASE UNCHANGED vars
    BY <1>28, ConsentFrame DEF vars, external, LeavesOut
  <1> QED BY NextCases, <1>1, <1>2, <1>3, <1>4, <1>5, <1>6, <1>7, <1>8, <1>9,
             <1>10,
            <1>11, <1>12, <1>13, <1>14, <1>15, <1>16, <1>17, <1>18,
            <1>19, <1>20, <1>21, <1>22, <1>23, <1>24, <1>25, <1>26,
            <1>27, <1>28

LEMMA TypeStep ==
    ASSUME TInv, [Next]_vars
    PROVE  StateOK'
  <1> USE DEF TInv
  <1>1. ASSUME NEW r \in Requests, callbackPut(r)
        PROVE  StateOK'
    <2>1. /\ req[r].at = "callback.put"
          /\ req[r].grant \in AtlCodes
      BY <1>1 DEF StateOK, callbackPut, At, Handler, Idle
    <2>2. grants[req[r].grant] # None
      BY <2>1, NoneAssumption DEF ConsentHeld
    <2> QED BY <1>1, <2>2, TypeCallbackPut
  <1>2. CASE UNCHANGED vars
    BY <1>2 DEF StateOK, vars, StoreOK, LogsOK
  <1> QED
    BY <1>1, <1>2, NextCases,
       TypeCallback, TypeCallbackDelete, TypeExchange, TypeRegister,
       TypeRevoke, TypeAuthorize, TypeComplete, TypeToken,
       TypeWebLogin, TypeWebCallback, TypeWebLogout, TypeAuthorizePut,
       TypeCompleteDelete, TypeCompleteClient, TypeCompleteUser,
       TypeCompleteCode, TypeTokenDelete, TypeTokenPut,
       TypeWebLoginClient, TypeWebCallbackCode, TypeWebCallbackTake,
       TypeWebCallbackSession, TypeWebLogoutUser, TypeWebLogoutDelete,
       TypeStop, TypeTick

(* Whatever the requests, the store, the handlers and the logs stay within *)
(* their types: in particular no handler ever reads a field the entry it   *)
(* got from the store does not have.                                       *)
THEOREM TypeCorrect == Spec => []TypeOK
  <1>1. Init => TInv /\ began \in [Requests -> Nat]
    BY TypeInit, ConsentInit DEF TInv, Init
  <1>2. TInv /\ [Next]_vars => TInv'
    BY TypeStep, ConsentStep DEF TInv
  <1>3. TInv /\ began \in [Requests -> Nat] /\ [Next]_vars
            => (began \in [Requests -> Nat])'
    BY DEF TInv, StateOK, Next, Handle, Timed, Tick, vars
  <1>4. TInv /\ began \in [Requests -> Nat] => TypeOK
    BY DEF TInv, TypeOK
  <1> QED BY <1>1, <1>2, <1>3, <1>4, PTL DEF Spec

-----------------------------------------------------------------------------
(* Why a login flow and a code each give one session.  A flow is at most   *)
(* one of: still in the store, in the hands of one callback, spent on one  *)
(* session; a code that a callback took is out of the store for good.      *)
(* Random draws make the two start out unused.                             *)

LoginLabels == {"webcallback.code", "webcallback.take", "webcallback.session"}

HoldsFlow(r, f) ==
    \/ req[r].at = "webcallback.code" /\ req[r].flow.verifier = f
    \/ /\ req[r].at \in {"webcallback.take", "webcallback.session"}
       /\ req[r].login = f

TookCode(r, c) == req[r].at = "webcallback.session" /\ req[r].code = c

FlowUnspent(f) ==
    /\ \A r \in Requests : ~ HoldsFlow(r, f)
    /\ \A s \in sessionLog : s.login # f

CodeUnspent(c) ==
    /\ \A r \in Requests : ~ TookCode(r, c)
    /\ \A s \in sessionLog : s.code # c

FlowInStore ==
    \A f \in Logins :
        /\ f \notin drawn => ~ Present(FlowKey(f)) /\ FlowUnspent(f)
        /\ Present(FlowKey(f)) =>
               FlowUnspent(f) /\ Value(FlowKey(f)).verifier = f

FlowHeld ==
    \A r \in Requests : \A f \in Logins : HoldsFlow(r, f) =>
        /\ \A q \in Requests : HoldsFlow(q, f) => q = r
        /\ \A s \in sessionLog : s.login # f

CodeInStore ==
    \A c \in Codes :
        /\ c \notin drawn => ~ Present(CodeKey(c)) /\ CodeUnspent(c)
        /\ Present(CodeKey(c)) => CodeUnspent(c)

CodeTaken ==
    \A r \in Requests : \A c \in Codes : TookCode(r, c) =>
        /\ \A q \in Requests : TookCode(q, c) => q = r
        /\ \A s \in sessionLog : s.code # c

LoginInv ==
    /\ FlowInStore
    /\ FlowHeld
    /\ CodeInStore
    /\ CodeTaken
    /\ BrowserLoginOnce

LEMMA LoginInit == Init => LoginInv
  BY KeyInKey DEF Init, LoginInv, FlowInStore, FlowHeld, CodeInStore,
     CodeTaken, BrowserLoginOnce, HoldsFlow, TookCode, FlowUnspent,
     CodeUnspent, Present, Absent, Idle

(* Steps that bring no flow and no code into the store. *)
OldFlows ==
    \A f \in Logins : Present(FlowKey(f))' =>
        Present(FlowKey(f)) /\ Value(FlowKey(f))' = Value(FlowKey(f))

OldCodes ==
    \A c \in Codes : Present(CodeKey(c))' =>
        Present(CodeKey(c)) /\ Value(CodeKey(c))' = Value(CodeKey(c))

LEMMA UnchangedOld ==
    ASSUME UNCHANGED <<store, clock>>
    PROVE  OldFlows /\ OldCodes
  BY DEF OldFlows, OldCodes, Present, Value

LEMMA DeleteOld ==
    ASSUME StoreOK, clock \in Nat, NEW k \in Key, Delete(k), UNCHANGED clock
    PROVE  /\ OldFlows /\ OldCodes
           /\ ~ Present(k)'
  BY DeleteEffect, KeyInKey DEF OldFlows, OldCodes, Present, Value, Absent

LEMMA ElapseOld ==
    ASSUME StoreOK, clock \in Nat, Elapse
    PROVE  OldFlows /\ OldCodes
  <1>1. \A k \in Key : store'[k].exp > clock' =>
            store[k].exp > clock /\ store'[k].val = store[k].val
    <2> SUFFICES ASSUME NEW k \in Key, store'[k].exp > clock'
                 PROVE  store[k].exp > clock /\ store'[k].val = store[k].val
      OBVIOUS
    <2>1. store'[k] = IF store[k].exp > clock + 1 THEN store[k] ELSE Absent
      BY DEF Elapse, StoreOK
    <2>2. clock' = clock + 1
      BY DEF Elapse
    <2>3. CASE store[k].exp > clock + 1
      <3>1. store[k].exp \in Nat
        BY DEF StoreOK, Entry, Absent, Key
      <3> QED BY <2>1, <2>3, <3>1
    <2>4. CASE ~ (store[k].exp > clock + 1)
      BY <2>1, <2>2, <2>4 DEF Absent
    <2> QED BY <2>3, <2>4
  <1> QED BY <1>1, KeyInKey DEF OldFlows, OldCodes, Present, Value

LEMMA PutOld ==
    ASSUME StoreOK, NEW k \in Key, NEW v, NEW ttl, Put(k, v, ttl),
           UNCHANGED clock
    PROVE  /\ Prefix(k) # "web:flow" => OldFlows
           /\ Prefix(k) # "oauth:code" => OldCodes
  <1>1. \A j \in Key : j # k => store'[j] = store[j]
    BY PutEffect
  <1> QED BY <1>1, KeyInKey, KeyPrefix
          DEF OldFlows, OldCodes, Present, Value

(* A step that starts no flow and no code, hands neither to a callback and *)
(* opens no session keeps the invariant.                                   *)
NoNewHolder ==
    /\ \A r \in Requests, f \in Logins : HoldsFlow(r, f)' => HoldsFlow(r, f)
    /\ \A r \in Requests, c \in Codes : TookCode(r, c)' => TookCode(r, c)

LEMMA NoHolderOutside ==
    ASSUME LeavesOut(LoginLabels)
    PROVE  NoNewHolder
  BY DEF LeavesOut, LoginLabels, NoNewHolder, HoldsFlow, TookCode

LEMMA UnspentStays ==
    ASSUME NoNewHolder, UNCHANGED sessionLog
    PROVE  /\ \A f \in Logins : FlowUnspent(f) => FlowUnspent(f)'
           /\ \A c \in Codes : CodeUnspent(c) => CodeUnspent(c)'
  BY DEF FlowUnspent, CodeUnspent, NoNewHolder

LEMMA HolderFrame ==
    ASSUME LoginInv, OldFlows, OldCodes, UNCHANGED sessionLog,
           drawn \subseteq drawn', NoNewHolder
    PROVE  LoginInv'
  <1>1. FlowInStore'
    BY UnspentStays DEF LoginInv, FlowInStore, OldFlows
  <1>2. FlowHeld'
    BY DEF LoginInv, FlowHeld, NoNewHolder
  <1>3. CodeInStore'
    BY UnspentStays DEF LoginInv, CodeInStore, OldCodes
  <1>4. CodeTaken'
    BY DEF LoginInv, CodeTaken, NoNewHolder
  <1>5. BrowserLoginOnce'
    BY DEF LoginInv, BrowserLoginOnce
  <1> QED BY <1>1, <1>2, <1>3, <1>4, <1>5 DEF LoginInv

LEMMA LoginFrame ==
    ASSUME LoginInv, OldFlows, OldCodes, UNCHANGED sessionLog,
           drawn \subseteq drawn', LeavesOut(LoginLabels)
    PROVE  LoginInv'
  BY HolderFrame, NoHolderOutside

LEMMA LoginFrameStep ==
    ASSUME StateOK, LoginInv, [Next]_vars,
           ~ \E r \in Requests :
               \/ \E f \in Logins, c \in ClientIds : webLogin(r, f, c)
               \/ \E f \in Logins, c \in Codes : webCallback(r, f, c)
               \/ webCallbackCode(r)
               \/ webCallbackTake(r)
               \/ \E s \in Sessions : webCallbackSession(r, s)
               \/ \E c \in Codes : completeCode(r, c)
    PROVE  LoginInv'
  <1>1. ASSUME NEW r \in Requests, NEW s \in States,
               NEW code \in AtlCodes \union {None},
               callback(r, s, code)
        PROVE  LoginInv'
    <2>2. OldFlows /\ OldCodes
      BY <1>1, UnchangedOld DEF callback
    <2>3. LeavesOut(LoginLabels)
      BY <1>1, ContinueLeavesOut
         DEF callback, LoginLabels, Respond, Idle, StateOK
    <2> QED BY <1>1, <2>2, <2>3, LoginFrame
            DEF callback, randomToken, logs
  <1>2. ASSUME NEW r \in Requests,
               callbackDelete(r)
        PROVE  LoginInv'
    <2>1. StateKey(req[r].state) \in Key
      BY <1>2, KeyInKey DEF callbackDelete, At, StateOK, Handler, Idle
    <2>2. OldFlows /\ OldCodes
      BY <1>2, <2>1, DeleteOld, UnchangedOld DEF callbackDelete, StateOK
    <2>3. \/ Continue(r, [req[r] EXCEPT !.at = "callback.exchange"])
          \/ Continue(r, Idle)
      BY <1>2 DEF callbackDelete, Respond
    <2>4. {"callback.exchange", "idle"} \intersect LoginLabels = {}
      BY DEF LoginLabels
    <2>5. LeavesOut(LoginLabels)
      BY <2>3, <2>4, MoveLeavesOut, ContinueLeavesOut DEF Idle, StateOK
    <2> QED BY <1>2, <2>2, <2>5, LoginFrame
            DEF callbackDelete, randomToken, logs
  <1>3. ASSUME NEW r \in Requests, NEW sites \in SUBSET Sites,
               exchangeAtlassian(r, sites)
        PROVE  LoginInv'
    <2>2. OldFlows /\ OldCodes
      BY <1>3, UnchangedOld DEF exchangeAtlassian
    <2>3. LeavesOut(LoginLabels)
      BY <1>3, ContinueLeavesOut
         DEF exchangeAtlassian, LoginLabels, Respond, Idle, StateOK
    <2> QED BY <1>3, <2>2, <2>3, LoginFrame
            DEF exchangeAtlassian, randomToken, logs
  <1>4. ASSUME NEW c \in ClientIds, NEW uris \in SUBSET Redirects,
               register(c, uris)
        PROVE  LoginInv'
    <2>1. ClientKey(c) \in Key
      BY KeyInKey
    <2>2. OldFlows /\ OldCodes
      BY <1>4, <2>1, PutOld, KeyPrefix DEF register, StateOK
    <2>3. LeavesOut(LoginLabels)
      BY <1>4 DEF register, LeavesOut
    <2> QED BY <1>4, <2>2, <2>3, LoginFrame
            DEF register, randomToken, logs
  <1>5. ASSUME NEW t \in Tokens,
               revoke(t)
        PROVE  LoginInv'
    <2>1. TokenKey(t) \in Key
      BY KeyInKey
    <2>2. OldFlows /\ OldCodes
      BY <1>5, <2>1, DeleteOld, UnchangedOld DEF revoke, StateOK
    <2>3. LeavesOut(LoginLabels)
      BY <1>5 DEF revoke, LeavesOut
    <2> QED BY <1>5, <2>2, <2>3, LoginFrame
            DEF revoke, randomToken, logs
  <1>6. ASSUME NEW r \in Requests, NEW a \in AuthorizationRequest,
               authorize(r, a)
        PROVE  LoginInv'
    <2>2. OldFlows /\ OldCodes
      BY <1>6, UnchangedOld DEF authorize
    <2>3. LeavesOut(LoginLabels)
      BY <1>6, ContinueLeavesOut
         DEF authorize, LoginLabels, Respond, Idle, StateOK
    <2> QED BY <1>6, <2>2, <2>3, LoginFrame
            DEF authorize, randomToken, logs
  <1>7. ASSUME NEW r \in Requests, NEW s \in States, NEW site \in Sites,
               complete(r, s, site)
        PROVE  LoginInv'
    <2>2. OldFlows /\ OldCodes
      BY <1>7, UnchangedOld DEF complete
    <2>3. LeavesOut(LoginLabels)
      BY <1>7, ContinueLeavesOut
         DEF complete, LoginLabels, Respond, Idle, StateOK
    <2> QED BY <1>7, <2>2, <2>3, LoginFrame
            DEF complete, randomToken, logs
  <1>8. ASSUME NEW r \in Requests, NEW c \in Codes,
               NEW client \in ClientIds, NEW uri \in Redirects,
               NEW v \in Verifiers,
               token(r, c, client, uri, v)
        PROVE  LoginInv'
    <2>2. OldFlows /\ OldCodes
      BY <1>8, UnchangedOld DEF token
    <2>3. LeavesOut(LoginLabels)
      BY <1>8, ContinueLeavesOut DEF token, LoginLabels, Respond, Idle, StateOK
    <2> QED BY <1>8, <2>2, <2>3, LoginFrame
            DEF token, randomToken, logs
  <1>9. ASSUME NEW r \in Requests, NEW s \in Sessions, NEW x \in Sessions,
               webLogout(r, s, x)
        PROVE  LoginInv'
    <2>2. OldFlows /\ OldCodes
      BY <1>9, UnchangedOld DEF webLogout
    <2>3. LeavesOut(LoginLabels)
      BY <1>9, ContinueLeavesOut
         DEF webLogout, LoginLabels, Respond, Idle, StateOK
    <2> QED BY <1>9, <2>2, <2>3, LoginFrame
            DEF webLogout, randomToken, logs
  <1>10. ASSUME NEW r \in Requests, NEW s \in States,
               authorizePut(r, s)
        PROVE  LoginInv'
    <2>1. StateKey(s) \in Key
      BY KeyInKey
    <2>2. OldFlows /\ OldCodes
      BY <1>10, <2>1, PutOld, KeyPrefix DEF authorizePut, StateOK
    <2>3. LeavesOut(LoginLabels)
      BY <1>10, ContinueLeavesOut
         DEF authorizePut, LoginLabels, Respond, Idle, StateOK
    <2> QED BY <1>10, <2>2, <2>3, LoginFrame
            DEF authorizePut, randomToken, logs
  <1>11. ASSUME NEW r \in Requests,
               callbackPut(r)
        PROVE  LoginInv'
    <2>1. PendingKey(req[r].state) \in Key
      BY <1>11, KeyInKey DEF callbackPut, At, StateOK, Handler, Idle
    <2>2. OldFlows /\ OldCodes
      BY <1>11, <2>1, PutOld, KeyPrefix DEF callbackPut, StateOK
    <2>3. LeavesOut(LoginLabels)
      BY <1>11, ContinueLeavesOut
         DEF callbackPut, LoginLabels, Respond, Idle, StateOK
    <2> QED BY <1>11, <2>2, <2>3, LoginFrame
            DEF callbackPut, randomToken, logs
  <1>12. ASSUME NEW r \in Requests,
               completeDelete(r)
        PROVE  LoginInv'
    <2>1. PendingKey(req[r].state) \in Key
      BY <1>12, KeyInKey DEF completeDelete, At, StateOK, Handler, Idle
    <2>2. OldFlows /\ OldCodes
      BY <1>12, <2>1, DeleteOld, UnchangedOld DEF completeDelete, StateOK
    <2>3. Continue(r, [req[r] EXCEPT !.at = "complete.client"])
      BY <1>12 DEF completeDelete
    <2>4. "complete.client" \notin LoginLabels
      BY DEF LoginLabels
    <2>5. LeavesOut(LoginLabels)
      BY <2>3, <2>4, MoveLeavesOut
    <2> QED BY <1>12, <2>2, <2>5, LoginFrame
            DEF completeDelete, randomToken, logs
  <1>13. ASSUME NEW r \in Requests,
               completeClient(r)
        PROVE  LoginInv'
    <2>2. OldFlows /\ OldCodes
      BY <1>13, UnchangedOld DEF completeClient
    <2>3. \/ Respond(r)
          \/ \E u, ttl : Continue(r,
                 [at |-> "complete.user", state |-> req[r].state,
                  site |-> req[r].site, pending |-> req[r].pending,
                  user |-> u, ttl |-> ttl])
      BY <1>13 DEF completeClient
    <2>4. LeavesOut(LoginLabels)
      BY <2>3, ContinueLeavesOut DEF LoginLabels, StateOK, Respond, Idle
    <2> QED BY <1>13, <2>2, <2>4, LoginFrame
            DEF completeClient, randomToken, logs
  <1>14. ASSUME NEW r \in Requests,
               completeUser(r)
        PROVE  LoginInv'
    <2>1. UserKey(req[r].user) \in Key
      BY <1>14, KeyInKey DEF completeUser, At, StateOK, Handler, Idle
    <2>2. OldFlows /\ OldCodes
      BY <1>14, <2>1, PutOld, KeyPrefix DEF completeUser, StateOK
    <2>3. LeavesOut(LoginLabels)
      BY <1>14, MoveLeavesOut DEF completeUser, LoginLabels
    <2> QED BY <1>14, <2>2, <2>3, LoginFrame
            DEF completeUser, randomToken, logs
  <1>15. ASSUME NEW r \in Requests,
               tokenDelete(r)
        PROVE  LoginInv'
    <2>1. CodeKey(req[r].code) \in Key
      BY <1>15, KeyInKey DEF tokenDelete, At, StateOK, Handler, Idle
    <2>2. OldFlows /\ OldCodes
      BY <1>15, <2>1, DeleteOld, UnchangedOld DEF tokenDelete, StateOK
    <2>3. LeavesOut(LoginLabels)
      BY <1>15, MoveLeavesOut DEF tokenDelete, LoginLabels
    <2> QED BY <1>15, <2>2, <2>3, LoginFrame
            DEF tokenDelete, randomToken, logs
  <1>16. ASSUME NEW r \in Requests, NEW t \in Tokens,
               tokenPut(r, t)
        PROVE  LoginInv'
    <2>1. TokenKey(t) \in Key
      BY KeyInKey
    <2>2. OldFlows /\ OldCodes
      BY <1>16, <2>1, PutOld, KeyPrefix DEF tokenPut, StateOK
    <2>3. LeavesOut(LoginLabels)
      BY <1>16, ContinueLeavesOut
         DEF tokenPut, LoginLabels, Respond, Idle, StateOK
    <2> QED BY <1>16, <2>2, <2>3, LoginFrame
            DEF tokenPut, randomToken, logs
  <1>17. ASSUME NEW r \in Requests,
               webLoginClient(r)
        PROVE  LoginInv'
    <2>1. ClientKey(req[r].client) \in Key
      BY <1>17, KeyInKey DEF webLoginClient, At, StateOK, Handler, Idle
    <2>2. OldFlows /\ OldCodes
      BY <1>17, <2>1, PutOld, KeyPrefix DEF webLoginClient, StateOK
    <2>3. LeavesOut(LoginLabels)
      BY <1>17, ContinueLeavesOut
         DEF webLoginClient, LoginLabels, Respond, Idle, StateOK
    <2> QED BY <1>17, <2>2, <2>3, LoginFrame
            DEF webLoginClient, randomToken, logs
  <1>18. ASSUME NEW r \in Requests,
               webLogoutUser(r)
        PROVE  LoginInv'
    <2>2. OldFlows /\ OldCodes
      BY <1>18, UnchangedOld DEF webLogoutUser
    <2>3. LeavesOut(LoginLabels)
      BY <1>18, ContinueLeavesOut
         DEF webLogoutUser, LoginLabels, Respond, Idle, StateOK
    <2> QED BY <1>18, <2>2, <2>3, LoginFrame
            DEF webLogoutUser, randomToken, logs
  <1>19. ASSUME NEW r \in Requests,
               webLogoutDelete(r)
        PROVE  LoginInv'
    <2>1. SessionKey(req[r].session) \in Key
      BY <1>19, KeyInKey DEF webLogoutDelete, At, StateOK, Handler, Idle
    <2>2. OldFlows /\ OldCodes
      BY <1>19, <2>1, DeleteOld, UnchangedOld DEF webLogoutDelete, StateOK
    <2>3. LeavesOut(LoginLabels)
      BY <1>19, ContinueLeavesOut
         DEF webLogoutDelete, LoginLabels, Respond, Idle, StateOK
    <2> QED BY <1>19, <2>2, <2>3, LoginFrame
            DEF webLogoutDelete, randomToken, logs
  <1>20. ASSUME NEW r \in Requests,
               Stop(r)
        PROVE  LoginInv'
    <2>2. OldFlows /\ OldCodes
      BY <1>20, UnchangedOld DEF Stop
    <2>3. LeavesOut(LoginLabels)
      BY <1>20, ContinueLeavesOut DEF Stop, LoginLabels, Respond, Idle, StateOK
    <2> QED BY <1>20, <2>2, <2>3, LoginFrame
            DEF Stop, randomToken, logs
  <1>21. ASSUME Tick
        PROVE  LoginInv'
    <2>1. OldFlows /\ OldCodes
      BY <1>21, ElapseOld DEF Tick, StateOK
    <2> QED BY <1>21, <2>1, LoginFrame DEF Tick, logs, LeavesOut
  <1>22. CASE UNCHANGED vars
    BY <1>22, UnchangedOld, LoginFrame DEF vars, LeavesOut
  <1> QED BY NextCases, <1>1, <1>2, <1>3, <1>4, <1>5, <1>6, <1>7, <1>8, <1>9,
             <1>10,
            <1>11, <1>12, <1>13, <1>14, <1>15, <1>16, <1>17, <1>18,
            <1>19, <1>20, <1>21, <1>22

(* A new code is a fresh draw: no callback has it, no session used it.     *)
LEMMA LoginCompleteCode ==
    ASSUME StateOK, LoginInv, NEW r \in Requests, NEW c \in Codes,
           completeCode(r, c)
    PROVE  LoginInv'
  <1>1. CodeUnspent(c)
    BY DEF completeCode, randomToken, LoginInv, CodeInStore
  <1>2. /\ OldFlows
        /\ \A d \in Codes : d # c => store'[CodeKey(d)] = store[CodeKey(d)]
    BY PutOld, PutEffect, KeyInKey, KeyPrefix, KeyInjective
       DEF completeCode, StateOK
  <1>3. NoNewHolder
    BY ContinueLeavesOut, NoHolderOutside
       DEF completeCode, Respond, Idle, LoginLabels, StateOK
  <1>4. /\ UNCHANGED <<clock, sessionLog>>
        /\ drawn' = drawn \union {c}
    BY DEF completeCode, randomToken
  <1>5. FlowInStore'
    BY <1>2, <1>3, <1>4, UnspentStays DEF LoginInv, FlowInStore, OldFlows
  <1>6. FlowHeld'
    BY <1>3, <1>4 DEF LoginInv, FlowHeld, NoNewHolder
  <1>7. CodeInStore'
    BY <1>1, <1>2, <1>3, <1>4, UnspentStays
       DEF LoginInv, CodeInStore, Present
  <1>8. CodeTaken'
    BY <1>3, <1>4 DEF LoginInv, CodeTaken, NoNewHolder
  <1>9. BrowserLoginOnce'
    BY <1>4 DEF LoginInv, BrowserLoginOnce
  <1> QED BY <1>5, <1>6, <1>7, <1>8, <1>9 DEF LoginInv

(* So is a new flow. *)
LEMMA LoginWebLogin ==
    ASSUME StateOK, LoginInv, NEW r \in Requests, NEW f \in Logins,
           NEW c \in ClientIds, webLogin(r, f, c)
    PROVE  LoginInv'
  <1>1. FlowUnspent(f)
    BY DEF webLogin, LoginInv, FlowInStore
  <1> DEFINE v == [client |-> c, verifier |-> f, expires |-> clock + StateTTL]
  <1>2. /\ OldCodes
        /\ \A g \in Logins : g # f => store'[FlowKey(g)] = store[FlowKey(g)]
        /\ store'[FlowKey(f)].val.verifier = f
    <2>1. Put(FlowKey(f), v, StateTTL) /\ FlowKey(f) \in Key /\ StoreOK
      BY KeyInKey DEF webLogin, StateOK
    <2>2. OldCodes
      BY <2>1, PutOld, KeyPrefix DEF webLogin
    <2>3. /\ \A j \in Key : j # FlowKey(f) => store'[j] = store[j]
          /\ store'[FlowKey(f)].val = v
      BY <2>1 DEF Put, StoreOK
    <2>4. \A g \in Logins : g # f => store'[FlowKey(g)] = store[FlowKey(g)]
      BY <2>3, KeyInKey, KeyInjective
    <2>5. v.verifier = f
      OBVIOUS
    <2>6. store'[FlowKey(f)].val.verifier = f
      BY <2>3, <2>5
    <2> QED BY <2>2, <2>4, <2>6
  <1>3. NoNewHolder
    BY ContinueLeavesOut, NoHolderOutside DEF webLogin, LoginLabels, StateOK
  <1>4. /\ UNCHANGED <<clock, sessionLog>>
        /\ drawn \subseteq drawn' /\ f \in drawn'
    BY DEF webLogin, logs
  <1>5. FlowInStore'
    BY <1>1, <1>2, <1>3, <1>4, UnspentStays
       DEF LoginInv, FlowInStore, Present, Value
  <1>6. FlowHeld'
    BY <1>3, <1>4 DEF LoginInv, FlowHeld, NoNewHolder
  <1>7. CodeInStore'
    BY <1>2, <1>3, <1>4, UnspentStays DEF LoginInv, CodeInStore, OldCodes
  <1>8. CodeTaken'
    BY <1>3, <1>4 DEF LoginInv, CodeTaken, NoNewHolder
  <1>9. BrowserLoginOnce'
    BY <1>4 DEF LoginInv, BrowserLoginOnce
  <1> QED BY <1>5, <1>6, <1>7, <1>8, <1>9 DEF LoginInv

(* GETDEL hands the flow to one callback and takes it out of the store.    *)
LEMMA LoginWebCallback ==
    ASSUME StateOK, LoginInv, NEW r \in Requests, NEW f \in Logins,
           NEW c \in Codes, webCallback(r, f, c)
    PROVE  LoginInv'
  <1>1. FlowUnspent(f) /\ Value(FlowKey(f)).verifier = f /\ f \in drawn
    BY DEF webCallback, Take, LoginInv, FlowInStore
  <1>2. OldFlows /\ OldCodes /\ ~ Present(FlowKey(f))'
    BY DeleteOld, KeyInKey DEF webCallback, Take, StateOK
  <1>3. /\ \/ req'[r] = Idle
           \/ req'[r] = [at |-> "webcallback.code", code |-> c,
                         flow |-> Value(FlowKey(f))]
        /\ \A q \in Requests : q # r => req'[q] = req[q]
    BY ContinueEffect DEF webCallback, Respond, StateOK
  <1>4. \A q \in Requests, g \in Logins :
            HoldsFlow(q, g)' => HoldsFlow(q, g) \/ (q = r /\ g = f)
    BY <1>1, <1>3 DEF HoldsFlow, Idle
  <1>5. \A q \in Requests, d \in Codes : TookCode(q, d)' => TookCode(q, d)
    BY <1>3 DEF TookCode, Idle
  <1>6. UNCHANGED <<drawn, sessionLog>>
    BY DEF webCallback, logs
  <1>7. FlowInStore'
    BY <1>1, <1>2, <1>4, <1>6
       DEF LoginInv, FlowInStore, FlowUnspent, OldFlows
  <1>8. FlowHeld'
    BY <1>1, <1>4, <1>6 DEF LoginInv, FlowHeld, FlowUnspent
  <1>9. CodeInStore'
    BY <1>2, <1>5, <1>6 DEF LoginInv, CodeInStore, CodeUnspent, OldCodes
  <1>10. CodeTaken'
    BY <1>5, <1>6 DEF LoginInv, CodeTaken
  <1>11. BrowserLoginOnce'
    BY <1>6 DEF LoginInv, BrowserLoginOnce
  <1> QED BY <1>7, <1>8, <1>9, <1>10, <1>11 DEF LoginInv

(* The callback keeps the flow while it looks at the code. *)
LEMMA LoginWebCallbackCode ==
    ASSUME StateOK, LoginInv, NEW r \in Requests, webCallbackCode(r)
    PROVE  LoginInv'
  <1>1. /\ \/ req'[r] = Idle
           \/ req'[r] = [at |-> "webcallback.take", code |-> req[r].code,
                         login |-> req[r].flow.verifier,
                         auth |-> Value(CodeKey(req[r].code))]
        /\ \A q \in Requests : q # r => req'[q] = req[q]
    BY ContinueEffect DEF webCallbackCode, Respond, StateOK
  <1>2. NoNewHolder
    BY <1>1 DEF NoNewHolder, HoldsFlow, TookCode, Idle, webCallbackCode, At
  <1> QED BY <1>2, HolderFrame, UnchangedOld DEF webCallbackCode, logs

(* GETDEL hands the code to one callback and takes it out of the store.    *)
LEMMA LoginWebCallbackTake ==
    ASSUME StateOK, LoginInv, NEW r \in Requests, webCallbackTake(r)
    PROVE  LoginInv'
  <1>0. PICK c : c = req[r].code
    OBVIOUS
  <1>1. req[r] \in [at : {"webcallback.take"}, code : Codes,
                    login : Logins, auth : Auth]
    BY DEF StateOK, webCallbackTake, At, Handler, Idle
  <1>2. CASE Respond(r)
    <2>1. OldFlows /\ OldCodes
      BY <1>1, DeleteOld, UnchangedOld, KeyInKey
         DEF webCallbackTake, Take, StateOK
    <2>2. LeavesOut(LoginLabels)
      BY <1>2, ContinueLeavesOut DEF Respond, Idle, LoginLabels, StateOK
    <2> QED BY <2>1, <2>2, LoginFrame DEF webCallbackTake, logs
  <1>3. CASE /\ Take(CodeKey(c))
             /\ Continue(r, [req[r] EXCEPT !.at = "webcallback.session"])
    <2>1. CodeUnspent(c) /\ c \in drawn
      BY <1>0, <1>1, <1>3 DEF Take, LoginInv, CodeInStore
    <2>2. OldFlows /\ OldCodes /\ ~ Present(CodeKey(c))'
      <3>1. /\ CodeKey(c) \in Key /\ StoreOK /\ clock \in Nat
            /\ Delete(CodeKey(c)) /\ UNCHANGED clock
        BY <1>0, <1>1, <1>3, KeyInKey DEF webCallbackTake, Take, StateOK
      <3> QED BY <3>1, DeleteOld
    <2>3. /\ req'[r] = [req[r] EXCEPT !.at = "webcallback.session"]
          /\ \A q \in Requests : q # r => req'[q] = req[q]
      BY <1>3 DEF Continue, StateOK
    <2>4. /\ req'[r].at = "webcallback.session"
          /\ req'[r].login = req[r].login
          /\ req'[r].code = c
      BY <1>0, <1>1, <2>3
    <2>5. \A q \in Requests, g \in Logins :
              HoldsFlow(q, g)' => HoldsFlow(q, g)
      BY <1>1, <2>3, <2>4 DEF HoldsFlow
    <2>6. \A q \in Requests, d \in Codes :
              TookCode(q, d)' => TookCode(q, d) \/ (q = r /\ d = c)
      BY <2>3, <2>4 DEF TookCode
    <2>7. UNCHANGED <<drawn, sessionLog>>
      BY DEF webCallbackTake, logs
    <2>8. FlowInStore'
      BY <2>2, <2>5, <2>7 DEF LoginInv, FlowInStore, FlowUnspent, OldFlows
    <2>9. FlowHeld'
      BY <2>5, <2>7 DEF LoginInv, FlowHeld
    <2>10. CodeInStore'
      <3> SUFFICES ASSUME NEW d \in Codes
                   PROVE  /\ d \notin drawn => ~ Present(CodeKey(d))'
                                               /\ CodeUnspent(d)'
                          /\ Present(CodeKey(d))' => CodeUnspent(d)'
        BY <2>7 DEF CodeInStore
      <3>1. CASE d = c
        BY <2>1, <2>2, <3>1
      <3>2. CASE d # c
        <4>1. CodeUnspent(d) => CodeUnspent(d)'
          BY <2>6, <2>7, <3>2 DEF CodeUnspent
        <4> QED BY <2>2, <4>1 DEF LoginInv, CodeInStore, OldCodes
      <3> QED BY <3>1, <3>2
    <2>11. CodeTaken'
      BY <2>1, <2>6, <2>7 DEF LoginInv, CodeTaken, CodeUnspent
    <2>12. BrowserLoginOnce'
      BY <2>7 DEF LoginInv, BrowserLoginOnce
    <2> QED BY <2>8, <2>9, <2>10, <2>11, <2>12 DEF LoginInv
  <1> QED BY <1>0, <1>2, <1>3 DEF webCallbackTake

(* The session is the only one of its flow and of its code. *)
LEMMA LoginWebCallbackSession ==
    ASSUME StateOK, LoginInv, NEW r \in Requests, NEW s \in Sessions,
           webCallbackSession(r, s)
    PROVE  LoginInv'
  <1> DEFINE f == req[r].login
             c == req[r].code
             e == [session |-> s, login |-> f, code |-> c,
                   client |-> req[r].auth.client, user |-> req[r].auth.user]
  <1>1. /\ req[r] \in [at : {"webcallback.session"}, code : Codes,
                        login : Logins, auth : Auth]
        /\ f \in Logins /\ c \in Codes
    BY DEF StateOK, webCallbackSession, At, Handler, Idle
  <1>2. HoldsFlow(r, f) /\ TookCode(r, c)
    BY <1>1 DEF HoldsFlow, TookCode
  <1>3. /\ f \in drawn /\ ~ Present(FlowKey(f))
        /\ c \in drawn /\ ~ Present(CodeKey(c))
    BY <1>1, <1>2 DEF LoginInv, FlowInStore, FlowUnspent, CodeInStore,
                      CodeUnspent
  <1>4. /\ \A q \in Requests : HoldsFlow(q, f) => q = r
        /\ \A q \in Requests : TookCode(q, c) => q = r
        /\ \A t \in sessionLog : t.login # f /\ t.code # c
    BY <1>1, <1>2 DEF LoginInv, FlowHeld, CodeTaken
  <1>5. OldFlows /\ OldCodes
    BY PutOld, KeyInKey, KeyPrefix DEF webCallbackSession, StateOK
  <1>6. /\ \A q \in Requests, g \in Logins :
               HoldsFlow(q, g)' => HoldsFlow(q, g) /\ q # r
        /\ \A q \in Requests, d \in Codes :
               TookCode(q, d)' => TookCode(q, d) /\ q # r
    BY ContinueEffect
       DEF webCallbackSession, Respond, Idle, StateOK, HoldsFlow, TookCode
  <1>7. /\ sessionLog' = sessionLog \union {e}
        /\ drawn \subseteq drawn'
    BY DEF webCallbackSession, randomToken
  <1>8. e.login = f /\ e.code = c
    OBVIOUS
  <1> HIDE DEF e, f, c
  <1>9. FlowInStore'
    BY <1>3, <1>5, <1>6, <1>7, <1>8
       DEF LoginInv, FlowInStore, FlowUnspent, OldFlows
  <1>10. FlowHeld'
    BY <1>4, <1>6, <1>7, <1>8 DEF LoginInv, FlowHeld
  <1>11. CodeInStore'
    BY <1>3, <1>5, <1>6, <1>7, <1>8
       DEF LoginInv, CodeInStore, CodeUnspent, OldCodes
  <1>12. CodeTaken'
    BY <1>4, <1>6, <1>7, <1>8 DEF LoginInv, CodeTaken
  <1>13. BrowserLoginOnce'
    BY <1>4, <1>7, <1>8 DEF LoginInv, BrowserLoginOnce
  <1> QED BY <1>9, <1>10, <1>11, <1>12, <1>13 DEF LoginInv

(* A login flow and an authorization code each give at most one browser    *)
(* session, for any number of clients and of requests at the same time,    *)
(* store failures and restarts included (webCallback's two Takes).         *)
THEOREM BrowserLoginSafe == Spec => []BrowserLoginOnce
  <1>1. Init => TInv /\ LoginInv
    BY TypeInit, ConsentInit, LoginInit DEF TInv
  <1>2. TInv /\ LoginInv /\ [Next]_vars => (TInv /\ LoginInv)'
    BY TypeStep, ConsentStep, LoginFrameStep, LoginCompleteCode,
       LoginWebLogin, LoginWebCallback, LoginWebCallbackCode,
       LoginWebCallbackTake, LoginWebCallbackSession DEF TInv
  <1>3. LoginInv => BrowserLoginOnce
    BY DEF LoginInv
  <1> QED BY <1>1, <1>2, <1>3, PTL DEF Spec

-----------------------------------------------------------------------------
(***************************************************************************)
(* Proof that the form of a dance is gone for good once its code is out    *)
(* (FormGone), for any number of clients and requests, and the invariants  *)
(* of tokens that ProvenanceSafe below rests on.                           *)
(*                                                                         *)
(* DanceInv follows a dance: the request a state stands for is the one the *)
(* form, the code and the token are for, and the consent they carry is the *)
(* one Atlassian recorded for that state.  GrantInv follows the consent:   *)
(* it is exchanged once, so it makes one form.                             *)
(***************************************************************************)

-----------------------------------------------------------------------------
(* No new value comes into a name space of the store. *)
OldKeys(p) ==
    \A k \in Key : Prefix(k) = p /\ store'[k].exp > clock' =>
        store[k].exp > clock /\ store'[k].val = store[k].val

LEMMA UnchangedOldKeys ==
    ASSUME UNCHANGED <<store, clock>>, NEW p
    PROVE  OldKeys(p)
  BY DEF OldKeys

LEMMA DeleteOldKeys ==
    ASSUME StoreOK, clock \in Nat, NEW k \in Key, Delete(k), UNCHANGED clock,
           NEW p
    PROVE  OldKeys(p)
  BY DeleteEffect DEF OldKeys, Absent

LEMMA PutOldKeys ==
    ASSUME StoreOK, NEW k \in Key, NEW v, NEW ttl, Put(k, v, ttl),
           UNCHANGED clock, NEW p, Prefix(k) # p
    PROVE  OldKeys(p)
  BY PutEffect DEF OldKeys

LEMMA ElapseOldKeys ==
    ASSUME StoreOK, clock \in Nat, Elapse, NEW p
    PROVE  OldKeys(p)
  <1>1. \A k \in Key : store[k].exp \in Nat
    BY DEF StoreOK, Entry, Absent, Key
  <1>2. \A k \in Key : store'[k] \in {store[k], Absent}
    BY DEF StoreOK, Elapse
  <1>3. clock' = clock + 1
    BY DEF Elapse
  <1> QED BY <1>1, <1>2, <1>3 DEF OldKeys, Absent

-----------------------------------------------------------------------------
(* A client id a browser login holds has been drawn, and so has a state    *)
(* that an authorize answered.                                             *)

ClientInv ==
    /\ \A r \in Requests : At(r, "login.client") => req[r].client \in drawn
    /\ \A s \in States : asked[s] # None => s \in drawn

LEMMA ClientInit == Init => ClientInv
  BY DEF Init, ClientInv, At, Idle

(* The steps that concern no client. *)
ClientLabels == {"authorize.put", "login.client"}

LEMMA OldClient ==
    ASSUME OldKeys("mcp:client"), NEW c \in ClientIds, Present(ClientKey(c))'
    PROVE  /\ Present(ClientKey(c))
           /\ Value(ClientKey(c))' = Value(ClientKey(c))
  BY KeyInKey, KeyPrefix DEF OldKeys, Present, Value

LEMMA ClientTyped ==
    ASSUME StateOK
    PROVE  /\ \A r \in Requests : At(r, "login.client") =>
                  req[r].client \in ClientIds /\ req[r].login \in Logins
           /\ \A r \in Requests : At(r, "authorize.put") =>
                  req[r].auth \in AuthorizationRequest
           /\ \A a \in AuthorizationRequest : a.client \in ClientIds
           /\ \A s \in States : asked[s] # None =>
                  asked[s] \in AuthorizationRequest
  BY DEF StateOK, LogsOK, At, Handler, Idle, AuthorizationRequest

LEMMA ClientFrame ==
    ASSUME ClientInv, drawn \subseteq drawn', LeavesOut({"login.client"}),
           UNCHANGED asked
    PROVE  ClientInv'
  BY DEF ClientInv, LeavesOut, At

LEMMA PutClientEffect ==
    ASSUME StoreOK, NEW c \in ClientIds, NEW v, NEW ttl,
           Put(ClientKey(c), v, ttl)
    PROVE  /\ store'[ClientKey(c)].val = v
           /\ \A d \in ClientIds : d # c =>
                  store'[ClientKey(d)] = store[ClientKey(d)]
  <1>1. ClientKey(c) \in Key /\ \A d \in ClientIds : ClientKey(d) \in Key
    BY KeyInKey
  <1>2. /\ \A j \in Key : j # ClientKey(c) => store'[j] = store[j]
        /\ store'[ClientKey(c)] = [val |-> v, exp |-> clock + ttl]
    BY <1>1, PutEffect
  <1>3. \A d \in ClientIds : d # c => ClientKey(d) # ClientKey(c)
    BY KeyInjective
  <1> QED BY <1>1, <1>2, <1>3

LEMMA ClientRegister ==
    ASSUME ClientInv, NEW c \in ClientIds, NEW uris \in SUBSET Redirects,
           register(c, uris)
    PROVE  ClientInv'
  BY ClientFrame DEF register, randomToken, LeavesOut, logs

LEMMA ClientAuthorize ==
    ASSUME StateOK, ClientInv, NEW r \in Requests,
           NEW a \in AuthorizationRequest, authorize(r, a)
    PROVE  ClientInv'
  <1>1. LeavesOut({"login.client"})
    BY ContinueLeavesOut DEF authorize, StateOK
  <1> QED BY <1>1, ClientFrame DEF authorize, logs

LEMMA ClientAuthorizePut ==
    ASSUME StateOK, ClientInv, NEW r \in Requests, NEW s \in States,
           authorizePut(r, s)
    PROVE  ClientInv'
  <1>1. LeavesOut({"login.client"})
    BY ContinueLeavesOut DEF authorizePut, Respond, Idle, StateOK
  <1>2. /\ drawn' = drawn \union {s}
        /\ asked' = [asked EXCEPT ![s] = req[r].auth]
    BY DEF authorizePut, randomToken
  <1> QED BY <1>1, <1>2 DEF ClientInv, LeavesOut, At, StateOK, LogsOK

LEMMA ClientWebLogin ==
    ASSUME StateOK, ClientInv, NEW r \in Requests, NEW f \in Logins,
           NEW c \in ClientIds, webLogin(r, f, c)
    PROVE  ClientInv'
  <1>1. /\ req'[r] = [at |-> "login.client", login |-> f, client |-> c]
        /\ \A q \in Requests : q # r => req'[q] = req[q]
        /\ drawn' = drawn \union {f, c}
        /\ UNCHANGED asked
    BY ContinueEffect DEF webLogin, StateOK, logs
  <1> QED BY <1>1 DEF ClientInv, At

LEMMA ClientWebLoginClient ==
    ASSUME StateOK, ClientInv, NEW r \in Requests, webLoginClient(r)
    PROVE  ClientInv'
  <1>1. LeavesOut({"login.client"})
    BY ContinueLeavesOut DEF webLoginClient, Respond, Idle, StateOK
  <1> QED BY <1>1, ClientFrame DEF webLoginClient

-----------------------------------------------------------------------------
(* The steps of neither dance nor client: revocation, the browser's side   *)
(* of a login, sessions, faults and time.                                  *)

FormLabels == {"complete.delete", "complete.client", "complete.user",
               "complete.code"}
TokenLabels == {"token.delete", "token.put"}
SignInLabels == ClientLabels \union CallbackLabels \union FormLabels
                    \union TokenLabels

OldSignIn ==
    /\ OldKeys("mcp:client") /\ OldKeys("oauth:state")
    /\ OldKeys("oauth:pending") /\ OldKeys("oauth:code")

Quiet ==
    /\ OldSignIn
    /\ drawn \subseteq drawn'
    /\ UNCHANGED <<asked, grants, spent, codeLog, tokenLog>>
    /\ LeavesOut(SignInLabels)

Outside(label) == label \notin SignInLabels

LEMMA Outsiders ==
    /\ Outside("idle") /\ Outside("webcallback.code")
    /\ Outside("webcallback.take") /\ Outside("webcallback.session")
    /\ Outside("logout.user") /\ Outside("logout.delete")
  BY DEF Outside, SignInLabels, ClientLabels, CallbackLabels, FormLabels,
         TokenLabels

LEMMA OldDeleted ==
    ASSUME StateOK, NEW k \in Key, Delete(k), UNCHANGED clock
    PROVE  OldSignIn
  BY DeleteOldKeys DEF OldSignIn, StateOK

LEMMA OldUnchanged ==
    ASSUME UNCHANGED <<store, clock>>
    PROVE  OldSignIn
  BY UnchangedOldKeys DEF OldSignIn

LEMMA QuietContinue ==
    ASSUME StateOK, NEW r \in Requests, NEW h, Continue(r, h), Outside(h.at)
    PROVE  LeavesOut(SignInLabels)
  BY ContinueLeavesOut DEF StateOK, Outside

LEMMA QuietRespond ==
    ASSUME StateOK, NEW r \in Requests, Respond(r)
    PROVE  LeavesOut(SignInLabels)
  BY QuietContinue, Outsiders DEF Respond, Idle

LEMMA QuietRevoke ==
    ASSUME StateOK, NEW t \in Tokens, revoke(t)
    PROVE  Quiet
  <1>1. TokenKey(t) \in Key
    BY KeyInKey
  <1>2. OldSignIn
    BY <1>1, OldDeleted, OldUnchanged DEF revoke
  <1> QED BY <1>2 DEF revoke, Quiet, LeavesOut, external, logs

LEMMA QuietWebCallback ==
    ASSUME StateOK, NEW r \in Requests, NEW f \in Logins, NEW c \in Codes,
           webCallback(r, f, c)
    PROVE  Quiet
  <1>1. FlowKey(f) \in Key
    BY KeyInKey
  <1>2. OldSignIn
    BY <1>1, OldDeleted DEF webCallback, Take
  <1>3. LeavesOut(SignInLabels)
    BY QuietContinue, QuietRespond, Outsiders DEF webCallback
  <1> QED BY <1>2, <1>3 DEF webCallback, Quiet, external, logs

LEMMA QuietWebCallbackCode ==
    ASSUME StateOK, NEW r \in Requests, webCallbackCode(r)
    PROVE  Quiet
  <1>1. LeavesOut(SignInLabels)
    BY QuietContinue, QuietRespond, Outsiders DEF webCallbackCode
  <1> QED BY <1>1, OldUnchanged DEF webCallbackCode, Quiet, external, logs

LEMMA QuietWebCallbackTake ==
    ASSUME StateOK, NEW r \in Requests, webCallbackTake(r)
    PROVE  Quiet
  <1>1. CodeKey(req[r].code) \in Key
    BY KeyInKey DEF webCallbackTake, At, StateOK, Handler, Idle
  <1>2. OldSignIn
    BY <1>1, OldDeleted, OldUnchanged DEF webCallbackTake, Take
  <1>3. [req[r] EXCEPT !.at = "webcallback.session"].at = "webcallback.session"
    BY MoveLabel
  <1>4. \/ Respond(r)
        \/ Continue(r, [req[r] EXCEPT !.at = "webcallback.session"])
    BY DEF webCallbackTake
  <1>5. LeavesOut(SignInLabels)
    BY <1>3, <1>4, QuietContinue, QuietRespond, Outsiders
  <1> QED BY <1>2, <1>5 DEF webCallbackTake, Quiet, external, logs

LEMMA QuietWebCallbackSession ==
    ASSUME StateOK, NEW r \in Requests, NEW s \in Sessions,
           webCallbackSession(r, s)
    PROVE  Quiet
  <1>1. SessionKey(s) \in Key
    BY KeyInKey
  <1>2. OldSignIn
    BY <1>1, PutOldKeys, KeyPrefix DEF webCallbackSession, OldSignIn, StateOK
  <1>3. LeavesOut(SignInLabels)
    BY QuietRespond DEF webCallbackSession
  <1> QED BY <1>2, <1>3 DEF webCallbackSession, Quiet, external, randomToken

LEMMA QuietWebLogout ==
    ASSUME StateOK, NEW r \in Requests, NEW s \in Sessions,
           NEW x \in Sessions, webLogout(r, s, x)
    PROVE  Quiet
  <1>1. LeavesOut(SignInLabels)
    BY QuietContinue, Outsiders DEF webLogout
  <1> QED BY <1>1, OldUnchanged DEF webLogout, Quiet, external, logs

LEMMA QuietWebLogoutUser ==
    ASSUME StateOK, NEW r \in Requests, webLogoutUser(r)
    PROVE  Quiet
  <1>1. LeavesOut(SignInLabels)
    BY QuietContinue, QuietRespond, Outsiders DEF webLogoutUser
  <1> QED BY <1>1, OldUnchanged DEF webLogoutUser, Quiet, external, logs

LEMMA QuietWebLogoutDelete ==
    ASSUME StateOK, NEW r \in Requests, webLogoutDelete(r)
    PROVE  Quiet
  <1>1. SessionKey(req[r].session) \in Key
    BY KeyInKey DEF webLogoutDelete, At, StateOK, Handler, Idle
  <1>2. OldSignIn
    BY <1>1, OldDeleted DEF webLogoutDelete
  <1>3. LeavesOut(SignInLabels)
    BY QuietRespond DEF webLogoutDelete
  <1> QED BY <1>2, <1>3 DEF webLogoutDelete, Quiet, external, logs

LEMMA QuietStop ==
    ASSUME StateOK, NEW r \in Requests, Stop(r)
    PROVE  Quiet
  <1>1. LeavesOut(SignInLabels)
    BY QuietRespond DEF Stop
  <1> QED BY <1>1, OldUnchanged DEF Stop, Quiet, external, logs

LEMMA QuietTick ==
    ASSUME StateOK, Tick
    PROVE  Quiet
  <1>1. OldSignIn
    BY ElapseOldKeys DEF Tick, OldSignIn, StateOK
  <1> QED BY <1>1 DEF Tick, Quiet, LeavesOut, external, logs

LEMMA QuietStutter ==
    ASSUME UNCHANGED vars
    PROVE  Quiet
  BY OldUnchanged DEF vars, Quiet, LeavesOut

(* The steps that are quiet, together. *)
QuietSteps ==
    \/ \E t \in Tokens : revoke(t)
    \/ \E r \in Requests :
           \/ \E f \in Logins, c \in Codes : webCallback(r, f, c)
           \/ webCallbackCode(r)
           \/ webCallbackTake(r)
           \/ \E s \in Sessions : webCallbackSession(r, s)
           \/ \E s \in Sessions, x \in Sessions : webLogout(r, s, x)
           \/ webLogoutUser(r)
           \/ webLogoutDelete(r)
           \/ Stop(r)
    \/ Tick
    \/ UNCHANGED vars

LEMMA QuietStep ==
    ASSUME StateOK, QuietSteps
    PROVE  Quiet
  BY QuietRevoke, QuietWebCallback, QuietWebCallbackCode,
     QuietWebCallbackTake, QuietWebCallbackSession, QuietWebLogout,
     QuietWebLogoutUser, QuietWebLogoutDelete, QuietStop, QuietTick,
     QuietStutter DEF QuietSteps

LEMMA ClientQuiet ==
    ASSUME StateOK, ClientInv, Quiet
    PROVE  ClientInv'
  <1>1. LeavesOut({"login.client"})
    BY DEF Quiet, LeavesOut, SignInLabels, ClientLabels
  <1> QED BY <1>1, ClientFrame DEF Quiet, OldSignIn

-----------------------------------------------------------------------------
(* Dances.  What the store and the handlers say of a state is what its     *)
(* client asked, and the consent they carry was given for that state.      *)

Backed(auth, s) == asked[s] # None /\ auth = asked[s]

PendingOK(p, s) ==
    /\ Backed(p.auth, s)
    /\ grants[p.grant] # None
    /\ grants[p.grant].state = s
    /\ grants[p.grant].account = p.account

OwnAccount(user, account) == user \in AccountUsers => user[1] = account

(* A code out of the dance of its client, for the account that consented   *)
(* if it is for an account at all.                                         *)
Issued(c, client, challenge, user) ==
    \E x \in codeLog :
        /\ x.code = c
        /\ x.client = client
        /\ x.user = user
        /\ Dance(x, challenge)
        /\ OwnAccount(x.user, grants[x.grant].account)

StateEntries ==
    \A s \in States : Present(StateKey(s)) => Backed(Value(StateKey(s)), s)

PendingEntries ==
    \A s \in States :
        Present(PendingKey(s)) => PendingOK(Value(PendingKey(s)), s)

IssuedAs(c, v) == Issued(c, v.client, v.challenge, v.user)

CodeEntries ==
    \A c \in Codes : Present(CodeKey(c)) => IssuedAs(c, Value(CodeKey(c)))

Right(r) ==
    /\ req[r].at \in CallbackLabels => Backed(req[r].auth, req[r].state)
    /\ req[r].at \in FormLabels => PendingOK(req[r].pending, req[r].state)
    /\ req[r].at \in {"complete.user", "complete.code"} =>
           OwnAccount(req[r].user, req[r].pending.account)
    /\ req[r].at \in TokenLabels =>
           Issued(req[r].code, req[r].client, req[r].verifier, req[r].user)

Bearers ==
    \A t \in tokenLog : Issued(t.code, t.client, t.verifier, t.user)

DanceInv ==
    /\ StateEntries
    /\ PendingEntries
    /\ CodeEntries
    /\ \A r \in Requests : Right(r)
    /\ Bearers

LEMMA DanceInit == Init => DanceInv
  <1> SUFFICES ASSUME Init
               PROVE  DanceInv
    OBVIOUS
  <1>1. \A k \in Key : ~ Present(k)
    BY DEF Init, Present, Absent
  <1>2. StateEntries /\ PendingEntries /\ CodeEntries
    BY <1>1, KeyInKey DEF StateEntries, PendingEntries, CodeEntries
  <1>3. \A r \in Requests : Right(r)
    BY DEF Init, Right, Idle, CallbackLabels, FormLabels, TokenLabels
  <1>4. Bearers
    BY DEF Init, Bearers
  <1> QED BY <1>2, <1>3, <1>4 DEF DanceInv

(* What is told stays told. *)
Kept ==
    /\ \A s \in States : asked[s] # None => asked'[s] = asked[s]
    /\ \A a \in AtlCodes : grants[a] # None => grants'[a] = grants[a]
    /\ codeLog \subseteq codeLog'

LEMMA BackedKept ==
    ASSUME Kept, NEW s \in States, NEW auth, Backed(auth, s)
    PROVE  Backed(auth, s)'
  BY DEF Kept, Backed

LEMMA PendingKept ==
    ASSUME Kept, NEW s \in States, NEW p \in Pending, PendingOK(p, s)
    PROVE  PendingOK(p, s)'
  BY DEF Kept, PendingOK, Backed, Pending

LEMMA IssuedKept ==
    ASSUME StateOK, Kept, NEW c, NEW client, NEW challenge, NEW user,
           Issued(c, client, challenge, user)
    PROVE  Issued(c, client, challenge, user)'
  <1>1. PICK x \in codeLog :
            /\ x.code = c /\ x.client = client /\ x.user = user
            /\ Dance(x, challenge)
            /\ OwnAccount(x.user, grants[x.grant].account)
    BY DEF Issued
  <1>2. x.state \in States /\ x.grant \in AtlCodes
    BY DEF StateOK, LogsOK
  <1>3. /\ asked'[x.state] = asked[x.state]
        /\ grants'[x.grant] = grants[x.grant]
        /\ x \in codeLog'
    BY <1>1, <1>2 DEF Kept, Dance
  <1>4. Dance(x, challenge)'
    BY <1>1, <1>3 DEF Dance
  <1>5. OwnAccount(x.user, grants[x.grant].account)'
    BY <1>1, <1>3 DEF OwnAccount
  <1> QED BY <1>1, <1>3, <1>4, <1>5 DEF Issued

LEMMA HandlerTyped ==
    ASSUME StateOK, NEW r \in Requests
    PROVE  /\ req[r].at \in CallbackLabels =>
                  /\ req[r].state \in States
                  /\ req[r].grant \in AtlCodes \union {None}
                  /\ req[r].auth \in AuthorizationRequest
           /\ req[r].at \in {"callback.exchange", "callback.put"} =>
                  req[r].grant \in AtlCodes
           /\ req[r].at \in FormLabels =>
                  /\ req[r].state \in States
                  /\ req[r].site \in Sites
                  /\ req[r].pending \in Pending
           /\ req[r].at \in TokenLabels => req[r].code \in Codes
  BY DEF StateOK, Handler, Idle, CallbackLabels, FormLabels, TokenLabels

LEMMA RightStays ==
    ASSUME StateOK, Kept, NEW q \in Requests, req'[q] = req[q], Right(q)
    PROVE  Right(q)'
  <1>1. req[q].at \in CallbackLabels => Backed(req[q].auth, req[q].state)'
    BY BackedKept, HandlerTyped DEF Right
  <1>2. req[q].at \in FormLabels => PendingOK(req[q].pending, req[q].state)'
    BY PendingKept, HandlerTyped DEF Right
  <1>3. req[q].at \in {"complete.user", "complete.code"} =>
            OwnAccount(req[q].user, req[q].pending.account)
    BY DEF Right
  <1>4. req[q].at \in TokenLabels =>
            Issued(req[q].code, req[q].client, req[q].verifier, req[q].user)'
    BY IssuedKept DEF Right
  <1> QED BY <1>1, <1>2, <1>3, <1>4 DEF Right, OwnAccount

LEMMA StatesKept ==
    ASSUME Kept, OldKeys("oauth:state"), StateEntries
    PROVE  StateEntries'
  <1> SUFFICES ASSUME NEW s \in States, Present(StateKey(s))'
               PROVE  Backed(Value(StateKey(s)), s)'
    BY DEF StateEntries
  <1>1. /\ Present(StateKey(s))
        /\ Value(StateKey(s))' = Value(StateKey(s))
    BY KeyInKey, KeyPrefix DEF OldKeys, Present, Value
  <1> QED BY <1>1, BackedKept DEF StateEntries, Backed, Kept

LEMMA PendingsKept ==
    ASSUME StateOK, Kept, OldKeys("oauth:pending"), PendingEntries
    PROVE  PendingEntries'
  <1> SUFFICES ASSUME NEW s \in States, Present(PendingKey(s))'
               PROVE  PendingOK(Value(PendingKey(s)), s)'
    BY DEF PendingEntries
  <1>1. /\ Present(PendingKey(s))
        /\ Value(PendingKey(s))' = Value(PendingKey(s))
    BY KeyInKey, KeyPrefix DEF OldKeys, Present, Value
  <1>2. Value(PendingKey(s)) \in Pending
    BY <1>1, GetTyped DEF StateOK
  <1> QED BY <1>1, <1>2 DEF PendingEntries, PendingOK, Backed, Kept, Pending

LEMMA IssuedAsKept ==
    ASSUME StateOK, Kept, NEW c, IssuedAs(c, Value(CodeKey(c))),
           Value(CodeKey(c))' = Value(CodeKey(c))
    PROVE  IssuedAs(c, Value(CodeKey(c)))'
  <1>1. PICK v : v = Value(CodeKey(c))
    OBVIOUS
  <1>2. Issued(c, v.client, v.challenge, v.user)'
    BY <1>1, IssuedKept DEF IssuedAs
  <1> QED BY <1>1, <1>2 DEF IssuedAs

LEMMA CodesKept ==
    ASSUME StateOK, Kept, OldKeys("oauth:code"), CodeEntries
    PROVE  CodeEntries'
  <1> SUFFICES ASSUME NEW c \in Codes, Present(CodeKey(c))'
               PROVE  IssuedAs(c, Value(CodeKey(c)))'
    BY DEF CodeEntries
  <1>1. /\ Present(CodeKey(c))
        /\ Value(CodeKey(c))' = Value(CodeKey(c))
    BY KeyInKey, KeyPrefix DEF OldKeys, Present, Value
  <1> QED BY <1>1, IssuedAsKept DEF CodeEntries

LEMMA BearersKept ==
    ASSUME StateOK, Kept, UNCHANGED tokenLog, Bearers
    PROVE  Bearers'
  <1> SUFFICES ASSUME NEW t \in tokenLog
               PROVE  Issued(t.code, t.client, t.verifier, t.user)'
    BY DEF Bearers, Issued
  <1> QED BY IssuedKept DEF Bearers

LEMMA DanceFrame ==
    ASSUME StateOK, DanceInv, Kept,
           OldKeys("oauth:state") \/ StateEntries',
           OldKeys("oauth:pending") \/ PendingEntries',
           OldKeys("oauth:code") \/ CodeEntries',
           tokenLog' = tokenLog \/ Bearers',
           \A q \in Requests : req'[q] = req[q] \/ Right(q)'
    PROVE  DanceInv'
  <1>1. StateEntries' /\ PendingEntries' /\ CodeEntries'
    BY StatesKept, PendingsKept, CodesKept DEF DanceInv
  <1>2. Bearers'
    BY BearersKept DEF DanceInv
  <1>3. \A q \in Requests : Right(q)'
    BY RightStays DEF DanceInv
  <1> QED BY <1>1, <1>2, <1>3 DEF DanceInv

DanceLabels == CallbackLabels \union FormLabels \union TokenLabels

LEMMA RightOutside ==
    ASSUME NEW r \in Requests, req'[r].at \notin DanceLabels
    PROVE  Right(r)'
  BY DEF Right, DanceLabels, CallbackLabels, FormLabels, TokenLabels

LEMMA DanceQuiet ==
    ASSUME StateOK, DanceInv, Quiet
    PROVE  DanceInv'
  <1>1. Kept
    BY DEF Quiet, Kept
  <1>2. \A q \in Requests : req'[q] = req[q] \/ Right(q)'
    BY RightOutside DEF Quiet, LeavesOut, SignInLabels, DanceLabels
  <1> QED BY <1>1, <1>2, DanceFrame DEF Quiet, OldSignIn

(* The steps of a dance, in the order it takes them. *)

LEMMA DanceRegister ==
    ASSUME StateOK, DanceInv, NEW c \in ClientIds,
           NEW uris \in SUBSET Redirects, register(c, uris)
    PROVE  DanceInv'
  <1>1. /\ OldKeys("oauth:state") /\ OldKeys("oauth:pending")
        /\ OldKeys("oauth:code")
    BY PutOldKeys, KeyInKey, KeyPrefix DEF register, StateOK
  <1> QED BY <1>1, DanceFrame DEF register, Kept, external, logs

LEMMA DanceWebLogin ==
    ASSUME StateOK, DanceInv, NEW r \in Requests, NEW f \in Logins,
           NEW c \in ClientIds, webLogin(r, f, c)
    PROVE  DanceInv'
  <1>1. /\ OldKeys("oauth:state") /\ OldKeys("oauth:pending")
        /\ OldKeys("oauth:code")
    BY PutOldKeys, KeyInKey, KeyPrefix DEF webLogin, StateOK
  <1>2. \A q \in Requests : req'[q] = req[q] \/ Right(q)'
    BY ContinueEffect, RightOutside
       DEF webLogin, StateOK, DanceLabels, CallbackLabels, FormLabels,
           TokenLabels
  <1> QED BY <1>1, <1>2, DanceFrame DEF webLogin, Kept, external, logs

LEMMA IdleRight ==
    ASSUME StateOK, NEW r \in Requests, Respond(r)
    PROVE  \A q \in Requests : req'[q] = req[q] \/ Right(q)'
  BY ContinueEffect, RightOutside
     DEF Respond, StateOK, Idle, DanceLabels, CallbackLabels, FormLabels,
         TokenLabels

LEMMA DanceWebLoginClient ==
    ASSUME StateOK, DanceInv, NEW r \in Requests, webLoginClient(r)
    PROVE  DanceInv'
  <1>1. ClientKey(req[r].client) \in Key
    BY ClientTyped, KeyInKey DEF webLoginClient
  <1>2. /\ OldKeys("oauth:state") /\ OldKeys("oauth:pending")
        /\ OldKeys("oauth:code")
    BY <1>1, PutOldKeys, KeyPrefix DEF webLoginClient, StateOK
  <1>3. \A q \in Requests : req'[q] = req[q] \/ Right(q)'
    BY IdleRight DEF webLoginClient
  <1> QED BY <1>2, <1>3, DanceFrame DEF webLoginClient, Kept, external

LEMMA DanceAuthorize ==
    ASSUME StateOK, DanceInv, NEW r \in Requests,
           NEW a \in AuthorizationRequest, authorize(r, a)
    PROVE  DanceInv'
  <1>1. \A q \in Requests : req'[q] = req[q] \/ Right(q)'
    BY ContinueEffect, RightOutside
       DEF authorize, StateOK, DanceLabels, CallbackLabels, FormLabels,
           TokenLabels
  <1> QED BY <1>1, DanceFrame, UnchangedOldKeys
          DEF authorize, Kept, external, logs

LEMMA DanceAuthorizePut ==
    ASSUME StateOK, ClientInv, DanceInv, NEW r \in Requests, NEW s \in States,
           authorizePut(r, s)
    PROVE  DanceInv'
  <1>1. /\ OldKeys("oauth:pending") /\ OldKeys("oauth:code")
    BY PutOldKeys, KeyInKey, KeyPrefix DEF authorizePut, StateOK
  <1>2. \A q \in Requests : req'[q] = req[q] \/ Right(q)'
    BY IdleRight DEF authorizePut
  <1>3. /\ asked[s] = None
        /\ asked'[s] = req[r].auth
        /\ \A x \in States : x # s => asked'[x] = asked[x]
        /\ req[r].auth # None
    BY ClientTyped, NoneAssumption
       DEF ClientInv, authorizePut, randomToken, StateOK, LogsOK
  <1>4. Kept
    BY <1>3 DEF Kept, authorizePut, external
  <1>5. /\ store'[StateKey(s)].val = req[r].auth
        /\ \A x \in States : x # s =>
               store'[StateKey(x)] = store[StateKey(x)]
    <2>1. \A x \in States : StateKey(x) \in Key
      BY KeyInKey
    <2>2. /\ \A j \in Key : j # StateKey(s) => store'[j] = store[j]
          /\ store'[StateKey(s)] = [val |-> req[r].auth,
                                    exp |-> clock + StateTTL]
      BY <2>1, PutEffect DEF authorizePut, StateOK
    <2>3. \A x \in States : x # s => StateKey(x) # StateKey(s)
      BY KeyInjective
    <2> QED BY <2>1, <2>2, <2>3
  <1>6. StateEntries'
    BY <1>3, <1>5
       DEF DanceInv, StateEntries, Backed, Present, Value, authorizePut
  <1> QED BY <1>1, <1>2, <1>4, <1>6, DanceFrame DEF authorizePut

LEMMA DanceCallback ==
    ASSUME StateOK, DanceInv, NEW r \in Requests, NEW s \in States,
           NEW code \in AtlCodes \union {None}, callback(r, s, code)
    PROVE  DanceInv'
  <1>1. /\ req'[r] = [at |-> "callback.delete", state |-> s, grant |-> code,
                      auth |-> Value(StateKey(s))]
        /\ \A q \in Requests : q # r => req'[q] = req[q]
    BY ContinueEffect DEF callback, StateOK
  <1>2. Kept
    BY DEF callback, Kept, logs, Consent, StateOK
  <1>3. Right(r)'
    BY <1>1 DEF callback, logs, DanceInv, StateEntries, Right, Backed,
                CallbackLabels, FormLabels, TokenLabels
  <1> QED BY <1>1, <1>2, <1>3, DanceFrame, UnchangedOldKeys
          DEF callback, logs

LEMMA DanceCallbackDelete ==
    ASSUME StateOK, DanceInv, NEW r \in Requests, callbackDelete(r)
    PROVE  DanceInv'
  <1>1. req[r] \in [at : {"callback.delete"}, state : States,
            grant : AtlCodes \union {None}, auth : AuthorizationRequest]
    BY DEF StateOK, callbackDelete, At, Handler, Idle
  <1>2. StateKey(req[r].state) \in Key
    BY <1>1, KeyInKey
  <1>3. /\ OldKeys("oauth:state") /\ OldKeys("oauth:pending")
        /\ OldKeys("oauth:code")
    BY <1>2, DeleteOldKeys, UnchangedOldKeys DEF callbackDelete, StateOK
  <1>4. CASE Respond(r)
    BY <1>3, <1>4, IdleRight, DanceFrame
       DEF callbackDelete, Kept, external, logs
  <1>5. CASE Continue(r, [req[r] EXCEPT !.at = "callback.exchange"])
    <2>1. /\ req'[r].at = "callback.exchange"
          /\ req'[r].auth = req[r].auth /\ req'[r].state = req[r].state
          /\ \A q \in Requests : q # r => req'[q] = req[q]
      BY <1>1, <1>5, ContinueEffect DEF StateOK
    <2>2. Right(r)'
      BY <1>1, <2>1 DEF callbackDelete, logs, DanceInv, Right, Backed,
                        CallbackLabels, FormLabels, TokenLabels
    <2> QED BY <1>3, <2>1, <2>2, DanceFrame
            DEF callbackDelete, Kept, external, logs
  <1> QED BY <1>4, <1>5 DEF callbackDelete

LEMMA DanceExchange ==
    ASSUME StateOK, DanceInv, NEW r \in Requests, NEW sites \in SUBSET Sites,
           exchangeAtlassian(r, sites)
    PROVE  DanceInv'
  <1>1. CASE Respond(r)
    BY <1>1, IdleRight, DanceFrame, UnchangedOldKeys
       DEF exchangeAtlassian, Kept, logs
  <1>2. CASE ~ Respond(r)
    <2>1. /\ req'[r] = [at |-> "callback.put", state |-> req[r].state,
                        auth |-> req[r].auth, grant |-> req[r].grant,
                        sites |-> sites]
          /\ \A q \in Requests : q # r => req'[q] = req[q]
      BY <1>2, ContinueEffect DEF exchangeAtlassian, StateOK
    <2>2. Backed(req[r].auth, req[r].state)
      BY DEF exchangeAtlassian, At, DanceInv, Right, CallbackLabels
    <2>3. /\ req'[r].at = "callback.put"
          /\ req'[r].auth = req[r].auth /\ req'[r].state = req[r].state
      BY <2>1
    <2>4. Right(r)'
      BY <2>2, <2>3 DEF exchangeAtlassian, logs, Right, Backed,
                        CallbackLabels, FormLabels, TokenLabels
    <2> QED BY <2>1, <2>4, DanceFrame, UnchangedOldKeys
            DEF exchangeAtlassian, Kept, logs
  <1> QED BY <1>1, <1>2

LEMMA DanceCallbackPut ==
    ASSUME TInv, DanceInv, NEW r \in Requests, callbackPut(r)
    PROVE  DanceInv'
  <1> DEFINE s == req[r].state
             p == [auth |-> req[r].auth, grant |-> req[r].grant,
                   account |-> grants[req[r].grant].account,
                   sites |-> req[r].sites]
  <1> USE DEF TInv
  <1>1. s \in States /\ req[r].grant \in AtlCodes /\ req[r].grant # None
    BY HandlerTyped, NoneAssumption DEF callbackPut, At, CallbackLabels
  <1>2. /\ OldKeys("oauth:state") /\ OldKeys("oauth:code")
    BY <1>1, PutOldKeys, KeyInKey, KeyPrefix DEF callbackPut, StateOK
  <1>3. PendingOK(p, s)
    <2>1. Backed(req[r].auth, s)
      BY DEF callbackPut, At, DanceInv, Right, CallbackLabels
    <2>2. grants[req[r].grant] # None /\ grants[req[r].grant].state = s
      BY <1>1 DEF callbackPut, At, ConsentHeld
    <2> QED BY <2>1, <2>2 DEF PendingOK
  <1>4. Put(PendingKey(s), p, StateTTL)
    BY DEF callbackPut
  <1>5. /\ store'[PendingKey(s)].val = p
        /\ \A x \in States : x # s =>
               store'[PendingKey(x)] = store[PendingKey(x)]
    <2> HIDE DEF p
    <2>1. \A x \in States : PendingKey(x) \in Key
      BY KeyInKey
    <2>2. /\ \A j \in Key : j # PendingKey(s) => store'[j] = store[j]
          /\ store'[PendingKey(s)] = [val |-> p, exp |-> clock + StateTTL]
      BY <1>1, <1>4, <2>1, PutEffect DEF StateOK
    <2>3. \A x \in States : x # s => PendingKey(x) # PendingKey(s)
      BY KeyInjective
    <2> QED BY <2>1, <2>2, <2>3
  <1> HIDE DEF p, s
  <1>6. UNCHANGED <<grants, asked, clock, codeLog, tokenLog>>
    BY DEF callbackPut, external, logs
  <1>7. PendingEntries'
    <2> SUFFICES ASSUME NEW x \in States, Present(PendingKey(x))'
                 PROVE  PendingOK(Value(PendingKey(x)), x)'
      BY DEF PendingEntries
    <2>1. CASE x = s
      BY <1>3, <1>5, <1>6, <2>1 DEF PendingOK, Backed, Value
    <2>2. CASE x # s
      BY <1>5, <1>6, <2>2
         DEF DanceInv, PendingEntries, PendingOK, Backed, Value, Present
    <2> QED BY <2>1, <2>2
  <1>8. \A q \in Requests : req'[q] = req[q] \/ Right(q)'
    BY IdleRight DEF callbackPut
  <1> QED BY <1>2, <1>6, <1>7, <1>8, DanceFrame DEF Kept

LEMMA DanceComplete ==
    ASSUME StateOK, DanceInv, NEW r \in Requests, NEW s \in States,
           NEW site \in Sites, complete(r, s, site)
    PROVE  DanceInv'
  <1>1. /\ req'[r] = [at |-> "complete.delete", state |-> s, site |-> site,
                      pending |-> Value(PendingKey(s))]
        /\ \A q \in Requests : q # r => req'[q] = req[q]
    BY ContinueEffect DEF complete, StateOK
  <1>2. PendingOK(Value(PendingKey(s)), s)
    BY DEF complete, DanceInv, PendingEntries
  <1>3. /\ req'[r].at = "complete.delete" /\ req'[r].state = s
        /\ req'[r].pending = Value(PendingKey(s))
    BY <1>1
  <1>4. Right(r)'
    BY <1>2, <1>3 DEF complete, external, logs, Right, PendingOK, Backed,
                      CallbackLabels, FormLabels, TokenLabels
  <1> QED BY <1>1, <1>4, DanceFrame, UnchangedOldKeys
          DEF complete, Kept, external, logs

LEMMA DanceCompleteDelete ==
    ASSUME StateOK, DanceInv, NEW r \in Requests, completeDelete(r)
    PROVE  DanceInv'
  <1>1. req[r] \in [at : {"complete.delete"}, state : States, site : Sites,
                    pending : Pending]
    BY DEF StateOK, completeDelete, At, Handler, Idle
  <1>2. PendingKey(req[r].state) \in Key
    BY <1>1, KeyInKey
  <1>3. /\ OldKeys("oauth:state") /\ OldKeys("oauth:pending")
        /\ OldKeys("oauth:code")
    BY <1>2, DeleteOldKeys DEF completeDelete, StateOK
  <1>4. /\ req'[r].at = "complete.client" /\ req'[r].state = req[r].state
        /\ req'[r].pending = req[r].pending
        /\ \A q \in Requests : q # r => req'[q] = req[q]
    BY <1>1, ContinueEffect DEF completeDelete, StateOK
  <1>5. PendingOK(req[r].pending, req[r].state)
    BY <1>1 DEF DanceInv, Right, FormLabels
  <1>6. Right(r)'
    BY <1>4, <1>5 DEF completeDelete, external, logs, Right, PendingOK,
                      Backed, CallbackLabels, FormLabels, TokenLabels
  <1> QED BY <1>3, <1>4, <1>6, DanceFrame
          DEF completeDelete, Kept, external, logs

(* A form is answered for the account that consented, or for a browser     *)
(* login.                                                                  *)
LEMMA DanceCompleteClient ==
    ASSUME StateOK, DanceInv, NEW r \in Requests, completeClient(r)
    PROVE  DanceInv'
  <1> DEFINE p == req[r].pending
             client == p.auth.client
  <1>1. /\ req[r] \in [at : {"complete.delete", "complete.client"},
                       state : States, site : Sites, pending : Pending]
        /\ req[r].at = "complete.client"
    BY DEF StateOK, completeClient, At, Handler, Idle
  <1>2. /\ req[r].state \in States /\ req[r].site \in Sites
        /\ p \in Pending /\ p.account \in Accounts
        /\ p.auth \in AuthorizationRequest /\ client \in ClientIds
    BY <1>1 DEF Pending, AuthorizationRequest
  <1>3. PendingOK(p, req[r].state)
    BY <1>1 DEF DanceInv, Right, FormLabels
  <1>4. CASE Respond(r)
    BY <1>4, IdleRight, DanceFrame, UnchangedOldKeys
       DEF completeClient, Kept, external, logs
  <1>5. ASSUME NEW u, NEW ttl,
               Continue(r, [at |-> "complete.user", state |-> req[r].state,
                            site |-> req[r].site, pending |-> p,
                            user |-> u, ttl |-> ttl]),
               OwnAccount(u, p.account)
        PROVE  DanceInv'
    <2>1. /\ req'[r] = [at |-> "complete.user", state |-> req[r].state,
                        site |-> req[r].site, pending |-> p,
                        user |-> u, ttl |-> ttl]
          /\ \A q \in Requests : q # r => req'[q] = req[q]
      BY <1>5, ContinueEffect DEF StateOK
    <2>2. /\ req'[r].at = "complete.user" /\ req'[r].state = req[r].state
          /\ req'[r].pending = p /\ req'[r].user = u
      BY <2>1
    <2>3. UNCHANGED <<asked, grants>>
      BY DEF completeClient, external, logs
    <2>4. PendingOK(req[r].pending, req[r].state)'
      BY <1>3, <2>2, <2>3 DEF PendingOK, Backed
    <2>5. OwnAccount(req[r].user, req[r].pending.account)'
      BY <1>5, <2>2 DEF OwnAccount
    <2>6. Right(r)'
      BY <2>2, <2>4, <2>5
         DEF Right, CallbackLabels, FormLabels, TokenLabels
    <2> QED BY <2>1, <2>6, DanceFrame, UnchangedOldKeys
            DEF completeClient, Kept, external, logs
  <1>6. OwnAccount(<<p.account, req[r].site>>, p.account)
    BY DEF OwnAccount
  <1>7. \A b \in BrowserIds : OwnAccount(b, p.account)
    BY UserIdsAssumption DEF OwnAccount
  <1> QED BY <1>4, <1>5, <1>6, <1>7 DEF completeClient

LEMMA DanceCompleteUser ==
    ASSUME StateOK, DanceInv, NEW r \in Requests, completeUser(r)
    PROVE  DanceInv'
  <1>1. req[r] \in [at : {"complete.user", "complete.code"}, state : States,
                    site : Sites, pending : Pending, user : UserIds,
                    ttl : Nat]
    BY DEF StateOK, completeUser, At, Handler, Idle
  <1>2. UserKey(req[r].user) \in Key
    BY <1>1, KeyInKey
  <1>3. /\ OldKeys("oauth:state") /\ OldKeys("oauth:pending")
        /\ OldKeys("oauth:code")
    BY <1>2, PutOldKeys, KeyPrefix DEF completeUser, StateOK
  <1>4. /\ req'[r].at = "complete.code" /\ req'[r].state = req[r].state
        /\ req'[r].pending = req[r].pending /\ req'[r].user = req[r].user
        /\ \A q \in Requests : q # r => req'[q] = req[q]
    BY <1>1, ContinueEffect DEF completeUser, StateOK
  <1>5. /\ PendingOK(req[r].pending, req[r].state)
        /\ OwnAccount(req[r].user, req[r].pending.account)
    BY DEF DanceInv, Right, FormLabels, completeUser, At
  <1>6. UNCHANGED <<asked, grants, codeLog, tokenLog>>
    BY DEF completeUser, external, logs
  <1>7. Right(r)'
    BY <1>4, <1>5, <1>6
       DEF Right, PendingOK, Backed, OwnAccount, CallbackLabels,
           FormLabels, TokenLabels
  <1> QED BY <1>3, <1>4, <1>6, <1>7, DanceFrame DEF Kept

(* The code of an answered form says what the dance was. *)
LEMMA DanceCompleteCode ==
    ASSUME StateOK, DanceInv, NEW r \in Requests, NEW c \in Codes,
           completeCode(r, c)
    PROVE  DanceInv'
  <1> DEFINE p == req[r].pending
  <1>v. PICK v : v = [user |-> req[r].user, client |-> p.auth.client,
                       redirect |-> p.auth.redirect,
                       challenge |-> p.auth.challenge]
    OBVIOUS
  <1>x. PICK x : x = [code |-> c, state |-> req[r].state,
                       client |-> p.auth.client, grant |-> p.grant,
                       user |-> req[r].user]
    OBVIOUS
  <1>1. /\ UNCHANGED <<asked, grants, clock, tokenLog>>
        /\ codeLog' = codeLog \union {x}
    BY <1>x DEF completeCode, external
  <1>2. Put(CodeKey(c), v, CodeTTL)
    BY <1>v DEF completeCode
  <1>3. /\ PendingOK(p, req[r].state)
        /\ OwnAccount(req[r].user, req[r].pending.account)
    BY DEF DanceInv, Right, FormLabels, completeCode, At
  <1>4. /\ x.code = c /\ x.client = p.auth.client /\ x.user = req[r].user
        /\ x.state = req[r].state /\ x.grant = p.grant
        /\ v.client = p.auth.client /\ v.redirect = p.auth.redirect
        /\ v.challenge = p.auth.challenge /\ v.user = req[r].user
    BY <1>v, <1>x
  <1> HIDE DEF p
  <1>5. /\ Dance(x, v.challenge)'
        /\ OwnAccount(x.user, grants[x.grant].account)'
    BY <1>1, <1>3, <1>4 DEF Dance, PendingOK, Backed, OwnAccount, p
  <1>6. IssuedAs(c, v)'
    BY <1>1, <1>4, <1>5 DEF IssuedAs, Issued
  <1>7. Kept
    BY <1>1 DEF Kept
  <1>8. /\ OldKeys("oauth:state") /\ OldKeys("oauth:pending")
    BY <1>2, PutOldKeys, KeyInKey, KeyPrefix DEF completeCode, StateOK
  <1>9. /\ store'[CodeKey(c)].val = v
        /\ \A d \in Codes : d # c => store'[CodeKey(d)] = store[CodeKey(d)]
    <2>1. \A d \in Codes : CodeKey(d) \in Key
      BY KeyInKey
    <2>2. /\ \A j \in Key : j # CodeKey(c) => store'[j] = store[j]
          /\ store'[CodeKey(c)] = [val |-> v, exp |-> clock + CodeTTL]
      BY <1>2, <2>1, PutEffect DEF StateOK
    <2>3. \A d \in Codes : d # c => CodeKey(d) # CodeKey(c)
      BY KeyInjective
    <2> QED BY <2>1, <2>2, <2>3
  <1>10. CodeEntries'
    <2> SUFFICES ASSUME NEW d \in Codes, Present(CodeKey(d))'
                 PROVE  IssuedAs(d, Value(CodeKey(d)))'
      BY DEF CodeEntries
    <2>1. CASE d = c
      <3>1. Value(CodeKey(d))' = v
        BY <1>9, <2>1 DEF Value
      <3> QED BY <1>6, <2>1, <3>1 DEF IssuedAs, Issued
    <2>2. CASE d # c
      <3>1. /\ Present(CodeKey(d))
            /\ Value(CodeKey(d))' = Value(CodeKey(d))
        BY <1>1, <1>9, <2>2 DEF Present, Value
      <3>2. IssuedAs(d, Value(CodeKey(d)))
        BY <3>1 DEF DanceInv, CodeEntries
      <3> QED BY <1>7, <3>1, <3>2, IssuedAsKept
    <2> QED BY <2>1, <2>2
  <1>11. \A q \in Requests : req'[q] = req[q] \/ Right(q)'
    BY IdleRight DEF completeCode
  <1> QED BY <1>1, <1>7, <1>8, <1>10, <1>11, DanceFrame

(* The token handler holds what the code said, and the bearer tells it. *)
LEMMA DanceToken ==
    ASSUME StateOK, DanceInv, NEW r \in Requests, NEW c \in Codes,
           NEW client \in ClientIds, NEW uri \in Redirects,
           NEW verifier \in Verifiers, token(r, c, client, uri, verifier)
    PROVE  DanceInv'
  <1>1. PICK user : user = Value(CodeKey(c)).user
    OBVIOUS
  <1>2. /\ req'[r].at = "token.delete" /\ req'[r].code = c
        /\ req'[r].client = client /\ req'[r].verifier = verifier
        /\ req'[r].user = user
        /\ \A q \in Requests : q # r => req'[q] = req[q]
    <2>1. Continue(r, [at |-> "token.delete", code |-> c, client |-> client,
                       verifier |-> verifier, user |-> user])
      BY <1>1 DEF token
    <2>2. /\ req'[r] = [at |-> "token.delete", code |-> c,
                        client |-> client, verifier |-> verifier,
                        user |-> user]
          /\ \A q \in Requests : q # r => req'[q] = req[q]
      BY <2>1, ContinueEffect DEF StateOK
    <2> QED BY <2>2
  <1>3. Issued(c, client, verifier, user)
    BY <1>1 DEF token, DanceInv, CodeEntries, IssuedAs, CodeMatches,
                verifyPKCE
  <1>4. Kept
    BY DEF token, Kept, external, logs
  <1>5. Issued(c, client, verifier, user)'
    BY <1>3, <1>4, IssuedKept
  <1>6. Right(r)'
    BY <1>2, <1>5 DEF Right, CallbackLabels, FormLabels, TokenLabels, Issued
  <1> QED BY <1>2, <1>4, <1>6, DanceFrame, UnchangedOldKeys
          DEF token, logs

LEMMA DanceTokenDelete ==
    ASSUME StateOK, DanceInv, NEW r \in Requests, tokenDelete(r)
    PROVE  DanceInv'
  <1>1. req[r] \in [at : {"token.delete", "token.put"}, code : Codes,
                    client : ClientIds, verifier : Verifiers, user : UserIds]
    BY DEF StateOK, tokenDelete, At, Handler, Idle
  <1>2. CodeKey(req[r].code) \in Key
    BY <1>1, KeyInKey
  <1>3. /\ OldKeys("oauth:state") /\ OldKeys("oauth:pending")
        /\ OldKeys("oauth:code")
    BY <1>2, DeleteOldKeys, UnchangedOldKeys DEF tokenDelete, StateOK
  <1>4. /\ req'[r].at = "token.put" /\ req'[r].code = req[r].code
        /\ req'[r].client = req[r].client
        /\ req'[r].verifier = req[r].verifier /\ req'[r].user = req[r].user
        /\ \A q \in Requests : q # r => req'[q] = req[q]
    BY <1>1, ContinueEffect DEF tokenDelete, StateOK
  <1>5. Issued(req[r].code, req[r].client, req[r].verifier, req[r].user)
    BY DEF DanceInv, Right, TokenLabels, tokenDelete, At
  <1>6. UNCHANGED <<asked, grants, codeLog, tokenLog>>
    BY DEF tokenDelete, external, logs
  <1>7. Right(r)'
    BY <1>4, <1>5, <1>6
       DEF Right, Issued, Dance, CallbackLabels, FormLabels, TokenLabels
  <1> QED BY <1>3, <1>4, <1>6, <1>7, DanceFrame DEF Kept

LEMMA DanceTokenPut ==
    ASSUME StateOK, DanceInv, NEW r \in Requests, NEW t \in Tokens,
           tokenPut(r, t)
    PROVE  DanceInv'
  <1>1. PICK x : x = [token |-> t, code |-> req[r].code,
                      client |-> req[r].client, verifier |-> req[r].verifier,
                      user |-> req[r].user]
    OBVIOUS
  <1>2. tokenLog' = tokenLog \union {x}
    BY <1>1 DEF tokenPut
  <1>3. Kept
    BY DEF tokenPut, Kept, external
  <1>4. /\ OldKeys("oauth:state") /\ OldKeys("oauth:pending")
        /\ OldKeys("oauth:code")
    BY PutOldKeys, KeyInKey, KeyPrefix DEF tokenPut, StateOK
  <1>5. \A q \in Requests : req'[q] = req[q] \/ Right(q)'
    BY IdleRight DEF tokenPut
  <1>6. Issued(x.code, x.client, x.verifier, x.user)
    BY <1>1 DEF DanceInv, Right, TokenLabels, tokenPut, At
  <1>7. \A u \in tokenLog :
            Issued(u.code, u.client, u.verifier, u.user)
    BY DEF DanceInv, Bearers
  <1>8. \A u \in tokenLog' :
            Issued(u.code, u.client, u.verifier, u.user)'
    BY <1>2, <1>3, <1>6, <1>7, IssuedKept
  <1>9. Bearers'
    BY <1>8 DEF Bearers, Issued
  <1> QED BY <1>3, <1>4, <1>5, <1>9, DanceFrame

-----------------------------------------------------------------------------
(* The steps of a dance begin no browser login.                            *)

LEMMA ClientCallback ==
    ASSUME StateOK, ClientInv, NEW r \in Requests, NEW s \in States,
           NEW code \in AtlCodes \union {None}, callback(r, s, code)
    PROVE  ClientInv'
  <1>1. LeavesOut({"login.client"})
    BY ContinueLeavesOut DEF callback, StateOK
  <1> QED BY <1>1, ClientFrame DEF callback, logs

LEMMA ClientCallbackDelete ==
    ASSUME StateOK, ClientInv, NEW r \in Requests, callbackDelete(r)
    PROVE  ClientInv'
  <1>1. LeavesOut({"login.client"})
    BY ContinueLeavesOut, MoveLeavesOut
       DEF callbackDelete, Respond, Idle, StateOK
  <1> QED BY <1>1, ClientFrame DEF callbackDelete, logs

LEMMA ClientExchange ==
    ASSUME StateOK, ClientInv, NEW r \in Requests, NEW sites \in SUBSET Sites,
           exchangeAtlassian(r, sites)
    PROVE  ClientInv'
  <1>1. LeavesOut({"login.client"})
    BY ContinueLeavesOut
       DEF exchangeAtlassian, Respond, Idle, StateOK
  <1> QED BY <1>1, ClientFrame DEF exchangeAtlassian, logs

LEMMA ClientCallbackPut ==
    ASSUME StateOK, ClientInv, NEW r \in Requests, callbackPut(r)
    PROVE  ClientInv'
  <1>1. LeavesOut({"login.client"})
    BY ContinueLeavesOut DEF callbackPut, Respond, Idle, StateOK
  <1> QED BY <1>1, ClientFrame DEF callbackPut, logs

LEMMA ClientComplete ==
    ASSUME StateOK, ClientInv, NEW r \in Requests, NEW s \in States,
           NEW site \in Sites, complete(r, s, site)
    PROVE  ClientInv'
  <1>1. LeavesOut({"login.client"})
    BY ContinueLeavesOut DEF complete, StateOK
  <1> QED BY <1>1, ClientFrame DEF complete, logs

LEMMA ClientCompleteDelete ==
    ASSUME StateOK, ClientInv, NEW r \in Requests, completeDelete(r)
    PROVE  ClientInv'
  <1>1. LeavesOut({"login.client"})
    BY MoveLeavesOut DEF completeDelete
  <1> QED BY <1>1, ClientFrame DEF completeDelete, logs

LEMMA ClientCompleteClient ==
    ASSUME StateOK, ClientInv, NEW r \in Requests, completeClient(r)
    PROVE  ClientInv'
  <1>1. LeavesOut({"login.client"})
    <2> DEFINE h(u, ttl) ==
                   [at |-> "complete.user", state |-> req[r].state,
                    site |-> req[r].site, pending |-> req[r].pending,
                    user |-> u, ttl |-> ttl]
    <2>1. Respond(r) \/ \E u, ttl : Continue(r, h(u, ttl))
      BY DEF completeClient
    <2>2. Idle.at # "login.client"
          /\ \A u, ttl : h(u, ttl).at # "login.client"
      BY DEF Idle
    <2> HIDE DEF h
    <2> QED BY <2>1, <2>2, ContinueLeavesOut DEF Respond, StateOK
  <1>2. drawn \subseteq drawn'
    BY DEF completeClient, randomToken
  <1> QED BY <1>1, <1>2, ClientFrame
          DEF completeClient, logs

LEMMA ClientCompleteUser ==
    ASSUME StateOK, ClientInv, NEW r \in Requests, completeUser(r)
    PROVE  ClientInv'
  <1>1. LeavesOut({"login.client"})
    BY MoveLeavesOut DEF completeUser
  <1> QED BY <1>1, ClientFrame DEF completeUser, logs

LEMMA ClientCompleteCode ==
    ASSUME StateOK, ClientInv, NEW r \in Requests, NEW c \in Codes,
           completeCode(r, c)
    PROVE  ClientInv'
  <1>1. LeavesOut({"login.client"})
    BY ContinueLeavesOut
       DEF completeCode, Respond, Idle, StateOK
  <1> QED BY <1>1, ClientFrame DEF completeCode, randomToken

LEMMA ClientToken ==
    ASSUME StateOK, ClientInv, NEW r \in Requests, NEW c \in Codes,
           NEW client \in ClientIds, NEW uri \in Redirects,
           NEW verifier \in Verifiers, token(r, c, client, uri, verifier)
    PROVE  ClientInv'
  <1>1. LeavesOut({"login.client"})
    BY ContinueLeavesOut DEF token, StateOK
  <1> QED BY <1>1, ClientFrame DEF token, logs

LEMMA ClientTokenDelete ==
    ASSUME StateOK, ClientInv, NEW r \in Requests, tokenDelete(r)
    PROVE  ClientInv'
  <1>1. LeavesOut({"login.client"})
    BY MoveLeavesOut DEF tokenDelete
  <1> QED BY <1>1, ClientFrame DEF tokenDelete, logs

LEMMA ClientTokenPut ==
    ASSUME StateOK, ClientInv, NEW r \in Requests, NEW t \in Tokens,
           tokenPut(r, t)
    PROVE  ClientInv'
  <1>1. LeavesOut({"login.client"})
    BY ContinueLeavesOut DEF tokenPut, Respond, Idle, StateOK
  <1> QED BY <1>1, ClientFrame DEF tokenPut, randomToken

-----------------------------------------------------------------------------
LEMMA DanceStep ==
    ASSUME TInv, ClientInv, DanceInv, [Next]_vars
    PROVE  (ClientInv /\ DanceInv)'
  <1>1. StateOK
    BY DEF TInv
  <1>2. QuietSteps => (ClientInv /\ DanceInv)'
    BY <1>1, QuietStep, ClientQuiet, DanceQuiet
  <1> QED
    BY <1>1, <1>2, NextCases,
       ClientRegister, DanceRegister, ClientAuthorize, DanceAuthorize,
       ClientAuthorizePut, DanceAuthorizePut, ClientWebLogin, DanceWebLogin,
       ClientWebLoginClient, DanceWebLoginClient, ClientCallback,
       DanceCallback, ClientCallbackDelete, DanceCallbackDelete,
       ClientExchange, DanceExchange, ClientCallbackPut, DanceCallbackPut,
       ClientComplete, DanceComplete, ClientCompleteDelete,
       DanceCompleteDelete, ClientCompleteClient, DanceCompleteClient,
       ClientCompleteUser, DanceCompleteUser, ClientCompleteCode,
       DanceCompleteCode, ClientToken, DanceToken, ClientTokenDelete,
       DanceTokenDelete, ClientTokenPut, DanceTokenPut
       DEF QuietSteps

-----------------------------------------------------------------------------
(* Forms.  A consent that one callback has exchanged is exchanged by no    *)
(* other, so that it puts one form; once that form is deleted, no step     *)
(* puts it back.                                                           *)

AnsweredLabels == {"complete.client", "complete.user", "complete.code"}
FormStart == {"callback.put"} \union FormLabels

PutsForm(r, a) == req[r].at = "callback.put" /\ req[r].grant = a

Consumed(a) == a \in spent /\ \A r \in Requests : ~ PutsForm(r, a)

NoForm(s, a) == Present(PendingKey(s)) => Value(PendingKey(s)).grant # a

ExchangedOnce ==
    \A r \in Requests : \A a \in AtlCodes : PutsForm(r, a) =>
        /\ a \in spent
        /\ \A q \in Requests : PutsForm(q, a) => q = r

FormsHeld ==
    \A s \in States :
        Present(PendingKey(s)) => Consumed(Value(PendingKey(s)).grant)

FormRight(r) ==
    /\ req[r].at \in FormLabels => Consumed(req[r].pending.grant)
    /\ req[r].at \in AnsweredLabels =>
           NoForm(req[r].state, req[r].pending.grant)

FormsAnswered ==
    \A x \in codeLog : Consumed(x.grant) /\ NoForm(x.state, x.grant)

GrantInv ==
    /\ ExchangedOnce
    /\ FormsHeld
    /\ \A r \in Requests : FormRight(r)
    /\ FormsAnswered

LEMMA GrantInit == Init => GrantInv
  <1> SUFFICES ASSUME Init
               PROVE  GrantInv
    OBVIOUS
  <1>1. \A k \in Key : ~ Present(k)
    BY DEF Init, Present, Absent
  <1>2. FormsHeld
    BY <1>1, KeyInKey DEF FormsHeld
  <1>3. ExchangedOnce /\ \A r \in Requests : FormRight(r)
    BY DEF Init, ExchangedOnce, PutsForm, FormRight, Idle, FormLabels,
           AnsweredLabels
  <1>4. FormsAnswered
    BY DEF Init, FormsAnswered
  <1> QED BY <1>2, <1>3, <1>4 DEF GrantInv

(* What one step leaves of a consent that was consumed. *)
ConsumedKept ==
    \A a \in AtlCodes : Consumed(a) =>
        Consumed(a)' /\ \A s \in States : NoForm(s, a) => NoForm(s, a)'

LEMMA PendingGrant ==
    ASSUME StateOK
    PROVE  /\ \A s \in States : Present(PendingKey(s)) =>
                  Value(PendingKey(s)).grant \in AtlCodes
           /\ \A r \in Requests : req[r].at \in FormLabels =>
                  req[r].state \in States /\ req[r].pending.grant \in AtlCodes
           /\ \A x \in codeLog : x.state \in States /\ x.grant \in AtlCodes
  <1>1. \A p \in Pending : p.grant \in AtlCodes
    BY DEF Pending
  <1>2. \A x \in codeLog : x.state \in States /\ x.grant \in AtlCodes
    BY DEF StateOK, LogsOK
  <1> QED BY <1>1, <1>2, GetTyped, HandlerTyped DEF StateOK

LEMMA GrantFrame ==
    ASSUME StateOK, GrantInv, ConsumedKept, ExchangedOnce',
           OldKeys("oauth:pending") \/ FormsHeld',
           \A q \in Requests : req'[q] = req[q] \/ FormRight(q)',
           codeLog' = codeLog \/ FormsAnswered'
    PROVE  GrantInv'
  <1>1. FormsHeld'
    <2> SUFFICES ASSUME OldKeys("oauth:pending")
                 PROVE  FormsHeld'
      OBVIOUS
    <2>1. \A s \in States : Present(PendingKey(s))' =>
              /\ Present(PendingKey(s))
              /\ Value(PendingKey(s))' = Value(PendingKey(s))
      BY KeyInKey, KeyPrefix DEF OldKeys, Present, Value
    <2>2. \A s \in States : Present(PendingKey(s))' =>
              \E a \in AtlCodes :
                  /\ a = Value(PendingKey(s)).grant
                  /\ a = Value(PendingKey(s))'.grant
                  /\ Consumed(a)'
      BY <2>1, PendingGrant DEF GrantInv, FormsHeld, ConsumedKept
    <2> QED BY <2>2 DEF FormsHeld, Consumed, PutsForm
  <1>2. \A r \in Requests : FormRight(r)'
    <2> SUFFICES ASSUME NEW r \in Requests, req'[r] = req[r]
                 PROVE  FormRight(r)'
      OBVIOUS
    <2>1. FormRight(r) /\ AnsweredLabels \subseteq FormLabels
      BY DEF GrantInv, AnsweredLabels, FormLabels
    <2>2. CASE req[r].at \in FormLabels
      <3>1. PICK s \in States, a \in AtlCodes :
                s = req[r].state /\ a = req[r].pending.grant
        BY <2>2, PendingGrant
      <3>2. /\ Consumed(a)
            /\ req[r].at \in AnsweredLabels => NoForm(s, a)
        BY <2>1, <2>2, <3>1 DEF FormRight
      <3>3. /\ Consumed(a)'
            /\ req[r].at \in AnsweredLabels => NoForm(s, a)'
        BY <3>2 DEF ConsumedKept
      <3> QED BY <3>1, <3>3 DEF FormRight, Consumed, PutsForm, NoForm
    <2>3. CASE req[r].at \notin FormLabels
      BY <2>1, <2>3 DEF FormRight
    <2> QED BY <2>2, <2>3
  <1>3. FormsAnswered'
    BY PendingGrant DEF GrantInv, FormsAnswered, ConsumedKept
  <1> QED BY <1>1, <1>2, <1>3 DEF GrantInv

LEMMA NoNewPut ==
    ASSUME StateOK, GrantInv, OldKeys("oauth:pending"), UNCHANGED spent,
           LeavesOut({"callback.put"})
    PROVE  ConsumedKept /\ ExchangedOnce'
  <1>1. \A r \in Requests : \A a \in AtlCodes :
            PutsForm(r, a)' => PutsForm(r, a)
    BY DEF PutsForm, LeavesOut
  <1>2. ExchangedOnce'
    BY <1>1 DEF GrantInv, ExchangedOnce
  <1>3. \A a \in AtlCodes : Consumed(a) => Consumed(a)'
    BY <1>1 DEF Consumed
  <1>4. \A s \in States : \A a \in AtlCodes : NoForm(s, a) => NoForm(s, a)'
    BY KeyInKey, KeyPrefix DEF OldKeys, NoForm, Present, Value
  <1> QED BY <1>2, <1>3, <1>4 DEF ConsumedKept

(* The steps that are no part of a form's life. *)
LEMMA GrantOutside ==
    ASSUME StateOK, GrantInv, OldKeys("oauth:pending"),
           UNCHANGED <<spent, codeLog>>, LeavesOut(FormStart)
    PROVE  GrantInv'
  <1>1. LeavesOut({"callback.put"})
    BY DEF LeavesOut, FormStart
  <1>2. \A q \in Requests : req'[q] = req[q] \/ FormRight(q)'
    BY DEF LeavesOut, FormStart, FormRight, FormLabels, AnsweredLabels
  <1> QED BY <1>1, <1>2, NoNewPut, GrantFrame

(* Only one callback gets past the exchange of a consent.                  *)
LEMMA GrantExchange ==
    ASSUME StateOK, GrantInv, NEW r \in Requests, NEW sites \in SUBSET Sites,
           exchangeAtlassian(r, sites)
    PROVE  GrantInv'
  <1>1. OldKeys("oauth:pending")
    BY UnchangedOldKeys DEF exchangeAtlassian
  <1>2. codeLog' = codeLog
    BY DEF exchangeAtlassian, logs
  <1>3. CASE Respond(r) /\ UNCHANGED spent
    <2>1. LeavesOut(FormStart)
      BY <1>3, ContinueLeavesOut
         DEF Respond, Idle, StateOK, FormStart, FormLabels
    <2> QED BY <1>1, <1>2, <1>3, <2>1, GrantOutside
  <1>4. CASE ~ (Respond(r) /\ UNCHANGED spent)
    <2>1. PICK g : g = req[r].grant
      OBVIOUS
    <2>2. /\ req'[r] = [at |-> "callback.put", state |-> req[r].state,
                        auth |-> req[r].auth, grant |-> g, sites |-> sites]
          /\ \A q \in Requests : q # r => req'[q] = req[q]
          /\ g \notin spent /\ spent' = spent \union {g}
      BY <1>4, <2>1, ContinueEffect DEF exchangeAtlassian, StateOK
    <2>3. req'[r].at = "callback.put" /\ req'[r].grant = g
      BY <2>2
    <2>4. \A q \in Requests : \A a \in AtlCodes :
              PutsForm(q, a)' => PutsForm(q, a) \/ (q = r /\ a = g)
      BY <2>2, <2>3 DEF PutsForm
    <2>5. \A q \in Requests : \A a \in AtlCodes : PutsForm(q, a) => a # g
      BY <2>2 DEF GrantInv, ExchangedOnce
    <2>6. ExchangedOnce'
      BY <2>2, <2>4, <2>5 DEF GrantInv, ExchangedOnce
    <2>7. \A a \in AtlCodes : Consumed(a) => Consumed(a)'
      BY <2>2, <2>4 DEF Consumed
    <2>8. \A s \in States : \A a \in AtlCodes : NoForm(s, a) => NoForm(s, a)'
      BY DEF exchangeAtlassian, NoForm, Present, Value
    <2>9. FormRight(r)'
      BY <2>3 DEF FormRight, FormLabels, AnsweredLabels
    <2> QED
      BY <1>1, <1>2, <2>2, <2>6, <2>7, <2>8, <2>9, GrantFrame
         DEF ConsumedKept
  <1> QED BY <1>3, <1>4

(* The form that callback puts is the only one of its consent.             *)
LEMMA GrantCallbackPut ==
    ASSUME StateOK, GrantInv, NEW r \in Requests, callbackPut(r)
    PROVE  GrantInv'
  <1>1. PICK s, g, p : /\ s = req[r].state /\ g = req[r].grant
                       /\ p = [auth |-> req[r].auth, grant |-> g,
                               account |-> grants[g].account,
                               sites |-> req[r].sites]
    OBVIOUS
  <1>2. s \in States /\ g \in AtlCodes /\ p.grant = g /\ PutsForm(r, g)
    BY <1>1, HandlerTyped DEF callbackPut, At, CallbackLabels, PutsForm
  <1>3. /\ req'[r] = Idle
        /\ \A q \in Requests : q # r => req'[q] = req[q]
        /\ Put(PendingKey(s), p, StateTTL)
        /\ UNCHANGED <<clock, spent, codeLog>>
    BY <1>1, ContinueEffect
       DEF callbackPut, Respond, StateOK, external, logs
  <1>4. /\ store'[PendingKey(s)].val = p
        /\ \A x \in States : x # s =>
               store'[PendingKey(x)] = store[PendingKey(x)]
    <2>1. \A x \in States : PendingKey(x) \in Key
      BY KeyInKey
    <2>2. /\ \A j \in Key : j # PendingKey(s) => store'[j] = store[j]
          /\ store'[PendingKey(s)] = [val |-> p, exp |-> clock + StateTTL]
      BY <1>2, <1>3, <2>1, PutEffect DEF StateOK
    <2>3. \A x \in States : x # s => PendingKey(x) # PendingKey(s)
      BY KeyInjective
    <2> QED BY <2>1, <2>2, <2>3
  <1>5. \A q \in Requests : \A a \in AtlCodes :
            PutsForm(q, a)' => PutsForm(q, a) /\ q # r
    BY <1>3 DEF PutsForm, Idle
  <1>6. ExchangedOnce'
    BY <1>3, <1>5 DEF GrantInv, ExchangedOnce
  <1>7. \A a \in AtlCodes : Consumed(a) => a # g /\ Consumed(a)'
    BY <1>2, <1>3, <1>5 DEF Consumed
  <1>8. \A x \in States : \A a \in AtlCodes :
            Consumed(a) /\ NoForm(x, a) => NoForm(x, a)'
    <2> SUFFICES ASSUME NEW x \in States, NEW a \in AtlCodes,
                        Consumed(a), NoForm(x, a)
                 PROVE  NoForm(x, a)'
      OBVIOUS
    <2>1. CASE x = s
      BY <1>2, <1>4, <1>7, <2>1 DEF NoForm, Value
    <2>2. CASE x # s
      BY <1>3, <1>4, <2>2 DEF NoForm, Present, Value
    <2> QED BY <2>1, <2>2
  <1>9. Consumed(g)'
    BY <1>2, <1>3, <1>5 DEF GrantInv, ExchangedOnce, Consumed
  <1>10. FormsHeld'
    <2> SUFFICES ASSUME NEW x \in States, Present(PendingKey(x))'
                 PROVE  Consumed(Value(PendingKey(x)).grant)'
      BY DEF FormsHeld
    <2>1. CASE x = s
      <3>1. Value(PendingKey(x))'.grant = g
        BY <1>2, <1>4, <2>1 DEF Value
      <3> QED BY <1>9, <3>1 DEF Consumed, PutsForm
    <2>2. CASE x # s
      <3>1. PICK a \in AtlCodes : a = Value(PendingKey(x)).grant
        BY <1>3, <1>4, <2>2, PendingGrant DEF Present
      <3>2. Value(PendingKey(x))'.grant = a /\ Present(PendingKey(x))
        BY <1>3, <1>4, <2>2, <3>1 DEF Present, Value
      <3>3. Consumed(a)'
        BY <1>7, <3>1, <3>2 DEF GrantInv, FormsHeld
      <3> QED BY <3>2, <3>3 DEF Consumed, PutsForm
    <2> QED BY <2>1, <2>2
  <1>11. FormRight(r)'
    BY <1>3 DEF Idle, FormRight, FormLabels, AnsweredLabels
  <1> QED
    BY <1>3, <1>6, <1>7, <1>8, <1>10, <1>11, GrantFrame DEF ConsumedKept

LEMMA GrantComplete ==
    ASSUME StateOK, GrantInv, NEW r \in Requests, NEW s \in States,
           NEW site \in Sites, complete(r, s, site)
    PROVE  GrantInv'
  <1>1. PICK p : p = Value(PendingKey(s))
    OBVIOUS
  <1>2. /\ req'[r].at = "complete.delete" /\ req'[r].pending = p
        /\ \A q \in Requests : q # r => req'[q] = req[q]
    <2>1. /\ req'[r] = [at |-> "complete.delete", state |-> s, site |-> site,
                        pending |-> p]
          /\ \A q \in Requests : q # r => req'[q] = req[q]
      BY <1>1, ContinueEffect DEF complete, StateOK
    <2> QED BY <2>1
  <1>3. OldKeys("oauth:pending") /\ UNCHANGED <<spent, codeLog>>
    BY UnchangedOldKeys DEF complete, external, logs
  <1>4. ConsumedKept /\ ExchangedOnce'
    BY <1>2, <1>3, NoNewPut DEF LeavesOut
  <1>5. p.grant \in AtlCodes /\ Consumed(p.grant)
    BY <1>1, PendingGrant DEF complete, GrantInv, FormsHeld
  <1>6. FormRight(r)'
    BY <1>2, <1>4, <1>5 DEF ConsumedKept, FormRight, AnsweredLabels, Consumed,
                            PutsForm
  <1> QED BY <1>2, <1>3, <1>4, <1>6, GrantFrame

(* From here on the form is gone, and nothing puts it back.                *)
LEMMA GrantCompleteDelete ==
    ASSUME StateOK, GrantInv, NEW r \in Requests, completeDelete(r)
    PROVE  GrantInv'
  <1>1. PICK s, p : s = req[r].state /\ p = req[r].pending
    OBVIOUS
  <1>2. /\ req[r] \in [at : {"complete.delete"}, state : States, site : Sites,
                       pending : Pending]
        /\ s \in States /\ p.grant \in AtlCodes /\ Consumed(p.grant)
    BY <1>1 DEF StateOK, completeDelete, At, Handler, Idle, Pending, GrantInv,
                FormRight, FormLabels
  <1>3. /\ req'[r].at = "complete.client" /\ req'[r].state = s
        /\ req'[r].pending = p
        /\ \A q \in Requests : q # r => req'[q] = req[q]
    BY <1>1, <1>2, ContinueEffect DEF completeDelete, StateOK
  <1>4. PendingKey(s) \in Key
    BY <1>2, KeyInKey
  <1>5. OldKeys("oauth:pending") /\ UNCHANGED <<spent, codeLog, clock>>
    BY <1>1, <1>4, DeleteOldKeys DEF completeDelete, StateOK, external, logs
  <1>6. ConsumedKept /\ ExchangedOnce'
    BY <1>3, <1>5, NoNewPut DEF LeavesOut
  <1>7. NoForm(s, p.grant)'
    BY <1>1, <1>4, <1>5, DeleteEffect
       DEF completeDelete, StateOK, NoForm, Present, Absent
  <1>8. FormRight(r)'
    BY <1>2, <1>3, <1>6, <1>7
       DEF ConsumedKept, FormRight, Consumed, PutsForm, NoForm
  <1> QED BY <1>3, <1>5, <1>6, <1>8, GrantFrame

(* A handler that answers a form and keeps hold of it.                     *)
LEMMA GrantCarries ==
    ASSUME StateOK, GrantInv, NEW r \in Requests, req[r].at \in AnsweredLabels,
           req'[r].at \in AnsweredLabels, req'[r].state = req[r].state,
           req'[r].pending = req[r].pending,
           \A q \in Requests : q # r => req'[q] = req[q],
           OldKeys("oauth:pending"), UNCHANGED <<spent, codeLog>>
    PROVE  GrantInv'
  <1>1. PICK s, a : s = req[r].state /\ a = req[r].pending.grant
    OBVIOUS
  <1>2. s \in States /\ a \in AtlCodes /\ Consumed(a) /\ NoForm(s, a)
    BY <1>1, PendingGrant DEF GrantInv, FormRight, AnsweredLabels, FormLabels
  <1>3. LeavesOut({"callback.put"})
    BY DEF LeavesOut, AnsweredLabels
  <1>4. ConsumedKept /\ ExchangedOnce'
    BY <1>3, NoNewPut
  <1>5. FormRight(r)'
    BY <1>1, <1>2, <1>4 DEF ConsumedKept, FormRight, Consumed, PutsForm, NoForm
  <1> QED BY <1>4, <1>5, GrantFrame

LEMMA GrantCompleteClient ==
    ASSUME StateOK, GrantInv, NEW r \in Requests, completeClient(r)
    PROVE  GrantInv'
  <1>1. OldKeys("oauth:pending") /\ UNCHANGED <<spent, codeLog>>
    BY UnchangedOldKeys DEF completeClient, external, logs
  <1>2. CASE Respond(r)
    <2>1. LeavesOut(FormStart)
      BY <1>2, ContinueLeavesOut
         DEF Respond, Idle, StateOK, FormStart, FormLabels
    <2> QED BY <1>1, <2>1, GrantOutside
  <1>3. ASSUME NEW u, NEW ttl,
               Continue(r, [at |-> "complete.user", state |-> req[r].state,
                            site |-> req[r].site, pending |-> req[r].pending,
                            user |-> u, ttl |-> ttl])
        PROVE  GrantInv'
    <2>1. /\ req'[r] = [at |-> "complete.user", state |-> req[r].state,
                        site |-> req[r].site, pending |-> req[r].pending,
                        user |-> u, ttl |-> ttl]
          /\ \A q \in Requests : q # r => req'[q] = req[q]
      BY <1>3, ContinueEffect DEF StateOK
    <2>2. /\ req'[r].at = "complete.user" /\ req'[r].state = req[r].state
          /\ req'[r].pending = req[r].pending
      BY <2>1
    <2> QED BY <1>1, <2>1, <2>2, GrantCarries
            DEF completeClient, At, AnsweredLabels
  <1> QED BY <1>2, <1>3 DEF completeClient

LEMMA GrantCompleteUser ==
    ASSUME StateOK, GrantInv, NEW r \in Requests, completeUser(r)
    PROVE  GrantInv'
  <1>1. req[r] \in [at : {"complete.user", "complete.code"}, state : States,
                    site : Sites, pending : Pending, user : UserIds,
                    ttl : Nat]
    BY DEF StateOK, completeUser, At, Handler, Idle
  <1>2. UserKey(req[r].user) \in Key
    BY <1>1, KeyInKey
  <1>3. OldKeys("oauth:pending") /\ UNCHANGED <<spent, codeLog>>
    BY <1>2, PutOldKeys, KeyPrefix DEF completeUser, StateOK, external, logs
  <1>4. /\ req'[r].at = "complete.code" /\ req'[r].state = req[r].state
        /\ req'[r].pending = req[r].pending
        /\ \A q \in Requests : q # r => req'[q] = req[q]
    BY <1>1, ContinueEffect DEF completeUser, StateOK
  <1> QED BY <1>3, <1>4, GrantCarries DEF completeUser, At, AnsweredLabels

LEMMA GrantCompleteCode ==
    ASSUME StateOK, GrantInv, NEW r \in Requests, NEW c \in Codes,
           completeCode(r, c)
    PROVE  GrantInv'
  <1>1. PICK x : x = [code |-> c, state |-> req[r].state,
                      client |-> req[r].pending.auth.client,
                      grant |-> req[r].pending.grant, user |-> req[r].user]
    OBVIOUS
  <1>2. codeLog' = codeLog \union {x} /\ UNCHANGED spent
    BY <1>1 DEF completeCode, external
  <1>3. OldKeys("oauth:pending")
    BY PutOldKeys, KeyInKey, KeyPrefix DEF completeCode, StateOK
  <1>4. LeavesOut(FormStart)
    BY ContinueLeavesOut
       DEF completeCode, Respond, Idle, StateOK, FormStart, FormLabels
  <1>5. /\ x.state \in States /\ x.grant \in AtlCodes
        /\ Consumed(x.grant) /\ NoForm(x.state, x.grant)
    BY <1>1, PendingGrant DEF completeCode, At, GrantInv, FormRight,
                              AnsweredLabels, FormLabels
  <1>6. ConsumedKept /\ ExchangedOnce'
    BY <1>2, <1>3, <1>4, NoNewPut DEF LeavesOut, FormStart
  <1>7. FormsAnswered'
    BY <1>2, <1>5, <1>6, PendingGrant
       DEF GrantInv, FormsAnswered, ConsumedKept
  <1>8. \A q \in Requests : req'[q] = req[q] \/ FormRight(q)'
    BY <1>4 DEF LeavesOut, FormStart, FormRight, FormLabels, AnsweredLabels
  <1> QED BY <1>3, <1>6, <1>7, <1>8, GrantFrame

LEMMA GrantQuiet ==
    ASSUME StateOK, GrantInv, Quiet
    PROVE  GrantInv'
  <1>1. LeavesOut(FormStart)
    BY DEF Quiet, LeavesOut, SignInLabels, FormStart, CallbackLabels
  <1> QED BY <1>1, GrantOutside DEF Quiet, OldSignIn

(* The steps of a dance that do not touch its form.                        *)
LEMMA GrantElsewhere ==
    ASSUME StateOK, GrantInv, NEW r \in Requests
    PROVE  /\ \A a \in AuthorizationRequest : authorize(r, a) => GrantInv'
           /\ \A s \in States : authorizePut(r, s) => GrantInv'
           /\ \A f \in Logins, c \in ClientIds : webLogin(r, f, c) => GrantInv'
           /\ webLoginClient(r) => GrantInv'
           /\ \A s \in States, code \in AtlCodes \union {None} :
                  callback(r, s, code) => GrantInv'
           /\ callbackDelete(r) => GrantInv'
           /\ \A c \in Codes, client \in ClientIds, uri \in Redirects,
                 v \in Verifiers : token(r, c, client, uri, v) => GrantInv'
           /\ tokenDelete(r) => GrantInv'
           /\ \A t \in Tokens : tokenPut(r, t) => GrantInv'
  <1>1. /\ Idle.at \notin FormStart
        /\ {"authorize.put", "login.client", "callback.delete",
            "callback.exchange", "token.delete", "token.put"}
               \intersect FormStart = {}
    BY DEF Idle, FormStart, FormLabels
  <1>2. ASSUME NEW a \in AuthorizationRequest, authorize(r, a)
        PROVE  GrantInv'
    <2>1. LeavesOut(FormStart)
      BY <1>1, <1>2, ContinueLeavesOut DEF authorize, StateOK
    <2> QED BY <1>2, <2>1, GrantOutside, UnchangedOldKeys
            DEF authorize, external, logs
  <1>3. ASSUME NEW s \in States, authorizePut(r, s)
        PROVE  GrantInv'
    <2>1. LeavesOut(FormStart)
      BY <1>1, <1>3, ContinueLeavesOut DEF authorizePut, Respond, StateOK
    <2>2. OldKeys("oauth:pending")
      BY <1>3, PutOldKeys, KeyInKey, KeyPrefix DEF authorizePut, StateOK
    <2> QED BY <1>3, <2>1, <2>2, GrantOutside DEF authorizePut, external
  <1>4. ASSUME NEW f \in Logins, NEW c \in ClientIds, webLogin(r, f, c)
        PROVE  GrantInv'
    <2>1. LeavesOut(FormStart)
      BY <1>1, <1>4, ContinueLeavesOut DEF webLogin, StateOK
    <2>2. OldKeys("oauth:pending")
      BY <1>4, PutOldKeys, KeyInKey, KeyPrefix DEF webLogin, StateOK
    <2> QED BY <1>4, <2>1, <2>2, GrantOutside DEF webLogin, external, logs
  <1>5. ASSUME webLoginClient(r)
        PROVE  GrantInv'
    <2>1. LeavesOut(FormStart)
      BY <1>1, <1>5, ContinueLeavesOut DEF webLoginClient, Respond, StateOK
    <2>2. ClientKey(req[r].client) \in Key
      BY <1>5, ClientTyped, KeyInKey DEF webLoginClient
    <2>3. OldKeys("oauth:pending")
      BY <1>5, <2>2, PutOldKeys, KeyPrefix DEF webLoginClient, StateOK
    <2> QED BY <1>5, <2>1, <2>3, GrantOutside DEF webLoginClient, external
  <1>6. ASSUME NEW s \in States, NEW code \in AtlCodes \union {None},
               callback(r, s, code)
        PROVE  GrantInv'
    <2>1. LeavesOut(FormStart)
      BY <1>1, <1>6, ContinueLeavesOut DEF callback, StateOK
    <2> QED BY <1>6, <2>1, GrantOutside, UnchangedOldKeys DEF callback, logs
  <1>7. ASSUME callbackDelete(r)
        PROVE  GrantInv'
    <2>1. LeavesOut(FormStart)
      BY <1>1, <1>7, ContinueLeavesOut, MoveLeavesOut
         DEF callbackDelete, Respond, StateOK
    <2>2. StateKey(req[r].state) \in Key
      BY <1>7, KeyInKey, HandlerTyped DEF callbackDelete, At, CallbackLabels
    <2>3. OldKeys("oauth:pending")
      BY <1>7, <2>2, DeleteOldKeys, UnchangedOldKeys
         DEF callbackDelete, StateOK
    <2> QED BY <1>7, <2>1, <2>3, GrantOutside
            DEF callbackDelete, external, logs
  <1>8. ASSUME NEW c \in Codes, NEW client \in ClientIds,
               NEW uri \in Redirects, NEW v \in Verifiers,
               token(r, c, client, uri, v)
        PROVE  GrantInv'
    <2>1. LeavesOut(FormStart)
      BY <1>1, <1>8, ContinueLeavesOut DEF token, StateOK
    <2> QED BY <1>8, <2>1, GrantOutside, UnchangedOldKeys
            DEF token, external, logs
  <1>9. ASSUME tokenDelete(r)
         PROVE  GrantInv'
    <2>1. LeavesOut(FormStart)
      BY <1>1, <1>9, MoveLeavesOut DEF tokenDelete
    <2>2. CodeKey(req[r].code) \in Key
      BY <1>9, KeyInKey, HandlerTyped DEF tokenDelete, At, TokenLabels
    <2>3. OldKeys("oauth:pending")
      BY <1>9, <2>2, DeleteOldKeys, UnchangedOldKeys DEF tokenDelete, StateOK
    <2> QED BY <1>9, <2>1, <2>3, GrantOutside
            DEF tokenDelete, external, logs
  <1>10. ASSUME NEW t \in Tokens, tokenPut(r, t)
         PROVE  GrantInv'
    <2>1. LeavesOut(FormStart)
      BY <1>1, <1>10, ContinueLeavesOut DEF tokenPut, Respond, StateOK
    <2>2. OldKeys("oauth:pending")
      BY <1>10, PutOldKeys, KeyInKey, KeyPrefix DEF tokenPut, StateOK
    <2> QED BY <1>10, <2>1, <2>2, GrantOutside DEF tokenPut, external
  <1> QED BY <1>2, <1>3, <1>4, <1>5, <1>6, <1>7, <1>8, <1>9, <1>10

LEMMA GrantStep ==
    ASSUME StateOK, GrantInv, [Next]_vars
    PROVE  GrantInv'
  <1>1. \A r \in Requests, sites \in SUBSET Sites :
            exchangeAtlassian(r, sites) => GrantInv'
    BY GrantExchange
  <1>2. \A r \in Requests, s \in States, site \in Sites :
            complete(r, s, site) => GrantInv'
    BY GrantComplete
  <1>3. ASSUME NEW r \in Requests
        PROVE  /\ callbackPut(r) => GrantInv'
               /\ completeDelete(r) => GrantInv'
               /\ completeClient(r) => GrantInv'
               /\ completeUser(r) => GrantInv'
               /\ \A c \in Codes : completeCode(r, c) => GrantInv'
    BY <1>3, GrantCallbackPut, GrantCompleteDelete, GrantCompleteClient,
       GrantCompleteUser, GrantCompleteCode
  <1>4. QuietSteps => GrantInv'
    BY QuietStep, GrantQuiet
  <1>5. \A c \in ClientIds, uris \in SUBSET Redirects :
            register(c, uris) => GrantInv'
    <2> SUFFICES ASSUME NEW c \in ClientIds, NEW uris \in SUBSET Redirects,
                        register(c, uris)
                 PROVE  GrantInv'
      OBVIOUS
    <2>1. OldKeys("oauth:pending")
      BY PutOldKeys, KeyInKey, KeyPrefix DEF register, StateOK
    <2> QED BY <2>1, GrantOutside DEF register, LeavesOut, external, logs
  <1> QED
    BY <1>1, <1>2, <1>3, <1>4, <1>5, NextCases, GrantElsewhere
       DEF QuietSteps

(* complete deletes the form before it issues anything, and however many   *)
(* copies of a callback or a form are on their way: once a code is out,    *)
(* the pending authorization of its consent never comes back.              *)
THEOREM FormGone == Spec => []FormGoneOnceAnswered
  <1>1. Init => TInv /\ GrantInv
    BY TypeInit, ConsentInit, GrantInit DEF TInv
  <1>2. TInv /\ GrantInv /\ [Next]_vars => (TInv /\ GrantInv)'
    BY TypeStep, ConsentStep, GrantStep DEF TInv
  <1>3. GrantInv => FormGoneOnceAnswered
    BY DEF GrantInv, FormsAnswered, NoForm, FormGoneOnceAnswered
  <1> QED BY <1>1, <1>2, <1>3, PTL DEF Spec

-----------------------------------------------------------------------------
(***************************************************************************)
(* Proof that a browser session belongs to the dance its own login began   *)
(* and shares its user record with nobody (SessionsBelong), and that a     *)
(* browser login never writes the record of an account and site            *)
(* (IsolationSafe), for any number of clients, logins and requests.        *)
(*                                                                         *)
(* Four invariants, each about few variables: AccountInv says which        *)
(* clients are browser logins, UserInv which user records the two kinds of *)
(* client get, PairInv that a login flow knows its client, SessionInv what *)
(* a callback of the browser has in its hands.  UserInv and AccountInv     *)
(* also tell whom a bearer token acts for (ProvenanceSafe).                *)
(***************************************************************************)

-----------------------------------------------------------------------------
(* What a step touches: the labels a handler comes to, the name spaces of  *)
(* the store that get a new value, and the logs.                           *)

Enters(L) == \A q \in Requests : req'[q] = req[q] \/ req'[q].at \in L

Writes(P) == \A p : p \notin P => OldKeys(p)

Grows == Kept /\ drawn \subseteq drawn' /\ started \subseteq started'

Touches(L, P, V) ==
    /\ Grows
    /\ Enters(L)
    /\ Writes(P)
    /\ "asked" \notin V => asked' = asked
    /\ "started" \notin V => started' = started
    /\ "codeLog" \notin V => codeLog' = codeLog
    /\ "sessionLog" \notin V => sessionLog' = sessionLog

OrdinaryLabels ==
    {"idle", "callback.delete", "callback.exchange", "callback.put",
     "complete.delete", "complete.client", "token.delete", "token.put",
     "logout.user", "logout.delete"}

OrdinaryPrefixes ==
    {"oauth:state", "oauth:pending", "mcp:token", "web:session"}

(* A step that concerns none of the five invariants. *)
Ordinary == Touches(OrdinaryLabels, OrdinaryPrefixes, {})

LEMMA EntersOne ==
    ASSUME StateOK, NEW r \in Requests, NEW h, NEW L, Continue(r, h),
           h.at \in L
    PROVE  Enters(L)
  BY ContinueEffect DEF StateOK, Enters

LEMMA EntersIdle ==
    ASSUME StateOK, NEW r \in Requests, NEW L, Respond(r), "idle" \in L
    PROVE  Enters(L)
  BY EntersOne DEF Respond, Idle

LEMMA EntersMove ==
    ASSUME StateOK, NEW r \in Requests, NEW label, NEW L, label \in L,
           Continue(r, [req[r] EXCEPT !.at = label])
    PROVE  Enters(L)
  BY EntersOne, MoveLabel

LEMMA WritesNothing ==
    ASSUME UNCHANGED <<store, clock>>, NEW P
    PROVE  Writes(P)
  BY UnchangedOldKeys DEF Writes

LEMMA WritesDelete ==
    ASSUME StateOK, NEW k \in Key, Delete(k), UNCHANGED clock, NEW P
    PROVE  Writes(P)
  BY DeleteOldKeys DEF Writes, StateOK

LEMMA WritesPut ==
    ASSUME StateOK, NEW k \in Key, NEW v, NEW ttl, Put(k, v, ttl),
           UNCHANGED clock, NEW P, Prefix(k) \in P
    PROVE  Writes(P)
  BY PutOldKeys DEF Writes, StateOK

LEMMA WritesElapse ==
    ASSUME StateOK, Elapse, NEW P
    PROVE  Writes(P)
  BY ElapseOldKeys DEF Writes, StateOK

LEMMA LabelsOrdinary ==
    /\ {"idle", "callback.delete", "callback.exchange", "callback.put",
        "complete.delete", "complete.client", "token.delete", "token.put",
        "logout.user", "logout.delete"} \subseteq OrdinaryLabels
    /\ {"oauth:state", "oauth:pending", "mcp:token", "web:session"}
           \subseteq OrdinaryPrefixes
  BY DEF OrdinaryLabels, OrdinaryPrefixes

(* The steps of the dance that are ordinary. *)
LEMMA OrdinaryDance ==
    ASSUME StateOK, NEW r \in Requests
    PROVE  /\ \A s \in States, code \in AtlCodes \union {None} :
                  callback(r, s, code) => Ordinary
           /\ callbackDelete(r) => Ordinary
           /\ \A sites \in SUBSET Sites :
                  exchangeAtlassian(r, sites) => Ordinary
           /\ callbackPut(r) => Ordinary
           /\ \A s \in States, site \in Sites :
                  complete(r, s, site) => Ordinary
           /\ completeDelete(r) => Ordinary
           /\ \A c \in Codes, client \in ClientIds, uri \in Redirects,
                 v \in Verifiers : token(r, c, client, uri, v) => Ordinary
           /\ tokenDelete(r) => Ordinary
           /\ \A t \in Tokens : tokenPut(r, t) => Ordinary
  <1>1. ASSUME NEW s \in States, NEW code \in AtlCodes \union {None},
               callback(r, s, code)
        PROVE  Ordinary
    <2>1. Enters(OrdinaryLabels)
      BY <1>1, EntersOne, LabelsOrdinary DEF callback
    <2>2. Grows
      BY <1>1 DEF callback, logs, Consent, StateOK, Grows, Kept
    <2> QED BY <1>1, <2>1, <2>2, WritesNothing
            DEF callback, logs, Ordinary, Touches
  <1>2. ASSUME callbackDelete(r)
        PROVE  Ordinary
    <2>1. Enters(OrdinaryLabels)
      BY <1>2, EntersIdle, EntersMove, LabelsOrdinary DEF callbackDelete
    <2>2. StateKey(req[r].state) \in Key
      BY <1>2, KeyInKey, HandlerTyped DEF callbackDelete, At, CallbackLabels
    <2>3. Writes(OrdinaryPrefixes)
      BY <1>2, <2>2, WritesDelete, WritesNothing DEF callbackDelete
    <2> QED BY <1>2, <2>1, <2>3 DEF callbackDelete, external, logs, Grows,
                                    Kept, Ordinary, Touches
  <1>3. ASSUME NEW sites \in SUBSET Sites, exchangeAtlassian(r, sites)
        PROVE  Ordinary
    <2>1. Enters(OrdinaryLabels)
      BY <1>3, EntersIdle, EntersOne, LabelsOrdinary DEF exchangeAtlassian
    <2> QED BY <1>3, <2>1, WritesNothing
            DEF exchangeAtlassian, logs, Grows, Kept, Ordinary, Touches
  <1>4. ASSUME callbackPut(r)
        PROVE  Ordinary
    <2>1. Enters(OrdinaryLabels)
      BY <1>4, EntersIdle, LabelsOrdinary DEF callbackPut
    <2>2. PendingKey(req[r].state) \in Key
      BY <1>4, KeyInKey, HandlerTyped DEF callbackPut, At, CallbackLabels
    <2>3. Writes(OrdinaryPrefixes)
      BY <1>4, <2>2, WritesPut, KeyPrefix, LabelsOrdinary DEF callbackPut
    <2> QED BY <1>4, <2>1, <2>3 DEF callbackPut, external, logs, Grows, Kept,
                                    Ordinary, Touches
  <1>5. ASSUME NEW s \in States, NEW site \in Sites, complete(r, s, site)
        PROVE  Ordinary
    <2>1. Enters(OrdinaryLabels)
      BY <1>5, EntersOne, LabelsOrdinary DEF complete
    <2> QED BY <1>5, <2>1, WritesNothing
            DEF complete, external, logs, Grows, Kept, Ordinary, Touches
  <1>6. ASSUME completeDelete(r)
        PROVE  Ordinary
    <2>1. Enters(OrdinaryLabels)
      BY <1>6, EntersMove, LabelsOrdinary DEF completeDelete
    <2>2. PendingKey(req[r].state) \in Key
      BY <1>6, KeyInKey, HandlerTyped DEF completeDelete, At, FormLabels
    <2>3. Writes(OrdinaryPrefixes)
      BY <1>6, <2>2, WritesDelete DEF completeDelete
    <2> QED BY <1>6, <2>1, <2>3 DEF completeDelete, external, logs, Grows,
                                    Kept, Ordinary, Touches
  <1>7. ASSUME NEW c \in Codes, NEW client \in ClientIds,
               NEW uri \in Redirects, NEW v \in Verifiers,
               token(r, c, client, uri, v)
        PROVE  Ordinary
    <2>1. Enters(OrdinaryLabels)
      BY <1>7, EntersOne, LabelsOrdinary DEF token
    <2> QED BY <1>7, <2>1, WritesNothing
            DEF token, external, logs, Grows, Kept, Ordinary, Touches
  <1>8. ASSUME tokenDelete(r)
        PROVE  Ordinary
    <2>1. Enters(OrdinaryLabels)
      BY <1>8, EntersMove, LabelsOrdinary DEF tokenDelete
    <2>2. CodeKey(req[r].code) \in Key
      BY <1>8, KeyInKey, HandlerTyped DEF tokenDelete, At, TokenLabels
    <2>3. Writes(OrdinaryPrefixes)
      BY <1>8, <2>2, WritesDelete, WritesNothing DEF tokenDelete
    <2> QED BY <1>8, <2>1, <2>3 DEF tokenDelete, external, logs, Grows, Kept,
                                    Ordinary, Touches
  <1>9. ASSUME NEW t \in Tokens, tokenPut(r, t)
        PROVE  Ordinary
    <2>1. Enters(OrdinaryLabels)
      BY <1>9, EntersIdle, LabelsOrdinary DEF tokenPut
    <2>2. Writes(OrdinaryPrefixes)
      BY <1>9, WritesPut, KeyInKey, KeyPrefix, LabelsOrdinary DEF tokenPut
    <2> QED BY <1>9, <2>1, <2>2 DEF tokenPut, randomToken, external, Grows,
                                    Kept, Ordinary, Touches
  <1> QED BY <1>1, <1>2, <1>3, <1>4, <1>5, <1>6, <1>7, <1>8, <1>9

LEMMA OrdinaryRest ==
    ASSUME StateOK
    PROVE  /\ \A t \in Tokens : revoke(t) => Ordinary
           /\ \A r \in Requests, s \in Sessions, x \in Sessions :
                  webLogout(r, s, x) => Ordinary
           /\ \A r \in Requests : webLogoutUser(r) => Ordinary
           /\ \A r \in Requests : webLogoutDelete(r) => Ordinary
           /\ \A r \in Requests : Stop(r) => Ordinary
           /\ Tick => Ordinary
           /\ UNCHANGED vars => Ordinary
  <1>1. ASSUME NEW t \in Tokens, revoke(t)
        PROVE  Ordinary
    <2>1. Writes(OrdinaryPrefixes)
      BY <1>1, KeyInKey, WritesDelete, WritesNothing DEF revoke
    <2> QED BY <1>1, <2>1
            DEF revoke, external, logs, Grows, Kept, Ordinary, Touches,
                Enters
  <1>2. ASSUME NEW r \in Requests, NEW s \in Sessions, NEW x \in Sessions,
               webLogout(r, s, x)
        PROVE  Ordinary
    <2>1. Enters(OrdinaryLabels)
      BY <1>2, EntersOne, LabelsOrdinary DEF webLogout
    <2> QED BY <1>2, <2>1, WritesNothing
            DEF webLogout, external, logs, Grows, Kept, Ordinary, Touches
  <1>3. ASSUME NEW r \in Requests, webLogoutUser(r)
        PROVE  Ordinary
    <2>1. Enters(OrdinaryLabels)
      BY <1>3, EntersOne, EntersIdle, LabelsOrdinary DEF webLogoutUser
    <2> QED BY <1>3, <2>1, WritesNothing
            DEF webLogoutUser, external, logs, Grows, Kept, Ordinary, Touches
  <1>4. ASSUME NEW r \in Requests, webLogoutDelete(r)
        PROVE  Ordinary
    <2>1. Enters(OrdinaryLabels)
      BY <1>4, EntersIdle, LabelsOrdinary DEF webLogoutDelete
    <2>2. SessionKey(req[r].session) \in Key
      BY <1>4, KeyInKey DEF webLogoutDelete, At, StateOK, Handler, Idle
    <2>3. Writes(OrdinaryPrefixes)
      BY <1>4, <2>2, WritesDelete DEF webLogoutDelete
    <2> QED BY <1>4, <2>1, <2>3 DEF webLogoutDelete, external, logs, Grows,
                                    Kept, Ordinary, Touches
  <1>5. ASSUME NEW r \in Requests, Stop(r)
        PROVE  Ordinary
    <2>1. Enters(OrdinaryLabels)
      BY <1>5, EntersIdle, LabelsOrdinary DEF Stop
    <2> QED BY <1>5, <2>1, WritesNothing
            DEF Stop, external, logs, Grows, Kept, Ordinary, Touches
  <1>6. ASSUME Tick
        PROVE  Ordinary
    BY <1>6, WritesElapse DEF Tick, external, logs, Grows, Kept, Ordinary,
                              Touches, Enters
  <1>7. ASSUME UNCHANGED vars
        PROVE  Ordinary
    BY <1>7, WritesNothing DEF vars, Grows, Kept, Ordinary, Touches, Enters
  <1> QED BY <1>1, <1>2, <1>3, <1>4, <1>5, <1>6, <1>7

-----------------------------------------------------------------------------
(* The other steps, and what each touches. *)

LEMMA TouchRegister ==
    ASSUME StateOK, NEW c \in ClientIds, NEW uris \in SUBSET Redirects,
           register(c, uris)
    PROVE  Touches({}, {"mcp:client"}, {})
  <1>1. Writes({"mcp:client"})
    BY WritesPut, KeyInKey, KeyPrefix DEF register
  <1> QED BY <1>1 DEF register, randomToken, external, logs, Grows, Kept,
                      Touches, Enters

LEMMA TouchAuthorize ==
    ASSUME StateOK, NEW r \in Requests, NEW a \in AuthorizationRequest,
           authorize(r, a)
    PROVE  Touches({"authorize.put"}, {}, {})
  <1>1. Enters({"authorize.put"})
    BY EntersOne DEF authorize
  <1> QED BY <1>1, WritesNothing
          DEF authorize, external, logs, Grows, Kept, Touches

LEMMA TouchAuthorizePut ==
    ASSUME StateOK, ClientInv, NEW r \in Requests, NEW s \in States,
           authorizePut(r, s)
    PROVE  Touches({"idle"}, {"oauth:state"}, {"asked"})
  <1>1. Enters({"idle"})
    BY EntersIdle DEF authorizePut
  <1>2. Writes({"oauth:state"})
    BY WritesPut, KeyInKey, KeyPrefix DEF authorizePut
  <1>3. Kept
    BY DEF authorizePut, randomToken, ClientInv, external, Kept
  <1> QED BY <1>1, <1>2, <1>3 DEF authorizePut, randomToken, Grows, Touches

LEMMA TouchWebLogin ==
    ASSUME StateOK, NEW r \in Requests, NEW f \in Logins, NEW c \in ClientIds,
           webLogin(r, f, c)
    PROVE  Touches({"login.client"}, {"web:flow"}, {})
  <1>1. Enters({"login.client"})
    BY EntersOne DEF webLogin
  <1>2. Writes({"web:flow"})
    BY WritesPut, KeyInKey, KeyPrefix DEF webLogin
  <1> QED BY <1>1, <1>2 DEF webLogin, external, logs, Grows, Kept, Touches

LEMMA TouchWebLoginClient ==
    ASSUME StateOK, NEW r \in Requests, webLoginClient(r)
    PROVE  Touches({"idle"}, {"mcp:client"}, {"started"})
  <1>1. Enters({"idle"})
    BY EntersIdle DEF webLoginClient
  <1>2. ClientKey(req[r].client) \in Key
    BY ClientTyped, KeyInKey DEF webLoginClient
  <1>3. Writes({"mcp:client"})
    BY <1>2, WritesPut, KeyPrefix DEF webLoginClient
  <1> QED BY <1>1, <1>3 DEF webLoginClient, external, Grows, Kept, Touches

LEMMA TouchCompleteClient ==
    ASSUME StateOK, NEW r \in Requests, completeClient(r)
    PROVE  Touches({"idle", "complete.user"}, {}, {})
  <1>1. Enters({"idle", "complete.user"})
    <2> DEFINE h(u, ttl) ==
                   [at |-> "complete.user", state |-> req[r].state,
                    site |-> req[r].site, pending |-> req[r].pending,
                    user |-> u, ttl |-> ttl]
    <2>1. Respond(r) \/ \E u, ttl : Continue(r, h(u, ttl))
      BY DEF completeClient
    <2>2. \A u, ttl : h(u, ttl).at = "complete.user"
      OBVIOUS
    <2> HIDE DEF h
    <2> QED BY <2>1, <2>2, EntersOne, EntersIdle
  <1> QED BY <1>1, WritesNothing DEF completeClient, randomToken, external,
                                     logs, Grows, Kept, Touches

LEMMA TouchCompleteUser ==
    ASSUME StateOK, NEW r \in Requests, completeUser(r)
    PROVE  Touches({"complete.code"}, {"mcp:user"}, {})
  <1>1. Enters({"complete.code"})
    BY EntersMove DEF completeUser
  <1>2. UserKey(req[r].user) \in Key
    BY KeyInKey DEF completeUser, At, StateOK, Handler, Idle
  <1>3. Writes({"mcp:user"})
    BY <1>2, WritesPut, KeyPrefix DEF completeUser
  <1> QED BY <1>1, <1>3 DEF completeUser, external, logs, Grows, Kept, Touches

LEMMA TouchCompleteCode ==
    ASSUME StateOK, NEW r \in Requests, NEW c \in Codes, completeCode(r, c)
    PROVE  Touches({"idle"}, {"oauth:code"}, {"codeLog"})
  <1>1. Enters({"idle"})
    BY EntersIdle DEF completeCode
  <1>2. Writes({"oauth:code"})
    BY WritesPut, KeyInKey, KeyPrefix DEF completeCode
  <1> QED BY <1>1, <1>2 DEF completeCode, randomToken, external, Grows, Kept,
                            Touches

LEMMA TouchWebCallback ==
    ASSUME StateOK, NEW r \in Requests, NEW f \in Logins, NEW c \in Codes,
           webCallback(r, f, c)
    PROVE  Touches({"idle", "webcallback.code"}, {}, {})
  <1>1. Enters({"idle", "webcallback.code"})
    BY EntersOne, EntersIdle DEF webCallback
  <1>2. Writes({})
    BY WritesDelete, KeyInKey DEF webCallback, Take
  <1> QED BY <1>1, <1>2 DEF webCallback, external, logs, Grows, Kept, Touches

LEMMA TouchWebCallbackCode ==
    ASSUME StateOK, NEW r \in Requests, webCallbackCode(r)
    PROVE  Touches({"idle", "webcallback.take"}, {}, {})
  <1>1. Enters({"idle", "webcallback.take"})
    BY EntersOne, EntersIdle DEF webCallbackCode
  <1> QED BY <1>1, WritesNothing
          DEF webCallbackCode, external, logs, Grows, Kept, Touches

LEMMA TouchWebCallbackTake ==
    ASSUME StateOK, NEW r \in Requests, webCallbackTake(r)
    PROVE  Touches({"idle", "webcallback.session"}, {}, {})
  <1>1. \/ Respond(r)
        \/ Continue(r, [req[r] EXCEPT !.at = "webcallback.session"])
    BY DEF webCallbackTake
  <1>2. Enters({"idle", "webcallback.session"})
    BY <1>1, EntersIdle, EntersMove
  <1>3. CodeKey(req[r].code) \in Key
    BY KeyInKey DEF webCallbackTake, At, StateOK, Handler, Idle
  <1>4. Writes({})
    BY <1>3, WritesDelete, WritesNothing DEF webCallbackTake, Take
  <1> QED BY <1>2, <1>4
          DEF webCallbackTake, external, logs, Grows, Kept, Touches

LEMMA TouchWebCallbackSession ==
    ASSUME StateOK, NEW r \in Requests, NEW s \in Sessions,
           webCallbackSession(r, s)
    PROVE  Touches({"idle"}, {"web:session"}, {"sessionLog"})
  <1>1. Enters({"idle"})
    BY EntersIdle DEF webCallbackSession
  <1>2. Writes({"web:session"})
    BY WritesPut, KeyInKey, KeyPrefix DEF webCallbackSession
  <1> QED BY <1>1, <1>2 DEF webCallbackSession, randomToken, external, Grows,
                            Kept, Touches

(* Every step is ordinary or one of these; a browser comes back only from  *)
(* a login that was begun.                                                 *)
SpecialStep ==
    \/ \E c \in ClientIds, uris \in SUBSET Redirects : register(c, uris)
    \/ \E r \in Requests :
           \/ \E a \in AuthorizationRequest : authorize(r, a)
           \/ \E s \in States : authorizePut(r, s)
           \/ \E f \in Logins, c \in ClientIds : webLogin(r, f, c)
           \/ webLoginClient(r)
           \/ completeClient(r)
           \/ completeUser(r)
           \/ \E c \in Codes : completeCode(r, c)
           \/ \E l \in started, c \in Codes : webCallback(r, l.login, c)
           \/ webCallbackCode(r)
           \/ webCallbackTake(r)
           \/ \E s \in Sessions : webCallbackSession(r, s)

LEMMA StepCases ==
    ASSUME StateOK, [Next]_vars
    PROVE  Ordinary \/ SpecialStep
  <1>1. /\ \A x \in codeLog : x.code \in Codes
        /\ \A l \in started : l.login \in Logins /\ l.client \in ClientIds
        /\ \A x \in sessionLog : x.session \in Sessions
        /\ \A x \in tokenLog : x.token \in Tokens
    BY DEF StateOK, LogsOK
  <1>2. /\ \A c \in ClientIds : McpRequest(c) \subseteq AuthorizationRequest
        /\ \A l \in started : LoginRequest(l) \in AuthorizationRequest
    BY <1>1, TTLAssumption DEF McpRequest, LoginRequest, AuthorizationRequest
  <1>3. ASSUME NEW r \in Requests, Arrive(r)
        PROVE  Ordinary \/ SpecialStep
    <2>1. \/ \E a \in AuthorizationRequest : authorize(r, a)
          \/ \E s \in States, code \in AtlCodes \union {None} :
                 callback(r, s, code)
          \/ \E s \in States, site \in Sites : complete(r, s, site)
          \/ \E c \in Codes, client \in ClientIds, uri \in Redirects,
                v \in Verifiers : token(r, c, client, uri, v)
          \/ \E f \in Logins, c \in ClientIds : webLogin(r, f, c)
          \/ \E l \in started, c \in Codes : webCallback(r, l.login, c)
          \/ \E s \in Sessions, x \in Sessions : webLogout(r, s, x)
      BY <1>1, <1>2, <1>3, Zenon DEF Arrive
    <2> QED BY <2>1, OrdinaryDance, OrdinaryRest DEF SpecialStep
  <1>4. ASSUME NEW r \in Requests, Proceed(r)
        PROVE  Ordinary \/ SpecialStep
    <2>1. CASE \/ \E sites \in SUBSET Sites : exchangeAtlassian(r, sites)
               \/ \E t \in Tokens : tokenPut(r, t)
               \/ callbackDelete(r) \/ callbackPut(r) \/ completeDelete(r)
               \/ tokenDelete(r) \/ webLogoutUser(r) \/ webLogoutDelete(r)
      BY <2>1, OrdinaryDance, OrdinaryRest
    <2>2. CASE \/ \E s \in States : authorizePut(r, s)
               \/ completeClient(r) \/ completeUser(r)
               \/ \E c \in Codes : completeCode(r, c)
               \/ webLoginClient(r) \/ webCallbackCode(r)
               \/ webCallbackTake(r)
               \/ \E s \in Sessions : webCallbackSession(r, s)
      BY <2>2, Zenon DEF SpecialStep
    <2> QED BY <1>4, <2>1, <2>2, Zenon DEF Proceed
  <1>5. CASE \E x \in tokenLog : revoke(x.token)
    BY <1>1, <1>5, OrdinaryRest
  <1>6. CASE \E c \in ClientIds, uris \in Registrations : register(c, uris)
    <2>1. Registrations \subseteq SUBSET Redirects
      BY TTLAssumption
    <2> QED BY <1>6, <2>1, Zenon DEF SpecialStep
  <1>7. CASE (\E r \in Requests : Stop(r)) \/ Tick \/ UNCHANGED vars
    BY <1>7, OrdinaryRest
  <1> QED BY <1>3, <1>4, <1>5, <1>6, <1>7 DEF Next, Handle

-----------------------------------------------------------------------------
(* A browser login's client gets a user record of its own, any other the   *)
(* record of an account and site, whichever redirect it came with: the     *)
(* entry of a client says what it is for as long as it is there.           *)

NeverLogin(c) ==
    /\ c \in drawn
    /\ \A r \in Requests : At(r, "login.client") => req[r].client # c
    /\ \A l \in started : l.client # c

UserLabels == {"complete.user", "complete.code"}

OfLogin(c) == \E l \in started : l.client = c

Fits(u, c) == IF u \in BrowserIds THEN OfLogin(c) ELSE NeverLogin(c)

UserFits(r) ==
    req[r].at \in UserLabels =>
        Fits(req[r].user, req[r].pending.auth.client)

GrantedApart(g) ==
    /\ grants[g] # None
    /\ asked[grants[g].state] # None
    /\ NeverLogin(asked[grants[g].state].client)

ClientKinds ==
    \A c \in ClientIds : Present(ClientKey(c)) =>
        IF Value(ClientKey(c)).browser THEN OfLogin(c) ELSE NeverLogin(c)

CodesFit == \A x \in codeLog : Fits(x.user, x.client)

AccountRecords ==
    \A u \in AccountUsers :
        Present(UserKey(u)) => GrantedApart(Value(UserKey(u)).grant)

AccountInv ==
    /\ \A l \in started : l.client \in drawn
    /\ ClientKinds
    /\ \A r \in Requests : UserFits(r)
    /\ CodesFit
    /\ AccountRecords

LEMMA AccountInit == Init => AccountInv
  <1> SUFFICES ASSUME Init
               PROVE  AccountInv
    OBVIOUS
  <1>1. \A k \in Key : ~ Present(k)
    BY DEF Init, Present, Absent
  <1>2. ClientKinds /\ AccountRecords
    BY <1>1, KeyInKey DEF ClientKinds, AccountRecords, UserIds
  <1> QED BY <1>2 DEF Init, AccountInv, UserFits, Idle, UserLabels, CodesFit

LoginsApart ==
    \A c \in ClientIds :
        /\ NeverLogin(c) => NeverLogin(c)'
        /\ OfLogin(c) => OfLogin(c)'

LEMMA FitsStays ==
    ASSUME LoginsApart, NEW u, NEW c \in ClientIds, Fits(u, c)
    PROVE  Fits(u, c)'
  BY DEF Fits, LoginsApart

LEMMA UserTyped ==
    ASSUME StateOK
    PROVE  /\ \A u \in AccountUsers : Present(UserKey(u)) =>
                  Value(UserKey(u)).grant \in AtlCodes
           /\ \A r \in Requests : req[r].at \in UserLabels =>
                  /\ req[r].user \in UserIds
                  /\ req[r].pending.auth.client \in ClientIds
                  /\ req[r].pending.grant \in AtlCodes
           /\ \A g \in AtlCodes : grants[g] # None =>
                  grants[g].state \in States
           /\ \A s \in States : asked[s] # None =>
                  asked[s].client \in ClientIds
  <1>1. \A p \in Pending : p.auth.client \in ClientIds /\ p.grant \in AtlCodes
    BY DEF Pending, AuthorizationRequest
  <1>2. \A u \in AccountUsers : Present(UserKey(u)) =>
            Value(UserKey(u)).grant \in AtlCodes
    BY DEF StateOK, StoreOK, UserIds, Entry, Present, Value, Absent
  <1>3. \A r \in Requests : req[r].at \in UserLabels =>
            req[r].user \in UserIds /\ req[r].pending \in Pending
    BY DEF StateOK, Handler, Idle, UserLabels
  <1>4. \A g \in AtlCodes : grants[g] # None => grants[g].state \in States
    BY DEF StateOK, Grant
  <1> QED BY <1>1, <1>2, <1>3, <1>4, ClientTyped

LEMMA GrantedStays ==
    ASSUME StateOK, Kept, LoginsApart, NEW g \in AtlCodes, GrantedApart(g)
    PROVE  GrantedApart(g)'
  BY UserTyped DEF Kept, LoginsApart, GrantedApart

LEMMA AccountFrame ==
    ASSUME StateOK, AccountInv, Kept, LoginsApart,
           \A l \in started' : l.client \in drawn',
           OldKeys("mcp:client") \/ ClientKinds',
           OldKeys("mcp:user") \/ AccountRecords',
           codeLog' = codeLog \/ CodesFit',
           \A q \in Requests : req'[q] = req[q] \/ UserFits(q)'
    PROVE  AccountInv'
  <1>1. ClientKinds'
    BY OldClient DEF AccountInv, ClientKinds, LoginsApart
  <1>2. AccountRecords'
    <2> SUFFICES ASSUME OldKeys("mcp:user"),
                        NEW u \in AccountUsers, Present(UserKey(u))'
                 PROVE  GrantedApart(Value(UserKey(u)).grant)'
      BY DEF AccountRecords
    <2>1. Present(UserKey(u)) /\ Value(UserKey(u))' = Value(UserKey(u))
      BY KeyInKey, KeyPrefix DEF OldKeys, Present, Value, UserIds
    <2>2. PICK g \in AtlCodes : g = Value(UserKey(u)).grant
      BY <2>1, UserTyped
    <2>3. GrantedApart(g)'
      BY <2>1, <2>2, GrantedStays DEF AccountInv, AccountRecords
    <2> QED BY <2>1, <2>2, <2>3 DEF GrantedApart
  <1>3. \A r \in Requests : UserFits(r)'
    BY UserTyped, FitsStays DEF AccountInv, UserFits
  <1>4. CodesFit'
    BY FitsStays DEF AccountInv, CodesFit, StateOK, LogsOK
  <1> QED BY <1>1, <1>2, <1>3, <1>4 DEF AccountInv

LEMMA AccountTouch ==
    ASSUME StateOK, AccountInv, NEW L, NEW P, NEW V, Touches(L, P, V),
           (UserLabels \union {"login.client"}) \intersect L = {},
           "mcp:client" \notin P, "mcp:user" \notin P, "started" \notin V,
           "codeLog" \notin V
    PROVE  AccountInv'
  <1>1. LoginsApart
    BY DEF LoginsApart, NeverLogin, OfLogin, Touches, Grows, Enters, At
  <1>2. \A q \in Requests : req'[q] = req[q] \/ UserFits(q)'
    BY DEF Touches, Enters, UserFits
  <1> QED BY <1>1, <1>2, AccountFrame
          DEF Touches, Writes, Grows, AccountInv

LEMMA AccountRegister ==
    ASSUME StateOK, ClientInv, AccountInv, NEW c \in ClientIds,
           NEW uris \in SUBSET Redirects, register(c, uris)
    PROVE  AccountInv'
  <1>1. /\ Put(ClientKey(c), [redirects |-> uris, browser |-> FALSE], ClientTTL)
        /\ UNCHANGED <<clock, req, started, codeLog>>
        /\ c \notin drawn /\ drawn' = drawn \union {c}
    BY DEF register, logs, randomToken
  <1>2. /\ store'[ClientKey(c)].val = [redirects |-> uris, browser |-> FALSE]
        /\ \A d \in ClientIds : d # c =>
               store'[ClientKey(d)] = store[ClientKey(d)]
    BY <1>1, PutClientEffect DEF StateOK
  <1>3. LoginsApart
    BY <1>1 DEF LoginsApart, NeverLogin, OfLogin, At
  <1>4. NeverLogin(c)'
    BY <1>1 DEF NeverLogin, ClientInv, AccountInv, At
  <1>5. ClientKinds'
    BY <1>1, <1>2, <1>3, <1>4
       DEF AccountInv, ClientKinds, LoginsApart, Present, Value
  <1>6. Kept /\ OldKeys("mcp:user")
    BY TouchRegister DEF Touches, Grows, Writes
  <1> QED BY <1>1, <1>3, <1>5, <1>6, AccountFrame DEF AccountInv

LEMMA AccountWebLogin ==
    ASSUME StateOK, AccountInv, NEW r \in Requests, NEW f \in Logins,
           NEW c \in ClientIds, webLogin(r, f, c)
    PROVE  AccountInv'
  <1>1. /\ req'[r] = [at |-> "login.client", login |-> f, client |-> c]
        /\ \A q \in Requests : q # r => req'[q] = req[q]
        /\ c \notin drawn /\ drawn' = drawn \union {f, c}
        /\ UNCHANGED <<started, codeLog>>
    BY ContinueEffect DEF webLogin, StateOK, logs
  <1>2. LoginsApart
    BY <1>1 DEF LoginsApart, NeverLogin, OfLogin, At
  <1>3. \A q \in Requests : req'[q] = req[q] \/ UserFits(q)'
    BY <1>1 DEF UserFits, UserLabels
  <1>4. Kept /\ OldKeys("mcp:user") /\ OldKeys("mcp:client")
    BY TouchWebLogin DEF Touches, Grows, Writes
  <1> QED BY <1>1, <1>2, <1>3, <1>4, AccountFrame DEF AccountInv

LEMMA AccountWebLoginClient ==
    ASSUME StateOK, ClientInv, AccountInv, NEW r \in Requests,
           webLoginClient(r)
    PROVE  AccountInv'
  <1>1. PICK c \in ClientIds : c = req[r].client
    BY ClientTyped DEF webLoginClient
  <1>2. /\ store'[ClientKey(c)].val =
               [redirects |-> {WebRedirect}, browser |-> TRUE]
        /\ \A d \in ClientIds : d # c =>
               store'[ClientKey(d)] = store[ClientKey(d)]
        /\ UNCHANGED <<clock, drawn, codeLog>>
    BY <1>1, PutClientEffect DEF webLoginClient, StateOK
  <1>l. PICK l : l = [login |-> req[r].login, client |-> c]
    OBVIOUS
  <1>3. /\ \A x \in started' : x \in started \/ x.client = c
        /\ started \subseteq started'
        /\ OfLogin(c)'
    <2>1. started' = started \union {l} /\ l.client = c
      BY <1>1, <1>l DEF webLoginClient
    <2> QED BY <2>1 DEF OfLogin
  <1>4. \A q \in Requests : req'[q] = req[q] \/ req'[q].at = "idle"
    BY TouchWebLoginClient DEF Touches, Enters
  <1>5. At(r, "login.client") /\ c \in drawn
    BY <1>1 DEF webLoginClient, ClientInv
  <1>6. LoginsApart
    BY <1>1, <1>2, <1>3, <1>4, <1>5 DEF LoginsApart, NeverLogin, OfLogin, At
  <1>7. ClientKinds'
    BY <1>2, <1>3, <1>6 DEF AccountInv, ClientKinds, LoginsApart, Present, Value
  <1>8. \A q \in Requests : req'[q] = req[q] \/ UserFits(q)'
    BY <1>4 DEF UserFits, UserLabels
  <1>9. Kept /\ OldKeys("mcp:user")
    BY TouchWebLoginClient DEF Touches, Grows, Writes
  <1> QED BY <1>2, <1>3, <1>5, <1>6, <1>7, <1>8, <1>9, AccountFrame
          DEF AccountInv

LEMMA AccountCompleteClient ==
    ASSUME StateOK, AccountInv, NEW r \in Requests, completeClient(r)
    PROVE  AccountInv'
  <1>1. PICK p : p = req[r].pending
    OBVIOUS
  <1>2. p.auth.client \in ClientIds
    BY <1>1 DEF completeClient, At, StateOK, Handler, Idle, Pending,
                AuthorizationRequest
  <1>3. /\ Touches({"idle", "complete.user"}, {}, {})
        /\ UNCHANGED <<store, clock, started, codeLog>>
    BY TouchCompleteClient DEF completeClient, logs
  <1>4. LoginsApart
    BY <1>3 DEF LoginsApart, NeverLogin, OfLogin, Touches, Grows, Enters, At
  <1>5. CASE Respond(r)
    <2>1. \A q \in Requests : req'[q] = req[q] \/ UserFits(q)'
      BY <1>5, ContinueEffect
         DEF Respond, Idle, StateOK, UserFits, UserLabels
    <2> QED BY <1>3, <1>4, <2>1, AccountFrame
            DEF Touches, Grows, Writes, AccountInv
  <1>6. ASSUME NEW u, NEW ttl,
               Continue(r, [at |-> "complete.user", state |-> req[r].state,
                            site |-> req[r].site, pending |-> p,
                            user |-> u, ttl |-> ttl]),
               Fits(u, p.auth.client)
        PROVE  AccountInv'
    <2>1. /\ req'[r] = [at |-> "complete.user", state |-> req[r].state,
                        site |-> req[r].site, pending |-> p,
                        user |-> u, ttl |-> ttl]
          /\ \A q \in Requests : q # r => req'[q] = req[q]
      BY <1>6, ContinueEffect DEF StateOK
    <2>2. req'[r].pending = p /\ req'[r].user = u
      BY <2>1
    <2>3. UserFits(r)'
      BY <1>2, <1>4, <1>6, <2>2, FitsStays DEF UserFits
    <2> QED BY <1>3, <1>4, <2>1, <2>3, AccountFrame
            DEF Touches, Grows, Writes, AccountInv
  <1>7. /\ ~ ClientExpired(p.auth.client) /\ ~ IsBrowser(p.auth.client)
               => NeverLogin(p.auth.client)
        /\ IsBrowser(p.auth.client) => OfLogin(p.auth.client)
    BY <1>2 DEF AccountInv, ClientKinds, ClientExpired, IsBrowser
  <1>8. <<p.account, req[r].site>> \notin BrowserIds
    <2>1. <<p.account, req[r].site>> \in AccountUsers
      BY <1>1 DEF completeClient, At, StateOK, Handler, Idle, Pending,
                  AccountUsers
    <2> QED BY <2>1, UserIdsAssumption
  <1> QED BY <1>1, <1>5, <1>6, <1>7, <1>8 DEF completeClient, Fits

LEMMA AccountCompleteUser ==
    ASSUME StateOK, DanceInv, AccountInv, NEW r \in Requests, completeUser(r)
    PROVE  AccountInv'
  <1>1. PICK p, w, s : p = req[r].pending /\ w = req[r].user
                       /\ s = req[r].state
    OBVIOUS
  <1>2. /\ req[r] \in [at : {"complete.user"}, state : States, site : Sites,
                       pending : Pending, user : UserIds, ttl : Nat]
        /\ w \in UserIds /\ p \in Pending /\ s \in States
    BY <1>1 DEF StateOK, completeUser, At, Handler, Idle
  <1>3. p.auth.client \in ClientIds /\ p.grant \in AtlCodes
    BY <1>2 DEF Pending, AuthorizationRequest
  <1>4. /\ req'[r].at = "complete.code" /\ req'[r].pending = p
        /\ req'[r].user = w
        /\ \A q \in Requests : q # r => req'[q] = req[q]
    BY <1>1, <1>2, ContinueEffect DEF completeUser, StateOK
  <1>5. UNCHANGED <<asked, grants, started, clock, drawn, codeLog>>
    BY DEF completeUser, external, logs
  <1>6. Kept /\ OldKeys("mcp:client")
    BY TouchCompleteUser DEF Touches, Grows, Writes
  <1>7. LoginsApart
    BY <1>4, <1>5 DEF LoginsApart, NeverLogin, OfLogin, At
  <1>8. Fits(w, p.auth.client)
    BY <1>1, <1>2 DEF AccountInv, UserFits, UserLabels
  <1>9. PendingOK(p, s)
    BY <1>1, <1>2 DEF DanceInv, Right, FormLabels
  <1>10. w \in AccountUsers => GrantedApart(p.grant)'
    BY <1>3, <1>6, <1>7, <1>8, <1>9, GrantedStays, UserIdsAssumption
       DEF PendingOK, Backed, GrantedApart, Fits
  <1>11. /\ store'[UserKey(w)].val.grant = p.grant
         /\ \A u \in AccountUsers : u # w =>
                store'[UserKey(u)] = store[UserKey(u)]
    <2>1. \A u \in UserIds : UserKey(u) \in Key
      BY KeyInKey
    <2>2. PICK v : /\ v = [account |-> p.account, site |-> req[r].site,
                           grant |-> p.grant]
                   /\ Put(UserKey(w), v, req[r].ttl)
      BY <1>1 DEF completeUser
    <2>3. /\ \A j \in Key : j # UserKey(w) => store'[j] = store[j]
          /\ store'[UserKey(w)] = [val |-> v, exp |-> clock + req[r].ttl]
      BY <1>2, <2>1, <2>2, PutEffect DEF StateOK
    <2>4. \A u \in AccountUsers : u # w => UserKey(u) # UserKey(w)
      BY KeyInjective
    <2> QED BY <2>1, <2>2, <2>3, <2>4 DEF UserIds
  <1>12. AccountRecords'
    <2> SUFFICES ASSUME NEW u \in AccountUsers, Present(UserKey(u))'
                 PROVE  GrantedApart(Value(UserKey(u)).grant)'
      BY DEF AccountRecords
    <2>1. CASE u = w
      <3>1. PICK g \in AtlCodes : g = p.grant
        BY <1>3
      <3>2. Value(UserKey(u))'.grant = g
        BY <1>11, <2>1, <3>1 DEF Value
      <3>3. GrantedApart(g)'
        BY <1>10, <2>1, <3>1
      <3> QED BY <3>2, <3>3 DEF GrantedApart
    <2>2. CASE u # w
      <3>1. Present(UserKey(u)) /\ Value(UserKey(u))' = Value(UserKey(u))
        BY <1>5, <1>11, <2>2 DEF Present, Value
      <3>2. PICK g \in AtlCodes : g = Value(UserKey(u)).grant
        BY <3>1, UserTyped
      <3>3. GrantedApart(g)'
        BY <1>6, <1>7, <3>1, <3>2, GrantedStays
           DEF AccountInv, AccountRecords
      <3> QED BY <3>1, <3>2, <3>3 DEF GrantedApart
    <2> QED BY <2>1, <2>2
  <1>13. UserFits(r)'
    BY <1>3, <1>4, <1>7, <1>8, FitsStays DEF UserFits
  <1> QED BY <1>4, <1>5, <1>6, <1>7, <1>12, <1>13, AccountFrame
          DEF AccountInv

LEMMA AccountCompleteCode ==
    ASSUME StateOK, AccountInv, NEW r \in Requests, NEW c \in Codes,
           completeCode(r, c)
    PROVE  AccountInv'
  <1>1. Touches({"idle"}, {"oauth:code"}, {"codeLog"})
    BY TouchCompleteCode
  <1>2. LoginsApart
    BY <1>1 DEF LoginsApart, NeverLogin, OfLogin, Touches, Grows, Enters, At
  <1>3. \A q \in Requests : req'[q] = req[q] \/ UserFits(q)'
    BY <1>1 DEF Touches, Enters, UserFits, UserLabels
  <1>4. \A x \in codeLog' : \/ x \in codeLog
                            \/ /\ x.client = req[r].pending.auth.client
                               /\ x.user = req[r].user
    BY DEF completeCode
  <1>5. Fits(req[r].user, req[r].pending.auth.client)
    BY DEF completeCode, At, AccountInv, UserFits, UserLabels
  <1>6. \A x \in codeLog' : Fits(x.user, x.client) /\ x.client \in ClientIds
    BY <1>4, <1>5, UserTyped
       DEF AccountInv, CodesFit, StateOK, LogsOK, completeCode, At, UserLabels
  <1>7. CodesFit'
    BY <1>2, <1>6, FitsStays DEF CodesFit
  <1> QED BY <1>1, <1>2, <1>3, <1>7, AccountFrame
          DEF Touches, Writes, Grows, AccountInv

LEMMA AccountStep ==
    ASSUME StateOK, ClientInv, DanceInv, AccountInv, [Next]_vars
    PROVE  AccountInv'
  <1>1. Ordinary => AccountInv'
    BY AccountTouch
       DEF Ordinary, OrdinaryLabels, OrdinaryPrefixes, UserLabels
  <1>2. ASSUME NEW r \in Requests, NEW a \in AuthorizationRequest,
               authorize(r, a)
        PROVE  AccountInv'
    BY <1>2, TouchAuthorize, AccountTouch DEF UserLabels
  <1>3. ASSUME NEW r \in Requests, NEW s \in States, authorizePut(r, s)
        PROVE  AccountInv'
    BY <1>3, TouchAuthorizePut, AccountTouch DEF UserLabels
  <1>4. ASSUME NEW r \in Requests, NEW c \in Codes, completeCode(r, c)
        PROVE  AccountInv'
    BY <1>4, AccountCompleteCode
  <1>5. ASSUME NEW r \in Requests, NEW f \in Logins, NEW c \in Codes,
               webCallback(r, f, c)
        PROVE  AccountInv'
    BY <1>5, TouchWebCallback, AccountTouch DEF UserLabels
  <1>6. ASSUME NEW r \in Requests, webCallbackCode(r)
        PROVE  AccountInv'
    BY <1>6, TouchWebCallbackCode, AccountTouch DEF UserLabels
  <1>7. ASSUME NEW r \in Requests, webCallbackTake(r)
        PROVE  AccountInv'
    BY <1>7, TouchWebCallbackTake, AccountTouch DEF UserLabels
  <1>8. ASSUME NEW r \in Requests, NEW s \in Sessions,
               webCallbackSession(r, s)
        PROVE  AccountInv'
    BY <1>8, TouchWebCallbackSession, AccountTouch DEF UserLabels
  <1>9. \A l \in started : l.login \in Logins
    BY DEF StateOK, LogsOK
  <1> QED BY <1>1, <1>2, <1>3, <1>4, <1>5, <1>6, <1>7, <1>8, <1>9,
             StepCases, AccountRegister, AccountWebLogin,
             AccountWebLoginClient, AccountCompleteClient,
             AccountCompleteUser DEF SpecialStep

-----------------------------------------------------------------------------
(* A browser login gets a record that nobody else is given, and that is of *)
(* the account that consented to it.                                       *)

HoldsUser(r, b) == req[r].at \in UserLabels /\ req[r].user = b

UsersDrawn ==
    \A b \in BrowserIds : b \notin drawn =>
        /\ \A r \in Requests : ~ HoldsUser(r, b)
        /\ \A x \in codeLog : x.user # b

UsersHeld ==
    \A r \in Requests : \A b \in BrowserIds : HoldsUser(r, b) =>
        /\ \A q \in Requests : HoldsUser(q, b) => q = r
        /\ \A x \in codeLog : x.user # b

UserOfOneCode ==
    \A x, y \in codeLog : x.user \in BrowserIds /\ x.user = y.user => x = y

RecordOf(b, account) ==
    Present(UserKey(b)) => Value(UserKey(b)).account = account

CodeRecords ==
    \A x \in codeLog :
        /\ grants[x.grant] # None
        /\ x.user \in BrowserIds => RecordOf(x.user, grants[x.grant].account)

HeldRecords ==
    \A r \in Requests :
        req[r].at = "complete.code" /\ req[r].user \in BrowserIds
            => RecordOf(req[r].user, req[r].pending.account)

UserInv ==
    UsersDrawn /\ UsersHeld /\ UserOfOneCode /\ CodeRecords /\ HeldRecords

LEMMA UserInit == Init => UserInv
  BY DEF Init, UserInv, UsersDrawn, UsersHeld, UserOfOneCode, HoldsUser,
         CodeRecords, HeldRecords, Idle, UserLabels

LEMMA RecordStays ==
    ASSUME OldKeys("mcp:user"), NEW b \in BrowserIds, NEW a, RecordOf(b, a)
    PROVE  RecordOf(b, a)'
  <1>1. UserKey(b) \in Key /\ Prefix(UserKey(b)) = "mcp:user"
    BY KeyInKey, KeyPrefix DEF UserIds
  <1> QED BY <1>1 DEF OldKeys, RecordOf, Present, Value

LEMMA RecordsStay ==
    ASSUME StateOK, UserInv, OldKeys("mcp:user"), Kept,
           UNCHANGED codeLog,
           \A q \in Requests : req'[q] = req[q] \/ req'[q].at # "complete.code"
    PROVE  CodeRecords' /\ HeldRecords'
  <1>1. HeldRecords'
    <2> SUFFICES ASSUME NEW r \in Requests, req'[r] = req[r],
                        req[r].at = "complete.code",
                        req[r].user \in BrowserIds
                 PROVE  RecordOf(req[r].user, req[r].pending.account)'
      BY DEF HeldRecords
    <2>1. PICK b, a : /\ b \in BrowserIds /\ b = req[r].user
                      /\ a = req[r].pending.account
      OBVIOUS
    <2>2. RecordOf(b, a)'
      BY <2>1, RecordStays DEF UserInv, HeldRecords
    <2> QED BY <2>1, <2>2 DEF RecordOf
  <1>2. CodeRecords'
    <2> SUFFICES ASSUME NEW x \in codeLog
                 PROVE  /\ grants'[x.grant] # None
                        /\ x.user \in BrowserIds =>
                               RecordOf(x.user, grants[x.grant].account)'
      BY DEF CodeRecords
    <2>1. x.grant \in AtlCodes /\ grants[x.grant] # None
      BY DEF UserInv, CodeRecords, StateOK, LogsOK
    <2>2. grants'[x.grant] = grants[x.grant]
      BY <2>1 DEF Kept
    <2>3. ASSUME x.user \in BrowserIds
          PROVE  RecordOf(x.user, grants[x.grant].account)'
      <3>1. PICK b, a : /\ b \in BrowserIds /\ b = x.user
                        /\ a = grants[x.grant].account
        BY <2>3
      <3>2. RecordOf(b, a)'
        BY <3>1, RecordStays DEF UserInv, CodeRecords
      <3> QED BY <2>2, <3>1, <3>2 DEF RecordOf
    <2> QED BY <2>1, <2>2, <2>3
  <1> QED BY <1>1, <1>2

LEMMA UserTouch ==
    ASSUME StateOK, UserInv, NEW L, NEW P, NEW V, Touches(L, P, V),
           UserLabels \intersect L = {}, "mcp:user" \notin P,
           "codeLog" \notin V
    PROVE  UserInv'
  <1>1. \A r \in Requests : \A b \in BrowserIds :
            HoldsUser(r, b)' => HoldsUser(r, b)
    BY DEF Touches, Enters, HoldsUser
  <1>2. drawn \subseteq drawn' /\ codeLog' = codeLog
    BY DEF Touches, Grows
  <1>3. UsersDrawn' /\ UsersHeld' /\ UserOfOneCode'
    BY <1>1, <1>2 DEF UserInv, UsersDrawn, UsersHeld, UserOfOneCode
  <1>4. \A q \in Requests : req'[q] = req[q] \/ req'[q].at # "complete.code"
    BY DEF Touches, Enters, UserLabels
  <1>5. CodeRecords' /\ HeldRecords'
    BY <1>2, <1>4, RecordsStay DEF Touches, Writes, Grows
  <1> QED BY <1>3, <1>5 DEF UserInv

LEMMA UserCompleteClient ==
    ASSUME StateOK, UserInv, NEW r \in Requests, completeClient(r)
    PROVE  UserInv'
  <1>1. PICK p : p = req[r].pending
    OBVIOUS
  <1>2. /\ req[r].at = "complete.client"
        /\ p \in Pending
    BY <1>1 DEF completeClient, At, StateOK, Handler, Idle
  <1>3. /\ UNCHANGED <<store, clock, codeLog>>
        /\ drawn \subseteq drawn'
    BY DEF completeClient, logs, randomToken
  <1>4. UserOfOneCode'
    BY <1>3 DEF UserInv, UserOfOneCode
  <1>5. CodeRecords' /\ HeldRecords'
    <2>1. Touches({"idle", "complete.user"}, {}, {})
      BY TouchCompleteClient
    <2> QED BY <2>1, <1>3, RecordsStay DEF Touches, Writes, Grows, Enters
  <1>6. CASE Respond(r)
    <2>1. Enters({"idle"})
      BY <1>6, EntersIdle
    <2> QED BY <1>3, <1>4, <1>5, <2>1
            DEF Enters, UserInv, UsersDrawn, UsersHeld, HoldsUser, UserLabels
  <1>7. ASSUME NEW u, NEW ttl,
               Continue(r, [at |-> "complete.user", state |-> req[r].state,
                            site |-> req[r].site, pending |-> p,
                            user |-> u, ttl |-> ttl]),
               u \in BrowserIds => u \notin drawn /\ u \in drawn'
        PROVE  UserInv'
    <2>1. /\ req'[r] = [at |-> "complete.user", state |-> req[r].state,
                        site |-> req[r].site, pending |-> p,
                        user |-> u, ttl |-> ttl]
          /\ \A q \in Requests : q # r => req'[q] = req[q]
      BY <1>7, ContinueEffect DEF StateOK
    <2>2. req'[r].user = u
      BY <2>1
    <2>3. \A q \in Requests : \A b \in BrowserIds :
              HoldsUser(q, b)' => HoldsUser(q, b) \/ (q = r /\ b = u)
      BY <2>1, <2>2 DEF HoldsUser
    <2>4. UsersDrawn'
      BY <1>3, <1>7, <2>3 DEF UserInv, UsersDrawn
    <2>5. UsersHeld'
      BY <1>3, <1>7, <2>3 DEF UserInv, UsersDrawn, UsersHeld
    <2> QED BY <1>4, <1>5, <2>4, <2>5 DEF UserInv
  <1>8. <<p.account, req[r].site>> \notin BrowserIds
    <2>1. p.account \in Accounts /\ req[r].site \in Sites
      BY <1>1, <1>2, HandlerTyped DEF Pending, FormLabels
    <2> QED BY <2>1, UserIdsAssumption DEF AccountUsers
  <1> QED BY <1>1, <1>6, <1>7, <1>8 DEF completeClient, randomToken

(* Nobody else holds the record of a browser login when it is written.     *)
LEMMA UserCompleteUser ==
    ASSUME StateOK, UserInv, NEW r \in Requests, completeUser(r)
    PROVE  UserInv'
  <1>1. req[r] \in [at : {"complete.user"}, state : States, site : Sites,
                    pending : Pending, user : UserIds, ttl : Nat]
    BY DEF StateOK, completeUser, At, Handler, Idle
  <1>2. PICK u, p : u = req[r].user /\ p = req[r].pending
    OBVIOUS
  <1>3. /\ req'[r].at = "complete.code" /\ req'[r].pending = p
        /\ req'[r].user = u
        /\ \A q \in Requests : q # r => req'[q] = req[q]
    BY <1>1, <1>2, ContinueEffect DEF completeUser, StateOK
  <1>4. \A q \in Requests : \A b \in BrowserIds :
            HoldsUser(q, b)' => HoldsUser(q, b)
    BY <1>1, <1>2, <1>3 DEF HoldsUser, UserLabels
  <1>5. UNCHANGED <<codeLog, drawn, grants, clock>>
    BY DEF completeUser, external, logs
  <1>6. UsersDrawn' /\ UsersHeld' /\ UserOfOneCode'
    BY <1>4, <1>5 DEF UserInv, UsersDrawn, UsersHeld, UserOfOneCode
  <1>7. HoldsUser(r, u)
    BY <1>1, <1>2 DEF HoldsUser, UserLabels
  <1>8. /\ store'[UserKey(u)].val.account = p.account
        /\ \A w \in UserIds : w # u => store'[UserKey(w)] = store[UserKey(w)]
    <2>1. u \in UserIds /\ \A w \in UserIds : UserKey(w) \in Key
      BY <1>1, <1>2, KeyInKey
    <2>2. PICK v : /\ v = [account |-> p.account, site |-> req[r].site,
                           grant |-> p.grant]
                   /\ Put(UserKey(u), v, req[r].ttl)
      BY <1>2 DEF completeUser
    <2>3. /\ \A j \in Key : j # UserKey(u) => store'[j] = store[j]
          /\ store'[UserKey(u)] = [val |-> v, exp |-> clock + req[r].ttl]
      BY <2>1, <2>2, PutEffect DEF StateOK
    <2>4. \A w \in UserIds : w # u => UserKey(w) # UserKey(u)
      BY KeyInjective
    <2> QED BY <2>1, <2>2, <2>3, <2>4
  <1>9. \A b \in BrowserIds : \A a :
            b # u /\ RecordOf(b, a) => RecordOf(b, a)'
    BY <1>5, <1>8 DEF UserIds, RecordOf, Present, Value
  <1>10. RecordOf(u, p.account)'
    BY <1>8 DEF RecordOf, Value
  <1>11. HeldRecords'
    <2> SUFFICES ASSUME NEW q \in Requests,
                        req'[q].at = "complete.code",
                        req'[q].user \in BrowserIds
                 PROVE  RecordOf(req[q].user, req[q].pending.account)'
      BY DEF HeldRecords
    <2>1. CASE q = r
      BY <1>3, <1>10, <2>1 DEF RecordOf
    <2>2. CASE q # r
      <3>1. req'[q] = req[q]
        BY <1>3, <2>2
      <3>2. PICK b, a : /\ b \in BrowserIds /\ b = req[q].user
                        /\ a = req[q].pending.account
        BY <3>1
      <3>3. HoldsUser(q, b)
        BY <3>1, <3>2 DEF HoldsUser, UserLabels
      <3>4. b # u
        BY <1>7, <2>2, <3>2, <3>3 DEF UserInv, UsersHeld
      <3>5. RecordOf(b, a)
        BY <3>1, <3>2 DEF UserInv, HeldRecords
      <3>6. RecordOf(b, a)'
        BY <1>9, <3>2, <3>4, <3>5
      <3> QED BY <3>1, <3>2, <3>6 DEF RecordOf
    <2> QED BY <2>1, <2>2
  <1>12. CodeRecords'
    <2> SUFFICES ASSUME NEW x \in codeLog
                 PROVE  /\ grants[x.grant] # None
                        /\ x.user \in BrowserIds =>
                               RecordOf(x.user, grants[x.grant].account)'
      BY <1>5 DEF CodeRecords
    <2>1. ASSUME x.user \in BrowserIds
          PROVE  RecordOf(x.user, grants[x.grant].account)'
      <3>1. PICK b, a : /\ b \in BrowserIds /\ b = x.user
                        /\ a = grants[x.grant].account
        BY <2>1
      <3>2. b # u
        BY <1>7, <3>1 DEF UserInv, UsersHeld
      <3>3. RecordOf(b, a)
        BY <3>1 DEF UserInv, CodeRecords
      <3>4. RecordOf(b, a)'
        BY <1>9, <3>1, <3>2, <3>3
      <3> QED BY <1>5, <3>1, <3>4 DEF RecordOf
    <2> QED BY <2>1 DEF UserInv, CodeRecords
  <1> QED BY <1>6, <1>11, <1>12 DEF UserInv

LEMMA UserCompleteCode ==
    ASSUME StateOK, DanceInv, UserInv, NEW r \in Requests, NEW c \in Codes,
           completeCode(r, c)
    PROVE  UserInv'
  <1>1. PICK p, u : p = req[r].pending /\ u = req[r].user
    OBVIOUS
  <1>2. PICK x :
            x = [code |-> c, state |-> req[r].state,
                 client |-> p.auth.client, grant |-> p.grant, user |-> u]
    OBVIOUS
  <1>3. /\ codeLog' = codeLog \union {x}
        /\ x.user = u /\ x.grant = p.grant
        /\ req[r].at = "complete.code" /\ drawn \subseteq drawn'
        /\ UNCHANGED <<clock, grants>>
    BY <1>1, <1>2 DEF completeCode, At, randomToken, external
  <1>4. /\ req'[r].at = "idle"
        /\ \A q \in Requests : q # r => req'[q] = req[q]
    BY ContinueEffect DEF completeCode, Respond, Idle, StateOK
  <1>5. \A q \in Requests : \A b \in BrowserIds :
            HoldsUser(q, b)' => HoldsUser(q, b) /\ q # r
    BY <1>4 DEF HoldsUser, UserLabels
  <1>6. HoldsUser(r, u)
    BY <1>1, <1>3 DEF HoldsUser, UserLabels
  <1>7. UsersDrawn'
    BY <1>3, <1>5, <1>6 DEF UserInv, UsersDrawn
  <1>8. UsersHeld'
    BY <1>3, <1>5, <1>6 DEF UserInv, UsersHeld
  <1>9. UserOfOneCode'
    BY <1>3, <1>6 DEF UserInv, UsersHeld, UserOfOneCode
  <1>10. OldKeys("mcp:user")
    BY TouchCompleteCode DEF Touches, Writes
  <1>11. HeldRecords'
    <2> SUFFICES ASSUME NEW q \in Requests,
                        req'[q].at = "complete.code",
                        req'[q].user \in BrowserIds
                 PROVE  RecordOf(req[q].user, req[q].pending.account)'
      BY DEF HeldRecords
    <2>1. req'[q] = req[q]
      BY <1>4
    <2>2. PICK b, a : /\ b \in BrowserIds /\ b = req[q].user
                      /\ a = req[q].pending.account
      BY <2>1
    <2>3. RecordOf(b, a)'
      BY <1>10, <2>1, <2>2, RecordStays DEF UserInv, HeldRecords
    <2> QED BY <2>1, <2>2, <2>3 DEF RecordOf
  <1>12. PendingOK(p, req[r].state)
    BY <1>1, <1>3 DEF DanceInv, Right, FormLabels
  <1>13. \A y \in codeLog' :
            /\ grants[y.grant] # None
            /\ y.user \in BrowserIds =>
                   RecordOf(y.user, grants[y.grant].account)
    BY <1>1, <1>3, <1>12 DEF UserInv, CodeRecords, HeldRecords, PendingOK
  <1>14. CodeRecords'
    <2> SUFFICES ASSUME NEW y \in codeLog', y.user \in BrowserIds
                 PROVE  RecordOf(y.user, grants[y.grant].account)'
      BY <1>3, <1>13 DEF CodeRecords
    <2>1. PICK b, a : /\ b \in BrowserIds /\ b = y.user
                      /\ a = grants[y.grant].account
      OBVIOUS
    <2>2. RecordOf(b, a)'
      BY <1>10, <1>13, <2>1, RecordStays
    <2> QED BY <1>3, <2>1, <2>2 DEF RecordOf
  <1> QED BY <1>7, <1>8, <1>9, <1>11, <1>14 DEF UserInv

LEMMA UserStep ==
    ASSUME StateOK, ClientInv, DanceInv, UserInv, [Next]_vars
    PROVE  UserInv'
  <1>1. Ordinary => UserInv'
    BY UserTouch DEF Ordinary, OrdinaryLabels, OrdinaryPrefixes, UserLabels
  <1>2. ASSUME NEW c \in ClientIds, NEW uris \in SUBSET Redirects,
               register(c, uris)
        PROVE  UserInv'
    BY <1>2, TouchRegister, UserTouch DEF UserLabels
  <1>3. ASSUME NEW r \in Requests, NEW a \in AuthorizationRequest,
               authorize(r, a)
        PROVE  UserInv'
    BY <1>3, TouchAuthorize, UserTouch DEF UserLabels
  <1>4. ASSUME NEW r \in Requests, NEW s \in States, authorizePut(r, s)
        PROVE  UserInv'
    BY <1>4, TouchAuthorizePut, UserTouch DEF UserLabels
  <1>5. ASSUME NEW r \in Requests, NEW f \in Logins, NEW c \in ClientIds,
               webLogin(r, f, c)
        PROVE  UserInv'
    BY <1>5, TouchWebLogin, UserTouch DEF UserLabels
  <1>6. ASSUME NEW r \in Requests, webLoginClient(r)
        PROVE  UserInv'
    BY <1>6, TouchWebLoginClient, UserTouch DEF UserLabels
  <1>7. ASSUME NEW r \in Requests, NEW f \in Logins, NEW c \in Codes,
               webCallback(r, f, c)
        PROVE  UserInv'
    BY <1>7, TouchWebCallback, UserTouch DEF UserLabels
  <1>8. ASSUME NEW r \in Requests, webCallbackCode(r)
        PROVE  UserInv'
    BY <1>8, TouchWebCallbackCode, UserTouch DEF UserLabels
  <1>9. ASSUME NEW r \in Requests, webCallbackTake(r)
        PROVE  UserInv'
    BY <1>9, TouchWebCallbackTake, UserTouch DEF UserLabels
  <1>10. ASSUME NEW r \in Requests, NEW s \in Sessions,
                webCallbackSession(r, s)
         PROVE  UserInv'
    BY <1>10, TouchWebCallbackSession, UserTouch DEF UserLabels
  <1>11. \A l \in started : l.login \in Logins
    BY DEF StateOK, LogsOK
  <1> QED BY <1>1, <1>2, <1>3, <1>4, <1>5, <1>6, <1>7, <1>8, <1>9, <1>10,
             <1>11, StepCases, UserCompleteClient, UserCompleteUser,
             UserCompleteCode DEF SpecialStep

-----------------------------------------------------------------------------
(* A flow in the store names the client that was drawn with it.            *)

FlowPaired ==
    \A f \in Logins : Present(FlowKey(f)) =>
        /\ \A l \in started :
               l.login = f => l.client = Value(FlowKey(f)).client
        /\ \A r \in Requests : At(r, "login.client") /\ req[r].login = f =>
               req[r].client = Value(FlowKey(f)).client

PairInv ==
    /\ \A l \in started : l.login \in drawn
    /\ \A r \in Requests : At(r, "login.client") => req[r].login \in drawn
    /\ FlowPaired

LEMMA PairInit == Init => PairInv
  <1> SUFFICES ASSUME Init
               PROVE  PairInv
    OBVIOUS
  <1>1. \A k \in Key : ~ Present(k)
    BY DEF Init, Present, Absent
  <1>2. FlowPaired
    BY <1>1, KeyInKey DEF FlowPaired
  <1> QED BY <1>2 DEF Init, PairInv, At, Idle

LEMMA OldFlow ==
    ASSUME OldKeys("web:flow"), NEW f \in Logins, Present(FlowKey(f))'
    PROVE  Present(FlowKey(f)) /\ Value(FlowKey(f))' = Value(FlowKey(f))
  BY KeyInKey, KeyPrefix DEF OldKeys, Present, Value

LEMMA PairTouch ==
    ASSUME StateOK, PairInv, NEW L, NEW P, NEW V, Touches(L, P, V),
           "login.client" \notin L, "web:flow" \notin P, "started" \notin V
    PROVE  PairInv'
  <1>1. FlowPaired'
    BY OldFlow DEF PairInv, FlowPaired, Touches, Writes, Enters, At
  <1> QED BY <1>1 DEF PairInv, Touches, Grows, Enters, At

LEMMA PairWebLogin ==
    ASSUME StateOK, PairInv, NEW r \in Requests, NEW f \in Logins,
           NEW c \in ClientIds, webLogin(r, f, c)
    PROVE  PairInv'
  <1>1. PICK v : v = [client |-> c, verifier |-> f,
                      expires |-> clock + StateTTL]
    OBVIOUS
  <1>2. /\ req'[r].at = "login.client" /\ req'[r].login = f
        /\ req'[r].client = c
        /\ \A q \in Requests : q # r => req'[q] = req[q]
    <2>1. /\ req'[r] = [at |-> "login.client", login |-> f, client |-> c]
          /\ \A q \in Requests : q # r => req'[q] = req[q]
      BY ContinueEffect DEF webLogin, StateOK
    <2> QED BY <2>1
  <1>3. /\ Put(FlowKey(f), v, StateTTL) /\ v.client = c
        /\ f \notin drawn /\ drawn' = drawn \union {f, c}
        /\ UNCHANGED <<clock, started>>
    BY <1>1 DEF webLogin, logs
  <1>4. /\ store'[FlowKey(f)].val = v
        /\ \A g \in Logins : g # f => store'[FlowKey(g)] = store[FlowKey(g)]
    <2>1. \A g \in Logins : FlowKey(g) \in Key
      BY KeyInKey
    <2>2. /\ \A j \in Key : j # FlowKey(f) => store'[j] = store[j]
          /\ store'[FlowKey(f)] = [val |-> v, exp |-> clock + StateTTL]
      BY <1>3, <2>1, PutEffect DEF StateOK
    <2>3. \A g \in Logins : g # f => FlowKey(g) # FlowKey(f)
      BY KeyInjective
    <2> QED BY <2>1, <2>2, <2>3
  <1>5. /\ \A l \in started : l.login # f
        /\ \A q \in Requests : At(q, "login.client") => req[q].login # f
    BY <1>3 DEF PairInv
  <1>6. FlowPaired'
    <2> SUFFICES ASSUME NEW g \in Logins, Present(FlowKey(g))'
                 PROVE  /\ \A l \in started' :
                               l.login = g =>
                                   l.client = Value(FlowKey(g))'.client
                        /\ \A q \in Requests :
                               At(q, "login.client")' /\ req'[q].login = g =>
                                   req'[q].client = Value(FlowKey(g))'.client
      BY DEF FlowPaired
    <2>1. CASE g = f
      BY <1>2, <1>3, <1>4, <1>5, <2>1 DEF Value, At
    <2>2. CASE g # f
      <3>1. Present(FlowKey(g)) /\ Value(FlowKey(g))' = Value(FlowKey(g))
        BY <1>3, <1>4, <2>2 DEF Present, Value
      <3> QED BY <1>2, <1>3, <2>2, <3>1 DEF PairInv, FlowPaired, At
    <2> QED BY <2>1, <2>2
  <1> QED BY <1>2, <1>3, <1>6 DEF PairInv, At

LEMMA PairWebLoginClient ==
    ASSUME StateOK, PairInv, NEW r \in Requests, webLoginClient(r)
    PROVE  PairInv'
  <1>1. PICK l : l = [login |-> req[r].login, client |-> req[r].client]
    OBVIOUS
  <1>2. /\ started' = started \union {l} /\ At(r, "login.client")
        /\ l.login = req[r].login /\ l.client = req[r].client
        /\ drawn' = drawn
    BY <1>1 DEF webLoginClient
  <1>3. /\ OldKeys("web:flow")
        /\ \A q \in Requests : req'[q] = req[q] \/ req'[q].at = "idle"
    BY TouchWebLoginClient DEF Touches, Writes, Enters
  <1>4. FlowPaired'
    BY <1>2, <1>3, OldFlow DEF PairInv, FlowPaired, At
  <1> QED BY <1>2, <1>3, <1>4 DEF PairInv, At

LEMMA PairStep ==
    ASSUME StateOK, ClientInv, PairInv, [Next]_vars
    PROVE  PairInv'
  <1>1. Ordinary => PairInv'
    BY PairTouch DEF Ordinary, OrdinaryLabels, OrdinaryPrefixes
  <1>2. ASSUME NEW c \in ClientIds, NEW uris \in SUBSET Redirects,
               register(c, uris)
        PROVE  PairInv'
    BY <1>2, TouchRegister, PairTouch
  <1>3. ASSUME NEW r \in Requests
        PROVE  /\ \A a \in AuthorizationRequest :
                      authorize(r, a) => PairInv'
               /\ \A s \in States : authorizePut(r, s) => PairInv'
               /\ completeClient(r) => PairInv'
               /\ completeUser(r) => PairInv'
               /\ \A c \in Codes : completeCode(r, c) => PairInv'
    BY <1>3, TouchAuthorize, TouchAuthorizePut, TouchCompleteClient,
       TouchCompleteUser, TouchCompleteCode, PairTouch
  <1>4. ASSUME NEW r \in Requests
        PROVE  /\ \A f \in Logins, c \in Codes :
                      webCallback(r, f, c) => PairInv'
               /\ webCallbackCode(r) => PairInv'
               /\ webCallbackTake(r) => PairInv'
               /\ \A s \in Sessions : webCallbackSession(r, s) => PairInv'
    BY <1>4, TouchWebCallback, TouchWebCallbackCode, TouchWebCallbackTake,
       TouchWebCallbackSession, PairTouch
  <1>5. \A l \in started : l.login \in Logins
    BY DEF StateOK, LogsOK
  <1> QED BY <1>1, <1>2, <1>3, <1>4, <1>5, StepCases, PairWebLogin,
             PairWebLoginClient DEF SpecialStep

-----------------------------------------------------------------------------
(* What the callback of a browser holds is of the dance its login began.   *)

SessionLabels == {"webcallback.take", "webcallback.session"}

Signed(c, client, login, user) ==
    /\ Issued(c, client, login, user)
    /\ [login |-> login, client |-> client] \in started
    /\ user \in BrowserIds

CallbackRight(r) ==
    /\ req[r].at = "webcallback.code" =>
           [login |-> req[r].flow.verifier, client |-> req[r].flow.client]
               \in started
    /\ req[r].at \in SessionLabels =>
           Signed(req[r].code, req[r].auth.client, req[r].login,
                  req[r].auth.user)

SessionInv ==
    /\ \A r \in Requests : CallbackRight(r)
    /\ \A s \in sessionLog : Signed(s.code, s.client, s.login, s.user)

LEMMA SessionInit == Init => SessionInv
  BY DEF Init, SessionInv, CallbackRight, Idle, SessionLabels

LEMMA SignedStays ==
    ASSUME StateOK, Grows, NEW c, NEW client, NEW login, NEW user,
           Signed(c, client, login, user)
    PROVE  Signed(c, client, login, user)'
  BY IssuedKept DEF Grows, Signed

LEMMA SessionFrame ==
    ASSUME StateOK, SessionInv, Grows,
           \A q \in Requests : req'[q] = req[q] \/ CallbackRight(q)',
           \A s \in sessionLog' : s \in sessionLog
                \/ Signed(s.code, s.client, s.login, s.user)'
    PROVE  SessionInv'
  <1>1. \A q \in Requests : CallbackRight(q)'
    <2> SUFFICES ASSUME NEW q \in Requests, req'[q] = req[q]
                 PROVE  CallbackRight(q)'
      OBVIOUS
    <2>1. PICK h : h = req[q]
      OBVIOUS
    <2>2. h.at \in SessionLabels =>
              Signed(h.code, h.auth.client, h.login, h.auth.user)'
      BY <2>1, SignedStays DEF SessionInv, CallbackRight
    <2>3. h.at = "webcallback.code" =>
              [login |-> h.flow.verifier, client |-> h.flow.client]
                  \in started'
      BY <2>1 DEF SessionInv, CallbackRight, Grows
    <2> QED BY <2>1, <2>2, <2>3 DEF CallbackRight, Signed, Issued
  <1>2. \A s \in sessionLog' : Signed(s.code, s.client, s.login, s.user)'
    BY SignedStays DEF SessionInv
  <1> QED BY <1>1, <1>2 DEF SessionInv

LEMMA SessionTouch ==
    ASSUME StateOK, SessionInv, NEW L, NEW P, NEW V, Touches(L, P, V),
           (SessionLabels \union {"webcallback.code"}) \intersect L = {},
           "sessionLog" \notin V
    PROVE  SessionInv'
  <1>1. \A q \in Requests : req'[q] = req[q] \/ CallbackRight(q)'
    BY DEF Touches, Enters, CallbackRight
  <1> QED BY <1>1, SessionFrame DEF Touches

LEMMA SessionWebCallback ==
    ASSUME StateOK, LoginInv, PairInv, SessionInv, NEW r \in Requests,
           NEW l \in started, NEW c \in Codes, webCallback(r, l.login, c)
    PROVE  SessionInv'
  <1>1. /\ l = [login |-> l.login, client |-> l.client]
        /\ l.login \in Logins
    BY DEF StateOK, LogsOK
  <1>2. PICK v : v = Value(FlowKey(l.login))
    OBVIOUS
  <1>3. v.verifier = l.login /\ v.client = l.client
    BY <1>1, <1>2 DEF webCallback, Take, LoginInv, FlowInStore, PairInv,
                      FlowPaired
  <1>4. Grows /\ UNCHANGED <<started, sessionLog>>
    BY <1>1, TouchWebCallback DEF Touches
  <1>5. \/ Respond(r)
        \/ Continue(r, [at |-> "webcallback.code", code |-> c, flow |-> v])
    BY <1>2 DEF webCallback
  <1>6. /\ \/ req'[r] = Idle
           \/ req'[r] = [at |-> "webcallback.code", code |-> c, flow |-> v]
        /\ \A q \in Requests : q # r => req'[q] = req[q]
    BY <1>5, ContinueEffect DEF Respond, StateOK
  <1>7. CallbackRight(r)'
    BY <1>1, <1>3, <1>4, <1>6 DEF CallbackRight, SessionLabels, Idle
  <1> QED BY <1>4, <1>6, <1>7, SessionFrame

LEMMA SessionWebCallbackCode ==
    ASSUME StateOK, DanceInv, AccountInv, SessionInv, NEW r \in Requests,
           webCallbackCode(r)
    PROVE  SessionInv'
  <1>1. PICK f, c : f = req[r].flow /\ c = req[r].code
    OBVIOUS
  <1>2. PICK v : v = Value(CodeKey(c))
    OBVIOUS
  <1>3. At(r, "webcallback.code") /\ c \in Codes
    BY <1>1 DEF webCallbackCode, At, StateOK, Handler, Idle
  <1>4. [login |-> f.verifier, client |-> f.client] \in started
    BY <1>1, <1>3 DEF SessionInv, CallbackRight, At
  <1>5. Grows /\ UNCHANGED <<started, codeLog, sessionLog, asked, grants>>
    BY TouchWebCallbackCode DEF Touches, webCallbackCode, external
  <1>6. \/ Respond(r)
        \/ /\ Continue(r, [at |-> "webcallback.take", code |-> c,
                           login |-> f.verifier, auth |-> v])
           /\ Present(CodeKey(c))
           /\ CodeMatches(v, f.client, WebRedirect, f.verifier)
    BY <1>1, <1>2 DEF webCallbackCode
  <1>7. CASE Respond(r)
    <2>1. \A q \in Requests : req'[q] = req[q] \/ CallbackRight(q)'
      BY <1>7, ContinueEffect
         DEF Respond, Idle, StateOK, CallbackRight, SessionLabels
    <2> QED BY <1>5, <2>1, SessionFrame
  <1>8. CASE /\ Continue(r, [at |-> "webcallback.take", code |-> c,
                             login |-> f.verifier, auth |-> v])
             /\ Present(CodeKey(c))
             /\ CodeMatches(v, f.client, WebRedirect, f.verifier)
    <2>1. /\ v.client = f.client /\ v.redirect = WebRedirect
          /\ v.challenge = f.verifier
      BY <1>8 DEF CodeMatches, verifyPKCE
    <2>2. Issued(c, f.client, f.verifier, v.user)
      BY <1>2, <1>3, <1>8, <2>1 DEF DanceInv, CodeEntries, IssuedAs
    <2>3. v.user \in BrowserIds
      <3>1. PICK x \in codeLog : x.client = f.client /\ x.user = v.user
        BY <2>2 DEF Issued
      <3>2. Fits(v.user, f.client)
        BY <3>1 DEF AccountInv, CodesFit
      <3>3. PICK l : l = [login |-> f.verifier, client |-> f.client]
        OBVIOUS
      <3>4. l \in started /\ l.client = f.client
        BY <1>4, <3>3
      <3> QED BY <3>2, <3>4 DEF Fits, NeverLogin
    <2>4. Signed(c, f.client, f.verifier, v.user)
      BY <1>4, <2>2, <2>3 DEF Signed
    <2>5. Signed(c, f.client, f.verifier, v.user)'
      BY <1>5, <2>4, SignedStays
    <2>6. /\ req'[r].at = "webcallback.take" /\ req'[r].code = c
          /\ req'[r].login = f.verifier /\ req'[r].auth = v
          /\ \A q \in Requests : q # r => req'[q] = req[q]
      <3>1. /\ req'[r] = [at |-> "webcallback.take", code |-> c,
                          login |-> f.verifier, auth |-> v]
            /\ \A q \in Requests : q # r => req'[q] = req[q]
        BY <1>8, ContinueEffect DEF StateOK
      <3> QED BY <3>1
    <2>7. CallbackRight(r)'
      BY <2>1, <2>5, <2>6 DEF CallbackRight, Signed, Issued
    <2> QED BY <1>5, <2>6, <2>7, SessionFrame
  <1> QED BY <1>6, <1>7, <1>8

LEMMA SessionWebCallbackTake ==
    ASSUME StateOK, SessionInv, NEW r \in Requests, webCallbackTake(r)
    PROVE  SessionInv'
  <1>1. PICK h : h = req[r]
    OBVIOUS
  <1>2. /\ h.at = "webcallback.take"
        /\ h \in [at : {"webcallback.take"}, code : Codes, login : Logins,
                  auth : Auth]
    BY <1>1 DEF webCallbackTake, At, StateOK, Handler, Idle
  <1>3. Signed(h.code, h.auth.client, h.login, h.auth.user)
    BY <1>1, <1>2 DEF SessionInv, CallbackRight, SessionLabels
  <1>4. Grows /\ UNCHANGED <<started, sessionLog>>
    BY TouchWebCallbackTake DEF Touches
  <1>5. Signed(h.code, h.auth.client, h.login, h.auth.user)'
    BY <1>3, <1>4, SignedStays
  <1>6. \/ Respond(r)
        \/ Continue(r, [h EXCEPT !.at = "webcallback.session"])
    BY <1>1 DEF webCallbackTake
  <1>7. /\ \/ req'[r] = Idle
           \/ req'[r] = [h EXCEPT !.at = "webcallback.session"]
        /\ \A q \in Requests : q # r => req'[q] = req[q]
    BY <1>6, ContinueEffect DEF Respond, StateOK
  <1>8. CallbackRight(r)'
    <2>1. CASE req'[r] = Idle
      BY <2>1 DEF CallbackRight, Idle, SessionLabels
    <2>2. CASE req'[r] = [h EXCEPT !.at = "webcallback.session"]
      <3>1. /\ req'[r].at = "webcallback.session" /\ req'[r].code = h.code
            /\ req'[r].login = h.login /\ req'[r].auth = h.auth
        BY <1>2, <2>2
      <3> QED BY <1>5, <3>1 DEF CallbackRight, Signed, Issued
    <2> QED BY <1>7, <2>1, <2>2
  <1> QED BY <1>4, <1>7, <1>8, SessionFrame

LEMMA SessionWebCallbackSession ==
    ASSUME StateOK, SessionInv, NEW r \in Requests, NEW s \in Sessions,
           webCallbackSession(r, s)
    PROVE  SessionInv'
  <1>1. PICK h : h = req[r]
    OBVIOUS
  <1>2. Signed(h.code, h.auth.client, h.login, h.auth.user)
    BY <1>1 DEF webCallbackSession, At, SessionInv, CallbackRight,
                SessionLabels
  <1>3. /\ Grows
        /\ \A q \in Requests : req'[q] = req[q] \/ req'[q].at = "idle"
    BY TouchWebCallbackSession DEF Touches, Enters
  <1>4. PICK e : /\ e = [session |-> s, login |-> h.login, code |-> h.code,
                         client |-> h.auth.client, user |-> h.auth.user]
                 /\ sessionLog' = sessionLog \union {e}
    BY <1>1 DEF webCallbackSession
  <1>5. Signed(h.code, h.auth.client, h.login, h.auth.user)'
    BY <1>2, <1>3, SignedStays
  <1>6. Signed(e.code, e.client, e.login, e.user)'
    BY <1>4, <1>5
  <1>7. \A q \in Requests : req'[q] = req[q] \/ CallbackRight(q)'
    BY <1>3 DEF CallbackRight, SessionLabels
  <1> QED BY <1>3, <1>4, <1>6, <1>7, SessionFrame

LEMMA SessionStep ==
    ASSUME StateOK, ClientInv, DanceInv, LoginInv, AccountInv, PairInv,
           SessionInv, [Next]_vars
    PROVE  SessionInv'
  <1>1. Ordinary => SessionInv'
    BY SessionTouch DEF Ordinary, OrdinaryLabels, OrdinaryPrefixes,
                        SessionLabels
  <1>2. ASSUME NEW c \in ClientIds, NEW uris \in SUBSET Redirects,
               register(c, uris)
        PROVE  SessionInv'
    BY <1>2, TouchRegister, SessionTouch DEF SessionLabels
  <1>3. ASSUME NEW r \in Requests
        PROVE  /\ \A a \in AuthorizationRequest :
                      authorize(r, a) => SessionInv'
               /\ \A s \in States : authorizePut(r, s) => SessionInv'
               /\ \A f \in Logins, c \in ClientIds :
                      webLogin(r, f, c) => SessionInv'
               /\ webLoginClient(r) => SessionInv'
    BY <1>3, TouchAuthorize, TouchAuthorizePut, TouchWebLogin,
       TouchWebLoginClient, SessionTouch DEF SessionLabels
  <1>4. ASSUME NEW r \in Requests
        PROVE  /\ completeClient(r) => SessionInv'
               /\ completeUser(r) => SessionInv'
               /\ \A c \in Codes : completeCode(r, c) => SessionInv'
    BY <1>4, TouchCompleteClient, TouchCompleteUser, TouchCompleteCode,
       SessionTouch DEF SessionLabels
  <1> QED BY <1>1, <1>2, <1>3, <1>4, StepCases, SessionWebCallback,
             SessionWebCallbackCode, SessionWebCallbackTake,
             SessionWebCallbackSession DEF SpecialStep

-----------------------------------------------------------------------------
(* The invariants together. *)

LEMMA LoginStep ==
    ASSUME TInv, LoginInv, [Next]_vars
    PROVE  LoginInv'
  BY LoginFrameStep, LoginCompleteCode, LoginWebLogin, LoginWebCallback,
     LoginWebCallbackCode, LoginWebCallbackTake, LoginWebCallbackSession
     DEF TInv

SInv ==
    /\ TInv /\ ClientInv /\ DanceInv /\ LoginInv
    /\ AccountInv /\ UserInv /\ PairInv /\ SessionInv

LEMMA SInvInductive ==
    /\ Init => SInv
    /\ SInv /\ [Next]_vars => SInv'
  <1>1. Init => SInv
    BY TypeInit, ConsentInit, ClientInit, DanceInit, LoginInit, AccountInit,
       UserInit, PairInit, SessionInit DEF TInv, SInv
  <1>2. ASSUME SInv, [Next]_vars
        PROVE  SInv'
    <2>1. TInv'
      BY <1>2, TypeStep, ConsentStep DEF SInv, TInv
    <2>2. ClientInv' /\ DanceInv'
      BY <1>2, DanceStep DEF SInv, TInv
    <2>3. LoginInv'
      BY <1>2, LoginStep DEF SInv
    <2>4. AccountInv' /\ UserInv' /\ PairInv' /\ SessionInv'
      BY <1>2, AccountStep, UserStep, PairStep, SessionStep
         DEF SInv, TInv
    <2> QED BY <2>1, <2>2, <2>3, <2>4 DEF SInv
  <1> QED BY <1>1, <1>2

(* A code serves the client it was issued to, who is a browser login's if  *)
(* and only if its user is a browser's.                                    *)
LEMMA BearersBelong ==
    ASSUME StateOK, DanceInv, AccountInv, UserInv
    PROVE  BearerProvenance
  <1> SUFFICES ASSUME NEW t \in tokenLog
               PROVE  /\ \E x \in codeLog :
                             /\ x.code = t.code
                             /\ x.client = t.client
                             /\ x.user = t.user
                             /\ Dance(x, t.verifier)
                             /\ ActsFor(t.user, grants[x.grant].account)
                      /\ t.user \in BrowserIds
                             <=> \E l \in started : l.client = t.client
    BY DEF BearerProvenance
  <1>1. PICK x \in codeLog :
            /\ x.code = t.code /\ x.client = t.client /\ x.user = t.user
            /\ Dance(x, t.verifier)
            /\ OwnAccount(x.user, grants[x.grant].account)
    BY DEF DanceInv, Bearers, Issued
  <1>2. Fits(t.user, t.client)
    BY <1>1 DEF AccountInv, CodesFit
  <1>3. t.user \in BrowserIds <=> \E l \in started : l.client = t.client
    BY <1>2 DEF Fits, NeverLogin, OfLogin
  <1>4. t.user \in UserIds
    BY DEF StateOK, LogsOK
  <1>5. ActsFor(t.user, grants[x.grant].account)
    <2>1. CASE t.user \in BrowserIds
      BY <1>1, <2>1 DEF UserInv, CodeRecords, RecordOf, ActsFor
    <2>2. CASE t.user \notin BrowserIds
      BY <1>1, <1>4, <2>2 DEF UserIds, OwnAccount, ActsFor
    <2> QED BY <2>1, <2>2
  <1> QED BY <1>1, <1>3, <1>5

(* For any number of clients, requests, failures and restarts, whichever   *)
(* client id and redirect a request names: a bearer token is minted for    *)
(* the client that began the dance and holds its verifier, and acts for    *)
(* the account that consented in that dance; one minted through a browser  *)
(* login's client id acts with the record of one sign-in, any other with   *)
(* that of the account and site (authorize, callback, complete and token   *)
(* of server.go).                                                          *)
THEOREM ProvenanceSafe == Spec => []BearerProvenance
  <1>1. SInv => BearerProvenance
    BY BearersBelong DEF SInv, TInv
  <1> QED BY <1>1, SInvInductive, PTL DEF Spec

(* One user record, one code, hence one session. *)
LEMMA SignedAlone ==
    ASSUME LoginInv, UserInv, SessionInv
    PROVE  SessionProvenance
  <1>1. ASSUME NEW s \in sessionLog
        PROVE  /\ \E x \in codeLog :
                      /\ x.code = s.code
                      /\ x.user = s.user
                      /\ x.client = s.client
                      /\ Dance(x, s.login)
               /\ [login |-> s.login, client |-> s.client] \in started
               /\ s.user \in BrowserIds
    BY <1>1 DEF SessionInv, Signed, Issued
  <1>2. ASSUME NEW s \in sessionLog, NEW t \in sessionLog, t.user = s.user
        PROVE  t = s
    <2>1. PICK x \in codeLog : x.code = s.code /\ x.user = s.user
      BY <1>1
    <2>2. PICK y \in codeLog : y.code = t.code /\ y.user = t.user
      BY <1>1
    <2>3. x.user \in BrowserIds /\ x.user = y.user
      BY <1>1, <1>2, <2>1, <2>2
    <2>4. UserOfOneCode
      BY DEF UserInv
    <2>5. x = y
      BY <2>3, <2>4 DEF UserOfOneCode
    <2> QED BY <2>1, <2>2, <2>5 DEF LoginInv, BrowserLoginOnce
  <1> QED BY <1>1, <1>2 DEF SessionProvenance

(* The session that /web/callback opens (web_auth.go, webCallback) is the  *)
(* end of the dance its own /web/login began, and its user record is one   *)
(* that no other session and no MCP client is given (server.go, complete). *)
THEOREM SessionsBelong == Spec => []SessionProvenance
  <1>1. SInv => SessionProvenance
    BY SignedAlone DEF SInv
  <1> QED BY <1>1, SInvInductive, PTL DEF Spec

(* A browser login never writes the record of an account and site, whose   *)
(* bearer tokens MCP clients hold (server.go, complete): a client that is  *)
(* no browser login's when complete reads it never was one.                *)
THEOREM IsolationSafe == Spec => []BrowserIsolation
  <1>1. SInv => BrowserIsolation
    BY DEF SInv, AccountInv, AccountRecords, GrantedApart, NeverLogin,
           BrowserIsolation
  <1> QED BY <1>1, SInvInductive, PTL DEF Spec

-----------------------------------------------------------------------------
(***************************************************************************)
(* Proof that a code is gone once it was redeemed (CodeGone), that no code *)
(* or token outlives its user record and a session hardly does             *)
(* (UsersOutlive), and that a form and a code serve once when requests do  *)
(* not overlap (FormServesOnce, NothingServesTwice).  The steps that       *)
(* matter to the three are the ones of Aimed; every other step leaves      *)
(* aside what they are about.                                              *)
(***************************************************************************)

SpendLabels == FormLabels \union TokenLabels \union SessionLabels

Aside ==
    /\ UNCHANGED <<clock, codeLog, tokenLog, sessionLog, kept>>
    /\ drawn \subseteq drawn'
    /\ faults' \in Nat /\ faults <= faults'
    /\ \A a \in AtlCodes : grants[a] # None => grants'[a] = grants[a]
    /\ LeavesOut(SpendLabels)
    /\ \A k \in Key :
           Prefix(k) \in {"oauth:code", "mcp:token", "mcp:user"} =>
               store'[k] = store[k]
    /\ \A k \in Key : Prefix(k) = "web:session" =>
           store'[k] \in {store[k], Absent}

Aimed ==
    \/ \E x \in tokenLog : revoke(x.token) /\ UNCHANGED began
    \/ \E r \in Requests :
           /\ Timed(r)
           /\ \/ \E s \in States, site \in Sites : complete(r, s, site)
              \/ completeDelete(r)
              \/ completeClient(r)
              \/ completeUser(r)
              \/ \E c \in Codes : completeCode(r, c)
              \/ \E c \in Codes, client \in ClientIds, uri \in Redirects,
                    v \in Verifiers : token(r, c, client, uri, v)
              \/ tokenDelete(r)
              \/ \E t \in Tokens : tokenPut(r, t)
              \/ webCallbackCode(r)
              \/ webCallbackTake(r)
              \/ \E s \in Sessions : webCallbackSession(r, s)
    \/ Tick

AsideKeys ==
    /\ \A k \in Key :
           Prefix(k) \in {"oauth:code", "mcp:token", "mcp:user"} =>
               store'[k] = store[k]
    /\ \A k \in Key : Prefix(k) = "web:session" =>
           store'[k] \in {store[k], Absent}

LEMMA AsidePut ==
    ASSUME StateOK, NEW k \in Key, NEW v, NEW ttl, Put(k, v, ttl),
           Prefix(k) \notin {"oauth:code", "mcp:token", "mcp:user",
                             "web:session"}
    PROVE  AsideKeys
  BY PutEffect DEF AsideKeys, StateOK

LEMMA AsideDelete ==
    ASSUME StateOK, NEW k \in Key, Delete(k),
           Prefix(k) \notin {"oauth:code", "mcp:token", "mcp:user"}
    PROVE  AsideKeys
  BY DeleteEffect DEF AsideKeys, StateOK

LEMMA SpendLabelsAre ==
    SpendLabels = {"complete.delete", "complete.client", "complete.user",
                   "complete.code", "token.delete", "token.put",
                   "webcallback.take", "webcallback.session"}
  BY DEF SpendLabels, FormLabels, TokenLabels, SessionLabels

LEMMA AsideMove ==
    ASSUME StateOK, NEW r \in Requests
    PROVE  /\ Respond(r) => LeavesOut(SpendLabels)
           /\ \A h : Continue(r, h) /\ h.at \notin SpendLabels
                  => LeavesOut(SpendLabels)
           /\ \A label : /\ label \notin SpendLabels
                         /\ Continue(r, [req[r] EXCEPT !.at = label])
                  => LeavesOut(SpendLabels)
  BY ContinueLeavesOut, MoveLeavesOut, SpendLabelsAre
     DEF Respond, Idle, StateOK

(* What lies aside of a step that no lifetime depends on. *)
AsideLogs ==
    /\ UNCHANGED <<clock, codeLog, tokenLog, sessionLog, kept>>
    /\ drawn \subseteq drawn'
    /\ faults' \in Nat /\ faults <= faults'
    /\ \A a \in AtlCodes : grants[a] # None => grants'[a] = grants[a]

LEMMA AsideParts ==
    ASSUME AsideLogs, AsideKeys, LeavesOut(SpendLabels)
    PROVE  Aside
  BY DEF AsideLogs, AsideKeys, Aside

LEMMA AsideRegister ==
    ASSUME StateOK, NEW c \in ClientIds, NEW uris \in SUBSET Redirects,
           register(c, uris)
    PROVE  Aside
  <1>1. AsideKeys
    BY AsidePut, KeyInKey, KeyPrefix DEF register
  <1>2. AsideLogs
    BY DEF register, randomToken, external, logs, StateOK, AsideLogs
  <1>3. LeavesOut(SpendLabels)
    BY DEF register, LeavesOut
  <1> QED BY <1>1, <1>2, <1>3, AsideParts

LEMMA AsideAuthorize ==
    ASSUME StateOK, NEW r \in Requests
    PROVE  /\ \A a \in AuthorizationRequest : authorize(r, a) => Aside
           /\ \A s \in States : authorizePut(r, s) => Aside
  <1>1. ASSUME NEW a \in AuthorizationRequest, authorize(r, a)
        PROVE  Aside
    <2>1. AsideKeys
      BY <1>1 DEF authorize, AsideKeys
    <2>2. AsideLogs
      BY <1>1 DEF authorize, external, logs, StateOK, AsideLogs
    <2>3. LeavesOut(SpendLabels)
      BY <1>1, AsideMove, SpendLabelsAre DEF authorize
    <2> QED BY <2>1, <2>2, <2>3, AsideParts
  <1>2. ASSUME NEW s \in States, authorizePut(r, s)
        PROVE  Aside
    <2>1. AsideKeys
      BY <1>2, AsidePut, KeyInKey, KeyPrefix DEF authorizePut
    <2>2. AsideLogs
      BY <1>2 DEF authorizePut, randomToken, external, StateOK, AsideLogs
    <2>3. LeavesOut(SpendLabels)
      BY <1>2, AsideMove DEF authorizePut
    <2> QED BY <2>1, <2>2, <2>3, AsideParts
  <1> QED BY <1>1, <1>2

LEMMA AsideCallback ==
    ASSUME StateOK, NEW r \in Requests
    PROVE  /\ \A s \in States, code \in AtlCodes \union {None} :
                  callback(r, s, code) => Aside
           /\ callbackDelete(r) => Aside
           /\ \A sites \in SUBSET Sites : exchangeAtlassian(r, sites) => Aside
           /\ callbackPut(r) => Aside
  <1>1. ASSUME NEW s \in States, NEW code \in AtlCodes \union {None},
               callback(r, s, code)
        PROVE  Aside
    <2>1. AsideKeys
      BY <1>1 DEF callback, AsideKeys
    <2>2. AsideLogs
      BY <1>1, NoneAssumption
         DEF callback, Consent, logs, StateOK, AsideLogs
    <2>3. LeavesOut(SpendLabels)
      BY <1>1, AsideMove, SpendLabelsAre DEF callback
    <2> QED BY <2>1, <2>2, <2>3, AsideParts
  <1>2. ASSUME callbackDelete(r)
        PROVE  Aside
    <2>1. StateKey(req[r].state) \in Key
      BY <1>2, HandlerTyped, KeyInKey DEF callbackDelete, At, CallbackLabels
    <2>2. AsideKeys
      BY <1>2, <2>1, AsideDelete, KeyPrefix DEF callbackDelete, AsideKeys
    <2>3. AsideLogs
      BY <1>2 DEF callbackDelete, Fault, external, logs, StateOK, AsideLogs
    <2>4. LeavesOut(SpendLabels)
      BY <1>2, AsideMove, SpendLabelsAre DEF callbackDelete
    <2> QED BY <2>2, <2>3, <2>4, AsideParts
  <1>3. ASSUME NEW sites \in SUBSET Sites, exchangeAtlassian(r, sites)
        PROVE  Aside
    <2>1. AsideKeys
      BY <1>3 DEF exchangeAtlassian, AsideKeys
    <2>2. AsideLogs
      BY <1>3 DEF exchangeAtlassian, logs, StateOK, AsideLogs
    <2>3. LeavesOut(SpendLabels)
      BY <1>3, AsideMove, SpendLabelsAre DEF exchangeAtlassian
    <2> QED BY <2>1, <2>2, <2>3, AsideParts
  <1>4. ASSUME callbackPut(r)
        PROVE  Aside
    <2>1. PendingKey(req[r].state) \in Key
      BY <1>4, HandlerTyped, KeyInKey DEF callbackPut, At, CallbackLabels
    <2>2. AsideKeys
      BY <1>4, <2>1, AsidePut, KeyPrefix DEF callbackPut
    <2>3. AsideLogs
      BY <1>4 DEF callbackPut, external, logs, StateOK, AsideLogs
    <2>4. LeavesOut(SpendLabels)
      BY <1>4, AsideMove DEF callbackPut
    <2> QED BY <2>2, <2>3, <2>4, AsideParts
  <1> QED BY <1>1, <1>2, <1>3, <1>4

LEMMA AsideBrowser ==
    ASSUME StateOK, NEW r \in Requests
    PROVE  /\ \A f \in Logins, c \in ClientIds : webLogin(r, f, c) => Aside
           /\ webLoginClient(r) => Aside
           /\ \A f \in Logins, c \in Codes : webCallback(r, f, c) => Aside
  <1>1. ASSUME NEW f \in Logins, NEW c \in ClientIds, webLogin(r, f, c)
        PROVE  Aside
    <2>1. AsideKeys
      BY <1>1, AsidePut, KeyInKey, KeyPrefix DEF webLogin
    <2>2. AsideLogs
      BY <1>1 DEF webLogin, external, logs, StateOK, AsideLogs
    <2>3. LeavesOut(SpendLabels)
      BY <1>1, AsideMove, SpendLabelsAre DEF webLogin
    <2> QED BY <2>1, <2>2, <2>3, AsideParts
  <1>2. ASSUME webLoginClient(r)
        PROVE  Aside
    <2>1. ClientKey(req[r].client) \in Key
      BY <1>2, ClientTyped, KeyInKey DEF webLoginClient
    <2>2. AsideKeys
      BY <1>2, <2>1, AsidePut, KeyPrefix DEF webLoginClient
    <2>3. AsideLogs
      BY <1>2 DEF webLoginClient, external, StateOK, AsideLogs
    <2>4. LeavesOut(SpendLabels)
      BY <1>2, AsideMove DEF webLoginClient
    <2> QED BY <2>2, <2>3, <2>4, AsideParts
  <1>3. ASSUME NEW f \in Logins, NEW c \in Codes, webCallback(r, f, c)
        PROVE  Aside
    <2>1. AsideKeys
      BY <1>3, AsideDelete, KeyInKey, KeyPrefix DEF webCallback, Take
    <2>2. AsideLogs
      BY <1>3 DEF webCallback, external, logs, StateOK, AsideLogs
    <2>3. LeavesOut(SpendLabels)
      BY <1>3, AsideMove, SpendLabelsAre DEF webCallback
    <2> QED BY <2>1, <2>2, <2>3, AsideParts
  <1> QED BY <1>1, <1>2, <1>3

LEMMA AsideEnd ==
    ASSUME StateOK, NEW r \in Requests
    PROVE  /\ \A s \in Sessions, x \in Sessions : webLogout(r, s, x) => Aside
           /\ webLogoutUser(r) => Aside
           /\ webLogoutDelete(r) => Aside
           /\ Stop(r) => Aside
  <1>1. ASSUME NEW s \in Sessions, NEW x \in Sessions, webLogout(r, s, x)
        PROVE  Aside
    <2>1. LeavesOut(SpendLabels)
      BY <1>1, AsideMove, SpendLabelsAre DEF webLogout
    <2> QED BY <1>1, <2>1 DEF webLogout, external, logs, StateOK, Aside
  <1>2. ASSUME webLogoutUser(r)
        PROVE  Aside
    <2>1. LeavesOut(SpendLabels)
      BY <1>2, AsideMove, SpendLabelsAre DEF webLogoutUser
    <2> QED BY <1>2, <2>1 DEF webLogoutUser, external, logs, StateOK, Aside
  <1>3. ASSUME webLogoutDelete(r)
        PROVE  Aside
    <2>1. SessionKey(req[r].session) \in Key
      BY <1>3, KeyInKey DEF webLogoutDelete, At, StateOK, Handler, Idle
    <2>2. AsideKeys
      BY <1>3, <2>1, AsideDelete, KeyPrefix DEF webLogoutDelete
    <2>3. AsideLogs
      BY <1>3 DEF webLogoutDelete, external, logs, StateOK, AsideLogs
    <2>4. LeavesOut(SpendLabels)
      BY <1>3, AsideMove DEF webLogoutDelete
    <2> QED BY <2>2, <2>3, <2>4, AsideParts
  <1>4. ASSUME Stop(r)
        PROVE  Aside
    <2>1. LeavesOut(SpendLabels)
      BY <1>4, AsideMove DEF Stop
    <2> QED BY <1>4, <2>1 DEF Stop, Fault, external, logs, StateOK, Aside
  <1> QED BY <1>1, <1>2, <1>3, <1>4

LEMMA AimedOrAside ==
    ASSUME StateOK, [Next]_vars
    PROVE  Aimed \/ Aside
  <1>1. CASE UNCHANGED vars
    BY <1>1 DEF vars, StateOK, Aside, LeavesOut
  <1>2. CASE \E x \in tokenLog : revoke(x.token) /\ UNCHANGED began
    BY <1>2 DEF Aimed
  <1>3. /\ \A x \in codeLog : x.code \in Codes
        /\ \A l \in started : l.login \in Logins /\ l.client \in ClientIds
        /\ \A x \in sessionLog : x.session \in Sessions
    BY DEF StateOK, LogsOK
  <1>4. /\ \A c \in ClientIds : McpRequest(c) \subseteq AuthorizationRequest
        /\ \A l \in started : LoginRequest(l) \in AuthorizationRequest
    BY <1>3, TTLAssumption DEF McpRequest, LoginRequest, AuthorizationRequest
  <1>5. ASSUME NEW r \in Requests, Arrive(r), Timed(r)
        PROVE  Aimed \/ Aside
    <2>1. \/ \E a \in AuthorizationRequest : authorize(r, a)
          \/ \E s \in States, code \in AtlCodes \union {None} :
                 callback(r, s, code)
          \/ \E s \in States, site \in Sites : complete(r, s, site)
          \/ \E c \in Codes, client \in ClientIds, uri \in Redirects,
                v \in Verifiers : token(r, c, client, uri, v)
          \/ \E f \in Logins, c \in ClientIds : webLogin(r, f, c)
          \/ \E f \in Logins, c \in Codes : webCallback(r, f, c)
          \/ \E s \in Sessions, x \in Sessions : webLogout(r, s, x)
      BY <1>3, <1>4, <1>5, Zenon DEF Arrive
    <2>2. CASE \/ \E s \in States, site \in Sites : complete(r, s, site)
               \/ \E c \in Codes, client \in ClientIds, uri \in Redirects,
                     v \in Verifiers : token(r, c, client, uri, v)
      BY <1>5, <2>2, Zenon DEF Aimed
    <2> QED BY <2>1, <2>2, AsideAuthorize, AsideCallback, AsideBrowser,
               AsideEnd
  <1>6. ASSUME NEW r \in Requests, Proceed(r), Timed(r)
        PROVE  Aimed \/ Aside
    <2>1. CASE \/ \E s \in States : authorizePut(r, s)
               \/ callbackDelete(r)
               \/ \E sites \in SUBSET Sites : exchangeAtlassian(r, sites)
               \/ callbackPut(r)
               \/ webLoginClient(r)
               \/ webLogoutUser(r) \/ webLogoutDelete(r)
      BY <2>1, AsideAuthorize, AsideCallback, AsideBrowser, AsideEnd
    <2>2. CASE \/ completeDelete(r) \/ completeClient(r) \/ completeUser(r)
               \/ \E c \in Codes : completeCode(r, c)
               \/ tokenDelete(r)
               \/ \E t \in Tokens : tokenPut(r, t)
               \/ webCallbackCode(r) \/ webCallbackTake(r)
               \/ \E s \in Sessions : webCallbackSession(r, s)
      BY <1>6, <2>2, Zenon DEF Aimed
    <2> QED BY <1>6, <2>1, <2>2, Zenon DEF Proceed
  <1>7. CASE \E c \in ClientIds, uris \in Registrations :
                 register(c, uris) /\ UNCHANGED began
    <2>1. Registrations \subseteq SUBSET Redirects
      BY TTLAssumption
    <2> QED BY <1>7, <2>1, AsideRegister
  <1>8. CASE \E r \in Requests : Handle(r)
    BY <1>5, <1>6, <1>8, AsideEnd DEF Handle
  <1>9. CASE Tick
    BY <1>9 DEF Aimed
  <1> QED BY <1>1, <1>2, <1>7, <1>8, <1>9 DEF Next

-----------------------------------------------------------------------------
(* Codes.  One that a request is past deleting, or that gave a token or a  *)
(* session, is out of the store unless its Delete failed; it was drawn, so *)
(* that complete never writes it again.                                    *)

Held(c) ==
    \/ \E r \in Requests : /\ req[r].at \in TokenLabels \union SessionLabels
                           /\ req[r].code = c
    \/ \E x \in tokenLog \union sessionLog : x.code = c

Served(c) ==
    \/ \E r \in Requests : /\ req[r].at \in {"token.put",
                                             "webcallback.session"}
                           /\ req[r].code = c
    \/ \E x \in tokenLog \union sessionLog : x.code = c

GoneInv ==
    \A c \in Codes :
        /\ Held(c) => c \in drawn
        /\ Served(c) /\ Present(CodeKey(c)) => c \in kept

LEMMA GoneInit == Init => GoneInv
  BY DEF Init, GoneInv, Held, Served, Idle, TokenLabels, SessionLabels

LEMMA ServedIsHeld == \A c : Served(c) => Held(c)
  BY DEF Served, Held, TokenLabels, SessionLabels

LEMMA GoneFrame ==
    ASSUME GoneInv, drawn \subseteq drawn', kept \subseteq kept',
           \A c \in Codes :
               /\ Held(c)' => Held(c) \/ c \in drawn'
               /\ Served(c)' => \/ Served(c) \/ c \in kept'
                                \/ ~ Present(CodeKey(c))'
               /\ Present(CodeKey(c))' => Present(CodeKey(c)) \/ c \notin drawn
    PROVE  GoneInv'
  <1> SUFFICES ASSUME NEW c \in Codes
               PROVE  /\ Held(c)' => c \in drawn'
                      /\ Served(c)' /\ Present(CodeKey(c))' => c \in kept'
    BY DEF GoneInv, CodeKey
  <1>1. Held(c)' => c \in drawn'
    BY DEF GoneInv
  <1>2. ASSUME Served(c)', Present(CodeKey(c))', c \notin kept'
        PROVE  FALSE
    <2>1. Served(c) /\ c \in drawn
      BY <1>2, ServedIsHeld DEF GoneInv
    <2> QED BY <1>2, <2>1 DEF GoneInv
  <1> QED BY <1>1, <1>2

LEMMA GoneOutside ==
    ASSUME StateOK, GoneInv, UNCHANGED <<tokenLog, sessionLog>>,
           drawn \subseteq drawn', kept \subseteq kept',
           LeavesOut(TokenLabels \union SessionLabels), OldKeys("oauth:code")
    PROVE  GoneInv'
  <1>1. \A c \in Codes : (Held(c)' => Held(c)) /\ (Served(c)' => Served(c))
    BY DEF LeavesOut, Held, Served, TokenLabels, SessionLabels
  <1>2. \A c \in Codes : Present(CodeKey(c))' => Present(CodeKey(c))
    BY KeyInKey, KeyPrefix DEF OldKeys, Present
  <1> QED BY <1>1, <1>2, GoneFrame

LEMMA GoneCompleteCode ==
    ASSUME StateOK, GoneInv, NEW r \in Requests, NEW c \in Codes,
           completeCode(r, c)
    PROVE  GoneInv'
  <1>1. PICK v : Put(CodeKey(c), v, CodeTTL)
    BY DEF completeCode
  <1>2. /\ c \notin drawn /\ drawn \subseteq drawn'
        /\ UNCHANGED <<clock, tokenLog, sessionLog, kept>>
    BY DEF completeCode, randomToken
  <1>3. \A d \in Codes : Present(CodeKey(d))' =>
            Present(CodeKey(d)) \/ d \notin drawn
    <2>1. \A d \in Codes : CodeKey(d) \in Key
      BY KeyInKey
    <2>2. \A j \in Key : j # CodeKey(c) => store'[j] = store[j]
      BY <1>1, <2>1, PutEffect DEF StateOK
    <2>3. \A d \in Codes : d # c => CodeKey(d) # CodeKey(c)
      BY KeyInjective
    <2> QED BY <1>2, <2>1, <2>2, <2>3 DEF Present
  <1>4. Enters({"idle"})
    BY EntersIdle DEF completeCode
  <1>5. \A d \in Codes : (Held(d)' => Held(d)) /\ (Served(d)' => Served(d))
    BY <1>2, <1>4 DEF Enters, Held, Served, TokenLabels, SessionLabels
  <1> QED BY <1>2, <1>3, <1>5, GoneFrame

(* A handler takes up code c, which is in the store. *)
LEMMA GoneTakesUp ==
    ASSUME StateOK, LoginInv, GoneInv, NEW r \in Requests, NEW c \in Codes,
           Present(CodeKey(c)), req'[r].code = c,
           req'[r].at \in {"token.delete", "webcallback.take"},
           \A q \in Requests : q # r => req'[q] = req[q],
           UNCHANGED <<store, clock, drawn, tokenLog, sessionLog, kept>>
    PROVE  GoneInv'
  <1>1. c \in drawn
    BY DEF LoginInv, CodeInStore
  <1>2. \A d \in Codes : Held(d)' => Held(d) \/ d = c
    BY DEF Held
  <1>3. \A d \in Codes : Served(d)' => Served(d)
    BY DEF Served
  <1>4. \A d \in Codes : Present(CodeKey(d))' => Present(CodeKey(d))
    BY DEF Present
  <1> QED BY <1>1, <1>2, <1>3, <1>4, GoneFrame

(* A handler that holds code c has deleted it, or failed to. *)
LEMMA GoneDeletes ==
    ASSUME StateOK, GoneInv, NEW r \in Requests, NEW c \in Codes, Held(c),
           \A q \in Requests : q # r => req'[q] = req[q],
           \/ req'[r].at = "idle"
           \/ req'[r].at \in {"token.put", "webcallback.session"}
              /\ req'[r].code = c,
           UNCHANGED <<clock, drawn, tokenLog, sessionLog>>,
           \/ Delete(CodeKey(c)) /\ UNCHANGED kept
           \/ UNCHANGED store /\ kept' = kept \union {c}
           \/ UNCHANGED <<store, kept>> /\ req'[r].at = "idle"
    PROVE  GoneInv'
  <1>1. CodeKey(c) \in Key
    BY KeyInKey
  <1>2. \A d \in Codes : Present(CodeKey(d))' => Present(CodeKey(d))
    BY <1>1, DeleteOld DEF OldCodes, StateOK, Present
  <1>3. \/ ~ Present(CodeKey(c))' \/ c \in kept' \/ req'[r].at = "idle"
    BY <1>1, DeleteOld DEF StateOK
  <1>4. \A d \in Codes : Held(d)' => Held(d) \/ d = c
    BY DEF Held, TokenLabels, SessionLabels
  <1>5. \A d \in Codes :
            Served(d)' => Served(d) \/ (d = c /\ req'[r].at # "idle")
    BY DEF Served
  <1>6. c \in drawn
    BY DEF GoneInv
  <1> QED BY <1>2, <1>3, <1>4, <1>5, <1>6, GoneFrame

(* A handler that was past deleting its code logs what it gave for it. *)
LEMMA GoneLogs ==
    ASSUME StateOK, GoneInv, NEW r \in Requests, NEW c \in Codes, Served(c),
           Enters({"idle"}), drawn \subseteq drawn', UNCHANGED kept,
           OldKeys("oauth:code"),
           \A x \in tokenLog' \union sessionLog' :
               x \in tokenLog \union sessionLog \/ x.code = c
    PROVE  GoneInv'
  <1>1. \A d \in Codes : Held(d)' => Held(d)
    BY ServedIsHeld DEF Held, Enters, TokenLabels, SessionLabels
  <1>2. \A d \in Codes : Served(d)' => Served(d)
    BY DEF Served, Enters
  <1>3. \A d \in Codes : Present(CodeKey(d))' => Present(CodeKey(d))
    BY KeyInKey, KeyPrefix DEF OldKeys, Present
  <1> QED BY <1>1, <1>2, <1>3, GoneFrame

LEMMA GoneStep ==
    ASSUME StateOK, LoginInv, GoneInv, [Next]_vars
    PROVE  GoneInv'
  <1>1. Aside => GoneInv'
    <2> SUFFICES ASSUME Aside
                 PROVE  GoneInv'
      OBVIOUS
    <2>1. /\ LeavesOut(TokenLabels \union SessionLabels)
          /\ OldKeys("oauth:code")
      BY DEF Aside, LeavesOut, SpendLabels, OldKeys
    <2> QED BY <2>1, GoneOutside DEF Aside
  <1>2. ASSUME NEW x \in tokenLog, revoke(x.token)
        PROVE  GoneInv'
    <2>1. TokenKey(x.token) \in Key
      BY KeyInKey DEF StateOK, LogsOK
    <2>2. OldKeys("oauth:code")
      BY <1>2, <2>1, DeleteOldKeys, UnchangedOldKeys DEF revoke, StateOK
    <2> QED BY <1>2, <2>2, GoneOutside DEF revoke, LeavesOut, logs
  <1>3. ASSUME NEW r \in Requests
        PROVE  /\ \A s \in States, site \in Sites :
                      complete(r, s, site) => GoneInv'
               /\ completeDelete(r) => GoneInv'
               /\ completeClient(r) => GoneInv'
               /\ completeUser(r) => GoneInv'
    <2>1. ASSUME NEW s \in States, NEW site \in Sites, complete(r, s, site)
          PROVE  GoneInv'
      <3>1. LeavesOut(TokenLabels \union SessionLabels)
        BY <2>1, ContinueLeavesOut
           DEF complete, TokenLabels, SessionLabels, StateOK
      <3> QED BY <2>1, <3>1, UnchangedOldKeys, GoneOutside DEF complete, logs
    <2>2. ASSUME completeDelete(r)
          PROVE  GoneInv'
      <3>1. LeavesOut(TokenLabels \union SessionLabels)
        BY <2>2, MoveLeavesOut DEF completeDelete, TokenLabels, SessionLabels
      <3>2. PendingKey(req[r].state) \in Key
        BY <2>2, HandlerTyped, KeyInKey DEF completeDelete, At, FormLabels
      <3>3. OldKeys("oauth:code")
        BY <2>2, <3>2, DeleteOldKeys DEF completeDelete, StateOK
      <3> QED BY <2>2, <3>1, <3>3, GoneOutside DEF completeDelete, logs
    <2>3. ASSUME completeClient(r)
          PROVE  GoneInv'
      <3>1. Touches({"idle", "complete.user"}, {}, {})
        BY <2>3, TouchCompleteClient
      <3>2. LeavesOut(TokenLabels \union SessionLabels)
        BY <3>1 DEF Touches, Enters, LeavesOut, TokenLabels, SessionLabels
      <3> QED BY <2>3, <3>1, <3>2, GoneOutside
              DEF completeClient, Touches, Writes, Grows, logs
    <2>4. ASSUME completeUser(r)
          PROVE  GoneInv'
      <3>1. Touches({"complete.code"}, {"mcp:user"}, {})
        BY <2>4, TouchCompleteUser
      <3>2. LeavesOut(TokenLabels \union SessionLabels)
        BY <3>1 DEF Touches, Enters, LeavesOut, TokenLabels, SessionLabels
      <3> QED BY <2>4, <3>1, <3>2, GoneOutside
              DEF completeUser, Touches, Writes, Grows, logs
    <2> QED BY <2>1, <2>2, <2>3, <2>4
  <1>4. ASSUME NEW r \in Requests, NEW c \in Codes, NEW client \in ClientIds,
               NEW uri \in Redirects, NEW v \in Verifiers,
               token(r, c, client, uri, v)
        PROVE  GoneInv'
    <2>1. PICK u : Continue(r, [at |-> "token.delete", code |-> c,
                                client |-> client, verifier |-> v,
                                user |-> u])
      BY <1>4 DEF token
    <2>2. /\ req'[r] = [at |-> "token.delete", code |-> c,
                        client |-> client, verifier |-> v, user |-> u]
          /\ \A q \in Requests : q # r => req'[q] = req[q]
      BY <2>1, ContinueEffect DEF StateOK
    <2>3. req'[r].at = "token.delete" /\ req'[r].code = c
      BY <2>2
    <2> QED BY <1>4, <2>2, <2>3, GoneTakesUp DEF token, logs
  <1>5. ASSUME NEW r \in Requests, tokenDelete(r)
        PROVE  GoneInv'
    <2>1. PICK h : /\ h = req[r]
                   /\ h \in [at : {"token.delete"}, code : Codes,
                             client : ClientIds, verifier : Verifiers,
                             user : UserIds]
      BY <1>5 DEF StateOK, tokenDelete, At, Handler, Idle
    <2>2. PICK c \in Codes : c = h.code
      BY <2>1
    <2>3. Held(c)
      BY <2>1, <2>2 DEF Held, TokenLabels
    <2>4. /\ req'[r].at = "token.put" /\ req'[r].code = c
          /\ \A q \in Requests : q # r => req'[q] = req[q]
      BY <1>5, <2>1, <2>2, ContinueEffect DEF tokenDelete, StateOK
    <2>5. /\ UNCHANGED <<clock, drawn, tokenLog, sessionLog>>
          /\ \/ Delete(CodeKey(c)) /\ UNCHANGED kept
             \/ UNCHANGED store /\ kept' = kept \union {c}
      BY <1>5, <2>1, <2>2 DEF tokenDelete
    <2> QED BY <2>3, <2>4, <2>5, GoneDeletes
  <1>6. ASSUME NEW r \in Requests, NEW t \in Tokens, tokenPut(r, t)
        PROVE  GoneInv'
    <2>1. PICK c \in Codes : c = req[r].code /\ req[r].at = "token.put"
      BY <1>6, HandlerTyped DEF tokenPut, At, TokenLabels
    <2>2. Served(c)
      BY <2>1 DEF Served
    <2>3. PICK x : /\ x = [token |-> t, code |-> c, client |-> req[r].client,
                           verifier |-> req[r].verifier, user |-> req[r].user]
                   /\ tokenLog' = tokenLog \union {x}
      BY <1>6, <2>1 DEF tokenPut
    <2>4. TokenKey(t) \in Key
      BY KeyInKey
    <2>5. OldKeys("oauth:code")
      BY <1>6, <2>4, PutOldKeys, KeyPrefix DEF tokenPut, StateOK
    <2>6. Enters({"idle"})
      BY <1>6, EntersIdle DEF tokenPut
    <2>7. x.code = c
      BY <2>3
    <2> QED BY <1>6, <2>2, <2>3, <2>5, <2>6, <2>7, GoneLogs
            DEF tokenPut, randomToken
  <1>7. ASSUME NEW r \in Requests, webCallbackCode(r)
        PROVE  GoneInv'
    <2>1. PICK c \in Codes : c = req[r].code
      BY <1>7 DEF webCallbackCode, At, StateOK, Handler, Idle
    <2>2. PICK v : v = Value(CodeKey(c))
      OBVIOUS
    <2>3. \/ Respond(r)
          \/ /\ Present(CodeKey(c))
             /\ Continue(r, [at |-> "webcallback.take", code |-> c,
                             login |-> req[r].flow.verifier, auth |-> v])
      BY <1>7, <2>1, <2>2 DEF webCallbackCode
    <2>4. CASE Respond(r)
      <3>1. LeavesOut(TokenLabels \union SessionLabels)
        BY <2>4, ContinueLeavesOut
           DEF Respond, Idle, TokenLabels, SessionLabels, StateOK
      <3> QED BY <1>7, <3>1, UnchangedOldKeys, GoneOutside
              DEF webCallbackCode, logs
    <2>5. CASE /\ Present(CodeKey(c))
               /\ Continue(r, [at |-> "webcallback.take", code |-> c,
                               login |-> req[r].flow.verifier, auth |-> v])
      <3>1. /\ req'[r] = [at |-> "webcallback.take", code |-> c,
                          login |-> req[r].flow.verifier, auth |-> v]
            /\ \A q \in Requests : q # r => req'[q] = req[q]
        BY <2>5, ContinueEffect DEF StateOK
      <3>2. req'[r].at = "webcallback.take" /\ req'[r].code = c
        BY <3>1
      <3> QED BY <1>7, <2>5, <3>1, <3>2, GoneTakesUp DEF webCallbackCode, logs
    <2> QED BY <2>3, <2>4, <2>5
  <1>8. ASSUME NEW r \in Requests, webCallbackTake(r)
        PROVE  GoneInv'
    <2>1. PICK h : /\ h = req[r]
                   /\ h \in [at : {"webcallback.take"}, code : Codes,
                             login : Logins, auth : Auth]
      BY <1>8 DEF webCallbackTake, At, StateOK, Handler, Idle
    <2>2. PICK c \in Codes : c = h.code
      BY <2>1
    <2>3. Held(c)
      BY <2>1, <2>2 DEF Held, SessionLabels
    <2>4. /\ UNCHANGED <<clock, drawn, tokenLog, sessionLog, kept>>
          /\ \/ /\ Delete(CodeKey(c))
                /\ \/ Continue(r, [h EXCEPT !.at = "webcallback.session"])
                   \/ Respond(r)
             \/ UNCHANGED store /\ Respond(r)
      BY <1>8, <2>1, <2>2 DEF webCallbackTake, Take, logs
    <2>5. /\ \A q \in Requests : q # r => req'[q] = req[q]
          /\ Respond(r) => req'[r].at = "idle"
          /\ Continue(r, [h EXCEPT !.at = "webcallback.session"]) =>
                 /\ req'[r].at = "webcallback.session"
                 /\ req'[r].code = c
      BY <2>1, <2>2, <2>4, ContinueEffect DEF Respond, Idle, StateOK
    <2> QED BY <2>3, <2>4, <2>5, GoneDeletes
  <1>9. ASSUME NEW r \in Requests, NEW s \in Sessions,
               webCallbackSession(r, s)
        PROVE  GoneInv'
    <2>1. PICK c \in Codes :
              c = req[r].code /\ req[r].at = "webcallback.session"
      BY <1>9 DEF webCallbackSession, At, StateOK, Handler, Idle
    <2>2. Served(c)
      BY <2>1 DEF Served
    <2>3. PICK x : /\ x = [session |-> s, login |-> req[r].login, code |-> c,
                           client |-> req[r].auth.client,
                           user |-> req[r].auth.user]
                   /\ sessionLog' = sessionLog \union {x}
      BY <1>9, <2>1 DEF webCallbackSession
    <2>4. OldKeys("oauth:code")
      BY <1>9, TouchWebCallbackSession DEF Touches, Writes
    <2>5. Enters({"idle"})
      BY <1>9, EntersIdle DEF webCallbackSession
    <2>6. x.code = c
      BY <2>3
    <2> QED BY <1>9, <2>2, <2>3, <2>4, <2>5, <2>6, GoneLogs
            DEF webCallbackSession, randomToken
  <1>10. Tick => GoneInv'
    BY ElapseOldKeys, GoneOutside DEF Tick, logs, LeavesOut, StateOK
  <1>11. Aimed => GoneInv'
    BY <1>2, <1>3, <1>4, <1>5, <1>6, <1>7, <1>8, <1>9, <1>10,
       GoneCompleteCode DEF Aimed
  <1> QED BY <1>1, <1>11, AimedOrAside

(* A code that gave a bearer token or a browser session is out of the      *)
(* store for good, unless the Delete of token, whose result the handler    *)
(* ignores, failed (server.go, token; web_auth.go, webCallback), however   *)
(* many requests exchange codes at once.                                   *)
THEOREM CodeGone == Spec => []CodeGoneOnceRedeemed
  <1>1. Init => SInv /\ GoneInv
    BY SInvInductive, GoneInit
  <1>2. SInv /\ GoneInv /\ [Next]_vars => (SInv /\ GoneInv)'
    BY SInvInductive, GoneStep DEF SInv, TInv
  <1>3. SInv /\ GoneInv => CodeGoneOnceRedeemed
    BY DEF SInv, TInv, StateOK, LogsOK, GoneInv, Served, CodeGoneOnceRedeemed
  <1> QED BY <1>1, <1>2, <1>3, PTL DEF Spec

-----------------------------------------------------------------------------
(* Time.  A request is in flight no longer than MaxDelay.                  *)

TimeInv ==
    /\ began \in [Requests -> Nat]
    /\ \A r \in Requests : ~ At(r, "idle") =>
           began[r] <= clock /\ clock <= began[r] + MaxDelay

(* A request that stays in flight keeps the time it arrived at. *)
TimeKept ==
    \A q \in Requests :
        ~ At(q, "idle") /\ req'[q] # Idle => began'[q] = began[q]

Moves(r) == \E h : Continue(r, h)

LEMMA OneHandler ==
    ASSUME NEW r \in Requests, Handle(r)
    PROVE  Moves(r)
  <1>1. Arrive(r) => Moves(r)
    <2>1. /\ \A a : authorize(r, a) => Moves(r)
          /\ \A s, code : callback(r, s, code) => Moves(r)
          /\ \A s, site : complete(r, s, site) => Moves(r)
      BY DEF authorize, callback, complete, Moves
    <2>2. /\ \A c, client, uri, v : token(r, c, client, uri, v) => Moves(r)
          /\ \A f, c : webLogin(r, f, c) => Moves(r)
          /\ \A f, c : webCallback(r, f, c) => Moves(r)
          /\ \A s, x : webLogout(r, s, x) => Moves(r)
      BY DEF token, webLogin, webCallback, webLogout, Respond, Moves
    <2> QED BY <2>1, <2>2 DEF Arrive
  <1>2. Proceed(r) => Moves(r)
    <2>1. /\ \A s : authorizePut(r, s) => Moves(r)
          /\ callbackDelete(r) => Moves(r)
          /\ \A sites : exchangeAtlassian(r, sites) => Moves(r)
          /\ callbackPut(r) => Moves(r)
      BY DEF authorizePut, callbackDelete, exchangeAtlassian, callbackPut,
             Respond, Moves
    <2>2. /\ completeDelete(r) => Moves(r)
          /\ completeClient(r) => Moves(r)
          /\ completeUser(r) => Moves(r)
          /\ \A c : completeCode(r, c) => Moves(r)
      BY DEF completeDelete, completeClient, completeUser, completeCode,
             Respond, Moves
    <2>3. /\ tokenDelete(r) => Moves(r)
          /\ \A t : tokenPut(r, t) => Moves(r)
          /\ webLoginClient(r) => Moves(r)
          /\ webCallbackCode(r) => Moves(r)
      BY DEF tokenDelete, tokenPut, webLoginClient, webCallbackCode, Respond,
             Moves
    <2>4. /\ webCallbackTake(r) => Moves(r)
          /\ \A s : webCallbackSession(r, s) => Moves(r)
          /\ webLogoutUser(r) => Moves(r)
          /\ webLogoutDelete(r) => Moves(r)
      BY DEF webCallbackTake, webCallbackSession, webLogoutUser,
             webLogoutDelete, Respond, Moves
    <2> QED BY <2>1, <2>2, <2>3, <2>4 DEF Proceed
  <1>3. Stop(r) => Moves(r)
    BY DEF Stop, Respond, Moves
  <1> QED BY <1>1, <1>2, <1>3 DEF Handle

LEMMA ClockKept ==
    ASSUME NEW r \in Requests, Handle(r)
    PROVE  UNCHANGED clock
  <1>1. Arrive(r) => UNCHANGED clock
    BY DEF Arrive, authorize, callback, complete, token, webLogin,
           webCallback, webLogout
  <1>2. Proceed(r) => UNCHANGED clock
    BY DEF Proceed, authorizePut, callbackDelete, exchangeAtlassian,
           callbackPut, completeDelete, completeClient, completeUser,
           completeCode, tokenDelete, tokenPut, webLoginClient,
           webCallbackCode, webCallbackTake, webCallbackSession,
           webLogoutUser, webLogoutDelete
  <1> QED BY <1>1, <1>2 DEF Handle, Stop

LEMMA TimeInit == Init => TimeInv
  BY DEF Init, TimeInv, At, Idle

LEMMA TimeStep ==
    ASSUME StateOK, TimeInv, [Next]_vars
    PROVE  TimeInv' /\ TimeKept
  <1>1. /\ MaxDelay \in Nat /\ clock \in Nat
        /\ req \in [Requests -> Handler] /\ began \in [Requests -> Nat]
    BY TTLAssumption DEF StateOK, TimeInv
  <1>2. ASSUME NEW r \in Requests, Handle(r)
        PROVE  TimeInv' /\ TimeKept
    <2>1. PICK h : Continue(r, h)
      BY <1>2, OneHandler DEF Moves
    <2>2. /\ req'[r] = h
          /\ \A q \in Requests : q # r => req'[q] = req[q]
      BY <1>1, <2>1, ContinueEffect
    <2>3. /\ began' \in [Requests -> Nat]
          /\ \A q \in Requests : q # r => began'[q] = began[q]
          /\ req'[r] # Idle =>
                 began'[r] = IF At(r, "idle") THEN clock ELSE began[r]
      BY <1>1, <1>2 DEF Handle, Timed
    <2>4. clock' = clock
      BY <1>2, ClockKept
    <2>5. \A q \in Requests : ~ At(q, "idle")' =>
              began'[q] <= clock' /\ clock' <= began'[q] + MaxDelay
      <3> SUFFICES ASSUME NEW q \in Requests, ~ At(q, "idle")'
                   PROVE  began'[q] <= clock' /\ clock' <= began'[q] + MaxDelay
        OBVIOUS
      <3>1. CASE q # r
        BY <2>2, <2>3, <2>4, <3>1 DEF TimeInv, At
      <3>2. CASE q = r
        <4>1. req'[r] # Idle
          BY <3>2 DEF At, Idle
        <4> QED BY <1>1, <2>3, <2>4, <3>2, <4>1 DEF TimeInv
      <3> QED BY <3>1, <3>2
    <2>6. TimeKept
      BY <2>3 DEF TimeKept
    <2> QED BY <2>3, <2>5, <2>6 DEF TimeInv, At
  <1>3. CASE Tick
    <2>1. UNCHANGED <<req, began>> /\ clock' = clock + 1
      BY <1>3 DEF Tick, Elapse
    <2>2. \A q \in Requests : ~ At(q, "idle") => clock < began[q] + MaxDelay
      BY <1>3 DEF Tick
    <2>3. \A q \in Requests : began[q] \in Nat
      BY <1>1
    <2>4. \A q \in Requests : ~ At(q, "idle")' =>
              began'[q] <= clock' /\ clock' <= began'[q] + MaxDelay
      BY <1>1, <2>1, <2>2, <2>3 DEF TimeInv, At
    <2> QED BY <1>1, <2>1, <2>4 DEF TimeInv, TimeKept, At
  <1>4. ASSUME UNCHANGED <<req, began, clock>>
        PROVE  TimeInv' /\ TimeKept
    BY <1>4 DEF TimeInv, TimeKept, At
  <1>5. /\ \A c, uris : register(c, uris) => UNCHANGED <<req, clock>>
        /\ \A t : revoke(t) => UNCHANGED <<req, clock>>
    BY DEF register, revoke
  <1> QED BY <1>2, <1>3, <1>4, <1>5 DEF Next, vars

(* A handler of a request that began at a time. *)
LEMMA InTime ==
    ASSUME StateOK, TimeInv, NEW r \in Requests
    PROVE  /\ began[r] \in Nat /\ clock \in Nat /\ MaxDelay \in Nat
           /\ ~ At(r, "idle") =>
                  began[r] <= clock /\ clock <= began[r] + MaxDelay
           /\ Timed(r) /\ req'[r] # Idle =>
                  began'[r] = IF At(r, "idle") THEN clock ELSE began[r]
  BY TTLAssumption DEF StateOK, TimeInv, Timed

-----------------------------------------------------------------------------
(* Lifetimes.  The user record is written first and lives long enough for  *)
(* the code that follows it and for what that code is exchanged into, the  *)
(* time requests take in between included.  No write of a record ends it   *)
(* sooner, since none ever lives longer than a fresh one.                  *)

Exp(k) == store[k].exp

UserLife(u) == IF u \in BrowserIds THEN BrowserUserTTL ELSE UserTTL

(* A record outlives the code of its user by this much: complete may take  *)
(* MaxDelay between writing the two.                                       *)
Spare(u) == IF u \in BrowserIds THEN SessionTTL - MaxDelay
                                ELSE TokenTTL + MaxDelay

UserCeiling == \A u \in UserIds : Exp(UserKey(u)) <= clock + UserLife(u)

CodeCovered(c) ==
    Present(CodeKey(c)) =>
        Exp(UserKey(Value(CodeKey(c)).user))
            >= Exp(CodeKey(c)) + Spare(Value(CodeKey(c)).user)

TokenCovered(t) ==
    Present(TokenKey(t)) =>
        Exp(UserKey(Value(TokenKey(t)).user)) >= Exp(TokenKey(t))

(* A session is covered but for the time complete and the callback took.   *)
Nearly(end, u) ==
    \/ end <= Exp(UserKey(u)) + 2 * MaxDelay
    \/ end <= clock + 2 * MaxDelay

SessionCovered(s) ==
    Present(SessionKey(s)) =>
        /\ Value(SessionKey(s)).expires = Exp(SessionKey(s))
        /\ Nearly(Exp(SessionKey(s)), Value(SessionKey(s)).user)

(* What handler h, whose request arrived at time b, may count on. *)
HandlerCovered(h, b) ==
    /\ h.at = "complete.user" => h.ttl = UserLife(h.user)
    /\ h.at = "complete.code" =>
           Exp(UserKey(h.user)) >= b + UserLife(h.user)
    /\ h.at \in TokenLabels =>
           Exp(UserKey(h.user)) >= b + TokenTTL + MaxDelay
    /\ h.at \in SessionLabels =>
           Exp(UserKey(h.auth.user)) >= b + SessionTTL - MaxDelay

Covered(r) == HandlerCovered(req[r], began[r])

LifeInv ==
    /\ UserCeiling
    /\ \A c \in Codes : CodeCovered(c)
    /\ \A t \in Tokens : TokenCovered(t)
    /\ \A s \in Sessions : SessionCovered(s)
    /\ \A r \in Requests : Covered(r)

(* The record of an account and site covers a code, the token it buys and  *)
(* two slow requests: ninety days against a minute and half an hour.  So   *)
(* does a browser session, of eight hours, cover a token.                  *)
LifeAssumption ==
    /\ CodeTTL + TokenTTL + 2 * MaxDelay <= UserTTL
    /\ TokenTTL + 2 * MaxDelay <= SessionTTL

LEMMA LivesAreNat ==
    ASSUME LifeAssumption
    PROVE  /\ \A u : /\ UserLife(u) \in Nat /\ Spare(u) \in Nat
                     /\ Spare(u) >= TokenTTL + MaxDelay
                     /\ UserLife(u) >= CodeTTL + MaxDelay + Spare(u)
           /\ CodeTTL \in Nat \ {0} /\ TokenTTL \in Nat \ {0}
           /\ SessionTTL \in Nat \ {0} /\ UserTTL \in Nat \ {0}
           /\ MaxDelay \in Nat /\ SessionTTL > 2 * MaxDelay
  <1>1. /\ CodeTTL \in Nat \ {0} /\ TokenTTL \in Nat \ {0}
        /\ SessionTTL \in Nat \ {0} /\ UserTTL \in Nat \ {0}
        /\ MaxDelay \in Nat
    BY TTLAssumption
  <1>2. SessionTTL > 2 * MaxDelay
    BY <1>1 DEF LifeAssumption
  <1>3. ASSUME NEW u
        PROVE  /\ UserLife(u) \in Nat /\ Spare(u) \in Nat
               /\ Spare(u) >= TokenTTL + MaxDelay
               /\ UserLife(u) >= CodeTTL + MaxDelay + Spare(u)
    <2>1. CASE u \in BrowserIds
      BY <1>1, <2>1 DEF LifeAssumption, UserLife, BrowserUserTTL, Spare
    <2>2. CASE u \notin BrowserIds
      BY <1>1, <2>2 DEF LifeAssumption, UserLife, Spare
    <2> QED BY <2>1, <2>2
  <1> QED BY <1>1, <1>2, <1>3

LEMMA ExpIsNat ==
    ASSUME StateOK
    PROVE  \A k \in Key : Exp(k) \in Nat
  BY DEF StateOK, StoreOK, Entry, Absent, Key, Exp

LEMMA LifeInit ==
    ASSUME LifeAssumption, Init
    PROVE  LifeInv
  <1>1. clock = 0 /\ \A k \in Key : Exp(k) = 0
    BY DEF Init, Absent, Exp
  <1>2. \A k \in Key : ~ Present(k)
    BY <1>1 DEF Present, Exp
  <1>3. UserCeiling
    BY <1>1, KeyInKey, LivesAreNat DEF UserCeiling
  <1>4. /\ \A c \in Codes : CodeCovered(c)
        /\ \A t \in Tokens : TokenCovered(t)
        /\ \A s \in Sessions : SessionCovered(s)
    BY <1>2, KeyInKey DEF CodeCovered, TokenCovered, SessionCovered
  <1>5. \A r \in Requests : Covered(r)
    BY DEF Init, Covered, HandlerCovered, Idle, TokenLabels, SessionLabels
  <1> QED BY <1>3, <1>4, <1>5 DEF LifeInv

(* The users named by entries and handlers. *)
LEMMA NamedUsers ==
    ASSUME StateOK
    PROVE  /\ \A c \in Codes : Present(CodeKey(c)) =>
                  Value(CodeKey(c)).user \in UserIds
           /\ \A t \in Tokens : Present(TokenKey(t)) =>
                  Value(TokenKey(t)).user \in UserIds
           /\ \A s \in Sessions : Present(SessionKey(s)) =>
                  Value(SessionKey(s)).user \in UserIds
           /\ \A r \in Requests :
                  /\ req[r].at \in UserLabels \union TokenLabels =>
                         req[r].user \in UserIds
                  /\ req[r].at \in SessionLabels =>
                         req[r].auth.user \in UserIds
  <1>1. \A t \in Tokens : Present(TokenKey(t)) =>
            Value(TokenKey(t)).user \in UserIds
    BY DEF StateOK, StoreOK, Entry, Present, Value, Absent
  <1>2. /\ \A c \in Codes : Present(CodeKey(c)) =>
               Value(CodeKey(c)).user \in UserIds
        /\ \A s \in Sessions : Present(SessionKey(s)) =>
               Value(SessionKey(s)).user \in UserIds
    BY GetTyped DEF StateOK, Auth, Session
  <1>3. \A r \in Requests :
            req[r].at \in UserLabels \union TokenLabels =>
                req[r].user \in UserIds
    BY DEF StateOK, Handler, Idle, UserLabels, TokenLabels
  <1>4. \A r \in Requests :
            req[r].at \in SessionLabels => req[r].auth.user \in UserIds
    BY DEF StateOK, Handler, Idle, Auth, SessionLabels
  <1> QED BY <1>1, <1>2, <1>3, <1>4

(* No record ends sooner, and every entry and handler is the old one, gone *)
(* or covered.                                                             *)
UsersGrow ==
    \A u \in UserIds : /\ Exp(UserKey(u))' \in Nat
                       /\ Exp(UserKey(u))' >= Exp(UserKey(u))
                       /\ Exp(UserKey(u))' <= clock + UserLife(u)

LEMMA CoverStays ==
    ASSUME LifeAssumption, StateOK, LifeInv, UNCHANGED clock, UsersGrow,
           NEW u \in UserIds, NEW d \in Int, Exp(UserKey(u)) >= d
    PROVE  Exp(UserKey(u))' >= d
  BY ExpIsNat, KeyInKey DEF UsersGrow

LEMMA NearlyStays ==
    ASSUME LifeAssumption, StateOK, LifeInv, UNCHANGED clock, UsersGrow,
           NEW u \in UserIds, NEW end \in Nat, Nearly(end, u)
    PROVE  Nearly(end, u)'
  <1>1. /\ Exp(UserKey(u)) \in Nat /\ Exp(UserKey(u))' \in Nat
        /\ Exp(UserKey(u))' >= Exp(UserKey(u)) /\ MaxDelay \in Nat
    BY ExpIsNat, KeyInKey, LivesAreNat DEF UsersGrow
  <1>2. end <= Exp(UserKey(u)) + 2 * MaxDelay
            => end <= Exp(UserKey(u))' + 2 * MaxDelay
    BY <1>1
  <1> QED BY <1>2 DEF Nearly, Exp

LEMMA LifeFrame ==
    ASSUME LifeAssumption, StateOK, LifeInv, TimeInv, TimeKept,
           UNCHANGED clock, UsersGrow,
           \A c \in Codes : \/ store'[CodeKey(c)] \in
                                   {store[CodeKey(c)], Absent}
                            \/ CodeCovered(c)',
           \A t \in Tokens : \/ store'[TokenKey(t)] \in
                                    {store[TokenKey(t)], Absent}
                             \/ TokenCovered(t)',
           \A s \in Sessions : \/ store'[SessionKey(s)] \in
                                      {store[SessionKey(s)], Absent}
                               \/ SessionCovered(s)',
           \A r \in Requests : req'[r] = req[r] \/ Covered(r)'
    PROVE  LifeInv'
  <1>1. /\ \A k \in Key : Exp(k) \in Nat
        /\ clock \in Nat /\ clock' = clock
    BY ExpIsNat DEF StateOK
  <1>2. ~ (Absent.exp > clock)
    BY <1>1 DEF Absent
  <1>3. UserCeiling'
    BY <1>1 DEF UsersGrow, UserCeiling
  <1>4. \A c \in Codes : CodeCovered(c)'
    <2> SUFFICES ASSUME NEW c \in Codes, Present(CodeKey(c))',
                        store'[CodeKey(c)] = store[CodeKey(c)]
                 PROVE  CodeCovered(c)'
      BY <1>1, <1>2 DEF CodeCovered, Present
    <2>1. PICK v : v = Value(CodeKey(c))
      OBVIOUS
    <2>2. Present(CodeKey(c)) /\ v.user \in UserIds
      BY <1>1, <2>1, NamedUsers DEF Present
    <2>3. Exp(UserKey(v.user)) >= Exp(CodeKey(c)) + Spare(v.user)
      BY <2>1, <2>2 DEF LifeInv, CodeCovered
    <2>4. Exp(CodeKey(c)) + Spare(v.user) \in Int
      BY <1>1, KeyInKey, LivesAreNat
    <2>5. Exp(CodeKey(c))' = Exp(CodeKey(c)) /\ Value(CodeKey(c))' = v
      BY <2>1 DEF Exp, Value
    <2>6. Exp(UserKey(v.user))' >= Exp(CodeKey(c)) + Spare(v.user)
      BY <2>2, <2>3, <2>4, CoverStays
    <2> QED BY <2>5, <2>6 DEF CodeCovered, Exp, Spare
  <1>5. \A t \in Tokens : TokenCovered(t)'
    <2> SUFFICES ASSUME NEW t \in Tokens, Present(TokenKey(t))',
                        store'[TokenKey(t)] = store[TokenKey(t)]
                 PROVE  TokenCovered(t)'
      BY <1>1, <1>2 DEF TokenCovered, Present
    <2>1. PICK v : v = Value(TokenKey(t))
      OBVIOUS
    <2>2. Present(TokenKey(t)) /\ v.user \in UserIds
      BY <1>1, <2>1, NamedUsers DEF Present
    <2>3. Exp(UserKey(v.user)) >= Exp(TokenKey(t))
      BY <2>1, <2>2 DEF LifeInv, TokenCovered
    <2>4. Exp(TokenKey(t)) \in Int
      BY <1>1, KeyInKey
    <2>5. Exp(TokenKey(t))' = Exp(TokenKey(t)) /\ Value(TokenKey(t))' = v
      BY <2>1 DEF Exp, Value
    <2>6. Exp(UserKey(v.user))' >= Exp(TokenKey(t))
      BY <2>2, <2>3, <2>4, CoverStays
    <2> QED BY <2>5, <2>6 DEF TokenCovered, Exp
  <1>6. \A s \in Sessions : SessionCovered(s)'
    <2> SUFFICES ASSUME NEW s \in Sessions, Present(SessionKey(s))',
                        store'[SessionKey(s)] = store[SessionKey(s)]
                 PROVE  SessionCovered(s)'
      BY <1>1, <1>2 DEF SessionCovered, Present
    <2>1. PICK v, end : v = Value(SessionKey(s)) /\ end = Exp(SessionKey(s))
      OBVIOUS
    <2>2. Present(SessionKey(s)) /\ v.user \in UserIds
      BY <1>1, <2>1, NamedUsers DEF Present
    <2>3. v.expires = end /\ Nearly(end, v.user)
      BY <2>1, <2>2 DEF LifeInv, SessionCovered
    <2>4. Exp(SessionKey(s))' = end /\ Value(SessionKey(s))' = v
      BY <2>1 DEF Exp, Value
    <2>5. end \in Nat
      BY <1>1, <2>1, KeyInKey
    <2>6. Nearly(end, v.user)'
      BY <2>2, <2>3, <2>5, NearlyStays
    <2> QED BY <2>3, <2>4, <2>6 DEF SessionCovered, Nearly, Exp
  <1>7. \A r \in Requests : Covered(r)'
    <2> SUFFICES ASSUME NEW r \in Requests, req'[r] = req[r]
                 PROVE  Covered(r)'
      OBVIOUS
    <2>1. PICK h : h = req[r] /\ h = req'[r]
      OBVIOUS
    <2>2. PICK b \in Nat : b = began[r]
      BY DEF TimeInv
    <2>3. HandlerCovered(h, b)
      BY <2>1, <2>2 DEF LifeInv, Covered
    <2>4. /\ h.at \in UserLabels \union TokenLabels => h.user \in UserIds
          /\ h.at \in SessionLabels => h.auth.user \in UserIds
      BY <2>1, NamedUsers
    <2>5. h.at # "idle" => began'[r] = b
      BY <2>1, <2>2 DEF TimeKept, At, Idle
    <2>6. h.at = "complete.code" =>
              Exp(UserKey(h.user))' >= b + UserLife(h.user)
      BY <2>3, <2>4, CoverStays, LivesAreNat DEF HandlerCovered, UserLabels
    <2>7. h.at \in TokenLabels =>
              Exp(UserKey(h.user))' >= b + TokenTTL + MaxDelay
      BY <2>3, <2>4, CoverStays, LivesAreNat DEF HandlerCovered
    <2>8. h.at \in SessionLabels =>
              Exp(UserKey(h.auth.user))' >= b + SessionTTL - MaxDelay
      BY <2>3, <2>4, CoverStays, LivesAreNat DEF HandlerCovered
    <2> QED BY <2>1, <2>3, <2>5, <2>6, <2>7, <2>8
            DEF Covered, HandlerCovered, TokenLabels, SessionLabels, Exp,
                UserLife
  <1> QED BY <1>3, <1>4, <1>5, <1>6, <1>7 DEF LifeInv

(* The frame of a step that writes no entry with a lifetime of its own. *)
LifeKeys ==
    /\ \A k \in Key :
           Prefix(k) \in {"oauth:code", "mcp:token", "web:session"} =>
               store'[k] \in {store[k], Absent}
    /\ \A k \in Key : Prefix(k) = "mcp:user" => store'[k] = store[k]

LEMMA KeysKept ==
    ASSUME StateOK, UNCHANGED clock,
           \/ UNCHANGED store
           \/ \E k \in Key : Delete(k) /\ Prefix(k) # "mcp:user"
    PROVE  LifeKeys
  BY DeleteEffect DEF LifeKeys, StateOK

LEMMA UsersKept ==
    ASSUME StateOK, LifeInv, UNCHANGED clock,
           \A u \in UserIds : store'[UserKey(u)] = store[UserKey(u)]
    PROVE  UsersGrow
  <1>1. \A u \in UserIds : Exp(UserKey(u)) \in Nat
    BY ExpIsNat, KeyInKey
  <1> QED BY <1>1 DEF UsersGrow, LifeInv, UserCeiling, Exp

LEMMA LifeQuiet ==
    ASSUME LifeAssumption, StateOK, LifeInv, TimeInv, TimeKept,
           UNCHANGED clock, LifeKeys,
           \A r \in Requests : req'[r] = req[r] \/ Covered(r)'
    PROVE  LifeInv'
  <1>1. \A u \in UserIds : store'[UserKey(u)] = store[UserKey(u)]
    BY KeyInKey, KeyPrefix DEF LifeKeys
  <1>2. /\ \A c \in Codes :
               store'[CodeKey(c)] \in {store[CodeKey(c)], Absent}
        /\ \A t \in Tokens :
               store'[TokenKey(t)] \in {store[TokenKey(t)], Absent}
        /\ \A s \in Sessions :
               store'[SessionKey(s)] \in {store[SessionKey(s)], Absent}
    BY KeyInKey, KeyPrefix DEF LifeKeys
  <1> QED BY <1>1, <1>2, UsersKept, LifeFrame

(* A handler that comes to a label that promises nothing. *)
LEMMA CarelessNext ==
    ASSUME NEW r \in Requests,
           req'[r].at \notin {"complete.user", "complete.code",
                              "token.delete", "token.put",
                              "webcallback.take", "webcallback.session"}
    PROVE  Covered(r)'
  BY DEF Covered, HandlerCovered, TokenLabels, SessionLabels

LEMMA LifeAside ==
    ASSUME LifeAssumption, StateOK, LifeInv, TimeInv, TimeKept, Aside
    PROVE  LifeInv'
  <1>1. \A r \in Requests : req'[r] = req[r] \/ Covered(r)'
    BY CarelessNext, SpendLabelsAre DEF Aside, LeavesOut
  <1> QED BY <1>1, LifeQuiet DEF Aside, LifeKeys

LEMMA LifeRevoke ==
    ASSUME LifeAssumption, StateOK, LifeInv, TimeInv, TimeKept,
           NEW t \in Tokens, revoke(t)
    PROVE  LifeInv'
  <1>1. LifeKeys
    BY KeysKept, KeyInKey, KeyPrefix DEF revoke
  <1> QED BY <1>1, LifeQuiet DEF revoke

LEMMA LifeComplete ==
    ASSUME LifeAssumption, StateOK, LifeInv, TimeInv, TimeKept,
           NEW r \in Requests
    PROVE  /\ \A s \in States, site \in Sites :
                  complete(r, s, site) => LifeInv'
           /\ completeDelete(r) => LifeInv'
  <1>1. ASSUME NEW s \in States, NEW site \in Sites, complete(r, s, site)
        PROVE  LifeInv'
    <2>1. Enters({"complete.delete"})
      BY <1>1, EntersOne DEF complete
    <2>2. \A q \in Requests : req'[q] = req[q] \/ Covered(q)'
      BY <2>1, CarelessNext DEF Enters
    <2> QED BY <1>1, <2>2, KeysKept, LifeQuiet DEF complete
  <1>2. ASSUME completeDelete(r)
        PROVE  LifeInv'
    <2>1. Enters({"complete.client"})
      BY <1>2, EntersMove DEF completeDelete
    <2>2. \A q \in Requests : req'[q] = req[q] \/ Covered(q)'
      BY <2>1, CarelessNext DEF Enters
    <2>3. PendingKey(req[r].state) \in Key
      BY <1>2, HandlerTyped, KeyInKey DEF completeDelete, At, FormLabels
    <2>4. LifeKeys
      BY <1>2, <2>3, KeysKept, KeyPrefix DEF completeDelete
    <2> QED BY <1>2, <2>2, <2>4, LifeQuiet DEF completeDelete
  <1> QED BY <1>1, <1>2

LEMMA LifeCompleteClient ==
    ASSUME LifeAssumption, StateOK, LifeInv, TimeInv, TimeKept,
           NEW r \in Requests, completeClient(r)
    PROVE  LifeInv'
  <1>1. PICK p : p = req[r].pending /\ p.account \in Accounts
    BY HandlerTyped DEF completeClient, At, FormLabels, Pending
  <1>2. req[r].site \in Sites
    BY HandlerTyped DEF completeClient, At, FormLabels
  <1>3. <<p.account, req[r].site>> \notin BrowserIds
    BY <1>1, <1>2, UserIdsAssumption DEF AccountUsers
  <1>4. ASSUME NEW u, NEW ttl, ttl = UserLife(u),
               Continue(r, [at |-> "complete.user", state |-> req[r].state,
                            site |-> req[r].site, pending |-> p,
                            user |-> u, ttl |-> ttl])
        PROVE  Covered(r)' /\ \A q \in Requests : q # r => req'[q] = req[q]
    <2>1. /\ req'[r] = [at |-> "complete.user", state |-> req[r].state,
                        site |-> req[r].site, pending |-> p,
                        user |-> u, ttl |-> ttl]
          /\ \A q \in Requests : q # r => req'[q] = req[q]
      BY <1>4, ContinueEffect DEF StateOK
    <2>2. /\ req'[r].at = "complete.user" /\ req'[r].ttl = ttl
          /\ req'[r].user = u
      BY <2>1
    <2> QED BY <1>4, <2>1, <2>2
            DEF Covered, HandlerCovered, TokenLabels, SessionLabels, UserLife
  <1>5. Respond(r) => \A q \in Requests : \/ req'[q] = req[q]
                                          \/ Covered(q)'
    <2>1. Respond(r) => Enters({"idle"})
      BY EntersIdle
    <2> QED BY <2>1, CarelessNext DEF Enters
  <1>6. \A q \in Requests : req'[q] = req[q] \/ Covered(q)'
    <2>1. \/ Respond(r)
          \/ \E u, ttl :
                /\ ttl = UserLife(u)
                /\ Continue(r, [at |-> "complete.user",
                                state |-> req[r].state,
                                site |-> req[r].site, pending |-> p,
                                user |-> u, ttl |-> ttl])
      BY <1>1, <1>3 DEF completeClient, UserLife
    <2> QED BY <1>4, <1>5, <2>1
  <1> QED BY <1>6, KeysKept, LifeQuiet DEF completeClient

LEMMA LifeCompleteUser ==
    ASSUME LifeAssumption, StateOK, LifeInv, TimeInv, TimeKept,
           NEW r \in Requests, completeUser(r), Timed(r)
    PROVE  LifeInv'
  <1>1. PICK h : /\ h = req[r]
                 /\ h \in [at : {"complete.user"}, state : States,
                           site : Sites, pending : Pending,
                           user : UserIds, ttl : Nat]
    BY DEF StateOK, completeUser, At, Handler, Idle
  <1>2. h.ttl = UserLife(h.user) /\ h.user \in UserIds
    BY <1>1 DEF LifeInv, Covered, HandlerCovered
  <1>3. UNCHANGED clock /\ clock \in Nat
    BY DEF completeUser, StateOK
  <1>4. PICK e : Put(UserKey(h.user), e, h.ttl)
    BY <1>1 DEF completeUser
  <1>5. /\ \A j \in Key : j # UserKey(h.user) => store'[j] = store[j]
        /\ store'[UserKey(h.user)] =
               [val |-> e, exp |-> clock + UserLife(h.user)]
    <2>1. UserKey(h.user) \in Key
      BY <1>2, KeyInKey
    <2> QED BY <1>2, <1>4, <2>1, PutEffect DEF StateOK
  <1>6. Exp(UserKey(h.user))' = clock + UserLife(h.user)
    BY <1>5 DEF Exp
  <1>7. UsersGrow
    <2> SUFFICES ASSUME NEW u \in UserIds
                 PROVE  /\ Exp(UserKey(u))' \in Nat
                        /\ Exp(UserKey(u))' >= Exp(UserKey(u))
                        /\ Exp(UserKey(u))' <= clock + UserLife(u)
      BY DEF UsersGrow
    <2>1. /\ Exp(UserKey(u)) \in Nat /\ UserLife(u) \in Nat
          /\ Exp(UserKey(u)) <= clock + UserLife(u)
      BY ExpIsNat, KeyInKey, LivesAreNat DEF LifeInv, UserCeiling
    <2>2. CASE u = h.user
      BY <1>3, <1>6, <2>1, <2>2
    <2>3. CASE u # h.user
      <3>1. UserKey(u) # UserKey(h.user) /\ UserKey(u) \in Key
        BY <2>3, KeyInjective, KeyInKey
      <3>2. Exp(UserKey(u))' = Exp(UserKey(u))
        BY <1>5, <3>1 DEF Exp
      <3> QED BY <2>1, <3>2
    <2> QED BY <2>2, <2>3
  <1>8. /\ \A c \in Codes : store'[CodeKey(c)] = store[CodeKey(c)]
        /\ \A t \in Tokens : store'[TokenKey(t)] = store[TokenKey(t)]
        /\ \A s \in Sessions : store'[SessionKey(s)] = store[SessionKey(s)]
    BY <1>5, KeyInKey, KeyPrefix
  <1>9. /\ req'[r].at = "complete.code" /\ req'[r].user = h.user
        /\ \A q \in Requests : q # r => req'[q] = req[q]
    BY <1>1, ContinueEffect DEF completeUser, StateOK
  <1>10. began'[r] \in Nat /\ began'[r] <= clock
    <2>1. ~ At(r, "idle") /\ req'[r] # Idle
      BY <1>1, <1>9 DEF At, Idle
    <2> QED BY <2>1, InTime
  <1>11. Covered(r)'
    <2>1. Exp(UserKey(h.user))' >= began'[r] + UserLife(h.user)
      BY <1>3, <1>6, <1>10, LivesAreNat
    <2> QED BY <1>9, <2>1 DEF Covered, HandlerCovered, TokenLabels,
                              SessionLabels, Exp, UserLife
  <1> QED BY <1>3, <1>7, <1>8, <1>9, <1>11, LifeFrame

LEMMA LifeCompleteCode ==
    ASSUME LifeAssumption, StateOK, LifeInv, TimeInv, TimeKept,
           NEW r \in Requests, NEW c \in Codes,
           completeCode(r, c)
    PROVE  LifeInv'
  <1>1. PICK p, u : p = req[r].pending /\ u = req[r].user
    OBVIOUS
  <1>2. PICK v : v = [user |-> u, client |-> p.auth.client,
                      redirect |-> p.auth.redirect,
                      challenge |-> p.auth.challenge]
    OBVIOUS
  <1>3. /\ Put(CodeKey(c), v, CodeTTL) /\ UNCHANGED clock
        /\ req[r].at = "complete.code"
        /\ v.user = u
    BY <1>1, <1>2 DEF completeCode, At
  <1>4. CodeKey(c) \in Key
    BY KeyInKey
  <1>5. /\ \A j \in Key : j # CodeKey(c) => store'[j] = store[j]
        /\ store'[CodeKey(c)] = [val |-> v, exp |-> clock + CodeTTL]
    BY <1>3, <1>4, PutEffect DEF StateOK
  <1>6. u \in UserIds
    BY <1>1, <1>3, NamedUsers DEF UserLabels
  <1>7. Exp(UserKey(u)) >= clock + CodeTTL + Spare(u)
    <2>1. Exp(UserKey(u)) >= began[r] + UserLife(u)
      BY <1>1, <1>3 DEF LifeInv, Covered, HandlerCovered
    <2>2. clock <= began[r] + MaxDelay
      BY <1>3, InTime DEF At
    <2>3. /\ Exp(UserKey(u)) \in Nat /\ clock \in Nat /\ began[r] \in Nat
          /\ MaxDelay \in Nat /\ Spare(u) \in Nat /\ UserLife(u) \in Nat
          /\ CodeTTL \in Nat /\ UserLife(u) >= CodeTTL + MaxDelay + Spare(u)
      BY <1>6, ExpIsNat, KeyInKey, InTime, LivesAreNat
    <2> QED BY <2>1, <2>2, <2>3
  <1>8. \A w \in UserIds : store'[UserKey(w)] = store[UserKey(w)]
    BY <1>5, KeyInKey, KeyPrefix
  <1>9. CodeCovered(c)'
    <2>1. Value(CodeKey(c))' = v /\ Exp(CodeKey(c))' = clock + CodeTTL
      BY <1>5 DEF Value, Exp
    <2>2. Exp(UserKey(u))' = Exp(UserKey(u))
      BY <1>6, <1>8 DEF Exp
    <2>3. Exp(UserKey(u))' >= Exp(CodeKey(c))' + Spare(u)
      BY <1>7, <2>1, <2>2
    <2> QED BY <1>3, <2>1, <2>3 DEF CodeCovered, Exp, Spare
  <1>10. \A d \in Codes : store'[CodeKey(d)] = store[CodeKey(d)] \/ d = c
    <2>1. \A d \in Codes : CodeKey(d) \in Key
      BY KeyInKey
    <2>2. \A d \in Codes : d # c => CodeKey(d) # CodeKey(c)
      BY KeyInjective
    <2> QED BY <1>5, <2>1, <2>2
  <1>11. /\ \A t \in Tokens : store'[TokenKey(t)] = store[TokenKey(t)]
         /\ \A s \in Sessions : store'[SessionKey(s)] = store[SessionKey(s)]
    BY <1>5, KeyInKey, KeyPrefix
  <1>12. \A q \in Requests : req'[q] = req[q] \/ Covered(q)'
    <2>1. Enters({"idle"})
      BY EntersIdle DEF completeCode
    <2> QED BY <2>1, CarelessNext DEF Enters
  <1> QED BY <1>3, <1>8, <1>9, <1>10, <1>11, <1>12, UsersKept, LifeFrame

LEMMA LifeToken ==
    ASSUME LifeAssumption, StateOK, LifeInv, TimeInv, TimeKept,
           NEW r \in Requests, NEW c \in Codes,
           NEW client \in ClientIds, NEW uri \in Redirects,
           NEW v \in Verifiers, token(r, c, client, uri, v), Timed(r)
    PROVE  LifeInv'
  <1>1. PICK w : w = Value(CodeKey(c))
    OBVIOUS
  <1>2. /\ Present(CodeKey(c)) /\ At(r, "idle")
        /\ UNCHANGED <<store, clock>>
    BY <1>1 DEF token
  <1>3. w.user \in UserIds
    BY <1>1, <1>2, NamedUsers
  <1>4. Exp(UserKey(w.user)) >= clock + TokenTTL + MaxDelay
    <2>1. Exp(UserKey(w.user)) >= Exp(CodeKey(c)) + Spare(w.user)
      BY <1>1, <1>2 DEF LifeInv, CodeCovered
    <2>2. Exp(CodeKey(c)) > clock
      BY <1>2 DEF Present, Exp
    <2>3. /\ Exp(UserKey(w.user)) \in Nat /\ Exp(CodeKey(c)) \in Nat
          /\ clock \in Nat
      BY <1>3, ExpIsNat, KeyInKey DEF StateOK
    <2>4. /\ Spare(w.user) \in Nat /\ TokenTTL \in Nat /\ MaxDelay \in Nat
          /\ Spare(w.user) >= TokenTTL + MaxDelay
      BY LivesAreNat
    <2> QED BY <2>1, <2>2, <2>3, <2>4
  <1>5. /\ req'[r] = [at |-> "token.delete", code |-> c, client |-> client,
                      verifier |-> v, user |-> w.user]
        /\ \A q \in Requests : q # r => req'[q] = req[q]
    BY <1>1, ContinueEffect DEF token, StateOK
  <1>6. req'[r].at = "token.delete" /\ req'[r].user = w.user
    BY <1>5
  <1>7. began'[r] = clock
    BY <1>2, <1>6, InTime DEF Idle
  <1>8. Covered(r)'
    BY <1>2, <1>4, <1>6, <1>7 DEF Covered, HandlerCovered, SessionLabels, Exp
  <1> QED BY <1>2, <1>5, <1>8, KeysKept, LifeQuiet

LEMMA LifeTokenDelete ==
    ASSUME LifeAssumption, StateOK, LifeInv, TimeInv, TimeKept,
           NEW r \in Requests, tokenDelete(r), Timed(r)
    PROVE  LifeInv'
  <1>1. PICK h : /\ h = req[r]
                 /\ h \in [at : {"token.delete"}, code : Codes,
                           client : ClientIds, verifier : Verifiers,
                           user : UserIds]
    BY DEF StateOK, tokenDelete, At, Handler, Idle
  <1>2. Exp(UserKey(h.user)) >= began[r] + TokenTTL + MaxDelay
    BY <1>1 DEF LifeInv, Covered, HandlerCovered, TokenLabels
  <1>3. LifeKeys /\ UNCHANGED clock
    <2>1. CodeKey(h.code) \in Key
      BY <1>1, KeyInKey
    <2> QED BY <1>1, <2>1, KeysKept, KeyPrefix DEF tokenDelete
  <1>4. store'[UserKey(h.user)] = store[UserKey(h.user)]
    BY <1>1, <1>3, KeyInKey, KeyPrefix DEF LifeKeys
  <1>5. /\ req'[r].at = "token.put" /\ req'[r].user = h.user
        /\ \A q \in Requests : q # r => req'[q] = req[q]
    BY <1>1, ContinueEffect DEF tokenDelete, StateOK
  <1>6. began'[r] = began[r]
    BY <1>1, <1>5, InTime DEF At, Idle
  <1>7. Covered(r)'
    BY <1>2, <1>4, <1>5, <1>6 DEF Covered, HandlerCovered, SessionLabels, Exp
  <1> QED BY <1>3, <1>5, <1>7, LifeQuiet

LEMMA LifeTokenPut ==
    ASSUME LifeAssumption, StateOK, LifeInv, TimeInv, TimeKept,
           NEW r \in Requests, NEW t \in Tokens,
           tokenPut(r, t)
    PROVE  LifeInv'
  <1>1. PICK u : u = req[r].user
    OBVIOUS
  <1>2. /\ Put(TokenKey(t), [user |-> u], TokenTTL) /\ UNCHANGED clock
        /\ req[r].at = "token.put" /\ u \in UserIds
    BY <1>1, NamedUsers DEF tokenPut, At, TokenLabels
  <1>3. Exp(UserKey(u)) >= clock + TokenTTL
    <2>1. Exp(UserKey(u)) >= began[r] + TokenTTL + MaxDelay
      BY <1>1, <1>2 DEF LifeInv, Covered, HandlerCovered, TokenLabels
    <2>2. clock <= began[r] + MaxDelay
      BY <1>2, InTime DEF At
    <2>3. /\ Exp(UserKey(u)) \in Nat /\ clock \in Nat /\ began[r] \in Nat
          /\ MaxDelay \in Nat /\ TokenTTL \in Nat
      BY <1>2, ExpIsNat, KeyInKey, InTime, LivesAreNat
    <2> QED BY <2>1, <2>2, <2>3
  <1>4. TokenKey(t) \in Key
    BY KeyInKey
  <1>5. /\ \A j \in Key : j # TokenKey(t) => store'[j] = store[j]
        /\ store'[TokenKey(t)] = [val |-> [user |-> u],
                                  exp |-> clock + TokenTTL]
    BY <1>2, <1>4, PutEffect DEF StateOK
  <1>6. \A w \in UserIds : store'[UserKey(w)] = store[UserKey(w)]
    BY <1>5, KeyInKey, KeyPrefix
  <1>7. TokenCovered(t)'
    <2>1. Value(TokenKey(t))'.user = u /\ Exp(TokenKey(t))' = clock + TokenTTL
      BY <1>5 DEF Value, Exp
    <2>2. Exp(UserKey(u))' = Exp(UserKey(u))
      BY <1>2, <1>6 DEF Exp
    <2>3. Exp(UserKey(u))' >= Exp(TokenKey(t))'
      BY <1>3, <2>1, <2>2
    <2> QED BY <2>1, <2>3 DEF TokenCovered, Exp
  <1>8. \A d \in Tokens : store'[TokenKey(d)] = store[TokenKey(d)] \/ d = t
    <2>1. \A d \in Tokens : TokenKey(d) \in Key
      BY KeyInKey
    <2>2. \A d \in Tokens : d # t => TokenKey(d) # TokenKey(t)
      BY KeyInjective
    <2> QED BY <1>5, <2>1, <2>2
  <1>9. /\ \A c \in Codes : store'[CodeKey(c)] = store[CodeKey(c)]
        /\ \A s \in Sessions : store'[SessionKey(s)] = store[SessionKey(s)]
    BY <1>5, KeyInKey, KeyPrefix
  <1>10. \A q \in Requests : req'[q] = req[q] \/ Covered(q)'
    <2>1. Enters({"idle"})
      BY EntersIdle DEF tokenPut
    <2> QED BY <2>1, CarelessNext DEF Enters
  <1> QED BY <1>2, <1>6, <1>7, <1>8, <1>9, <1>10, UsersKept, LifeFrame

LEMMA LifeWebCallbackCode ==
    ASSUME LifeAssumption, StateOK, DanceInv, AccountInv, SessionInv,
           LifeInv, TimeInv, TimeKept, NEW r \in Requests,
           webCallbackCode(r), Timed(r)
    PROVE  LifeInv'
  <1>1. PICK c, w : c = req[r].code /\ w = Value(CodeKey(c))
    OBVIOUS
  <1>2. c \in Codes /\ UNCHANGED <<store, clock>>
    BY <1>1 DEF webCallbackCode, At, StateOK, Handler, Idle
  <1>3. \/ Respond(r)
        \/ /\ Present(CodeKey(c))
           /\ Continue(r, [at |-> "webcallback.take", code |-> c,
                           login |-> req[r].flow.verifier, auth |-> w])
    BY <1>1 DEF webCallbackCode
  <1>4. CASE Respond(r)
    <2>1. Enters({"idle"})
      BY <1>4, EntersIdle
    <2>2. \A q \in Requests : req'[q] = req[q] \/ Covered(q)'
      BY <2>1, CarelessNext DEF Enters
    <2> QED BY <1>2, <2>2, KeysKept, LifeQuiet
  <1>5. CASE /\ Present(CodeKey(c))
             /\ Continue(r, [at |-> "webcallback.take", code |-> c,
                             login |-> req[r].flow.verifier, auth |-> w])
    <2>1. w.user \in UserIds
      BY <1>1, <1>2, <1>5, NamedUsers
    <2>2. /\ req'[r] = [at |-> "webcallback.take", code |-> c,
                        login |-> req[r].flow.verifier, auth |-> w]
          /\ \A q \in Requests : q # r => req'[q] = req[q]
      BY <1>5, ContinueEffect DEF StateOK
    <2>3. req'[r].at = "webcallback.take" /\ req'[r].auth = w
      BY <2>2
    <2>4. w.user \in BrowserIds
      <3>1. SessionInv'
        BY SessionWebCallbackCode
      <3> QED BY <2>3, <3>1 DEF SessionInv, CallbackRight, SessionLabels,
                                Signed
    <2>5. Exp(UserKey(w.user)) >= clock + SessionTTL - MaxDelay
      <3>1. Exp(UserKey(w.user)) >= Exp(CodeKey(c)) + SessionTTL - MaxDelay
        <4>1. Exp(UserKey(w.user)) >= Exp(CodeKey(c)) + Spare(w.user)
          BY <1>1, <1>2, <1>5 DEF LifeInv, CodeCovered
        <4> QED BY <1>2, <2>4, <4>1, ExpIsNat, KeyInKey, LivesAreNat DEF Spare
      <3>2. Exp(CodeKey(c)) > clock
        BY <1>5 DEF Present, Exp
      <3>3. /\ Exp(UserKey(w.user)) \in Nat /\ Exp(CodeKey(c)) \in Nat
            /\ clock \in Nat
        BY <1>2, <2>1, ExpIsNat, KeyInKey DEF StateOK
      <3> QED BY <3>1, <3>2, <3>3, LivesAreNat
    <2>6. Covered(r)'
      <3>1. /\ began'[r] \in Nat /\ began'[r] <= clock /\ clock \in Nat
            /\ Exp(UserKey(w.user)) \in Nat
        <4>1. ~ At(r, "idle") /\ req'[r] # Idle
          BY <2>3 DEF webCallbackCode, At, Idle
        <4> QED BY <2>1, <4>1, InTime, ExpIsNat, KeyInKey
      <3>2. Exp(UserKey(w.user)) >= began'[r] + SessionTTL - MaxDelay
        BY <2>5, <3>1, LivesAreNat
      <3> QED BY <1>2, <2>3, <3>2
              DEF Covered, HandlerCovered, TokenLabels, Exp
    <2> QED BY <1>2, <2>2, <2>6, KeysKept, LifeQuiet
  <1> QED BY <1>3, <1>4, <1>5

LEMMA LifeWebCallbackTake ==
    ASSUME LifeAssumption, StateOK, LifeInv, TimeInv, TimeKept,
           NEW r \in Requests, webCallbackTake(r), Timed(r)
    PROVE  LifeInv'
  <1>1. PICK h : /\ h = req[r]
                 /\ h \in [at : {"webcallback.take"}, code : Codes,
                           login : Logins, auth : Auth]
    BY DEF webCallbackTake, At, StateOK, Handler, Idle
  <1>2. Exp(UserKey(h.auth.user)) >= began[r] + SessionTTL - MaxDelay
    BY <1>1 DEF LifeInv, Covered, HandlerCovered, SessionLabels
  <1>3. LifeKeys /\ UNCHANGED clock
    <2>1. CodeKey(h.code) \in Key
      BY <1>1, KeyInKey
    <2> QED BY <1>1, <2>1, KeysKept, KeyPrefix DEF webCallbackTake, Take
  <1>4. store'[UserKey(h.auth.user)] = store[UserKey(h.auth.user)]
    BY <1>1, <1>3, KeyInKey, KeyPrefix DEF LifeKeys, Auth
  <1>5. \/ Respond(r)
        \/ Continue(r, [h EXCEPT !.at = "webcallback.session"])
    BY <1>1 DEF webCallbackTake
  <1>6. CASE Respond(r)
    <2>1. Enters({"idle"})
      BY <1>6, EntersIdle
    <2>2. \A q \in Requests : req'[q] = req[q] \/ Covered(q)'
      BY <2>1, CarelessNext DEF Enters
    <2> QED BY <1>3, <2>2, LifeQuiet
  <1>7. CASE Continue(r, [h EXCEPT !.at = "webcallback.session"])
    <2>1. /\ req'[r].at = "webcallback.session" /\ req'[r].auth = h.auth
          /\ \A q \in Requests : q # r => req'[q] = req[q]
      BY <1>1, <1>7, ContinueEffect DEF StateOK
    <2>2. began'[r] = began[r]
      BY <1>1, <2>1, InTime DEF At, Idle
    <2>3. Covered(r)'
      BY <1>2, <1>4, <2>1, <2>2 DEF Covered, HandlerCovered, TokenLabels, Exp
    <2> QED BY <1>3, <2>1, <2>3, LifeQuiet
  <1> QED BY <1>5, <1>6, <1>7

LEMMA LifeWebCallbackSession ==
    ASSUME LifeAssumption, StateOK, LifeInv, TimeInv, TimeKept,
           NEW r \in Requests, NEW s \in Sessions,
           webCallbackSession(r, s)
    PROVE  LifeInv'
  <1>1. PICK u : u = req[r].auth.user
    OBVIOUS
  <1>2. PICK e : /\ e = [user |-> u, csrf |-> s,
                         expires |-> clock + SessionTTL]
                 /\ Put(SessionKey(s), e, SessionTTL)
    BY <1>1 DEF webCallbackSession
  <1>3. /\ UNCHANGED clock
        /\ req[r].at = "webcallback.session" /\ u \in UserIds
    BY <1>1, NamedUsers DEF webCallbackSession, At, SessionLabels
  <1>4. clock + SessionTTL <= Exp(UserKey(u)) + 2 * MaxDelay
    <2>1. Exp(UserKey(u)) >= began[r] + SessionTTL - MaxDelay
      BY <1>1, <1>3 DEF LifeInv, Covered, HandlerCovered, SessionLabels
    <2>2. clock <= began[r] + MaxDelay
      BY <1>3, InTime DEF At
    <2>3. /\ Exp(UserKey(u)) \in Nat /\ clock \in Nat /\ began[r] \in Nat
          /\ MaxDelay \in Nat /\ SessionTTL \in Nat
      BY <1>3, ExpIsNat, KeyInKey, InTime, LivesAreNat
    <2> QED BY <2>1, <2>2, <2>3
  <1>5. SessionKey(s) \in Key
    BY KeyInKey
  <1>6. /\ \A j \in Key : j # SessionKey(s) => store'[j] = store[j]
        /\ store'[SessionKey(s)] = [val |-> e, exp |-> clock + SessionTTL]
    BY <1>2, <1>5, PutEffect DEF StateOK
  <1>7. \A w \in UserIds : store'[UserKey(w)] = store[UserKey(w)]
    BY <1>6, KeyInKey, KeyPrefix
  <1>8. SessionCovered(s)'
    <2>1. /\ Value(SessionKey(s))' = e /\ e.user = u
          /\ e.expires = clock + SessionTTL
          /\ Exp(SessionKey(s))' = clock + SessionTTL
      BY <1>2, <1>6 DEF Value, Exp
    <2>2. Exp(UserKey(u))' = Exp(UserKey(u))
      BY <1>3, <1>7 DEF Exp
    <2>3. clock + SessionTTL <= Exp(UserKey(u))' + 2 * MaxDelay
      BY <1>4, <2>2
    <2> QED BY <2>1, <2>3 DEF SessionCovered, Nearly, Exp
  <1>9. \A d \in Sessions :
            store'[SessionKey(d)] = store[SessionKey(d)] \/ d = s
    <2>1. \A d \in Sessions : SessionKey(d) \in Key
      BY KeyInKey
    <2>2. \A d \in Sessions : d # s => SessionKey(d) # SessionKey(s)
      BY KeyInjective
    <2> QED BY <1>6, <2>1, <2>2
  <1>10. /\ \A c \in Codes : store'[CodeKey(c)] = store[CodeKey(c)]
         /\ \A t \in Tokens : store'[TokenKey(t)] = store[TokenKey(t)]
    BY <1>6, KeyInKey, KeyPrefix
  <1>11. \A q \in Requests : req'[q] = req[q] \/ Covered(q)'
    <2>1. Enters({"idle"})
      BY EntersIdle DEF webCallbackSession
    <2> QED BY <2>1, CarelessNext DEF Enters
  <1> QED BY <1>3, <1>7, <1>8, <1>9, <1>10, <1>11, UsersKept, LifeFrame

(* Entries end together or the user record last, but for a session: one    *)
(* unit of time takes no record that another entry or a handler needs.     *)
LEMMA LifeTick ==
    ASSUME LifeAssumption, StateOK, LifeInv, TimeInv, Tick
    PROVE  LifeInv'
  <1>1. /\ clock' = clock + 1 /\ clock \in Nat
        /\ \A k \in Key :
               store'[k] = IF Exp(k) > clock + 1 THEN store[k] ELSE Absent
    BY DEF Tick, Elapse, StateOK, StoreOK, Exp
  <1>2. \A k \in Key :
            /\ Exp(k) \in Nat
            /\ Exp(k) > clock' => store'[k] = store[k] /\ Exp(k)' = Exp(k)
            /\ ~ (Exp(k) > clock') => Exp(k)' = 0
    BY <1>1, ExpIsNat DEF Exp, Absent
  <1>3. \A k \in Key : Present(k)' =>
            /\ Present(k) /\ store'[k] = store[k]
            /\ Exp(k) > clock' /\ Exp(k)' = Exp(k)
    BY <1>1, <1>2 DEF Present, Exp
  <1>4. UserCeiling'
    <2> SUFFICES ASSUME NEW u \in UserIds
                 PROVE  Exp(UserKey(u))' <= clock' + UserLife(u)
      BY DEF UserCeiling, UserLife
    <2>1. UserKey(u) \in Key /\ UserLife(u) \in Nat
      BY KeyInKey, LivesAreNat
    <2>2. Exp(UserKey(u)) <= clock + UserLife(u)
      BY DEF LifeInv, UserCeiling
    <2> QED BY <1>1, <1>2, <2>1, <2>2
  <1>5. ASSUME NEW u \in UserIds, NEW d \in Nat, d > clock',
               Exp(UserKey(u)) >= d
        PROVE  Exp(UserKey(u))' = Exp(UserKey(u))
    <2>1. UserKey(u) \in Key
      BY KeyInKey
    <2> QED BY <1>1, <1>2, <1>5, <2>1
  <1>6. ASSUME NEW c \in Codes, Present(CodeKey(c))'
        PROVE  CodeCovered(c)'
    <2>1. PICK v : v = Value(CodeKey(c))
      OBVIOUS
    <2>2. CodeKey(c) \in Key
      BY KeyInKey
    <2>3. /\ Present(CodeKey(c)) /\ Value(CodeKey(c))' = v
          /\ Exp(CodeKey(c)) > clock' /\ Exp(CodeKey(c))' = Exp(CodeKey(c))
      BY <1>3, <1>6, <2>1, <2>2 DEF Value
    <2>4. /\ v.user \in UserIds /\ Spare(v.user) \in Nat
          /\ Exp(CodeKey(c)) \in Nat
      BY <1>2, <2>1, <2>2, <2>3, NamedUsers, LivesAreNat
    <2>5. Exp(UserKey(v.user)) >= Exp(CodeKey(c)) + Spare(v.user)
      BY <2>1, <2>3 DEF LifeInv, CodeCovered
    <2>6. Exp(CodeKey(c)) + Spare(v.user) > clock'
      BY <1>1, <2>3, <2>4
    <2>7. Exp(UserKey(v.user))' = Exp(UserKey(v.user))
      BY <1>5, <2>4, <2>5, <2>6
    <2>8. Exp(UserKey(v.user))' >= Exp(CodeKey(c))' + Spare(v.user)
      BY <2>3, <2>5, <2>7
    <2> QED BY <2>3, <2>8 DEF CodeCovered, Exp, Spare
  <1>7. ASSUME NEW t \in Tokens, Present(TokenKey(t))'
        PROVE  TokenCovered(t)'
    <2>1. PICK v : v = Value(TokenKey(t))
      OBVIOUS
    <2>2. TokenKey(t) \in Key
      BY KeyInKey
    <2>3. /\ Present(TokenKey(t)) /\ Value(TokenKey(t))' = v
          /\ Exp(TokenKey(t)) > clock' /\ Exp(TokenKey(t))' = Exp(TokenKey(t))
      BY <1>3, <1>7, <2>1, <2>2 DEF Value
    <2>4. v.user \in UserIds /\ Exp(TokenKey(t)) \in Nat
      BY <1>2, <2>1, <2>2, <2>3, NamedUsers
    <2>5. Exp(UserKey(v.user)) >= Exp(TokenKey(t))
      BY <2>1, <2>3 DEF LifeInv, TokenCovered
    <2>6. Exp(UserKey(v.user))' = Exp(UserKey(v.user))
      BY <1>5, <2>3, <2>4, <2>5
    <2>7. Exp(UserKey(v.user))' >= Exp(TokenKey(t))'
      BY <2>3, <2>5, <2>6
    <2> QED BY <2>3, <2>7 DEF TokenCovered, Exp
  <1>8. ASSUME NEW s \in Sessions, Present(SessionKey(s))'
        PROVE  SessionCovered(s)'
    <2>1. PICK v, end : v = Value(SessionKey(s)) /\ end = Exp(SessionKey(s))
      OBVIOUS
    <2>2. SessionKey(s) \in Key
      BY KeyInKey
    <2>3. /\ Present(SessionKey(s)) /\ Value(SessionKey(s))' = v
          /\ Exp(SessionKey(s))' = end
      BY <1>3, <1>8, <2>1, <2>2 DEF Value
    <2>4. v.expires = end /\ Nearly(end, v.user)
      BY <2>1, <2>3 DEF LifeInv, SessionCovered
    <2>5. v.user \in UserIds /\ UserKey(v.user) \in Key /\ end \in Nat
      BY <1>2, <2>1, <2>2, <2>3, NamedUsers, KeyInKey
    <2>6. MaxDelay \in Nat /\ Exp(UserKey(v.user)) \in Nat
      BY <1>2, <2>5, LivesAreNat
    <2>7. \/ end <= Exp(UserKey(v.user))' + 2 * MaxDelay
          \/ end <= clock' + 2 * MaxDelay
      <3>1. CASE end <= clock + 2 * MaxDelay
        BY <1>1, <2>5, <2>6, <3>1
      <3>2. CASE /\ end <= Exp(UserKey(v.user)) + 2 * MaxDelay
                 /\ Exp(UserKey(v.user)) > clock'
        BY <1>2, <2>5, <3>2
      <3>3. CASE /\ end <= Exp(UserKey(v.user)) + 2 * MaxDelay
                 /\ ~ (Exp(UserKey(v.user)) > clock')
        BY <1>1, <2>5, <2>6, <3>3
      <3> QED BY <2>4, <3>1, <3>2, <3>3 DEF Nearly
    <2> QED BY <2>3, <2>4, <2>7 DEF SessionCovered, Nearly, Exp
  <1>9. ASSUME NEW r \in Requests
        PROVE  Covered(r)'
    <2>1. PICK h, b : h = req[r] /\ b = began[r]
      OBVIOUS
    <2>2. req'[r] = h /\ began'[r] = b
      BY <2>1 DEF Tick
    <2>3. HandlerCovered(h, b)
      BY <2>1 DEF LifeInv, Covered
    <2>4. /\ b \in Nat
          /\ h.at # "idle" => clock' <= b + MaxDelay
      BY <1>1, <2>1, InTime DEF Tick, At
    <2>5. /\ h.at \in UserLabels \union TokenLabels => h.user \in UserIds
          /\ h.at \in SessionLabels => h.auth.user \in UserIds
      BY <2>1, NamedUsers
    <2>6. h.at = "complete.code" =>
              Exp(UserKey(h.user))' >= b + UserLife(h.user)
      <3> SUFFICES ASSUME h.at = "complete.code"
                   PROVE  Exp(UserKey(h.user))' >= b + UserLife(h.user)
        OBVIOUS
      <3>1. /\ h.user \in UserIds /\ clock' <= b + MaxDelay
            /\ Exp(UserKey(h.user)) >= b + UserLife(h.user)
        BY <2>3, <2>4, <2>5 DEF HandlerCovered, UserLabels
      <3>2. b + UserLife(h.user) \in Nat /\ b + UserLife(h.user) > clock'
        <4>1. /\ UserLife(h.user) \in Nat /\ Spare(h.user) \in Nat
              /\ MaxDelay \in Nat /\ CodeTTL \in Nat \ {0}
              /\ UserLife(h.user) >= CodeTTL + MaxDelay + Spare(h.user)
          BY LivesAreNat
        <4> QED BY <1>1, <2>4, <3>1, <4>1
      <3> QED BY <1>5, <3>1, <3>2
    <2>7. h.at \in TokenLabels =>
              Exp(UserKey(h.user))' >= b + TokenTTL + MaxDelay
      <3> SUFFICES ASSUME h.at \in TokenLabels
                   PROVE  Exp(UserKey(h.user))' >= b + TokenTTL + MaxDelay
        OBVIOUS
      <3>1. /\ h.user \in UserIds /\ clock' <= b + MaxDelay
            /\ Exp(UserKey(h.user)) >= b + TokenTTL + MaxDelay
        BY <2>3, <2>4, <2>5 DEF HandlerCovered, TokenLabels
      <3>2. /\ b + TokenTTL + MaxDelay \in Nat
            /\ b + TokenTTL + MaxDelay > clock'
        BY <1>1, <2>4, <3>1, LivesAreNat
      <3> QED BY <1>5, <3>1, <3>2
    <2>8. h.at \in SessionLabels =>
              Exp(UserKey(h.auth.user))' >= b + SessionTTL - MaxDelay
      <3> SUFFICES ASSUME h.at \in SessionLabels
                   PROVE  Exp(UserKey(h.auth.user))'
                              >= b + SessionTTL - MaxDelay
        OBVIOUS
      <3>1. /\ h.auth.user \in UserIds /\ clock' <= b + MaxDelay
            /\ Exp(UserKey(h.auth.user)) >= b + SessionTTL - MaxDelay
        BY <2>3, <2>4, <2>5 DEF HandlerCovered, SessionLabels
      <3>2. /\ b + SessionTTL - MaxDelay \in Nat
            /\ b + SessionTTL - MaxDelay > clock'
        BY <1>1, <2>4, <3>1, LivesAreNat
      <3> QED BY <1>5, <3>1, <3>2
    <2> QED BY <2>2, <2>3, <2>6, <2>7, <2>8
            DEF Covered, HandlerCovered, UserLife, Exp
  <1> QED BY <1>4, <1>6, <1>7, <1>8, <1>9
          DEF LifeInv, CodeCovered, TokenCovered, SessionCovered

LEMMA LifeStep ==
    ASSUME LifeAssumption, StateOK, DanceInv, AccountInv, SessionInv, LifeInv,
           TimeInv, [Next]_vars
    PROVE  LifeInv'
  <1>1. \A x \in tokenLog : x.token \in Tokens
    BY DEF StateOK, LogsOK
  <1>2. TimeKept
    BY TimeStep
  <1>3. Aimed => LifeInv'
    BY <1>1, <1>2, LifeRevoke, LifeComplete, LifeCompleteClient,
       LifeCompleteUser, LifeCompleteCode, LifeToken, LifeTokenDelete,
       LifeTokenPut, LifeWebCallbackCode, LifeWebCallbackTake,
       LifeWebCallbackSession, LifeTick DEF Aimed
  <1> QED BY <1>2, <1>3, AimedOrAside, LifeAside

LEMMA CoveredIsPresent ==
    ASSUME LifeAssumption, StateOK, LifeInv
    PROVE  NoDanglingUser
  <1>1. \A k \in Key : Exp(k) \in Nat
    BY ExpIsNat
  <1>2. clock \in Nat /\ MaxDelay \in Nat
    BY LivesAreNat DEF StateOK
  <1>3. ASSUME NEW c \in Codes, Present(CodeKey(c))
        PROVE  Present(UserKey(Value(CodeKey(c)).user))
    <2>1. PICK v : v = Value(CodeKey(c))
      OBVIOUS
    <2>2. /\ CodeKey(c) \in Key /\ UserKey(v.user) \in Key
          /\ Spare(v.user) \in Nat
      BY <1>3, <2>1, NamedUsers, KeyInKey, LivesAreNat
    <2>3. Exp(UserKey(v.user)) >= Exp(CodeKey(c)) + Spare(v.user)
      BY <1>3, <2>1 DEF LifeInv, CodeCovered
    <2>4. Exp(CodeKey(c)) > clock
      BY <1>3 DEF Present, Exp
    <2>5. Exp(UserKey(v.user)) > clock
      BY <1>1, <1>2, <2>2, <2>3, <2>4
    <2> QED BY <2>1, <2>5 DEF Present, Exp
  <1>4. ASSUME NEW t \in Tokens, Present(TokenKey(t))
        PROVE  Present(UserKey(Value(TokenKey(t)).user))
    <2>1. PICK v : v = Value(TokenKey(t)) /\ TokenKey(t) \in Key
      BY KeyInKey
    <2>2. UserKey(v.user) \in Key
      BY <1>4, <2>1, NamedUsers, KeyInKey
    <2>3. Exp(UserKey(v.user)) >= Exp(TokenKey(t))
      BY <1>4, <2>1 DEF LifeInv, TokenCovered
    <2>4. Exp(TokenKey(t)) > clock
      BY <1>4 DEF Present, Exp
    <2>5. Exp(UserKey(v.user)) > clock
      BY <1>1, <1>2, <2>1, <2>2, <2>3, <2>4
    <2> QED BY <2>1, <2>5 DEF Present, Exp
  <1>5. ASSUME NEW s \in Sessions, SessionLive(s),
               clock + 2 * MaxDelay < Value(SessionKey(s)).expires
        PROVE  Authenticated(s)
    <2>1. PICK v, end : v = Value(SessionKey(s)) /\ end = Exp(SessionKey(s))
      OBVIOUS
    <2>2. Present(SessionKey(s)) /\ SessionKey(s) \in Key
      BY <1>5, KeyInKey DEF SessionLive
    <2>3. v.user \in UserIds /\ UserKey(v.user) \in Key /\ end \in Nat
      BY <1>1, <2>1, <2>2, NamedUsers, KeyInKey
    <2>4. v.expires = end /\ Nearly(end, v.user)
      BY <2>1, <2>2 DEF LifeInv, SessionCovered
    <2>5. Exp(UserKey(v.user)) > clock
      <3>1. clock + 2 * MaxDelay < end
        BY <1>5, <2>1, <2>4
      <3> QED BY <1>1, <1>2, <2>3, <2>4, <3>1 DEF Nearly
    <2> QED BY <1>5, <2>1, <2>5 DEF Authenticated, Present, Exp
  <1> QED BY <1>3, <1>4, <1>5 DEF NoDanglingUser

(* complete writes the user record before the code, and its time to live   *)
(* covers what the code is exchanged into (server.go, complete;            *)
(* web_auth.go, webCallback).  If no request takes longer than MaxDelay,   *)
(* and two slow requests fit between the times to live as they do by days  *)
(* and hours in the code, then no code and no bearer token refers to a     *)
(* record that is gone, and a browser session does in its last 2*MaxDelay  *)
(* at most, whatever else fails or comes in between.                       *)
THEOREM UsersOutlive ==
    ASSUME LifeAssumption
    PROVE  Spec => []NoDanglingUser
  <1>1. Init => SInv /\ TimeInv /\ LifeInv
    BY SInvInductive, TimeInit, LifeInit
  <1>2. SInv /\ TimeInv /\ LifeInv /\ [Next]_vars
            => (SInv /\ TimeInv /\ LifeInv)'
    BY SInvInductive, TimeStep, LifeStep DEF SInv, TInv
  <1>3. SInv /\ LifeInv => NoDanglingUser
    BY CoveredIsPresent DEF SInv, TInv
  <1> QED BY <1>1, <1>2, <1>3, PTL DEF Spec

-----------------------------------------------------------------------------
(* Why a form and a code serve once when requests do not overlap.  Two     *)
(* requests that both read the form, or the code, before either deletes it *)
(* are both served (run double_complete); Serial says that this does not   *)
(* happen, and nothing else about the order of the requests.               *)

SerialForms ==
    \A r, q \in Requests :
        (/\ At(r, "complete.delete") /\ At(q, "complete.delete")
         /\ req[r].pending.grant = req[q].pending.grant)
        => r = q

SerialCodes ==
    \A r, q \in Requests :
        (/\ At(r, "token.delete") /\ At(q, "token.delete")
         /\ req[r].code = req[q].code)
        => r = q

Serial == SerialForms /\ SerialCodes

HoldsForm(r, a) == req[r].at \in FormLabels /\ req[r].pending.grant = a

Answers(r, a) == req[r].at \in AnsweredLabels /\ req[r].pending.grant = a

(* A request that has deleted the form is the only one that holds it, and  *)
(* nobody holds a form whose code is out.                                  *)
FormOnce ==
    /\ \A x \in codeLog :
           grants[x.grant] # None /\ grants[x.grant].state = x.state
    /\ \A r, q \in Requests : \A a \in AtlCodes :
           Answers(r, a) /\ HoldsForm(q, a) => q = r
    /\ \A x \in codeLog : \A r \in Requests : ~ HoldsForm(r, x.grant)
    /\ FormAnsweredOnce

LEMMA FormOnceInit == Init => FormOnce
  BY DEF Init, FormOnce, Answers, HoldsForm, Idle, AnsweredLabels, FormLabels,
         FormAnsweredOnce

LEMMA FormOnceFrame ==
    ASSUME StateOK, FormOnce, UNCHANGED codeLog,
           \A a \in AtlCodes : grants[a] # None => grants'[a] = grants[a],
           \A r \in Requests : \A a \in AtlCodes :
               /\ HoldsForm(r, a)' => HoldsForm(r, a)
               /\ Answers(r, a)' => Answers(r, a)
    PROVE  FormOnce'
  <1>1. \A x \in codeLog : x.grant \in AtlCodes
    BY PendingGrant
  <1>2. \A x \in codeLog' :
            grants'[x.grant] # None /\ grants'[x.grant].state = x.state
    BY <1>1 DEF FormOnce
  <1>3. \A r, q \in Requests : \A a \in AtlCodes :
            Answers(r, a)' /\ HoldsForm(q, a)' => q = r
    BY DEF FormOnce
  <1>4. \A x \in codeLog' : \A r \in Requests : ~ HoldsForm(r, x.grant)'
    BY <1>1 DEF FormOnce
  <1>5. FormAnsweredOnce'
    BY DEF FormOnce, FormAnsweredOnce
  <1> QED BY <1>2, <1>3, <1>4, <1>5 DEF FormOnce, HoldsForm

LEMMA FormOnceOutside ==
    ASSUME StateOK, FormOnce, UNCHANGED codeLog,
           \A a \in AtlCodes : grants[a] # None => grants'[a] = grants[a],
           LeavesOut(FormLabels)
    PROVE  FormOnce'
  <1>1. \A r \in Requests : \A a \in AtlCodes :
            /\ HoldsForm(r, a)' => HoldsForm(r, a)
            /\ Answers(r, a)' => Answers(r, a)
    BY DEF LeavesOut, HoldsForm, Answers, AnsweredLabels, FormLabels
  <1> QED BY <1>1, FormOnceFrame

LEMMA FormOnceComplete ==
    ASSUME StateOK, DanceInv, GrantInv, FormOnce, NEW r \in Requests,
           NEW s \in States, NEW site \in Sites, complete(r, s, site)
    PROVE  FormOnce'
  <1>1. PICK p : p = Value(PendingKey(s))
    OBVIOUS
  <1>2. PICK a \in AtlCodes : a = p.grant
    BY <1>1, PendingGrant DEF complete
  <1>3. /\ Present(PendingKey(s)) /\ grants[a].state = s
        /\ ~ NoForm(s, a)
    BY <1>1, <1>2 DEF complete, DanceInv, PendingEntries, PendingOK, NoForm
  <1>4. /\ req'[r].at = "complete.delete" /\ req'[r].pending = p
        /\ \A q \in Requests : q # r => req'[q] = req[q]
    <2>1. /\ req'[r] = [at |-> "complete.delete", state |-> s, site |-> site,
                        pending |-> p]
          /\ \A q \in Requests : q # r => req'[q] = req[q]
      BY <1>1, ContinueEffect DEF complete, StateOK
    <2> QED BY <2>1
  <1>5. \A q \in Requests : ~ Answers(q, a)
    <2> SUFFICES ASSUME NEW q \in Requests, Answers(q, a)
                 PROVE  FALSE
      OBVIOUS
    <2>1. NoForm(req[q].state, a)
      BY DEF GrantInv, FormRight, Answers
    <2>2. grants[a].state = req[q].state
      BY DEF DanceInv, Right, PendingOK, Answers, AnsweredLabels, FormLabels
    <2> QED BY <1>3, <2>1, <2>2
  <1>6. \A x \in codeLog : x.grant # a
    BY <1>3 DEF GrantInv, FormsAnswered, FormOnce
  <1>7. \A q \in Requests : \A b \in AtlCodes :
            /\ HoldsForm(q, b)' => HoldsForm(q, b) \/ (q = r /\ b = a)
            /\ Answers(q, b)' => Answers(q, b) /\ q # r
    BY <1>2, <1>4 DEF HoldsForm, Answers, AnsweredLabels
  <1>8. UNCHANGED <<grants, codeLog>>
    BY DEF complete, external, logs
  <1>9. \A q, o \in Requests : \A b \in AtlCodes :
            Answers(q, b)' /\ HoldsForm(o, b)' => o = q
    BY <1>5, <1>7 DEF FormOnce
  <1>10. \A x \in codeLog' : \A q \in Requests : ~ HoldsForm(q, x.grant)'
    BY <1>6, <1>7, <1>8, PendingGrant DEF FormOnce
  <1>11. FormAnsweredOnce'
    BY <1>8 DEF FormOnce, FormAnsweredOnce
  <1> QED BY <1>8, <1>9, <1>10, <1>11 DEF FormOnce, HoldsForm

LEMMA FormOnceDelete ==
    ASSUME StateOK, SerialForms, FormOnce, NEW r \in Requests,
           completeDelete(r)
    PROVE  FormOnce'
  <1>1. PICK h : h = req[r] /\ h.at = "complete.delete"
    BY DEF completeDelete, At
  <1>2. h \in [at : {"complete.delete"}, state : States, site : Sites,
               pending : Pending]
    BY <1>1 DEF StateOK, Handler, Idle
  <1>3. /\ req'[r].at = "complete.client" /\ req'[r].pending = h.pending
        /\ \A q \in Requests : q # r => req'[q] = req[q]
    BY <1>1, <1>2, ContinueEffect DEF completeDelete, StateOK
  <1>4. \A q \in Requests : \A b \in AtlCodes :
            HoldsForm(q, b)' => HoldsForm(q, b)
    BY <1>1, <1>3 DEF HoldsForm, FormLabels
  <1>5. \A q \in Requests : \A b \in AtlCodes :
            Answers(q, b)' => Answers(q, b) \/ (q = r /\ HoldsForm(r, b))
    BY <1>1, <1>3 DEF HoldsForm, Answers, FormLabels
  <1>6. \A q \in Requests : \A b \in AtlCodes :
            HoldsForm(r, b) /\ HoldsForm(q, b) => Answers(q, b) \/ q = r
    BY <1>1 DEF SerialForms, HoldsForm, Answers, AnsweredLabels, FormLabels,
                At
  <1>7. UNCHANGED <<grants, codeLog>>
    BY DEF completeDelete, external, logs
  <1>8. \A q, o \in Requests : \A b \in AtlCodes :
            Answers(q, b)' /\ HoldsForm(o, b)' => o = q
    BY <1>4, <1>5, <1>6 DEF FormOnce
  <1>9. \A x \in codeLog' : \A q \in Requests : ~ HoldsForm(q, x.grant)'
    BY <1>4, <1>7, PendingGrant DEF FormOnce
  <1>10. FormAnsweredOnce'
    BY <1>7 DEF FormOnce, FormAnsweredOnce
  <1> QED BY <1>7, <1>8, <1>9, <1>10 DEF FormOnce, HoldsForm

LEMMA FormOnceOn ==
    ASSUME StateOK, FormOnce, NEW r \in Requests
    PROVE  /\ completeClient(r) => FormOnce'
           /\ completeUser(r) => FormOnce'
  <1>1. ASSUME completeClient(r)
        PROVE  FormOnce'
    <2>1. PICK p : p = req[r].pending /\ req[r].at = "complete.client"
      BY <1>1 DEF completeClient, At
    <2>2. \/ Respond(r)
          \/ \E u, ttl :
                Continue(r, [at |-> "complete.user", state |-> req[r].state,
                             site |-> req[r].site, pending |-> p,
                             user |-> u, ttl |-> ttl])
      BY <1>1, <2>1 DEF completeClient
    <2>3. /\ req'[r].at = "idle" \/ req'[r].pending = p
          /\ \A q \in Requests : q # r => req'[q] = req[q]
      <3>1. CASE Respond(r)
        BY <3>1, ContinueEffect DEF Respond, Idle, StateOK
      <3>2. ASSUME NEW u, NEW ttl,
                   Continue(r, [at |-> "complete.user",
                                state |-> req[r].state,
                                site |-> req[r].site, pending |-> p,
                                user |-> u, ttl |-> ttl])
            PROVE  /\ req'[r].pending = p
                   /\ \A q \in Requests : q # r => req'[q] = req[q]
        <4>1. /\ req'[r] = [at |-> "complete.user", state |-> req[r].state,
                            site |-> req[r].site, pending |-> p,
                            user |-> u, ttl |-> ttl]
              /\ \A q \in Requests : q # r => req'[q] = req[q]
          BY <3>2, ContinueEffect DEF StateOK
        <4> QED BY <4>1
      <3> QED BY <2>2, <3>1, <3>2
    <2>4. \A q \in Requests : \A a \in AtlCodes :
              /\ HoldsForm(q, a)' => HoldsForm(q, a)
              /\ Answers(q, a)' => Answers(q, a)
      BY <2>1, <2>3 DEF HoldsForm, Answers, FormLabels, AnsweredLabels
    <2> QED BY <1>1, <2>4, FormOnceFrame DEF completeClient, external, logs
  <1>2. ASSUME completeUser(r)
        PROVE  FormOnce'
    <2>1. PICK h : /\ h = req[r]
                   /\ h \in [at : {"complete.user"}, state : States,
                             site : Sites, pending : Pending,
                             user : UserIds, ttl : Nat]
      BY <1>2 DEF StateOK, completeUser, At, Handler, Idle
    <2>2. /\ req'[r].pending = h.pending
          /\ \A q \in Requests : q # r => req'[q] = req[q]
      BY <1>2, <2>1, ContinueEffect DEF completeUser, StateOK
    <2>3. \A q \in Requests : \A a \in AtlCodes :
              /\ HoldsForm(q, a)' => HoldsForm(q, a)
              /\ Answers(q, a)' => Answers(q, a)
      BY <2>1, <2>2 DEF HoldsForm, Answers, FormLabels, AnsweredLabels
    <2> QED BY <1>2, <2>3, FormOnceFrame DEF completeUser, external, logs
  <1> QED BY <1>1, <1>2

LEMMA FormOnceCode ==
    ASSUME StateOK, DanceInv, FormOnce, NEW r \in Requests, NEW c \in Codes,
           completeCode(r, c)
    PROVE  FormOnce'
  <1>1. PICK p, s : p = req[r].pending /\ s = req[r].state
    OBVIOUS
  <1>2. PICK a \in AtlCodes : a = p.grant
    BY <1>1, PendingGrant DEF completeCode, At, FormLabels
  <1>3. PICK x : /\ x = [code |-> c, state |-> s, client |-> p.auth.client,
                         grant |-> a, user |-> req[r].user]
                 /\ codeLog' = codeLog \union {x}
    BY <1>1, <1>2 DEF completeCode
  <1>4. Answers(r, a)
    BY <1>1, <1>2 DEF completeCode, At, Answers, AnsweredLabels
  <1>5. grants[a] # None /\ grants[a].state = s
    BY <1>1, <1>2 DEF completeCode, At, DanceInv, Right, PendingOK, FormLabels
  <1>6. /\ req'[r].at = "idle"
        /\ \A q \in Requests : q # r => req'[q] = req[q]
    BY ContinueEffect DEF completeCode, Respond, Idle, StateOK
  <1>7. \A q \in Requests : \A b \in AtlCodes :
            /\ HoldsForm(q, b)' => HoldsForm(q, b) /\ q # r
            /\ Answers(q, b)' => Answers(q, b)
    BY <1>6 DEF HoldsForm, Answers, FormLabels, AnsweredLabels
  <1>8. \A y \in codeLog : y.grant # a
    BY <1>4 DEF FormOnce, HoldsForm, Answers, AnsweredLabels, FormLabels
  <1>9. UNCHANGED grants
    BY DEF completeCode, external
  <1>10. \A y \in codeLog' :
             grants'[y.grant] # None /\ grants'[y.grant].state = y.state
    BY <1>3, <1>5, <1>9 DEF FormOnce
  <1>11. \A q, o \in Requests : \A b \in AtlCodes :
            Answers(q, b)' /\ HoldsForm(o, b)' => o = q
    BY <1>7 DEF FormOnce
  <1>12. \A y \in codeLog' : \A q \in Requests : ~ HoldsForm(q, y.grant)'
    <2>1. \A q \in Requests : ~ HoldsForm(q, a)'
      BY <1>4, <1>7 DEF FormOnce
    <2>2. \A y \in codeLog : \A q \in Requests : ~ HoldsForm(q, y.grant)'
      BY <1>7, PendingGrant DEF FormOnce
    <2>3. x.grant = a
      BY <1>3
    <2> QED BY <1>3, <2>1, <2>2, <2>3
  <1>13. FormAnsweredOnce'
    BY <1>3, <1>8 DEF FormOnce, FormAnsweredOnce
  <1> QED BY <1>10, <1>11, <1>12, <1>13 DEF FormOnce, HoldsForm

LEMMA FormOnceStep ==
    ASSUME StateOK, DanceInv, GrantInv, SerialForms, FormOnce, [Next]_vars
    PROVE  FormOnce'
  <1>1. LeavesOut(SpendLabels) => LeavesOut(FormLabels)
    BY DEF LeavesOut, SpendLabels
  <1>2. Aside => FormOnce'
    BY <1>1, FormOnceOutside DEF Aside
  <1>3. (\E x \in tokenLog : revoke(x.token)) => FormOnce'
    BY FormOnceOutside DEF revoke, external, logs, LeavesOut
  <1>4. ASSUME NEW r \in Requests
        PROVE  /\ \A c \in Codes, client \in ClientIds, uri \in Redirects,
                     v \in Verifiers :
                      token(r, c, client, uri, v) => FormOnce'
               /\ tokenDelete(r) => FormOnce'
               /\ \A t \in Tokens : tokenPut(r, t) => FormOnce'
    <2>1. ASSUME NEW c \in Codes, NEW client \in ClientIds,
                 NEW uri \in Redirects, NEW v \in Verifiers,
                 token(r, c, client, uri, v)
          PROVE  FormOnce'
      <3>1. LeavesOut(FormLabels)
        BY <2>1, ContinueLeavesOut DEF token, FormLabels, StateOK
      <3> QED BY <2>1, <3>1, FormOnceOutside DEF token, external, logs
    <2>2. ASSUME tokenDelete(r)
          PROVE  FormOnce'
      <3>1. LeavesOut(FormLabels)
        BY <2>2, MoveLeavesOut DEF tokenDelete, FormLabels
      <3> QED BY <2>2, <3>1, FormOnceOutside DEF tokenDelete, external, logs
    <2>3. ASSUME NEW t \in Tokens, tokenPut(r, t)
          PROVE  FormOnce'
      <3>1. LeavesOut(FormLabels)
        BY <2>3, ContinueLeavesOut
           DEF tokenPut, Respond, Idle, FormLabels, StateOK
      <3> QED BY <2>3, <3>1, FormOnceOutside DEF tokenPut, external
    <2> QED BY <2>1, <2>2, <2>3
  <1>5. ASSUME NEW r \in Requests
        PROVE  /\ webCallbackCode(r) => FormOnce'
               /\ webCallbackTake(r) => FormOnce'
               /\ \A s \in Sessions : webCallbackSession(r, s) => FormOnce'
    <2>1. LeavesOut(SignInLabels) => LeavesOut(FormLabels)
      BY DEF LeavesOut, SignInLabels
    <2>2. Quiet => FormOnce'
      BY <2>1, FormOnceOutside DEF Quiet
    <2> QED BY <2>2, QuietWebCallbackCode, QuietWebCallbackTake,
               QuietWebCallbackSession
  <1>6. Tick => FormOnce'
    BY FormOnceOutside DEF Tick, external, logs, LeavesOut
  <1>7. Aimed => FormOnce'
    BY <1>3, <1>4, <1>5, <1>6, FormOnceComplete, FormOnceDelete, FormOnceOn,
       FormOnceCode DEF Aimed
  <1> QED BY <1>2, <1>7, AimedOrAside

HoldsCode(r, c) == req[r].at \in TokenLabels /\ req[r].code = c

Redeems(r, c) == req[r].at = "token.put" /\ req[r].code = c

(* A bearer token per code, unless the Delete of the code failed. *)
MintedOnce ==
    \A x, y \in tokenLog : x.code = y.code => x = y \/ x.code \in kept

(* A code that a request is past deleting is in nobody else's hands, and   *)
(* one a token was minted for is in nobody's, unless its Delete failed.    *)
CodeOnce ==
    /\ \A r, q \in Requests : \A c \in Codes :
           Redeems(r, c) /\ HoldsCode(q, c) => q = r \/ c \in kept
    /\ \A x \in tokenLog : \A r \in Requests :
           HoldsCode(r, x.code) => x.code \in kept
    /\ MintedOnce

LEMMA CodeOnceInit == Init => CodeOnce
  BY DEF Init, CodeOnce, HoldsCode, Redeems, Idle, TokenLabels, MintedOnce

LEMMA MintedCodes ==
    ASSUME StateOK
    PROVE  \A x \in tokenLog : x.code \in Codes
  BY DEF StateOK, LogsOK

LEMMA CodeOnceFrame ==
    ASSUME StateOK, CodeOnce, UNCHANGED tokenLog, kept \subseteq kept',
           \A r \in Requests : \A c \in Codes :
               /\ HoldsCode(r, c)' => HoldsCode(r, c)
               /\ Redeems(r, c)' => Redeems(r, c)
    PROVE  CodeOnce'
  <1>1. \A r, q \in Requests : \A c \in Codes :
            Redeems(r, c)' /\ HoldsCode(q, c)' => q = r \/ c \in kept'
    BY DEF CodeOnce
  <1>2. \A x \in tokenLog' : \A r \in Requests :
            HoldsCode(r, x.code)' => x.code \in kept'
    BY MintedCodes DEF CodeOnce
  <1>3. MintedOnce'
    BY DEF CodeOnce, MintedOnce
  <1> QED BY <1>1, <1>2, <1>3 DEF CodeOnce, HoldsCode, Redeems

LEMMA CodeOnceOutside ==
    ASSUME StateOK, CodeOnce, UNCHANGED tokenLog, kept \subseteq kept',
           LeavesOut(TokenLabels)
    PROVE  CodeOnce'
  <1>1. \A r \in Requests : \A c \in Codes :
            /\ HoldsCode(r, c)' => HoldsCode(r, c)
            /\ Redeems(r, c)' => Redeems(r, c)
    BY DEF LeavesOut, HoldsCode, Redeems, TokenLabels
  <1> QED BY <1>1, CodeOnceFrame

(* A code that token finds in the store and no Delete failed on is not     *)
(* redeemed yet.                                                           *)
LEMMA CodeOnceToken ==
    ASSUME StateOK, GoneInv, CodeOnce, NEW r \in Requests, NEW c \in Codes,
           NEW client \in ClientIds, NEW uri \in Redirects,
           NEW v \in Verifiers, token(r, c, client, uri, v)
    PROVE  CodeOnce'
  <1>1. Served(c) => c \in kept
    BY DEF token, GoneInv
  <1>2. /\ UNCHANGED <<tokenLog, kept>>
        /\ req'[r].at = "token.delete" /\ req'[r].code = c
        /\ \A q \in Requests : q # r => req'[q] = req[q]
    <2>1. PICK u : Continue(r, [at |-> "token.delete", code |-> c,
                                client |-> client, verifier |-> v,
                                user |-> u])
      BY DEF token
    <2>2. /\ req'[r] = [at |-> "token.delete", code |-> c,
                        client |-> client, verifier |-> v, user |-> u]
          /\ \A q \in Requests : q # r => req'[q] = req[q]
      BY <2>1, ContinueEffect DEF StateOK
    <2> QED BY <2>2 DEF token, logs
  <1>3. \A q \in Requests : \A d \in Codes :
            /\ HoldsCode(q, d)' => HoldsCode(q, d) \/ (q = r /\ d = c)
            /\ Redeems(q, d)' => Redeems(q, d) /\ q # r
    BY <1>2 DEF HoldsCode, Redeems
  <1>4. \A q \in Requests : Redeems(q, c) => c \in kept
    BY <1>1 DEF Served, Redeems
  <1>5. \A x \in tokenLog : x.code = c => c \in kept
    BY <1>1 DEF Served
  <1>6. \A q, o \in Requests : \A d \in Codes :
            Redeems(q, d)' /\ HoldsCode(o, d)' => o = q \/ d \in kept'
    BY <1>2, <1>3, <1>4 DEF CodeOnce
  <1>7. \A x \in tokenLog' : \A q \in Requests :
            HoldsCode(q, x.code)' => x.code \in kept'
    BY <1>2, <1>3, <1>5, MintedCodes DEF CodeOnce
  <1>8. MintedOnce'
    BY <1>2 DEF CodeOnce, MintedOnce
  <1> QED BY <1>6, <1>7, <1>8 DEF CodeOnce, HoldsCode, Redeems

LEMMA CodeOnceDelete ==
    ASSUME StateOK, SerialCodes, CodeOnce, NEW r \in Requests,
           tokenDelete(r)
    PROVE  CodeOnce'
  <1>1. PICK h : /\ h = req[r]
                 /\ h \in [at : {"token.delete"}, code : Codes,
                           client : ClientIds, verifier : Verifiers,
                           user : UserIds]
    BY DEF StateOK, tokenDelete, At, Handler, Idle
  <1>2. PICK c \in Codes : c = h.code
    BY <1>1
  <1>3. UNCHANGED tokenLog /\ kept \subseteq kept'
    BY DEF tokenDelete
  <1>4. /\ req'[r].at = "token.put" /\ req'[r].code = c
        /\ \A q \in Requests : q # r => req'[q] = req[q]
    BY <1>1, <1>2, ContinueEffect DEF tokenDelete, StateOK
  <1>5. \A q \in Requests : \A d \in Codes :
            /\ HoldsCode(q, d)' => HoldsCode(q, d)
            /\ Redeems(q, d)' => Redeems(q, d) \/ (q = r /\ d = c)
    BY <1>1, <1>2, <1>4 DEF HoldsCode, Redeems, TokenLabels
  <1>6. HoldsCode(r, c)
    BY <1>1, <1>2 DEF HoldsCode, TokenLabels
  <1>7. \A q \in Requests : HoldsCode(q, c) => q = r \/ c \in kept
    <2> SUFFICES ASSUME NEW q \in Requests, HoldsCode(q, c)
                 PROVE  q = r \/ c \in kept
      OBVIOUS
    <2>1. CASE Redeems(q, c)
      BY <1>6, <2>1 DEF CodeOnce
    <2>2. CASE ~ Redeems(q, c)
      BY <1>1, <1>2, <2>2 DEF SerialCodes, HoldsCode, Redeems, TokenLabels, At
    <2> QED BY <2>1, <2>2
  <1>8. \A q, o \in Requests : \A d \in Codes :
            Redeems(q, d)' /\ HoldsCode(o, d)' => o = q \/ d \in kept'
    BY <1>3, <1>5, <1>7 DEF CodeOnce
  <1>9. \A x \in tokenLog' : \A q \in Requests :
            HoldsCode(q, x.code)' => x.code \in kept'
    BY <1>3, <1>5, MintedCodes DEF CodeOnce
  <1>10. MintedOnce'
    BY <1>3 DEF CodeOnce, MintedOnce
  <1> QED BY <1>8, <1>9, <1>10 DEF CodeOnce, HoldsCode, Redeems

LEMMA CodeOncePut ==
    ASSUME StateOK, CodeOnce, NEW r \in Requests, NEW t \in Tokens,
           tokenPut(r, t)
    PROVE  CodeOnce'
  <1>1. PICK c \in Codes : c = req[r].code /\ req[r].at = "token.put"
    BY HandlerTyped DEF tokenPut, At, TokenLabels
  <1>2. PICK x : /\ x = [token |-> t, code |-> c, client |-> req[r].client,
                         verifier |-> req[r].verifier, user |-> req[r].user]
                 /\ tokenLog' = tokenLog \union {x}
    BY <1>1 DEF tokenPut
  <1>3. x.code = c
    BY <1>2
  <1>4. Redeems(r, c) /\ HoldsCode(r, c)
    BY <1>1 DEF Redeems, HoldsCode, TokenLabels
  <1>5. UNCHANGED kept /\ Enters({"idle"}) /\ req'[r].at = "idle"
    BY EntersIdle, ContinueEffect DEF tokenPut, Respond, Idle, StateOK
  <1>6. \A q \in Requests : \A d \in Codes :
            /\ HoldsCode(q, d)' => HoldsCode(q, d) /\ q # r
            /\ Redeems(q, d)' => Redeems(q, d)
    BY <1>5 DEF Enters, HoldsCode, Redeems, TokenLabels
  <1>7. \A q, o \in Requests : \A d \in Codes :
            Redeems(q, d)' /\ HoldsCode(o, d)' => o = q \/ d \in kept'
    BY <1>5, <1>6 DEF CodeOnce
  <1>8. \A y \in tokenLog' : \A q \in Requests :
            HoldsCode(q, y.code)' => y.code \in kept'
    <2>1. \A q \in Requests : HoldsCode(q, c)' => c \in kept'
      BY <1>4, <1>5, <1>6 DEF CodeOnce
    <2>2. \A y \in tokenLog : \A q \in Requests :
              HoldsCode(q, y.code)' => y.code \in kept'
      BY <1>5, <1>6, MintedCodes DEF CodeOnce
    <2> QED BY <1>2, <1>3, <2>1, <2>2
  <1>9. MintedOnce'
    <2>1. \A y \in tokenLog : y.code = c => c \in kept
      BY <1>4 DEF CodeOnce
    <2> QED BY <1>2, <1>3, <1>5, <2>1 DEF CodeOnce, MintedOnce
  <1> QED BY <1>7, <1>8, <1>9 DEF CodeOnce, HoldsCode, Redeems

LEMMA CodeOnceStep ==
    ASSUME StateOK, GoneInv, SerialCodes, CodeOnce, [Next]_vars
    PROVE  CodeOnce'
  <1>1. Aside => CodeOnce'
    <2> SUFFICES ASSUME Aside
                 PROVE  CodeOnce'
      OBVIOUS
    <2>1. LeavesOut(TokenLabels)
      BY DEF Aside, LeavesOut, SpendLabels
    <2> QED BY <2>1, CodeOnceOutside DEF Aside
  <1>2. ASSUME NEW x \in tokenLog, revoke(x.token)
        PROVE  CodeOnce'
    BY <1>2, CodeOnceOutside DEF revoke, LeavesOut, logs
  <1>3. ASSUME NEW r \in Requests
        PROVE  /\ \A s \in States, site \in Sites :
                      complete(r, s, site) => CodeOnce'
               /\ completeDelete(r) => CodeOnce'
               /\ completeClient(r) => CodeOnce'
               /\ completeUser(r) => CodeOnce'
               /\ \A c \in Codes : completeCode(r, c) => CodeOnce'
    <2>1. ASSUME NEW s \in States, NEW site \in Sites, complete(r, s, site)
          PROVE  CodeOnce'
      <3>1. LeavesOut(TokenLabels)
        BY <2>1, ContinueLeavesOut DEF complete, TokenLabels, StateOK
      <3> QED BY <2>1, <3>1, CodeOnceOutside DEF complete, logs
    <2>2. ASSUME completeDelete(r)
          PROVE  CodeOnce'
      <3>1. LeavesOut(TokenLabels)
        BY <2>2, MoveLeavesOut DEF completeDelete, TokenLabels
      <3> QED BY <2>2, <3>1, CodeOnceOutside DEF completeDelete, logs
    <2>3. ASSUME completeClient(r)
          PROVE  CodeOnce'
      <3>1. Touches({"idle", "complete.user"}, {}, {})
        BY <2>3, TouchCompleteClient
      <3>2. LeavesOut(TokenLabels)
        BY <3>1 DEF Touches, Enters, LeavesOut, TokenLabels
      <3> QED BY <2>3, <3>2, CodeOnceOutside DEF completeClient, logs
    <2>4. ASSUME completeUser(r)
          PROVE  CodeOnce'
      <3>1. Touches({"complete.code"}, {"mcp:user"}, {})
        BY <2>4, TouchCompleteUser
      <3>2. LeavesOut(TokenLabels)
        BY <3>1 DEF Touches, Enters, LeavesOut, TokenLabels
      <3> QED BY <2>4, <3>2, CodeOnceOutside DEF completeUser, logs
    <2>5. ASSUME NEW c \in Codes, completeCode(r, c)
          PROVE  CodeOnce'
      <3>1. Enters({"idle"})
        BY <2>5, EntersIdle DEF completeCode
      <3>2. LeavesOut(TokenLabels)
        BY <3>1 DEF Enters, LeavesOut, TokenLabels
      <3> QED BY <2>5, <3>2, CodeOnceOutside DEF completeCode
    <2> QED BY <2>1, <2>2, <2>3, <2>4, <2>5
  <1>4. ASSUME NEW r \in Requests
        PROVE  /\ webCallbackCode(r) => CodeOnce'
               /\ webCallbackTake(r) => CodeOnce'
               /\ \A s \in Sessions : webCallbackSession(r, s) => CodeOnce'
    <2>1. LeavesOut(SignInLabels) => LeavesOut(TokenLabels)
      BY DEF LeavesOut, SignInLabels
    <2>2. Quiet /\ UNCHANGED kept => CodeOnce'
      BY <2>1, CodeOnceOutside DEF Quiet
    <2> QED BY <2>2, QuietWebCallbackCode, QuietWebCallbackTake,
               QuietWebCallbackSession
            DEF webCallbackCode, webCallbackTake, webCallbackSession, logs
  <1>5. Tick => CodeOnce'
    BY CodeOnceOutside DEF Tick, logs, LeavesOut
  <1>6. Aimed => CodeOnce'
    BY <1>2, <1>3, <1>4, <1>5, CodeOnceToken, CodeOnceDelete, CodeOncePut
       DEF Aimed
  <1> QED BY <1>1, <1>6, AimedOrAside

(* The invariant of forms and codes, as far as requests are serial. *)
OInv == SInv /\ GrantInv /\ GoneInv /\ FormOnce /\ CodeOnce

LEMMA OInvInductive ==
    /\ Init => OInv
    /\ OInv /\ Serial /\ [Next]_vars => OInv'
  <1>1. Init => OInv
    BY SInvInductive, GrantInit, GoneInit, FormOnceInit, CodeOnceInit DEF OInv
  <1>2. ASSUME OInv, Serial, [Next]_vars
        PROVE  OInv'
    <2>1. SInv'
      BY <1>2, SInvInductive DEF OInv
    <2>2. GrantInv'
      BY <1>2, GrantStep DEF OInv, SInv, TInv
    <2>3. GoneInv'
      BY <1>2, GoneStep DEF OInv, SInv, TInv
    <2>4. FormOnce'
      BY <1>2, FormOnceStep DEF OInv, SInv, TInv, Serial
    <2>5. CodeOnce'
      BY <1>2, CodeOnceStep DEF OInv, SInv, TInv, Serial
    <2> QED BY <2>1, <2>2, <2>3, <2>4, <2>5 DEF OInv
  <1> QED BY <1>1, <1>2

(* "The site/tool selection form cannot be replayed" (server.go, complete) *)
(* and tokens are "minted once per OAuth dance" (docs/deployment/          *)
(* railway.md), after any number of requests, faults and expiries, unless  *)
(* two requests read the same form or code before either deletes it; a     *)
(* code whose Delete failed may serve again, for token ignores the result. *)
THEOREM NothingServesTwice ==
    Spec /\ []Serial => [](FormAnsweredOnce /\ MintedOnce)
  <1>1. OInv => FormAnsweredOnce /\ MintedOnce
    BY DEF OInv, FormOnce, CodeOnce
  <1> QED BY <1>1, OInvInductive, PTL DEF Spec

(* The form needs no Delete to succeed: when it fails, complete stops.     *)
THEOREM FormServesOnce == Spec /\ []SerialForms => []FormAnsweredOnce
  <1>1. Init => SInv /\ GrantInv /\ FormOnce
    BY SInvInductive, GrantInit, FormOnceInit
  <1>2. SInv /\ GrantInv /\ FormOnce /\ SerialForms /\ [Next]_vars
            => (SInv /\ GrantInv /\ FormOnce)'
    BY SInvInductive, GrantStep, FormOnceStep DEF SInv, TInv
  <1>3. FormOnce => FormAnsweredOnce
    BY DEF FormOnce
  <1> QED BY <1>1, <1>2, <1>3, PTL DEF Spec

(* One request at a time is serial: each form then gives one code, and     *)
(* each code one token, unless the code's Delete failed.                   *)
THEOREM OneAtATime ==
    ASSUME \A r, q \in Requests : r = q
    PROVE  Spec => [](FormAnsweredOnce /\ MintedOnce)
  <1>1. Serial
    BY DEF Serial, SerialForms, SerialCodes
  <1> QED BY <1>1, NothingServesTwice, PTL
=============================================================================
