---------------------------- MODULE RemoteOAuth ----------------------------
(***************************************************************************)
(* The sign-in protocol of the remote server: dynamic client registration, *)
(* authorize, the Atlassian callback, the site selection form (complete),  *)
(* the code exchange (token), revoke, and the browser login that runs on   *)
(* top of them (src/internal/remote/server.go and web_auth.go).            *)
(*                                                                         *)
(* A request is handled by a slot of Requests.  A handler is cut into the  *)
(* steps between which another handler may run: one step per store command *)
(* and one for the exchange with Atlassian.  req[r] holds where the        *)
(* handler stands and the local variables it still needs.  The first step  *)
(* of a handler is also the arrival of its request; a request that the     *)
(* first checks refuse changes nothing and has no action.                  *)
(*                                                                         *)
(* Random tokens are drawn from finite sets and never drawn twice.  The    *)
(* logs asked, started, codeLog, tokenLog, sessionLog record what the      *)
(* server told its clients; they decide what a later request may carry and *)
(* what the properties speak about, and no handler reads them.             *)
(***************************************************************************)
EXTENDS ValkeyStore, FiniteSets

CONSTANTS
    ClientIds,   \* OAuth client ids, for MCP clients and browser logins alike
    Redirects,   \* redirect URIs
    WebRedirect, \* one of them: the server's own <origin>/web/callback
    Registrations, \* the sets of redirect URIs clients register
    Verifiers,   \* PKCE verifiers MCP clients generate
    States,      \* values of the external OAuth state parameter
    AtlCodes,    \* authorization codes Atlassian issues
    Accounts,    \* Atlassian accounts
    Sites,       \* Jira sites (cloud ids)
    Codes,       \* authorization codes of this server
    Tokens,      \* MCP bearer tokens
    BrowserIds,  \* random part of "browser:..." user ids
    Logins,      \* browser flow states; one PKCE verifier is drawn with each
    Sessions,    \* browser session tokens; one CSRF token is drawn with each
    Requests     \* handler slots: how many requests are in flight at most

CONSTANTS StateTTL, CodeTTL, TokenTTL, SessionTTL, ClientTTL, UserTTL

CONSTANTS
    MaxClock,     \* bound: time units explored
    MaxFaults,    \* bound: store failures, lost requests, restarts explored
    MaxDelay      \* time units a request may take

ASSUME TTLAssumption ==
    /\ {StateTTL, CodeTTL, TokenTTL, SessionTTL, ClientTTL, UserTTL}
           \subseteq Nat \ {0}
    /\ WebRedirect \in Redirects
    /\ Registrations \subseteq SUBSET Redirects
    /\ MaxDelay \in Nat

VARIABLES
    req,        \* the handler in each slot
    began,      \* when its request arrived
    drawn,      \* random values drawn so far
    grants,     \* what each Atlassian code stands for: a state and an account
    spent,      \* Atlassian codes exchanged
    faults,     \* failures injected so far
    asked,      \* authorize answers: state -> the request it stands for
    started,    \* browser logins begun: [login, client]
    codeLog,    \* authorization codes issued
    tokenLog,   \* bearer tokens issued
    sessionLog, \* browser sessions issued
    kept        \* codes whose Delete failed

vars == <<store, clock, req, began, drawn, grants, spent, faults, asked,
          started, codeLog, tokenLog, sessionLog, kept>>

external == <<grants, spent>>
logs == <<asked, started, codeLog, tokenLog, sessionLog, kept>>

-----------------------------------------------------------------------------
(* Keys: one name space per prefix of the code. *)

ClientKey(c)  == <<"mcp:client", c>>
StateKey(s)   == <<"oauth:state", s>>
PendingKey(s) == <<"oauth:pending", s>>
CodeKey(c)    == <<"oauth:code", c>>
TokenKey(t)   == <<"mcp:token", t>>
UserKey(u)    == <<"mcp:user", u>>
FlowKey(f)    == <<"web:flow", f>>
SessionKey(s) == <<"web:session", s>>

AccountUsers == Accounts \X Sites       \* "<account>:<cloud id>"
UserIds == AccountUsers \union BrowserIds

(* The id of a browser login begins with "browser:", no account id does:   *)
(* the two kinds never meet.                                               *)
ASSUME UserIdsAssumption == AccountUsers \intersect BrowserIds = {}

Key == UNION { {ClientKey(c)  : c \in ClientIds},
               {StateKey(s)   : s \in States},
               {PendingKey(s) : s \in States},
               {CodeKey(c)    : c \in Codes},
               {TokenKey(t)   : t \in Tokens},
               {UserKey(u)    : u \in UserIds},
               {FlowKey(f)    : f \in Logins},
               {SessionKey(s) : s \in Sessions} }

(* The request authorize received; challenge stands for S256(verifier),    *)
(* which is injective, so that verifyPKCE is equality.                     *)
verifyPKCE(challenge, verifier) == challenge = verifier

AuthorizationRequest ==
    [client : ClientIds, redirect : Redirects,
     challenge : Verifiers \union Logins]

Grant == [state : States, account : Accounts]

ASSUME NoneAssumption == None \notin AtlCodes \union Grant \union
                                     AuthorizationRequest

-----------------------------------------------------------------------------
(* Handler slots *)

Idle == [at |-> "idle"]

At(r, label) == req[r].at = label

Continue(r, locals) == req' = [req EXCEPT ![r] = locals]

Respond(r) == Continue(r, Idle)

Fault ==
    /\ faults < MaxFaults
    /\ faults' = faults + 1

randomToken(x) ==
    /\ x \notin drawn
    /\ drawn' = drawn \union {x}

Init ==
    /\ store = [k \in Key |-> Absent]
    /\ clock = 0
    /\ req = [r \in Requests |-> Idle]
    /\ began = [r \in Requests |-> 0]
    /\ drawn = {}
    /\ grants = [a \in AtlCodes |-> None]
    /\ spent = {}
    /\ faults = 0
    /\ asked = [s \in States |-> None]
    /\ started = {}
    /\ codeLog = {}
    /\ tokenLog = {}
    /\ sessionLog = {}
    /\ kept = {}

-----------------------------------------------------------------------------
(* /oauth/register: one store command. *)

register(c, uris) ==
    /\ randomToken(c)
    /\ Put(ClientKey(c), [redirects |-> uris, browser |-> FALSE], ClientTTL)
    /\ UNCHANGED <<clock, req, faults, external, logs>>

(* /oauth/authorize *)

validClient(c, uri) ==
    /\ Present(ClientKey(c))
    /\ uri \in Value(ClientKey(c)).redirects

authorize(r, a) ==
    /\ At(r, "idle")
    /\ validClient(a.client, a.redirect)
    /\ Continue(r, [at |-> "authorize.put", auth |-> a])
    /\ UNCHANGED <<store, clock, drawn, faults, external, logs>>

authorizePut(r, s) ==
    /\ At(r, "authorize.put")
    /\ randomToken(s)
    /\ Put(StateKey(s), req[r].auth, StateTTL)
    /\ asked' = [asked EXCEPT ![s] = req[r].auth]
    /\ Respond(r)
    /\ UNCHANGED <<clock, faults, external, started, codeLog, tokenLog,
                   sessionLog, kept>>

-----------------------------------------------------------------------------
(* /oauth/callback.  Atlassian redirects the browser here with the state   *)
(* and a code the user's consent produced (or an error, code = None); the  *)
(* browser may load the same URL again.                                    *)

Consent(s, code) ==
    \/ /\ code = None
       /\ UNCHANGED grants
    \/ /\ code \in AtlCodes
       /\ grants[code] = None
       /\ \E a \in Accounts :
              grants' = [grants EXCEPT ![code] = [state |-> s, account |-> a]]
    \/ /\ code \in AtlCodes
       /\ grants[code] # None
       /\ grants[code].state = s
       /\ UNCHANGED grants

callback(r, s, code) ==
    /\ At(r, "idle")
    /\ asked[s] # None
    /\ Consent(s, code)
    /\ Present(StateKey(s))
    /\ Continue(r, [at |-> "callback.delete", state |-> s, grant |-> code,
                    auth |-> Value(StateKey(s))])
    /\ UNCHANGED <<store, clock, drawn, spent, faults, logs>>

(* Mutant: an error parameter in the redirect goes unnoticed. *)
callbackDeleteAnyway(r) ==
    /\ At(r, "callback.delete")
    /\ Delete(StateKey(req[r].state))
    /\ Continue(r, [req[r] EXCEPT !.at = "callback.exchange"])
    /\ UNCHANGED <<clock, drawn, external, logs, faults>>

(* The result of Delete is ignored: a failed command goes unnoticed. *)
callbackDelete(r) ==
    /\ At(r, "callback.delete")
    /\ \/ Delete(StateKey(req[r].state)) /\ UNCHANGED faults
       \/ Fault /\ UNCHANGED store
    /\ IF req[r].grant = None
       THEN Respond(r)
       ELSE Continue(r, [req[r] EXCEPT !.at = "callback.exchange"])
    /\ UNCHANGED <<clock, drawn, external, logs>>

(* Atlassian exchanges a code once.  The calls that follow with the fresh  *)
(* access token tell the sites it may reach and the account it is for.     *)
exchangeAtlassian(r, sites) ==
    /\ At(r, "callback.exchange")
    /\ \/ /\ req[r].grant \notin spent
          /\ spent' = spent \union {req[r].grant}
          /\ Continue(r, [at |-> "callback.put", state |-> req[r].state,
                          auth |-> req[r].auth, grant |-> req[r].grant,
                          sites |-> sites])
       \/ /\ req[r].grant \in spent
          /\ Respond(r)
          /\ UNCHANGED spent
    /\ UNCHANGED <<store, clock, drawn, grants, faults, logs>>

callbackPut(r) ==
    /\ At(r, "callback.put")
    /\ Put(PendingKey(req[r].state),
           [auth |-> req[r].auth, grant |-> req[r].grant,
            account |-> grants[req[r].grant].account, sites |-> req[r].sites],
           StateTTL)
    /\ Respond(r)
    /\ UNCHANGED <<clock, drawn, faults, external, logs>>

-----------------------------------------------------------------------------
(* /oauth/complete: the site and tool selection form. *)

complete(r, s, site) ==
    /\ At(r, "idle")
    /\ Present(PendingKey(s))
    /\ site \in Value(PendingKey(s)).sites
    /\ Continue(r, [at |-> "complete.delete", state |-> s, site |-> site,
                    pending |-> Value(PendingKey(s))])
    /\ UNCHANGED <<store, clock, drawn, faults, external, logs>>

(* Mutant: the form is not consumed. *)
completeKeep(r) ==
    /\ At(r, "complete.delete")
    /\ Continue(r, [req[r] EXCEPT !.at = "complete.client"])
    /\ UNCHANGED <<store, clock, drawn, faults, external, logs>>

completeDelete(r) ==
    /\ At(r, "complete.delete")
    /\ Delete(PendingKey(req[r].state))
    /\ Continue(r, [req[r] EXCEPT !.at = "complete.client"])
    /\ UNCHANGED <<clock, drawn, faults, external, logs>>

(* Mutant: the record covers the session, not the time to redeem the code. *)
BrowserUserShortTTL == SessionTTL

BrowserUserTTL == SessionTTL + CodeTTL

(* Mutant: a client that is gone counts as an MCP client. *)
ClientIgnored(c) == FALSE

ClientExpired(c) == ~ Present(ClientKey(c))

IsBrowser(c) == Present(ClientKey(c)) /\ Value(ClientKey(c)).browser

(* A browser login gets a user record of its own; an MCP client shares the *)
(* record of its account and site.  A client that expired is refused.      *)
completeClient(r) ==
    LET client == req[r].pending.auth.client
        WriteUser(u, ttl) ==
            Continue(r, [at |-> "complete.user", state |-> req[r].state,
                         site |-> req[r].site, pending |-> req[r].pending,
                         user |-> u, ttl |-> ttl])
    IN  /\ At(r, "complete.client")
        /\ \/ /\ ClientExpired(client)
              /\ Respond(r)
              /\ UNCHANGED drawn
           \/ /\ ~ ClientExpired(client)
              /\ ~ IsBrowser(client)
              /\ WriteUser(<<req[r].pending.account, req[r].site>>, UserTTL)
              /\ UNCHANGED drawn
           \/ /\ ~ ClientExpired(client)
              /\ IsBrowser(client)
              /\ \E b \in BrowserIds :
                     randomToken(b) /\ WriteUser(b, BrowserUserTTL)
        /\ UNCHANGED <<store, clock, faults, external, logs>>

completeUser(r) ==
    /\ At(r, "complete.user")
    /\ Put(UserKey(req[r].user),
           [account |-> req[r].pending.account, site |-> req[r].site,
            grant |-> req[r].pending.grant],
           req[r].ttl)
    /\ Continue(r, [req[r] EXCEPT !.at = "complete.code"])
    /\ UNCHANGED <<clock, drawn, faults, external, logs>>

completeCode(r, c) ==
    LET auth == req[r].pending.auth
    IN  /\ At(r, "complete.code")
        /\ randomToken(c)
        /\ Put(CodeKey(c),
               [user |-> req[r].user, client |-> auth.client,
                redirect |-> auth.redirect, challenge |-> auth.challenge],
               CodeTTL)
        /\ codeLog' = codeLog \union
               {[code |-> c, state |-> req[r].state, client |-> auth.client,
                 grant |-> req[r].pending.grant, user |-> req[r].user]}
        /\ Respond(r)
        /\ UNCHANGED <<clock, faults, external, asked, started, tokenLog,
                       sessionLog, kept>>

-----------------------------------------------------------------------------
(* /oauth/token and /oauth/revoke *)

(* Mutant: any client may redeem the code. *)
CodeMatchesAnyClient(auth, client, redirect, verifier) ==
    /\ auth.redirect = redirect
    /\ verifyPKCE(auth.challenge, verifier)

(* Mutant: no proof of possession. *)
CodeMatchesUnproven(auth, client, redirect, verifier) ==
    auth.redirect = redirect

CodeMatches(auth, client, redirect, verifier) ==
    /\ auth.client = client
    /\ auth.redirect = redirect
    /\ verifyPKCE(auth.challenge, verifier)

token(r, c, client, redirect, verifier) ==
    /\ At(r, "idle")
    /\ Present(CodeKey(c))
    /\ CodeMatches(Value(CodeKey(c)), client, redirect, verifier)
    /\ Continue(r, [at |-> "token.delete", code |-> c, client |-> client,
                    verifier |-> verifier, user |-> Value(CodeKey(c)).user])
    /\ UNCHANGED <<store, clock, drawn, faults, external, logs>>

(* Mutant: the code can be redeemed again. *)
tokenKeep(r) ==
    /\ At(r, "token.delete")
    /\ Continue(r, [req[r] EXCEPT !.at = "token.put"])
    /\ UNCHANGED <<store, clock, drawn, faults, external, logs>>

tokenDelete(r) ==
    /\ At(r, "token.delete")
    /\ \/ Delete(CodeKey(req[r].code)) /\ UNCHANGED <<faults, kept>>
       \/ Fault /\ kept' = kept \union {req[r].code} /\ UNCHANGED store
    /\ Continue(r, [req[r] EXCEPT !.at = "token.put"])
    /\ UNCHANGED <<clock, drawn, external, asked, started, codeLog, tokenLog,
                   sessionLog>>

tokenPut(r, t) ==
    /\ At(r, "token.put")
    /\ randomToken(t)
    /\ Put(TokenKey(t), [user |-> req[r].user], TokenTTL)
    /\ tokenLog' = tokenLog \union
           {[token |-> t, code |-> req[r].code, client |-> req[r].client,
             verifier |-> req[r].verifier, user |-> req[r].user]}
    /\ Respond(r)
    /\ UNCHANGED <<clock, faults, external, asked, started, codeLog,
                   sessionLog, kept>>

(* Always answers 200, whatever became of the Delete. *)
revoke(t) ==
    /\ \/ Delete(TokenKey(t)) /\ UNCHANGED faults
       \/ Fault /\ UNCHANGED store
    /\ UNCHANGED <<clock, req, drawn, external, logs>>

-----------------------------------------------------------------------------
(* /web/login: draws the flow state (with its verifier) and the id of an   *)
(* internal OAuth client, and sends the browser to /oauth/authorize.       *)

webLogin(r, f, c) ==
    /\ At(r, "idle")
    /\ {f, c} \intersect drawn = {}
    /\ drawn' = drawn \union {f, c}
    /\ Put(FlowKey(f),
           [client |-> c, verifier |-> f, expires |-> clock + StateTTL],
           StateTTL)
    /\ Continue(r, [at |-> "login.client", login |-> f, client |-> c])
    /\ UNCHANGED <<clock, faults, external, logs>>

webLoginClient(r) ==
    /\ At(r, "login.client")
    /\ Put(ClientKey(req[r].client),
           [redirects |-> {WebRedirect}, browser |-> TRUE], StateTTL)
    /\ started' = started \union
           {[login |-> req[r].login, client |-> req[r].client]}
    /\ Respond(r)
    /\ UNCHANGED <<clock, drawn, faults, external, asked, codeLog, tokenLog,
                   sessionLog, kept>>

(* /web/callback: the cookie equals the state parameter, and names the     *)
(* flow to consume; the code is whatever the redirect carried.             *)

webCallback(r, f, c) ==
    /\ At(r, "idle")
    /\ Take(FlowKey(f))
    /\ IF clock > Value(FlowKey(f)).expires
       THEN Respond(r)
       ELSE Continue(r, [at |-> "webcallback.code", code |-> c,
                         flow |-> Value(FlowKey(f))])
    /\ UNCHANGED <<clock, drawn, faults, external, logs>>

webCallbackCode(r) ==
    LET flow == req[r].flow
        code == CodeKey(req[r].code)
    IN  /\ At(r, "webcallback.code")
        /\ IF /\ Present(code)
              /\ CodeMatches(Value(code), flow.client, WebRedirect,
                             flow.verifier)
           THEN Continue(r, [at |-> "webcallback.take", code |-> req[r].code,
                             login |-> flow.verifier, auth |-> Value(code)])
           ELSE Respond(r)
        /\ UNCHANGED <<store, clock, drawn, faults, external, logs>>

webCallbackTake(r) ==
    LET code == CodeKey(req[r].code)
    IN  /\ At(r, "webcallback.take")
        /\ \/ /\ Take(code)
              /\ IF Value(code) = req[r].auth
                 THEN Continue(r, [req[r] EXCEPT !.at = "webcallback.session"])
                 ELSE Respond(r)
           \/ /\ ~ Present(code)
              /\ Respond(r)
              /\ UNCHANGED store
        /\ UNCHANGED <<clock, drawn, faults, external, logs>>

webCallbackSession(r, s) ==
    /\ At(r, "webcallback.session")
    /\ randomToken(s)
    /\ Put(SessionKey(s),
           [user |-> req[r].auth.user, csrf |-> s,
            expires |-> clock + SessionTTL], SessionTTL)
    /\ sessionLog' = sessionLog \union
           {[session |-> s, login |-> req[r].login, code |-> req[r].code,
             client |-> req[r].auth.client, user |-> req[r].auth.user]}
    /\ Respond(r)
    /\ UNCHANGED <<clock, faults, external, asked, started, codeLog, tokenLog,
                   kept>>

(* currentWebSession reads the session, then its user record. *)
SessionLive(s) ==
    /\ Present(SessionKey(s))
    /\ clock < Value(SessionKey(s)).expires

Authenticated(s) ==
    /\ SessionLive(s)
    /\ Present(UserKey(Value(SessionKey(s)).user))

(* /web/logout with the CSRF token of session x. *)
webLogout(r, s, x) ==
    /\ At(r, "idle")
    /\ SessionLive(s)
    /\ Continue(r, [at |-> "logout.user", session |-> s, csrf |-> x,
                    read |-> Value(SessionKey(s))])
    /\ UNCHANGED <<store, clock, drawn, faults, external, logs>>

webLogoutUser(r) ==
    /\ At(r, "logout.user")
    /\ IF /\ Present(UserKey(req[r].read.user))
          /\ req[r].csrf = req[r].read.csrf
       THEN Continue(r, [at |-> "logout.delete", session |-> req[r].session])
       ELSE Respond(r)
    /\ UNCHANGED <<store, clock, drawn, faults, external, logs>>

webLogoutDelete(r) ==
    /\ At(r, "logout.delete")
    /\ Delete(SessionKey(req[r].session))
    /\ Respond(r)
    /\ UNCHANGED <<clock, drawn, faults, external, logs>>

-----------------------------------------------------------------------------
(* A handler that stops between two steps: its store command or its call   *)
(* to Atlassian failed, the client went away, or the process restarted.    *)
(* A command that was applied although its reply was lost is the step      *)
(* itself followed by Stop.                                                *)
Stop(r) ==
    /\ ~ At(r, "idle")
    /\ Fault
    /\ Respond(r)
    /\ UNCHANGED <<store, clock, drawn, external, logs>>

(* No request takes longer than MaxDelay. *)
Tick ==
    /\ clock < MaxClock
    /\ \A r \in Requests : ~ At(r, "idle") => clock < began[r] + MaxDelay
    /\ Elapse
    /\ UNCHANGED <<req, began, drawn, faults, external, logs>>

(* What a client may send: an MCP client names any client id and URI, its  *)
(* own or not, and a challenge of its own; a browser follows the redirects *)
(* it was given.                                                           *)

McpRequest(c) ==
    {a \in AuthorizationRequest : a.client = c /\ a.challenge \in Verifiers}

LoginRequest(l) ==
    [client |-> l.client, redirect |-> WebRedirect, challenge |-> l.login]

Arrive(r) ==
    \/ \E c \in ClientIds : \E a \in McpRequest(c) : authorize(r, a)
    \/ \E l \in started : authorize(r, LoginRequest(l))
    \/ \E s \in States, code \in AtlCodes \union {None} : callback(r, s, code)
    \/ \E s \in States, site \in Sites : complete(r, s, site)
    \/ \E x \in codeLog, c \in ClientIds, uri \in Redirects, v \in Verifiers :
           token(r, x.code, c, uri, v)
    \/ \E f \in Logins, c \in ClientIds : webLogin(r, f, c)
    \/ \E l \in started, x \in codeLog : webCallback(r, l.login, x.code)
    \/ \E x, y \in sessionLog : webLogout(r, x.session, y.session)

Proceed(r) ==
    \/ \E s \in States : authorizePut(r, s)
    \/ callbackDelete(r)
    \/ \E sites \in SUBSET Sites : exchangeAtlassian(r, sites)
    \/ callbackPut(r)
    \/ completeDelete(r)
    \/ completeClient(r)
    \/ completeUser(r)
    \/ \E c \in Codes : completeCode(r, c)
    \/ tokenDelete(r)
    \/ \E t \in Tokens : tokenPut(r, t)
    \/ webLoginClient(r)
    \/ webCallbackCode(r)
    \/ webCallbackTake(r)
    \/ \E s \in Sessions : webCallbackSession(r, s)
    \/ webLogoutUser(r)
    \/ webLogoutDelete(r)

(* The time a request arrived is kept until it is answered. *)
Timed(r) ==
    began' = [began EXCEPT ![r] = IF req'[r] = Idle THEN 0
                                  ELSE IF At(r, "idle") THEN clock
                                  ELSE @]

Handle(r) == (Arrive(r) \/ Proceed(r) \/ Stop(r)) /\ Timed(r)

Next ==
    \/ \E c \in ClientIds, uris \in Registrations :
           register(c, uris) /\ UNCHANGED began
    \/ \E x \in tokenLog : revoke(x.token) /\ UNCHANGED began
    \/ \E r \in Requests : Handle(r)
    \/ Tick

Spec == Init /\ [][Next]_vars

-----------------------------------------------------------------------------
(* Properties *)

Pending == [auth : AuthorizationRequest, grant : AtlCodes,
            account : Accounts, sites : SUBSET Sites]
Auth == [user : UserIds, client : ClientIds,
         redirect : Redirects,
         challenge : Verifiers \union Logins]
Flow == [client : ClientIds, verifier : Logins, expires : Nat]
Session == [user : UserIds, csrf : Sessions, expires : Nat]

Entry(V) == {Absent} \union [val : V, exp : Nat]

StoreOK ==
    /\ DOMAIN store = Key
    /\ \A c \in ClientIds : store[ClientKey(c)] \in
           Entry([redirects : SUBSET Redirects,
                  browser : BOOLEAN])
    /\ \A s \in States :
           /\ store[StateKey(s)] \in Entry(AuthorizationRequest)
           /\ store[PendingKey(s)] \in Entry(Pending)
    /\ \A c \in Codes : store[CodeKey(c)] \in Entry(Auth)
    /\ \A t \in Tokens : store[TokenKey(t)] \in Entry([user : UserIds])
    /\ \A u \in UserIds : store[UserKey(u)] \in
           Entry([account : Accounts, site : Sites, grant : AtlCodes])
    /\ \A f \in Logins : store[FlowKey(f)] \in Entry(Flow)
    /\ \A s \in Sessions : store[SessionKey(s)] \in Entry(Session)

(* Every handler step, with the local variables it still needs. *)
Handler ==
    {Idle}
    \union [at : {"authorize.put"}, auth : AuthorizationRequest]
    \union [at : {"callback.delete"}, state : States,
            grant : AtlCodes \union {None}, auth : AuthorizationRequest]
    \union [at : {"callback.exchange"}, state : States,
            grant : AtlCodes, auth : AuthorizationRequest]
    \union [at : {"callback.put"}, state : States,
            auth : AuthorizationRequest, grant : AtlCodes,
            sites : SUBSET Sites]
    \union [at : {"complete.delete", "complete.client"}, state : States,
            site : Sites, pending : Pending]
    \union [at : {"complete.user", "complete.code"}, state : States,
            site : Sites, pending : Pending, user : UserIds, ttl : Nat]
    \union [at : {"token.delete", "token.put"}, code : Codes,
            client : ClientIds, verifier : Verifiers, user : UserIds]
    \union [at : {"login.client"}, login : Logins, client : ClientIds]
    \union [at : {"webcallback.code"}, code : Codes, flow : Flow]
    \union [at : {"webcallback.take", "webcallback.session"}, code : Codes,
            login : Logins, auth : Auth]
    \union [at : {"logout.user"}, session : Sessions, csrf : Sessions,
            read : Session]
    \union [at : {"logout.delete"}, session : Sessions]

LogsOK ==
    /\ asked \in [States -> AuthorizationRequest \union {None}]
    /\ started \subseteq [login : Logins, client : ClientIds]
    /\ codeLog \subseteq [code : Codes, state : States, client : ClientIds,
                          grant : AtlCodes, user : UserIds]
    /\ tokenLog \subseteq [token : Tokens, code : Codes, client : ClientIds,
                           verifier : Verifiers, user : UserIds]
    /\ sessionLog \subseteq [session : Sessions, login : Logins, code : Codes,
                             client : ClientIds, user : UserIds]
    /\ kept \subseteq Codes

StateOK ==
    /\ StoreOK
    /\ clock \in Nat
    /\ req \in [Requests -> Handler]
    /\ grants \in [AtlCodes -> Grant \union {None}]
    /\ spent \subseteq AtlCodes
    /\ faults \in Nat
    /\ LogsOK

(* Type invariant: what the store, the handlers and the logs may hold. *)
TypeOK == StateOK /\ began \in [Requests -> Nat]

(* The dance code x came out of: the client that asked for it, under the   *)
(* challenge it gave, and the consent Atlassian recorded for that state.   *)
Dance(x, challenge) ==
    /\ asked[x.state] # None
    /\ asked[x.state].client = x.client
    /\ asked[x.state].challenge = challenge
    /\ grants[x.grant] # None
    /\ grants[x.grant].state = x.state

(* An account's record is of that account by its key; a browser login has  *)
(* a record of its own.                                                    *)
ActsFor(u, account) ==
    IF u \in BrowserIds
    THEN Present(UserKey(u)) => Value(UserKey(u)).account = account
    ELSE u[1] = account

(* A bearer token is only minted for the client that began the dance and   *)
(* holds its verifier, and acts for the account that consented in that     *)
(* same dance (authorize -> callback -> complete -> token), however        *)
(* requests of several clients interleave, fail or are repeated.  A client *)
(* that goes through a browser login's client id gets the record of that   *)
(* one sign-in, and only such a client does.                               *)
BearerProvenance ==
    \A t \in tokenLog :
        /\ \E x \in codeLog :
               /\ x.code = t.code
               /\ x.client = t.client
               /\ x.user = t.user
               /\ Dance(x, t.verifier)
               /\ ActsFor(t.user, grants[x.grant].account)
        /\ t.user \in BrowserIds <=> \E l \in started : l.client = t.client

(* A browser session belongs to the dance its own login flow began, and to *)
(* a user record that neither an MCP client nor another session shares     *)
(* (web_auth.go, webCallback; server.go, complete).                        *)
SessionProvenance ==
    \A s \in sessionLog :
        /\ \E x \in codeLog :
               /\ x.code = s.code
               /\ x.user = s.user
               /\ x.client = s.client
               /\ Dance(x, s.login)
        /\ [login |-> s.login, client |-> s.client] \in started
        /\ s.user \in BrowserIds
        /\ \A t \in sessionLog : t.user = s.user => t = s

(* ADR-002: browser state and code are consumed atomically, so a login     *)
(* flow and a code each give at most one session, also when the callback   *)
(* is loaded twice at the same time.                                       *)
BrowserLoginOnce ==
    \A s, t \in sessionLog :
        (s.login = t.login \/ s.code = t.code) => s = t

(* ADR-002: a browser login never overwrites the record MCP sessions of    *)
(* the account and site use, not even when its client entry has expired.   *)
BrowserIsolation ==
    \A u \in AccountUsers : Present(UserKey(u)) =>
        \A l \in started :
            asked[grants[Value(UserKey(u)).grant].state].client # l.client

(* complete consumes the form before it issues anything: once a code is    *)
(* out, the pending authorization it came from is gone and stays gone.     *)
FormGoneOnceAnswered ==
    \A x \in codeLog :
        Present(PendingKey(x.state)) =>
            Value(PendingKey(x.state)).grant # x.grant

(* Once a bearer token or a browser session was issued for a code, the     *)
(* code is gone, and a later exchange of it is refused, though exchanges   *)
(* at once may both have read it; unless the exchange could not delete it, *)
(* which token does not notice.                                            *)
CodeGoneOnceRedeemed ==
    \A x \in tokenLog \union sessionLog :
        Present(CodeKey(x.code)) => x.code \in kept

(* Codes and bearer tokens never outlive the user record they refer to,    *)
(* however long the requests in between take, up to MaxDelay each: the     *)
(* record is written first and its time to live covers theirs.  A browser  *)
(* session may, by as much as complete and the callback took.              *)
NoDanglingUser ==
    /\ \A c \in Codes : Present(CodeKey(c)) =>
           Present(UserKey(Value(CodeKey(c)).user))
    /\ \A t \in Tokens : Present(TokenKey(t)) =>
           Present(UserKey(Value(TokenKey(t)).user))
    /\ \A s \in Sessions :
           (/\ SessionLive(s)
            /\ clock + 2 * MaxDelay < Value(SessionKey(s)).expires)
               => Authenticated(s)

(* The site and tool selection form of one consent is answered with one    *)
(* code: "the site/tool selection form cannot be replayed".                *)
FormAnsweredOnce ==
    \A x, y \in codeLog : x.grant = y.grant => x = y
=============================================================================
