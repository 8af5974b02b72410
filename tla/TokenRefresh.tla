---------------------------- MODULE TokenRefresh ----------------------------
(***************************************************************************)
(* How /mcp requests use and renew the Atlassian credentials of a user     *)
(* record (src/internal/remote/server.go: requireAccessToken,              *)
(* userFromRequest, refreshUser and the server factory), while completed   *)
(* sign-ins replace the record.  RemoteOAuth models how a sign-in gets     *)
(* there; here it is the two writes that matter, completeUser and token.   *)
(*                                                                         *)
(* Atlassian names its refresh tokens by a grant (one consent) and a       *)
(* generation: it accepts the generation live[g] only, and a refresh of a  *)
(* rotating grant hands out the next one.  Of an access token only its     *)
(* expiry matters, and of an MCP session what it was built with.           *)
(* Handlers are cut at every store command and at the call to Atlassian.   *)
(***************************************************************************)
EXTENDS ValkeyStore

CONSTANTS
    Users,     \* user ids, "<account>:<cloud id>"
    Bearers,   \* MCP bearer tokens
    ToolSets,  \* tool selections
    Grants,    \* consents given at Atlassian
    Sessions,  \* MCP sessions of the streamable HTTP transport
    Requests,  \* handler slots
    Rotating   \* grants whose refresh tokens Atlassian replaces when used

CONSTANTS TokenTTL, UserTTL, AccessTTL

CONSTANTS
    MaxRotations, \* bound: refresh tokens per grant
    MaxClock,     \* bound: time units explored
    MaxFaults     \* bound: handlers that stop half way

ASSUME RefreshAssumption ==
    /\ {TokenTTL, UserTTL} \subseteq Nat \ {0}
    /\ AccessTTL \in Nat
    /\ Rotating \subseteq Grants
    /\ MaxRotations \in Nat
    /\ None \notin Nat

VARIABLES
    req,      \* the handler in each slot
    live,     \* Atlassian: the generation it accepts for a grant
    chosen,   \* the tools last selected for a user
    minted,   \* the user a bearer token was minted for
    sessions, \* the credentials and tools each MCP session was built with
    calls,    \* tool calls made: when, until when the credentials the
              \* check found are good, and those the session makes it with
    dropped,  \* grants whose renewed credentials a stopped handler held
    faults    \* handlers stopped so far

vars == <<store, clock, req, live, chosen, minted, sessions, calls, dropped,
          faults>>

TokenKey(t) == <<"mcp:token", t>>
UserKey(u)  == <<"mcp:user", u>>

Key == {TokenKey(t) : t \in Bearers} \union {UserKey(u) : u \in Users}

Generations == 0..MaxRotations

(* sealed: the refresh token is stored in the form open() accepts. *)
UserRecord ==
    [grant : Grants, gen : Generations \union {None}, expires : Nat,
     tools : ToolSets, sealed : BOOLEAN]

Idle == [at |-> "idle"]

At(r, label) == req[r].at = label

Continue(r, locals) == req' = [req EXCEPT ![r] = locals]

Respond(r) == Continue(r, Idle)

Init ==
    /\ store = [k \in Key |-> Absent]
    /\ clock = 0
    /\ req = [r \in Requests |-> Idle]
    /\ live = [g \in Grants |-> None]
    /\ chosen = [u \in Users |-> None]
    /\ minted = [t \in Bearers |-> None]
    /\ sessions = [s \in Sessions |-> None]
    /\ calls = {}
    /\ dropped = {}
    /\ faults = 0

-----------------------------------------------------------------------------
(* Mutant: a form without a tool selected is taken as it is. *)
completeUserNoTools(u, g, tools, gen) ==
    /\ live[g] = None
    /\ live' = [live EXCEPT ![g] = 0]
    /\ Put(UserKey(u),
           [grant |-> g, gen |-> gen, expires |-> clock + AccessTTL,
            tools |-> None, sealed |-> TRUE], UserTTL)
    /\ chosen' = [chosen EXCEPT ![u] = tools]
    /\ UNCHANGED <<clock, req, minted, sessions, calls, dropped, faults>>

(* complete writes the user record of a fresh consent.  A consent without  *)
(* offline access comes without a refresh token.                           *)
completeUser(u, g, tools, gen) ==
    /\ live[g] = None
    /\ live' = [live EXCEPT ![g] = 0]
    /\ Put(UserKey(u),
           [grant |-> g, gen |-> gen, expires |-> clock + AccessTTL,
            tools |-> tools, sealed |-> TRUE], UserTTL)
    /\ chosen' = [chosen EXCEPT ![u] = tools]
    /\ UNCHANGED <<clock, req, minted, sessions, calls, dropped, faults>>

token(t, u) ==
    /\ minted[t] = None
    /\ chosen[u] # None
    /\ Put(TokenKey(t), [user |-> u], TokenTTL)
    /\ minted' = [minted EXCEPT ![t] = u]
    /\ UNCHANGED <<clock, req, live, chosen, sessions, calls, dropped, faults>>

-----------------------------------------------------------------------------
(* A request to /mcp names a session it opened before, or none.            *)
(* userFromRequest runs in requireAccessToken ("check"), and again in the  *)
(* factory when the transport needs a server for a new session.            *)

mcp(r, t, s) ==
    /\ At(r, "idle")
    /\ Present(TokenKey(t))
    /\ s # None => sessions[s] # None /\ sessions[s].user = minted[t]
    /\ Continue(r, [at |-> "user", pass |-> "check", bearer |-> t,
                    session |-> s, user |-> Value(TokenKey(t)).user])
    /\ UNCHANGED <<store, clock, live, chosen, minted, sessions, calls,
                   dropped, faults>>

(* The user of request r is authenticated, with record rec. *)
Authenticated(r, rec) ==
    \/ /\ req[r].pass = "check"
       /\ Continue(r, [at |-> "limit", bearer |-> req[r].bearer,
                       session |-> req[r].session, expires |-> rec.expires])
       /\ UNCHANGED sessions
    \/ /\ req[r].pass = "factory"
       /\ \E s \in Sessions :
              /\ sessions[s] = None
              /\ sessions' = [sessions EXCEPT ![s] =
                     [user |-> req[r].user, tools |-> rec.tools,
                      expires |-> rec.expires]]
       /\ Respond(r)

userFromRequest(r) ==
    LET user == UserKey(req[r].user)
        rec  == Value(user)
    IN  /\ At(r, "user")
        /\ \/ /\ Present(user) /\ rec.sealed
              /\ clock <= rec.expires
              /\ Authenticated(r, rec)
           \/ /\ Present(user) /\ rec.sealed
              /\ clock > rec.expires
              /\ rec.gen # None
              /\ Continue(r, [at |-> "refresh", pass |-> req[r].pass,
                              bearer |-> req[r].bearer,
                              session |-> req[r].session,
                              user |-> req[r].user, record |-> rec])
              /\ UNCHANGED sessions
           \/ /\ Present(user) /\ rec.sealed =>
                     clock > rec.expires /\ rec.gen = None
              /\ Respond(r)
              /\ UNCHANGED sessions
        /\ UNCHANGED <<store, clock, live, chosen, minted, calls,
                       dropped, faults>>

(* Mutant: only the access token is taken from the answer. *)
RotatedAccessOnly(rec) == [rec EXCEPT !.expires = clock + AccessTTL]

Rotated(rec) ==
    [rec EXCEPT !.gen = rec.gen + 1, !.expires = clock + AccessTTL]

(* The call to Atlassian.  Without a new refresh token in the answer, the  *)
(* record to store keeps the old one as userFromRequest opened it.         *)
refreshUser(r) ==
    LET rec == req[r].record
        Renew(record) ==
            Continue(r, [at |-> "refresh.put", pass |-> req[r].pass,
                         bearer |-> req[r].bearer, session |-> req[r].session,
                         user |-> req[r].user, record |-> record])
    IN  /\ At(r, "refresh")
        /\ \/ /\ rec.gen = live[rec.grant]
              /\ rec.grant \in Rotating
              /\ rec.gen < MaxRotations
              /\ live' = [live EXCEPT ![rec.grant] = rec.gen + 1]
              /\ Renew(Rotated(rec))
           \/ /\ rec.gen = live[rec.grant]
              /\ rec.grant \notin Rotating
              /\ Renew([rec EXCEPT !.expires = clock + AccessTTL,
                                   !.sealed = FALSE])
              /\ UNCHANGED live
           \/ /\ rec.gen # live[rec.grant]
              /\ Respond(r)
              /\ UNCHANGED live
        /\ UNCHANGED <<store, clock, chosen, minted, sessions, calls, dropped,
                       faults>>

(* Mutant: the write is retried although it succeeded. *)
refreshPutAgain(r) ==
    /\ At(r, "refresh.put")
    /\ Put(UserKey(req[r].user), req[r].record, UserTTL)
    /\ Authenticated(r, req[r].record) \/ UNCHANGED <<req, sessions>>
    /\ UNCHANGED <<clock, live, chosen, minted, calls, dropped, faults>>

refreshPut(r) ==
    /\ At(r, "refresh.put")
    /\ Put(UserKey(req[r].user), req[r].record, UserTTL)
    /\ Authenticated(r, req[r].record)
    /\ UNCHANGED <<clock, live, chosen, minted, calls, dropped, faults>>

(* The rate limiter refuses the request; or the session it names makes the *)
(* tool call; or the factory looks at the bearer token once more.          *)
serve(r) ==
    LET bearer == TokenKey(req[r].bearer)
        s      == req[r].session
    IN  /\ At(r, "limit")
        /\ \/ /\ Respond(r)
              /\ UNCHANGED calls
           \/ /\ s # None
              /\ calls' = calls \union
                     {[at |-> clock, checked |-> req[r].expires,
                       used |-> sessions[s].expires]}
              /\ Respond(r)
           \/ /\ s = None
              /\ Present(bearer)
              /\ Continue(r, [at |-> "user", pass |-> "factory",
                              bearer |-> req[r].bearer, session |-> None,
                              user |-> Value(bearer).user])
              /\ UNCHANGED calls
        /\ UNCHANGED <<store, clock, live, chosen, minted, sessions,
                       dropped, faults>>

(* The handler stops: its store command failed, the client went away and   *)
(* cancelled its context, or the process restarted.                        *)
Stop(r) ==
    /\ ~ At(r, "idle")
    /\ faults < MaxFaults
    /\ faults' = faults + 1
    /\ dropped' = IF At(r, "refresh.put")
                  THEN dropped \union {req[r].record.grant}
                  ELSE dropped
    /\ Respond(r)
    /\ UNCHANGED <<store, clock, live, chosen, minted, sessions, calls>>

Tick ==
    /\ clock < MaxClock
    /\ Elapse
    /\ UNCHANGED <<req, live, chosen, minted, sessions, calls,
                   dropped, faults>>

Next ==
    \/ \E u \in Users, g \in Grants, tools \in ToolSets, gen \in {0, None} :
           completeUser(u, g, tools, gen)
    \/ \E t \in Bearers, u \in Users : token(t, u)
    \/ \E r \in Requests :
           \/ \E t \in Bearers, s \in Sessions \union {None} : mcp(r, t, s)
           \/ userFromRequest(r)
           \/ refreshUser(r)
           \/ refreshPut(r)
           \/ serve(r)
           \/ Stop(r)
    \/ Tick

Spec == Init /\ [][Next]_vars

-----------------------------------------------------------------------------
(* Properties *)

Entry(V) == {Absent} \union [val : V, exp : Nat]

Handler ==
    {Idle}
    \union [at : {"user"}, pass : {"check", "factory"}, bearer : Bearers,
            session : Sessions \union {None}, user : Users]
    \union [at : {"refresh", "refresh.put"}, pass : {"check", "factory"},
            bearer : Bearers, session : Sessions \union {None},
            user : Users, record : UserRecord]
    \union [at : {"limit"}, bearer : Bearers,
            session : Sessions \union {None}, expires : Nat]

(* Type invariant. *)
TypeOK ==
    /\ DOMAIN store = Key
    /\ \A t \in Bearers : store[TokenKey(t)] \in Entry([user : Users])
    /\ \A u \in Users : store[UserKey(u)] \in Entry(UserRecord)
    /\ clock \in Nat
    /\ req \in [Requests -> Handler]
    /\ live \in [Grants -> Generations \union {None}]
    /\ chosen \in [Users -> ToolSets \union {None}]
    /\ minted \in [Bearers -> Users \union {None}]
    /\ sessions \in [Sessions ->
           [user : Users, tools : ToolSets, expires : Nat] \union {None}]
    /\ calls \subseteq [at : Nat, checked : Nat, used : Nat]
    /\ dropped \subseteq Grants
    /\ faults \in Nat

Renewing(r) == At(r, "refresh.put")

(* Concurrent requests never lose the refresh token Atlassian rotated to   *)
(* of the consent whose record is stored: it is in that record, or in the  *)
(* hands of a handler about to write it there (railway.md: "access keeps   *)
(* working across token refreshes").  Only a handler that stops between    *)
(* the two loses it.  Nothing is said of a consent whose record another    *)
(* one's took the place of: a sign-in replaces the record of the consent   *)
(* before, and a handler that is still renewing that one may write it back *)
(* over the sign-in's (server.go:273).                                     *)
RefreshTokenKept ==
    \A u \in Users : Present(UserKey(u)) =>
        LET rec == Value(UserKey(u))
        IN  \/ rec.gen \in {None, live[rec.grant]}
            \/ rec.grant \in dropped
            \/ \E r \in Requests :
                   /\ Renewing(r)
                   /\ req[r].user = u
                   /\ req[r].record.grant = rec.grant
                   /\ req[r].record.gen = live[rec.grant]

(* Rotation serialises the refreshes of one consent although nothing in    *)
(* the server does: no two handlers ever hold renewed credentials of the   *)
(* same grant, so a late write cannot bring back a token already used.     *)
RefreshSerialised ==
    \A r, q \in Requests :
        /\ Renewing(r) /\ Renewing(q)
        /\ req[r].record.grant = req[q].record.grant
        /\ req[r].record.grant \in Rotating
        => r = q

(* README: "Atlassian tokens are encrypted before they are saved", which   *)
(* is also what the next userFromRequest expects of the record.            *)
SealedRecords ==
    \A u \in Users : Present(UserKey(u)) => Value(UserKey(u)).sealed

(* railway.md: "access keeps working across token refreshes": a tool call  *)
(* that passed the check with good credentials is made with good ones.     *)
CallsAuthorised ==
    \A c \in calls : c.at <= c.checked => c.at <= c.used
=============================================================================
