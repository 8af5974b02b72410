---------------------------- MODULE RemoteAudit ----------------------------
(***************************************************************************)
(* The audit of the remote server: a tool call passes the MCP boundary     *)
(* (src/internal/mcp/server.go), whose observer records it in Valkey       *)
(* (src/internal/remote/audit.go) before the answer leaves; the pages of   *)
(* the browser console (src/internal/remote/web_pages.go) read the events  *)
(* of the identity that is signed in.                                      *)
(*                                                                         *)
(* Both scripts are atomic.  What they are given is not: the server reads  *)
(* its own clock first, which may be ahead of Valkey's, sends the script,  *)
(* and after two seconds stops waiting, whether or not Valkey runs it.     *)
(***************************************************************************)
EXTENDS Integers, FiniteSets

CONSTANTS
    Slots,      \* requests in flight
    Events,     \* tool calls
    Identities, \* account and site of a user
    None,
    Limits,     \* events a page asks for (200)
    Retention,  \* time units an event is kept
    Capacity,   \* events an index keeps (10000)
    Drift,      \* how far a server's clock may be ahead of Valkey's
    MaxClock,   \* bound: time units explored
    MaxFaults   \* bound: failed scripts and restarts

(* What is assumed of the constants; Audit checks it of its instance. *)
ConstantsOK ==
    /\ {Retention, Capacity, Drift} \subseteq Nat
    /\ Retention > 0
    /\ Limits \subseteq 1..Capacity
    /\ None \notin Int \union Identities
    /\ IsFiniteSet(Events)

VARIABLES
    clock,        \* Valkey's clock
    request,      \* the request in each slot
    owner,        \* the identity that makes each call
    score,        \* score of each event: the server's clock before the script
    success,      \* what each event says of its call
    answer,       \* what the client of each call was given
    expires,      \* when the key of each event is dropped; 0: no key
    index,        \* events in the index of their identity
    indexExpires, \* when the index of each identity is dropped
    stored,        \* events whose Append returned no error
    recorded,     \* events Valkey was given
    unstored,     \* events reported as not stored
    faults

vars == <<clock, request, owner, score, success, answer, expires, index,
          indexExpires, stored, recorded, unstored, faults>>

valkey == <<expires, index, indexExpires, recorded>>
events == <<score, success, answer, stored, unstored>>

Idle == [at |-> "idle"]

At(c, label) == request[c].at = label

Continue(c, locals) == request' = [request EXCEPT ![c] = locals]

Fault == faults < MaxFaults /\ faults' = faults + 1

Init ==
    /\ clock = 0
    /\ request = [c \in Slots |-> Idle]
    /\ owner = [e \in Events |-> None]
    /\ score = [e \in Events |-> None]
    /\ success = [e \in Events |-> None]
    /\ answer = [e \in Events |-> None]
    /\ expires = [e \in Events |-> 0]
    /\ index = {}
    /\ indexExpires = [i \in Identities |-> 0]
    /\ stored = {}
    /\ recorded = {}
    /\ unstored = {}
    /\ faults = 0

-----------------------------------------------------------------------------
(* The MCP boundary *)

(* A session belongs to the user it was opened for; its observer records    *)
(* every call under the identity of that user.                             *)
callTool(c, e, i) ==
    /\ At(c, "idle")
    /\ owner[e] = None
    /\ owner' = [owner EXCEPT ![e] = i]
    /\ Continue(c, [at |-> "tool", event |-> e])
    /\ UNCHANGED <<clock, valkey, events, faults>>

(* The handler returns content, or an error, which is a result marked as   *)
(* one, or content that cannot be converted, which is an error of the      *)
(* protocol.                                                               *)
Outcomes == {"content", "error result", "protocol error"}

(* Mutant: success as soon as the handler returned no error. *)
SuccessEarly(outcome) == outcome # "error result"

Success(outcome) == outcome = "content"

(* The deferred observer runs when the answer is made and not yet sent.    *)
toolReturns(c) ==
    /\ At(c, "tool")
    /\ \E outcome \in Outcomes :
           /\ success' = [success EXCEPT ![request[c].event] = Success(outcome)]
           /\ Continue(c, [at |-> "append", event |-> request[c].event,
                           outcome |-> outcome])
    /\ UNCHANGED <<clock, valkey, owner, score, answer, stored, unstored,
                   faults>>

appendNow(c) ==
    /\ At(c, "append")
    /\ \E d \in 0..Drift :
           score' = [score EXCEPT ![request[c].event] = clock + d]
    /\ Continue(c, [request[c] EXCEPT !.at = "script"])
    /\ UNCHANGED <<clock, valkey, owner, success, answer, stored, unstored,
                   faults>>

(* The answer leaves, whatever became of the event. *)
Answer(c) ==
    /\ answer' = [answer EXCEPT ![request[c].event] = request[c].outcome]
    /\ Continue(c, Idle)

Reported(c) ==
    /\ unstored' = unstored \union {request[c].event}
    /\ UNCHANGED stored

-----------------------------------------------------------------------------
(* The scripts *)

(* Mutant: the ranks counted from the other end. *)
IsOldest(T, S, n) ==
    /\ Cardinality(T) = IF Cardinality(S) < n THEN Cardinality(S) ELSE n
    /\ \A e \in T, d \in S \ T : score[d] >= score[e]

(* T is what a cut of S to its n newest leaves; among equal scores the     *)
(* random part of the key decides.                                         *)
IsNewest(T, S, n) ==
    /\ Cardinality(T) = IF Cardinality(S) < n THEN Cardinality(S) ELSE n
    /\ \A e \in T, d \in S \ T : score[d] <= score[e]

OfOwner(i, S) == {e \in S : owner[e] = i}

(* Mutant: the index is not given its life again. *)
IndexLife(i) ==
    IF indexExpires[i] = 0 THEN clock + Retention ELSE indexExpires[i]

IndexLifeRenewed(i) == clock + Retention

appendAudit(e) ==
    LET i    == owner[e]
        live == {d \in OfOwner(i, index \union {e}) :
                     score[d] > score[e] - Retention}
    IN  /\ expires' = [expires EXCEPT ![e] = clock + Retention]
        /\ \E T \in SUBSET live :
               /\ IsNewest(T, live, Capacity)
               /\ index' = T \union (index \ OfOwner(i, index))
        /\ indexExpires' = [indexExpires EXCEPT ![i] = IndexLifeRenewed(i)]
        /\ recorded' = recorded \union {e}

(* The script runs; the server may not hear of it any more. *)
appendScript(c) ==
    LET e == request[c].event
    IN  /\ At(c, "script")
        /\ appendAudit(e)
        /\ Answer(c)
        /\ \/ stored' = stored \union {e} /\ UNCHANGED <<unstored, faults>>
           \/ Reported(c) /\ Fault
        /\ UNCHANGED <<clock, owner, score, success>>

appendFails(c) ==
    /\ At(c, "script")
    /\ Fault
    /\ Answer(c)
    /\ Reported(c)
    /\ UNCHANGED <<clock, valkey, owner, score, success>>

(* What a page for identity i may get, when the server's clock says now:   *)
(* the script takes the newest of the index and then leaves out the events *)
(* whose key is gone.                                                      *)
listAudit(i, limit, now) ==
    LET found == {e \in OfOwner(i, index) : score[e] >= now - Retention}
    IN  {{e \in T : expires[e] > clock} :
            T \in {T \in SUBSET found : IsNewest(T, found, limit)}}

NewPage(shown) ==
    [events |-> shown, failures |-> Cardinality({e \in shown : ~ success[e]})]

(* The pages that may be shown to a user; showing one changes nothing.     *)
webPage(i, limit) ==
    {NewPage(shown) :
        shown \in UNION {listAudit(i, limit, clock + d) : d \in 0..Drift}}

-----------------------------------------------------------------------------
(* The server is started again: its calls end without an answer.           *)
Restart ==
    /\ Fault
    /\ request' = [c \in Slots |-> Idle]
    /\ UNCHANGED <<clock, valkey, owner, events>>

(* A unit of time passes, and Valkey drops the keys that have reached it.  *)
Tick ==
    /\ clock < MaxClock
    /\ clock' = clock + 1
    /\ expires' = [e \in Events |-> IF expires[e] > clock' THEN expires[e]
                                    ELSE 0]
    /\ indexExpires' = [i \in Identities |->
           IF indexExpires[i] > clock' THEN indexExpires[i] ELSE 0]
    /\ index' = {e \in index : indexExpires[owner[e]] > clock'}
    /\ UNCHANGED <<request, recorded, owner, events, faults>>

Next ==
    \/ \E c \in Slots :
           \/ \E e \in Events, i \in Identities : callTool(c, e, i)
           \/ toolReturns(c) \/ appendNow(c) \/ appendScript(c)
           \/ appendFails(c)
    \/ Restart
    \/ Tick

Spec == Init /\ [][Next]_vars

-----------------------------------------------------------------------------
(* Properties *)

Request ==
    {Idle}
    \union [at : {"tool"}, event : Events]
    \union [at : {"append", "script"}, event : Events, outcome : Outcomes]

(* Type invariant; what Valkey was given carries a score. *)
TypeOK ==
    /\ clock \in Nat
    /\ request \in [Slots -> Request]
    /\ owner \in [Events -> Identities \union {None}]
    /\ score \in [Events -> Int \union {None}]
    /\ success \in [Events -> BOOLEAN \union {None}]
    /\ answer \in [Events -> Outcomes \union {None}]
    /\ expires \in [Events -> Nat]
    /\ indexExpires \in [Identities -> Nat]
    /\ index \subseteq recorded
    /\ stored \subseteq recorded
    /\ unstored \subseteq Events
    /\ faults \in Nat
    /\ \A e \in recorded : e \in Events /\ score[e] \in Int

(* Every call a client was answered is in the audit with the outcome the   *)
(* client saw, or was reported as not stored: no handler error, failed     *)
(* conversion, failing store or restart makes the two tell different       *)
(* stories (RegisterTool, and the observer set in New).                    *)
CallsAudited ==
    \A e \in Events : answer[e] # None =>
        /\ e \in stored \union unstored
        /\ success[e] = (answer[e] = "content")

(* A page shows its own user's events only, and of those every one whose   *)
(* retention is not over, newest first up to the limit, although expired   *)
(* keys, other servers' clocks and the cut of the index come between; the  *)
(* failures it counts are those the clients saw ("Indicators summarize at  *)
(* most the 200 latest retained events").                                  *)
PagesRight ==
    \A i \in Identities, limit \in Limits : \A page \in webPage(i, limit) :
        /\ page.events \subseteq OfOwner(i, recorded)
        /\ Cardinality(page.events) <= limit
        /\ page.failures =
               Cardinality({e \in page.events : answer[e] # "content"})
        /\ \A e \in OfOwner(i, stored) \ page.events :
               \/ score[e] <= clock + Drift - Retention
               \/ Cardinality({x \in page.events : score[x] >= score[e]}) = limit

(* An event is readable while Valkey has its key and its place in the index. *)
Kept == {e \in index : expires[e] > clock}

Log == INSTANCE AuditLog WITH
    stamp <- score, kept <- Kept, Retention <- Retention - Drift

(* The store keeps the promise of an audit store, short of its retention   *)
(* by as much as the clocks may differ.                                    *)
ImplementsAuditLog == Log!Spec
=============================================================================
