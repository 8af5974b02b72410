------------------------------ MODULE AuditLog ------------------------------
(***************************************************************************)
(* What a store of tool events promises (the interface Store of            *)
(* src/internal/audit/audit.go): an event is recorded at most once, stays  *)
(* for the whole retention unless its owner has Capacity newer events, and *)
(* never comes back.  AuditFile and RemoteAudit implement it.              *)
(***************************************************************************)
EXTENDS Integers, FiniteSets

CONSTANTS
    Events,
    Identities,
    Capacity,  \* events an owner keeps in any case
    Retention, \* time units an event is kept
    None

VARIABLES
    clock,
    owner,    \* the identity each event is recorded for
    stamp,    \* the time each event carries
    recorded, \* events recorded so far
    kept      \* events that can be read

log == <<clock, owner, stamp, recorded, kept>>

Outdated(e, now) == stamp[e] <= now - Retention

Crowded(e, S) ==
    Cardinality({d \in S : owner[d] = owner[e] /\ stamp[d] >= stamp[e]})
        > Capacity

Init ==
    /\ clock = 0
    /\ owner \in [Events -> Identities \union {None}]
    /\ stamp = [e \in Events |-> None]
    /\ recorded = {}
    /\ kept = {}

(* What is no longer kept may go, at once or later, or never.              *)
Keep(S, now) ==
    /\ kept' \subseteq S
    /\ \A e \in S \ kept' : Outdated(e, now) \/ Crowded(e, S)

Begin(e) ==
    /\ owner[e] = None
    /\ \E i \in Identities : owner' = [owner EXCEPT ![e] = i]
    /\ UNCHANGED <<clock, stamp, recorded, kept>>

Stamp(e) ==
    /\ stamp[e] = None
    /\ stamp'[e] \in Int
    /\ stamp' = [stamp EXCEPT ![e] = stamp'[e]]
    /\ UNCHANGED <<clock, owner, recorded, kept>>

Record(e) ==
    /\ e \notin recorded
    /\ stamp[e] # None
    /\ recorded' = recorded \union {e}
    /\ Keep(kept \union {e}, clock)
    /\ UNCHANGED <<clock, owner, stamp>>

Forget ==
    /\ Keep(kept, clock)
    /\ UNCHANGED <<clock, owner, stamp, recorded>>

Tick ==
    /\ clock' = clock + 1
    /\ Keep(kept, clock')
    /\ UNCHANGED <<owner, stamp, recorded>>

Next ==
    \/ Forget
    \/ Tick
    \/ \E e \in Events : Begin(e) \/ Stamp(e) \/ Record(e)

Spec == Init /\ [][Next]_log
=============================================================================
