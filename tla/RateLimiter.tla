---------------------------- MODULE RateLimiter ----------------------------
(***************************************************************************)
(* The per-client token bucket in front of /mcp and /oauth                 *)
(* (src/internal/remote/server.go, ipLimiter).                             *)
(*                                                                         *)
(* A request reads the clock first and takes the mutex later, so requests  *)
(* may enter the critical section in another order than they read the      *)
(* clock; MaxDelay bounds how late.  Tokens are counted by the time it     *)
(* takes to earn them: a request costs Cost = 1/rate ticks and a full      *)
(* bucket holds Burst = burst/rate ticks.                                  *)
(*                                                                         *)
(* start, spent and given belong to the properties: they measure what   *)
(* each client was granted in a window that may begin at any moment.       *)
(***************************************************************************)
EXTENDS Integers, FiniteSets

CONSTANTS
    Clients,   \* client keys (addresses)
    Calls,     \* requests inside allow at the same time
    Cost, Burst,
    IdleLimit, \* a bucket idle for longer may be evicted: one hour
    EvictSize, \* table size beyond which eviction runs: 10000
    DropSize,  \* size beyond which the whole table is dropped: 20000
    MaxDelay,  \* from reading the clock to taking the mutex
    MaxClock,  \* bound: ticks explored
    MaxGiven   \* bound: no new request in a window that gave more away

ASSUME LimiterAssumption ==
    /\ {Burst, IdleLimit, EvictSize, DropSize, MaxDelay} \subseteq Nat
    /\ Cost \in Nat \ {0}
    /\ IdleLimit >= Burst + 2 * MaxDelay

VARIABLES
    clock,
    calls,    \* requests between reading the clock and taking the mutex
    table,    \* clients that have a bucket
    bucket,   \* [tokens, last] of each client in the table
    start,    \* when the window began
    spent,    \* what each client was granted in the window, in ticks
    given     \* given away in the window by dropping the table: a burst,
              \* and what a late request may earn a second time

vars == <<clock, calls, table, bucket, start, spent, given>>

Idle == [at |-> "idle"]

Min2(a, b) == IF a < b THEN a ELSE b

Init ==
    /\ clock = 0
    /\ calls = [c \in Calls |-> Idle]
    /\ table = {}
    /\ bucket = [k \in Clients |-> [tokens |-> 0, last |-> 0]]
    /\ start = 0
    /\ spent = [k \in Clients |-> 0]
    /\ given = 0

-----------------------------------------------------------------------------

(* now := time.Now(), before the mutex *)
readClock(c, k) ==
    /\ calls[c] = Idle
    /\ given <= MaxGiven
    /\ calls' = [calls EXCEPT ![c] = [at |-> "lock", key |-> k, now |-> clock]]
    /\ UNCHANGED <<clock, table, bucket, start, spent, given>>

(* Mutant: evicts buckets that are not idle yet. *)
FreshEager(now) == {k \in table : now <= bucket[k].last}

(* What evictLocked leaves of the table. *)
Fresh(now) == {k \in table : now - bucket[k].last <= IdleLimit}

Dropped(now) ==
    /\ Cardinality(table) > EvictSize
    /\ Cardinality(Fresh(now)) > DropSize

evictLocked(now) ==
    IF Dropped(now)
    THEN {}
    ELSE IF Cardinality(table) > EvictSize THEN Fresh(now) ELSE table

(* Mutant: the bucket grows without limit. *)
TokensUnclamped(k, now) ==
    IF k \in evictLocked(now)
    THEN bucket[k].tokens + (now - bucket[k].last)
    ELSE Burst

(* The bucket's content when client k asks at time now. *)
Tokens(k, now) ==
    IF k \in evictLocked(now)
    THEN Min2(Burst, bucket[k].tokens + (now - bucket[k].last))
    ELSE Burst

(* Mutant: needs more than one request's worth. *)
ChargeStrict(k, now) == IF Tokens(k, now) > Cost THEN Cost ELSE 0

(* A request is let in when the bucket holds what it costs. *)
Charge(k, now) == IF Tokens(k, now) >= Cost THEN Cost ELSE 0

allow(c) ==
    LET k      == calls[c].key
        now    == calls[c].now
        charge == Charge(k, now)
    IN  /\ calls[c] # Idle
        /\ calls' = [calls EXCEPT ![c] = Idle]
        /\ table' = evictLocked(now) \union {k}
        /\ bucket' = [bucket EXCEPT ![k] =
               [tokens |-> Tokens(k, now) - charge, last |-> now]]
        /\ spent' = [spent EXCEPT ![k] = @ + charge]
        /\ given' = IF Dropped(now) THEN given + Burst + MaxDelay ELSE given
        /\ UNCHANGED <<clock, start>>

Tick ==
    /\ clock < MaxClock
    /\ \A c \in Calls : calls[c] # Idle => clock < calls[c].now + MaxDelay
    /\ clock' = clock + 1
    /\ UNCHANGED <<calls, table, bucket, start, spent, given>>

(* The observer begins a new window. *)
NewWindow ==
    /\ start' = clock
    /\ spent' = [k \in Clients |-> 0]
    /\ given' = 0
    /\ UNCHANGED <<clock, calls, table, bucket>>

Next ==
    \/ \E c \in Calls, k \in Clients : readClock(c, k)
    \/ \E c \in Calls : allow(c)
    \/ Tick
    \/ NewWindow

Spec == Init /\ [][Next]_vars

-----------------------------------------------------------------------------
(* Properties *)

(* Type invariant: a bucket never holds more than the burst. *)
TypeOK ==
    /\ clock \in Nat
    /\ calls \in [Calls -> {Idle} \union
                           [at : {"lock"}, key : Clients, now : Nat]]
    /\ table \subseteq Clients
    /\ bucket \in [Clients -> [tokens : Int, last : Nat]]
    /\ \A k \in Clients : bucket[k].tokens <= Burst
    /\ start \in Nat
    /\ spent \in [Clients -> Nat]
    /\ given \in Nat

(* In every window a client is granted at most its burst and what the rate *)
(* earns meanwhile, whatever order requests take the mutex in.  Evicting   *)
(* idle buckets gives nothing away; dropping the whole table gives every   *)
(* client one more burst ("only costs a brief refill window").             *)
RateBound ==
    \A k \in Clients :
        spent[k] <= Burst + given + (clock - start) + MaxDelay

(* A request is only refused to a client that asked recently: after the    *)
(* time that earns one request (and the delay of a late one) it is let in. *)
IdleAdmitted ==
    [][\A c \in Calls :
           (allow(c) /\ spent' = spent) =>
               /\ calls[c].key \in table
               /\ calls[c].now < bucket[calls[c].key].last + Cost + MaxDelay]_vars
=============================================================================
