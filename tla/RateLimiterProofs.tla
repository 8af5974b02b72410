------------------------- MODULE RateLimiterProofs -------------------------
(***************************************************************************)
(* What the rate limiter guarantees for every rate, burst and table size.  *)
(***************************************************************************)
EXTENDS RateLimiter, TLAPS

-----------------------------------------------------------------------------
(* The inductive invariant.  A late request can take a bucket below zero,  *)
(* but never by more than the time it moves the bucket back; what a client *)
(* spent is accounted for by what its bucket has earned since the window   *)
(* began, or, without a bucket, by the time that passed.                   *)

ClockInv ==
    /\ \A k \in Clients : bucket[k].last <= clock
    /\ \A c \in Calls : calls[c] # Idle =>
           calls[c].now <= clock /\ clock <= calls[c].now + MaxDelay
    /\ start <= clock

DebtInv ==
    \A k \in table :
        /\ bucket[k].tokens + (clock - bucket[k].last) >= 0
        /\ bucket[k].tokens + MaxDelay >= 0

SpentInv ==
    \A k \in Clients :
        /\ k \in table /\ spent[k] > 0 =>
               /\ bucket[k].last + MaxDelay >= start
               /\ spent[k] + bucket[k].tokens <=
                      Burst + given + (bucket[k].last - start) + MaxDelay
        /\ k \notin table =>
               spent[k] <= given + (clock - start)

IInv == TypeOK /\ ClockInv /\ DebtInv /\ SpentInv

LEMMA InitIInv == Init => IInv
  BY LimiterAssumption
     DEF Init, IInv, TypeOK, ClockInv, DebtInv, SpentInv, Idle

(* What a request inside the mutex does, for the client k that read the    *)
(* clock at now and is charged that much.                                  *)
AllowEffect(k, now, charge) ==
    /\ now <= clock /\ clock <= now + MaxDelay
    /\ Tokens(k, now) \in Int /\ Tokens(k, now) <= Burst
    /\ charge = 0 <=> Tokens(k, now) < Cost
    /\ bucket'[k] = [tokens |-> Tokens(k, now) - charge, last |-> now]
    /\ spent'[k] = spent[k] + charge
    /\ bucket' \in [Clients -> [tokens : Int, last : Nat]]
    /\ spent' \in [Clients -> Nat]
    /\ \A j \in Clients : j # k => /\ bucket'[j] = bucket[j]
                                   /\ spent'[j] = spent[j]
    /\ table' = evictLocked(now) \union {k}
    /\ evictLocked(now) \subseteq table
    /\ given' = IF Dropped(now) THEN given + Burst + MaxDelay ELSE given
    /\ given' \in Nat
    /\ UNCHANGED <<clock, start>>

LEMMA AllowStep ==
    ASSUME IInv, NEW c \in Calls, allow(c)
    PROVE  /\ calls[c].key \in Clients /\ calls[c].now \in Nat
           /\ \E charge \in {0, Cost} :
                  AllowEffect(calls[c].key, calls[c].now, charge)
  <1> DEFINE k == calls[c].key
             now == calls[c].now
  <1>1. /\ k \in Clients /\ now \in Nat /\ now <= clock
        /\ clock <= now + MaxDelay
    BY DEF IInv, TypeOK, ClockInv, allow, Idle
  <1>2. evictLocked(now) \subseteq table
    BY DEF evictLocked, Fresh
  <1>3. Tokens(k, now) \in Int /\ Tokens(k, now) <= Burst
    BY <1>1, LimiterAssumption DEF Tokens, Min2, IInv, TypeOK
  <1> DEFINE charge == Charge(k, now)
  <1>4. /\ charge \in {0, Cost} /\ charge \in Nat
        /\ charge = 0 <=> Tokens(k, now) < Cost
    BY <1>3, LimiterAssumption DEF Charge
  <1>5. /\ bucket' = [bucket EXCEPT ![k] =
                         [tokens |-> Tokens(k, now) - charge, last |-> now]]
        /\ spent' = [spent EXCEPT ![k] = @ + charge]
        /\ table' = evictLocked(now) \union {k}
        /\ given' = IF Dropped(now) THEN given + Burst + MaxDelay ELSE given
        /\ UNCHANGED <<clock, start>>
    BY DEF allow
  <1> HIDE DEF charge
  <1>6. given' \in Nat
    BY <1>5, LimiterAssumption DEF IInv, TypeOK
  <1>7. [tokens |-> Tokens(k, now) - charge, last |-> now] \in
            [tokens : Int, last : Nat]
    BY <1>1, <1>3, <1>4
  <1>8. /\ bucket' \in [Clients -> [tokens : Int, last : Nat]]
        /\ bucket'[k] = [tokens |-> Tokens(k, now) - charge, last |-> now]
        /\ \A j \in Clients : j # k => bucket'[j] = bucket[j]
    BY <1>1, <1>5, <1>7 DEF IInv, TypeOK
  <1>9. /\ spent' \in [Clients -> Nat]
        /\ spent'[k] = spent[k] + charge
        /\ \A j \in Clients : j # k => spent'[j] = spent[j]
    BY <1>1, <1>4, <1>5 DEF IInv, TypeOK
  <1>10. AllowEffect(k, now, charge)
    BY <1>1, <1>2, <1>3, <1>4, <1>5, <1>6, <1>8, <1>9 DEF AllowEffect
  <1> QED BY <1>1, <1>4, <1>10

(* Whoever loses its bucket has spent no more than time (or the dropped    *)
(* table) accounts for.                                                    *)
LEMMA EvictSpent ==
    ASSUME IInv, NEW now \in Nat, now <= clock, clock <= now + MaxDelay,
           NEW j \in Clients, j \notin evictLocked(now)
    PROVE  spent[j] <= (IF Dropped(now) THEN given + Burst + MaxDelay
                                        ELSE given) + (clock - start)
  <1>1. /\ spent[j] \in Nat /\ given \in Nat /\ clock \in Nat /\ start \in Nat
        /\ bucket[j].tokens \in Int /\ bucket[j].last \in Nat
        /\ start <= clock
    BY DEF IInv, TypeOK, ClockInv
  <1>2. CASE j \notin table \/ spent[j] = 0
    BY <1>1, <1>2, LimiterAssumption DEF IInv, SpentInv
  <1>3. CASE j \in table /\ spent[j] # 0
    <2>1. /\ spent[j] + bucket[j].tokens <=
                 Burst + given + (bucket[j].last - start) + MaxDelay
          /\ bucket[j].tokens + (clock - bucket[j].last) >= 0
          /\ bucket[j].tokens + MaxDelay >= 0
      BY <1>1, <1>3 DEF IInv, SpentInv, DebtInv
    <2>2. CASE Dropped(now)
      BY <1>1, <2>1, <2>2, LimiterAssumption
    <2>3. CASE ~ Dropped(now)
      <3>1. now - bucket[j].last > IdleLimit
        BY <1>1, <1>3, <2>3, LimiterAssumption DEF evictLocked, Fresh
      <3> QED BY <1>1, <2>1, <2>3, <3>1, LimiterAssumption
    <2> QED BY <2>2, <2>3
  <1> QED BY <1>2, <1>3

LEMMA AllowIInv ==
    ASSUME IInv, NEW c \in Calls, allow(c)
    PROVE  IInv'
  <1>1. PICK k \in Clients, now \in Nat, charge \in {0, Cost} :
            AllowEffect(k, now, charge)
    BY AllowStep
  <1>3. /\ charge \in Nat
        /\ bucket'[k].tokens = Tokens(k, now) - charge
        /\ bucket'[k].last = now
        /\ charge # 0 => bucket'[k].tokens >= 0
    BY <1>1, LimiterAssumption DEF AllowEffect
  <1>4. /\ clock \in Nat /\ start \in Nat /\ start <= clock /\ given \in Nat
        /\ \A j \in Clients :
               /\ bucket[j].tokens \in Int /\ bucket[j].last \in Nat
               /\ bucket[j].tokens <= Burst /\ bucket[j].last <= clock
               /\ spent[j] \in Nat
        /\ table \subseteq Clients
    BY DEF IInv, TypeOK, ClockInv
  <1>5. TypeOK'
    <2>1. calls' \in [Calls -> {Idle} \union
                           [at : {"lock"}, key : Clients, now : Nat]]
      BY DEF IInv, TypeOK, allow
    <2>2. \A j \in Clients : bucket'[j].tokens <= Burst
      BY <1>1, <1>3, <1>4, LimiterAssumption DEF AllowEffect
    <2> QED BY <1>1, <1>4, <2>1, <2>2 DEF TypeOK, AllowEffect
  <1>6. ClockInv'
    <2>1. \A d \in Calls : calls'[d] # Idle => calls'[d] = calls[d]
      BY DEF IInv, TypeOK, allow
    <2>2. \A j \in Clients : bucket'[j].last <= clock
      BY <1>1, <1>3, <1>4 DEF AllowEffect
    <2> QED BY <1>1, <2>1, <2>2 DEF IInv, ClockInv, AllowEffect
  <1>7. /\ bucket'[k].tokens + (clock - now) >= 0
        /\ bucket'[k].tokens + MaxDelay >= 0
    <2>1. /\ Tokens(k, now) + (clock - now) >= 0
          /\ Tokens(k, now) + MaxDelay >= 0
      BY <1>1, <1>4, LimiterAssumption
         DEF Tokens, Min2, IInv, DebtInv, AllowEffect
    <2> QED BY <1>1, <1>3, <1>4, <2>1, LimiterAssumption DEF AllowEffect
  <1>8. DebtInv'
    BY <1>1, <1>3, <1>4, <1>7 DEF IInv, DebtInv, AllowEffect
  <1>9. SpentInv'
    <2> SUFFICES ASSUME NEW j \in Clients
                 PROVE  /\ (j \in table /\ spent[j] > 0 =>
                              /\ bucket[j].last + MaxDelay >= start
                              /\ spent[j] + bucket[j].tokens <=
                                   Burst + given + (bucket[j].last - start)
                                         + MaxDelay)'
                        /\ (j \notin table =>
                              spent[j] <= given + (clock - start))'
      BY DEF SpentInv
    <2>1. CASE j # k /\ j \in evictLocked(now)
      <3>1. j \in table /\ given' = given
        BY <1>1, <2>1 DEF AllowEffect, evictLocked
      <3> QED BY <1>1, <2>1, <3>1 DEF IInv, SpentInv, AllowEffect
    <2>2. CASE j # k /\ j \notin evictLocked(now)
      BY <1>1, <2>2, EvictSpent DEF AllowEffect
    <2>3. CASE j = k /\ k \in evictLocked(now)
      <3>1. /\ k \in table /\ given' = given
            /\ Tokens(k, now) <= bucket[k].tokens + (now - bucket[k].last)
        BY <1>1, <1>4, <2>3, LimiterAssumption
           DEF AllowEffect, evictLocked, Tokens, Min2
      <3>2. spent[k] > 0 =>
                spent[k] + bucket[k].tokens <=
                    Burst + given + (bucket[k].last - start) + MaxDelay
        BY <3>1 DEF IInv, SpentInv
      <3> QED BY <1>1, <1>3, <1>4, <2>3, <3>1, <3>2, LimiterAssumption
              DEF AllowEffect
    <2>4. CASE j = k /\ k \notin evictLocked(now)
      <3>1. spent[k] <= given' + (clock - start)
        BY <1>1, <2>4, EvictSpent DEF AllowEffect
      <3> QED BY <1>1, <1>3, <1>4, <2>4, <3>1, LimiterAssumption
              DEF AllowEffect
    <2> QED BY <2>1, <2>2, <2>3, <2>4
  <1> QED BY <1>5, <1>6, <1>8, <1>9 DEF IInv

(* Time passes; a window begins; a request reads the clock. *)
LEMMA StepIInv == IInv /\ [Next]_vars => IInv'
  <1> SUFFICES ASSUME IInv, [Next]_vars
               PROVE  IInv'
    OBVIOUS
  <1>1. ASSUME NEW c \in Calls, NEW k \in Clients, readClock(c, k)
        PROVE  IInv'
    BY <1>1, LimiterAssumption
       DEF readClock, IInv, TypeOK, ClockInv, DebtInv, SpentInv
  <1>2. CASE Tick
    BY <1>2, LimiterAssumption
       DEF Tick, IInv, TypeOK, ClockInv, DebtInv, SpentInv
  <1>3. CASE NewWindow
    BY <1>3, LimiterAssumption
       DEF NewWindow, IInv, TypeOK, ClockInv, DebtInv, SpentInv
  <1>4. CASE UNCHANGED vars
    BY <1>4 DEF vars, IInv, TypeOK, ClockInv, DebtInv, SpentInv
  <1> QED BY <1>1, <1>2, <1>3, <1>4, AllowIInv DEF Next

(* The type invariant: no bucket ever holds more than the burst. *)
THEOREM TypeCorrect == Spec => []TypeOK
  <1>1. IInv => TypeOK
    BY DEF IInv
  <1> QED BY <1>1, InitIInv, StepIInv, PTL DEF Spec

LEMMA BoundFromIInv == IInv => RateBound
  <1> SUFFICES ASSUME IInv, NEW k \in Clients
               PROVE  spent[k] <= Burst + given + (clock - start) + MaxDelay
    BY DEF RateBound
  <1>1. /\ spent[k] \in Nat /\ given \in Nat /\ clock \in Nat
        /\ start \in Nat /\ start <= clock
        /\ bucket[k].tokens \in Int /\ bucket[k].last \in Nat
    BY DEF IInv, TypeOK, ClockInv
  <1>2. CASE k \in table /\ spent[k] > 0
    <2>1. /\ spent[k] + bucket[k].tokens <=
                 Burst + given + (bucket[k].last - start) + MaxDelay
          /\ bucket[k].tokens + (clock - bucket[k].last) >= 0
      BY <1>2 DEF IInv, SpentInv, DebtInv
    <2> QED BY <1>1, <2>1, LimiterAssumption
  <1>3. CASE ~ (k \in table /\ spent[k] > 0)
    BY <1>1, <1>3, LimiterAssumption DEF IInv, SpentInv
  <1> QED BY <1>2, <1>3

(* The rate is respected in every window, whatever the rate, the burst and *)
(* the table sizes, and however late requests take the mutex.              *)
THEOREM RateRespected == Spec => []RateBound
  BY InitIInv, StepIInv, BoundFromIInv, PTL DEF Spec

LEMMA RefusalStep ==
    ASSUME Cost <= Burst, IInv, NEW c \in Calls, allow(c), spent' = spent
    PROVE  /\ calls[c].key \in table
           /\ calls[c].now < bucket[calls[c].key].last + Cost + MaxDelay
  <1>1. PICK k \in Clients, now \in Nat, charge \in {0, Cost} :
            /\ k = calls[c].key /\ now = calls[c].now
            /\ AllowEffect(k, now, charge)
    BY AllowStep
  <1>2. Tokens(k, now) < Cost
    <2>1. spent[k] \in Nat /\ spent[k] = spent[k] + charge
      BY <1>1 DEF AllowEffect, IInv, TypeOK
    <2> QED BY <1>1, <2>1, LimiterAssumption DEF AllowEffect
  <1>3. k \in evictLocked(now)
    BY <1>2, LimiterAssumption DEF Tokens
  <1>4. k \in table
    BY <1>1, <1>3 DEF AllowEffect
  <1>5. /\ bucket[k].tokens + MaxDelay >= 0
        /\ bucket[k].tokens \in Int /\ bucket[k].last \in Nat
    BY <1>4 DEF IInv, DebtInv, TypeOK
  <1>6. bucket[k].tokens + (now - bucket[k].last) < Cost
    BY <1>2, <1>3, <1>5, LimiterAssumption DEF Tokens, Min2
  <1> QED BY <1>1, <1>4, <1>5, <1>6, LimiterAssumption

(* With a burst of at least one request, only a client that asked a moment *)
(* ago is ever refused.                                                    *)
THEOREM IdleClientAdmitted == Cost <= Burst => (Spec => IdleAdmitted)
  <1> SUFFICES ASSUME Cost <= Burst
               PROVE  Spec => IdleAdmitted
    OBVIOUS
  <1>1. IInv /\ [Next]_vars =>
            [\A c \in Calls :
               (allow(c) /\ spent' = spent) =>
                 /\ calls[c].key \in table
                 /\ calls[c].now <
                        bucket[calls[c].key].last + Cost + MaxDelay]_vars
    BY RefusalStep
  <1> QED BY <1>1, InitIInv, StepIInv, PTL DEF Spec, IdleAdmitted
=============================================================================
