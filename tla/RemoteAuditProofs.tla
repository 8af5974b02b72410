------------------------- MODULE RemoteAuditProofs -------------------------
(***************************************************************************)
(* Proofs about the audit of the remote server, module RemoteAudit, for    *)
(* any number of users, calls and slots, any retention and capacity, and   *)
(* clocks that differ by less than the retention.                          *)
(*                                                                         *)
(* CallInv says what a slot knows of the call it serves, and that nothing  *)
(* else does: no other slot serves it, and it is neither answered nor      *)
(* recorded.  KeyInv ties the three lives of an event in Valkey together:  *)
(* its key outlives its score by the retention less the drift, and its     *)
(* index outlives its key.                                                 *)
(***************************************************************************)
EXTENDS RemoteAudit, FiniteSetTheorems, TLAPS

Serves(c) == ~ At(c, "idle")

CallInv ==
    /\ \A c, d \in Slots :
           (Serves(c) /\ Serves(d) /\ request[c].event = request[d].event)
               => c = d
    /\ \A c \in Slots : Serves(c) =>
           /\ owner[request[c].event] # None
           /\ answer[request[c].event] = None
           /\ request[c].event \notin recorded
           /\ At(c, "tool") \/ At(c, "append") =>
                  score[request[c].event] = None
           /\ At(c, "append") \/ At(c, "script") =>
                  success[request[c].event] = Success(request[c].outcome)
           /\ At(c, "script") =>
                  /\ score[request[c].event] \in Int
                  /\ score[request[c].event] <= clock + Drift

(* A call that nobody made left no trace. *)
FreshInv ==
    \A e \in Events : owner[e] = None =>
        answer[e] = None /\ score[e] = None /\ e \notin recorded

Inv == TypeOK /\ CallInv /\ FreshInv

Working == [at : {"tool"}, event : Events]
Finishing == [at : {"append", "script"}, event : Events, outcome : Outcomes]

LEMMA RequestTyped ==
    ASSUME TypeOK, NEW c \in Slots
    PROVE  /\ At(c, "tool") => request[c] \in Working
           /\ At(c, "append") \/ At(c, "script") => request[c] \in Finishing
           /\ Serves(c) => /\ request[c].event \in Events
                           /\ request[c].at \in {"tool", "append", "script"}
  <1>1. request[c] \in Request
    BY DEF TypeOK
  <1> QED BY <1>1 DEF Request, Idle, At, Serves, Working, Finishing

LEMMA ContinueTyped ==
    ASSUME TypeOK, NEW c \in Slots, NEW h \in Request, Continue(c, h)
    PROVE  /\ request' \in [Slots -> Request]
           /\ request'[c] = h
           /\ \A d \in Slots : d # c => request'[d] = request[d]
  BY DEF TypeOK, Continue

LEMMA IdleTyped == Idle \in Request
  BY DEF Request

LEMMA InitInv == ConstantsOK /\ Init => Inv
  BY DEF ConstantsOK, Init, Inv, TypeOK, CallInv, FreshInv, Request, Idle,
         Serves, At

(* A step that leaves the events of the other slots alone. *)
LEMMA OtherSlots ==
    ASSUME Inv, ConstantsOK, NEW c \in Slots, TypeOK', FreshInv',
           clock' = clock,
           \A d \in Slots : d # c => request'[d] = request[d],
           \A d \in Slots : d # c /\ Serves(d) =>
               LET e == request[d].event
               IN  /\ owner'[e] = owner[e] /\ answer'[e] = answer[e]
                   /\ score'[e] = score[e] /\ success'[e] = success[e]
                   /\ e \in recorded' => e \in recorded
                   /\ Serves(c)' => request'[c].event # e,
           Serves(c)' =>
               LET e == request'[c].event
               IN  /\ owner'[e] # None /\ answer'[e] = None
                   /\ e \notin recorded'
                   /\ request'[c].at \in {"tool", "append"} => score'[e] = None
                   /\ request'[c].at \in {"append", "script"} =>
                          success'[e] = Success(request'[c].outcome)
                   /\ request'[c].at = "script" =>
                          score'[e] \in Int /\ score'[e] <= clock' + Drift
    PROVE  Inv'
  <1>1. \A d, f \in Slots :
            (/\ Serves(d) /\ Serves(f)
             /\ request[d].event = request[f].event)' => d = f
    BY DEF Inv, CallInv, Serves, At
  <1>2. ASSUME NEW d \in Slots, Serves(d)'
        PROVE  LET e == request'[d].event
               IN  /\ owner'[e] # None /\ answer'[e] = None
                   /\ e \notin recorded'
                   /\ request'[d].at \in {"tool", "append"} => score'[e] = None
                   /\ request'[d].at \in {"append", "script"} =>
                          success'[e] = Success(request'[d].outcome)
                   /\ request'[d].at = "script" =>
                          score'[e] \in Int /\ score'[e] <= clock' + Drift
    <2>1. CASE d # c
      <3>1. Serves(d) /\ request'[d] = request[d]
        BY <1>2, <2>1 DEF Serves, At
      <3> QED BY <2>1, <3>1 DEF Inv, CallInv, At
    <2> QED BY <1>2, <2>1
  <1>3. CallInv'
    BY <1>1, <1>2 DEF CallInv, At
  <1> QED BY <1>3 DEF Inv

LEMMA NextInv == ConstantsOK /\ Inv /\ [Next]_vars => Inv'
  <1> SUFFICES ASSUME ConstantsOK, Inv, [Next]_vars PROVE Inv'
    OBVIOUS
  <1>0. TypeOK
    BY DEF Inv
  <1>1. ASSUME NEW c \in Slots, NEW e \in Events, NEW i \in Identities,
               callTool(c, e, i)
        PROVE  Inv'
    <2>1. /\ At(c, "idle") /\ owner[e] = None
          /\ owner' = [owner EXCEPT ![e] = i]
          /\ Continue(c, [at |-> "tool", event |-> e])
          /\ UNCHANGED <<clock, valkey, events, faults>>
      BY <1>1 DEF callTool
    <2>2. [at |-> "tool", event |-> e] \in Request
      BY DEF Request
    <2>3. /\ request' \in [Slots -> Request]
          /\ request'[c] = [at |-> "tool", event |-> e]
          /\ \A d \in Slots : d # c => request'[d] = request[d]
      BY <1>0, <2>1, <2>2, ContinueTyped
    <2>4. owner' \in [Events -> Identities \union {None}] /\ i # None
      BY <1>0, <2>1 DEF TypeOK, ConstantsOK
    <2>5. TypeOK'
      BY <1>0, <2>1, <2>3, <2>4 DEF TypeOK, valkey, events
    <2>6. owner'[e] = i /\ \A f \in Events : f # e => owner'[f] = owner[f]
      BY <1>0, <2>1 DEF TypeOK
    <2>7. \A d \in Slots : Serves(d) =>
              request[d].event \in Events /\ request[d].event # e
      BY <1>0, <2>1, RequestTyped DEF Inv, CallInv
    <2>8. answer[e] = None /\ score[e] = None /\ e \notin recorded
      BY <2>1 DEF Inv, FreshInv
    <2>9. FreshInv'
      BY <2>1, <2>4, <2>6 DEF Inv, FreshInv, valkey, events
    <2>10. request'[c].event = e /\ request'[c].at = "tool"
      BY <2>3
    <2> QED BY <2>1, <2>3, <2>4, <2>5, <2>6, <2>7, <2>8, <2>9, <2>10,
               OtherSlots
            DEF valkey, events
  <1>2. ASSUME NEW c \in Slots, toolReturns(c)
        PROVE  Inv'
    <2> DEFINE e == request[c].event
    <2>1. PICK outcome \in Outcomes :
              /\ success' = [success EXCEPT ![e] = Success(outcome)]
              /\ Continue(c, [at |-> "append", event |-> e,
                              outcome |-> outcome])
      BY <1>2 DEF toolReturns
    <2>2. /\ At(c, "tool") /\ Serves(c)
          /\ UNCHANGED <<clock, valkey, owner, score, answer, stored, unstored,
                         faults>>
      BY <1>2 DEF toolReturns, Serves, At
    <2>3. e \in Events
      BY <1>0, <2>2, RequestTyped
    <2> DEFINE h == [at |-> "append", event |-> e, outcome |-> outcome]
    <2>4. h \in Request /\ h.at = "append" /\ h.event = e
          /\ h.outcome = outcome
      BY <2>3 DEF Request
    <2> HIDE DEF h
    <2>5. /\ request' \in [Slots -> Request] /\ request'[c] = h
          /\ \A d \in Slots : d # c => request'[d] = request[d]
      BY <1>0, <2>1, <2>4, ContinueTyped DEF h
    <2>6. /\ success' \in [Events -> BOOLEAN \union {None}]
          /\ success'[e] = Success(outcome)
          /\ \A f \in Events : f # e => success'[f] = success[f]
      BY <1>0, <2>1, <2>3 DEF TypeOK, Success
    <2>7. TypeOK'
      BY <1>0, <2>2, <2>5, <2>6 DEF TypeOK, valkey
    <2>8. \A d \in Slots : d # c /\ Serves(d) =>
              request[d].event \in Events /\ request[d].event # e
      BY <1>0, <2>2, RequestTyped DEF Inv, CallInv
    <2>9. /\ owner[e] # None /\ answer[e] = None /\ e \notin recorded
          /\ score[e] = None
      BY <2>2 DEF Inv, CallInv
    <2>10. FreshInv'
      BY <2>2 DEF Inv, FreshInv, valkey
    <2> QED BY <2>2, <2>4, <2>5, <2>6, <2>7, <2>8, <2>9, <2>10, OtherSlots
            DEF valkey
  <1>3. ASSUME NEW c \in Slots, appendNow(c)
        PROVE  Inv'
    <2> DEFINE e == request[c].event
               h == [request[c] EXCEPT !.at = "script"]
    <2>1. PICK drift \in 0..Drift :
              score' = [score EXCEPT ![e] = clock + drift]
      BY <1>3 DEF appendNow
    <2>2. /\ At(c, "append") /\ Serves(c) /\ Continue(c, h)
          /\ UNCHANGED <<clock, valkey, owner, success, answer, stored,
                         unstored, faults>>
      BY <1>3 DEF appendNow, Serves, At
    <2>3. request[c] \in Finishing
      BY <1>0, <2>2, RequestTyped
    <2>4. /\ h \in Finishing /\ h.at = "script" /\ h.event = e
          /\ h.outcome = request[c].outcome
      BY <2>3 DEF Finishing
    <2> HIDE DEF h
    <2>5. /\ request' \in [Slots -> Request] /\ request'[c] = h
          /\ \A d \in Slots : d # c => request'[d] = request[d]
      BY <1>0, <2>2, <2>4, ContinueTyped DEF Request, Finishing
    <2>6. e \in Events /\ clock \in Nat /\ Drift \in Nat
      BY <1>0, <2>3 DEF Finishing, TypeOK, ConstantsOK
    <2>7. /\ score' \in [Events -> Int \union {None}]
          /\ score'[e] = clock + drift
          /\ \A f \in Events : f # e => score'[f] = score[f]
      BY <1>0, <2>1, <2>6 DEF TypeOK
    <2>8. e \notin recorded /\ owner[e] # None /\ answer[e] = None
          /\ success[e] = Success(request[c].outcome)
      BY <2>2 DEF Inv, CallInv
    <2>9. TypeOK'
      BY <1>0, <2>2, <2>5, <2>7, <2>8 DEF TypeOK, valkey
    <2>10. \A d \in Slots : d # c /\ Serves(d) =>
              request[d].event \in Events /\ request[d].event # e
      BY <1>0, <2>2, RequestTyped DEF Inv, CallInv
    <2>11. score'[e] \in Int /\ score'[e] <= clock' + Drift
      BY <2>2, <2>6, <2>7
    <2>12. FreshInv'
      BY <2>2, <2>7, <2>8 DEF Inv, FreshInv, valkey
    <2> QED BY <2>2, <2>4, <2>5, <2>7, <2>8, <2>9, <2>10, <2>11, <2>12,
               OtherSlots
            DEF valkey
  <1>4. ASSUME NEW c \in Slots, appendScript(c) \/ appendFails(c)
        PROVE  Inv'
    <2> DEFINE e == request[c].event
    <2>1. /\ At(c, "script") /\ Serves(c) /\ Answer(c)
          /\ UNCHANGED <<clock, owner, score, success>>
      BY <1>4 DEF appendScript, appendFails, Serves, At
    <2>2. request[c] \in Finishing
      BY <1>0, <2>1, RequestTyped
    <2>3. /\ request' \in [Slots -> Request] /\ request'[c] = Idle
          /\ \A d \in Slots : d # c => request'[d] = request[d]
      BY <1>0, <2>1, IdleTyped, ContinueTyped DEF Answer
    <2>4. /\ answer' \in [Events -> Outcomes \union {None}]
          /\ \A f \in Events : f # e => answer'[f] = answer[f]
      BY <1>0, <2>1, <2>2 DEF Answer, TypeOK, Finishing
    <2>5. e \in Events /\ owner[e] \in Identities /\ score[e] \in Int
      BY <1>0, <2>1, <2>2 DEF Inv, CallInv, Finishing, TypeOK
    <2>6. /\ expires' \in [Events -> Nat]
          /\ indexExpires' \in [Identities -> Nat]
          /\ index' \subseteq recorded' /\ stored' \subseteq recorded'
          /\ unstored' \subseteq Events /\ faults' \in Nat
          /\ recorded' \subseteq recorded \union {e}
      <3>1. CASE appendScript(c)
        <4>1. clock + Retention \in Nat
          BY <1>0 DEF TypeOK, ConstantsOK
        <4>2. /\ expires' = [expires EXCEPT ![e] = clock + Retention]
              /\ indexExpires' = [indexExpires EXCEPT ![owner[e]] =
                                      clock + Retention]
              /\ recorded' = recorded \union {e}
              /\ index' \subseteq index \union {e}
          BY <3>1 DEF appendScript, appendAudit, IndexLifeRenewed, OfOwner
        <4>3. /\ stored' \subseteq stored \union {e}
              /\ unstored' \subseteq unstored \union {e}
              /\ faults' \in {faults, faults + 1}
          BY <3>1 DEF appendScript, Reported, Fault
        <4> QED BY <1>0, <2>5, <4>1, <4>2, <4>3 DEF TypeOK
      <3>2. CASE appendFails(c)
        BY <1>0, <2>5, <3>2 DEF appendFails, Reported, Fault, TypeOK, valkey
      <3> QED BY <1>4, <3>1, <3>2
    <2>7. TypeOK'
      BY <1>0, <2>1, <2>3, <2>4, <2>5, <2>6 DEF TypeOK
    <2>8. \A d \in Slots : d # c /\ Serves(d) =>
              request[d].event \in Events /\ request[d].event # e
      BY <1>0, <2>1, RequestTyped DEF Inv, CallInv
    <2>9. ~ Serves(c)'
      BY <2>3 DEF Serves, At, Idle
    <2>10. owner[e] # None
      BY <2>1 DEF Inv, CallInv
    <2>11. FreshInv'
      BY <2>1, <2>4, <2>6, <2>10 DEF Inv, FreshInv
    <2> QED BY <2>1, <2>3, <2>4, <2>6, <2>7, <2>8, <2>9, <2>11, OtherSlots
  <1>5. CASE Restart
    <2>1. \A c \in Slots : ~ Serves(c)'
      BY <1>5 DEF Restart, Serves, At, Idle
    <2>2. TypeOK'
      BY <1>0, <1>5, IdleTyped DEF Restart, Fault, TypeOK, valkey, events
    <2>3. FreshInv'
      BY <1>5 DEF Restart, Inv, FreshInv, valkey, events
    <2> QED BY <2>1, <2>2, <2>3 DEF Inv, CallInv
  <1>6. CASE Tick
    <2>1. UNCHANGED <<request, recorded, owner, events, faults>>
          /\ clock' = clock + 1 /\ clock \in Nat /\ Drift \in Nat
      BY <1>0, <1>6 DEF Tick, TypeOK, ConstantsOK
    <2>2. /\ expires' \in [Events -> Nat]
          /\ indexExpires' \in [Identities -> Nat]
          /\ index' \subseteq index
      BY <1>0, <1>6 DEF Tick, TypeOK
    <2>3. TypeOK'
      BY <1>0, <2>1, <2>2 DEF TypeOK, events
    <2>4. \A c \in Slots : At(c, "script") => Serves(c)
      BY DEF At, Serves
    <2> QED BY <2>1, <2>3, <2>4
            DEF Inv, CallInv, FreshInv, Serves, At, events
  <1>7. CASE UNCHANGED vars
    BY <1>0, <1>7 DEF vars, valkey, events, Inv, CallInv, FreshInv, TypeOK,
                        Serves, At
  <1> QED BY <1>1, <1>2, <1>3, <1>4, <1>5, <1>6, <1>7 DEF Next

(* Every variable keeps its type; what Valkey was given carries a score.   *)
THEOREM TypeCorrect == ASSUME ConstantsOK PROVE Spec => []TypeOK
  <1>1. Inv => TypeOK
    BY DEF Inv
  <1> QED BY <1>1, InitInv, NextInv, PTL DEF Spec

-----------------------------------------------------------------------------
LEMMA NextAudited ==
    ConstantsOK /\ Inv /\ CallsAudited /\ [Next]_vars => CallsAudited'
  <1> SUFFICES ASSUME ConstantsOK, Inv, CallsAudited, [Next]_vars
               PROVE  CallsAudited'
    OBVIOUS
  <1>0. TypeOK
    BY DEF Inv
  <1>1. ASSUME UNCHANGED <<success, answer, stored, unstored>>
        PROVE  CallsAudited'
    BY <1>1 DEF CallsAudited
  <1>2. ASSUME NEW c \in Slots, NEW e \in Events, NEW i \in Identities,
               callTool(c, e, i)
        PROVE  UNCHANGED <<success, answer, stored, unstored>>
    BY <1>2 DEF callTool, events
  <1>3. ASSUME NEW c \in Slots, toolReturns(c)
        PROVE  CallsAudited'
    <2>1. /\ UNCHANGED <<answer, stored, unstored>> /\ Serves(c)
          /\ \E outcome \in Outcomes : success' =
                [success EXCEPT ![request[c].event] = Success(outcome)]
      BY <1>3 DEF toolReturns, Serves, At
    <2>2. answer[request[c].event] = None
      BY <2>1 DEF Inv, CallInv
    <2> QED BY <1>0, <2>1, <2>2 DEF CallsAudited, TypeOK
  <1>4. ASSUME NEW c \in Slots, appendNow(c)
        PROVE  UNCHANGED <<success, answer, stored, unstored>>
    BY <1>4 DEF appendNow
  <1>5. ASSUME NEW c \in Slots, appendScript(c) \/ appendFails(c)
        PROVE  CallsAudited'
    <2> DEFINE e == request[c].event
    <2>1. /\ At(c, "script") /\ Serves(c) /\ UNCHANGED success
          /\ answer' = [answer EXCEPT ![e] = request[c].outcome]
      BY <1>5 DEF appendScript, appendFails, Answer, Serves, At
    <2>2. /\ stored \subseteq stored' /\ unstored \subseteq unstored'
          /\ e \in stored' \union unstored'
      BY <1>5 DEF appendScript, appendFails, Reported
    <2>3. success[e] = (request[c].outcome = "content")
      BY <2>1 DEF Inv, CallInv, Success
    <2> QED BY <1>0, <2>1, <2>2, <2>3 DEF CallsAudited, TypeOK
  <1>6. CASE Restart \/ Tick \/ UNCHANGED vars
    BY <1>1, <1>6 DEF Restart, Tick, vars, events
  <1> QED BY <1>1, <1>2, <1>3, <1>4, <1>5, <1>6 DEF Next

(* Every call a client was answered is in the audit with the outcome the   *)
(* client saw, or was reported as not stored.                              *)
THEOREM EveryCallAudited == ASSUME ConstantsOK PROVE Spec => []CallsAudited
  <1>1. Init => CallsAudited
    BY DEF Init, CallsAudited
  <1> QED BY <1>1, InitInv, NextInv, NextAudited, PTL DEF Spec

-----------------------------------------------------------------------------
(* The store implements the log. *)

KeyInv ==
    \A e \in recorded :
        /\ expires[e] <= clock + Retention
        /\ expires[e] # 0 => score[e] + Retention <= expires[e] + Drift
        /\ expires[e] = 0 => score[e] + Retention <= clock + Drift
        /\ e \in index => expires[e] <= indexExpires[owner[e]]

LEMMA RecordedTyped ==
    ASSUME Inv, NEW e \in recorded
    PROVE  /\ e \in Events /\ score[e] \in Int /\ owner[e] \in Identities
           /\ expires[e] \in Nat /\ clock \in Nat
           /\ indexExpires[owner[e]] \in Nat
  BY DEF Inv, TypeOK, FreshInv

LEMMA ConstantsTyped ==
    ASSUME ConstantsOK
    PROVE  /\ Retention \in Nat /\ Drift \in Nat /\ Capacity \in Nat
           /\ Retention > 0
  BY DEF ConstantsOK

(* What the script of an append does to Valkey. *)
LEMMA ScriptEffect ==
    ASSUME ConstantsOK, Inv, NEW c \in Slots, appendScript(c),
           NEW e, e = request[c].event
    PROVE  /\ e \in Events /\ owner[e] \in Identities /\ e \notin recorded
           /\ score[e] \in Int /\ score[e] <= clock + Drift
           /\ expires'[e] = clock + Retention
           /\ \A d \in Events : d # e => expires'[d] = expires[d]
           /\ indexExpires'[owner[e]] = clock + Retention
           /\ \A i \in Identities : i # owner[e] =>
                  indexExpires'[i] = indexExpires[i]
           /\ recorded' = recorded \union {e}
           /\ UNCHANGED <<clock, owner, score>>
  <1>1. /\ At(c, "script") /\ Serves(c) /\ appendAudit(e)
        /\ UNCHANGED <<clock, owner, score>>
    BY DEF appendScript, Serves, At
  <1>2. e \in Events /\ TypeOK
    BY <1>1, RequestTyped DEF Inv
  <1>3. /\ e \notin recorded /\ score[e] \in Int /\ score[e] <= clock + Drift
        /\ owner[e] \in Identities
    BY <1>1, <1>2 DEF Inv, CallInv, TypeOK
  <1>4. /\ expires' = [expires EXCEPT ![e] = clock + Retention]
        /\ indexExpires' = [indexExpires EXCEPT ![owner[e]] =
                                clock + Retention]
        /\ recorded' = recorded \union {e}
    BY <1>1 DEF appendAudit, IndexLifeRenewed
  <1> QED BY <1>1, <1>2, <1>3, <1>4 DEF TypeOK

(* What it cuts the index to. *)
Live(e) == {d \in OfOwner(owner[e], index \union {e}) :
                score[d] > score[e] - Retention}

LEMMA ScriptCuts ==
    ASSUME NEW c \in Slots, appendScript(c), NEW e, e = request[c].event
    PROVE  \E T \in SUBSET Live(e) :
               /\ IsNewest(T, Live(e), Capacity)
               /\ index' = T \union (index \ OfOwner(owner[e], index))
  BY DEF appendScript, appendAudit, Live

LEMMA RecordedStay ==
    ASSUME ConstantsOK, Inv, Next, NEW e \in recorded
    PROVE  score'[e] = score[e] /\ owner'[e] = owner[e] /\ e \in recorded'
  <1>0. TypeOK /\ e \in Events
    BY RecordedTyped DEF Inv
  <1>1. ASSUME NEW c \in Slots, NEW f \in Events, NEW i \in Identities,
               callTool(c, f, i)
        PROVE  score'[e] = score[e] /\ owner'[e] = owner[e] /\ e \in recorded'
    <2>1. f # e
      BY <1>1 DEF callTool, Inv, FreshInv
    <2> QED BY <1>0, <1>1, <2>1 DEF callTool, valkey, events, TypeOK
  <1>2. ASSUME NEW c \in Slots, appendNow(c)
        PROVE  score'[e] = score[e] /\ owner'[e] = owner[e] /\ e \in recorded'
    <2>1. request[c].event # e
      BY <1>2 DEF appendNow, Inv, CallInv, Serves, At
    <2> QED BY <1>0, <1>2, <2>1 DEF appendNow, valkey, TypeOK
  <1>3. ASSUME NEW c \in Slots, appendScript(c)
        PROVE  score'[e] = score[e] /\ owner'[e] = owner[e] /\ e \in recorded'
    BY <1>3 DEF appendScript, appendAudit
  <1>4. ASSUME NEW c \in Slots, toolReturns(c) \/ appendFails(c)
        PROVE  score'[e] = score[e] /\ owner'[e] = owner[e] /\ e \in recorded'
    BY <1>4 DEF toolReturns, appendFails, valkey
  <1>5. CASE Restart \/ Tick
    BY <1>5 DEF Restart, Tick, valkey, events
  <1> QED BY <1>1, <1>2, <1>3, <1>4, <1>5 DEF Next

LEMMA NextKeyInv == ConstantsOK /\ Inv /\ KeyInv /\ [Next]_vars => KeyInv'
  <1> SUFFICES ASSUME ConstantsOK, Inv, KeyInv, [Next]_vars
               PROVE  KeyInv'
    OBVIOUS
  <1>1. ASSUME UNCHANGED <<clock, valkey>>,
               \A e \in recorded :
                   score'[e] = score[e] /\ owner'[e] = owner[e]
        PROVE  KeyInv'
    BY <1>1 DEF KeyInv, valkey
  <1>2. ASSUME NEW c \in Slots,
               \/ \E e \in Events, i \in Identities : callTool(c, e, i)
               \/ toolReturns(c) \/ appendNow(c) \/ appendFails(c)
        PROVE  KeyInv'
    <2>1. UNCHANGED <<clock, valkey>>
      BY <1>2 DEF callTool, toolReturns, appendNow, appendFails
    <2>2. Next
      BY <1>2 DEF Next
    <2> QED BY <1>1, <2>1, <2>2, RecordedStay
  <1>3. ASSUME NEW c \in Slots, appendScript(c)
        PROVE  KeyInv'
    <2> DEFINE e == request[c].event
    <2>1. PICK T \in SUBSET Live(e) :
              index' = T \union (index \ OfOwner(owner[e], index))
      BY <1>3, ScriptCuts
    <2>2. index' \subseteq index \union {e}
      BY <2>1 DEF OfOwner, Live
    <2>3. /\ e \in Events /\ owner[e] \in Identities /\ e \notin recorded
          /\ score[e] \in Int /\ score[e] <= clock + Drift
          /\ expires'[e] = clock + Retention
          /\ \A d \in Events : d # e => expires'[d] = expires[d]
          /\ indexExpires'[owner[e]] = clock + Retention
          /\ \A i \in Identities : i # owner[e] =>
                 indexExpires'[i] = indexExpires[i]
          /\ recorded' = recorded \union {e}
          /\ UNCHANGED <<clock, owner, score>>
      BY <1>3, ScriptEffect
    <2>4. clock \in Nat
      BY DEF Inv, TypeOK
    <2> SUFFICES ASSUME NEW d \in recorded'
                 PROVE  /\ expires'[d] <= clock' + Retention
                        /\ expires'[d] # 0 =>
                               score'[d] + Retention <= expires'[d] + Drift
                        /\ expires'[d] = 0 =>
                               score'[d] + Retention <= clock' + Drift
                        /\ d \in index' =>
                               expires'[d] <= indexExpires'[owner'[d]]
      BY DEF KeyInv
    <2> HIDE DEF e
    <2>5. CASE d = e
      BY <2>3, <2>4, <2>5, ConstantsTyped
    <2>6. CASE d \in recorded /\ d # e
      <3>1. /\ d \in Events /\ score[d] \in Int /\ owner[d] \in Identities
            /\ expires[d] \in Nat /\ indexExpires[owner[d]] \in Nat
        BY <2>6, RecordedTyped
      <3>2. /\ expires[d] <= clock + Retention
            /\ expires[d] # 0 => score[d] + Retention <= expires[d] + Drift
            /\ expires[d] = 0 => score[d] + Retention <= clock + Drift
            /\ d \in index => expires[d] <= indexExpires[owner[d]]
        BY <2>6 DEF KeyInv
      <3>3. expires'[d] = expires[d] /\ (d \in index' => d \in index)
        BY <2>2, <2>3, <2>6, <3>1
      <3> QED BY <2>3, <2>4, <3>1, <3>2, <3>3
    <2> QED BY <2>3, <2>5, <2>6
  <1>4. CASE Restart
    <2>1. Next /\ UNCHANGED <<clock, valkey>>
      BY <1>4 DEF Restart, Next
    <2> QED BY <1>1, <2>1, RecordedStay
  <1>5. CASE Tick
    <2>1. /\ UNCHANGED <<recorded, owner, score>> /\ clock' = clock + 1
          /\ expires' = [d \in Events |-> IF expires[d] > clock'
                                          THEN expires[d] ELSE 0]
          /\ indexExpires' = [i \in Identities |->
                IF indexExpires[i] > clock' THEN indexExpires[i] ELSE 0]
          /\ index' = {d \in index : indexExpires[owner[d]] > clock'}
      BY <1>5 DEF Tick, events
    <2> SUFFICES ASSUME NEW d \in recorded
                 PROVE  /\ expires'[d] <= clock' + Retention
                        /\ expires'[d] # 0 =>
                               score'[d] + Retention <= expires'[d] + Drift
                        /\ expires'[d] = 0 =>
                               score'[d] + Retention <= clock' + Drift
                        /\ d \in index' =>
                               expires'[d] <= indexExpires'[owner'[d]]
      BY <2>1 DEF KeyInv
    <2>2. /\ d \in Events /\ score[d] \in Int /\ owner[d] \in Identities
          /\ expires[d] \in Nat /\ indexExpires[owner[d]] \in Nat
          /\ clock \in Nat
      BY RecordedTyped
    <2>3. /\ expires[d] <= clock + Retention
          /\ expires[d] # 0 => score[d] + Retention <= expires[d] + Drift
          /\ expires[d] = 0 => score[d] + Retention <= clock + Drift
          /\ d \in index => expires[d] <= indexExpires[owner[d]]
      BY DEF KeyInv
    <2>4. /\ expires'[d] = IF expires[d] > clock + 1 THEN expires[d] ELSE 0
          /\ d \in index' =>
                 /\ d \in index
                 /\ indexExpires'[owner'[d]] = indexExpires[owner[d]]
      BY <2>1, <2>2
    <2> QED BY <2>1, <2>2, <2>3, <2>4, ConstantsTyped
  <1>6. CASE UNCHANGED vars
    BY <1>1, <1>6 DEF vars, valkey
  <1> QED BY <1>2, <1>3, <1>4, <1>5, <1>6 DEF Next

(* A cut to the newest leaves out an event only when Capacity newer ones   *)
(* remain.                                                                 *)
LEMMA CutLeaves ==
    ASSUME NEW S, IsFiniteSet(S), NEW T \in SUBSET S, NEW n \in Nat,
           IsNewest(T, S, n), NEW x \in S \ T
    PROVE  /\ Cardinality(T) = n
           /\ \A d \in T : score[x] <= score[d]
  <1>1. IsFiniteSet(T) /\ Cardinality(T) \in Nat /\ Cardinality(S) \in Nat
    BY FS_Subset, FS_CardinalityType
  <1>2. Cardinality(T) < Cardinality(S)
    BY <1>1, FS_Subset
  <1> QED BY <1>1, <1>2 DEF IsNewest

LEMMA EventsFinite ==
    ASSUME ConstantsOK, NEW S \in SUBSET Events
    PROVE  IsFiniteSet(S)
  BY FS_Subset DEF ConstantsOK

(* An indexed event that cannot be read any more has outlived its time.    *)
LEMMA KeyGone ==
    ASSUME ConstantsOK, Inv, KeyInv, NEW e \in recorded, expires[e] <= clock
    PROVE  score[e] <= clock - (Retention - Drift)
  <1>1. /\ expires[e] # 0 => score[e] + Retention <= expires[e] + Drift
        /\ expires[e] = 0 => score[e] + Retention <= clock + Drift
    BY DEF KeyInv
  <1> QED BY <1>1, RecordedTyped, ConstantsTyped

(* The instance of AuditLog counts as this module does.                    *)
LEMMA LogCardinality ==
    ASSUME NEW S
    PROVE  Log!Cardinality(S) = Cardinality(S)
  BY DEF Log!Cardinality, Cardinality

LEMMA AppendKeeps ==
    ASSUME ConstantsOK, Inv, KeyInv, NEW c \in Slots, appendScript(c),
           NEW e, e = request[c].event
    PROVE  /\ Kept' \subseteq Kept \union {e}
           /\ \A x \in (Kept \union {e}) \ Kept' :
                  \/ Log!Outdated(x, clock)
                  \/ Log!Crowded(x, Kept \union {e})
  <1>0. TypeOK /\ index \subseteq recorded /\ recorded \subseteq Events
        /\ clock \in Nat
    BY DEF Inv, TypeOK
  <1>1. /\ e \in Events /\ owner[e] \in Identities /\ e \notin recorded
        /\ score[e] \in Int /\ score[e] <= clock + Drift
        /\ expires'[e] = clock + Retention
        /\ \A d \in Events : d # e => expires'[d] = expires[d]
        /\ UNCHANGED <<clock, owner, score>>
    BY ScriptEffect
  <1>2. PICK T \in SUBSET Live(e) :
            /\ IsNewest(T, Live(e), Capacity)
            /\ index' = T \union (index \ OfOwner(owner[e], index))
    BY ScriptCuts
  <1>3. index' \subseteq index \union {e}
    BY <1>2 DEF Live, OfOwner
  <1>4. Kept' \subseteq Kept \union {e}
    BY <1>0, <1>1, <1>3 DEF Kept
  <1>5. ASSUME NEW x \in (Kept \union {e}) \ Kept'
        PROVE  \/ score[x] <= clock - (Retention - Drift)
               \/ Cardinality({d \in Kept \union {e} :
                      owner[d] = owner[x] /\ score[d] >= score[x]}) > Capacity
    <2>1. x \in Events /\ score[x] \in Int /\ x \in index \union {e}
      BY <1>0, <1>1, <1>5, RecordedTyped DEF Kept
    <2>2. expires'[x] > clock
      BY <1>0, <1>1, <1>5, ConstantsTyped DEF Kept
    <2>3. x \notin index'
      BY <1>1, <1>5, <2>2 DEF Kept
    <2>4. owner[x] = owner[e] /\ x \notin T
      BY <1>2, <2>1, <2>3 DEF OfOwner
    <2>5. CASE score[x] <= score[e] - Retention
      BY <1>0, <1>1, <2>1, <2>5, ConstantsTyped
    <2>6. CASE score[x] > score[e] - Retention
      <3>1. x \in Live(e) \ T
        BY <2>1, <2>4, <2>6 DEF Live, OfOwner
      <3>2. Live(e) \subseteq Events
        BY <1>0, <1>1 DEF Live, OfOwner
      <3>3. IsFiniteSet(Live(e)) /\ Capacity \in Nat
        BY <3>2, EventsFinite, ConstantsTyped
      <3>4. /\ Cardinality(T) = Capacity
            /\ \A d \in T : score[x] <= score[d]
        BY <1>2, <3>1, <3>3, CutLeaves
      <3>5. CASE \E y \in T : y \notin Kept \union {e}
        <4>1. PICK y \in T : y \notin Kept \union {e}
          BY <3>5
        <4>2. y \in index /\ y \in recorded /\ ~ expires[y] > clock
          BY <1>0, <1>2, <4>1 DEF Live, OfOwner, Kept
        <4>3. expires[y] <= clock /\ score[y] \in Int
          BY <1>0, <4>2, RecordedTyped
        <4>4. score[y] <= clock - (Retention - Drift)
          BY <4>2, <4>3, KeyGone
        <4>5. score[x] <= score[y]
          BY <3>4
        <4> QED BY <1>0, <2>1, <4>3, <4>4, <4>5, ConstantsTyped
      <3>6. CASE T \subseteq Kept \union {e}
        <4> DEFINE C == {d \in Kept \union {e} :
                             owner[d] = owner[x] /\ score[d] >= score[x]}
        <4>1. \A d \in T : owner[d] = owner[x] /\ score[d] \in Int
          BY <1>0, <1>1, <1>2, <2>4, RecordedTyped DEF Live, OfOwner
        <4>2. T \union {x} \subseteq C
          BY <1>5, <2>1, <3>4, <3>6, <4>1
        <4>3. C \subseteq Events
          BY <1>0, <1>1 DEF Kept
        <4> HIDE DEF C
        <4>4. IsFiniteSet(T) /\ IsFiniteSet(C)
          BY <3>2, <4>3, EventsFinite
        <4>5. /\ IsFiniteSet(T \union {x})
              /\ Cardinality(T \union {x}) = Capacity + 1
          BY <2>4, <3>4, <4>4, FS_AddElement
        <4>6. Cardinality(T \union {x}) <= Cardinality(C)
          BY <4>2, <4>4, FS_Subset
        <4>7. Cardinality(C) > Capacity
          BY <3>3, <4>4, <4>5, <4>6, FS_CardinalityType
        <4> QED BY <4>7 DEF C
      <3> QED BY <3>5, <3>6
    <2> QED BY <1>1, <2>1, <2>5, <2>6, ConstantsTyped
  <1> QED BY <1>4, <1>5, LogCardinality DEF Log!Outdated, Log!Crowded

LEMMA NextLog ==
    ConstantsOK /\ Inv /\ KeyInv /\ [Next]_vars => [Log!Next]_(Log!log)
  <1> SUFFICES ASSUME ConstantsOK, Inv, KeyInv, [Next]_vars
               PROVE  Log!Next \/ UNCHANGED <<clock, owner, score, recorded,
                                              Kept>>
    BY DEF Log!log
  <1>0. TypeOK
    BY DEF Inv
  <1>1. ASSUME UNCHANGED <<clock, valkey>>
        PROVE  UNCHANGED <<clock, recorded, Kept>>
    BY <1>1 DEF Kept, valkey
  <1>2. ASSUME NEW c \in Slots, NEW e \in Events, NEW i \in Identities,
               callTool(c, e, i)
        PROVE  Log!Begin(e)
    <2>1. UNCHANGED <<clock, recorded, Kept>>
      BY <1>1, <1>2 DEF callTool
    <2> QED BY <1>2, <2>1 DEF callTool, events, Log!Begin
  <1>3. ASSUME NEW c \in Slots, toolReturns(c) \/ appendFails(c)
        PROVE  UNCHANGED <<clock, owner, score, recorded, Kept>>
    <2>1. UNCHANGED <<clock, valkey, owner, score>>
      BY <1>3 DEF toolReturns, appendFails
    <2> QED BY <1>1, <2>1
  <1>4. ASSUME NEW c \in Slots, appendNow(c)
        PROVE  \E e \in Events : Log!Stamp(e)
    <2> DEFINE e == request[c].event
    <2>1. PICK drift \in 0..Drift : score' = [score EXCEPT ![e] = clock + drift]
      BY <1>4 DEF appendNow
    <2>2. /\ Serves(c) /\ At(c, "append")
          /\ UNCHANGED <<clock, valkey, owner>>
      BY <1>4 DEF appendNow, Serves, At
    <2>3. e \in Events /\ score[e] = None
      BY <1>0, <2>2, RequestTyped DEF Inv, CallInv
    <2>4. score'[e] = clock + drift /\ clock + drift \in Int
      BY <1>0, <2>1, <2>3, ConstantsTyped DEF TypeOK
    <2>5. UNCHANGED <<clock, recorded, Kept>>
      BY <1>1, <2>2
    <2>6. Log!Stamp(e)
      BY <2>1, <2>2, <2>3, <2>4, <2>5 DEF Log!Stamp
    <2> QED BY <2>3, <2>6
  <1>5. ASSUME NEW c \in Slots, appendScript(c)
        PROVE  \E e \in Events : Log!Record(e)
    <2> DEFINE e == request[c].event
    <2>1. /\ e \in Events /\ e \notin recorded /\ score[e] \in Int
          /\ recorded' = recorded \union {e}
          /\ UNCHANGED <<clock, owner, score>>
      BY <1>5, ScriptEffect
    <2>2. Log!Keep(Kept \union {e}, clock)
      BY <1>5, AppendKeeps DEF Log!Keep
    <2>3. score[e] # None
      BY <2>1 DEF ConstantsOK
    <2>4. Log!Record(e)
      BY <2>1, <2>2, <2>3 DEF Log!Record
    <2> QED BY <2>1, <2>4
  <1>6. CASE Restart
    <2>1. UNCHANGED <<clock, valkey, owner, score>>
      BY <1>6 DEF Restart, events
    <2> QED BY <1>1, <2>1
  <1>7. CASE Tick
    <2>1. /\ UNCHANGED <<recorded, owner, score>> /\ clock' = clock + 1
          /\ expires' = [d \in Events |-> IF expires[d] > clock'
                                          THEN expires[d] ELSE 0]
          /\ index' = {d \in index : indexExpires[owner[d]] > clock'}
      BY <1>7 DEF Tick, events
    <2>2. index \subseteq recorded /\ recorded \subseteq Events /\ clock \in Nat
      BY <1>0 DEF TypeOK
    <2>3. Kept' \subseteq Kept
      <3> SUFFICES ASSUME NEW d \in index', expires'[d] > clock'
                   PROVE  d \in index /\ expires[d] > clock
        BY DEF Kept
      <3>1. d \in index /\ d \in Events /\ expires[d] \in Nat
        BY <2>1, <2>2, RecordedTyped
      <3> QED BY <2>1, <2>2, <3>1
    <2>4. ASSUME NEW x \in Kept \ Kept'
          PROVE  score[x] <= clock' - (Retention - Drift)
      <3>1. /\ x \in index /\ x \in recorded /\ x \in Events
            /\ expires[x] \in Nat /\ score[x] \in Int
            /\ expires[x] > clock /\ indexExpires[owner[x]] \in Nat
        BY <2>2, <2>4, RecordedTyped DEF Kept
      <3>2. /\ expires[x] # 0 => score[x] + Retention <= expires[x] + Drift
            /\ expires[x] <= indexExpires[owner[x]]
        BY <3>1 DEF KeyInv
      <3>3. expires[x] <= clock'
        <4>1. CASE x \notin index'
          <5>1. indexExpires[owner[x]] <= clock'
            BY <2>1, <2>2, <3>1, <4>1
          <5> QED BY <2>1, <2>2, <3>1, <3>2, <5>1
        <4>2. CASE x \in index'
          <5>1. ~ expires'[x] > clock'
            BY <2>4, <4>2 DEF Kept
          <5> QED BY <2>1, <2>2, <3>1, <5>1
        <4> QED BY <4>1, <4>2
      <3> QED BY <2>1, <2>2, <3>1, <3>2, <3>3, ConstantsTyped
    <2>5. Log!Keep(Kept, clock')
      BY <2>3, <2>4 DEF Log!Keep, Log!Outdated
    <2>6. Log!Tick
      BY <2>1, <2>5 DEF Log!Tick
    <2> QED BY <2>6 DEF Log!Next
  <1>8. CASE UNCHANGED vars
    BY <1>1, <1>8 DEF vars, valkey
  <1> QED BY <1>2, <1>3, <1>4, <1>5, <1>6, <1>7, <1>8 DEF Next, Log!Next

(* Whatever calls, failures and restarts interleave, and although every    *)
(* server stamps an event with its own clock before it sends the script,   *)
(* Valkey keeps the promise of an audit store: an event stays readable for *)
(* the retention less the drift unless its user has Capacity newer ones,   *)
(* and never comes back.                                                   *)
THEOREM ValkeyImplementsLog ==
    ASSUME ConstantsOK PROVE Spec => ImplementsAuditLog
  <1>1. Init => Log!Init
    BY DEF Init, Log!Init, Kept
  <1>2. Init => KeyInv
    BY DEF Init, KeyInv
  <1> QED BY <1>1, <1>2, InitInv, NextInv, NextKeyInv, NextLog, PTL
          DEF Spec, ImplementsAuditLog, Log!Spec

-----------------------------------------------------------------------------
(* The pages.  CutInv: an event is missing from its index only when it is  *)
(* too old, or when Capacity newer ones of its user are there.             *)

Newer(e) == {x \in OfOwner(owner[e], index) : score[x] >= score[e]}

CutInv ==
    \A e \in recorded \ index :
        \/ score[e] + Retention <= clock + Drift
        \/ Cardinality(Newer(e)) >= Capacity

(* What is recorded says what the client saw. *)
SeenInv ==
    \A e \in recorded : success[e] = (answer[e] = "content")

LEMMA NextSeen == ConstantsOK /\ Inv /\ SeenInv /\ [Next]_vars => SeenInv'
  <1> SUFFICES ASSUME ConstantsOK, Inv, SeenInv, [Next]_vars
               PROVE  SeenInv'
    OBVIOUS
  <1>0. TypeOK
    BY DEF Inv
  <1>1. ASSUME NEW c \in Slots, toolReturns(c)
        PROVE  SeenInv'
    <2>1. /\ UNCHANGED <<answer, recorded>> /\ Serves(c)
          /\ \E outcome \in Outcomes : success' =
                [success EXCEPT ![request[c].event] = Success(outcome)]
      BY <1>1 DEF toolReturns, valkey, Serves, At
    <2>2. request[c].event \notin recorded
      BY <2>1 DEF Inv, CallInv
    <2>3. \A e \in recorded : success'[e] = success[e]
      BY <1>0, <2>1, <2>2 DEF TypeOK
    <2> QED BY <2>1, <2>3 DEF SeenInv
  <1>2. ASSUME NEW c \in Slots, appendScript(c) \/ appendFails(c)
        PROVE  SeenInv'
    <2> DEFINE e == request[c].event
    <2>1. /\ At(c, "script") /\ Serves(c) /\ UNCHANGED success
          /\ answer' = [answer EXCEPT ![e] = request[c].outcome]
          /\ recorded' \subseteq recorded \union {e}
      BY <1>2 DEF appendScript, appendFails, appendAudit, Answer, valkey,
                  Serves, At
    <2>2. success[e] = (request[c].outcome = "content") /\ e \in Events
          /\ e \notin recorded
      BY <1>0, <2>1, RequestTyped DEF Inv, CallInv, Success
    <2>3. /\ answer'[e] = request[c].outcome
          /\ \A d \in recorded : answer'[d] = answer[d]
      BY <1>0, <2>1, <2>2 DEF TypeOK
    <2> QED BY <2>1, <2>2, <2>3 DEF SeenInv
  <1>3. ASSUME UNCHANGED <<success, answer, recorded>>
        PROVE  SeenInv'
    BY <1>3 DEF SeenInv
  <1>4. ASSUME NEW c \in Slots,
               \/ \E e \in Events, i \in Identities : callTool(c, e, i)
               \/ appendNow(c)
        PROVE  UNCHANGED <<success, answer, recorded>>
    BY <1>4 DEF callTool, appendNow, valkey, events
  <1>5. CASE Restart \/ Tick \/ UNCHANGED vars
    BY <1>3, <1>5 DEF Restart, Tick, vars, valkey, events
  <1> QED BY <1>1, <1>2, <1>3, <1>4, <1>5 DEF Next

LEMMA NextCut ==
    ConstantsOK /\ Inv /\ KeyInv /\ CutInv /\ [Next]_vars => CutInv'
  <1> SUFFICES ASSUME ConstantsOK, Inv, KeyInv, CutInv, [Next]_vars
               PROVE  CutInv'
    OBVIOUS
  <1>0. TypeOK /\ index \subseteq recorded /\ recorded \subseteq Events
        /\ clock \in Nat
    BY DEF Inv, TypeOK
  <1>1. ASSUME UNCHANGED <<clock, valkey>>,
               \A e \in recorded :
                   score'[e] = score[e] /\ owner'[e] = owner[e]
        PROVE  CutInv'
    <2>1. \A e \in recorded : Newer(e)' = Newer(e)
      BY <1>0, <1>1 DEF Newer, OfOwner, valkey
    <2> QED BY <1>1, <2>1 DEF CutInv, valkey
  <1>2. ASSUME NEW c \in Slots,
               \/ \E e \in Events, i \in Identities : callTool(c, e, i)
               \/ toolReturns(c) \/ appendNow(c) \/ appendFails(c)
        PROVE  CutInv'
    <2>1. UNCHANGED <<clock, valkey>>
      BY <1>2 DEF callTool, toolReturns, appendNow, appendFails
    <2>2. Next
      BY <1>2 DEF Next
    <2> QED BY <1>1, <2>1, <2>2, RecordedStay
  <1>3. ASSUME NEW c \in Slots, appendScript(c)
        PROVE  CutInv'
    <2> SUFFICES ASSUME NEW e, e = request[c].event
                 PROVE  CutInv'
      OBVIOUS
    <2>1. /\ e \in Events /\ owner[e] \in Identities /\ e \notin recorded
          /\ score[e] \in Int /\ score[e] <= clock + Drift
          /\ recorded' = recorded \union {e}
          /\ UNCHANGED <<clock, owner, score>>
      BY <1>3, ScriptEffect
    <2>2. PICK T \in SUBSET Live(e) :
              /\ IsNewest(T, Live(e), Capacity)
              /\ index' = T \union (index \ OfOwner(owner[e], index))
      BY <1>3, ScriptCuts
    <2>3. /\ Live(e) \subseteq Events /\ IsFiniteSet(Live(e))
          /\ Capacity \in Nat
      <3>1. Live(e) \subseteq Events
        BY <1>0, <2>1 DEF Live, OfOwner
      <3> QED BY <3>1, EventsFinite, ConstantsTyped
    <2>4. \A x \in index \union {e} : score[x] \in Int
      BY <1>0, <2>1, RecordedTyped
    <2>5. index' \subseteq index \union {e}
      BY <2>2 DEF Live, OfOwner
    <2> SUFFICES ASSUME NEW d \in recorded' \ index',
                        ~ score[d] + Retention <= clock + Drift
                 PROVE  Cardinality(Newer(d)') >= Capacity
      BY <2>1 DEF CutInv
    <2>6. d \in Events /\ score[d] \in Int
      BY <1>0, <2>1, RecordedTyped
    <2>7. IsFiniteSet(Newer(d)') /\ Cardinality(Newer(d)') \in Nat
      <3>1. Newer(d)' \subseteq Events
        BY <1>0, <2>1, <2>5 DEF Newer, OfOwner
      <3> QED BY <3>1, EventsFinite, FS_CardinalityType
    <2>8. ASSUME NEW x \in Live(e) \ T, score[x] >= score[d],
                 owner[d] = owner[e]
          PROVE  Cardinality(Newer(d)') >= Capacity
      <3>1. /\ Cardinality(T) = Capacity
            /\ \A y \in T : score[x] <= score[y]
        BY <2>2, <2>3, <2>8, CutLeaves
      <3>2. \A y \in T : score[y] >= score[d]
        BY <2>4, <2>6, <2>8, <3>1 DEF Live, OfOwner
      <3>3. T \subseteq Newer(d)'
        BY <2>1, <2>2, <2>8, <3>2 DEF Newer, Live, OfOwner
      <3> QED BY <2>7, <3>1, <3>3, FS_Subset
    <2>9. ASSUME NEW x \in index \union {e}, owner[x] = owner[e],
                 score[x] >= score[d]
          PROVE  x \in Live(e)
      BY <1>0, <2>1, <2>4, <2>6, <2>9, ConstantsTyped DEF Live, OfOwner
    <2>10. CASE owner[d] # owner[e]
      <3>1. d \in recorded \ index
        BY <2>1, <2>2, <2>10 DEF OfOwner
      <3>2. Newer(d)' = Newer(d)
        BY <2>1, <2>2, <2>10 DEF Newer, Live, OfOwner
      <3> QED BY <3>1, <3>2 DEF CutInv
    <2>11. CASE owner[d] = owner[e] /\ d \in index \union {e}
      <3>1. d \in Live(e) \ T
        BY <2>2, <2>6, <2>9, <2>11
      <3> QED BY <2>6, <2>8, <2>11, <3>1
    <2>12. CASE owner[d] = owner[e] /\ d \notin index \union {e}
      <3>1. Cardinality(Newer(d)) >= Capacity
        BY <2>1, <2>12 DEF CutInv
      <3>2. Newer(d) \subseteq Live(e)
        BY <2>9, <2>12 DEF Newer, OfOwner
      <3>3. CASE Newer(d) \subseteq T
        <4>1. Newer(d) \subseteq Newer(d)'
          BY <2>1, <2>2, <3>3 DEF Newer, OfOwner
        <4>2. Cardinality(Newer(d)) <= Cardinality(Newer(d)')
              /\ Cardinality(Newer(d)) \in Nat
          BY <2>7, <4>1, FS_Subset, FS_CardinalityType
        <4> QED BY <2>3, <2>7, <3>1, <4>2
      <3>4. CASE \E x \in Newer(d) : x \notin T
        BY <2>8, <2>12, <3>2, <3>4 DEF Newer
      <3> QED BY <3>3, <3>4
    <2> QED BY <2>10, <2>11, <2>12
  <1>4. CASE Restart
    <2>1. Next /\ UNCHANGED <<clock, valkey>>
      BY <1>4 DEF Restart, Next
    <2> QED BY <1>1, <2>1, RecordedStay
  <1>5. CASE Tick
    <2>1. /\ UNCHANGED <<recorded, owner, score>> /\ clock' = clock + 1
          /\ index' = {d \in index : indexExpires[owner[d]] > clock'}
      BY <1>5 DEF Tick, events
    <2> SUFFICES ASSUME NEW e \in recorded, e \notin index',
                        ~ score[e] + Retention <= clock' + Drift
                 PROVE  Cardinality(Newer(e)') >= Capacity
      BY <2>1 DEF CutInv
    <2>2. score[e] \in Int
      BY RecordedTyped
    <2>3. \A x \in index \ index' : score[x] + Retention <= clock' + Drift
      <3> SUFFICES ASSUME NEW x \in index \ index'
                   PROVE  score[x] + Retention <= clock' + Drift
        OBVIOUS
      <3>1. /\ x \in recorded /\ score[x] \in Int /\ expires[x] \in Nat
            /\ indexExpires[owner[x]] \in Nat
        BY <1>0, RecordedTyped
      <3>2. indexExpires[owner[x]] <= clock'
        BY <1>0, <2>1, <3>1
      <3>3. /\ expires[x] <= indexExpires[owner[x]]
            /\ expires[x] # 0 => score[x] + Retention <= expires[x] + Drift
            /\ expires[x] = 0 => score[x] + Retention <= clock + Drift
        BY <3>1 DEF KeyInv
      <3> QED BY <1>0, <2>1, <3>1, <3>2, <3>3, ConstantsTyped
    <2>4. e \notin index
      BY <2>3
    <2>5. Cardinality(Newer(e)) >= Capacity
      BY <1>0, <2>1, <2>2, <2>4, ConstantsTyped DEF CutInv
    <2>6. Newer(e)' = Newer(e)
      <3>1. \A x \in Newer(e) : x \in index'
        <4> SUFFICES ASSUME NEW x \in Newer(e), x \notin index'
                     PROVE  FALSE
          OBVIOUS
        <4>1. x \in index /\ score[x] >= score[e] /\ score[x] \in Int
          BY <1>0, RecordedTyped DEF Newer, OfOwner
        <4>2. score[x] + Retention <= clock' + Drift
          BY <2>3, <4>1
        <4> QED BY <1>0, <2>1, <2>2, <4>1, <4>2, ConstantsTyped
      <3> QED BY <2>1, <3>1 DEF Newer, OfOwner
    <2> QED BY <2>5, <2>6
  <1>6. CASE UNCHANGED vars
    BY <1>1, <1>6 DEF vars, valkey
  <1> QED BY <1>2, <1>3, <1>4, <1>5, <1>6 DEF Next

Indexed(i, now) == {e \in OfOwner(i, index) : score[e] >= now - Retention}

(* What a page shows of an identity's recorded events, for any limit that  *)
(* the index can serve.                                                    *)
LEMMA PageRight ==
    ASSUME ConstantsOK, Inv, KeyInv, CutInv, NEW i \in Identities,
           NEW limit \in 1..Capacity, NEW d \in 0..Drift,
           NEW found, found = Indexed(i, clock + d),
           NEW T \in SUBSET found, IsNewest(T, found, limit),
           NEW shown, shown = {e \in T : expires[e] > clock},
           NEW e \in OfOwner(i, recorded) \ shown,
           score[e] > clock + Drift - Retention
    PROVE  Cardinality({x \in shown : score[x] >= score[e]}) = limit
  <1>0. /\ index \subseteq recorded /\ recorded \subseteq Events
        /\ clock \in Nat /\ d \in Int /\ limit \in Int /\ d <= Drift
        /\ limit <= Capacity /\ Drift \in Int
    BY ConstantsTyped DEF Inv, TypeOK
  <1>1. \A x \in recorded : score[x] \in Int /\ expires[x] \in Nat
    BY RecordedTyped
  <1>2. e \in recorded /\ owner[e] = i /\ score[e] \in Int
    BY <1>1 DEF OfOwner
  <1>3. found \subseteq index /\ found \subseteq Events
    BY <1>0 DEF Indexed, OfOwner
  <1>4. IsFiniteSet(found) /\ IsFiniteSet(T) /\ IsFiniteSet(Newer(e))
    <2>1. Newer(e) \subseteq Events
      BY <1>0 DEF Newer, OfOwner
    <2> QED BY <1>3, <2>1, EventsFinite
  <1>5. \A x \in index : score[x] >= score[e] => expires[x] > clock
    <2> SUFFICES ASSUME NEW x \in index, score[x] >= score[e],
                        expires[x] <= clock
                 PROVE  FALSE
      BY <1>0, <1>1
    <2>1. score[x] <= clock - (Retention - Drift)
      BY <1>0, KeyGone
    <2> QED BY <1>0, <1>1, <1>2, <2>1, ConstantsTyped
  <1>6. \A x \in OfOwner(i, index) : score[x] >= score[e] => x \in found
    BY <1>0, <1>1, <1>2, ConstantsTyped DEF Indexed, OfOwner
  <1>7. Cardinality(T) = limit /\ \A x \in T : score[x] >= score[e]
    <2>1. CASE e \in index
      <3>1. e \in found /\ e \notin T
        BY <1>2, <1>5, <1>6, <2>1 DEF OfOwner
      <3> QED BY <1>0, <1>1, <1>2, <1>3, <1>4, <3>1, CutLeaves
    <2>2. CASE e \notin index
      <3>1. Cardinality(Newer(e)) >= Capacity
        BY <1>0, <1>2, <2>2, ConstantsTyped DEF CutInv
      <3>2. Newer(e) \subseteq found
        BY <1>2, <1>6 DEF Newer, OfOwner
      <3>3. /\ Cardinality(Newer(e)) \in Nat /\ Cardinality(found) \in Nat
            /\ Cardinality(Newer(e)) <= Cardinality(found)
            /\ Cardinality(T) \in Nat
        BY <1>4, <3>2, FS_Subset, FS_CardinalityType
      <3>4. Cardinality(T) = limit
        BY <1>0, <3>1, <3>3, ConstantsTyped DEF IsNewest
      <3>5. ASSUME NEW y \in T, ~ score[y] >= score[e]
            PROVE  FALSE
        <4>1. \A x \in found \ T : score[x] <= score[y]
          BY <3>5 DEF IsNewest
        <4>2. \A x \in found : score[x] \in Int
          BY <1>0, <1>1, <1>3
        <4>3. Newer(e) \subseteq T
          BY <1>2, <3>2, <3>5, <4>1, <4>2 DEF Newer
        <4>4. y \notin Newer(e)
          BY <3>5 DEF Newer
        <4>5. /\ IsFiniteSet(Newer(e) \union {y})
              /\ Cardinality(Newer(e) \union {y}) = Cardinality(Newer(e)) + 1
          BY <1>4, <4>4, FS_AddElement
        <4>6. Cardinality(Newer(e) \union {y}) <= Cardinality(T)
          BY <1>4, <3>5, <4>3, FS_Subset
        <4> QED BY <1>0, <3>1, <3>3, <3>4, <4>5, <4>6, ConstantsTyped
      <3> QED BY <3>4, <3>5
    <2> QED BY <2>1, <2>2
  <1>8. {x \in shown : score[x] >= score[e]} = T
    BY <1>3, <1>5, <1>7
  <1> QED BY <1>7, <1>8

LEMMA ListShows ==
    ASSUME NEW i, NEW limit, NEW now, NEW shown \in listAudit(i, limit, now)
    PROVE  \E T \in SUBSET Indexed(i, now) :
               /\ IsNewest(T, Indexed(i, now), limit)
               /\ shown = {e \in T : expires[e] > clock}
  <1>1. shown \in {{e \in T : expires[e] > clock} :
                       T \in {T \in SUBSET Indexed(i, now) :
                                  IsNewest(T, Indexed(i, now), limit)}}
    BY DEF listAudit, Indexed
  <1> HIDE DEF Indexed
  <1> QED BY <1>1

LEMMA InvPages ==
    ASSUME ConstantsOK, Inv, KeyInv, CutInv, SeenInv
    PROVE  PagesRight
  <1> SUFFICES ASSUME NEW i \in Identities, NEW limit \in Limits,
                      NEW page \in webPage(i, limit)
               PROVE  /\ page.events \subseteq OfOwner(i, recorded)
                      /\ Cardinality(page.events) <= limit
                      /\ page.failures = Cardinality(
                             {e \in page.events : answer[e] # "content"})
                      /\ \A e \in OfOwner(i, stored) \ page.events :
                             \/ score[e] <= clock + Drift - Retention
                             \/ Cardinality({x \in page.events :
                                    score[x] >= score[e]}) = limit
    BY DEF PagesRight
  <1>1. PICK shown \in UNION {listAudit(i, limit, clock + d) :
                                  d \in 0..Drift} :
            page = NewPage(shown)
    BY DEF webPage
  <1>2. PICK d \in 0..Drift : shown \in listAudit(i, limit, clock + d)
    BY <1>1
  <1> DEFINE found == Indexed(i, clock + d)
  <1>3. PICK T \in SUBSET found :
            IsNewest(T, found, limit) /\ shown = {e \in T : expires[e] > clock}
    BY <1>2, ListShows
  <1>4. page.events = shown
        /\ page.failures = Cardinality({e \in shown : ~ success[e]})
    BY <1>1 DEF NewPage
  <1>5. /\ limit \in 1..Capacity /\ index \subseteq recorded
        /\ recorded \subseteq Events /\ stored \subseteq recorded
        /\ clock \in Nat /\ limit \in Int
    BY ConstantsTyped DEF ConstantsOK, Inv, TypeOK
  <1>6. found \subseteq OfOwner(i, recorded)
    BY <1>5 DEF Indexed, OfOwner
  <1>7. IsFiniteSet(found) /\ IsFiniteSet(T)
    <2>1. found \subseteq Events
      BY <1>5, <1>6 DEF OfOwner
    <2> QED BY <2>1, EventsFinite
  <1> HIDE DEF found
  <1>8. shown \subseteq OfOwner(i, recorded)
    BY <1>3, <1>6
  <1>9. Cardinality(shown) <= limit
    <2>1. /\ Cardinality(shown) <= Cardinality(T)
          /\ Cardinality(shown) \in Nat
      BY <1>3, <1>7, FS_Subset, FS_CardinalityType
    <2>2. Cardinality(T) \in Nat /\ Cardinality(found) \in Nat
      BY <1>7, FS_CardinalityType
    <2>3. Cardinality(T) <= limit
      BY <1>3, <1>5, <2>2 DEF IsNewest
    <2> QED BY <1>5, <2>1, <2>2, <2>3
  <1>10. {e \in shown : ~ success[e]} =
             {e \in shown : answer[e] # "content"}
    BY <1>8 DEF SeenInv, OfOwner
  <1>11. ASSUME NEW e \in OfOwner(i, stored) \ shown,
                ~ score[e] <= clock + Drift - Retention
         PROVE  Cardinality({x \in shown : score[x] >= score[e]}) = limit
    <2>1. e \in OfOwner(i, recorded) \ shown /\ score[e] \in Int
      BY <1>5, RecordedTyped DEF OfOwner
    <2>2. score[e] > clock + Drift - Retention
      BY <1>5, <1>11, <2>1, ConstantsTyped
    <2>3. found = Indexed(i, clock + d)
      BY DEF found
    <2> QED BY <1>3, <1>5, <2>1, <2>2, <2>3, PageRight
  <1> QED BY <1>4, <1>8, <1>9, <1>10, <1>11

(* What holds in every reachable state. *)
Safe == Inv /\ KeyInv /\ CutInv /\ SeenInv /\ CallsAudited

LEMMA InitSafe == ConstantsOK /\ Init => Safe
  BY InitInv
     DEF Safe, Init, KeyInv, CutInv, SeenInv, CallsAudited

LEMMA NextSafe == ConstantsOK /\ Safe /\ [Next]_vars => Safe'
  BY NextInv, NextKeyInv, NextCut, NextSeen, NextAudited DEF Safe

LEMMA SafePages == ConstantsOK /\ Safe => PagesRight
  BY InvPages DEF Safe

LEMMA SafeLog ==
    ConstantsOK /\ Safe /\ [Next]_vars => [Log!Next]_(Log!log)
  BY NextLog DEF Safe

(* A page shows its own user's events only, and of those every one whose   *)
(* retention is not over, newest first up to the limit; the failures it    *)
(* counts are those the clients saw.                                       *)
THEOREM PagesShowTheLog == ASSUME ConstantsOK PROVE Spec => []PagesRight
  BY InitSafe, NextSafe, SafePages, PTL DEF Spec
=============================================================================
