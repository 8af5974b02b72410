---------------------------- MODULE AuditProofs ----------------------------
(***************************************************************************)
(* Proofs about the audit files of module AuditFile, for any number of     *)
(* processes, calls and events and any retention, and about the            *)
(* installation of module Audit that has them or Valkey as its store.      *)
(*                                                                         *)
(* The directory implements AuditLog (FilesImplementLog) because of        *)
(* FlightInv: an event belongs to one Append at a time, is not named until *)
(* that Append names it, and is not recorded before its file is renamed;   *)
(* and a sweep or List only removes what had expired when it read the      *)
(* clock.  The proofs about Valkey are those of RemoteAuditProofs, of      *)
(* which the installation is an instance: AuditInv joins the two.          *)
(***************************************************************************)
EXTENDS Audit, FiniteSetTheorems, TLAPS

CallRecord ==
    [at : {"sweep", "list", "scan", "name", "create", "rename"},
     event : Events \union {None}, limit : Nat, now : Nat,
     todo : SUBSET Events, cutoff : Nat, result : SUBSET Events,
     old : SUBSET Events, before : SUBSET Events]

LEMMA BusyTyped ==
    ASSUME TypeOK, NEW c \in Calls, ~ At(c, "idle")
    PROVE  call[c] \in CallRecord
  BY DEF TypeOK, Call, CallRecord, At, Idle

LEMMA ContinueTyped ==
    ASSUME TypeOK, NEW c \in Calls, NEW h \in CallRecord \union {Idle},
           Continue(c, h)
    PROVE  /\ call' \in [Calls -> Call]
           /\ call'[c] = h
           /\ \A d \in Calls : d # c => call'[d] = call[d]
  BY DEF TypeOK, Continue, Call, CallRecord

LEMMA ReturnTyped ==
    ASSUME TypeOK, NEW c \in Calls, Return(c)
    PROVE  /\ call' \in [Calls -> Call]
           /\ call'[c] = Idle
           /\ \A d \in Calls : d # c => call'[d] = call[d]
  BY ContinueTyped DEF Return

LEMMA GotoTyped ==
    ASSUME TypeOK, NEW c \in Calls, ~ At(c, "idle"),
           NEW label \in {"name", "create", "rename"}, Goto(c, label)
    PROVE  /\ call' \in [Calls -> Call]
           /\ call'[c].at = label
           /\ call'[c].event = call[c].event
           /\ call'[c].cutoff = call[c].cutoff
           /\ call'[c].old = call[c].old /\ call'[c].before = call[c].before
           /\ \A d \in Calls : d # c => call'[d] = call[d]
  <1>1. /\ [call[c] EXCEPT !.at = label] \in CallRecord
        /\ [call[c] EXCEPT !.at = label].at = label
        /\ [call[c] EXCEPT !.at = label].event = call[c].event
        /\ [call[c] EXCEPT !.at = label].cutoff = call[c].cutoff
        /\ [call[c] EXCEPT !.at = label].old = call[c].old
        /\ [call[c] EXCEPT !.at = label].before = call[c].before
    BY BusyTyped DEF CallRecord
  <1> QED BY <1>1, ContinueTyped DEF Goto

-----------------------------------------------------------------------------
(* An event is in flight with one call; unnamed before "create", and not   *)
(* recorded before the call returns.                                       *)

Appending(c) == ~ At(c, "idle") /\ call[c].event # None

FlightInv ==
    /\ \A c, d \in Calls :
           (Appending(c) /\ Appending(d) /\ call[c].event = call[d].event)
               => c = d
    /\ \A c \in Calls :
           /\ At(c, "sweep") \/ At(c, "name") => Appending(c)
           /\ At(c, "create") \/ At(c, "rename") =>
                  Appending(c) /\ stamp[call[c].event] # None
           /\ Appending(c) /\ ~ At(c, "create") /\ ~ At(c, "rename") =>
                  stamp[call[c].event] = None
           /\ Appending(c) => call[c].event \notin acked
           /\ ~ At(c, "idle") /\ ~ Appending(c) =>
                  At(c, "list") \/ At(c, "scan")
           /\ ~ At(c, "idle") => call[c].cutoff <= clock

FileInv == TypeOK /\ FlightInv

LEMMA InitFileInv == Init => FileInv
  BY AuditFileAssumption
     DEF Init, FileInv, TypeOK, FlightInv, Call, Idle, At, Appending

(* A step after which every call does what it did, or nothing, or, for c,  *)
(* goes on with the same event to a label that its stamp allows.           *)
LEMMA FlightStep ==
    ASSUME FileInv, TypeOK', clock <= clock',
           acked' \subseteq acked \/ \A d \in Calls : Appending(d)' =>
               call'[d].event \notin acked',
           NEW c \in Calls,
           \A d \in Calls : d # c => \/ call'[d] = call[d]
                                     \/ call'[d] = Idle,
           \A d \in Calls \ {c} : Appending(d) =>
               stamp'[call[d].event] = stamp[call[d].event],
           \/ call'[c] = Idle
           \/ /\ ~ At(c, "idle")
              /\ call'[c].event = call[c].event
              /\ call'[c].cutoff <= clock'
              /\ call'[c].at \in {"sweep", "name"} =>
                     /\ call[c].event # None
                     /\ stamp'[call[c].event] = None
              /\ call'[c].at \in {"create", "rename"} =>
                     /\ call[c].event # None
                     /\ stamp'[call[c].event] # None
              /\ call'[c].at \in {"list", "scan"} /\ call[c].event # None =>
                     stamp'[call[c].event] = None
    PROVE  FileInv'
  <1>1. \A d \in Calls : Appending(d)' =>
            Appending(d) /\ call'[d].event = call[d].event
    BY DEF Appending, At, Idle
  <1>2. \A d, f \in Calls :
            (Appending(d)' /\ Appending(f)' /\ call'[d].event = call'[f].event)
                => d = f
    BY <1>1 DEF FileInv, FlightInv
  <1>3. ASSUME NEW d \in Calls
        PROVE  /\ (At(d, "sweep") \/ At(d, "name") => Appending(d))'
               /\ (At(d, "create") \/ At(d, "rename") =>
                      Appending(d) /\ stamp[call[d].event] # None)'
               /\ (Appending(d) /\ ~ At(d, "create") /\ ~ At(d, "rename") =>
                      stamp[call[d].event] = None)'
               /\ (~ At(d, "idle") /\ ~ Appending(d) =>
                      At(d, "list") \/ At(d, "scan"))'
               /\ (~ At(d, "idle") => call[d].cutoff <= clock)'
    <2>1. CASE call'[d] = Idle
      BY <2>1 DEF At, Appending, Idle
    <2>2. CASE d # c /\ call'[d] = call[d]
      <3>1. ~ At(d, "idle") => call[d].cutoff \in Nat
        BY BusyTyped DEF FileInv, CallRecord
      <3>2. clock \in Nat /\ clock' \in Nat
        BY DEF FileInv, TypeOK
      <3> QED BY <2>2, <3>1, <3>2 DEF FileInv, FlightInv, At, Appending
    <2>3. CASE d = c /\ call'[c] # Idle
      <3>1. call'[c] \in CallRecord
        BY <2>3 DEF TypeOK, Call, CallRecord
      <3> QED BY <2>3, <3>1 DEF At, Appending, CallRecord
    <2> QED BY <2>1, <2>2, <2>3
  <1>4. \A d \in Calls : Appending(d)' => call'[d].event \notin acked'
    BY <1>1 DEF FileInv, FlightInv
  <1> QED BY <1>2, <1>3, <1>4 DEF FileInv, FlightInv

(* A call that begins. *)
Begun(event, limit) ==
    [at |-> IF event = None THEN "list" ELSE "sweep", event |-> event,
     limit |-> limit, now |-> 0, todo |-> {}, cutoff |-> 0, result |-> {},
     old |-> ExpiredFiles, before |-> acked]

LEMMA BeginStep ==
    ASSUME FileInv, NEW c \in Calls, At(c, "idle"),
           NEW event \in Events \union {None}, NEW limit \in Nat,
           event # None => /\ stamp[event] = None
                           /\ \A d \in Calls : ~ At(d, "idle") =>
                                  call[d].event # event,
           Continue(c, Begun(event, limit)),
           UNCHANGED <<clock, files, pending, stamp, acked, mutex, nextSweep,
                       faults, crashes>>
    PROVE  FileInv'
  <1>0. TypeOK
    BY DEF FileInv
  <1>1. Begun(event, limit) \in CallRecord
    BY <1>0 DEF Begun, CallRecord, ExpiredFiles, TypeOK
  <1>2. /\ call' \in [Calls -> Call]
        /\ call'[c] = Begun(event, limit)
        /\ \A d \in Calls : d # c => call'[d] = call[d]
    BY <1>0, <1>1, ContinueTyped
  <1>3. TypeOK'
    BY <1>0, <1>2 DEF TypeOK
  <1>4. event # None => event \notin acked
    BY <1>0 DEF TypeOK
  <1>5. FlightInv'
    BY <1>0, <1>2, <1>4, AuditFileAssumption
       DEF FileInv, FlightInv, Begun, Appending, At, TypeOK
  <1> QED BY <1>3, <1>5 DEF FileInv

LEMMA StepFileInv ==
    ASSUME FileInv, NEW c \in Calls, Step(c)
    PROVE  FileInv'
  <1>0. TypeOK
    BY DEF FileInv
  <1>t. /\ clock \in Nat /\ Process(c) \in Procs
        /\ mutex \in [Procs -> Calls \union {None}]
    BY <1>0 DEF TypeOK, Calls, Process
  <1>1. CASE sweep(c)
    <2>1. /\ At(c, "sweep") /\ ~ At(c, "idle") /\ call[c].event # None
          /\ stamp[call[c].event] = None /\ call[c].cutoff <= clock
      BY <1>1 DEF sweep, At, FileInv, FlightInv, Appending
    <2>2. CASE Goto(c, "name") /\ UNCHANGED mutex
      <3>1. /\ call' \in [Calls -> Call] /\ call'[c].at = "name"
            /\ call'[c].event = call[c].event
            /\ call'[c].cutoff = call[c].cutoff
            /\ \A d \in Calls : d # c => call'[d] = call[d]
        BY <1>0, <2>1, <2>2, GotoTyped
      <3>3. TypeOK'
        BY <1>0, <1>1, <2>2, <3>1 DEF TypeOK, sweep
      <3>4. UNCHANGED <<clock, acked, stamp>>
        BY <1>1 DEF sweep
      <3> QED BY <1>t, <2>1, <3>1, <3>3, <3>4, FlightStep
    <2>3. CASE /\ mutex' = [mutex EXCEPT ![Process(c)] = c]
               /\ Continue(c, [call[c] EXCEPT !.at = "list", !.now = clock])
      <3> DEFINE h == [call[c] EXCEPT !.at = "list", !.now = clock]
      <3>1. /\ h \in CallRecord /\ h.at = "list"
            /\ h.event = call[c].event /\ h.cutoff = call[c].cutoff
        <4> DEFINE g == [call[c] EXCEPT !.at = "list"]
        <4>1. /\ g \in CallRecord /\ g.at = "list"
              /\ g.event = call[c].event /\ g.cutoff = call[c].cutoff
          BY <1>0, <2>1, BusyTyped DEF CallRecord
        <4>2. h = [g EXCEPT !.now = clock]
          BY <1>0, <2>1, BusyTyped DEF CallRecord
        <4> QED BY <1>t, <4>1, <4>2 DEF CallRecord
      <3> HIDE DEF h
      <3>2. /\ call' \in [Calls -> Call] /\ call'[c] = h
            /\ \A d \in Calls : d # c => call'[d] = call[d]
        BY <1>0, <2>3, <3>1, ContinueTyped DEF h
      <3>3. mutex' \in [Procs -> Calls \union {None}]
        BY <1>t, <2>3
      <3>4. UNCHANGED <<clock, files, pending, acked, stamp, nextSweep, faults,
                        crashes>>
        BY <1>1 DEF sweep
      <3>5. TypeOK'
        BY <1>0, <3>2, <3>3, <3>4 DEF TypeOK
      <3> QED BY <1>t, <2>1, <3>1, <3>2, <3>4, <3>5, FlightStep
    <2> QED BY <1>1, <2>2, <2>3 DEF sweep
  <1>2. CASE listReadDir(c)
    <2> DEFINE h == [call[c] EXCEPT !.at = "scan", !.todo = files,
                                    !.cutoff = clock]
    <2>1. At(c, "list") /\ ~ At(c, "idle") /\ Continue(c, h)
      BY <1>2 DEF listReadDir, At
    <2>2. /\ h \in CallRecord /\ h.at = "scan"
          /\ h.event = call[c].event /\ h.cutoff = clock
      <3> DEFINE g == [call[c] EXCEPT !.at = "scan"]
                 f == [g EXCEPT !.todo = files]
      <3>1. g \in CallRecord /\ g.at = "scan" /\ g.event = call[c].event
        BY <1>0, <2>1, BusyTyped DEF CallRecord
      <3>2. f \in CallRecord /\ f.at = "scan" /\ f.event = call[c].event
        BY <1>0, <3>1 DEF CallRecord, TypeOK
      <3>3. h = [f EXCEPT !.cutoff = clock]
        BY <1>0, <2>1, BusyTyped DEF CallRecord
      <3> QED BY <1>t, <3>2, <3>3 DEF CallRecord
    <2> HIDE DEF h
    <2>3. /\ call' \in [Calls -> Call] /\ call'[c] = h
          /\ \A d \in Calls : d # c => call'[d] = call[d]
      BY <1>0, <2>1, <2>2, ContinueTyped
    <2>4. UNCHANGED <<clock, files, pending, stamp, acked, mutex, nextSweep,
                      faults, crashes>>
      BY <1>2 DEF listReadDir
    <2>5. TypeOK'
      BY <1>0, <2>3, <2>4 DEF TypeOK
    <2>6. call[c].event # None => stamp[call[c].event] = None
      BY <2>1 DEF FileInv, FlightInv, At, Appending
    <2> QED BY <1>t, <2>1, <2>2, <2>3, <2>4, <2>5, <2>6, FlightStep
  <1>3. CASE listEntry(c)
    <2>1. PICK e \in Newest(call[c].todo) :
              /\ files' \subseteq files
              /\ \E result \in {call[c].result, call[c].result \union {e}} :
                     Continue(c, [call[c] EXCEPT !.todo = @ \ {e},
                                                 !.result = result])
      BY <1>3 DEF listEntry
    <2>2. At(c, "scan") /\ ~ At(c, "idle") /\ call[c] \in CallRecord
      BY <1>0, <1>3, BusyTyped DEF listEntry, At
    <2>3. PICK result \in {call[c].result, call[c].result \union {e}} :
              Continue(c, [call[c] EXCEPT !.todo = @ \ {e},
                                          !.result = result])
      BY <2>1
    <2> DEFINE h == [call[c] EXCEPT !.todo = @ \ {e}, !.result = result]
    <2>4. e \in Events /\ result \in SUBSET Events
      BY <2>2 DEF Newest, CallRecord
    <2>5. /\ h \in CallRecord /\ h.at = "scan"
          /\ h.event = call[c].event /\ h.cutoff = call[c].cutoff
      <3> DEFINE g == [call[c] EXCEPT !.todo = @ \ {e}]
      <3>1. /\ g \in CallRecord /\ g.at = "scan"
            /\ g.event = call[c].event /\ g.cutoff = call[c].cutoff
        BY <2>2 DEF CallRecord, At
      <3>2. h = [g EXCEPT !.result = result]
        BY <2>2 DEF CallRecord
      <3> QED BY <2>4, <3>1, <3>2 DEF CallRecord
    <2> HIDE DEF h
    <2>6. /\ call' \in [Calls -> Call] /\ call'[c] = h
          /\ \A d \in Calls : d # c => call'[d] = call[d]
      BY <1>0, <2>3, <2>5, ContinueTyped DEF h
    <2>7. UNCHANGED <<clock, pending, stamp, acked, mutex, nextSweep, faults,
                      crashes>>
      BY <1>3 DEF listEntry
    <2>8. TypeOK'
      BY <1>0, <2>1, <2>6, <2>7 DEF TypeOK
    <2>9. /\ call[c].event # None => stamp[call[c].event] = None
          /\ call[c].cutoff <= clock
      BY <2>2 DEF FileInv, FlightInv, At, Appending
    <2> QED BY <1>t, <2>2, <2>5, <2>6, <2>7, <2>8, <2>9, FlightStep
  <1>4. CASE listReturn(c)
    <2>1. At(c, "scan") /\ ~ At(c, "idle") /\ call[c] \in CallRecord
      BY <1>0, <1>4, BusyTyped DEF listReturn, At
    <2>2. UNCHANGED <<clock, files, pending, stamp, acked, faults, crashes>>
      BY <1>4 DEF listReturn
    <2>3. CASE Return(c) /\ UNCHANGED <<mutex, nextSweep>>
      <3>1. /\ call' \in [Calls -> Call] /\ call'[c] = Idle
            /\ \A d \in Calls : d # c => call'[d] = call[d]
        BY <1>0, <2>3, ReturnTyped
      <3>2. TypeOK'
        BY <1>0, <2>2, <2>3, <3>1 DEF TypeOK
      <3> QED BY <1>t, <2>2, <3>1, <3>2, FlightStep
    <2>4. CASE /\ Sweeping(c) /\ Goto(c, "name")
               /\ nextSweep' = [nextSweep EXCEPT ![Process(c)] =
                                    call[c].now + Interval]
               /\ mutex' = [mutex EXCEPT ![Process(c)] = None]
      <3>1. /\ call' \in [Calls -> Call] /\ call'[c].at = "name"
            /\ call'[c].event = call[c].event
            /\ call'[c].cutoff = call[c].cutoff
            /\ \A d \in Calls : d # c => call'[d] = call[d]
        BY <1>0, <2>1, <2>4, GotoTyped
      <3>3. call[c].now + Interval \in Nat
        BY <2>1, AuditFileAssumption DEF CallRecord
      <3>4. /\ nextSweep' \in [Procs -> Nat]
            /\ mutex' \in [Procs -> Calls \union {None}]
        BY <1>0, <1>t, <2>4, <3>3 DEF TypeOK
      <3>5. TypeOK'
        BY <1>0, <2>2, <3>1, <3>4 DEF TypeOK
      <3>6. /\ call[c].event # None /\ stamp[call[c].event] = None
            /\ call[c].cutoff <= clock
        BY <2>1, <2>4 DEF Sweeping, FileInv, FlightInv, At, Appending
      <3> QED BY <1>t, <2>1, <2>2, <3>1, <3>5, <3>6, FlightStep
    <2> QED BY <1>4, <2>3, <2>4 DEF listReturn
  <1>5. CASE appendName(c)
    <2>1. /\ At(c, "name") /\ ~ At(c, "idle") /\ call[c] \in CallRecord
          /\ Goto(c, "create")
          /\ stamp' = [stamp EXCEPT ![call[c].event] = clock]
          /\ UNCHANGED <<clock, files, pending, acked, mutex, nextSweep,
                         faults, crashes>>
      BY <1>0, <1>5, BusyTyped DEF appendName, At
    <2>2. /\ Appending(c) /\ call[c].event \in Events
          /\ call[c].event # None /\ call[c].cutoff <= clock
      BY <2>1 DEF FileInv, FlightInv, Appending, CallRecord
    <2>3. /\ stamp' \in [Events -> Nat \union {None}]
          /\ stamp'[call[c].event] # None
          /\ \A e \in Events : e # call[c].event => stamp'[e] = stamp[e]
          /\ \A e \in Events : stamp[e] # None => stamp'[e] # None
      BY <1>0, <1>t, <2>1, <2>2, AuditFileAssumption DEF TypeOK
    <2>4. /\ call' \in [Calls -> Call] /\ call'[c].at = "create"
          /\ call'[c].event = call[c].event
          /\ call'[c].cutoff = call[c].cutoff
          /\ \A d \in Calls : d # c => call'[d] = call[d]
      BY <1>0, <2>1, GotoTyped
    <2>6. TypeOK'
      BY <1>0, <2>1, <2>3, <2>4 DEF TypeOK
    <2>7. \A d \in Calls \ {c} : Appending(d) =>
              stamp'[call[d].event] = stamp[call[d].event]
      BY <1>0, <2>2, <2>3, BusyTyped
         DEF FileInv, FlightInv, Appending, CallRecord
    <2> QED BY <1>t, <2>1, <2>2, <2>3, <2>4, <2>6, <2>7, FlightStep
  <1>6. CASE appendCreate(c)
    <2>1. /\ At(c, "create") /\ ~ At(c, "idle") /\ call[c] \in CallRecord
          /\ Goto(c, "rename")
          /\ pending' = pending \union {call[c].event}
          /\ UNCHANGED <<clock, files, stamp, acked, mutex, nextSweep,
                         faults, crashes>>
      BY <1>0, <1>6, BusyTyped DEF appendCreate, At
    <2>2. /\ call[c].event \in Events /\ call[c].event # None
          /\ stamp[call[c].event] # None /\ call[c].cutoff <= clock
      BY <2>1 DEF FileInv, FlightInv, Appending, CallRecord
    <2>4. /\ call' \in [Calls -> Call] /\ call'[c].at = "rename"
          /\ call'[c].event = call[c].event
          /\ call'[c].cutoff = call[c].cutoff
          /\ \A d \in Calls : d # c => call'[d] = call[d]
      BY <1>0, <2>1, GotoTyped
    <2>6. TypeOK'
      BY <1>0, <2>1, <2>2, <2>4 DEF TypeOK
    <2> QED BY <1>t, <2>1, <2>2, <2>4, <2>6, FlightStep
  <1>7. CASE appendRename(c)
    <2> DEFINE e == call[c].event
    <2>1. /\ At(c, "rename") /\ Return(c)
          /\ files' = files \union {e} /\ pending' = pending \ {e}
          /\ acked' = acked \union {e}
          /\ UNCHANGED <<clock, stamp, mutex, nextSweep, faults, crashes>>
      BY <1>7 DEF appendRename
    <2>2. /\ Appending(c) /\ e \in Events /\ stamp[e] # None
      BY <1>0, <2>1, BusyTyped
         DEF FileInv, FlightInv, Appending, CallRecord, At
    <2>3. /\ call' \in [Calls -> Call] /\ call'[c] = Idle
          /\ \A d \in Calls : d # c => call'[d] = call[d]
      BY <1>0, <2>1, ReturnTyped
    <2>4. TypeOK'
      BY <1>0, <2>1, <2>2, <2>3 DEF TypeOK
    <2>5. \A d \in Calls : Appending(d)' => call'[d].event \notin acked'
      BY <2>1, <2>2, <2>3 DEF FileInv, FlightInv, Appending, At, Idle
    <2> QED BY <1>t, <2>1, <2>3, <2>4, <2>5, FlightStep
  <1> QED BY <1>1, <1>2, <1>3, <1>4, <1>5, <1>6, <1>7 DEF Step

LEMMA FailFileInv ==
    ASSUME FileInv, NEW c \in Calls, Fail(c)
    PROVE  FileInv'
  <1>0. TypeOK
    BY DEF FileInv
  <1>1. /\ call' \in [Calls -> Call] /\ call'[c] = Idle
        /\ \A d \in Calls : d # c => call'[d] = call[d]
    BY <1>0, ReturnTyped DEF Fail
  <1>2. /\ UNCHANGED <<clock, files, stamp, acked, nextSweep, crashes>>
        /\ pending' \subseteq pending /\ faults' = faults + 1
        /\ mutex' = [p \in Procs |-> IF mutex[p] = c THEN None ELSE mutex[p]]
    BY DEF Fail
  <1>3. mutex' \in [Procs -> Calls \union {None}]
    BY <1>0, <1>2 DEF TypeOK
  <1>4. TypeOK'
    BY <1>0, <1>1, <1>2, <1>3 DEF TypeOK
  <1>5. clock <= clock'
    BY <1>0, <1>2 DEF TypeOK
  <1> QED BY <1>1, <1>2, <1>4, <1>5, FlightStep

LEMMA CrashFileInv ==
    ASSUME FileInv, NEW p \in Procs, Crash(p)
    PROVE  FileInv'
  <1>0. TypeOK
    BY DEF FileInv
  <1>1. /\ UNCHANGED <<clock, files, pending, stamp, acked, faults>>
        /\ crashes' = crashes + 1
        /\ mutex' = [mutex EXCEPT ![p] = None]
        /\ nextSweep' = [nextSweep EXCEPT ![p] = 0]
        /\ call' = [c \in Calls |-> IF Process(c) = p THEN Idle ELSE call[c]]
    BY DEF Crash
  <1>2. /\ call' \in [Calls -> Call]
        /\ \A d \in Calls : call'[d] = call[d] \/ call'[d] = Idle
    BY <1>0, <1>1 DEF TypeOK, Call
  <1>3. /\ mutex' \in [Procs -> Calls \union {None}]
        /\ nextSweep' \in [Procs -> Nat]
    BY <1>0, <1>1 DEF TypeOK
  <1>4. TypeOK'
    BY <1>0, <1>1, <1>2, <1>3 DEF TypeOK
  <1>5. FlightInv'
    BY <1>1, <1>2 DEF FileInv, FlightInv, Appending, At, Idle
  <1> QED BY <1>4, <1>5 DEF FileInv

LEMMA TickFileInv ==
    ASSUME FileInv, Tick
    PROVE  FileInv'
  <1>0. TypeOK
    BY DEF FileInv
  <1>1. TypeOK'
    BY <1>0 DEF Tick, TypeOK
  <1>2. \A c \in Calls : ~ At(c, "idle") =>
            call[c].cutoff \in Nat /\ clock \in Nat
    BY <1>0, BusyTyped DEF CallRecord, TypeOK
  <1>3. FlightInv'
    BY <1>2 DEF FileInv, FlightInv, Tick, Appending, At
  <1> QED BY <1>1, <1>3 DEF FileInv

LEMMA NextFileInv == FileInv /\ [Next]_vars => FileInv'
  <1> SUFFICES ASSUME FileInv, [Next]_vars PROVE FileInv'
    OBVIOUS
  <1>1. ASSUME NEW c \in Calls, NEW e \in Events, Append(c, e)
        PROVE  FileInv'
    <2>1. /\ Continue(c, Begun(e, 0)) /\ e # None
      BY <1>1, AuditFileAssumption DEF Append, Begun
    <2> QED BY <1>1, <2>1, BeginStep DEF Append
  <1>2. ASSUME NEW c \in Calls, NEW limit \in Limits, List(c, limit)
        PROVE  FileInv'
    <2>1. Continue(c, Begun(None, limit)) /\ limit \in Nat
      BY <1>2, AuditFileAssumption DEF List, Begun
    <2> QED BY <1>2, <2>1, BeginStep DEF List
  <1>3. CASE UNCHANGED vars
    BY <1>3 DEF vars, FileInv, TypeOK, FlightInv, Appending, At
  <1> QED BY <1>1, <1>2, <1>3, StepFileInv, FailFileInv, CrashFileInv,
             TickFileInv
          DEF Next

THEOREM FlightSafe == Spec => []FileInv
  BY InitFileInv, NextFileInv, PTL DEF Spec

(* Every variable keeps its type, and every file, temporary file and       *)
(* recorded event carries a stamp.                                         *)
THEOREM TypeCorrect == Spec => []TypeOK
  <1>1. FileInv => TypeOK
    BY DEF FileInv
  <1> QED BY <1>1, FlightSafe, PTL

-----------------------------------------------------------------------------
(* The temporary files. *)

LEMMA NextNoLeftovers ==
    FileInv /\ NoLeftovers /\ [Next]_vars => NoLeftovers'
  <1> SUFFICES ASSUME FileInv, NoLeftovers, [Next]_vars
               PROVE  NoLeftovers'
    OBVIOUS
  <1>i. pending' \subseteq Events
    <2>1. FileInv'
      BY NextFileInv
    <2> QED BY <2>1 DEF FileInv, TypeOK
  <1> SUFFICES ASSUME crashes' = 0, NEW e \in Events, e \in pending'
               PROVE  \E c \in Calls :
                          call'[c].at = "rename" /\ call'[c].event = e
    BY <1>i DEF NoLeftovers, At
  <1>0. TypeOK
    BY DEF FileInv
  <1>1. ASSUME UNCHANGED <<pending, crashes>>,
               \A d \in Calls : At(d, "rename") => call'[d] = call[d]
        PROVE  \E c \in Calls :
                   call'[c].at = "rename" /\ call'[c].event = e
    <2>1. PICK c \in Calls : At(c, "rename") /\ call[c].event = e
      BY <1>1 DEF NoLeftovers
    <2> QED BY <1>1, <2>1 DEF At
  <1>2. ASSUME UNCHANGED crashes, NEW c \in Calls,
               pending' = pending \ {call[c].event},
               \A d \in Calls : d # c => call'[d] = call[d]
        PROVE  \E d \in Calls :
                   call'[d].at = "rename" /\ call'[d].event = e
    <2>1. PICK d \in Calls : At(d, "rename") /\ call[d].event = e
      BY <1>2 DEF NoLeftovers
    <2>2. d # c
      BY <1>2, <2>1
    <2> QED BY <1>2, <2>1, <2>2 DEF At
  <1>3. ASSUME NEW c \in Calls, NEW f \in Events, Append(c, f)
        PROVE  UNCHANGED <<pending, crashes>> /\
               \A d \in Calls : At(d, "rename") => call'[d] = call[d]
    BY <1>0, <1>3 DEF Append, Continue, At, TypeOK
  <1>4. ASSUME NEW c \in Calls, NEW limit \in Limits, List(c, limit)
        PROVE  UNCHANGED <<pending, crashes>> /\
               \A d \in Calls : At(d, "rename") => call'[d] = call[d]
    BY <1>0, <1>4 DEF List, Continue, At, TypeOK
  <1>5. ASSUME NEW c \in Calls,
               sweep(c) \/ listReadDir(c) \/ listEntry(c) \/ listReturn(c)
                   \/ appendName(c)
        PROVE  UNCHANGED <<pending, crashes>> /\
               \A d \in Calls : At(d, "rename") => call'[d] = call[d]
    <2>1. ~ At(c, "rename") /\ \E h : Continue(c, h)
      BY <1>5 DEF sweep, listReadDir, listEntry, listReturn, appendName, Goto,
                  Return, At
    <2>2. UNCHANGED <<pending, crashes>>
      BY <1>5 DEF sweep, listReadDir, listEntry, listReturn, appendName
    <2> QED BY <1>0, <2>1, <2>2 DEF Continue, TypeOK
  <1>6. ASSUME NEW c \in Calls, appendCreate(c)
        PROVE  \E d \in Calls :
                   call'[d].at = "rename" /\ call'[d].event = e
    <2>1. /\ At(c, "create") /\ ~ At(c, "idle") /\ Goto(c, "rename")
          /\ pending' = pending \union {call[c].event}
          /\ UNCHANGED crashes
      BY <1>6 DEF appendCreate, At
    <2>2. /\ call'[c].at = "rename" /\ call'[c].event = call[c].event
          /\ \A d \in Calls : d # c => call'[d] = call[d]
      BY <1>0, <2>1, GotoTyped
    <2>3. CASE e = call[c].event
      BY <2>2, <2>3
    <2>4. CASE e \in pending
      <3>1. PICK d \in Calls : At(d, "rename") /\ call[d].event = e
        BY <2>1, <2>4 DEF NoLeftovers
      <3>2. d # c
        BY <2>1, <3>1 DEF At
      <3> QED BY <2>2, <3>1, <3>2 DEF At
    <2> QED BY <2>1, <2>3, <2>4
  <1>7. ASSUME NEW c \in Calls, appendRename(c) \/ Fail(c)
        PROVE  UNCHANGED crashes /\ pending' = pending \ {call[c].event} /\
               \A d \in Calls : d # c => call'[d] = call[d]
    BY <1>0, <1>7 DEF appendRename, Fail, Return, Continue, TypeOK
  <1>8. ASSUME NEW p \in Procs, Crash(p)
        PROVE  FALSE
    BY <1>0, <1>8 DEF Crash, TypeOK
  <1>9. CASE Tick \/ UNCHANGED vars
    BY <1>1, <1>9 DEF Tick, vars
  <1> QED BY <1>1, <1>2, <1>3, <1>4, <1>5, <1>6, <1>7, <1>8, <1>9
          DEF Next, Step

(* A temporary file belongs to an Append in flight until a process is      *)
(* killed: failed Appends leave nothing behind.                            *)
THEOREM NothingLeft == Spec => []NoLeftovers
  <1>1. Init => NoLeftovers
    BY DEF Init, NoLeftovers
  <1> QED BY <1>1, NextNoLeftovers, FlightSafe, PTL DEF Spec

-----------------------------------------------------------------------------
(* The directory implements the log: naming an event stamps it, renaming   *)
(* its file records it, and a scan removes only what had expired.          *)

LEMMA ScanForgets ==
    ASSUME FileInv, NEW c \in Calls, listEntry(c)
    PROVE  \A e \in files \ files' : Log!Outdated(e, clock)
  <1>0. TypeOK
    BY DEF FileInv
  <1>1. PICK e \in Newest(call[c].todo) :
            files' = IF Expired(e, call[c].cutoff) THEN files \ {e} ELSE files
    BY DEF listEntry
  <1>2. call[c] \in CallRecord /\ call[c].cutoff <= clock
    BY <1>0, BusyTyped DEF listEntry, FileInv, FlightInv, At
  <1>3. e \in files \ files' => stamp[e] \in Nat
    BY <1>0, <1>1 DEF TypeOK
  <1>4. clock \in Nat /\ call[c].cutoff \in Nat /\ Retention \in Nat
    BY <1>0, <1>2, AuditFileAssumption DEF TypeOK, CallRecord
  <1> QED BY <1>1, <1>2, <1>3, <1>4 DEF Expired, Log!Outdated

LEMMA NextLog == FileInv /\ [Next]_vars => [Log!Next]_(Log!log)
  <1> SUFFICES ASSUME FileInv, [Next]_vars
               PROVE  Log!Next \/ UNCHANGED <<clock, stamp, acked, files>>
    BY DEF Log!log
  <1>0. TypeOK
    BY DEF FileInv
  <1>1. ASSUME NEW c \in Calls,
               sweep(c) \/ listReadDir(c) \/ listReturn(c) \/ appendCreate(c)
                   \/ Fail(c)
        PROVE  UNCHANGED <<clock, stamp, acked, files>>
    BY <1>1 DEF sweep, listReadDir, listReturn, appendCreate, Fail
  <1>2. ASSUME NEW c \in Calls,
               \/ \E e \in Events : Append(c, e)
               \/ \E limit \in Limits : List(c, limit)
        PROVE  UNCHANGED <<clock, stamp, acked, files>>
    BY <1>2 DEF Append, List
  <1>3. ASSUME NEW c \in Calls, listEntry(c)
        PROVE  Log!Forget
    <2>1. files' \subseteq files /\ UNCHANGED <<clock, stamp, acked>>
      BY <1>3 DEF listEntry
    <2> QED BY <1>3, <2>1, ScanForgets DEF Log!Forget, Log!Keep
  <1>4. ASSUME NEW c \in Calls, appendName(c)
        PROVE  \E e \in Events : Log!Stamp(e)
    <2>1. /\ At(c, "name") /\ ~ At(c, "idle")
          /\ stamp' = [stamp EXCEPT ![call[c].event] = clock]
          /\ UNCHANGED <<clock, acked, files>>
      BY <1>4 DEF appendName, At
    <2>2. call[c].event \in Events /\ stamp[call[c].event] = None
      BY <1>0, <2>1, BusyTyped
         DEF FileInv, FlightInv, Appending, At, CallRecord
    <2>3. stamp'[call[c].event] = clock /\ clock \in Int
      BY <1>0, <2>1, <2>2 DEF TypeOK
    <2>4. Log!Stamp(call[c].event)
      BY <2>1, <2>2, <2>3 DEF Log!Stamp
    <2> QED BY <2>2, <2>4
  <1>5. ASSUME NEW c \in Calls, appendRename(c)
        PROVE  \E e \in Events : Log!Record(e)
    <2>1. /\ At(c, "rename") /\ ~ At(c, "idle")
          /\ files' = files \union {call[c].event}
          /\ acked' = acked \union {call[c].event}
          /\ UNCHANGED <<clock, stamp>>
      BY <1>5 DEF appendRename, At
    <2>2. /\ call[c].event \in Events /\ stamp[call[c].event] # None
          /\ call[c].event \notin acked
      BY <1>0, <2>1, BusyTyped
         DEF FileInv, FlightInv, Appending, At, CallRecord
    <2>3. Log!Record(call[c].event)
      BY <2>1, <2>2 DEF Log!Record, Log!Keep
    <2> QED BY <2>2, <2>3
  <1>6. ASSUME NEW p \in Procs, Crash(p)
        PROVE  UNCHANGED <<clock, stamp, acked, files>>
    BY <1>6 DEF Crash
  <1>7. CASE Tick
    <2>1. Log!Tick
      BY <1>7 DEF Tick, Log!Tick, Log!Keep
    <2> QED BY <2>1 DEF Log!Next
  <1>8. CASE UNCHANGED vars
    BY <1>8 DEF vars
  <1> QED BY <1>1, <1>2, <1>3, <1>4, <1>5, <1>6, <1>7, <1>8
          DEF Next, Step, Log!Next

(* Under every interleaving of the processes, failure and crash, the       *)
(* directory is an audit log: an event whose Append succeeded stays for    *)
(* the whole retention, and what was removed does not come back.           *)
THEOREM FilesImplementLog == Spec => FileImplementsLog
  <1>1. Init => Log!Init
    BY DEF Init, Log!Init
  <1> QED BY <1>1, NextLog, FlightSafe, PTL
          DEF Spec, FileImplementsLog, Log!Spec

-----------------------------------------------------------------------------
(* What a List finds.  KeptInv: a recorded event is missing only after its *)
(* retention.  ScanInv: a call works on recorded events, its result is     *)
(* newer than what it has yet to read, and it loses none of the events     *)
(* recorded before it began.                                               *)

Gone(e) == stamp[e] <= clock - Retention

KeptInv ==
    /\ files \subseteq acked
    /\ \A e \in acked : e \in files \/ Gone(e)

Found(e, found, limit) ==
    \/ Gone(e)
    \/ e \in found
    \/ /\ Cardinality(found) = limit
       /\ \A d \in found : stamp[d] >= stamp[e]

Begins(c) ==
    /\ call[c].old \union call[c].before \subseteq acked
    /\ \A e \in call[c].old : Gone(e)

Scans(c) ==
    LET h == call[c]
    IN  /\ h.todo \union h.result \subseteq acked
        /\ h.todo \intersect h.result = {}
        /\ IsFiniteSet(h.result) /\ Cardinality(h.result) <= h.limit
        /\ \A d \in h.result, e \in h.todo : stamp[d] >= stamp[e]
        /\ h.old \intersect files \subseteq h.todo
        /\ \A e \in h.old : Expired(e, h.cutoff)
        /\ \A e \in h.before \ h.todo : Found(e, h.result, h.limit)

ScanInv ==
    \A c \in Calls :
        /\ ~ At(c, "idle") => Begins(c)
        /\ At(c, "sweep") \/ At(c, "list") => call[c].result = {}
        /\ At(c, "scan") => Scans(c)

(* What every step keeps. *)
Keeps ==
    /\ acked \subseteq acked'
    /\ \A e \in acked : stamp'[e] = stamp[e]
    /\ clock <= clock'
    /\ files' \subseteq files \union (acked' \ acked)
    /\ acked' \ acked \subseteq files'
    /\ \A e \in files \ files' : Gone(e)

LEMMA InitRead == Init => KeptInv /\ ScanInv
  BY DEF Init, KeptInv, ScanInv, At, Idle

LEMMA NextKeeps ==
    ASSUME FileInv, [Next]_vars
    PROVE  Keeps
  <1>0. TypeOK /\ clock \in Nat
    BY DEF FileInv, TypeOK
  <1>1. ASSUME UNCHANGED <<clock, files, stamp, acked>>
        PROVE  Keeps
    BY <1>0, <1>1 DEF Keeps
  <1>2. ASSUME NEW c \in Calls,
               \/ \E e \in Events : Append(c, e)
               \/ \E limit \in Limits : List(c, limit)
               \/ sweep(c) \/ listReadDir(c) \/ listReturn(c)
               \/ appendCreate(c) \/ Fail(c)
        PROVE  UNCHANGED <<clock, files, stamp, acked>>
    BY <1>2 DEF Append, List, sweep, listReadDir, listReturn, appendCreate, Fail
  <1>3. ASSUME NEW c \in Calls, listEntry(c)
        PROVE  Keeps
    <2>1. files' \subseteq files /\ UNCHANGED <<clock, stamp, acked>>
      BY <1>3 DEF listEntry
    <2>2. \A e \in files \ files' : Gone(e)
      BY <1>3, ScanForgets DEF Log!Outdated, Gone
    <2> QED BY <1>0, <2>1, <2>2 DEF Keeps
  <1>4. ASSUME NEW c \in Calls, appendName(c)
        PROVE  Keeps
    <2>1. /\ At(c, "name") /\ ~ At(c, "idle")
          /\ stamp' = [stamp EXCEPT ![call[c].event] = clock]
          /\ UNCHANGED <<clock, acked, files>>
      BY <1>4 DEF appendName, At
    <2>2. stamp[call[c].event] = None
      BY <2>1 DEF FileInv, FlightInv, Appending, At
    <2>3. \A e \in acked : stamp'[e] = stamp[e]
      BY <1>0, <2>1, <2>2 DEF TypeOK
    <2> QED BY <1>0, <2>1, <2>3 DEF Keeps
  <1>5. ASSUME NEW c \in Calls, appendRename(c)
        PROVE  Keeps
    <2>1. /\ At(c, "rename") /\ ~ At(c, "idle")
          /\ files' = files \union {call[c].event}
          /\ acked' = acked \union {call[c].event}
          /\ UNCHANGED <<clock, stamp>>
      BY <1>5 DEF appendRename, At
    <2>2. call[c].event \notin acked
      BY <2>1 DEF FileInv, FlightInv, Appending, At
    <2> QED BY <1>0, <2>1, <2>2 DEF Keeps
  <1>6. ASSUME NEW p \in Procs, Crash(p)
        PROVE  UNCHANGED <<clock, files, stamp, acked>>
    BY <1>6 DEF Crash
  <1>7. CASE Tick
    BY <1>0, <1>7 DEF Tick, Keeps
  <1>8. CASE UNCHANGED vars
    BY <1>1, <1>8 DEF vars
  <1> QED BY <1>1, <1>2, <1>3, <1>4, <1>5, <1>6, <1>7, <1>8 DEF Next, Step

LEMMA GoneStays ==
    ASSUME TypeOK, Keeps, clock' \in Nat, NEW e \in acked, Gone(e)
    PROVE  Gone(e)'
  <1>1. stamp[e] \in Nat /\ clock \in Nat /\ Retention \in Nat
    BY AuditFileAssumption DEF TypeOK
  <1> QED BY <1>1 DEF Keeps, Gone

LEMMA NextKept == FileInv /\ KeptInv /\ [Next]_vars => KeptInv'
  <1> SUFFICES ASSUME FileInv, KeptInv, [Next]_vars PROVE KeptInv'
    OBVIOUS
  <1>1. Keeps /\ TypeOK /\ clock' \in Nat
    BY NextKeeps, NextFileInv DEF FileInv, TypeOK
  <1>2. \A e \in acked : Gone(e) => Gone(e)'
    BY <1>1, GoneStays
  <1>3. files' \subseteq acked'
    BY <1>1 DEF Keeps, KeptInv
  <1>4. \A e \in acked' : e \in files' \/ Gone(e)'
    BY <1>1, <1>2 DEF Keeps, KeptInv
  <1> QED BY <1>3, <1>4 DEF KeptInv

(* A call that did not move, or was cut short. *)
LEMMA ScanFrame ==
    ASSUME FileInv, KeptInv, ScanInv, Keeps, clock' \in Nat, NEW d \in Calls,
           call'[d] = call[d] \/ call'[d] = Idle
    PROVE  /\ (~ At(d, "idle"))' => Begins(d)'
           /\ (At(d, "sweep") \/ At(d, "list"))' => call'[d].result = {}
           /\ At(d, "scan")' => Scans(d)'
  <1>1. CASE call'[d] = Idle
    BY <1>1 DEF At, Idle
  <1>2. CASE call'[d] = call[d]
    <2>0. \A e \in acked : Gone(e) => Gone(e)'
      BY GoneStays DEF FileInv
    <2>1. (~ At(d, "idle"))' => Begins(d)'
      BY <1>2, <2>0 DEF ScanInv, Begins, At, Keeps
    <2>2. (At(d, "sweep") \/ At(d, "list"))' => call'[d].result = {}
      BY <1>2 DEF ScanInv, At
    <2>3. ASSUME At(d, "scan")' PROVE Scans(d)'
      <3>0. /\ Scans(d) /\ Begins(d)
        BY <1>2, <2>3 DEF ScanInv, At
      <3>1. \A e \in call[d].todo \union call[d].result \union call[d].old
                    \union call[d].before :
                e \in acked /\ e \in acked' /\ stamp'[e] = stamp[e]
        BY <3>0 DEF Scans, Begins, Keeps
      <3>2. call[d].old \intersect files' \subseteq call[d].todo
        BY <3>0 DEF Scans, Begins, Keeps
      <3>3. \A e \in call[d].before \ call[d].todo :
                Found(e, call[d].result, call[d].limit)'
        BY <1>2, <2>0, <3>0, <3>1 DEF Scans, Found
      <3>4. \A e \in call[d].old : Expired(e, call[d].cutoff)'
        BY <1>2, <3>0, <3>1 DEF Scans, Expired
      <3>5. \A f \in call[d].result, e \in call[d].todo :
                stamp'[f] >= stamp'[e]
        BY <3>0, <3>1 DEF Scans
      <3>6. /\ (call[d].todo \union call[d].result) \subseteq acked'
            /\ call[d].todo \intersect call[d].result = {}
            /\ IsFiniteSet(call[d].result)
            /\ Cardinality(call[d].result) <= call[d].limit
        BY <3>0, <3>1 DEF Scans
      <3> QED BY <1>2, <3>2, <3>3, <3>4, <3>5, <3>6 DEF Scans
    <2> QED BY <2>1, <2>2, <2>3
  <1> QED BY <1>1, <1>2

(* A call that goes on without reading the directory. *)
LEMMA ScanMove ==
    ASSUME FileInv, KeptInv, ScanInv, Keeps, clock' \in Nat, NEW c \in Calls,
           ~ At(c, "idle"), call'[c].old = call[c].old,
           call'[c].before = call[c].before
    PROVE  Begins(c)'
  <1>1. Begins(c)
    BY DEF ScanInv
  <1>2. \A e \in acked : Gone(e) => Gone(e)'
    BY GoneStays DEF FileInv
  <1> QED BY <1>1, <1>2 DEF Begins, Keeps

(* The next entry of a scan. *)
LEMMA EntryScans ==
    ASSUME FileInv, KeptInv, ScanInv, Keeps, NEW c \in Calls, listEntry(c)
    PROVE  /\ call'[c].old = call[c].old
           /\ call'[c].before = call[c].before
           /\ call'[c].at = "scan"
           /\ \A d \in Calls : d # c => call'[d] = call[d]
           /\ Scans(c)'
  <1> DEFINE h == call[c]
  <1>0. TypeOK
    BY DEF FileInv
  <1>1. PICK e \in Newest(h.todo) :
            LET expired == Expired(e, h.cutoff)
                read    == /\ ~ expired
                           /\ Cardinality(h.result) < h.limit
                           /\ e \in files
            IN  /\ files' = IF expired THEN files \ {e} ELSE files
                /\ Continue(c, [h EXCEPT
                       !.todo = @ \ {e},
                       !.result = IF read THEN @ \union {e} ELSE @])
    BY DEF listEntry
  <1> DEFINE read == /\ ~ Expired(e, h.cutoff)
                     /\ Cardinality(h.result) < h.limit
                     /\ e \in files
             result == IF read THEN h.result \union {e} ELSE h.result
             g == [h EXCEPT !.todo = @ \ {e}]
             k == [g EXCEPT !.result = result]
  <1>2. /\ At(c, "scan") /\ h \in CallRecord /\ Scans(c) /\ Begins(c)
        /\ UNCHANGED <<clock, stamp, acked>> /\ h.cutoff <= clock
    BY <1>0, BusyTyped DEF listEntry, FileInv, FlightInv, ScanInv, At
  <1>3. e \in h.todo /\ e \in acked /\ e \in Events
    BY <1>0, <1>2 DEF Newest, Scans, TypeOK
  <1>4. result \in SUBSET Events
    BY <1>2, <1>3 DEF CallRecord
  <1>5. g \in CallRecord /\ g.todo = h.todo \ {e} /\ g.result = h.result
        /\ g.at = "scan" /\ g.limit = h.limit /\ g.cutoff = h.cutoff
        /\ g.old = h.old /\ g.before = h.before
    BY <1>2 DEF CallRecord, At
  <1>6. k \in CallRecord /\ k.todo = h.todo \ {e} /\ k.result = result
        /\ k.at = "scan" /\ k.limit = h.limit /\ k.cutoff = h.cutoff
        /\ k.old = h.old /\ k.before = h.before
    BY <1>4, <1>5 DEF CallRecord
  <1>7. Continue(c, k)
    <2>1. k = [h EXCEPT !.todo = @ \ {e}, !.result = result]
      BY <1>2 DEF CallRecord
    <2> QED BY <1>1, <2>1
  <1> HIDE DEF k, g
  <1>8. /\ call'[c] = k
        /\ \A d \in Calls : d # c => call'[d] = call[d]
    BY <1>0, <1>6, <1>7, ContinueTyped
  <1>9. files' = IF Expired(e, h.cutoff) THEN files \ {e} ELSE files
    BY <1>1
  <1>10. /\ IsFiniteSet(result)
         /\ Cardinality(result) =
                IF read THEN Cardinality(h.result) + 1
                        ELSE Cardinality(h.result)
    <2>1. e \notin h.result /\ IsFiniteSet(h.result)
      BY <1>2, <1>3 DEF Scans
    <2>2. /\ IsFiniteSet(h.result \union {e})
          /\ Cardinality(h.result \union {e}) = Cardinality(h.result) + 1
      BY <2>1, FS_AddElement
    <2> QED BY <2>1, <2>2
  <1>11. Cardinality(h.result) \in Nat /\ h.limit \in Nat
    BY <1>2, FS_CardinalityType DEF Scans, CallRecord
  <1>12. Cardinality(result) <= h.limit
    BY <1>2, <1>10, <1>11 DEF Scans
  <1>13. /\ result \subseteq h.result \union {e} /\ h.result \subseteq result
         /\ read => e \in result
    OBVIOUS
  <1> HIDE DEF result
  <1>14. \A d \in result, f \in h.todo \ {e} : stamp[d] >= stamp[f]
    <2>1. \A f \in h.todo : stamp[e] >= stamp[f]
      <3>1. \A f \in h.todo : stamp[f] <= stamp[e]
        BY <1>1 DEF Newest
      <3>2. \A f \in h.todo : stamp[f] \in Nat
        BY <1>0, <1>2 DEF Scans, TypeOK
      <3> QED BY <1>3, <3>1, <3>2
    <2> QED BY <1>2, <1>13, <2>1 DEF Scans
  <1>15. h.old \intersect files' \subseteq h.todo \ {e}
    BY <1>2, <1>3, <1>9 DEF Scans
  <1>16. \A f \in h.before \ (h.todo \ {e}) : Found(f, result, h.limit)
    <2> SUFFICES ASSUME NEW f \in h.before \ (h.todo \ {e})
                 PROVE  Found(f, result, h.limit)
      OBVIOUS
    <2>1. CASE f # e
      <3>1. Found(f, h.result, h.limit)
        BY <1>2, <2>1 DEF Scans
      <3>2. CASE Gone(f) \/ f \in h.result
        BY <1>13, <3>2 DEF Found
      <3>3. CASE /\ Cardinality(h.result) = h.limit
                 /\ \A d \in h.result : stamp[d] >= stamp[f]
        <4>1. ~ read
          BY <1>11, <3>3
        <4>2. result = h.result
          BY <4>1 DEF result
        <4> QED BY <3>3, <4>2 DEF Found
      <3> QED BY <3>1, <3>2, <3>3 DEF Found
    <2>2. CASE f = e
      <3>1. CASE Expired(e, h.cutoff)
        <4>1. stamp[e] \in Nat /\ clock \in Nat /\ h.cutoff \in Nat
              /\ Retention \in Nat
          BY <1>0, <1>2, <1>3, AuditFileAssumption DEF TypeOK, CallRecord
        <4>2. Gone(e)
          BY <1>2, <3>1, <4>1 DEF Expired, Gone
        <4> QED BY <2>2, <4>2 DEF Found
      <3>2. CASE e \notin files
        BY <1>3, <2>2, <3>2 DEF KeptInv, Found
      <3>3. CASE ~ Expired(e, h.cutoff) /\ Cardinality(h.result) >= h.limit
        <4>1. ~ read /\ Cardinality(h.result) = h.limit
          BY <1>2, <1>11, <3>3 DEF Scans
        <4>2. result = h.result
          BY <4>1 DEF result
        <4>3. \A d \in h.result : stamp[d] >= stamp[e]
          BY <1>2, <1>3 DEF Scans
        <4> QED BY <2>2, <4>1, <4>2, <4>3 DEF Found
      <3>4. CASE read
        BY <1>13, <2>2, <3>4 DEF Found
      <3> QED BY <1>11, <3>1, <3>2, <3>3, <3>4
    <2> QED BY <2>1, <2>2
  <1>17. /\ (k.todo \union k.result) \subseteq acked
         /\ k.todo \intersect k.result = {}
         /\ IsFiniteSet(k.result) /\ Cardinality(k.result) <= k.limit
         /\ \A f \in k.old : Expired(f, k.cutoff)
    BY <1>2, <1>3, <1>6, <1>10, <1>12, <1>13 DEF Scans
  <1>18. \A f, cutoff, found, limit :
             /\ Expired(f, cutoff)' <=> Expired(f, cutoff)
             /\ Found(f, found, limit)' <=> Found(f, found, limit)
    BY <1>2 DEF Expired, Found, Gone
  <1>19. Scans(c)'
    BY <1>2, <1>6, <1>8, <1>14, <1>15, <1>16, <1>17, <1>18
       DEF Scans
  <1> QED BY <1>6, <1>8, <1>19

LEMMA ReadDirScans ==
    ASSUME FileInv, KeptInv, ScanInv, NEW c \in Calls, listReadDir(c)
    PROVE  /\ call'[c].old = call[c].old
           /\ call'[c].before = call[c].before
           /\ call'[c].at = "scan"
           /\ \A d \in Calls : d # c => call'[d] = call[d]
           /\ Scans(c)'
  <1> DEFINE h == call[c]
             g == [h EXCEPT !.at = "scan"]
             f == [g EXCEPT !.todo = files]
             k == [f EXCEPT !.cutoff = clock]
  <1>0. TypeOK /\ clock \in Nat
    BY DEF FileInv, TypeOK
  <1>1. /\ At(c, "list") /\ ~ At(c, "idle") /\ h \in CallRecord
        /\ UNCHANGED <<clock, files, stamp, acked>>
    BY <1>0, BusyTyped DEF listReadDir, At
  <1>2. /\ g \in CallRecord /\ g.at = "scan" /\ g.result = h.result
        /\ g.limit = h.limit /\ g.old = h.old /\ g.before = h.before
    BY <1>1 DEF CallRecord
  <1>3. /\ f \in CallRecord /\ f.at = "scan" /\ f.result = h.result
        /\ f.limit = h.limit /\ f.old = h.old /\ f.before = h.before
        /\ f.todo = files
    BY <1>0, <1>2 DEF CallRecord, TypeOK
  <1>4. /\ k \in CallRecord /\ k.at = "scan" /\ k.result = h.result
        /\ k.limit = h.limit /\ k.old = h.old /\ k.before = h.before
        /\ k.todo = files /\ k.cutoff = clock
    BY <1>0, <1>3 DEF CallRecord
  <1>5. Continue(c, k)
    <2>1. k = [h EXCEPT !.at = "scan", !.todo = files, !.cutoff = clock]
      BY <1>1 DEF CallRecord
    <2> QED BY <2>1 DEF listReadDir
  <1> HIDE DEF k, f, g
  <1>6. /\ call'[c] = k
        /\ \A d \in Calls : d # c => call'[d] = call[d]
    BY <1>0, <1>4, <1>5, ContinueTyped
  <1>7. h.result = {} /\ Begins(c) /\ h.limit \in Nat
    BY <1>1 DEF ScanInv, CallRecord
  <1>8. IsFiniteSet({}) /\ Cardinality({}) = 0
    BY FS_EmptySet
  <1>9. \A e \in h.old : Expired(e, clock)'
    BY <1>1, <1>7 DEF Begins, Gone, Expired
  <1>10. \A e \in h.before \ files : Gone(e)'
    BY <1>1, <1>7 DEF Begins, KeptInv, Gone
  <1>11. Scans(c)'
    BY <1>1, <1>4, <1>6, <1>7, <1>8, <1>9, <1>10 DEF Scans, Found, KeptInv
  <1> QED BY <1>4, <1>6, <1>11

LEMMA NextScan == FileInv /\ KeptInv /\ ScanInv /\ [Next]_vars => ScanInv'
  <1> SUFFICES ASSUME FileInv, KeptInv, ScanInv, [Next]_vars
               PROVE  ScanInv'
    OBVIOUS
  <1> DEFINE Good(d) == /\ ~ At(d, "idle") => Begins(d)
                        /\ At(d, "sweep") \/ At(d, "list") =>
                               call[d].result = {}
                        /\ At(d, "scan") => Scans(d)
  <1>0. TypeOK /\ Keeps /\ clock' \in Nat
    BY NextKeeps, NextFileInv DEF FileInv, TypeOK
  <1>1. ASSUME NEW d \in Calls, call'[d] = call[d] \/ call'[d] = Idle
        PROVE  Good(d)'
    BY <1>0, <1>1, ScanFrame
  <1> HIDE DEF Good
  <1>2. (\A d \in Calls : Good(d)') => ScanInv'
    BY DEF Good, ScanInv
  <1>3. ASSUME NEW c \in Calls, Good(c)',
               \A d \in Calls : d # c => call'[d] = call[d]
        PROVE  ScanInv'
    BY <1>1, <1>2, <1>3
  <1>4. ASSUME NEW c \in Calls, ~ At(c, "idle"),
               NEW label \in {"name", "create", "rename"}, Goto(c, label)
        PROVE  ScanInv'
    <2>1. /\ call'[c].at = label
          /\ call'[c].old = call[c].old /\ call'[c].before = call[c].before
          /\ \A d \in Calls : d # c => call'[d] = call[d]
      BY <1>0, <1>4, GotoTyped
    <2>2. Begins(c)'
      BY <1>0, <1>4, <2>1, ScanMove
    <2>3. Good(c)'
      BY <2>1, <2>2 DEF Good, At
    <2> QED BY <1>3, <2>1, <2>3
  <1>5. ASSUME NEW c \in Calls, Return(c)
        PROVE  ScanInv'
    BY <1>0, <1>1, <1>2, <1>5, ReturnTyped
  <1>6. ASSUME NEW c \in Calls, NEW event \in Events \union {None},
               NEW limit \in Nat, Continue(c, Begun(event, limit)),
               UNCHANGED <<clock, files, stamp, acked>>
        PROVE  ScanInv'
    <2>1. Begun(event, limit) \in CallRecord
      BY <1>0 DEF Begun, CallRecord, ExpiredFiles, TypeOK
    <2>2. /\ call'[c] = Begun(event, limit)
          /\ \A d \in Calls : d # c => call'[d] = call[d]
      BY <1>0, <1>6, <2>1, ContinueTyped
    <2>3. Begins(c)'
      BY <1>6, <2>2
         DEF Begins, Begun, ExpiredFiles, Expired, Gone, KeptInv
    <2>4. Good(c)'
      BY <2>2, <2>3 DEF Good, Begun, At
    <2> QED BY <1>3, <2>2, <2>4
  <1>7. ASSUME NEW c \in Calls, NEW e \in Events, Append(c, e)
        PROVE  ScanInv'
    <2>1. /\ Continue(c, Begun(e, 0))
          /\ UNCHANGED <<clock, files, stamp, acked>>
      BY <1>7, AuditFileAssumption DEF Append, Begun
    <2> QED BY <1>6, <2>1
  <1>8. ASSUME NEW c \in Calls, NEW limit \in Limits, List(c, limit)
        PROVE  ScanInv'
    <2>1. /\ Continue(c, Begun(None, limit)) /\ limit \in Nat
          /\ UNCHANGED <<clock, files, stamp, acked>>
      BY <1>8, AuditFileAssumption DEF List, Begun
    <2> QED BY <1>6, <2>1
  <1>9. ASSUME NEW c \in Calls, sweep(c)
        PROVE  ScanInv'
    <2>1. At(c, "sweep") /\ ~ At(c, "idle") /\ call[c] \in CallRecord
      BY <1>0, <1>9, BusyTyped DEF sweep, At
    <2>2. CASE Goto(c, "name")
      BY <1>4, <2>1, <2>2
    <2>3. CASE Continue(c, [call[c] EXCEPT !.at = "list", !.now = clock])
      <3> DEFINE g == [call[c] EXCEPT !.at = "list"]
                 h == [call[c] EXCEPT !.at = "list", !.now = clock]
      <3>1. /\ g \in CallRecord /\ g.at = "list" /\ g.result = call[c].result
            /\ g.old = call[c].old /\ g.before = call[c].before
        BY <2>1 DEF CallRecord
      <3>2. h = [g EXCEPT !.now = clock]
        BY <2>1 DEF CallRecord
      <3>3. /\ h \in CallRecord /\ h.at = "list" /\ h.result = call[c].result
            /\ h.old = call[c].old /\ h.before = call[c].before
        BY <1>0, <3>1, <3>2 DEF CallRecord, TypeOK
      <3> HIDE DEF h
      <3>4. /\ call'[c] = h
            /\ \A d \in Calls : d # c => call'[d] = call[d]
        BY <1>0, <2>3, <3>3, ContinueTyped DEF h
      <3>5. Begins(c)'
        BY <1>0, <2>1, <3>3, <3>4, ScanMove
      <3>6. call'[c].result = {}
        BY <2>1, <3>3, <3>4 DEF ScanInv
      <3>7. Good(c)'
        BY <3>3, <3>4, <3>5, <3>6 DEF Good, At
      <3> QED BY <1>3, <3>4, <3>7
    <2> QED BY <1>9, <2>2, <2>3 DEF sweep
  <1>10. ASSUME NEW c \in Calls, listReadDir(c)
         PROVE  ScanInv'
    <2>1. ~ At(c, "idle")
      BY <1>10 DEF listReadDir, At
    <2>2. /\ call'[c].at = "scan" /\ Scans(c)' /\ Begins(c)'
          /\ \A d \in Calls : d # c => call'[d] = call[d]
      BY <1>0, <1>10, <2>1, ReadDirScans, ScanMove
    <2>3. Good(c)'
      BY <2>2 DEF Good, At
    <2> QED BY <1>3, <2>2, <2>3
  <1>11. ASSUME NEW c \in Calls, listEntry(c)
         PROVE  ScanInv'
    <2>1. ~ At(c, "idle")
      BY <1>11 DEF listEntry, At
    <2>2. /\ call'[c].at = "scan" /\ Scans(c)' /\ Begins(c)'
          /\ \A d \in Calls : d # c => call'[d] = call[d]
      BY <1>0, <1>11, <2>1, EntryScans, ScanMove
    <2>3. Good(c)'
      BY <2>2 DEF Good, At
    <2> QED BY <1>3, <2>2, <2>3
  <1>12. ASSUME NEW c \in Calls,
                listReturn(c) \/ appendName(c) \/ appendCreate(c)
                    \/ appendRename(c) \/ Fail(c)
         PROVE  ScanInv'
    <2>1. ~ At(c, "idle")
      BY <1>12 DEF listReturn, appendName, appendCreate, appendRename, Fail, At
    <2>2. Return(c) \/ Goto(c, "name") \/ Goto(c, "create")
          \/ Goto(c, "rename")
      BY <1>12
         DEF listReturn, appendName, appendCreate, appendRename, Fail
    <2> QED BY <1>4, <1>5, <2>1, <2>2
  <1>13. ASSUME NEW p \in Procs, Crash(p)
         PROVE  ScanInv'
    BY <1>0, <1>1, <1>2, <1>13 DEF Crash, TypeOK
  <1>14. CASE Tick \/ UNCHANGED vars
    BY <1>1, <1>2, <1>14 DEF Tick, vars
  <1> QED BY <1>7, <1>8, <1>9, <1>10, <1>11, <1>12, <1>13, <1>14
          DEF Next, Step

LEMMA ReadSafe == Spec => [](KeptInv /\ ScanInv)
  <1>1. FileInv /\ KeptInv /\ ScanInv /\ [Next]_vars => (KeptInv /\ ScanInv)'
    BY NextKept, NextScan
  <1> QED BY <1>1, InitRead, FlightSafe, PTL DEF Spec

LEMMA ReadComplete == FileInv /\ KeptInv /\ ScanInv => ListComplete
  <1> SUFFICES ASSUME FileInv, ScanInv, NEW c \in Calls,
                      At(c, "scan"), call[c].todo = {}
               PROVE  FoundAll(c) /\ Cleaned(c)
    BY DEF ListComplete, Returning
  <1>1. Scans(c)
    BY DEF ScanInv
  <1> QED BY <1>1 DEF Scans, Found, Gone, FoundAll, Cleaned

(* A List finds every event recorded before it began and not expired,      *)
(* newest first up to its limit, and leaves no file that had expired,      *)
(* whatever the other processes write and remove while it reads.           *)
THEOREM ListsComplete == Spec => []ListComplete
  BY ReadComplete, ReadSafe, FlightSafe, PTL

-----------------------------------------------------------------------------
(* The installation: Audit runs the store of its command and leaves the    *)
(* other as it was, while both read the same clock.                        *)

RP == INSTANCE RemoteAuditProofs WITH Slots <- Calls

FilesSafe == FileInv /\ KeptInv /\ ScanInv /\ NoLeftovers

FilesUnused ==
    /\ files = {} /\ pending = {} /\ acked = {}
    /\ stamp = [e \in Events |-> None]
    /\ mutex = [p \in Procs |-> None]
    /\ nextSweep = [p \in Procs |-> 0]
    /\ call = [c \in Calls |-> Idle]
    /\ crashes = 0

ValkeyUnused ==
    /\ request = [c \in Calls |-> Idle]
    /\ owner = [e \in Events |-> None]
    /\ score = [e \in Events |-> None]
    /\ success = [e \in Events |-> None]
    /\ answer = [e \in Events |-> None]
    /\ expires = [e \in Events |-> 0]
    /\ indexExpires = [i \in Identities |-> 0]
    /\ index = {} /\ stored = {} /\ recorded = {} /\ unstored = {}

AuditInv ==
    /\ command \in {"stdio", "remote"}
    /\ FilesSafe /\ RP!Safe
    /\ command = "stdio" => ValkeyUnused
    /\ command = "remote" => FilesUnused

LEMMA SameConstants == RP!ConstantsOK
  <1>1. RP!ConstantsOK <=> Remote!ConstantsOK
    BY DEF RP!ConstantsOK, Remote!ConstantsOK, RP!IsFiniteSet,
           Remote!IsFiniteSet
  <1> QED BY <1>1, AuditAssumption

LEMMA SameInit == RP!Init <=> Remote!Init
  BY DEF RP!Init, Remote!Init, RP!Idle, Remote!Idle

LEMMA SameNext == RP!Next <=> Remote!Next
  BY DEF RP!Next, Remote!Next, RP!callTool, Remote!callTool, RP!toolReturns,
         Remote!toolReturns, RP!At, Remote!At, RP!Outcomes, Remote!Outcomes,
         RP!Success, Remote!Success, RP!Continue, Remote!Continue, RP!valkey,
         Remote!valkey, RP!events, Remote!events, RP!Idle, Remote!Idle,
         RP!Fault, Remote!Fault, RP!appendNow, Remote!appendNow, RP!Answer,
         Remote!Answer, RP!Reported, Remote!Reported, RP!OfOwner,
         Remote!OfOwner, RP!IsNewest, Remote!IsNewest, RP!IndexLifeRenewed,
         Remote!IndexLifeRenewed, RP!appendAudit, Remote!appendAudit,
         RP!appendScript, Remote!appendScript, RP!appendFails,
         Remote!appendFails, RP!Restart, Remote!Restart, RP!Tick, Remote!Tick,
         RP!Cardinality, Remote!Cardinality

LEMMA SamePages == RP!PagesRight <=> Remote!PagesRight
  BY DEF RP!PagesRight, Remote!PagesRight, RP!webPage, Remote!webPage,
         RP!listAudit, Remote!listAudit, RP!NewPage, Remote!NewPage,
         RP!OfOwner, Remote!OfOwner, RP!IsNewest, Remote!IsNewest,
         RP!Cardinality, Remote!Cardinality

LEMMA SameAudited == RP!CallsAudited <=> Remote!CallsAudited
  BY DEF RP!CallsAudited, Remote!CallsAudited

LEMMA SameLog ==
    [RP!Log!Next]_(RP!Log!log) <=> [Remote!Log!Next]_(Remote!Log!log)
  BY DEF RP!Log!Next, Remote!Log!Next, RP!Log!log, Remote!Log!log,
         RP!Log!Forget, Remote!Log!Forget, RP!Log!Tick, Remote!Log!Tick,
         RP!Log!Begin, Remote!Log!Begin, RP!Log!Stamp, Remote!Log!Stamp,
         RP!Log!Record, Remote!Log!Record, RP!Log!Keep, Remote!Log!Keep,
         RP!Log!Outdated, Remote!Log!Outdated, RP!Log!Crowded,
         Remote!Log!Crowded, RP!Log!Cardinality, Remote!Log!Cardinality,
         RP!Kept, Remote!Kept

(* A store that is not used is safe at any time. *)
LEMMA UnusedFiles ==
    FilesUnused /\ clock \in Nat /\ faults \in Nat => FilesSafe
  <1> SUFFICES ASSUME FilesUnused, clock \in Nat, faults \in Nat
               PROVE  FilesSafe
    OBVIOUS
  <1>1. TypeOK
    BY DEF FilesUnused, TypeOK, Call
  <1>2. FlightInv
    BY DEF FilesUnused, FlightInv, Appending, At, Idle
  <1>3. KeptInv /\ ScanInv /\ NoLeftovers
    BY DEF FilesUnused, KeptInv, ScanInv, NoLeftovers, At, Idle
  <1> QED BY <1>1, <1>2, <1>3 DEF FilesSafe, FileInv

LEMMA UnusedValkey ==
    ValkeyUnused /\ clock \in Nat /\ faults \in Nat => RP!Safe
  <1> SUFFICES ASSUME ValkeyUnused, clock \in Nat, faults \in Nat
               PROVE  RP!Safe
    OBVIOUS
  <1>1. RP!TypeOK
    BY DEF ValkeyUnused, RP!TypeOK, RP!Request, RP!Idle, Idle
  <1>2. RP!CallInv /\ RP!FreshInv
    BY DEF ValkeyUnused, RP!CallInv, RP!FreshInv, RP!Serves, RP!At, Idle
  <1>3. RP!KeyInv /\ RP!CutInv /\ RP!SeenInv
    BY DEF ValkeyUnused, RP!KeyInv, RP!CutInv, RP!SeenInv
  <1>4. RP!CallsAudited
    BY DEF ValkeyUnused, RP!CallsAudited
  <1> QED BY <1>1, <1>2, <1>3, <1>4 DEF RP!Safe, RP!Inv

LEMMA FilesStep == FilesSafe /\ [Next]_vars => FilesSafe'
  BY NextFileInv, NextKept, NextScan, NextNoLeftovers DEF FilesSafe

LEMMA InitAudit == AuditInit => AuditInv
  <1> SUFFICES ASSUME AuditInit PROVE AuditInv
    OBVIOUS
  <1>1. FilesUnused /\ ValkeyUnused /\ clock \in Nat /\ faults \in Nat
    BY DEF AuditInit, Init, Remote!Init, FilesUnused, ValkeyUnused,
           Remote!Idle, Idle
  <1>2. FilesSafe /\ RP!Safe
    BY <1>1, UnusedFiles, UnusedValkey
  <1> QED BY <1>1, <1>2 DEF AuditInv, AuditInit

(* A step of the installation is a step of the store of its command.       *)
LEMMA StepCases ==
    ASSUME AuditInv, [AuditNext]_auditVars
    PROVE  \/ /\ command = "stdio" /\ [Next]_vars
              /\ UNCHANGED <<command, inValkey>>
           \/ /\ command = "remote" /\ [RP!Next]_(RP!vars)
              /\ UNCHANGED <<command, inFiles>>
  <1>1. CASE stdio
    BY <1>1 DEF stdio, OverStdio
  <1>2. CASE remote
    BY <1>2, SameNext DEF remote
  <1>3. CASE UNCHANGED auditVars
    <2>1. UNCHANGED vars /\ UNCHANGED RP!vars
          /\ UNCHANGED <<command, inValkey, inFiles>>
      BY <1>3 DEF auditVars, vars, inValkey, inFiles, RP!vars
    <2> QED BY <2>1 DEF AuditInv
  <1> QED BY <1>1, <1>2, <1>3 DEF AuditNext

LEMMA NextAudit == AuditInv /\ [AuditNext]_auditVars => AuditInv'
  <1> SUFFICES ASSUME AuditInv, [AuditNext]_auditVars PROVE AuditInv'
    OBVIOUS
  <1>f. (FilesUnused /\ clock \in Nat /\ faults \in Nat => FilesSafe)'
    BY UnusedFiles, PTL
  <1>v. (ValkeyUnused /\ clock \in Nat /\ faults \in Nat => RP!Safe)'
    BY UnusedValkey, PTL
  <1>1. CASE /\ command = "stdio" /\ [Next]_vars
             /\ UNCHANGED <<command, inValkey>>
    <2>1. FilesSafe'
      BY <1>1, FilesStep DEF AuditInv
    <2>2. ValkeyUnused'
      BY <1>1 DEF AuditInv, ValkeyUnused, inValkey
    <2>3. clock' \in Nat /\ faults' \in Nat
      BY <2>1 DEF FilesSafe, FileInv, TypeOK
    <2>4. RP!Safe'
      BY <1>v, <2>2, <2>3
    <2> QED BY <1>1, <2>1, <2>2, <2>4 DEF AuditInv
  <1>2. CASE /\ command = "remote" /\ [RP!Next]_(RP!vars)
             /\ UNCHANGED <<command, inFiles>>
    <2>1. RP!Safe'
      BY <1>2, SameConstants, RP!NextSafe DEF AuditInv
    <2>2. FilesUnused'
      BY <1>2 DEF AuditInv, FilesUnused, inFiles
    <2>3. clock' \in Nat /\ faults' \in Nat
      BY <2>1 DEF RP!Safe, RP!Inv, RP!TypeOK
    <2>4. FilesSafe'
      BY <1>f, <2>2, <2>3
    <2> QED BY <1>2, <2>1, <2>2, <2>4 DEF AuditInv
  <1> QED BY <1>1, <1>2, StepCases

LEMMA AuditSafe == AuditSpec => []AuditInv
  BY InitAudit, NextAudit, PTL DEF AuditSpec

(* In an installation of either command the files keep their types, Lists  *)
(* are complete, and failed Appends leave nothing behind.                  *)
THEOREM InstallationFiles ==
    AuditSpec => [](TypeOK /\ ListComplete /\ NoLeftovers)
  <1>1. AuditInv => TypeOK /\ ListComplete /\ NoLeftovers
    BY ReadComplete DEF AuditInv, FilesSafe, FileInv
  <1> QED BY <1>1, AuditSafe, PTL

(* Every call that was answered is in the audit with the outcome its       *)
(* client saw, or was reported as not stored.                              *)
THEOREM InstallationCalls == AuditSpec => []CallsAudited
  <1>1. AuditInv => CallsAudited
    BY SameAudited DEF AuditInv, RP!Safe, CallsAudited
  <1> QED BY <1>1, AuditSafe, PTL

(* A page of the console shows all and only the retained events of its     *)
(* user, newest first up to the limit.                                     *)
THEOREM InstallationPages == AuditSpec => []PagesRight
  <1>1. AuditInv => PagesRight
    BY SameConstants, SamePages, RP!SafePages DEF AuditInv, PagesRight
  <1> QED BY <1>1, AuditSafe, PTL

(* Time is all a step of one store does to the other.                      *)
LEMMA FilesClock ==
    ASSUME AuditInv, [Next]_vars
    PROVE  clock' = clock \/ clock' = clock + 1
  <1>1. [Log!Next]_(Log!log)
    BY NextLog DEF AuditInv, FilesSafe
  <1> QED BY <1>1 DEF Log!Next, Log!log, Log!Forget, Log!Tick, Log!Begin,
                      Log!Stamp, Log!Record

LEMMA ValkeyClock ==
    ASSUME AuditInv, [RP!Next]_(RP!vars)
    PROVE  clock' = clock \/ clock' = clock + 1
  <1>1. [RP!Log!Next]_(RP!Log!log)
    BY SameConstants, RP!SafeLog DEF AuditInv
  <1> QED BY <1>1 DEF RP!Log!Next, RP!Log!log, RP!Log!Forget, RP!Log!Tick,
                      RP!Log!Begin, RP!Log!Stamp, RP!Log!Record

LEMMA FilesLogStep ==
    AuditInv /\ [AuditNext]_auditVars => [Log!Next]_(Log!log)
  <1> SUFFICES ASSUME AuditInv, [AuditNext]_auditVars
               PROVE  [Log!Next]_(Log!log)
    OBVIOUS
  <1>1. CASE [Next]_vars
    BY <1>1, NextLog DEF AuditInv, FilesSafe
  <1>2. CASE /\ command = "remote" /\ [RP!Next]_(RP!vars)
             /\ UNCHANGED <<command, inFiles>>
    <2>1. files = {} /\ UNCHANGED <<files, stamp, acked>>
      BY <1>2 DEF AuditInv, FilesUnused, inFiles
    <2>2. clock' = clock \/ clock' = clock + 1
      BY <1>2, ValkeyClock
    <2> QED BY <2>1, <2>2 DEF Log!Next, Log!Tick, Log!Keep, Log!log
  <1> QED BY <1>1, <1>2, StepCases

LEMMA ValkeyLogStep ==
    AuditInv /\ [AuditNext]_auditVars => [Remote!Log!Next]_(Remote!Log!log)
  <1> SUFFICES ASSUME AuditInv, [AuditNext]_auditVars
               PROVE  [RP!Log!Next]_(RP!Log!log)
    BY SameLog
  <1>1. CASE /\ command = "stdio" /\ [Next]_vars
             /\ UNCHANGED <<command, inValkey>>
    <2>1. RP!Kept = {} /\ RP!Kept' = {} /\ UNCHANGED <<owner, score, recorded>>
      BY <1>1 DEF AuditInv, ValkeyUnused, inValkey, RP!Kept
    <2>2. clock' = clock \/ clock' = clock + 1
      BY <1>1, FilesClock
    <2> QED BY <2>1, <2>2 DEF RP!Log!Next, RP!Log!Tick, RP!Log!Keep, RP!Log!log
  <1>2. CASE [RP!Next]_(RP!vars)
    BY <1>2, SameConstants, RP!SafeLog DEF AuditInv
  <1> QED BY <1>1, <1>2, StepCases

(* Over stdio the directory is an audit log, and no remote call touches it.*)
THEOREM InstallationFileLog == AuditSpec => FileImplementsLog
  <1>1. AuditInit => Log!Init
    BY DEF AuditInit, Init, Log!Init
  <1> QED BY <1>1, FilesLogStep, AuditSafe, PTL
          DEF AuditSpec, FileImplementsLog, Log!Spec

(* Valkey keeps the promise of an audit store, short by the drift of the   *)
(* clocks, and no call over stdio touches it.                              *)
THEOREM InstallationLog == AuditSpec => ImplementsAuditLog
  <1>1. AuditInit => Remote!Log!Init
    BY DEF AuditInit, Remote!Init, Remote!Log!Init, Remote!Kept
  <1> QED BY <1>1, ValkeyLogStep, AuditSafe, PTL
          DEF AuditSpec, ImplementsAuditLog, Remote!ImplementsAuditLog,
              Remote!Log!Spec
=============================================================================
