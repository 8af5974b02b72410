----------------------------- MODULE AuditFile -----------------------------
(***************************************************************************)
(* The audit store of the stdio server (src/internal/audit/file.go): one   *)
(* file per tool call in one directory, shared by every MCP process that   *)
(* runs as the same user.  No lock is shared between processes; within one *)
(* process a mutex serialises the sweeps, and the map nextSweep throttles  *)
(* them.                                                                   *)
(*                                                                         *)
(* An Append or a List is a call, cut at every file system operation that  *)
(* another process can see.  A file is the event it holds; its name        *)
(* carries the time stamp, so names sort by age.                           *)
(***************************************************************************)
EXTENDS Integers, FiniteSets

CONSTANTS
    Procs,     \* MCP processes
    Slots,     \* calls in flight per process
    Events,    \* tool calls to record
    None,
    Limits,    \* limits a List may be given
    Retention, \* time units an event is kept
    Interval,  \* min(1 hour, Retention / 2): at most one sweep per process
    MaxClock,  \* bound: time units explored
    MaxFaults  \* bound: failed calls and killed processes explored

ASSUME AuditFileAssumption ==
    /\ Retention \in Nat \ {0}
    /\ Interval \in 0..Retention
    /\ Limits \subseteq Nat \ {0}
    /\ None \notin (Procs \X Slots) \union Events \union Nat

VARIABLES
    clock,
    files,     \* events in the directory
    pending,   \* events in a .pending-* file
    stamp,     \* time stamp in the event's file name
    acked,     \* events whose Append succeeded
    mutex,     \* the call that sweeps, for each process
    nextSweep, \* not before this time, for each process
    call,      \* the calls in flight
    faults,
    crashes

vars == <<clock, files, pending, stamp, acked, mutex, nextSweep, call, faults,
          crashes>>

Calls == Procs \X Slots

Process(c) == c[1]

Idle == [at |-> "idle"]

At(c, label) == call[c].at = label

Continue(c, locals) == call' = [call EXCEPT ![c] = locals]

Goto(c, label) == Continue(c, [call[c] EXCEPT !.at = label])

Return(c) == Continue(c, Idle)

(* Mutant: the sweep interval taken for the retention. *)
ExpiredEarly(e, now) == stamp[e] <= now - Interval

Expired(e, now) == stamp[e] <= now - Retention

ExpiredFiles == {e \in files : Expired(e, clock)}

Init ==
    /\ clock = 0
    /\ files = {}
    /\ pending = {}
    /\ stamp = [e \in Events |-> None]
    /\ acked = {}
    /\ mutex = [p \in Procs |-> None]
    /\ nextSweep = [p \in Procs |-> 0]
    /\ call = [c \in Calls |-> Idle]
    /\ faults = 0
    /\ crashes = 0

-----------------------------------------------------------------------------
(* A call's locals.  old and before belong to the properties: the expired  *)
(* files and the recorded events when the call began.                      *)

Append(c, e) ==
    /\ At(c, "idle")
    /\ stamp[e] = None
    /\ \A d \in Calls : ~ At(d, "idle") => call[d].event # e
    /\ Continue(c, [at |-> "sweep", event |-> e, limit |-> 0, now |-> 0,
                    todo |-> {}, cutoff |-> 0, result |-> {},
                    old |-> ExpiredFiles, before |-> acked])
    /\ UNCHANGED <<clock, files, pending, stamp, acked, mutex, nextSweep,
                   faults, crashes>>

List(c, limit) ==
    /\ At(c, "idle")
    /\ Continue(c, [at |-> "list", event |-> None, limit |-> limit, now |-> 0,
                    todo |-> {}, cutoff |-> 0, result |-> {},
                    old |-> ExpiredFiles, before |-> acked])
    /\ UNCHANGED <<clock, files, pending, stamp, acked, mutex, nextSweep,
                   faults, crashes>>

Sweeping(c) == call[c].event # None

(* Mutant: a sweep that is not due skips naming the event. *)
sweepUnnamed(c) ==
    /\ At(c, "sweep")
    /\ Goto(c, "create")
    /\ UNCHANGED <<clock, files, pending, stamp, acked, mutex, nextSweep,
                   faults, crashes>>

(* The mutex is free: a sweep that is not due releases it at once.         *)
sweep(c) ==
    LET p == Process(c)
    IN  /\ At(c, "sweep")
        /\ mutex[p] = None
        /\ \/ /\ clock < nextSweep[p]
              /\ Goto(c, "name")
              /\ UNCHANGED mutex
           \/ /\ clock >= nextSweep[p]
              /\ mutex' = [mutex EXCEPT ![p] = c]
              /\ Continue(c, [call[c] EXCEPT !.at = "list", !.now = clock])
        /\ UNCHANGED <<clock, files, pending, stamp, acked, nextSweep, faults,
                       crashes>>

(* list reads the directory once and then works on that snapshot. *)
listReadDir(c) ==
    /\ At(c, "list")
    /\ Continue(c, [call[c] EXCEPT !.at = "scan", !.todo = files,
                                   !.cutoff = clock])
    /\ UNCHANGED <<clock, files, pending, stamp, acked, mutex, nextSweep,
                   faults, crashes>>

(* Mutant: names sorted in ascending order. *)
Oldest(S) == {e \in S : \A d \in S : stamp[d] >= stamp[e]}

Newest(S) == {e \in S : \A d \in S : stamp[d] <= stamp[e]}

(* The next entry, newest first: removed if expired, else read while the   *)
(* limit lasts, unless another process removed it meanwhile.               *)
listEntry(c) ==
    /\ At(c, "scan")
    /\ \E e \in Newest(call[c].todo) :
           LET expired == Expired(e, call[c].cutoff)
               read    == /\ ~ expired
                          /\ Cardinality(call[c].result) < call[c].limit
                          /\ e \in files
           IN  /\ files' = IF expired THEN files \ {e} ELSE files
               /\ Continue(c, [call[c] EXCEPT
                      !.todo = @ \ {e},
                      !.result = IF read THEN @ \union {e} ELSE @])
    /\ UNCHANGED <<clock, pending, stamp, acked, mutex, nextSweep, faults,
                   crashes>>

(* A List returns its result; a sweep is booked, and the mutex released.   *)
listReturn(c) ==
    LET p == Process(c)
    IN  /\ At(c, "scan")
        /\ call[c].todo = {}
        /\ \/ /\ ~ Sweeping(c)
              /\ Return(c)
              /\ UNCHANGED <<mutex, nextSweep>>
           \/ /\ Sweeping(c)
              /\ nextSweep' = [nextSweep EXCEPT ![p] = call[c].now + Interval]
              /\ mutex' = [mutex EXCEPT ![p] = None]
              /\ Goto(c, "name")
        /\ UNCHANGED <<clock, files, pending, stamp, acked, faults, crashes>>

appendName(c) ==
    /\ At(c, "name")
    /\ stamp' = [stamp EXCEPT ![call[c].event] = clock]
    /\ Goto(c, "create")
    /\ UNCHANGED <<clock, files, pending, acked, mutex, nextSweep, faults,
                   crashes>>

appendCreate(c) ==
    /\ At(c, "create")
    /\ pending' = pending \union {call[c].event}
    /\ Goto(c, "rename")
    /\ UNCHANGED <<clock, files, stamp, acked, mutex, nextSweep, faults,
                   crashes>>

appendRename(c) ==
    LET e == call[c].event
    IN  /\ At(c, "rename")
        /\ files' = files \union {e}
        /\ pending' = pending \ {e}
        /\ acked' = acked \union {e}
        /\ Return(c)
        /\ UNCHANGED <<clock, stamp, mutex, nextSweep, faults, crashes>>

-----------------------------------------------------------------------------
(* Mutant: the temporary file stays. *)
FailUncleaned(c) ==
    /\ ~ At(c, "idle")
    /\ faults + crashes < MaxFaults
    /\ faults' = faults + 1
    /\ mutex' = [p \in Procs |-> IF mutex[p] = c THEN None ELSE mutex[p]]
    /\ Return(c)
    /\ UNCHANGED <<clock, files, pending, stamp, acked, nextSweep, crashes>>

(* Mutant: a failed sweep keeps the mutex. *)
FailLocked(c) ==
    /\ ~ At(c, "idle")
    /\ faults + crashes < MaxFaults
    /\ faults' = faults + 1
    /\ pending' = pending \ {call[c].event}
    /\ Return(c)
    /\ UNCHANGED <<clock, files, stamp, acked, mutex, nextSweep, crashes>>

(* A call fails: its context timed out or the file system refused.  The    *)
(* deferred statements release the mutex and remove the temporary file.    *)
Fail(c) ==
    /\ ~ At(c, "idle")
    /\ faults + crashes < MaxFaults
    /\ faults' = faults + 1
    /\ mutex' = [p \in Procs |-> IF mutex[p] = c THEN None ELSE mutex[p]]
    /\ pending' = pending \ {call[c].event}
    /\ Return(c)
    /\ UNCHANGED <<clock, files, stamp, acked, nextSweep, crashes>>

(* A process is killed and started again: its files stay. *)
Crash(p) ==
    /\ faults + crashes < MaxFaults
    /\ crashes' = crashes + 1
    /\ call' = [c \in Calls |-> IF Process(c) = p THEN Idle ELSE call[c]]
    /\ mutex' = [mutex EXCEPT ![p] = None]
    /\ nextSweep' = [nextSweep EXCEPT ![p] = 0]
    /\ UNCHANGED <<clock, files, pending, stamp, acked, faults>>

Tick ==
    /\ clock < MaxClock
    /\ clock' = clock + 1
    /\ UNCHANGED <<files, pending, stamp, acked, mutex, nextSweep, call,
                   faults, crashes>>

Step(c) ==
    \/ sweep(c)
    \/ listReadDir(c)
    \/ listEntry(c)
    \/ listReturn(c)
    \/ appendName(c)
    \/ appendCreate(c)
    \/ appendRename(c)

Next ==
    \/ \E c \in Calls :
           \/ \E e \in Events : Append(c, e)
           \/ \E limit \in Limits : List(c, limit)
           \/ Step(c)
           \/ Fail(c)
    \/ \E p \in Procs : Crash(p)
    \/ Tick

Spec == Init /\ [][Next]_vars

-----------------------------------------------------------------------------
(* Properties *)

Call ==
    {Idle} \union
    [at : {"sweep", "list", "scan", "name", "create", "rename"},
     event : Events \union {None}, limit : Nat, now : Nat,
     todo : SUBSET Events, cutoff : Nat, result : SUBSET Events,
     old : SUBSET Events, before : SUBSET Events]

(* Type invariant; the files of the directory carry a stamp. *)
TypeOK ==
    /\ clock \in Nat
    /\ files \subseteq Events
    /\ pending \subseteq Events
    /\ stamp \in [Events -> Nat \union {None}]
    /\ acked \subseteq Events
    /\ mutex \in [Procs -> Calls \union {None}]
    /\ nextSweep \in [Procs -> Nat]
    /\ call \in [Calls -> Call]
    /\ {faults, crashes} \subseteq Nat
    /\ \A e \in files \union pending \union acked : stamp[e] # None

(* The directory keeps the promise of an audit store (the interface of     *)
(* audit.go): an event whose Append succeeded stays for the whole          *)
(* retention, no sweep or List of any process removes it early, no process *)
(* overwrites it ("permitting multiple MCP processes to append without     *)
(* overwriting each other"), and what is removed never comes back.         *)
Log == INSTANCE AuditLog WITH
    recorded <- acked, kept <- files, Capacity <- Cardinality(Events),
    Identities <- {"local"}, owner <- [e \in Events |-> "local"]

FileImplementsLog == Log!Spec

Returning(c) == At(c, "scan") /\ call[c].todo = {}

(* What a List found: every event recorded before it began and not         *)
(* expired, newest first up to the limit.                                  *)
FoundAll(c) ==
    \A e \in call[c].before :
        \/ stamp[e] <= clock - Retention
        \/ e \in call[c].result
        \/ /\ Cardinality(call[c].result) = call[c].limit
           /\ \A d \in call[c].result : stamp[d] >= stamp[e]

(* What a List left: none of the files that had expired when it began.     *)
Cleaned(c) == call[c].old \intersect files = {}

(* A List is complete, and cleans, whatever the other processes write and  *)
(* remove while it reads.                                                  *)
ListComplete ==
    \A c \in Calls :
        (Returning(c) /\ ~ Sweeping(c)) => FoundAll(c) /\ Cleaned(c)

(* A temporary file belongs to an Append in flight, as long as no process  *)
(* is killed: failed Appends leave nothing behind.                         *)
NoLeftovers ==
    crashes = 0 =>
        \A e \in pending :
            \E c \in Calls : At(c, "rename") /\ call[c].event = e

(* Every call returns: a failed or finished sweep never keeps the mutex    *)
(* the other calls of its process wait for.                                *)
CallsReturn ==
    \A c \in Calls : call[c] # Idle ~> call[c] = Idle
=============================================================================
