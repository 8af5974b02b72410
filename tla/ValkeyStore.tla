---------------------------- MODULE ValkeyStore ----------------------------
(***************************************************************************)
(* The shared key/value store of the remote server                         *)
(* (src/internal/remote/store.go).  Every key is written with a time to    *)
(* live; Valkey drops the entry when it has elapsed.  Each operator is one *)
(* command, hence one atomic step of whoever calls it.                     *)
(*                                                                         *)
(* store maps every key of the including module to an entry; clock counts  *)
(* abstract time units, the same ones the times to live are given in.      *)
(***************************************************************************)
EXTENDS Naturals

CONSTANT None   \* the value of a key that holds nothing

VARIABLES store, clock

Absent == [val |-> None, exp |-> 0]

Present(k) == store[k].exp > clock

Value(k) == store[k].val

Put(k, v, ttl) ==
    store' = [store EXCEPT ![k] = [val |-> v, exp |-> clock + ttl]]

Delete(k) ==
    store' = [store EXCEPT ![k] = Absent]

(* Mutant: GET instead of GETDEL. *)
TakeKept(k) ==
    /\ Present(k)
    /\ UNCHANGED store

(* GETDEL: one command reads and removes. *)
Take(k) ==
    /\ Present(k)
    /\ Delete(k)

(* One unit of time passes and the entries that have reached it are gone. *)
Elapse ==
    /\ clock' = clock + 1
    /\ store' = [k \in DOMAIN store |->
                    IF store[k].exp > clock + 1 THEN store[k] ELSE Absent]
=============================================================================
