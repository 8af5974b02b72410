----------------------------- MODULE MCCommands -----------------------------
(* Commands for TLC. *)
EXTENDS Commands, TLC

MCOffers == <<"a", "2">>

MCNumberOf == ("a" :> 0) @@ ("2" :> 2) @@ ("old" :> 0) @@ ("1" :> 1)

(* Two URLs of one host, and one without a host the program can see. *)
MCSites == {[host |-> "h1", path |-> "p1"], [host |-> "h1", path |-> "p2"],
            [host |-> None, path |-> "p1"]}
=============================================================================
