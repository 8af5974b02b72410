---------------------------- MODULE MCIssueTools ----------------------------
(* IssueTools for TLC: link ids and call slots are interchangeable. *)
EXTENDS IssueTools, TLC

MCNameOf == ("k1" :> "Close") @@ ("k2" :> "Done")

MCTransitionOf ==
    ("11" :> [name |-> "Close", to |-> "Done"])
    @@ ("21" :> [name |-> "Done", to |-> "Archived"])

MCFileOf == ("a1" :> "Close") @@ ("a2" :> "Done")

Symmetry == Permutations(LinkIds) \union Permutations(Calls)
=============================================================================
