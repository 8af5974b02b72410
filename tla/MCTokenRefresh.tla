-------------------------- MODULE MCTokenRefresh --------------------------
(* TokenRefresh on small sets, with interchangeable model values; grants   *)
(* are told apart by Rotating.                                            *)
EXTENDS TokenRefresh, TLC

Symmetry ==
    Permutations(Users) \union Permutations(Bearers)
        \union Permutations(ToolSets) \union Permutations(Sessions)
        \union Permutations(Requests)
=============================================================================
