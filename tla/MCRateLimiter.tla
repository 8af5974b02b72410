--------------------------- MODULE MCRateLimiter ---------------------------
(* RateLimiter on small sets, with interchangeable clients and calls. *)
EXTENDS RateLimiter, TLC

Symmetry == Permutations(Clients) \union Permutations(Calls)
=============================================================================
