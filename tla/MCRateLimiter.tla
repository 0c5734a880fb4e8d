--------------------------- MODULE MCRateLimiter ---------------------------
(* RateLimiter for TLC: the requests of the client are interchangeable. *)
EXTENDS RateLimiter, TLC

Symmetry == Permutations(Requests)

=============================================================================
