--------------------------- MODULE MCRateLimiter ---------------------------
(* RateLimiter on a small instance.  Requests are interchangeable.            *)
EXTENDS RateLimiter, TLC

Symmetry == Permutations(Requests)
=============================================================================
