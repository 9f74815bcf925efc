---------------------------- MODULE MCRateLimiter ----------------------------
(* RateLimiter for TLC: circuits are interchangeable. *)
EXTENDS RateLimiter, TLC

Symmetry == Permutations(Circuits)
=============================================================================
