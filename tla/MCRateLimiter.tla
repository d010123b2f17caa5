---------------------------- MODULE MCRateLimiter ----------------------------
(* Instance of RateLimiter.  Handlers, sources and buckets are             *)
(* interchangeable; Init fixes the clients of handlers that serve nothing, *)
(* which no step reads, so sources are left out of the symmetry.           *)
EXTENDS RateLimiter, TLC

Symmetry == Permutations(Handler) \cup Permutations(Fresh)
=============================================================================
