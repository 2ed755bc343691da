---------------------------- MODULE MCRateLimiter ----------------------------
(* Two clients, a table swept above one key, half-second ticks. *)
EXTENDS RateLimiter, TLC

CONSTANTS k1, k2
MCSymmetry == Permutations(Keys)
=============================================================================
