---------------------------- MODULE MCRateLimiter ----------------------------
(***************************************************************************)
(* One bucket and up to three requests at once.  Slots are interchangeable. *)
(***************************************************************************)
EXTENDS RateLimiter, TLC

CONSTANTS r1, r2, r3

Interchangeable == Permutations(Slots)
=============================================================================
