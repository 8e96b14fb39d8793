------------------------------- MODULE MCLogin -------------------------------
(***************************************************************************)
(* One user with two requests under way at once, and two codes: the one in  *)
(* the row and an older one that a request under way still holds.          *)
(***************************************************************************)
EXTENDS Login, TLC

CONSTANTS s1, s2, c1, c2
=============================================================================
