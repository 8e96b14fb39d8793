---------------------------- MODULE MCOnboarding ----------------------------
(***************************************************************************)
(* One user with up to two requests under way.  Ids of records are         *)
(* interchangeable.                                                        *)
(***************************************************************************)
EXTENDS Onboarding, TLC

CONSTANTS s1, s2, k1, k2, k3, k4, i1, i2, i3

Interchangeable ==
  Permutations(Kin) \cup Permutations(Ids) \cup Permutations(Slots)
=============================================================================
