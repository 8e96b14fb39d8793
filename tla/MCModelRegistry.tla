--------------------------- MODULE MCModelRegistry ---------------------------
(***************************************************************************)
(* Two models trained before and one to be trained, two jobs at once and   *)
(* two transactions: a large one by day, a small one by night.             *)
(***************************************************************************)
EXTENDS ModelRegistry, TLC

CONSTANTS m1, m2, m3, j1, j2, t1, t2

MCAuc    == (m1 :> 80) @@ (m2 :> 90) @@ (m3 :> 90)
MCAmount == (t1 :> 10001) @@ (t2 :> 900)
MCHour   == (t1 :> 12) @@ (t2 :> 23)

Interchangeable == Permutations(Jobs)
=============================================================================
