--------------------------- MODULE MCVirtualCards ---------------------------
(***************************************************************************)
(* An instance of VirtualCards: on a1, which is used elsewhere too, two    *)
(* top-ups of one card race; on a2 they come one after the other, while    *)
(* the card is activated, blocked and deleted.                             *)
(***************************************************************************)
EXTENDS VirtualCards, TLC

CONSTANTS a1, a2, c1, c2, r1, r2, r3, r4, r5, r6, r7, r8

MCAccount == (c1 :> a1) @@ (c2 :> a2)
MCOpening == (a1 :> 5) @@ (a2 :> 5)

\* Neither account can fund both of its top-ups.
MCOp     == (r1 :> "top_up") @@ (r2 :> "top_up") @@ (r3 :> "top_up") @@ (r4 :> "top_up")
            @@ (r5 :> "activate") @@ (r6 :> "block") @@ (r7 :> "delete")
            @@ (r8 :> "activate")
MCTarget == [r \in Reqs |-> IF r \in {r1, r2, r8} THEN c1 ELSE c2]
MCAmount == (r1 :> 2) @@ (r2 :> 4) @@ (r3 :> 2) @@ (r4 :> 4)
            @@ [r \in Reqs |-> 1]
MCPrior  == (r4 :> {r3}) @@ (r7 :> {r3}) @@ (r6 :> {r5}) @@ [r \in Reqs |-> {}]
InAndOut == {-3, 0}
=============================================================================
