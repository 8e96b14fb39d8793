------------------------------ MODULE MCLedger ------------------------------
(***************************************************************************)
(* Instances of Ledger for TLC: two or three accounts, and a workload that *)
(* says which operation each request runs.                                 *)
(***************************************************************************)
EXTENDS Ledger, TLC

CONSTANTS r1, r2, r3, r4, x1, x2, x3, u1, u2, u3

TwoAccounts == {1, 2}
TwoUsers    == {u1, u2}
TwoOwner    == (1 :> u1) @@ (2 :> u2)
TwoOpening  == (1 :> 2) @@ (2 :> 1)

ThreeAccounts == {1, 2, 3}
ThreeUsers    == {u1, u2, u3}
ThreeOwner    == (1 :> u1) @@ (2 :> u2) @@ (3 :> u3)
ThreeOpening  == (1 :> 2) @@ (2 :> 0) @@ (3 :> 1)

\* Account 1 is held in a currency of its own: what leaves it is credited at
\* another amount.
MCConverted(m, a, b) == IF a = 1 THEN m + 1 ELSE m

Pending(from, to, amount) ==
  [Draft("transfer", from, to, amount, MCConverted(amount, from, to)) EXCEPT
     !.status = "Pending", !.review = "CLEARED", !.scored = TRUE]

Flagged(from, to, amount) ==
  [Pending(from, to, amount) EXCEPT !.status = "Failed", !.review = "FLAGGED"]

\* One transfer of the first user is pending and its code was issued.
OnePending == (x1 :> Pending(1, 2, 1))
OneOtp     == (u1 :> x1) @@ (u2 :> None)

\* ... and an opposite one was flagged.
PendingAndFlagged == OnePending @@ (x2 :> Flagged(2, 1, 1))

\* Transfers around a ring are pending, every user holds a code.
Ring    == (x1 :> Pending(1, 2, 1)) @@ (x2 :> Pending(2, 3, 1)) @@ (x3 :> Pending(3, 1, 1))
RingOtp == (u1 :> x1) @@ (u2 :> x2) @@ (u3 :> x3)

\* Workloads
Ops2(a, b)       == (r1 :> a) @@ (r2 :> b)
Ops3(a, b, c)    == Ops2(a, b) @@ (r3 :> c)
Ops4(a, b, c, d) == Ops3(a, b, c) @@ (r4 :> d)

ContentionWork == Ops4("complete", "complete", "withdraw", "deposit")
AnswerWork     == Ops3("initiate", "complete", "review")
TwiceWork      == Ops2("complete", "complete")
=============================================================================
