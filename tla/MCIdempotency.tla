--------------------------- MODULE MCIdempotency ---------------------------
(***************************************************************************)
(* Instances of Idempotency: up to six requests with one key.              *)
(***************************************************************************)
EXTENDS Idempotency, TLC

CONSTANTS k1, u1, u2, r1, r2, r3, r4, r5, r6

OneKey == [r \in Reqs |-> k1]

\* The key is sent to two endpoints, by two users.  r1 and r2 are a double
\* submission; r5 and r6 retry what was answered.
MixedUsers == [r \in Reqs |-> IF r = r3 THEN u2 ELSE u1]
MixedPaths == (r1 :> "/withdraw") @@ (r2 :> "/withdraw") @@ (r3 :> "/withdraw")
              @@ (r4 :> "/transfer/initiate") @@ (r5 :> "/withdraw")
              @@ (r6 :> "/transfer/initiate")
MixedPrior == (r5 :> {r1}) @@ (r6 :> {r4}) @@ [r \in Reqs |-> {}]
=============================================================================
