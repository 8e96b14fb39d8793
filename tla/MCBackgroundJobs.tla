-------------------------- MODULE MCBackgroundJobs --------------------------
(***************************************************************************)
(* Two profile photos, an id photo, a statement and an e-mail, sent two at *)
(* a time: two images of one slot or of two, an image with the statement,  *)
(* or the statement with the e-mail; one retry, and one worker that dies.  *)
(* Of the two movements, one was created in the period of the statement.   *)
(***************************************************************************)
EXTENDS BackgroundJobs, TLC

CONSTANTS p1, p2, i1, s1, e1, inside, outside

MCKind ==
  (p1 :> "profile_photo") @@ (p2 :> "profile_photo") @@ (i1 :> "id_photo")
    @@ (s1 :> "statement") @@ (e1 :> "email")

MCTogether == {{p1, p2}, {p1, i1}, {p1, s1}, {s1, e1}}

MCPeriod == s1 :> {inside}
=============================================================================
