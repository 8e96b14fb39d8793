---------------------------- MODULE LedgerProofs ----------------------------
(***************************************************************************)
(* What holds of Ledger for every set of accounts, users and requests,     *)
(* every operation a request may run and every amount.                     *)
(*                                                                         *)
(* One lemma per action shows that it preserves IInv.  The actions fall    *)
(* into three shapes, each with a lemma of its own: a request begins       *)
(* (BeginInv), continues without locking an account (ContinueInv), or ends *)
(* (FinishInv); LockFrame carries the lock part of IInv through all three. *)
(* The last sections are about the order of the account locks, the         *)
(* refinement of module Bank and what is held for a reviewer.              *)
(***************************************************************************)
EXTENDS Ledger, WellFoundedInduction, TLAPS

\* A row keeps its kind, its accounts and its amounts.
SameTerms(row, old) ==
  /\ row.kind = old.kind /\ row.from = old.from /\ row.to = old.to
  /\ row.amount = old.amount /\ row.credit = old.credit

\* A step keeps the terms of every transaction that exists.
Kept == \A t \in Txns : txn[t].kind # "none" => SameTerms(txn'[t], txn[t])

\* The initial state satisfies the invariant.
LEMMA InitInv == Init => IInv
  <1> SUFFICES ASSUME Init PROVE IInv
    OBVIOUS
  <1> USE DEF Init
  <1>1. TypeOK
    BY OpeningAssumption, ActiveAssumption, OldOtpAssumption, OldTxnAssumption
    DEF TypeOK, Txns, Session, Closed, TxnRow, Blank, Draft, Kinds, Statuses, Reviews,
        Steps, Unloaded
  <1>2. RowInv
    BY OldTxnAssumption DEF RowInv, RowOK, Txns, Blank, Draft
  <1>3. SessInv /\ LockInv /\ ViewInv /\ FreshUnderLock
    BY NoneAssumption
    DEF SessInv, LockInv, ViewInv, FreshUnderLock, Running, Outcomes, Txns, Unloaded
  <1>4. NonNegative
    BY OpeningAssumption DEF NonNegative
  <1> QED
    BY <1>1, <1>2, <1>3, <1>4 DEF IInv

\* _lock_account: loading the row as it is locked keeps every copy under a lock fresh.
LEMMA LockAccountInv ==
  ASSUME IInv, NEW r \in Reqs, LockAccount(r) PROVE IInv' /\ Kept
  <1> USE DEF LockAccount, dbVars, Goto
  <1>1. PICK a \in Accounts : 
           /\ IsNext(r, a)
           /\ acctLock[a] = None /\ keyShare[a] = {}
           /\ acctLock' = [acctLock EXCEPT ![a] = r]
           /\ view' = [view EXCEPT ![r][a] = IF @ = None THEN balance[a] ELSE @]
           /\ step' = [step EXCEPT ![r] = IF ToLock(r) = {a} THEN "apply" ELSE "lock"]
    OBVIOUS
  <1>2. TypeOK'
    BY <1>1 DEF IInv, TypeOK, Steps, Outcomes
  <1>3. RowInv'
    BY <1>1 DEF IInv, TypeOK, RowInv
  <1>4. SessInv'
    BY <1>1 DEF IInv, TypeOK, SessInv, Running, Outcomes, T
  <1>5. LockInv'
    BY <1>1, NoneAssumption DEF IInv, TypeOK, LockInv, IsNext, ToLock, Needs, T, Txns
  <1>6. ViewInv' /\ FreshUnderLock'
    BY <1>1, NoneAssumption DEF IInv, TypeOK, ViewInv, FreshUnderLock, NonNegative, Txns
  <1>7. NonNegative'
    BY <1>1 DEF IInv, NonNegative
  <1>8. Kept
    BY DEF Kept, SameTerms
  <1> QED
    BY <1>2, <1>3, <1>4, <1>5, <1>6, <1>7, <1>8 DEF IInv

-----------------------------------------------------------------------------
\* Editing the status, the review or the scored flag of a row leaves its other
\* fields.
LEMMA RowEdit ==
  ASSUME NEW row \in TxnRow, NEW s \in Statuses, NEW v \in Reviews
  PROVE  /\ WithStatus(row, s) \in TxnRow /\ SameTerms(WithStatus(row, s), row)
         /\ WithStatus(row, s).status = s /\ WithStatus(row, s).scored = row.scored
         /\ WithReview(row, v) \in TxnRow /\ SameTerms(WithReview(row, v), row)
         /\ WithReview(row, v).status = row.status
         /\ WithReview(row, v).scored = row.scored
  BY DEF TxnRow, WithStatus, WithReview, SameTerms

\* Saving a status and a review keeps the terms of the row and its type.
LEMMA SavedRow ==
  ASSUME IInv, NEW r \in Reqs, Running(r),
         NEW s \in {"Failed", "Completed", sess[r].status}, NEW v \in Reviews,
         s = "Pending" => T(r).kind # "deposit"
  PROVE  /\ Saved(r, s, v) \in TxnRow
         /\ SameTerms(Saved(r, s, v), T(r))
         /\ RowOK(Saved(r, s, v))
         /\ Saved(r, s, v).scored = T(r).scored
  <1> DEFINE st == Written(sess[r].status, s, T(r).status)
             re == Written(sess[r].review, v, T(r).review)
  <1>1. sess[r].txn \in Txns /\ T(r) \in TxnRow /\ RowOK(T(r)) /\ sess[r] \in Session
    BY DEF IInv, SessInv, RowInv, TypeOK, T
  <1>2. T(r).kind # "none"
    BY OpAssumption DEF IInv, SessInv, Operations
  <1>3. /\ st \in Statuses /\ re \in Reviews
        /\ T(r).kind = "deposit" => st # "Pending"
    BY <1>1 DEF Written, TxnRow, Session, Statuses, RowOK
  <1> HIDE DEF st, re
  <1>4. WithStatus(T(r), st) \in TxnRow
    BY <1>1, <1>3, RowEdit
  <1>5. /\ WithReview(WithStatus(T(r), st), re) \in TxnRow
        /\ SameTerms(WithReview(WithStatus(T(r), st), re), T(r))
        /\ WithReview(WithStatus(T(r), st), re).status = st
        /\ WithReview(WithStatus(T(r), st), re).scored = T(r).scored
    BY <1>1, <1>3, <1>4, RowEdit DEF SameTerms
  <1>6. Saved(r, s, v) = WithReview(WithStatus(T(r), st), re)
    BY DEF Saved, st, re
  <1> QED
    BY <1>1, <1>2, <1>3, <1>5, <1>6 DEF SameTerms, RowOK

\* The accounts a running request locks are accounts.
LEMMA NeedsAccounts ==
  ASSUME IInv, NEW r \in Reqs, Running(r)
  PROVE  Needs(r) \subseteq Accounts
  <1>1. T(r) \in TxnRow
    BY DEF IInv, SessInv, TypeOK, T
  <1> QED
    BY <1>1 DEF Needs, TxnRow

\* LockInv is preserved by a step after which r holds no account lock, that leaves
\* the locks, the progress and the needs of the other requests alone.
LEMMA LockFrame ==
  ASSUME IInv, NEW r \in Reqs,
         step'[r] # "apply",
         \A a \in Accounts : acctLock'[a] # r,
         \A q \in Reqs \ {r} : step'[q] = step[q],
         \A q \in Reqs \ {r} : Running(q) => Needs(q)' = Needs(q),
         \A q \in Reqs \ {r} : \A a \in Accounts : acctLock'[a] = q <=> acctLock[a] = q
  PROVE  LockInv'
  <1> SUFFICES ASSUME NEW q \in Reqs
               PROVE  /\ \A a \in Accounts : acctLock'[a] = q =>
                           step'[q] \in {"lock", "apply"} /\ a \in Needs(q)'
                      /\ step'[q] = "apply" => \A a \in Needs(q)' : acctLock'[a] = q
    BY DEF LockInv
  <1>1. CASE q = r
    BY <1>1
  <1>2. CASE q # r
    <2>1. step[q] \in {"lock", "apply"} => Needs(q)' = Needs(q)
      BY <1>2 DEF Running, Outcomes
    <2>2. step[q] = "apply" => Needs(q) \subseteq Accounts
      BY NeedsAccounts DEF Running, Outcomes
    <2> QED
      BY <1>2, <2>1, <2>2 DEF IInv, LockInv
  <1> QED
    BY <1>1, <1>2

\* A session that ends preserves the invariant if it changed no balance it had
\* not locked, overdrew none, and kept the terms of every row.
LEMMA FinishInv ==
  ASSUME IInv, NEW r \in Reqs, NEW o \in Outcomes, Finish(r, o),
         active' = active,
         otp' \in [Users -> Txns \cup {None}],
         moves' \in [Txns -> Nat],
         txn' \in [Txns -> TxnRow],
         \A t \in Txns : SameTerms(txn'[t], txn[t]) /\ RowOK(txn'[t]),
         balance' \in [Accounts -> Int],
         \A a \in Accounts : balance'[a] >= 0,
         \A a \in Accounts : balance'[a] # balance[a] => acctLock[a] = r
  PROVE  IInv' /\ Kept
  <1> USE DEF Finish, Goto
  <1>1. TypeOK'
    BY DEF IInv, TypeOK, Steps, Outcomes, Session, Closed, Statuses, Reviews, Unloaded
  <1>2. RowInv'
    BY DEF IInv, TypeOK, RowInv, SameTerms, Outcomes
  <1>3. SessInv'
    <2>1. ~Running(r)'
      BY DEF IInv, TypeOK, Running
    <2>2. \A q \in Reqs \ {r} : step'[q] = step[q] /\ sess'[q] = sess[q]
      BY DEF IInv, TypeOK
    <2>3. \A q \in Reqs \ {r} : sess[q].txn \in Txns => T(q)'.kind = T(q).kind
      BY <2>2 DEF T, SameTerms
    <2>4. \A q \in Reqs \ {r} : Running(q)' = Running(q)
      BY <2>2 DEF Running
    <2> QED
      BY <2>1, <2>2, <2>3, <2>4 DEF IInv, SessInv
  <1>4. \A q \in Reqs \ {r} : Running(q) => Needs(q)' = Needs(q)
    BY DEF IInv, TypeOK, SessInv, Needs, T, SameTerms
  <1>5. LockInv'
    <2>1. step'[r] # "apply" /\ \A a \in Accounts : acctLock'[a] # r
      BY NoneAssumption DEF IInv, TypeOK, Outcomes, Txns
    <2>2. \A q \in Reqs \ {r} : step'[q] = step[q]
      BY DEF IInv, TypeOK
    <2>3. \A q \in Reqs \ {r} : \A a \in Accounts : acctLock'[a] = q <=> acctLock[a] = q
      BY NoneAssumption DEF IInv, TypeOK, Txns
    <2> QED
      BY <1>4, <2>1, <2>2, <2>3, LockFrame
  <1>6. ViewInv' /\ FreshUnderLock'
    BY NoneAssumption DEF IInv, TypeOK, ViewInv, FreshUnderLock, Unloaded, Txns
  <1>7. NonNegative'
    BY DEF NonNegative
  <1>8. Kept
    BY DEF Kept
  <1> QED
    BY <1>1, <1>2, <1>3, <1>5, <1>6, <1>7, <1>8 DEF IInv

\* The commit that moves money changes only balances the request has locked, and
\* leaves them non-negative.
LEMMA PostedOK ==
  ASSUME IInv, NEW r \in Reqs, step[r] = "apply",
         T(r).kind \in {"deposit", "withdraw", "transfer"},
         T(r).kind # "deposit" => Funded(r)
  PROVE  /\ Posted(r) \in [Accounts -> Int]
         /\ \A a \in Accounts : Posted(r)[a] >= 0
         /\ \A a \in Accounts : Posted(r)[a] # balance[a] => acctLock[a] = r
  <1>1. T(r) \in TxnRow /\ RowOK(T(r)) /\ T(r).amount \in Nat /\ T(r).credit \in Nat
    BY DEF IInv, SessInv, RowInv, TypeOK, T, TxnRow, Running, Outcomes
  <1>2. \A a \in Accounts : a \in {T(r).from, T(r).to} =>
          acctLock[a] = r /\ view[r][a] \in Int /\ view[r][a] >= 0
    BY AccountsAssumption, NoneAssumption
    DEF IInv, LockInv, ViewInv, TypeOK, Needs
  <1>3. \A a \in Accounts : a = T(r).from => view[r][a] >= T(r).amount
    BY <1>1, AccountsAssumption, NoneAssumption DEF Funded, RowOK
  <1>4. \A a \in Accounts : balance[a] \in Int /\ balance[a] >= 0
    BY DEF IInv, TypeOK, NonNegative
  <1>5. \A a \in Accounts :
          /\ Posted(r)[a] \in Int
          /\ Posted(r)[a] >= 0
          /\ Posted(r)[a] # balance[a] => acctLock[a] = r
    BY <1>1, <1>2, <1>3, <1>4 DEF Posted, Written
  <1> QED
    BY <1>5 DEF Posted

-----------------------------------------------------------------------------
\* Replacing the row of r's transaction by one with the same terms.
LEMMA RowChange ==
  ASSUME IInv, NEW r \in Reqs, Running(r),
         NEW row \in TxnRow, SameTerms(row, T(r)), RowOK(row),
         txn' = [txn EXCEPT ![sess[r].txn] = row]
  PROVE  /\ txn' \in [Txns -> TxnRow]
         /\ \A t \in Txns : SameTerms(txn'[t], txn[t]) /\ RowOK(txn'[t])
  BY DEF IInv, TypeOK, RowInv, SessInv, SameTerms, T

\* A step of a running request that neither takes an account lock nor ends.
LEMMA ContinueInv ==
  ASSUME IInv, NEW r \in Reqs, Running(r), step[r] \notin {"lock", "apply"},
         NEW s \in Steps \ ({"idle", "apply", "receiverRef"} \cup Outcomes), Goto(r, s),
         Op[r] = "withdraw" => s \notin {"otp", "decide"},
         Op[r] = "initiate" => s \notin {"lock", "decide"},
         Op[r] \in {"complete", "review"} => s = "lock",
         sess' \in [Reqs -> Session],
         \A q \in Reqs : sess'[q].txn = sess[q].txn,
         txn' \in [Txns -> TxnRow],
         \A t \in Txns : SameTerms(txn'[t], txn[t]) /\ RowOK(txn'[t]),
         keyShare' \in [Accounts -> SUBSET Reqs],
         txnLock' \in [Txns -> Reqs \cup {None}],
         UNCHANGED <<balance, active, otp, moves, acctLock, view>>
  PROVE  IInv' /\ Kept
  <1> USE DEF Goto
  <1>1. TypeOK'
    BY DEF IInv, TypeOK
  <1>2. RowInv'
    BY DEF IInv, TypeOK, RowInv, SameTerms
  <1>3. \A q \in Reqs : Running(q)' => Running(q) /\ T(q)'.kind = T(q).kind
    BY DEF IInv, TypeOK, SessInv, Running, Outcomes, T, SameTerms
  <1>4. SessInv'
    <2>1. Op[r] \in Operations /\ step'[r] = s /\ sess[r].txn \in Txns
      BY OpAssumption DEF IInv, TypeOK, SessInv
    <2>2. \A q \in Reqs \ {r} : step'[q] = step[q]
      BY DEF IInv, TypeOK
    <2>3. /\ Op[r] # "deposit"
          /\ Op[r] = "withdraw" => s \notin {"receiverRef", "otp", "decide"}
          /\ Op[r] = "initiate" => s \notin {"lock", "apply", "decide"}
      BY DEF IInv, SessInv
    <2> QED
      BY <1>3, <2>1, <2>2, <2>3 DEF IInv, SessInv
  <1>5. \A q \in Reqs : Running(q) => Needs(q)' = Needs(q)
    BY DEF IInv, TypeOK, SessInv, Needs, T, SameTerms
  <1>6. LockInv'
    <2>1. step'[r] # "apply" /\ \A q \in Reqs \ {r} : step'[q] = step[q]
      BY DEF IInv, TypeOK
    <2>2. \A a \in Accounts : acctLock'[a] # r
      BY DEF IInv, LockInv
    <2> QED
      BY <1>5, <2>1, <2>2, LockFrame
  <1>7. ViewInv' /\ FreshUnderLock' /\ NonNegative'
    BY DEF IInv, ViewInv, FreshUnderLock, NonNegative
  <1>8. Kept
    BY DEF Kept
  <1> QED
    BY <1>1, <1>2, <1>4, <1>6, <1>7, <1>8 DEF IInv

\* A request begins on a transaction of the kind its operation works on; only
\* its own row may change, and only a withdrawal loads an account.
LEMMA BeginInv ==
  ASSUME IInv, NEW r \in Reqs, step[r] = "idle",
         NEW s \in Steps \ ({"idle", "apply"} \cup Outcomes), Goto(r, s),
         NEW x \in Session, sess' = [sess EXCEPT ![r] = x],
         x.txn \in Txns,
         txn' \in [Txns -> TxnRow],
         \A t \in Txns \ {r} : txn'[t] = txn[t],
         RowOK(txn'[r]),
         Op[r] \in {"deposit", "withdraw", "initiate"} => x.txn = r,
         Op[r] = "deposit" => txn'[x.txn].kind = "deposit" /\ s = "lock",
         Op[r] = "withdraw" => txn'[x.txn].kind = "withdraw" /\ s = "senderRef",
         Op[r] = "initiate" => txn'[x.txn].kind = "transfer" /\ s = "receiverRef",
         Op[r] \in {"complete", "review"} =>
           txn'[x.txn].kind \in {"withdraw", "transfer"} /\ s \in {"lock", "decide"},
         view' \in [Reqs -> [Accounts -> Int \cup {None}]],
         \A q \in Reqs, a \in Accounts :
           view'[q][a] # view[q][a] =>
             q = r /\ Op[r] = "withdraw" /\ view'[q][a] \in Int /\ view'[q][a] >= 0,
         UNCHANGED <<balance, active, otp, moves, lockVars>>
  PROVE  IInv' /\ Kept
  <1> USE DEF Goto, lockVars
  <1>1. TypeOK'
    BY DEF IInv, TypeOK
  <1>2. RowInv'
    BY DEF IInv, TypeOK, RowInv
  <1>3. ASSUME NEW q \in Reqs \ {r}, Running(q)
        PROVE  sess[q].txn # r /\ T(q)' = T(q)
    <2>1. txn[r].kind = "none"
      BY DEF IInv, RowInv, Txns
    <2>2. T(q).kind # "none" /\ sess[q].txn \in Txns
      BY <1>3, OpAssumption DEF IInv, SessInv, Operations
    <2>3. sess[q].txn # r /\ sess'[q] = sess[q]
      BY <2>1, <2>2 DEF T, IInv, TypeOK
    <2> QED
      BY <2>2, <2>3 DEF T
  <1>4. SessInv'
    <2> SUFFICES ASSUME NEW q \in Reqs, Running(q)'
                 PROVE SessInv!(q)'
      BY DEF SessInv
    <2>1. CASE q = r
      BY <2>1 DEF IInv, TypeOK, Running, T
    <2>2. CASE q # r
      BY <1>3, <2>2 DEF IInv, TypeOK, SessInv, Running
    <2> QED
      BY <2>1, <2>2
  <1>5. \A q \in Reqs \ {r} : Running(q) => Needs(q)' = Needs(q)
    BY <1>3 DEF Needs
  <1>6. LockInv'
    <2>1. step'[r] # "apply" /\ \A q \in Reqs \ {r} : step'[q] = step[q]
      BY DEF IInv, TypeOK
    <2>2. \A a \in Accounts : acctLock'[a] # r
      BY DEF IInv, LockInv
    <2> QED
      BY <1>5, <2>1, <2>2, LockFrame
  <1>7. ViewInv' /\ FreshUnderLock' /\ NonNegative'
    BY NoneAssumption DEF IInv, TypeOK, LockInv, ViewInv, FreshUnderLock, NonNegative
  <1>8. Kept
    BY DEF IInv, RowInv, Txns, Kept, SameTerms
  <1> QED
    BY <1>1, <1>2, <1>4, <1>6, <1>7, <1>8 DEF IInv

-----------------------------------------------------------------------------
\* The actions that begin an operation.

\* process_deposit begins on a transaction of its own, with nothing loaded.
LEMMA DepositStartInv ==
  ASSUME IInv, NEW r \in Reqs, DepositStart(r) PROVE IInv' /\ Kept
  <1> USE DEF DepositStart, dbVars
  <1>1. PICK a \in Accounts, m \in Amounts :
          txn' = [txn EXCEPT ![r] = Draft("deposit", None, a, m, m)]
    OBVIOUS
  <1> DEFINE d == Draft("deposit", None, a, m, m)
             x == [txn |-> r, status |-> "Absent", review |-> "Unreviewed",
                   otpOk |-> FALSE, fraud |-> FALSE, approve |-> FALSE]
  <1>2. d \in TxnRow /\ RowOK(d) /\ d.kind = "deposit"
    BY AmountsAssumption DEF Draft, TxnRow, RowOK, Kinds, Statuses, Reviews
  <1>3. x \in Session /\ x.txn = r /\ r \in Txns /\ sess' = [sess EXCEPT ![r] = x]
    BY DEF Open, Blank, Draft, Session, Statuses, Reviews, Txns
  <1> HIDE DEF d, x
  <1>4. txn' = [txn EXCEPT ![r] = d]
    BY <1>1 DEF d
  <1>5. /\ txn' \in [Txns -> TxnRow] /\ \A t \in Txns \ {r} : txn'[t] = txn[t]
        /\ txn'[r] = d
    BY <1>2, <1>3, <1>4 DEF IInv, TypeOK
  <1>6. /\ step[r] = "idle" /\ Op[r] = "deposit" /\ Goto(r, "lock")
        /\ "lock" \in Steps \ ({"idle", "apply"} \cup Outcomes)
        /\ view' = view /\ UNCHANGED <<balance, active, otp, moves, lockVars>>
    BY DEF Steps, Outcomes
  <1>7. view' \in [Reqs -> [Accounts -> Int \cup {None}]]
    BY <1>6 DEF IInv, TypeOK
  <1> QED
    BY <1>2, <1>3, <1>5, <1>6, <1>7, BeginInv

\* process_withdrawal begins with an unlocked copy, whose balance is not negative.
LEMMA WithdrawStartInv ==
  ASSUME IInv, NEW r \in Reqs, WithdrawStart(r) PROVE IInv' /\ Kept
  <1> USE DEF WithdrawStart
  <1>1. PICK a \in active, m \in Amounts :
          /\ txn' = [txn EXCEPT ![r] = Draft("withdraw", a, None, m, 0)]
          /\ view' = [view EXCEPT ![r][a] = balance[a]]
    OBVIOUS
  <1> DEFINE d == Draft("withdraw", a, None, m, 0)
             x == [txn |-> r, status |-> "Absent", review |-> "Unreviewed",
                   otpOk |-> FALSE, fraud |-> FALSE, approve |-> FALSE]
  <1>2. d \in TxnRow /\ RowOK(d) /\ d.kind = "withdraw"
    BY AmountsAssumption DEF Draft, TxnRow, RowOK, Kinds, Statuses, Reviews, IInv, TypeOK
  <1>3. x \in Session /\ x.txn = r /\ r \in Txns /\ sess' = [sess EXCEPT ![r] = x]
    BY DEF Open, Blank, Draft, Session, Statuses, Reviews, Txns
  <1> HIDE DEF d, x
  <1>4. txn' = [txn EXCEPT ![r] = d]
    BY <1>1 DEF d
  <1>5. /\ txn' \in [Txns -> TxnRow] /\ \A t \in Txns \ {r} : txn'[t] = txn[t]
        /\ txn'[r] = d
    BY <1>2, <1>3, <1>4 DEF IInv, TypeOK
  <1>6. /\ step[r] = "idle" /\ Op[r] = "withdraw" /\ Goto(r, "senderRef")
        /\ "senderRef" \in Steps \ ({"idle", "apply"} \cup Outcomes)
        /\ UNCHANGED <<balance, active, otp, moves, lockVars>>
    BY DEF Steps, Outcomes
  <1>7. /\ view' \in [Reqs -> [Accounts -> Int \cup {None}]]
        /\ \A q \in Reqs, b \in Accounts :
             view'[q][b] # view[q][b] =>
               q = r /\ view'[q][b] \in Int /\ view'[q][b] >= 0
    BY <1>1 DEF IInv, TypeOK, NonNegative
  <1> QED
    BY <1>2, <1>3, <1>5, <1>6, <1>7, BeginInv

\* initiate_transfer begins on a transaction of its own.
LEMMA TransferStartInv ==
  ASSUME IInv, NEW r \in Reqs, TransferStart(r) PROVE IInv' /\ Kept
  <1> USE DEF TransferStart
  <1>1. PICK a \in active, b \in active, m \in Amounts :
          /\ txn' = [txn EXCEPT ![r] = Draft("transfer", a, b, m, Converted(m, a, b))]
          /\ Owner[a] # Owner[b]
    OBVIOUS
  <1> DEFINE d == Draft("transfer", a, b, m, Converted(m, a, b))
             x == [txn |-> r, status |-> "Absent", review |-> "Unreviewed",
                   otpOk |-> FALSE, fraud |-> FALSE, approve |-> FALSE]
  <1>2. d \in TxnRow /\ RowOK(d) /\ d.kind = "transfer"
    <2>1. a \in Accounts /\ b \in Accounts /\ m \in Nat /\ Converted(m, a, b) \in Nat
      BY AmountsAssumption, ConvertedAssumption DEF IInv, TypeOK
    <2> QED
      BY <1>1, <2>1 DEF Draft, TxnRow, RowOK, Kinds, Statuses, Reviews
  <1>3. x \in Session /\ x.txn = r /\ r \in Txns /\ sess' = [sess EXCEPT ![r] = x]
    BY DEF Open, Blank, Draft, Session, Statuses, Reviews, Txns
  <1> HIDE DEF d, x
  <1>4. txn' = [txn EXCEPT ![r] = d]
    BY <1>1 DEF d
  <1>5. /\ txn' \in [Txns -> TxnRow] /\ \A t \in Txns \ {r} : txn'[t] = txn[t]
        /\ txn'[r] = d
    BY <1>2, <1>3, <1>4 DEF IInv, TypeOK
  <1>6. /\ step[r] = "idle" /\ Op[r] = "initiate" /\ Goto(r, "receiverRef")
        /\ "receiverRef" \in Steps \ ({"idle", "apply"} \cup Outcomes)
        /\ view' = view /\ UNCHANGED <<balance, active, otp, moves, lockVars>>
    BY DEF Steps, Outcomes
  <1>7. view' \in [Reqs -> [Accounts -> Int \cup {None}]]
    BY <1>6 DEF IInv, TypeOK
  <1> QED
    BY <1>2, <1>3, <1>5, <1>6, <1>7, BeginInv

\* Completions and reviews open a transaction that is Pending or scored, hence a
\* withdrawal or a transfer.
LEMMA ReadInv ==
  ASSUME IInv, NEW r \in Reqs, CompleteRead(r) \/ ReviewRead(r) PROVE IInv' /\ Kept
  <1>1. PICK t \in Txns, ok \in BOOLEAN, fraud \in BOOLEAN, approve \in BOOLEAN :
          /\ txn[t].status = "Pending" \/ txn[t].scored
          /\ Open(r, t, txn[t], ok, fraud, approve)
    BY DEF CompleteRead, ReviewRead
  <1> DEFINE x == [txn |-> t, status |-> txn[t].status, review |-> txn[t].review,
                   otpOk |-> ok, fraud |-> fraud, approve |-> approve]
  <1>2. x \in Session /\ x.txn = t /\ sess' = [sess EXCEPT ![r] = x]
    BY <1>1 DEF Open, Session, IInv, TypeOK, TxnRow
  <1>3. txn[t].kind \in {"withdraw", "transfer"}
    BY <1>1 DEF IInv, TypeOK, RowInv, RowOK, TxnRow, Kinds
  <1> HIDE DEF x
  <1>4. PICK s \in {"lock", "decide"} :
          /\ step[r] = "idle" /\ Op[r] \in {"complete", "review"} /\ Goto(r, s)
          /\ UNCHANGED <<balance, active, otp, moves, lockVars, txn, view>>
    BY DEF CompleteRead, ReviewRead, dbVars
  <1>5. s \in Steps \ ({"idle", "apply"} \cup Outcomes)
    BY DEF Steps, Outcomes
  <1>6. /\ txn' \in [Txns -> TxnRow] /\ RowOK(txn'[r])
        /\ view' \in [Reqs -> [Accounts -> Int \cup {None}]]
    BY <1>4 DEF IInv, TypeOK, RowInv, Txns
  <1> QED
    BY <1>2, <1>3, <1>4, <1>5, <1>6, BeginInv

-----------------------------------------------------------------------------
\* The actions of a running request that holds no account lock.

\* Rows that did not change, and the transaction of a running request.
LEMMA SameRows ==
  ASSUME IInv, txn' = txn
  PROVE  /\ txn' \in [Txns -> TxnRow]
         /\ \A t \in Txns : SameTerms(txn'[t], txn[t]) /\ RowOK(txn'[t])
  BY DEF IInv, TypeOK, RowInv, SameTerms

\* The first foreign-key check of an INSERT preserves the invariant.
LEMMA ReferReceiverInv ==
  ASSUME IInv, NEW r \in Reqs, ReferReceiver(r) PROVE IInv' /\ Kept
  <1> USE DEF ReferReceiver, dbVars
  <1>1. Running(r) /\ Op[r] = "initiate"
    BY OpAssumption DEF Running, Outcomes, IInv, SessInv, Operations
  <1>2. "senderRef" \in Steps \ ({"idle", "apply", "receiverRef"} \cup Outcomes)
    BY DEF Steps, Outcomes
  <1>3. /\ keyShare' \in [Accounts -> SUBSET Reqs] /\ txnLock' \in [Txns -> Reqs \cup {None}]
        /\ sess' \in [Reqs -> Session] /\ \A q \in Reqs : sess'[q].txn = sess[q].txn
    BY DEF IInv, TypeOK
  <1> QED
    BY <1>1, <1>2, <1>3, SameRows, ContinueInv

\* Committing the Pending transaction preserves the invariant.
LEMMA InsertPendingInv ==
  ASSUME IInv, NEW r \in Reqs, InsertPending(r) PROVE IInv' /\ Kept
  <1> USE DEF InsertPending
  <1>1. Running(r) /\ Op[r] \in {"withdraw", "initiate"} /\ sess[r].txn = r
    BY OpAssumption DEF Running, Outcomes, IInv, SessInv, Operations
  <1>2. "score" \in Steps \ ({"idle", "apply", "receiverRef"} \cup Outcomes)
    BY DEF Steps, Outcomes
  <1>3. /\ keyShare' \in [Accounts -> SUBSET Reqs] /\ txnLock' \in [Txns -> Reqs \cup {None}]
        /\ sess' \in [Reqs -> Session] /\ \A q \in Reqs : sess'[q].txn = sess[q].txn
    <2>1. keyShare' \in [Accounts -> SUBSET Reqs] /\ txnLock' \in [Txns -> Reqs \cup {None}]
      BY DEF IInv, TypeOK
    <2>2. sess' = [sess EXCEPT ![r] = WithStatus(sess[r], "Pending")]
      BY DEF WithStatus
    <2>3. /\ WithStatus(sess[r], "Pending") \in Session
          /\ WithStatus(sess[r], "Pending").txn = sess[r].txn
      <3>1. ASSUME NEW x \in Session
            PROVE  WithStatus(x, "Pending") \in Session /\ WithStatus(x, "Pending").txn = x.txn
        BY DEF WithStatus, Session, Statuses
      <3>2. sess[r] \in Session
        BY DEF IInv, TypeOK
      <3> QED
        BY <3>1, <3>2
    <2>4. sess \in [Reqs -> Session]
      BY DEF IInv, TypeOK
    <2> HIDE DEF InsertPending
    <2>5. sess' \in [Reqs -> Session] /\ \A q \in Reqs : sess'[q].txn = sess[q].txn
      BY <2>2, <2>3, <2>4
    <2> QED
      BY <2>1, <2>5
  <1>4. /\ txn[r] \in TxnRow /\ txn[r].kind \in {"withdraw", "transfer"}
        /\ RowOK(txn[r])
    BY <1>1 DEF IInv, TypeOK, SessInv, RowInv, Txns, T
  <1> DEFINE row == WithStatus(txn[r], "Pending")
  <1>5. row \in TxnRow /\ SameTerms(row, T(r)) /\ RowOK(row) /\ "Pending" \in Statuses
    BY <1>1, <1>4 DEF WithStatus, TxnRow, SameTerms, RowOK, Statuses, T
  <1>6. txn' = [txn EXCEPT ![sess[r].txn] = row]
    BY <1>1 DEF WithStatus
  <1>7. /\ txn' \in [Txns -> TxnRow]
        /\ \A t \in Txns : SameTerms(txn'[t], txn[t]) /\ RowOK(txn'[t])
    BY <1>1, <1>5, <1>6, RowChange
  <1> QED
    BY <1>1, <1>2, <1>3, <1>7, ContinueInv

\* The commits of analyze_transaction preserve the invariant.
LEMMA ScoreInv ==
  ASSUME IInv, NEW r \in Reqs, Score(r) PROVE IInv' /\ Kept
  <1>1. Running(r) /\ Op[r] \in {"withdraw", "initiate"} /\ sess[r].txn = r
    BY OpAssumption DEF Score, Running, Outcomes, IInv, SessInv, Operations
  <1>2. PICK s \in {"lock", "otp", "flagged", "failing"} :
          /\ step[r] = "score" /\ Goto(r, s)
          /\ s = "lock" => Op[r] = "withdraw"
          /\ s = "otp" => Op[r] # "withdraw"
          /\ \/ txn' = txn
             \/ \E v \in {"CLEARED", "FLAGGED"} :
                  txn' = [txn EXCEPT ![r] = [Saved(r, "Pending", v) EXCEPT !.scored = TRUE]]
          /\ \/ sess' = sess
             \/ \E v \in {"CLEARED", "FLAGGED"} : sess' = [sess EXCEPT ![r].review = v]
          /\ UNCHANGED <<balance, active, otp, moves, lockVars, view>>
    BY DEF Score
  <1>3. s \in Steps \ ({"idle", "apply", "receiverRef"} \cup Outcomes)
    BY DEF Steps, Outcomes
  <1>4. /\ keyShare' \in [Accounts -> SUBSET Reqs] /\ txnLock' \in [Txns -> Reqs \cup {None}]
        /\ sess' \in [Reqs -> Session] /\ \A q \in Reqs : sess'[q].txn = sess[q].txn
    <2>1. keyShare' \in [Accounts -> SUBSET Reqs] /\ txnLock' \in [Txns -> Reqs \cup {None}]
      BY <1>2 DEF IInv, TypeOK, lockVars
    <2>2. ASSUME NEW v \in {"CLEARED", "FLAGGED"}, sess' = [sess EXCEPT ![r].review = v]
          PROVE  sess' \in [Reqs -> Session] /\ \A q \in Reqs : sess'[q].txn = sess[q].txn
      <3>1. sess' = [sess EXCEPT ![r] = WithReview(sess[r], v)]
        BY <2>2 DEF WithReview
      <3>2. /\ WithReview(sess[r], v) \in Session
            /\ WithReview(sess[r], v).txn = sess[r].txn
        BY DEF WithReview, IInv, TypeOK, Session, Reviews
      <3> QED
        BY <3>1, <3>2 DEF IInv, TypeOK
    <2> QED
      BY <1>2, <2>1, <2>2 DEF IInv, TypeOK
  <1>5. /\ txn' \in [Txns -> TxnRow]
        /\ \A t \in Txns : SameTerms(txn'[t], txn[t]) /\ RowOK(txn'[t])
    <2>1. CASE txn' = txn
      BY <2>1, SameRows
    <2>2. ASSUME NEW v \in {"CLEARED", "FLAGGED"},
                 txn' = [txn EXCEPT ![r] = [Saved(r, "Pending", v) EXCEPT !.scored = TRUE]]
          PROVE  /\ txn' \in [Txns -> TxnRow]
                 /\ \A t \in Txns : SameTerms(txn'[t], txn[t]) /\ RowOK(txn'[t])
      <3> DEFINE row == [Saved(r, "Pending", v) EXCEPT !.scored = TRUE]
      <3>1. T(r).kind \in {"withdraw", "transfer"} /\ T(r) \in TxnRow /\ RowOK(T(r))
        BY <1>1 DEF IInv, SessInv, RowInv, TypeOK, T
      <3>2. Saved(r, "Pending", v) \in TxnRow /\ SameTerms(Saved(r, "Pending", v), T(r))
        <4> DEFINE st == Written(sess[r].status, "Pending", T(r).status)
                   re == Written(sess[r].review, v, T(r).review)
        <4>1. st \in Statuses /\ re \in Reviews
          BY <3>1 DEF Written, TxnRow, Statuses, Reviews
        <4> HIDE DEF st, re
        <4>2. WithStatus(T(r), st) \in TxnRow
          BY <3>1, <4>1, RowEdit
        <4>3. /\ WithReview(WithStatus(T(r), st), re) \in TxnRow
              /\ SameTerms(WithReview(WithStatus(T(r), st), re), T(r))
          BY <3>1, <4>1, <4>2, RowEdit DEF SameTerms
        <4> QED
          BY <4>3 DEF Saved, st, re
      <3>3. row \in TxnRow /\ SameTerms(row, T(r)) /\ RowOK(row)
        BY <3>1, <3>2 DEF TxnRow, SameTerms, RowOK
      <3>4. txn' = [txn EXCEPT ![sess[r].txn] = row]
        BY <1>1, <2>2
      <3> HIDE DEF row
      <3> QED
        BY <1>1, <3>3, <3>4, RowChange
    <2> QED
      BY <1>2, <2>1, <2>2
  <1> QED
    BY <1>1, <1>2, <1>3, <1>4, <1>5, ContinueInv DEF lockVars

\* session.refresh preserves the invariant.
LEMMA ReloadInv ==
  ASSUME IInv, NEW r \in Reqs, Reload(r) PROVE IInv' /\ Kept
  <1> USE DEF Reload, dbVars, lockVars
  <1>1. Running(r) /\ Op[r] \in {"withdraw", "initiate"} /\ sess[r].txn \in Txns
    BY OpAssumption DEF Running, Outcomes, IInv, SessInv, Operations
  <1>2. PICK s \in {"failing", "holding"} : step[r] \in {"flagged", "failed"} /\ Goto(r, s)
    OBVIOUS
  <1>3. s \in Steps \ ({"idle", "apply", "receiverRef"} \cup Outcomes)
    BY DEF Steps, Outcomes
  <1>4. T(r) \in TxnRow
    BY <1>1 DEF T, IInv, TypeOK
  <1> DEFINE st == WithStatus(sess[r], T(r).status)
             x  == WithReview(st, T(r).review)
  <1>5. /\ keyShare' \in [Accounts -> SUBSET Reqs] /\ txnLock' \in [Txns -> Reqs \cup {None}]
        /\ sess' \in [Reqs -> Session] /\ \A q \in Reqs : sess'[q].txn = sess[q].txn
    <2>1. T(r).status \in Statuses /\ T(r).review \in Reviews /\ sess[r] \in Session
      BY <1>4 DEF TxnRow, IInv, TypeOK
    <2>2. st \in Session /\ st.txn = sess[r].txn
      BY <2>1 DEF WithStatus, Session
    <2> HIDE DEF st
    <2>3. x \in Session /\ x.txn = sess[r].txn
      BY <2>1, <2>2 DEF WithReview, Session
    <2>4. sess' = [sess EXCEPT ![r] = x]
      BY DEF st
    <2> HIDE DEF x
    <2> QED
      BY <2>3, <2>4 DEF IInv, TypeOK
  <1>6. /\ txn' \in [Txns -> TxnRow]
        /\ \A t \in Txns : SameTerms(txn'[t], txn[t]) /\ RowOK(txn'[t])
    BY SameRows
  <1>7. step[r] \notin {"lock", "apply"} /\ s \notin {"otp", "decide", "lock"}
    BY <1>2
  <1>8. UNCHANGED <<balance, active, otp, moves, acctLock, view>>
    OBVIOUS
  <1> HIDE DEF Reload
  <1> QED
    BY <1>1, <1>2, <1>3, <1>5, <1>6, <1>7, <1>8, ContinueInv

\* mark_transaction_failed, called for a flagged transaction, preserves the invariant.
LEMMA FlagFailedInv ==
  ASSUME IInv, NEW r \in Reqs, FlagFailed(r) PROVE IInv' /\ Kept
  <1> USE DEF FlagFailed, lockVars
  <1>1. Running(r) /\ Op[r] \in {"withdraw", "initiate"} /\ sess[r].txn = r
    BY OpAssumption DEF Running, Outcomes, IInv, SessInv, Operations
  <1>2. "failed" \in Steps \ ({"idle", "apply", "receiverRef"} \cup Outcomes)
    BY DEF Steps, Outcomes
  <1>3. /\ keyShare' \in [Accounts -> SUBSET Reqs] /\ txnLock' \in [Txns -> Reqs \cup {None}]
        /\ sess' \in [Reqs -> Session] /\ sess[r].review \in Reviews
    BY DEF IInv, TypeOK, Session
  <1>4. /\ txn' \in [Txns -> TxnRow]
        /\ \A t \in Txns : SameTerms(txn'[t], txn[t]) /\ RowOK(txn'[t])
    BY <1>1, <1>3, SavedRow, RowChange
  <1> QED
    BY <1>1, <1>2, <1>3, <1>4, ContinueInv

\* The autoflush of an approval preserves the invariant.
LEMMA ReviewFlushInv ==
  ASSUME IInv, NEW r \in Reqs, ReviewFlush(r) PROVE IInv' /\ Kept
  <1> USE DEF ReviewFlush, dbVars
  <1>1. Running(r) /\ Op[r] \in {"review", "complete"} /\ sess[r].txn \in Txns
    BY OpAssumption DEF Running, Outcomes, IInv, SessInv, Operations
  <1>2. "lock" \in Steps \ ({"idle", "apply", "receiverRef"} \cup Outcomes)
    BY DEF Steps, Outcomes
  <1>3. /\ keyShare' \in [Accounts -> SUBSET Reqs] /\ txnLock' \in [Txns -> Reqs \cup {None}]
        /\ sess' \in [Reqs -> Session]
    BY DEF IInv, TypeOK
  <1> QED
    BY <1>1, <1>2, <1>3, SameRows, ContinueInv

-----------------------------------------------------------------------------
\* The actions that end a request without moving money.

\* An ending that leaves the balances alone.
LEMMA QuietEnd ==
  ASSUME IInv, NEW r \in Reqs, NEW o \in Outcomes, Finish(r, o),
         otp' \in [Users -> Txns \cup {None}],
         txn' \in [Txns -> TxnRow],
         \A t \in Txns : SameTerms(txn'[t], txn[t]) /\ RowOK(txn'[t]),
         UNCHANGED <<balance, active, moves>>
  PROVE  IInv' /\ Kept
  <1>1. /\ balance' \in [Accounts -> Int] /\ moves' \in [Txns -> Nat]
        /\ \A a \in Accounts : balance'[a] >= 0
        /\ \A a \in Accounts : balance'[a] # balance[a] => acctLock[a] = r
    BY DEF IInv, TypeOK, NonNegative
  <1> QED
    BY <1>1, FinishInv

\* The last commit of handle_flagged_transaction preserves the invariant.
LEMMA HoldInv ==
  ASSUME IInv, NEW r \in Reqs, Hold(r) PROVE IInv' /\ Kept
  <1> USE DEF Hold
  <1>1. Running(r) /\ Op[r] \in {"withdraw", "initiate"} /\ sess[r].txn = r
    BY OpAssumption DEF Running, Outcomes, IInv, SessInv, Operations
  <1>2. T(r).kind # "deposit" /\ "FLAGGED" \in Reviews /\ "held" \in Outcomes
    BY <1>1 DEF IInv, SessInv, Reviews, Outcomes
  <1>3. /\ txn' \in [Txns -> TxnRow]
        /\ \A t \in Txns : SameTerms(txn'[t], txn[t]) /\ RowOK(txn'[t])
    BY <1>1, <1>2, SavedRow, RowChange
  <1>4. otp' \in [Users -> Txns \cup {None}]
    BY DEF IInv, TypeOK
  <1> QED
    BY <1>2, <1>3, <1>4, QuietEnd

\* Issuing a code preserves the invariant.
LEMMA IssueOtpInv ==
  ASSUME IInv, NEW r \in Reqs, IssueOtp(r) PROVE IInv' /\ Kept
  <1> USE DEF IssueOtp
  <1>1. otp' \in [Users -> Txns \cup {None}] /\ "ok" \in Outcomes
    BY DEF IInv, TypeOK, Txns, Outcomes
  <1> QED
    BY <1>1, SameRows, QuietEnd

\* Recording a decision without approval preserves the invariant.
LEMMA ReviewRecordInv ==
  ASSUME IInv, NEW r \in Reqs, ReviewRecord(r) PROVE IInv' /\ Kept
  <1> USE DEF ReviewRecord
  <1>1. Running(r) /\ T(r).kind \in {"withdraw", "transfer"}
    BY OpAssumption DEF Running, Outcomes, IInv, SessInv, Operations
  <1> DEFINE s == IF sess[r].fraud THEN "Failed" ELSE sess[r].status
  <1>2. s \in {"Failed", "Completed", sess[r].status} /\ Verdict(r) \in Reviews
    BY DEF Verdict, Reviews
  <1>3. txn' = [txn EXCEPT ![sess[r].txn] = Saved(r, s, Verdict(r))]
    OBVIOUS
  <1> HIDE DEF s
  <1>4. /\ txn' \in [Txns -> TxnRow]
        /\ \A t \in Txns : SameTerms(txn'[t], txn[t]) /\ RowOK(txn'[t])
    BY <1>1, <1>2, <1>3, SavedRow, RowChange
  <1>5. otp' \in [Users -> Txns \cup {None}] /\ "ok" \in Outcomes
    BY DEF IInv, TypeOK, Outcomes
  <1> QED
    BY <1>4, <1>5, QuietEnd

\* mark_transaction_failed, called under the lock, preserves the invariant.
LEMMA MarkFailedInv ==
  ASSUME IInv, NEW r \in Reqs, MarkFailed(r) PROVE IInv' /\ Kept
  <1> USE DEF MarkFailed
  <1>1. Running(r) /\ sess[r].review \in Reviews
    BY DEF Running, Outcomes, IInv, TypeOK, Session
  <1>2. T(r).kind # "deposit" /\ "rejected" \in Outcomes
    BY <1>1 DEF IInv, SessInv, Outcomes
  <1>3. /\ txn' \in [Txns -> TxnRow]
        /\ \A t \in Txns : SameTerms(txn'[t], txn[t]) /\ RowOK(txn'[t])
    BY <1>1, <1>2, SavedRow, RowChange
  <1>4. otp' \in [Users -> Txns \cup {None}]
    BY DEF IInv, TypeOK
  <1> QED
    BY <1>2, <1>3, <1>4, QuietEnd

\* A rollback, of whatever cause, preserves the invariant.
LEMMA RolledBackInv ==
  ASSUME IInv, NEW r \in Reqs, Rollback(r) \/ Crash(r) \/ DeadlockAbort(r) PROVE IInv' /\ Kept
  <1>1. PICK o \in Outcomes : Finish(r, o)
    BY DEF Rollback, Crash, DeadlockAbort, Outcomes
  <1>2. UNCHANGED <<balance, active, otp, txn, moves>>
    BY DEF Rollback, Crash, DeadlockAbort, dbVars
  <1>3. otp' \in [Users -> Txns \cup {None}]
    BY <1>2 DEF IInv, TypeOK
  <1> QED
    BY <1>1, <1>2, <1>3, SameRows, QuietEnd

-----------------------------------------------------------------------------
\* The commits that move money.

Moving(r) == DepositCommit(r) \/ WithdrawCommit(r) \/ CompleteCommit(r) \/ ReviewCommit(r)

\* What the four commits have in common.
LEMMA MoveFacts ==
  ASSUME IInv, NEW r \in Reqs, Moving(r)
  PROVE  /\ step[r] = "apply" /\ Running(r) /\ sess[r].txn \in Txns
         /\ T(r).kind \in {"deposit", "withdraw", "transfer"}
         /\ T(r).kind # "deposit" => Funded(r)
         /\ T(r).kind = "deposit" <=> Op[r] = "deposit"
         /\ balance' = Posted(r) /\ active' = active
         /\ moves' = [moves EXCEPT ![sess[r].txn] = @ + 1]
         /\ Finish(r, "ok")
         /\ otp' \in [Users -> Txns \cup {None}]
         /\ txn' \in [Txns -> TxnRow]
         /\ \A t \in Txns : SameTerms(txn'[t], txn[t]) /\ RowOK(txn'[t])
  <1>1. /\ step[r] = "apply" /\ Running(r)
        /\ Op[r] = "deposit" \/ Funded(r)
        /\ Op[r] \in {"deposit", "withdraw", "complete", "review"}
        /\ balance' = Posted(r) /\ active' = active
        /\ moves' = [moves EXCEPT ![sess[r].txn] = @ + 1]
        /\ Finish(r, "ok")
    BY DEF Moving, DepositCommit, WithdrawCommit, CompleteCommit, ReviewCommit, Move,
           Running, Outcomes
  <1>2. /\ sess[r].txn \in Txns
        /\ T(r).kind \in {"deposit", "withdraw", "transfer"}
        /\ T(r).kind = "deposit" <=> Op[r] = "deposit"
    BY <1>1 DEF IInv, SessInv
  <1>3. otp' \in [Users -> Txns \cup {None}]
    BY DEF Moving, DepositCommit, WithdrawCommit, CompleteCommit, ReviewCommit, IInv, TypeOK
  <1>4. PICK v \in Reviews :
          \/ txn' = [txn EXCEPT ![sess[r].txn] = Saved(r, "Completed", v)]
          \/ txn' = [txn EXCEPT ![sess[r].txn] =
                       WithStatus(Saved(r, "Completed", v), "Completed")]
    <2>1. sess[r].review \in Reviews /\ Verdict(r) \in Reviews
      BY DEF IInv, TypeOK, Session, Verdict, Reviews
    <2> QED
      BY <2>1 DEF Moving, DepositCommit, WithdrawCommit, CompleteCommit, ReviewCommit, Move
  <1>5. /\ Saved(r, "Completed", v) \in TxnRow
        /\ SameTerms(Saved(r, "Completed", v), T(r))
        /\ RowOK(Saved(r, "Completed", v))
    BY <1>1, SavedRow
  <1> DEFINE row == WithStatus(Saved(r, "Completed", v), "Completed")
  <1>6. row \in TxnRow /\ SameTerms(row, T(r)) /\ RowOK(row)
    <2>1. T(r).kind # "none"
      BY <1>2
    <2>2. "Completed" \in Statuses /\ v \in Reviews
      BY DEF Statuses
    <2>3. /\ row \in TxnRow /\ SameTerms(row, Saved(r, "Completed", v))
          /\ row.status = "Completed" /\ row.scored = Saved(r, "Completed", v).scored
      BY <1>5, <2>2, RowEdit
    <2> QED
      BY <1>5, <2>1, <2>3 DEF SameTerms, RowOK
  <1> HIDE DEF row
  <1>7. /\ txn' \in [Txns -> TxnRow]
        /\ \A t \in Txns : SameTerms(txn'[t], txn[t]) /\ RowOK(txn'[t])
    BY <1>1, <1>4, <1>5, <1>6, RowChange DEF row
  <1> QED
    BY <1>1, <1>2, <1>3, <1>7

\* The commits that move money preserve the invariant.
LEMMA MovingInv ==
  ASSUME IInv, NEW r \in Reqs, Moving(r) PROVE IInv' /\ Kept
  <1>1. /\ balance' \in [Accounts -> Int]
        /\ \A a \in Accounts : balance'[a] >= 0
        /\ \A a \in Accounts : balance'[a] # balance[a] => acctLock[a] = r
    BY MoveFacts, PostedOK
  <1>2. moves' \in [Txns -> Nat] /\ "ok" \in Outcomes
    BY MoveFacts DEF IInv, TypeOK, Outcomes
  <1> QED
    BY <1>1, <1>2, MoveFacts, FinishInv

-----------------------------------------------------------------------------
\* The steps that touch one variable, and the conclusion.

\* The early returns preserve the invariant.
LEMMA RefuseInv ==
  ASSUME IInv, NEW r \in Reqs, Refuse(r) PROVE IInv' /\ Kept
  <1> USE DEF Refuse, Goto, dbVars, lockVars
  <1>1. TypeOK' /\ RowInv'
    BY DEF IInv, TypeOK, RowInv, Steps, Outcomes
  <1>2. SessInv'
    BY DEF IInv, TypeOK, SessInv, Running, Outcomes, T
  <1>3. \A q \in Reqs : Needs(q)' = Needs(q)
    BY DEF Needs, T
  <1>4. LockInv'
    BY <1>3 DEF IInv, TypeOK, LockInv
  <1>5. ViewInv' /\ FreshUnderLock' /\ NonNegative'
    BY DEF IInv, ViewInv, FreshUnderLock, NonNegative
  <1>6. Kept
    BY DEF Kept, SameTerms
  <1> QED
    BY <1>1, <1>2, <1>4, <1>5, <1>6 DEF IInv

\* activate_bank_account preserves the invariant.
LEMMA ActivateInv ==
  ASSUME IInv, NEW a \in Accounts, Activate(a) PROVE IInv' /\ Kept
  BY DEF IInv, Activate, TypeOK, RowInv, SessInv, LockInv, ViewInv, NonNegative,
         FreshUnderLock, Running, Needs, T, lockVars, sessVars, Kept, SameTerms

\* IInv is inductive.
LEMMA NextInv == IInv /\ [Next]_vars => IInv' /\ Kept
  <1> SUFFICES ASSUME IInv, [Next]_vars PROVE IInv' /\ Kept
    OBVIOUS
  <1>1. ASSUME NEW r \in Reqs, Begin(r) PROVE IInv' /\ Kept
    BY <1>1, RefuseInv, DepositStartInv, WithdrawStartInv, TransferStartInv, ReadInv
    DEF Begin
  <1>2. ASSUME NEW r \in Reqs, Advance(r) PROVE IInv' /\ Kept
    BY <1>2, ReferReceiverInv, InsertPendingInv, ScoreInv, ReloadInv, FlagFailedInv,
       HoldInv, IssueOtpInv, ReviewRecordInv, ReviewFlushInv, LockAccountInv, MovingInv,
       MarkFailedInv, RolledBackInv
    DEF Advance, Moving
  <1>3. ASSUME NEW r \in Reqs, Crash(r) \/ DeadlockAbort(r) PROVE IInv' /\ Kept
    BY <1>3, RolledBackInv
  <1>4. ASSUME NEW a \in Accounts, Activate(a) PROVE IInv' /\ Kept
    BY <1>4, ActivateInv
  <1>5. CASE UNCHANGED vars
    BY <1>5 DEF vars, dbVars, lockVars, sessVars, IInv, TypeOK, RowInv, SessInv, LockInv,
                ViewInv, NonNegative, FreshUnderLock, Running, Needs, T, Kept, SameTerms
  <1> QED
    BY <1>1, <1>2, <1>3, <1>4, <1>5 DEF Next, Terminated

\* Every reachable state satisfies the invariant, whatever the accounts, the
\* requests, their operations and the places where they are interrupted.
THEOREM Invariance == Spec => []IInv
  BY InitInv, NextInv, PTL DEF Spec

\* Type correctness of the ledger.
THEOREM TypeCorrect == Spec => []TypeOK
  <1>1. IInv => TypeOK
    BY DEF IInv
  <1> QED
    BY <1>1, Invariance, PTL

\* No workload overdraws an account (service.py:6-10).
THEOREM NeverOverdrawn == Spec => []NonNegative
  <1>1. IInv => NonNegative
    BY DEF IInv
  <1> QED
    BY <1>1, Invariance, PTL

\* Except for withdrawals, what an operation read of an account it holds is what
\* the row still says (service.py:6-8).
THEOREM LockedCopiesAreFresh == Spec => []FreshUnderLock
  <1>1. IInv => FreshUnderLock
    BY DEF IInv
  <1> QED
    BY <1>1, Invariance, PTL

-----------------------------------------------------------------------------
\* Lock order: deposits, withdrawals and the completions of transfers lock only
\* accounts, each request in ascending order.

OnlyAccounts == \A r \in Reqs : Op[r] \in {"deposit", "withdraw", "complete"}

\* Nobody holds another lock, and whoever holds an account waits for a higher one.
OrderInv ==
  /\ \A r \in Reqs : step[r] \notin {"receiverRef", "decide"}
  /\ \A a \in Accounts : keyShare[a] = {}
  /\ \A t \in Txns : txnLock[t] = None
  /\ \A r \in Reqs, a, b \in Accounts : acctLock[a] = r /\ b \in ToLock(r) => a < b

\* Natural numbers are well founded.
LEMMA Below ==
  \E R : /\ IsWellFoundedOn(R, Nat)
         /\ \A k, m \in Nat : k < m => <<k, m>> \in R
  <1>1. \A k, m \in Nat : <<k, m>> \in Nat \X Nat /\ <<k, m>>[1] = k /\ <<k, m>>[2] = m
    OBVIOUS
  <1>2. \A k, m \in Nat : k < m => <<k, m>> \in OpToRel(<, Nat)
    BY <1>1, Zenon DEF OpToRel
  <1> QED
    BY <1>2, NatLessThanWellFounded, Zenon

\* Some number of a set has no lower one in it.
LEMMA Lowest ==
  ASSUME NEW S, S \subseteq Nat, S # {}
  PROVE  \E m \in S : \A k \in S : ~(k < m)
  <1>1. PICK R : /\ IsWellFoundedOn(R, Nat)
                 /\ \A k, m \in Nat : k < m => <<k, m>> \in R
    BY Below
  <1>2. IsWellFoundedOn(R, Nat)
    BY <1>1
  <1>3. PICK m \in S : \A k \in S : ~ (<<k, m>> \in R)
    BY <1>2, WFMin, Zenon
  <1> QED
    BY <1>1, <1>3

\* Each account is locked in its turn.
LEMMA LockAccountOrder ==
  ASSUME OnlyAccounts, IInv, OrderInv, NEW r \in Reqs, LockAccount(r) PROVE OrderInv'
  <1>1. PICK a \in Accounts :
           /\ IsNext(r, a)
           /\ acctLock[a] = None
           /\ acctLock' = [acctLock EXCEPT ![a] = r]
           /\ step' = [step EXCEPT ![r] = IF ToLock(r) = {a} THEN "apply" ELSE "lock"]
    BY DEF LockAccount, Goto
  <1>2. UNCHANGED <<txn, sess, keyShare, txnLock>>
    BY DEF LockAccount, dbVars
  <1>3. \A q \in Reqs : step'[q] \notin {"receiverRef", "decide"}
    BY <1>1 DEF OrderInv, IInv, TypeOK
  <1>4. ASSUME NEW q \in Reqs, NEW c \in Accounts, NEW b \in Accounts,
               acctLock'[c] = q, b \in ToLock(q)'
        PROVE  c < b
    <2>1. b \in ToLock(q) /\ (c = a /\ q = r => b # c)
      BY <1>1, <1>2, <1>4, NoneAssumption DEF ToLock, Needs, T, IInv, TypeOK, Txns
    <2>2. CASE c = a /\ q = r
      BY <1>1, <2>1, <2>2, AccountsAssumption DEF IsNext
    <2>3. CASE ~(c = a /\ q = r)
      <3>1. acctLock[c] = q
        BY <1>1, <1>4, <2>3 DEF IInv, TypeOK
      <3> QED
        BY <2>1, <3>1 DEF OrderInv
    <2> QED
      BY <2>2, <2>3
  <1> QED
    BY <1>2, <1>3, <1>4 DEF OrderInv

\* A step after which r holds no account lock, and that takes no lock.
LEMMA OtherOrder ==
  ASSUME IInv, OrderInv, Kept, NEW r \in Reqs, step'[r] \notin {"receiverRef", "decide"},
         \A a \in Accounts : acctLock'[a] # r,
         \A q \in Reqs \ {r} : step'[q] = step[q] /\ sess'[q] = sess[q],
         \A q \in Reqs \ {r}, a \in Accounts : acctLock'[a] = q <=> acctLock[a] = q,
         \A a \in Accounts : keyShare'[a] \subseteq keyShare[a],
         \A t \in Txns : txnLock'[t] \in {txnLock[t], None}
  PROVE  OrderInv'
  <1>1. ASSUME NEW q \in Reqs, NEW a \in Accounts, NEW b \in Accounts,
               acctLock'[a] = q, b \in ToLock(q)'
        PROVE  a < b
    <2>1. q # r /\ acctLock[a] = q
      BY <1>1
    <2>2. Running(q) /\ sess[q].txn \in Txns /\ T(q).kind # "none"
      BY <2>1, OpAssumption DEF IInv, LockInv, SessInv, Running, Outcomes, Operations
    <2>3. Needs(q)' = Needs(q)
      BY <2>1, <2>2 DEF Kept, SameTerms, Needs, T
    <2>4. b \in ToLock(q)
      BY <1>1, <2>1, <2>3 DEF ToLock
    <2> QED
      BY <2>1, <2>4 DEF OrderInv
  <1> QED
    BY <1>1 DEF OrderInv

\* A session that ends releases its locks.
LEMMA FinishOrder ==
  ASSUME IInv, OrderInv, Kept, NEW r \in Reqs, NEW o \in Outcomes, Finish(r, o)
  PROVE  OrderInv'
  <1> USE DEF Finish, Goto, IInv, TypeOK
  <1>1. step'[r] \notin {"receiverRef", "decide"}
    BY DEF Outcomes
  <1>2. \A a \in Accounts : acctLock'[a] # r
    BY NoneAssumption DEF Txns
  <1>3. \A q \in Reqs \ {r} : step'[q] = step[q] /\ sess'[q] = sess[q]
    OBVIOUS
  <1>4. \A q \in Reqs \ {r}, a \in Accounts : acctLock'[a] = q <=> acctLock[a] = q
    BY NoneAssumption DEF Txns
  <1>5. /\ \A a \in Accounts : keyShare'[a] \subseteq keyShare[a]
        /\ \A t \in Txns : txnLock'[t] \in {txnLock[t], None}
    OBVIOUS
  <1> HIDE DEF Finish, Goto, IInv, TypeOK
  <1> QED
    BY <1>1, <1>2, <1>3, <1>4, <1>5, OtherOrder

\* A request that moves on without a lock.
LEMMA GotoOrder ==
  ASSUME IInv, OrderInv, Kept, NEW r \in Reqs, step[r] \notin {"lock", "apply"},
         NEW s, Goto(r, s), s \notin {"receiverRef", "decide"},
         \A q \in Reqs \ {r} : sess'[q] = sess[q],
         \A a \in Accounts : keyShare'[a] \subseteq keyShare[a],
         UNCHANGED <<acctLock, txnLock>>
  PROVE  OrderInv'
  <1>1. step'[r] = s /\ \A q \in Reqs \ {r} : step'[q] = step[q]
    BY DEF Goto, IInv, TypeOK
  <1>2. \A a \in Accounts : acctLock[a] # r
    BY DEF IInv, LockInv
  <1> QED
    BY <1>1, <1>2, OtherOrder

\* Every step of a workload that locks only accounts keeps the order.
LEMMA NextOrder ==
  ASSUME OnlyAccounts PROVE IInv /\ OrderInv /\ [Next]_vars => OrderInv'
  <1> SUFFICES ASSUME IInv, OrderInv, [Next]_vars PROVE OrderInv'
    OBVIOUS
  <1>1. Kept
    BY NextInv
  <1>2. ASSUME NEW r \in Reqs, Begin(r) PROVE OrderInv'
    <2>1. \/ Refuse(r) \/ DepositStart(r) \/ WithdrawStart(r) \/ CompleteRead(r)
      BY <1>2 DEF Begin, TransferStart, ReviewRead, OnlyAccounts
    <2>2. PICK s \in {"rejected", "lock", "senderRef"} : Goto(r, s)
      BY <2>1 DEF Refuse, DepositStart, WithdrawStart, CompleteRead
    <2>3. step[r] = "idle" /\ UNCHANGED lockVars /\ \A q \in Reqs \ {r} : sess'[q] = sess[q]
      BY <2>1 DEF Refuse, DepositStart, WithdrawStart, CompleteRead, Open, IInv, TypeOK
    <2> QED
      BY <1>1, <2>2, <2>3, GotoOrder DEF lockVars
  <1>3. ASSUME NEW r \in Reqs, Advance(r) PROVE OrderInv'
    <2>1. CASE InsertPending(r) \/ Score(r) \/ Reload(r) \/ FlagFailed(r)
      <3>1. PICK s \in {"score", "lock", "otp", "flagged", "failing", "holding", "failed"} :
              Goto(r, s)
        BY <2>1 DEF InsertPending, Score, Reload, FlagFailed
      <3>2. /\ step[r] \notin {"lock", "apply"} /\ UNCHANGED <<acctLock, txnLock>>
            /\ \A q \in Reqs \ {r} : sess'[q] = sess[q]
            /\ \A a \in Accounts : keyShare'[a] \subseteq keyShare[a]
        BY <2>1 DEF InsertPending, Score, Reload, FlagFailed, lockVars, IInv, TypeOK
      <3> QED
        BY <1>1, <3>1, <3>2, GotoOrder
    <2>2. CASE LockAccount(r)
      BY <2>2, LockAccountOrder
    <2>3. CASE \E o \in Outcomes : Finish(r, o)
      BY <1>1, <2>3, FinishOrder
    <2>4. ~(ReferReceiver(r) \/ ReviewFlush(r))
      BY DEF ReferReceiver, ReviewFlush, OrderInv
    <2>5. Hold(r) \/ IssueOtp(r) \/ ReviewRecord(r) \/ DepositCommit(r) \/ WithdrawCommit(r)
            \/ CompleteCommit(r) \/ ReviewCommit(r) \/ MarkFailed(r) \/ Rollback(r) =>
          \E o \in Outcomes : Finish(r, o)
      BY DEF Outcomes, Hold, IssueOtp, ReviewRecord, DepositCommit, WithdrawCommit,
             CompleteCommit, ReviewCommit, Move, MarkFailed, Rollback
    <2> QED
      BY <1>3, <2>1, <2>2, <2>3, <2>4, <2>5 DEF Advance
  <1>4. ASSUME NEW r \in Reqs, Crash(r) \/ DeadlockAbort(r) PROVE OrderInv'
    BY <1>1, <1>4, FinishOrder DEF Crash, DeadlockAbort, Outcomes
  <1>5. CASE (\E a \in Accounts : Activate(a)) \/ UNCHANGED vars
    BY <1>5 DEF Activate, vars, dbVars, lockVars, sessVars, OrderInv, ToLock, Needs, T
  <1> QED
    BY <1>2, <1>3, <1>4, <1>5 DEF Next, Terminated

\* In that order a request waits only for an account, and holds none as high.
LEMMA OrderHasNoCycle ==
  ASSUME OnlyAccounts, IInv, OrderInv PROVE NoDeadlock
  <1> DEFINE Waits(p, q, a) == a \in ToLock(p) /\ acctLock[a] = q
  <1>1. ASSUME NEW p \in Reqs, NEW q \in Blockers(p), step[p] \in {"lock", "apply"}
        PROVE  \E a \in Accounts : Waits(p, q, a)
    <2>1. Running(p)
      BY <1>1 DEF Running, Outcomes
    <2>2. sess[p].txn \in Txns /\ Needs(p) \subseteq Accounts
      BY <2>1, NeedsAccounts DEF IInv, SessInv
    <2>3. txnLock[sess[p].txn] # q
      BY <2>2, NoneAssumption DEF OrderInv, Blockers, Txns
    <2>4. PICK a \in ToLock(p) : acctLock[a] = q \/ q \in keyShare[a]
      BY <1>1, <2>3 DEF Blockers
    <2>5. a \in Accounts
      BY <2>2 DEF ToLock
    <2> QED
      BY <2>4, <2>5 DEF OrderInv
  <1>2. ASSUME NEW p \in Reqs, NEW q \in Blockers(p)
        PROVE  \E a \in Accounts : acctLock[a] = q
    <2>1. CASE step[p] \in {"lock", "apply"}
      BY <1>1, <2>1
    <2>2. CASE step[p] \notin {"lock", "apply"}
      <3>1. Running(p) /\ Op[p] = "withdraw"
        BY <2>2 DEF Blockers, Running, Outcomes, IInv, SessInv, OnlyAccounts, OrderInv
      <3>2. sess[p].txn \in Txns /\ T(p).from \in Accounts
        BY <3>1 DEF IInv, SessInv, RowInv, RowOK, T
      <3>3. txnLock[sess[p].txn] # q
        BY <3>2, NoneAssumption DEF OrderInv, Blockers, Txns
      <3>4. acctLock[T(p).from] = q
        BY <2>2, <3>3 DEF Blockers, OrderInv
      <3> QED
        BY <3>2, <3>4
    <2> QED
      BY <2>1, <2>2
  <1>3. ASSUME NEW S \in SUBSET Reqs, NEW r \in S,
               \A q \in S : /\ Blockers(q) \cap S # {}
                            /\ \E p \in S : q \in Blockers(p)
        PROVE  FALSE
    <2> DEFINE Wanted == {a \in Accounts : \E p, q \in S : Waits(p, q, a)}
    \* A request of the cycle blocks another, so it holds an account and waits for
    \* one that is wanted, too.
    <2>1. \A q \in S : step[q] \in {"lock", "apply"}
      BY <1>2, <1>3 DEF IInv, LockInv
    <2>2. \A q \in S : \E p \in S, a \in Accounts : Waits(p, q, a)
      BY <1>1, <1>3, <2>1
    <2>3. \A p \in S : \E q \in S, a \in Accounts : Waits(p, q, a)
      BY <1>1, <1>3, <2>1
    <2>4. Wanted # {} /\ Wanted \subseteq Nat
      BY <2>3, AccountsAssumption
    <2>5. PICK m \in Wanted : \A k \in Wanted : ~(k < m)
      BY <2>4, Lowest
    <2>6. PICK p \in S, q \in S : Waits(p, q, m)
      OBVIOUS
    <2>7. PICK p2 \in S, c \in Accounts : Waits(p2, p, c)
      BY <2>2
    <2>8. c \in Wanted
      BY <2>7
    <2>9. c < m
      BY <2>6, <2>7 DEF OrderInv
    <2> QED
      BY <2>5, <2>8, <2>9
  <1> QED
    BY <1>3 DEF NoDeadlock, InCycle

\* However many deposits, withdrawals and completions of transfers run on however
\* many accounts, none of them is ever on a waits-for cycle (service.py:11-12).
THEOREM LockOrderHolds ==
  ASSUME OnlyAccounts PROVE Spec => []NoDeadlock
  <1>1. Init => OrderInv
    BY NoneAssumption DEF Init, OrderInv, Txns
  <1>2. IInv /\ OrderInv /\ [Next]_vars => OrderInv'
    BY NextOrder
  <1>3. IInv /\ OrderInv => NoDeadlock
    BY OrderHasNoCycle
  <1> QED
    BY <1>1, <1>2, <1>3, Invariance, PTL DEF Spec

-----------------------------------------------------------------------------
\* Without withdrawals, whose stale copy loses updates, the ledger is the atomic bank
\* of module Bank: the commit of a request carries out the instruction of its
\* transaction on the balances of that moment, and no other step is visible to the bank.

\* process_withdrawal is not among the operations.
NoWithdrawals == \A r \in Reqs : Op[r] # "withdraw"

\* A commit that moves money computes with the committed balances.
LEMMA PostedExactly ==
  ASSUME IInv, NEW r \in Reqs, Moving(r), Op[r] # "withdraw"
  PROVE  /\ Posted(r) = [a \in Accounts |->
                           balance[a] - (IF a = T(r).from THEN T(r).amount ELSE 0)
                                      + (IF a = T(r).to THEN T(r).credit ELSE 0)]
         /\ \A a \in Accounts : a \in {T(r).from, T(r).to} => acctLock[a] = r
         /\ \A a \in Accounts : a = T(r).from => balance[a] >= T(r).amount
  <1>1. /\ step[r] = "apply" /\ sess[r].txn \in Txns
        /\ T(r).kind \in {"deposit", "withdraw", "transfer"}
        /\ T(r).kind # "deposit" => Funded(r)
    BY MoveFacts
  <1>2. T(r) \in TxnRow /\ RowOK(T(r)) /\ T(r).amount \in Nat /\ T(r).credit \in Nat
    BY <1>1 DEF IInv, RowInv, TypeOK, T, TxnRow
  <1>3. \A a \in Accounts : a # None
    BY AccountsAssumption, NoneAssumption
  <1>4. \A a \in Accounts : a = T(r).from => a # T(r).to /\ T(r).kind # "deposit"
    BY <1>1, <1>2, <1>3 DEF RowOK
  <1>5. \A a \in Accounts : a \in {T(r).from, T(r).to} =>
          acctLock[a] = r /\ view[r][a] = balance[a]
    BY <1>1, <1>3 DEF IInv, LockInv, FreshUnderLock, Needs
  <1>6. \A a \in Accounts : a = T(r).from => balance[a] >= T(r).amount
    BY <1>1, <1>4, <1>5 DEF Funded
  <1>7. \A a \in Accounts : balance[a] \in Int
    BY DEF IInv, TypeOK
  <1>8. ASSUME NEW a \in Accounts
        PROVE  Posted(r)[a] = balance[a] - (IF a = T(r).from THEN T(r).amount ELSE 0)
                                         + (IF a = T(r).to THEN T(r).credit ELSE 0)
    BY <1>2, <1>4, <1>5, <1>7 DEF Posted, Written
  <1> QED
    BY <1>5, <1>6, <1>8 DEF Posted

\* No other step touches a balance or carries out a transaction.
LEMMA OtherSteps ==
  ASSUME [Next]_vars, \A r \in Reqs : ~Moving(r)
  PROVE  UNCHANGED <<balance, moves>>
  <1>1. CASE UNCHANGED vars
    BY <1>1 DEF vars, dbVars
  <1>2. ASSUME NEW r \in Reqs, Begin(r) PROVE UNCHANGED <<balance, moves>>
    BY <1>2 DEF Begin, Refuse, DepositStart, WithdrawStart, TransferStart, CompleteRead,
                ReviewRead, dbVars
  <1>3. ASSUME NEW r \in Reqs, Advance(r) PROVE UNCHANGED <<balance, moves>>
    BY <1>3 DEF Advance, Moving, ReferReceiver, InsertPending, Score, Reload, FlagFailed,
                Hold, IssueOtp, ReviewRecord, ReviewFlush, LockAccount, MarkFailed,
                Rollback, dbVars
  <1>4. ASSUME NEW r \in Reqs, Crash(r) \/ DeadlockAbort(r)
        PROVE  UNCHANGED <<balance, moves>>
    BY <1>4 DEF Crash, DeadlockAbort, dbVars
  <1>5. ASSUME NEW a \in Accounts, Activate(a) PROVE UNCHANGED <<balance, moves>>
    BY <1>5 DEF Activate
  <1> QED
    BY <1>1, <1>2, <1>3, <1>4, <1>5 DEF Next, Terminated

\* Every step changes a balance by exactly the amount or the credit of the
\* transaction of a request that holds the account's lock.
LEMMA ExactStep ==
  ASSUME NoWithdrawals PROVE IInv /\ [Next]_vars => ExactChange
  <1> SUFFICES ASSUME IInv, [Next]_vars PROVE ExactChange
    OBVIOUS
  <1>1. CASE \A r \in Reqs : ~Moving(r)
    BY <1>1, OtherSteps DEF ExactChange
  <1>2. ASSUME NEW r \in Reqs, Moving(r) PROVE ExactChange
    <2>1. Op[r] # "withdraw" /\ balance' = Posted(r)
      BY <1>2, MoveFacts DEF NoWithdrawals
    <2>2. T(r).amount \in Nat /\ T(r).credit \in Nat
      BY <1>2, MoveFacts DEF IInv, TypeOK, T, TxnRow
    <2>3. \A a \in Accounts : balance[a] \in Int /\ ~(a = T(r).from /\ a = T(r).to)
      <3>1. RowOK(T(r)) /\ T(r).kind \in {"deposit", "withdraw", "transfer"}
        BY <1>2, MoveFacts DEF IInv, RowInv, T
      <3> QED
        BY <3>1, AccountsAssumption, NoneAssumption DEF RowOK, IInv, TypeOK
    <2>4. SUFFICES ASSUME NEW a \in Accounts, balance'[a] # balance[a]
                   PROVE  /\ acctLock[a] = r
                          /\ \/ a = T(r).from /\ balance'[a] = balance[a] - T(r).amount
                             \/ a = T(r).to /\ balance'[a] = balance[a] + T(r).credit
      BY DEF ExactChange
    <2>5. balance'[a] = balance[a] - (IF a = T(r).from THEN T(r).amount ELSE 0)
                                   + (IF a = T(r).to THEN T(r).credit ELSE 0)
      BY <1>2, <2>1, PostedExactly
    <2>6. a \in {T(r).from, T(r).to}
      BY <2>3, <2>4, <2>5
    <2>7. acctLock[a] = r
      BY <1>2, <2>1, <2>6, PostedExactly
    <2> QED
      BY <2>2, <2>3, <2>5, <2>6, <2>7
  <1> QED
    BY <1>1, <1>2

\* No update is lost, whatever the requests, when none is a withdrawal
\* (service.py:6-10).
THEOREM NoLostUpdate ==
  ASSUME NoWithdrawals PROVE Spec => ExactPosting
  <1>1. IInv /\ [Next]_vars => [ExactChange]_vars
    BY ExactStep
  <1> QED
    BY <1>1, Invariance, PTL DEF Spec, ExactPosting

-----------------------------------------------------------------------------
\* The refinement

\* Only a transaction that exists was carried out.
MovedExists == \A t \in Txns : moves[t] > 0 => txn[t].kind # "none"

\* A step carries out at most the transaction of one request.
LEMMA MovedExistsInv == IInv /\ MovedExists /\ [Next]_vars => MovedExists'
  <1> SUFFICES ASSUME IInv, MovedExists, [Next]_vars PROVE MovedExists'
    OBVIOUS
  <1>1. \A t \in Txns : txn[t].kind # "none" => txn'[t].kind # "none"
    BY NextInv DEF Kept, SameTerms
  <1>2. CASE \A r \in Reqs : ~Moving(r)
    BY <1>1, <1>2, OtherSteps DEF MovedExists
  <1>3. ASSUME NEW r \in Reqs, Moving(r) PROVE MovedExists'
    <2>1. /\ moves' = [moves EXCEPT ![sess[r].txn] = @ + 1]
          /\ sess[r].txn \in Txns /\ txn[sess[r].txn].kind # "none"
      BY <1>3, MoveFacts DEF T
    <2> QED
      BY <1>1, <2>1 DEF MovedExists, IInv, TypeOK
  <1> QED
    BY <1>2, <1>3

\* The ledger starts as the bank does.
LEMMA InitRefines == Init => B!Init
  BY DEF Init, B!Init

\* Every step carries out one instruction or is an Instruct step of the bank.
LEMMA NextRefines ==
  ASSUME NoWithdrawals
  PROVE  IInv /\ MovedExists /\ [Next]_vars => [B!Next]_B!vars
  <1> SUFFICES ASSUME IInv, MovedExists, [Next]_vars PROVE B!Next
    OBVIOUS
  <1>1. \A t \in Txns : moves[t] > 0 => SameTerms(txn'[t], txn[t])
    BY NextInv DEF Kept, MovedExists
  <1>2. CASE \A r \in Reqs : ~Moving(r)
    BY <1>1, <1>2, OtherSteps DEF B!Next, B!Instruct, Instr, SameTerms
  <1>3. ASSUME NEW r \in Reqs, Moving(r) PROVE B!Next
    <2> DEFINE t == sess[r].txn
    <2>1. /\ t \in Txns /\ balance' = Posted(r)
          /\ moves' = [moves EXCEPT ![t] = @ + 1]
          /\ \A u \in Txns : SameTerms(txn'[u], txn[u])
      BY <1>3, MoveFacts
    <2>2. Instr' = Instr
      BY <2>1 DEF Instr, SameTerms
    <2>3. /\ Instr[t].from = T(r).from /\ Instr[t].to = T(r).to
          /\ Instr[t].amount = T(r).amount /\ Instr[t].credit = T(r).credit
      BY <2>1 DEF Instr, T
    <2>4. Op[r] # "withdraw"
      BY DEF NoWithdrawals
    <2>5. \A a \in Accounts : a = Instr[t].from => balance[a] >= Instr[t].amount
      BY <1>3, <2>3, <2>4, PostedExactly
    <2>6. balance' = [a \in Accounts |-> balance[a] - B!Debit(t, a) + B!Credit(t, a)]
      BY <1>3, <2>1, <2>3, <2>4, PostedExactly DEF B!Debit, B!Credit
    <2> QED
      BY <2>1, <2>2, <2>5, <2>6 DEF B!Next, B!Settle
  <1> QED
    BY <1>2, <1>3

\* Without withdrawals, the ledger with its sessions, row locks, crashes and
\* aborted deadlocks implements the atomic bank.
THEOREM LedgerImplementsBank ==
  ASSUME NoWithdrawals PROVE Spec => ImplementsBank
  <1>1. Init => MovedExists
    BY DEF Init, MovedExists
  <1> QED
    BY <1>1, MovedExistsInv, InitRefines, NextRefines, Invariance, PTL
    DEF Spec, ImplementsBank, B!Spec

-----------------------------------------------------------------------------
\* What is held for a reviewer.

\* A request that moves the money of its own transaction found it cleared, or never
\* had it scored; and a reviewer who locks accounts has approved.
HeldAt(r) ==
  /\ Op[r] \in {"deposit", "withdraw"} /\ step[r] \in {"lock", "apply"} =>
       txn[r].review # "FLAGGED"
  /\ Op[r] = "withdraw" /\ step[r] \in {"senderRef", "score"} =>
       sess[r].review = "Unreviewed"
  /\ Op[r] = "review" /\ step[r] \in {"lock", "apply"} => sess[r].approve

HeldInv == \A r \in Reqs : HeldAt(r)

\* A step of r alone, which flags no other transaction.
LEMMA HeldFrame ==
  ASSUME HeldInv, NEW r \in Reqs,
         \A q \in Reqs \ {r} : step'[q] = step[q] /\ sess'[q] = sess[q],
         \A q \in Reqs \ {r} : txn[q].review # "FLAGGED" => txn'[q].review # "FLAGGED",
         HeldAt(r)'
  PROVE  HeldInv'
  <1>1. ASSUME NEW q \in Reqs \ {r} PROVE HeldAt(q)'
    BY <1>1 DEF HeldInv, HeldAt
  <1> QED
    BY <1>1 DEF HeldInv

\* What a flush makes of the review.
LEMMA SavedReview ==
  ASSUME IInv, NEW r \in Reqs, sess[r].txn \in Txns, NEW st, NEW re
  PROVE  /\ Saved(r, st, re).review = Written(sess[r].review, re, T(r).review)
         /\ [Saved(r, st, re) EXCEPT !.scored = TRUE].review = Saved(r, st, re).review
         /\ WithStatus(Saved(r, st, re), "Completed").review = Saved(r, st, re).review
         /\ re = sess[r].review \/ re # "FLAGGED" =>
              (T(r).review # "FLAGGED" => Saved(r, st, re).review # "FLAGGED")
  <1>1. T(r) \in TxnRow
    BY DEF IInv, TypeOK, T
  <1> DEFINE changed == WithStatus(T(r), Written(sess[r].status, st, T(r).status))
  <1>2. /\ DOMAIN changed = DOMAIN T(r) /\ changed = [f \in DOMAIN T(r) |-> changed[f]]
        /\ "review" \in DOMAIN T(r) /\ "status" \in DOMAIN T(r) /\ "scored" \in DOMAIN T(r)
    BY <1>1 DEF WithStatus, TxnRow
  <1>3. Saved(r, st, re) = [changed EXCEPT !.review = Written(sess[r].review, re, T(r).review)]
    BY DEF Saved, WithReview
  <1> HIDE DEF changed
  <1>4. Saved(r, st, re).review = Written(sess[r].review, re, T(r).review)
    BY <1>2, <1>3
  <1>5. DOMAIN Saved(r, st, re) = DOMAIN T(r)
    BY <1>2, <1>3
  <1>6. /\ [Saved(r, st, re) EXCEPT !.scored = TRUE].review = Saved(r, st, re).review
        /\ WithStatus(Saved(r, st, re), "Completed").review = Saved(r, st, re).review
    BY <1>2, <1>5 DEF WithStatus
  <1> QED
    BY <1>4, <1>6 DEF Written

\* The end of a request, which saved no flag of another transaction.
LEMMA EndHeld ==
  ASSUME IInv, HeldInv, NEW r \in Reqs, NEW o \in Outcomes, Finish(r, o),
         \A q \in Reqs \ {r} : txn[q].review # "FLAGGED" => txn'[q].review # "FLAGGED"
  PROVE  HeldInv'
  <1>1. \A q \in Reqs \ {r} : step'[q] = step[q] /\ sess'[q] = sess[q]
    BY DEF Finish, Goto, IInv, TypeOK
  <1>2. step'[r] \notin {"lock", "apply", "senderRef", "score"}
    BY DEF Finish, Goto, Outcomes, IInv, TypeOK
  <1> QED
    BY <1>1, <1>2, HeldFrame DEF HeldAt

\* A request ends.
LEMMA EndsHeld ==
  ASSUME IInv, HeldInv, NEW r \in Reqs,
         \/ Hold(r) \/ IssueOtp(r) \/ ReviewRecord(r) \/ MarkFailed(r) \/ Rollback(r)
         \/ Moving(r) \/ Crash(r) \/ DeadlockAbort(r)
  PROVE  HeldInv'
  <1>1. PICK o \in Outcomes : Finish(r, o)
    BY DEF Hold, IssueOtp, ReviewRecord, MarkFailed, Rollback, Moving, DepositCommit,
           WithdrawCommit, CompleteCommit, ReviewCommit, Move, Crash, DeadlockAbort, Outcomes
  <1>2. CASE IssueOtp(r) \/ Rollback(r) \/ Crash(r) \/ DeadlockAbort(r)
    <2>1. txn' = txn
      BY <1>2 DEF IssueOtp, Rollback, Crash, DeadlockAbort, dbVars
    <2> QED
      BY <1>1, <2>1, EndHeld
  <1>3. CASE Hold(r)
    <2>1. \A q \in Reqs \ {r} : txn'[q] = txn[q]
      BY <1>3 DEF Hold, IInv, TypeOK, Txns
    <2> QED
      BY <1>1, <2>1, EndHeld
  <1>4. CASE ReviewRecord(r) \/ MarkFailed(r) \/ Moving(r)
    <2>1. sess[r].txn \in Txns
      <3>1. Running(r)
        BY <1>4, MoveFacts DEF ReviewRecord, MarkFailed, Running, Outcomes
      <3> QED
        BY <3>1 DEF IInv, SessInv
    <2>2. Verdict(r) # "FLAGGED"
      BY DEF Verdict
    <2>3. PICK st, re : /\ re = sess[r].review \/ re # "FLAGGED"
                        /\ \/ txn' = [txn EXCEPT ![sess[r].txn] = Saved(r, st, re)]
                           \/ txn' = [txn EXCEPT ![sess[r].txn] =
                                        WithStatus(Saved(r, st, re), "Completed")]
      BY <1>4, <2>2 DEF ReviewRecord, MarkFailed, Moving, DepositCommit, WithdrawCommit,
                        CompleteCommit, ReviewCommit, Move
    <2>4. \/ txn'[sess[r].txn] = Saved(r, st, re)
          \/ txn'[sess[r].txn] = WithStatus(Saved(r, st, re), "Completed")
      BY <2>1, <2>3 DEF IInv, TypeOK
    <2>5. T(r).review # "FLAGGED" => txn'[sess[r].txn].review # "FLAGGED"
      <3>1. CASE txn'[sess[r].txn] = Saved(r, st, re)
        BY <2>1, <2>3, <3>1, SavedReview
      <3>2. CASE txn'[sess[r].txn] = WithStatus(Saved(r, st, re), "Completed")
        BY <2>1, <2>3, <3>2, SavedReview
      <3> QED
        BY <2>4, <3>1, <3>2
    <2>6. \A t \in Txns : txn[t].review # "FLAGGED" => txn'[t].review # "FLAGGED"
      BY <2>1, <2>3, <2>5 DEF T, IInv, TypeOK
    <2> QED
      BY <1>1, <2>6, EndHeld DEF Txns
  <1> QED
    BY <1>2, <1>3, <1>4

\* A request begins.
LEMMA BeginHeld == ASSUME IInv, HeldInv, NEW r \in Reqs, Begin(r) PROVE HeldInv'
  <1>1. \A q \in Reqs \ {r} : step'[q] = step[q] /\ sess'[q] = sess[q] /\ txn'[q] = txn[q]
    BY DEF Begin, Refuse, DepositStart, WithdrawStart, TransferStart, CompleteRead,
           ReviewRead, Open, Goto, dbVars, IInv, TypeOK, Txns
  <1>2. CASE Refuse(r)
    <2>1. step'[r] = "rejected"
      BY <1>2 DEF Refuse, Goto, IInv, TypeOK
    <2> QED
      BY <1>1, <2>1, HeldFrame DEF HeldAt
  <1>3. CASE DepositStart(r)
    <2>1. Op[r] = "deposit" /\ txn'[r].review = "Unreviewed"
      BY <1>3 DEF DepositStart, Draft, IInv, TypeOK, Txns
    <2> QED
      BY <1>1, <2>1, HeldFrame DEF HeldAt
  <1>4. CASE WithdrawStart(r)
    <2>1. Op[r] = "withdraw" /\ step'[r] = "senderRef"
      BY <1>4 DEF WithdrawStart, Goto, IInv, TypeOK
    <2>2. sess'[r].review = "Unreviewed"
      BY <1>4 DEF WithdrawStart, Open, Blank, Draft, IInv, TypeOK
    <2> QED
      BY <1>1, <2>1, <2>2, HeldFrame DEF HeldAt
  <1>5. CASE TransferStart(r) \/ CompleteRead(r)
    <2>1. Op[r] \in {"initiate", "complete"}
      BY <1>5 DEF TransferStart, CompleteRead
    <2> QED
      BY <1>1, <2>1, HeldFrame DEF HeldAt
  <1>6. CASE ReviewRead(r)
    <2>1. Op[r] = "review" /\ step'[r] = "decide"
      BY <1>6 DEF ReviewRead, Goto, IInv, TypeOK
    <2> QED
      BY <1>1, <2>1, HeldFrame DEF HeldAt
  <1> QED
    BY <1>2, <1>3, <1>4, <1>5, <1>6 DEF Begin

\* Scoring lets a withdrawal go on only when it cleared its transaction.
LEMMA ScoreHeld == ASSUME IInv, HeldInv, NEW r \in Reqs, Score(r) PROVE HeldInv'
  <1>1. /\ step[r] = "score" /\ Op[r] \in {"withdraw", "initiate"} /\ sess[r].txn = r
        /\ r \in Txns
    BY OpAssumption DEF Score, Running, Outcomes, IInv, SessInv, Operations, Txns
  <1>2. /\ \A q \in Reqs \ {r} : step'[q] = step[q] /\ sess'[q] = sess[q] /\ txn'[q] = txn[q]
    BY DEF Score, Goto, IInv, TypeOK, Txns
  <1>3. CASE Op[r] = "withdraw" /\ step'[r] = "lock"
    <2>1. sess[r].review = "Unreviewed"
      BY <1>1, <1>3 DEF HeldInv, HeldAt
    <2>2. txn' = [txn EXCEPT ![r] = [Saved(r, "Pending", "CLEARED") EXCEPT !.scored = TRUE]]
      BY <1>3 DEF Score, Goto, IInv, TypeOK
    <2>3. txn'[r].review = Written(sess[r].review, "CLEARED", T(r).review)
      BY <1>1, <2>2, SavedReview DEF IInv, TypeOK
    <2> QED
      BY <1>2, <1>3, <2>1, <2>3, HeldFrame DEF HeldAt, Written
  <1>4. CASE ~(Op[r] = "withdraw" /\ step'[r] = "lock")
    <2>1. step'[r] \in {"lock", "otp", "flagged", "failing"}
      BY DEF Score, Goto, IInv, TypeOK
    <2> QED
      BY <1>1, <1>2, <1>4, <2>1, HeldFrame DEF HeldAt
  <1> QED
    BY <1>3, <1>4

\* A request goes on.
LEMMA GoesOnHeld ==
  ASSUME IInv, HeldInv, NEW r \in Reqs,
         \/ ReferReceiver(r) \/ InsertPending(r) \/ Reload(r) \/ FlagFailed(r)
         \/ ReviewFlush(r) \/ LockAccount(r)
  PROVE  HeldInv'
  <1>1. \A q \in Reqs \ {r} : step'[q] = step[q] /\ sess'[q] = sess[q] /\ txn'[q] = txn[q]
    BY DEF ReferReceiver, InsertPending, Reload, FlagFailed, ReviewFlush, LockAccount,
           Goto, dbVars, IInv, TypeOK, Txns
  <1>2. CASE ReferReceiver(r)
    <2>1. Op[r] # "withdraw" /\ step'[r] = "senderRef"
      BY <1>2 DEF ReferReceiver, Goto, IInv, TypeOK, SessInv, Running, Outcomes
    <2> QED
      BY <1>1, <2>1, HeldFrame DEF HeldAt
  <1>3. CASE InsertPending(r)
    <2>1. step[r] = "senderRef" /\ step'[r] = "score"
      BY <1>3 DEF InsertPending, Goto, IInv, TypeOK
    <2>2. sess'[r].review = sess[r].review
      BY <1>3 DEF InsertPending, IInv, TypeOK, Session
    <2> QED
      BY <1>1, <2>1, <2>2, HeldFrame DEF HeldInv, HeldAt
  <1>4. CASE Reload(r) \/ FlagFailed(r)
    <2>1. step'[r] \in {"failing", "holding", "failed"}
      BY <1>4 DEF Reload, FlagFailed, Goto, IInv, TypeOK
    <2> QED
      BY <1>1, <2>1, HeldFrame DEF HeldAt
  <1>5. CASE ReviewFlush(r)
    <2>1. /\ step[r] = "decide" /\ step'[r] = "lock" /\ sess'[r].approve
      BY <1>5 DEF ReviewFlush, Goto, IInv, TypeOK
    <2>2. Op[r] \notin {"deposit", "withdraw"}
      BY <2>1 DEF IInv, SessInv, Running, Outcomes
    <2> QED
      BY <1>1, <2>1, <2>2, HeldFrame DEF HeldAt
  <1>6. CASE LockAccount(r)
    <2>1. /\ step[r] = "lock" /\ step'[r] \in {"lock", "apply"}
          /\ txn' = txn /\ sess' = sess
      BY <1>6 DEF LockAccount, Goto, dbVars, IInv, TypeOK
    <2> QED
      BY <1>1, <2>1, HeldFrame DEF HeldInv, HeldAt
  <1> QED
    BY <1>2, <1>3, <1>4, <1>5, <1>6

\* Every step preserves what is known of the flags.
LEMMA NextHeld == IInv /\ HeldInv /\ [Next]_vars => HeldInv'
  <1> SUFFICES ASSUME IInv, HeldInv, [Next]_vars PROVE HeldInv'
    OBVIOUS
  <1>1. ASSUME NEW r \in Reqs, Begin(r) \/ Advance(r) \/ Crash(r) \/ DeadlockAbort(r)
        PROVE  HeldInv'
    BY <1>1, BeginHeld, ScoreHeld, GoesOnHeld, EndsHeld DEF Advance, Moving
  <1>2. CASE (\E a \in Accounts : Activate(a)) \/ UNCHANGED vars
    <2>1. UNCHANGED <<txn, step, sess>>
      BY <1>2 DEF Activate, vars, dbVars, sessVars
    <2> QED
      BY <2>1 DEF HeldInv, HeldAt
  <1> QED
    BY <1>1, <1>2 DEF Next, Terminated

\* The step a move of a flagged transaction is.
LEMMA FlaggedStep == IInv /\ HeldInv /\ [Next]_vars => FlaggedMoves
  <1> SUFFICES ASSUME IInv, HeldInv, [Next]_vars,
                      NEW t \in Txns, moves'[t] # moves[t], txn[t].review = "FLAGGED"
               PROVE  \E r \in Reqs :
                        /\ sess[r].txn = t /\ step[r] = "apply"
                        /\ \/ Op[r] = "review" /\ sess[r].approve
                           \/ Op[r] = "complete" /\ txn[t].kind = "transfer"
    BY DEF FlaggedMoves
  <1>1. PICK r \in Reqs : Moving(r)
    BY OtherSteps
  <1>2. /\ moves' = [moves EXCEPT ![sess[r].txn] = @ + 1] /\ step[r] = "apply" /\ Running(r)
    BY <1>1, MoveFacts
  <1>3. sess[r].txn = t
    BY <1>2 DEF IInv, TypeOK
  <1>4. CASE DepositCommit(r) \/ WithdrawCommit(r)
    <2>1. Op[r] \in {"deposit", "withdraw"}
      BY <1>4 DEF DepositCommit, WithdrawCommit
    <2>2. t = r
      BY <1>2, <1>3, <2>1 DEF IInv, SessInv
    <2> QED
      BY <1>2, <2>1, <2>2 DEF HeldInv, HeldAt
  <1>5. CASE CompleteCommit(r)
    BY <1>2, <1>3, <1>5 DEF CompleteCommit, T
  <1>6. CASE ReviewCommit(r)
    <2>1. Op[r] = "review"
      BY <1>6 DEF ReviewCommit
    <2> QED
      BY <1>2, <1>3, <2>1 DEF HeldInv, HeldAt
  <1> QED
    BY <1>1, <1>4, <1>5, <1>6 DEF Moving

\* The flags that are known hold in every reachable state.
LEMMA HeldInvariance == Spec => []HeldInv
  <1>1. Init => HeldInv
    BY DEF Init, HeldInv, HeldAt
  <1> QED
    BY <1>1, NextHeld, Invariance, PTL DEF Spec

\* Whatever the requests, the completion of a transfer is the one way past the reviewer
\* (service.py:303-470, 881-1053).
THEOREM FlaggedMoney == Spec => OnlyCompletionsSlip
  <1>1. IInv /\ HeldInv /\ [Next]_vars => [FlaggedMoves]_vars
    BY FlaggedStep
  <1> QED
    BY <1>1, Invariance, HeldInvariance, PTL DEF Spec, OnlyCompletionsSlip

\* complete_transfer is not among the operations.
NoCompletions == \A r \in Reqs : Op[r] # "complete"

\* The move of a flagged transaction is an approval.
HeldMoves ==
  \A t \in Txns : moves'[t] # moves[t] /\ txn[t].review = "FLAGGED" =>
    \E r \in Reqs : /\ Op[r] = "review" /\ sess[r].approve
                    /\ sess[r].txn = t /\ step[r] = "apply"

\* Without completions, a flagged transaction waits for the approval of a reviewer
\* (README.md:27-28): withdrawals and initiations never pay it themselves.
THEOREM FlaggedAreHeld ==
  ASSUME NoCompletions PROVE Spec => [][HeldMoves]_vars
  <1>1. IInv /\ HeldInv /\ [Next]_vars => [HeldMoves]_vars
    BY FlaggedStep DEF FlaggedMoves, NoCompletions, HeldMoves
  <1> QED
    BY <1>1, Invariance, HeldInvariance, PTL DEF Spec
=============================================================================
