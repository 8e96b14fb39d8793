------------------------------- MODULE Ledger -------------------------------
(***************************************************************************)
(* The money movement of Bankito: deposits, withdrawals, two-step          *)
(* transfers, fraud flagging and the human review of flagged transactions, *)
(* as the requests that run them interleave on PostgreSQL.                 *)
(*                                                                         *)
(* A request runs one operation in one SQLAlchemy session.  A step of the  *)
(* model is what the request does between two points where another         *)
(* request's committed work can become visible to it, or block it: an      *)
(* unlocked read, the acquisition of a row lock, a commit.                 *)
(*                                                                         *)
(* Three facts about the database layer shape the model.                   *)
(*   - A session keeps the copy of a row it loaded first (identity map,    *)
(*     expire_on_commit=False): SELECT ... FOR UPDATE locks a row but does *)
(*     not refresh a copy the session already holds.                       *)
(*   - A flush writes only the columns whose value differs from the loaded *)
(*     one, as absolute values (Written).                                  *)
(*   - Row locks last until the session commits or rolls back, and the     *)
(*     INSERT of a transaction takes FOR KEY SHARE on the accounts it      *)
(*     references, which conflicts with FOR UPDATE.                        *)
(***************************************************************************)
EXTENDS Integers, FiniteSets

CONSTANTS
  Accounts,        \* account ids: naturals, since locks are taken in id order
  Users,
  Owner,           \* the user an account belongs to
  Opening,         \* balance of every account in the initial state
  ActiveAtStart,   \* accounts that are KYC-activated in the initial state
  Amounts,         \* the amounts clients ask for (bounds the model)
  Converted(_, _, _), \* amount credited for an amount sent from one account to another
  Reqs,            \* the requests that will be issued (bounds the model)
  Op,              \* the operation each request runs
  OldTxns,         \* transfers that were initiated before the model starts
  OldTxn,          \* ... and their rows
  OldOtp,          \* the one-time code every user holds at the start
  Scores,          \* outcomes fraud scoring may have
  Fragile,         \* requests that may lose their connection or worker
  None

\* A request that creates a transaction names it.
Txns == Reqs \cup OldTxns

Operations == {"deposit", "withdraw", "initiate", "complete", "review"}
Outcomes   == {"ok", "rejected", "held", "error"}
Steps      == {"idle", "receiverRef", "senderRef", "score", "flagged", "failing",
               "failed", "holding", "otp", "decide", "lock", "apply"} \cup Outcomes

Kinds    == {"none", "deposit", "withdraw", "transfer"}
Statuses == {"Absent", "Pending", "Completed", "Failed"}
Reviews  == {"Unreviewed", "FLAGGED", "CLEARED", "CONFIRMED_FRAUD"}

\* A transaction row.  "Absent" is the object in memory before its INSERT is
\* committed; scored tells whether a TransactionRiskScore row refers to it.
TxnRow == [kind: Kinds, from: Accounts \cup {None}, to: Accounts \cup {None},
           amount: Nat, credit: Nat, status: Statuses, review: Reviews,
           scored: BOOLEAN]

Draft(kind, from, to, amount, credit) ==
  [kind |-> kind, from |-> from, to |-> to, amount |-> amount, credit |-> credit,
   status |-> "Absent", review |-> "Unreviewed", scored |-> FALSE]

Blank == Draft("none", None, None, 0, 0)

\* What a request remembers: the transaction it works on, the status and review
\* of the copy it loaded, whether the code presented matched the user's code
\* when that was read, and the reviewer's decision.
Session == [txn: Txns \cup {None}, status: Statuses, review: Reviews,
            otpOk: BOOLEAN, fraud: BOOLEAN, approve: BOOLEAN]

Closed == [txn |-> None, status |-> "Absent", review |-> "Unreviewed",
           otpOk |-> FALSE, fraud |-> FALSE, approve |-> FALSE]

ASSUME AccountsAssumption == Accounts \subseteq Nat
ASSUME OwnerAssumption    == Owner \in [Accounts -> Users]
ASSUME OpeningAssumption  == Opening \in [Accounts -> Nat]
ASSUME ActiveAssumption   == ActiveAtStart \subseteq Accounts
ASSUME AmountsAssumption  == Amounts \subseteq Nat
ASSUME ConvertedAssumption ==
         \A m \in Amounts, a, b \in Accounts : Converted(m, a, b) \in Nat
ASSUME OpAssumption       == Op \in [Reqs -> Operations]
ASSUME OldTxnAssumption ==
         /\ OldTxns \cap Reqs = {}
         /\ OldTxn \in [OldTxns -> TxnRow]
         /\ \A t \in OldTxns : /\ OldTxn[t].kind = "transfer"
                               /\ OldTxn[t].from \in Accounts
                               /\ OldTxn[t].to \in Accounts
                               /\ OldTxn[t].from # OldTxn[t].to
                               /\ OldTxn[t].status \in {"Pending", "Failed"}
ASSUME OldOtpAssumption   == OldOtp \in [Users -> Txns \cup {None}]
ASSUME ScoresAssumption   == Scores \subseteq {"clear", "flag", "fallback"}
ASSUME FragileAssumption  == Fragile \subseteq Reqs
ASSUME NoneAssumption     == None \notin Nat /\ None \notin Txns

VARIABLES
  balance,    \* committed balance of every account
  active,     \* accounts whose account_status is Active
  otp,        \* the code each user holds, named by the transfer it was issued for
  txn,        \* committed transaction rows (and drafts)
  moves,      \* history: how many times the money of a transaction was moved
  acctLock,   \* holder of the FOR UPDATE lock of an account row
  keyShare,   \* holders of FOR KEY SHARE locks of an account row
  txnLock,    \* holder of the row lock of a transaction
  step,       \* where each request is, or its outcome
  sess,       \* what each request's session remembers of its transaction
  view        \* the balances in each session's identity map

dbVars   == <<balance, active, otp, txn, moves>>
lockVars == <<acctLock, keyShare, txnLock>>
sessVars == <<step, sess, view>>
vars     == <<dbVars, lockVars, sessVars>>

-----------------------------------------------------------------------------
\* State formulae and helpers

Unloaded == [a \in Accounts |-> None]

T(r) == txn[sess[r].txn]

\* The column value after a flush of a loaded copy whose value is now mem.
Written(loaded, mem, stored) == IF mem = loaded THEN stored ELSE mem

\* A row, or a session's copy of it, with another status or review.
WithStatus(row, status) == [row EXCEPT !.status = status]
WithReview(row, review) == [row EXCEPT !.review = review]

\* The transaction row after the session of r flushed this status and review.
Saved(r, status, review) ==
  WithReview(WithStatus(T(r), Written(sess[r].status, status, T(r).status)),
             Written(sess[r].review, review, T(r).review))

\* Another request does not hold the row of the transaction r is about to write.
RowFree(r) == txnLock[sess[r].txn] \in {None, r}

\* The accounts a request locks, and those it has still to lock.
Needs(r)  == {T(r).from, T(r).to} \ {None}
ToLock(r) == {a \in Needs(r) : acctLock[a] # r}
\* (mutant) The accounts are locked in the order the query returns them.
AnyOrder(r, a) == a \in ToLock(r)

IsNext(r, a) == a \in ToLock(r) /\ \A b \in ToLock(r) : a <= b

\* (mutant) The balance is not validated again under the lock.
Trusted(r) == TRUE

\* The re-validation of the balance, on the session's copy.
Funded(r) == view[r][T(r).from] >= T(r).amount

\* (mutant) The receiver is credited the amount in the sender's currency.
PostedUnconverted(r) ==
  [a \in Accounts |->
     IF a = T(r).from THEN Written(view[r][a], view[r][a] - T(r).amount, balance[a])
     ELSE IF a = T(r).to THEN Written(view[r][a], view[r][a] + T(r).amount, balance[a])
     ELSE balance[a]]

\* The balances after r moved the money of its transaction in one commit.
Posted(r) ==
  [a \in Accounts |->
     IF a = T(r).from
     THEN Written(view[r][a], view[r][a] - T(r).amount, balance[a])
     ELSE IF a = T(r).to
     THEN Written(view[r][a], view[r][a] + T(r).credit, balance[a])
     ELSE balance[a]]

\* The requests that hold a lock r is waiting for.
Blockers(r) ==
  {q \in Reqs \ {r} :
     \/ /\ step[r] = "lock"
        /\ \E a \in ToLock(r) : IsNext(r, a) /\ (acctLock[a] = q \/ q \in keyShare[a])
     \/ step[r] = "receiverRef" /\ acctLock[T(r).to] = q
     \/ step[r] = "senderRef" /\ acctLock[T(r).from] = q
     \/ /\ step[r] \in {"score", "failing", "holding", "decide", "apply"}
        /\ txnLock[sess[r].txn] = q}

\* r is on a cycle of the waits-for graph: PostgreSQL's deadlock detector may
\* pick it as the victim.
InCycle(r) ==
  \E S \in SUBSET {q \in Reqs : Blockers(q) # {}} :
    r \in S /\ \A q \in S : /\ Blockers(q) \cap S # {}
                            /\ \E p \in S : q \in Blockers(p)

Goto(r, s) == step' = [step EXCEPT ![r] = s]

\* The session ends: its locks are released and its copies dropped.
Finish(r, outcome) ==
  /\ Goto(r, outcome)
  /\ acctLock' = [a \in Accounts |-> IF acctLock[a] = r THEN None ELSE acctLock[a]]
  /\ keyShare' = [a \in Accounts |-> keyShare[a] \ {r}]
  /\ txnLock' = [t \in Txns |-> IF txnLock[t] = r THEN None ELSE txnLock[t]]
  /\ sess' = [sess EXCEPT ![r] = Closed]
  /\ view' = [view EXCEPT ![r] = Unloaded]

\* The request opens its session on transaction t, with the copy row.
Open(r, t, row, otpOk, fraud, approve) ==
  sess' = [sess EXCEPT ![r] = [txn |-> t, status |-> row.status, review |-> row.review,
                               otpOk |-> otpOk, fraud |-> fraud, approve |-> approve]]

-----------------------------------------------------------------------------
Init ==
  /\ balance = Opening
  /\ active = ActiveAtStart
  /\ otp = OldOtp
  /\ txn = [t \in Txns |-> IF t \in OldTxns THEN OldTxn[t] ELSE Blank]
  /\ moves = [t \in Txns |-> 0]
  /\ acctLock = [a \in Accounts |-> None]
  /\ keyShare = [a \in Accounts |-> {}]
  /\ txnLock = [t \in Txns |-> None]
  /\ step = [r \in Reqs |-> "idle"]
  /\ sess = [r \in Reqs |-> Closed]
  /\ view = [r \in Reqs |-> Unloaded]

\* activate_bank_account: an executive activates a pending account.  The UPDATE
\* waits for a FOR UPDATE lock on the row.
Activate(a) ==
  /\ a \notin active
  /\ acctLock[a] = None
  /\ active' = active \cup {a}
  /\ UNCHANGED <<balance, otp, txn, moves, lockVars, sessVars>>

\* The early returns of every operation: unknown account or reference, wrong
\* security answer, unlocked pre-check that fails.
Refuse(r) ==
  /\ step[r] = "idle"
  /\ Goto(r, "rejected")
  /\ UNCHANGED <<dbVars, lockVars, sess, view>>

---------------------------------------------------------------------------
\* Creating a transaction

\* process_deposit: nothing is read before the account is locked.
DepositStart(r) ==
  /\ step[r] = "idle" /\ Op[r] = "deposit"
  /\ \E a \in Accounts, m \in Amounts :
       txn' = [txn EXCEPT ![r] = Draft("deposit", None, a, m, m)]
  /\ Open(r, r, Blank, FALSE, FALSE, FALSE)
  /\ Goto(r, "lock")
  /\ UNCHANGED <<balance, active, otp, moves, lockVars, view>>

\* process_withdrawal: the account is loaded and checked without a lock, and
\* stays in the session's identity map.
WithdrawStart(r) ==
  /\ step[r] = "idle" /\ Op[r] = "withdraw"
  /\ \E a \in active, m \in Amounts :
       /\ balance[a] >= m
       /\ txn' = [txn EXCEPT ![r] = Draft("withdraw", a, None, m, 0)]
       /\ view' = [view EXCEPT ![r][a] = balance[a]]
  /\ Open(r, r, Blank, FALSE, FALSE, FALSE)
  /\ Goto(r, "senderRef")
  /\ UNCHANGED <<balance, active, otp, moves, lockVars>>

\* initiate_transfer: both accounts active, the receiver somebody else's, the
\* sender's balance sufficient for now.
TransferStart(r) ==
  /\ step[r] = "idle" /\ Op[r] = "initiate"
  /\ \E a, b \in active, m \in Amounts :
       /\ Owner[a] # Owner[b]
       /\ balance[a] >= m
       /\ txn' = [txn EXCEPT ![r] = Draft("transfer", a, b, m, Converted(m, a, b))]
  /\ Open(r, r, Blank, FALSE, FALSE, FALSE)
  /\ Goto(r, "receiverRef")
  /\ UNCHANGED <<balance, active, otp, moves, lockVars, view>>

\* The INSERT of a transfer checks its foreign keys in the order they were
\* created (receiver, then sender), locking each account FOR KEY SHARE.
ReferReceiver(r) ==
  /\ step[r] = "receiverRef"
  /\ acctLock[T(r).to] = None
  /\ keyShare' = [keyShare EXCEPT ![T(r).to] = @ \cup {r}]
  /\ Goto(r, "senderRef")
  /\ UNCHANGED <<dbVars, acctLock, txnLock, sess, view>>

\* The last foreign key is checked and the Pending transaction committed.
InsertPending(r) ==
  /\ step[r] = "senderRef"
  /\ acctLock[T(r).from] = None
  /\ txn' = [txn EXCEPT ![r].status = "Pending"]
  /\ keyShare' = [a \in Accounts |-> keyShare[a] \ {r}]
  /\ sess' = [sess EXCEPT ![r].status = "Pending"]
  /\ Goto(r, "score")
  /\ UNCHANGED <<balance, active, otp, moves, acctLock, txnLock, view>>

---------------------------------------------------------------------------
\* Fraud scoring and flagging

\* (mutant) A flagged withdrawal carries on after handle_flagged_transaction.
ScoreUnheld(r) ==
  /\ step[r] = "score"
  /\ RowFree(r)
  /\ \E v \in {"CLEARED", "FLAGGED"} :
       /\ txn' = [txn EXCEPT ![r] = [Saved(r, "Pending", v) EXCEPT !.scored = TRUE]]
       /\ sess' = [sess EXCEPT ![r].review = v]
  /\ Goto(r, IF Op[r] = "withdraw" THEN "lock" ELSE "otp")
  /\ UNCHANGED <<balance, active, otp, moves, lockVars, view>>

\* analyze_transaction commits the risk score and the verdict on the row, whose
\* status is still Pending; when inference is unavailable it commits nothing and
\* asks for a review.  (The reload of a cleared row is left out: no later write of
\* the request depends on what it finds.)
Score(r) ==
  /\ step[r] = "score"
  /\ RowFree(r)
  /\ \/ /\ "clear" \in Scores
        /\ txn' = [txn EXCEPT ![r] = [Saved(r, "Pending", "CLEARED") EXCEPT !.scored = TRUE]]
        /\ sess' = [sess EXCEPT ![r].review = "CLEARED"]
        /\ Goto(r, IF Op[r] = "withdraw" THEN "lock" ELSE "otp")
     \/ /\ "flag" \in Scores
        /\ txn' = [txn EXCEPT ![r] = [Saved(r, "Pending", "FLAGGED") EXCEPT !.scored = TRUE]]
        /\ sess' = [sess EXCEPT ![r].review = "FLAGGED"]
        /\ Goto(r, "flagged")
     \/ /\ "fallback" \in Scores
        /\ Goto(r, "failing")
        /\ UNCHANGED <<txn, sess>>
  /\ UNCHANGED <<balance, active, otp, moves, lockVars, view>>

\* (mutant) handle_flagged_transaction marks the transaction again after a reload.
ReloadAndRepeat(r) ==
  /\ step[r] \in {"flagged", "failed"}
  /\ sess' = [sess EXCEPT ![r] = WithReview(WithStatus(@, T(r).status), T(r).review)]
  /\ Goto(r, "failing")
  /\ UNCHANGED <<dbVars, lockVars, view>>

\* session.refresh(transaction) after update_transaction_risk and after
\* mark_transaction_failed: the copy is loaded again.
Reload(r) ==
  /\ step[r] \in {"flagged", "failed"}
  /\ sess' = [sess EXCEPT ![r] = WithReview(WithStatus(@, T(r).status), T(r).review)]
  /\ Goto(r, IF step[r] = "flagged" THEN "failing" ELSE "holding")
  /\ UNCHANGED <<dbVars, lockVars, view>>

\* handle_flagged_transaction, first commit: mark_transaction_failed.
FlagFailed(r) ==
  /\ step[r] = "failing"
  /\ RowFree(r)
  /\ txn' = [txn EXCEPT ![r] = Saved(r, "Failed", sess[r].review)]
  /\ Goto(r, "failed")
  /\ UNCHANGED <<balance, active, otp, moves, lockVars, sess, view>>

\* handle_flagged_transaction, second commit: FLAGGED, and the request answers
\* that the transaction is held for review.
Hold(r) ==
  /\ step[r] = "holding"
  /\ RowFree(r)
  /\ txn' = [txn EXCEPT ![r] = Saved(r, sess[r].status, "FLAGGED")]
  /\ Finish(r, "held")
  /\ UNCHANGED <<balance, active, otp, moves>>

\* initiate_transfer issues the code; there is one per user, so it replaces the
\* code of any other pending transfer of that user.
IssueOtp(r) ==
  /\ step[r] = "otp"
  /\ otp' = [otp EXCEPT ![Owner[T(r).from]] = r]
  /\ Finish(r, "ok")
  /\ UNCHANGED <<balance, active, txn, moves>>

---------------------------------------------------------------------------
\* Moving the money of a transaction

\* complete_transfer: the transaction, which must be Pending, and the sender's
\* code are read without a lock.  The reference may be that of any Pending
\* transaction; known tells whether the client presents the code the user holds.
CompleteRead(r) ==
  /\ step[r] = "idle" /\ Op[r] = "complete"
  /\ \E t \in Txns, known \in BOOLEAN :
       /\ txn[t].status = "Pending"
       /\ Open(r, t, txn[t], known /\ otp[Owner[txn[t].from]] # None, FALSE, FALSE)
  /\ Goto(r, "lock")
  /\ UNCHANGED <<dbVars, lockVars, view>>

\* (mutant) The review loads the accounts together with the transaction.
ReviewReadEager(r) ==
  /\ step[r] = "idle" /\ Op[r] = "review"
  /\ \E t \in Txns, fraud, approve \in BOOLEAN :
       /\ txn[t].scored /\ txn[t].review = "FLAGGED"
       /\ Open(r, t, txn[t], FALSE, fraud, approve)
       /\ view' = [view EXCEPT ![r] =
                     [a \in Accounts |-> IF a \in {txn[t].from, txn[t].to}
                                         THEN balance[a] ELSE None]]
  /\ Goto(r, "decide")
  /\ UNCHANGED <<dbVars, lockVars>>

\* review_flagged_transaction: the FLAGGED transaction and its risk score are
\* read without a lock.
ReviewRead(r) ==
  /\ step[r] = "idle" /\ Op[r] = "review"
  /\ \E t \in Txns, fraud, approve \in BOOLEAN :
       /\ txn[t].scored /\ txn[t].review = "FLAGGED"
       /\ Open(r, t, txn[t], FALSE, fraud, approve)
  /\ Goto(r, "decide")
  /\ UNCHANGED <<dbVars, lockVars, view>>

Verdict(r) == IF sess[r].fraud THEN "CONFIRMED_FRAUD" ELSE "CLEARED"

\* A decision without approval is committed; confirmed fraud also fails the row.
ReviewRecord(r) ==
  /\ step[r] = "decide" /\ ~sess[r].approve
  /\ RowFree(r)
  /\ txn' = [txn EXCEPT ![sess[r].txn] =
               Saved(r, IF sess[r].fraud THEN "Failed" ELSE sess[r].status, Verdict(r))]
  /\ Finish(r, "ok")
  /\ UNCHANGED <<balance, active, otp, moves>>

\* (mutant) The review goes on to the accounts whether it approves or not.
ReviewFlushUnasked(r) ==
  /\ step[r] = "decide"
  /\ RowFree(r)
  /\ txnLock' = [txnLock EXCEPT ![sess[r].txn] = r]
  /\ Goto(r, "lock")
  /\ UNCHANGED <<dbVars, acctLock, keyShare, sess, view>>

\* An approval: the next query autoflushes the decision, which locks the row of
\* the transaction before any account is locked.
ReviewFlush(r) ==
  /\ step[r] = "decide" /\ sess[r].approve
  /\ RowFree(r)
  /\ txnLock' = [txnLock EXCEPT ![sess[r].txn] = r]
  /\ Goto(r, "lock")
  /\ UNCHANGED <<dbVars, acctLock, keyShare, sess, view>>

\* (mutant) SELECT without FOR UPDATE: nobody waits for the holder of the row.
LockAccountUnwaited(r) ==
  /\ step[r] = "lock"
  /\ \E a \in Accounts :
       /\ IsNext(r, a)
       /\ acctLock' = [acctLock EXCEPT ![a] = r]
       /\ view' = [view EXCEPT ![r][a] = IF @ = None THEN balance[a] ELSE @]
       /\ Goto(r, IF ToLock(r) = {a} THEN "apply" ELSE "lock")
  /\ UNCHANGED <<dbVars, keyShare, txnLock, sess>>

\* _lock_account / _lock_accounts: SELECT ... FOR UPDATE, in ascending id order.
\* A copy the session already holds is not refreshed.
LockAccount(r) ==
  /\ step[r] = "lock"
  /\ \E a \in Accounts :
       /\ IsNext(r, a)
       /\ acctLock[a] = None /\ keyShare[a] = {}
       /\ acctLock' = [acctLock EXCEPT ![a] = r]
       /\ view' = [view EXCEPT ![r][a] = IF @ = None THEN balance[a] ELSE @]
       /\ Goto(r, IF ToLock(r) = {a} THEN "apply" ELSE "lock")
  /\ UNCHANGED <<dbVars, keyShare, txnLock, sess>>

\* The single commit that moves the money of r's transaction.
Move(r, row) ==
  /\ RowFree(r)
  /\ balance' = Posted(r)
  /\ txn' = [txn EXCEPT ![sess[r].txn] = row]
  /\ moves' = [moves EXCEPT ![sess[r].txn] = @ + 1]
  /\ Finish(r, "ok")

DepositCommit(r) ==
  /\ step[r] = "apply" /\ Op[r] = "deposit"
  /\ T(r).to \in active
  /\ Move(r, Saved(r, "Completed", sess[r].review))
  /\ UNCHANGED <<active, otp>>

WithdrawCommit(r) ==
  /\ step[r] = "apply" /\ Op[r] = "withdraw"
  /\ T(r).from \in active /\ Funded(r)
  /\ Move(r, Saved(r, "Completed", sess[r].review))
  /\ UNCHANGED <<active, otp>>

\* complete_transfer consumes the sender's code in the same commit.
CompleteCommit(r) ==
  /\ step[r] = "apply" /\ Op[r] = "complete"
  /\ T(r).kind = "transfer" /\ sess[r].otpOk
  /\ {T(r).from, T(r).to} \subseteq active /\ Funded(r)
  /\ Move(r, Saved(r, "Completed", sess[r].review))
  /\ otp' = [otp EXCEPT ![Owner[T(r).from]] = None]
  /\ UNCHANGED active

\* _complete_approved_transfer / _complete_approved_withdrawal.  A confirmed
\* fraud was flushed as Failed, so Completed is then always a change.
ReviewCommit(r) ==
  /\ step[r] = "apply" /\ Op[r] = "review"
  /\ Funded(r)
  /\ LET row == Saved(r, "Completed", Verdict(r))
     IN Move(r, IF sess[r].fraud THEN WithStatus(row, "Completed") ELSE row)
  /\ UNCHANGED <<active, otp>>

\* complete_transfer and process_withdrawal mark a transaction that fails the
\* checks under the lock.  A code may have expired at any time, and the only
\* transaction that is not a transfer has no receiver: INVALID_ACCOUNT.
MarkFailed(r) ==
  /\ step[r] = "apply"
  /\ \/ Op[r] = "complete"
     \/ Op[r] = "withdraw" /\ ~(T(r).from \in active /\ Funded(r))
  /\ RowFree(r)
  /\ txn' = [txn EXCEPT ![sess[r].txn] = Saved(r, "Failed", sess[r].review)]
  /\ Finish(r, "rejected")
  /\ UNCHANGED <<balance, active, otp, moves>>

\* A deposit into an inactive account, or an approval that is not funded, rolls
\* back.  (The review then tries to save Failed, but reads a copy the rollback
\* expired, which raises: nothing is written.)
Rollback(r) ==
  /\ step[r] = "apply"
  /\ \/ Op[r] = "deposit" /\ T(r).to \notin active
     \/ Op[r] = "review" /\ ~Funded(r)
  /\ Finish(r, "rejected")
  /\ UNCHANGED dbVars

---------------------------------------------------------------------------
Running(r) == step[r] \notin {"idle"} \cup Outcomes

\* The worker or its connection is lost: the database rolls back.
Crash(r) ==
  /\ r \in Fragile /\ Running(r)
  /\ Finish(r, "error")
  /\ UNCHANGED dbVars

\* PostgreSQL aborts a statement of a request that is on a waits-for cycle.
\* (complete_transfer then tries to mark the transaction, on a copy the rollback
\* expired, which raises: nothing is written.)
DeadlockAbort(r) ==
  /\ InCycle(r)
  /\ Finish(r, "error")
  /\ UNCHANGED dbVars

\* What a request does by itself once it has begun.
Advance(r) ==
  \/ ReferReceiver(r) \/ InsertPending(r)
  \/ Score(r) \/ Reload(r) \/ FlagFailed(r) \/ Hold(r) \/ IssueOtp(r)
  \/ ReviewRecord(r) \/ ReviewFlush(r) \/ LockAccount(r)
  \/ DepositCommit(r) \/ WithdrawCommit(r) \/ CompleteCommit(r) \/ ReviewCommit(r)
  \/ MarkFailed(r) \/ Rollback(r)

Begin(r) ==
  \/ Refuse(r) \/ DepositStart(r) \/ WithdrawStart(r) \/ TransferStart(r)
  \/ CompleteRead(r) \/ ReviewRead(r)

\* Every request was answered: the bounded workload is over.
Terminated ==
  /\ \A r \in Reqs : step[r] \in Outcomes
  /\ UNCHANGED vars

Next ==
  \/ \E r \in Reqs : Begin(r) \/ Advance(r) \/ Crash(r) \/ DeadlockAbort(r)
  \/ \E a \in Accounts : Activate(a)
  \/ Terminated

Spec == Init /\ [][Next]_vars

\* A request that has begun keeps running (uvicorn schedules its coroutine, and
\* a lock it waits for is granted once free), and the deadlock detector runs.
Fairness == \A r \in Reqs : WF_vars(Advance(r)) /\ WF_vars(DeadlockAbort(r))

FairSpec == Spec /\ Fairness

-----------------------------------------------------------------------------
\* Properties

\* Every variable has its type.
TypeOK ==
  /\ balance \in [Accounts -> Int]
  /\ active \subseteq Accounts
  /\ otp \in [Users -> Txns \cup {None}]
  /\ txn \in [Txns -> TxnRow]
  /\ moves \in [Txns -> Nat]
  /\ acctLock \in [Accounts -> Reqs \cup {None}]
  /\ keyShare \in [Accounts -> SUBSET Reqs]
  /\ txnLock \in [Txns -> Reqs \cup {None}]
  /\ step \in [Reqs -> Steps]
  /\ sess \in [Reqs -> Session]
  /\ view \in [Reqs -> [Accounts -> Int \cup {None}]]

\* The shape of transaction rows: the accounts a kind refers to, and what cannot
\* have happened yet to a transaction nobody created or to a deposit.
RowOK(row) ==
  /\ row.kind = "none" => row.status = "Absent" /\ ~row.scored
  /\ row.kind = "deposit" => /\ row.from = None /\ row.to \in Accounts
                             /\ row.status # "Pending" /\ ~row.scored
  /\ row.kind = "withdraw" => row.from \in Accounts /\ row.to = None
  /\ row.kind = "transfer" =>
       row.from \in Accounts /\ row.to \in Accounts /\ row.from # row.to

RowInv ==
  \A t \in Txns : /\ RowOK(txn[t])
                  /\ t \in Reqs /\ step[t] = "idle" => txn[t].kind = "none"

\* The transaction of a running request exists, and is its own if it creates one.
SessInv ==
  \A r \in Reqs : Running(r) =>
    /\ sess[r].txn \in Txns
    /\ Op[r] \in {"deposit", "withdraw", "initiate"} => sess[r].txn = r
    /\ Op[r] = "deposit" => T(r).kind = "deposit" /\ step[r] \in {"lock", "apply"}
    /\ Op[r] = "withdraw" =>
         T(r).kind = "withdraw" /\ step[r] \notin {"receiverRef", "otp", "decide"}
    /\ Op[r] = "initiate" =>
         T(r).kind = "transfer" /\ step[r] \notin {"lock", "apply", "decide"}
    /\ Op[r] \in {"complete", "review"} =>
         T(r).kind \in {"withdraw", "transfer"} /\ step[r] \in {"decide", "lock", "apply"}

\* Only a request that moves money holds account locks, on accounts of its
\* transaction; before it applies it holds them all.
LockInv ==
  \A r \in Reqs :
    /\ \A a \in Accounts : acctLock[a] = r =>
         step[r] \in {"lock", "apply"} /\ a \in Needs(r)
    /\ step[r] = "apply" => \A a \in Needs(r) : acctLock[a] = r

\* Identity maps: a locked account is loaded, a loaded balance is not negative,
\* and only withdrawals load an account they do not hold.
ViewInv ==
  \A r \in Reqs, a \in Accounts :
    /\ acctLock[a] = r => view[r][a] # None
    /\ view[r][a] # None => view[r][a] >= 0
    /\ view[r][a] # None /\ Op[r] # "withdraw" => acctLock[a] = r

\* No account is overdrawn, whatever the requests and wherever they are
\* interrupted: every debit is checked on the very value it is subtracted from.
NonNegative == \A a \in Accounts : balance[a] >= 0

\* The copy of an account that an operation computes with is the committed row
\* for as long as it holds the lock.  Withdrawals are excepted: they load their
\* copy before the lock (service.py:486-492) and keep it.
FreshUnderLock ==
  \A r \in Reqs, a \in Accounts :
    acctLock[a] = r /\ Op[r] # "withdraw" => view[r][a] = balance[a]

\* The inductive invariant behind the safety theorems.
IInv == TypeOK /\ RowInv /\ SessInv /\ LockInv /\ ViewInv /\ NonNegative /\ FreshUnderLock

\* No update is lost: a balance changes only in the commit of a request that
\* holds the account's lock, and by exactly the amount or the credit of that
\* request's transaction ("lost deposits", service.py:9-10).
ExactChange ==
  \A a \in Accounts : balance'[a] # balance[a] =>
    \E r \in Reqs :
      /\ acctLock[a] = r
      /\ \/ a = T(r).from /\ balance'[a] = balance[a] - T(r).amount
         \/ a = T(r).to /\ balance'[a] = balance[a] + T(r).credit
ExactPosting == [][ExactChange]_vars

\* The accounts' lock order leaves no waits-for cycle ("concurrent transfers
\* cannot deadlock", service.py:11-12).
NoDeadlock == \A r \in Reqs : ~InCycle(r)

\* The money of a transaction moves at most once: what complete_transfer's
\* "every precondition is re-validated under the lock" (service.py:303-304) and
\* the FLAGGED check of a review are for.
MovedOnce == \A t \in Txns : moves[t] <= 1

\* The money of a FLAGGED transaction is moved by a reviewer who approved ("flagged
\* transactions are held for human review", README.md:27-28), or by the completion
\* of a transfer, whose two steps do not look at the flag (service.py:303-309): the
\* only way past the reviewer, whatever overlaps, crashes or is aborted.
FlaggedMoves ==
  \A t \in Txns : moves'[t] # moves[t] /\ txn[t].review = "FLAGGED" =>
    \E r \in Reqs :
      /\ sess[r].txn = t /\ step[r] = "apply"
      /\ \/ Op[r] = "review" /\ sess[r].approve
         \/ Op[r] = "complete" /\ txn[t].kind = "transfer"
OnlyCompletionsSlip == [][FlaggedMoves]_vars

\* The abstract bank, with the instruction of a transaction read off its row.
Instr == [t \in Txns |-> [from |-> txn[t].from, to |-> txn[t].to,
                          amount |-> txn[t].amount, credit |-> txn[t].credit]]
B == INSTANCE Bank WITH instr <- Instr

\* With its locks and sessions, the ledger is an atomic bank: every commit that
\* moves money carries out one instruction, on the balances of that moment.
ImplementsBank == B!Spec

\* A request that has begun is answered, deadlocks and lost connections included.
Answered == \A r \in Reqs : Running(r) ~> step[r] \in Outcomes
=============================================================================
