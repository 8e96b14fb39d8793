---------------------------- MODULE VirtualCards ----------------------------
(***************************************************************************)
(* Virtual cards: issue, activation, block, soft deletion and the top-up   *)
(* that moves money out of the linked bank account.  Every request loads   *)
(* what it needs, decides on that copy and commits later.  A top-up locks  *)
(* the account row in between, but the lock does not refresh the copy; the *)
(* card row is never locked.  A commit writes the changed columns only, as *)
(* the values computed from the copy.                                      *)
(***************************************************************************)
EXTENDS Integers, FiniteSets, FiniteSetsExt

CONSTANTS
  Accounts,  \* active bank accounts
  Opening,   \* their balances at the start
  Cards,     \* the cards that may be issued (bounds the model)
  Account,   \* the account a card is tied to
  Reqs,      \* the requests that will arrive (bounds the model)
  Op,        \* what each one asks for
  Target,    \* the card it names
  Amount,    \* the amount of a top-up
  Prior,     \* the requests that have ended when it is sent
  Fragile,   \* requests whose worker or connection may be lost
  Busy,      \* accounts that other operations use too
  Outside,   \* net amounts they may have moved (bounds the model)
  None       \* no holder of a lock

Ops == {"top_up", "activate", "block", "delete"}

ASSUME AccountAssumption ==
  /\ Opening \in [Accounts -> Nat] /\ Account \in [Cards -> Accounts]
  /\ IsFiniteSet(Cards)
ASSUME RequestAssumption ==
  /\ Op \in [Reqs -> Ops] /\ Target \in [Reqs -> Cards]
  /\ Amount \in [Reqs -> Nat \ {0}] /\ Prior \in [Reqs -> SUBSET Reqs]
ASSUME OutsideAssumption == 0 \in Outside /\ Outside \subseteq Int
ASSUME NoneAssumption == None \notin Reqs

VARIABLES
  balance,  \* balance column of each account
  lock,     \* request that holds the row lock of each account
  card,     \* row of each card
  paid,     \* sum of the Completed top-up transactions of each card
  outside,  \* what other operations have moved in or out of each account
  step,     \* where each request is
  copy      \* the card row and account balance each request has loaded

vars == <<balance, lock, card, paid, outside, step, copy>>

Statuses == {"absent", "pending", "active", "blocked", "inactive"}
Card     == [status : Statuses, isActive : BOOLEAN, available : Int, topped : Int]
Steps    == {"idle", "loaded", "locked", "done", "refused", "lost"}

Ended(r) == step[r] \in {"done", "refused", "lost"}
From(r)  == Account[Target[r]]
Loaded(r) == copy[r].card

Absent == [status |-> "absent", isActive |-> FALSE, available |-> 0, topped |-> 0]
Issued == [status |-> "pending", isActive |-> TRUE, available |-> 0, topped |-> 0]

-----------------------------------------------------------------------------
Init ==
  /\ balance = Opening
  /\ lock = [a \in Accounts |-> None]
  /\ card = [c \in Cards |-> Absent]
  /\ paid = [c \in Cards |-> 0]
  /\ outside = [a \in Accounts |-> 0]
  /\ step = [r \in Reqs |-> "idle"]
  /\ copy = [r \in Reqs |-> [card |-> Absent, balance |-> 0]]

Release(r) == lock' = [a \in Accounts |-> IF lock[a] = r THEN None ELSE lock[a]]

End(r, how) == step' = [step EXCEPT ![r] = how] /\ Release(r)

\* create_virtual_card.  Its INSERT takes a key-share lock on the account row.
Create(c) ==
  /\ card[c].status = "absent"
  /\ lock[Account[c]] = None
  /\ card' = [card EXCEPT ![c] = Issued]
  /\ UNCHANGED <<balance, lock, paid, outside, step, copy>>

\* The first query of a request: the card with its account, in one snapshot.
Load(r) ==
  /\ step[r] = "idle"
  /\ \A q \in Prior[r] : Ended(q)
  /\ card[Target[r]].status # "absent"
  /\ step' = [step EXCEPT ![r] = "loaded"]
  /\ copy' = [copy EXCEPT ![r] = [card |-> card[Target[r]], balance |-> balance[From(r)]]]
  /\ UNCHANGED <<balance, lock, card, paid, outside>>

\* (mutant) A top-up looks at is_active instead of the status.
AllowedIfIssued(r) ==
  CASE Op[r] = "top_up"   -> Loaded(r).isActive
    [] Op[r] = "activate" -> Loaded(r).status # "active"
    [] Op[r] = "block"    -> Loaded(r).status # "blocked"
    [] Op[r] = "delete"   -> Loaded(r).available <= 0

\* What each operation requires of the card row it has loaded.
Allowed(r) ==
  CASE Op[r] = "top_up"   -> Loaded(r).status = "active"
    [] Op[r] = "activate" -> Loaded(r).status # "active"
    [] Op[r] = "block"    -> Loaded(r).status # "blocked"
    [] Op[r] = "delete"   -> Loaded(r).available <= 0

\* (mutant) The balance is not checked under the lock.
AlwaysFunded(r) == Op[r] = "top_up"

\* The balance check of a top-up, on the copy loaded before the lock.
Funded(r) == copy[r].balance >= Amount[r]

\* SELECT ... FOR UPDATE on the account: waits, and leaves the copy as it is.
Lock(r) ==
  /\ step[r] = "loaded" /\ Op[r] = "top_up" /\ Allowed(r)
  /\ lock[From(r)] = None
  /\ lock' = [lock EXCEPT ![From(r)] = r]
  /\ step' = [step EXCEPT ![r] = "locked"]
  /\ UNCHANGED <<balance, card, paid, outside, copy>>

\* The card row after a top-up: two columns from the copy.
Refilled(r) ==
  [status |-> card[Target[r]].status, isActive |-> card[Target[r]].isActive,
   available |-> Loaded(r).available + Amount[r],
   topped |-> Loaded(r).topped + Amount[r]]

\* (mutant) The card is credited before the funds are checked.
RefuseAfterCredit(r) ==
  /\ \/ step[r] = "loaded" /\ ~Allowed(r) /\ UNCHANGED card
     \/ /\ step[r] = "locked" /\ ~Funded(r)
        /\ card' = [card EXCEPT ![Target[r]] = Refilled(r)]
  /\ End(r, "refused")
  /\ UNCHANGED <<balance, paid, outside, copy>>

\* A check fails: the session is closed without a commit.
Refuse(r) ==
  /\ \/ step[r] = "loaded" /\ ~Allowed(r)
     \/ step[r] = "locked" /\ ~Funded(r)
  /\ End(r, "refused")
  /\ UNCHANGED <<balance, card, paid, outside, copy>>

\* The commit of top_up_virtual_card: transaction row, account and card.
TopUp(r) ==
  /\ step[r] = "locked" /\ Funded(r)
  /\ balance' = [balance EXCEPT ![From(r)] = copy[r].balance - Amount[r]]
  /\ card' = [card EXCEPT ![Target[r]] = Refilled(r)]
  /\ paid' = [paid EXCEPT ![Target[r]] = @ + Amount[r]]
  /\ End(r, "done")
  /\ UNCHANGED <<outside, copy>>

\* The commit of activate_virtual_card.
Activate(r) ==
  /\ step[r] = "loaded" /\ Op[r] = "activate" /\ Allowed(r)
  /\ card' = [card EXCEPT ![Target[r]].status = "active"]
  /\ End(r, "done")
  /\ UNCHANGED <<balance, paid, outside, copy>>

\* (mutant) The whole loaded row is written back.
BlockWholeRow(r) ==
  /\ step[r] = "loaded" /\ Op[r] = "block" /\ Allowed(r)
  /\ card' = [card EXCEPT ![Target[r]] = [Loaded(r) EXCEPT !.status = "blocked"]]
  /\ End(r, "done")
  /\ UNCHANGED <<balance, paid, outside, copy>>

\* The commit of block_virtual_card.
Block(r) ==
  /\ step[r] = "loaded" /\ Op[r] = "block" /\ Allowed(r)
  /\ card' = [card EXCEPT ![Target[r]].status = "blocked"]
  /\ End(r, "done")
  /\ UNCHANGED <<balance, paid, outside, copy>>

\* The commit of delete_virtual_card: a soft deletion.
Delete(r) ==
  /\ step[r] = "loaded" /\ Op[r] = "delete" /\ Allowed(r)
  /\ card' = [card EXCEPT ![Target[r]] =
                [status |-> "inactive", isActive |-> FALSE,
                 available |-> @.available, topped |-> @.topped]]
  /\ End(r, "done")
  /\ UNCHANGED <<balance, paid, outside, copy>>

\* The worker or connection is lost: PostgreSQL rolls back.
Lose(r) ==
  /\ r \in Fragile /\ step[r] \in {"loaded", "locked"}
  /\ End(r, "lost")
  /\ UNCHANGED <<balance, card, paid, outside, copy>>

\* Another operation on the account (module Ledger) commits.
Elsewhere(a) ==
  /\ a \in Busy /\ lock[a] = None
  /\ \E n \in Outside :
       /\ outside' = [outside EXCEPT ![a] = n]
       /\ balance[a] + n - outside[a] >= 0
       /\ balance' = [balance EXCEPT ![a] = @ + n - outside[a]]
  /\ UNCHANGED <<lock, card, paid, step, copy>>

Terminated ==
  /\ \A r \in Reqs : Ended(r)
  /\ UNCHANGED vars

Next ==
  \/ \E r \in Reqs :
       \/ Load(r) \/ Lock(r) \/ Refuse(r) \/ TopUp(r) \/ Activate(r)
       \/ Block(r) \/ Delete(r) \/ Lose(r)
  \/ \E c \in Cards : Create(c)
  \/ \E a \in Accounts : Elsewhere(a)
  \/ Terminated

Spec == Init /\ [][Next]_vars

-----------------------------------------------------------------------------
\* Properties

\* Every variable has its type.
TypeOK ==
  /\ balance \in [Accounts -> Int]
  /\ lock \in [Accounts -> Reqs \cup {None}]
  /\ card \in [Cards -> Card]
  /\ paid \in [Cards -> Int]
  /\ outside \in [Accounts -> Outside]
  /\ step \in [Reqs -> Steps]
  /\ copy \in [Reqs -> [card : Card, balance : Int]]

\* No top-up, however stale its copy, overdraws the account it pays from.
NonNegative == \A a \in Accounts : balance[a] >= 0

\* A card never holds more than its Completed top-up transactions have paid, nor
\* anything but what it was topped up with: racing top-ups only lose money.
NeverMoreThanPaid ==
  \A c \in Cards : card[c].available = card[c].topped /\ card[c].available <= paid[c]

\* A card that was never activated has never been topped up, whatever block,
\* delete and activate do to it meanwhile (virtual_card/service.py:180).
PendingIsEmpty ==
  \A c \in Cards : card[c].status \in {"absent", "pending"} => card[c] \in {Absent, Issued}

\* What a loaded copy has in common with the rows.
CopiesInv ==
  \A r \in Reqs :
    /\ Loaded(r).available = Loaded(r).topped
    /\ Loaded(r).available <= paid[Target[r]]
    /\ Loaded(r).status # "absent" => card[Target[r]].status # "absent"
    /\ Loaded(r).status = "active" => card[Target[r]].status # "pending"
    /\ step[r] \in {"loaded", "locked"} => Loaded(r).status # "absent"
    /\ step[r] = "locked" => Op[r] = "top_up" /\ Loaded(r).status = "active"

PaidInv == \A c \in Cards : paid[c] >= 0

\* Only the top-up that has locked the account holds its lock.
LocksInv ==
  \A r \in Reqs, a \in Accounts : lock[a] = r <=> step[r] = "locked" /\ a = From(r)

\* The inductive invariant behind the theorems.
IInv == TypeOK /\ NonNegative /\ NeverMoreThanPaid /\ PendingIsEmpty
        /\ CopiesInv /\ PaidInv /\ LocksInv

\* The top-ups of an account come one after the other, and nothing else uses it.
Unhurried(a) ==
  /\ a \notin Busy
  /\ \A q, r \in Reqs :
       /\ Op[q] = "top_up" /\ Op[r] = "top_up" /\ From(q) = a /\ From(r) = a
       => q = r \/ q \in Prior[r] \/ r \in Prior[q]

\* Every top-up of an unhurried account is debited from it and credited to the
\* card exactly, as its transaction says, whatever is done to the status of the
\* card meanwhile ("Every balance mutation uses SELECT ... FOR UPDATE ...,
\* re-validates under the lock and commits atomically", README.md:19-22).
Conserved ==
  \A a \in Accounts : Unhurried(a) =>
    LET Tied == {c \in Cards : Account[c] = a}
    IN /\ \A c \in Tied : card[c].available = paid[c]
       /\ balance[a] = Opening[a] - MapThenSumSet(LAMBDA c : paid[c], Tied)
=============================================================================
