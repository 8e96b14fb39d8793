------------------------- MODULE VirtualCardsProofs -------------------------
(***************************************************************************)
(* What holds of cards and their accounts for every set of cards, requests *)
(* and amounts, whatever the interleaving and whoever is lost.             *)
(***************************************************************************)
EXTENDS VirtualCards, FiniteSetTheorems, WellFoundedInduction, TLAPS

\* The initial state satisfies the invariant.
LEMMA InitInv == Init => IInv
  <1> SUFFICES ASSUME Init PROVE IInv
    OBVIOUS
  <1> USE DEF Init
  <1>1. Absent \in Card
    BY DEF Absent, Card, Statuses
  <1>2. TypeOK
    BY <1>1, AccountAssumption, OutsideAssumption DEF TypeOK, Steps
  <1>3. NonNegative
    BY AccountAssumption DEF NonNegative
  <1>4. NeverMoreThanPaid /\ PendingIsEmpty /\ PaidInv
    BY DEF NeverMoreThanPaid, PendingIsEmpty, PaidInv, Absent
  <1>5. CopiesInv
    BY RequestAssumption DEF CopiesInv, Loaded, Absent
  <1>6. LocksInv
    BY NoneAssumption DEF LocksInv
  <1> QED
    BY <1>2, <1>3, <1>4, <1>5, <1>6 DEF IInv

\* The card and the account of a request exist.
LEMMA Targets == ASSUME NEW r \in Reqs PROVE Target[r] \in Cards /\ From(r) \in Accounts
  BY AccountAssumption, RequestAssumption DEF From

\* A request that ends leaves no lock behind and touches no other request.
LEMMA EndKeepsLocks ==
  ASSUME TypeOK, LocksInv, NEW r \in Reqs, NEW how \in {"done", "refused", "lost"}, End(r, how)
  PROVE  /\ LocksInv'
         /\ lock' \in [Accounts -> Reqs \cup {None}]
         /\ step' \in [Reqs -> Steps]
         /\ step'[r] = how /\ \A q \in Reqs \ {r} : step'[q] = step[q]
  <1>1. step' \in [Reqs -> Steps] /\ step'[r] = how /\ \A q \in Reqs \ {r} : step'[q] = step[q]
    BY DEF End, TypeOK, Steps
  <1>2. lock' \in [Accounts -> Reqs \cup {None}]
    BY DEF End, Release, TypeOK
  <1>3. \A a \in Accounts : lock'[a] = IF lock[a] = r THEN None ELSE lock[a]
    BY DEF End, Release
  <1>4. ASSUME NEW q \in Reqs, NEW a \in Accounts
        PROVE  lock'[a] = q <=> step'[q] = "locked" /\ a = From(q)
    <2>1. CASE q = r
      BY <2>1, <1>1, <1>3, NoneAssumption
    <2>2. CASE q # r
      BY <2>2, <1>1, <1>3, NoneAssumption DEF LocksInv
    <2> QED
      BY <2>1, <2>2
  <1>5. \A q \in Reqs : From(q)' = From(q)
    BY DEF From
  <1> QED
    BY <1>1, <1>2, <1>4, <1>5 DEF LocksInv

\* create_virtual_card.
LEMMA CreateInv == ASSUME IInv, NEW c \in Cards, Create(c) PROVE IInv'
  <1> USE DEF Create
  <1>1. Issued \in Card /\ Issued.status = "pending" /\ Issued.available = 0 /\ Issued.topped = 0
    BY DEF Issued, Card, Statuses
  <1>2. card' \in [Cards -> Card] /\ card'[c] = Issued /\ \A d \in Cards \ {c} : card'[d] = card[d]
    BY <1>1 DEF IInv, TypeOK
  <1>3. TypeOK' /\ NonNegative' /\ PaidInv'
    BY <1>2 DEF IInv, TypeOK, NonNegative, PaidInv
  <1>4. NeverMoreThanPaid'
    BY <1>1, <1>2 DEF IInv, TypeOK, PaidInv, NeverMoreThanPaid
  <1>5. PendingIsEmpty'
    BY <1>2 DEF IInv, PendingIsEmpty
  <1>6. CopiesInv'
    BY <1>1, <1>2, Targets DEF IInv, CopiesInv, Loaded
  <1>7. LocksInv'
    BY DEF IInv, LocksInv, From
  <1> QED
    BY <1>3, <1>4, <1>5, <1>6, <1>7 DEF IInv

\* The first query of a request: its copy is the row.
LEMMA LoadInv == ASSUME IInv, NEW r \in Reqs, Load(r) PROVE IInv'
  <1> USE DEF Load
  <1>1. Target[r] \in Cards /\ From(r) \in Accounts
    BY Targets
  <1>2. /\ copy'[r].card = card[Target[r]]
        /\ \A q \in Reqs \ {r} : copy'[q] = copy[q]
        /\ copy' \in [Reqs -> [card : Card, balance : Int]]
    BY <1>1 DEF IInv, TypeOK
  <1>3. /\ step' \in [Reqs -> Steps] /\ step'[r] = "loaded"
        /\ \A q \in Reqs \ {r} : step'[q] = step[q]
    BY DEF IInv, TypeOK, Steps
  <1>4. TypeOK' /\ NonNegative' /\ NeverMoreThanPaid' /\ PendingIsEmpty' /\ PaidInv'
    BY <1>2, <1>3 DEF IInv, TypeOK, NonNegative, NeverMoreThanPaid, PendingIsEmpty, PaidInv
  <1>5. CopiesInv'
    BY <1>1, <1>2, <1>3 DEF IInv, CopiesInv, NeverMoreThanPaid, Loaded
  <1>6. LocksInv'
    BY <1>3 DEF IInv, LocksInv, From
  <1> QED
    BY <1>4, <1>5, <1>6 DEF IInv

\* SELECT ... FOR UPDATE: one holder per account.
LEMMA LockInv == ASSUME IInv, NEW r \in Reqs, Lock(r) PROVE IInv'
  <1> USE DEF Lock
  <1>1. Target[r] \in Cards /\ From(r) \in Accounts
    BY Targets
  <1>2. /\ step' \in [Reqs -> Steps] /\ step'[r] = "locked"
        /\ \A q \in Reqs \ {r} : step'[q] = step[q]
    BY DEF IInv, TypeOK, Steps
  <1>3. /\ lock' \in [Accounts -> Reqs \cup {None}] /\ lock'[From(r)] = r
        /\ \A a \in Accounts \ {From(r)} : lock'[a] = lock[a]
    BY <1>1 DEF IInv, TypeOK
  <1>4. TypeOK' /\ NonNegative' /\ NeverMoreThanPaid' /\ PendingIsEmpty' /\ PaidInv'
    BY <1>2, <1>3 DEF IInv, TypeOK, NonNegative, NeverMoreThanPaid, PendingIsEmpty, PaidInv
  <1>5. CopiesInv'
    BY <1>2 DEF IInv, CopiesInv, Loaded, Allowed
  <1>6. LocksInv'
    BY <1>1, <1>2, <1>3, NoneAssumption DEF IInv, LocksInv, From
  <1> QED
    BY <1>4, <1>5, <1>6 DEF IInv

\* A request that ends without a commit.
LEMMA EndInv ==
  ASSUME IInv, NEW r \in Reqs, NEW how \in {"refused", "lost"}, End(r, how),
         UNCHANGED <<balance, card, paid, outside, copy>>
  PROVE  IInv'
  <1>1. /\ LocksInv' /\ lock' \in [Accounts -> Reqs \cup {None}] /\ step' \in [Reqs -> Steps]
        /\ step'[r] = how /\ \A q \in Reqs \ {r} : step'[q] = step[q]
    BY EndKeepsLocks DEF IInv
  <1>2. TypeOK' /\ NonNegative' /\ NeverMoreThanPaid' /\ PendingIsEmpty' /\ PaidInv'
    BY <1>1 DEF IInv, TypeOK, NonNegative, NeverMoreThanPaid, PendingIsEmpty, PaidInv
  <1>3. CopiesInv'
    BY <1>1 DEF IInv, CopiesInv, Loaded
  <1> QED
    BY <1>1, <1>2, <1>3 DEF IInv

\* A commit that changes the status of the target and nothing about its money.
LEMMA StatusInv ==
  ASSUME IInv, NEW r \in Reqs, End(r, "done"), step[r] = "loaded",
         NEW new \in Card,
         new.status \in {"active", "blocked", "inactive"},
         new.available = card[Target[r]].available, new.topped = card[Target[r]].topped,
         card' = [card EXCEPT ![Target[r]] = new],
         UNCHANGED <<balance, paid, outside, copy>>
  PROVE  IInv'
  <1>1. Target[r] \in Cards
    BY Targets
  <1>2. /\ LocksInv' /\ lock' \in [Accounts -> Reqs \cup {None}] /\ step' \in [Reqs -> Steps]
        /\ step'[r] = "done" /\ \A q \in Reqs \ {r} : step'[q] = step[q]
    BY EndKeepsLocks DEF IInv
  <1>3. /\ card' \in [Cards -> Card] /\ card'[Target[r]] = new
        /\ \A c \in Cards \ {Target[r]} : card'[c] = card[c]
    BY <1>1 DEF IInv, TypeOK
  <1>4. TypeOK' /\ NonNegative' /\ PaidInv'
    BY <1>2, <1>3 DEF IInv, TypeOK, NonNegative, PaidInv
  <1>5. NeverMoreThanPaid' /\ PendingIsEmpty'
    BY <1>1, <1>3 DEF IInv, NeverMoreThanPaid, PendingIsEmpty
  <1>6. CopiesInv'
    BY <1>2, <1>3, Targets DEF IInv, CopiesInv, Loaded
  <1> QED
    BY <1>2, <1>4, <1>5, <1>6 DEF IInv

\* activate_virtual_card, block_virtual_card, delete_virtual_card.
LEMMA LifecycleInv ==
  ASSUME IInv, NEW r \in Reqs, Activate(r) \/ Block(r) \/ Delete(r) PROVE IInv'
  <1> DEFINE old == card[Target[r]]
             Becomes(status) == [old EXCEPT !.status = status]
             Deleted == [status |-> "inactive", isActive |-> FALSE,
                         available |-> old.available, topped |-> old.topped]
  <1>1. Target[r] \in Cards /\ old \in Card
    BY Targets DEF IInv, TypeOK
  <1>2. \A status \in {"active", "blocked"} :
          /\ Becomes(status) \in Card /\ Becomes(status).status = status
          /\ Becomes(status).available = old.available
          /\ Becomes(status).topped = old.topped
    BY <1>1 DEF Card, Statuses
  <1>3. /\ Deleted \in Card /\ Deleted.status = "inactive"
        /\ Deleted.available = old.available /\ Deleted.topped = old.topped
    BY <1>1 DEF Card, Statuses
  <1>4. CASE Activate(r)
    <2>1. card' = [card EXCEPT ![Target[r]] = Becomes("active")]
      BY <1>4 DEF Activate
    <2> HIDE DEF Becomes
    <2> QED
      BY <1>2, <1>4, <2>1, StatusInv DEF Activate
  <1>5. CASE Block(r)
    <2>1. card' = [card EXCEPT ![Target[r]] = Becomes("blocked")]
      BY <1>5 DEF Block
    <2> HIDE DEF Becomes
    <2> QED
      BY <1>2, <1>5, <2>1, StatusInv DEF Block
  <1>6. CASE Delete(r)
    <2>1. card' = [card EXCEPT ![Target[r]] = Deleted]
      BY <1>6 DEF Delete
    <2> HIDE DEF Deleted
    <2> QED
      BY <1>3, <1>6, <2>1, StatusInv DEF Delete
  <1> QED
    BY <1>4, <1>5, <1>6

\* top_up_virtual_card: what its stale copy can and cannot break.
LEMMA TopUpInv == ASSUME IInv, NEW r \in Reqs, TopUp(r) PROVE IInv'
  <1> DEFINE c == Target[r]
             a == From(r)
             new == Refilled(r)
  <1>1. c \in Cards /\ a \in Accounts /\ Amount[r] \in Nat /\ Amount[r] > 0
    BY Targets, RequestAssumption
  <1>2. copy[r].balance \in Int /\ Loaded(r) \in Card /\ card[c] \in Card /\ paid[c] \in Int
    BY <1>1 DEF IInv, TypeOK, Loaded
  <1>3. /\ Loaded(r).available \in Int /\ Loaded(r).topped \in Int
        /\ card[c].status \in Statuses /\ card[c].isActive \in BOOLEAN
    BY <1>2 DEF Card
  <1>4. /\ new \in Card /\ new.status = card[c].status
        /\ new.available = Loaded(r).available + Amount[r]
        /\ new.topped = Loaded(r).topped + Amount[r]
    BY <1>1, <1>3 DEF Refilled, Card
  <1>5. /\ LocksInv' /\ lock' \in [Accounts -> Reqs \cup {None}] /\ step' \in [Reqs -> Steps]
        /\ step'[r] = "done" /\ \A q \in Reqs \ {r} : step'[q] = step[q]
    BY EndKeepsLocks DEF IInv, TopUp
  <1>6. /\ card' = [card EXCEPT ![c] = new]
        /\ balance' = [balance EXCEPT ![a] = copy[r].balance - Amount[r]]
        /\ paid' = [paid EXCEPT ![c] = paid[c] + Amount[r]]
        /\ copy' = copy /\ outside' = outside
        /\ step[r] = "locked" /\ copy[r].balance >= Amount[r]
    BY DEF TopUp, Funded
  <1> HIDE DEF c, a, new
  <1>7. /\ card' \in [Cards -> Card] /\ card'[c] = new
        /\ \A d \in Cards \ {c} : card'[d] = card[d]
    BY <1>1, <1>4, <1>6 DEF IInv, TypeOK
  <1>8. /\ balance' \in [Accounts -> Int] /\ balance'[a] = copy[r].balance - Amount[r]
        /\ \A b \in Accounts \ {a} : balance'[b] = balance[b]
    BY <1>1, <1>2, <1>6 DEF IInv, TypeOK
  <1>9. /\ paid' \in [Cards -> Int] /\ paid'[c] = paid[c] + Amount[r]
        /\ \A d \in Cards \ {c} : paid'[d] = paid[d]
    BY <1>1, <1>2, <1>6 DEF IInv, TypeOK
  <1>10. TypeOK'
    BY <1>5, <1>6, <1>7, <1>8, <1>9 DEF IInv, TypeOK
  <1>11. NonNegative'
    BY <1>1, <1>2, <1>6, <1>8 DEF IInv, NonNegative
  <1>12. Loaded(r).available = Loaded(r).topped /\ Loaded(r).available <= paid[c]
         /\ Loaded(r).status = "active" /\ card[c].status \notin {"absent", "pending"}
    BY <1>6 DEF IInv, CopiesInv, c
  <1>13. PaidInv'
    BY <1>1, <1>2, <1>9 DEF IInv, PaidInv
  <1>14. NeverMoreThanPaid'
    BY <1>1, <1>2, <1>3, <1>4, <1>7, <1>9, <1>12 DEF IInv, NeverMoreThanPaid
  <1>15. PendingIsEmpty'
    BY <1>4, <1>7, <1>12 DEF IInv, PendingIsEmpty
  <1>16. CopiesInv'
    <2> SUFFICES ASSUME NEW q \in Reqs
                 PROVE  (/\ Loaded(q).available = Loaded(q).topped
                         /\ Loaded(q).available <= paid[Target[q]]
                         /\ Loaded(q).status # "absent" => card[Target[q]].status # "absent"
                         /\ Loaded(q).status = "active" => card[Target[q]].status # "pending"
                         /\ step[q] \in {"loaded", "locked"} => Loaded(q).status # "absent"
                         /\ step[q] = "locked" => Op[q] = "top_up" /\ Loaded(q).status = "active")'
      BY DEF CopiesInv
    <2>1. Target[q] \in Cards /\ Loaded(q)' = Loaded(q) /\ Loaded(q).available \in Int
          /\ paid[Target[q]] \in Int
      BY <1>6, Targets DEF Loaded, IInv, TypeOK, Card
    <2>2. paid'[Target[q]] >= paid[Target[q]]
      BY <1>1, <1>9, <2>1
    <2>3. card'[Target[q]].status = card[Target[q]].status
      BY <1>4, <1>7, <2>1
    <2>4. (Loaded(q).available <= paid[Target[q]])'
      BY <1>9, <2>1, <2>2 DEF IInv, CopiesInv
    <2> QED
      BY <1>5, <2>1, <2>3, <2>4 DEF IInv, CopiesInv
  <1> QED
    BY <1>5, <1>10, <1>11, <1>13, <1>14, <1>15, <1>16 DEF IInv

\* Other operations on an account keep its balance non-negative.
LEMMA ElsewhereInv == ASSUME IInv, NEW a \in Accounts, Elsewhere(a) PROVE IInv'
  <1>1. PICK n \in Outside :
          /\ outside' = [outside EXCEPT ![a] = n]
          /\ balance[a] + n - outside[a] >= 0
          /\ balance' = [balance EXCEPT ![a] = balance[a] + n - outside[a]]
    BY DEF Elsewhere
  <1>2. n \in Int /\ outside[a] \in Int /\ balance[a] \in Int
    BY OutsideAssumption DEF IInv, TypeOK
  <1>3. TypeOK'
    BY <1>1, <1>2 DEF Elsewhere, IInv, TypeOK
  <1>4. NonNegative'
    BY <1>1, <1>2 DEF IInv, TypeOK, NonNegative
  <1>5. NeverMoreThanPaid' /\ PendingIsEmpty' /\ PaidInv' /\ CopiesInv' /\ LocksInv'
    BY DEF Elsewhere, IInv, NeverMoreThanPaid, PendingIsEmpty, PaidInv, CopiesInv, LocksInv,
           Loaded, From
  <1> QED
    BY <1>3, <1>4, <1>5 DEF IInv

\* The invariant is inductive.
LEMMA NextInv == IInv /\ [Next]_vars => IInv'
  <1> SUFFICES ASSUME IInv, [Next]_vars PROVE IInv'
    OBVIOUS
  <1>1. ASSUME NEW r \in Reqs,
               Load(r) \/ Lock(r) \/ Refuse(r) \/ TopUp(r) \/ Activate(r)
               \/ Block(r) \/ Delete(r) \/ Lose(r)
        PROVE  IInv'
    <2>1. CASE Refuse(r)
      BY <2>1, EndInv DEF Refuse
    <2>2. CASE Lose(r)
      BY <2>2, EndInv DEF Lose
    <2> QED
      BY <1>1, <2>1, <2>2, LoadInv, LockInv, TopUpInv, LifecycleInv
  <1>2. CASE UNCHANGED vars
    BY <1>2 DEF vars, IInv, TypeOK, NonNegative, NeverMoreThanPaid, PendingIsEmpty, PaidInv,
                CopiesInv, LocksInv, Loaded, From
  <1> QED
    BY <1>1, <1>2, CreateInv, ElsewhereInv DEF Next, Terminated

\* IInv holds in every state: whatever the interleaving of requests, copies,
\* locks and lost workers.
THEOREM Invariance == Spec => []IInv
  BY InitInv, NextInv, PTL DEF Spec

\* No top-up overdraws an account, although the balance it checks under the
\* lock is the one it loaded before it (top_up_virtual_card).
THEOREM NeverOverdrawn == Spec => []NonNegative
  <1>1. IInv => NonNegative
    BY DEF IInv
  <1> QED
    BY <1>1, Invariance, PTL

\* A card never holds more than its completed top-up transactions paid.
THEOREM OnlyPaidMoney == Spec => []NeverMoreThanPaid
  <1>1. IInv => NeverMoreThanPaid
    BY DEF IInv
  <1> QED
    BY <1>1, Invariance, PTL

\* A card that was never activated has never been topped up.
THEOREM NoMoneyBeforeActivation == Spec => []PendingIsEmpty
  <1>1. IInv => PendingIsEmpty
    BY DEF IInv
  <1> QED
    BY <1>1, Invariance, PTL

-----------------------------------------------------------------------------
\* Sums over a finite set.

\* Natural numbers are well founded.
LEMMA Below ==
  \E R : /\ IsWellFoundedOn(R, Nat)
         /\ \A k, m \in Nat : k < m => <<k, m>> \in R
  <1>1. \A k, m \in Nat : <<k, m>> \in Nat \X Nat /\ <<k, m>>[1] = k /\ <<k, m>>[2] = m
    OBVIOUS
  <1>2. \A k, m \in Nat : k < m => <<k, m>> \in OpToRel(<, Nat)
    BY <1>1, Zenon DEF OpToRel
  <1> QED
    BY <1>2, NatLessThanWellFounded, Zenon

\* Counting up from 0 reaches every number.
LEMMA Counting ==
  ASSUME NEW G, 0 \in G, \A n \in Nat : n \in G => n + 1 \in G
  PROVE  \A n \in Nat : n \in G
  <1> SUFFICES ASSUME Nat \ G # {} PROVE FALSE
    OBVIOUS
  <1>1. PICK R : /\ IsWellFoundedOn(R, Nat)
                 /\ \A k, m \in Nat : k < m => <<k, m>> \in R
    BY Below
  <1>2. IsWellFoundedOn(R, Nat) /\ Nat \ G \subseteq Nat
    BY <1>1
  <1>3. PICK m \in Nat \ G : \A k \in Nat \ G : ~ (<<k, m>> \in R)
    BY <1>2, WFMin, Zenon
  <1>4. m # 0 /\ m - 1 \in Nat /\ m - 1 < m
    BY <1>3
  <1>5. m - 1 \in G
    BY <1>1, <1>3, <1>4
  <1>6. (m - 1) + 1 \in G
    BY <1>4, <1>5
  <1> QED
    BY <1>3, <1>6

First(s) == CHOOSE x \in s : TRUE

\* g sums up f over the subsets of S, as the fold does.
SumsUp(g, f, S) ==
  g = [s \in SUBSET S |-> IF s = {} THEN 0 ELSE f[First(s)] + g[s \ {First(s)}]]

\* A set with its first element less is a smaller one.
LEMMA Smaller ==
  ASSUME NEW S, IsFiniteSet(S), NEW s \in SUBSET S, s # {}
  PROVE  /\ First(s) \in s /\ s \ {First(s)} \in SUBSET S
         /\ Cardinality(s) \in Nat \ {0}
         /\ Cardinality(s \ {First(s)}) = Cardinality(s) - 1
  <1>1. First(s) \in s
    BY DEF First
  <1>2. IsFiniteSet(s)
    BY FS_Subset
  <1>3. Cardinality(s) \in Nat /\ Cardinality(s) # 0
    BY <1>2, FS_CardinalityType, FS_EmptySet
  <1>4. Cardinality(s \ {First(s)}) = Cardinality(s) - 1
    BY <1>1, <1>2, FS_RemoveElement
  <1> QED
    BY <1>1, <1>3, <1>4

\* What holds of the empty set, and of a set if it holds of that with its first element
\* less, holds of every subset.
LEMMA SetsGrow ==
  ASSUME NEW S, IsFiniteSet(S), NEW G, {} \in G,
         \A s \in SUBSET S : s # {} /\ s \ {First(s)} \in G => s \in G
  PROVE  \A s \in SUBSET S : s \in G
  <1> DEFINE K == {n \in Nat : \A s \in SUBSET S : Cardinality(s) = n => s \in G}
  <1>1. 0 \in K
    <2> SUFFICES ASSUME NEW s \in SUBSET S, Cardinality(s) = 0 PROVE s \in G
      OBVIOUS
    <2>1. s = {}
      BY Smaller
    <2> QED
      BY <2>1
  <1>2. ASSUME NEW n \in Nat, n \in K PROVE n + 1 \in K
    <2> SUFFICES ASSUME NEW s \in SUBSET S, Cardinality(s) = n + 1 PROVE s \in G
      OBVIOUS
    <2>1. s # {}
      <3>1. Cardinality({}) = 0 /\ Cardinality(s) # 0
        BY FS_EmptySet
      <3> QED
        BY <3>1
    <2>2. s \ {First(s)} \in SUBSET S /\ Cardinality(s \ {First(s)}) = n
      BY <2>1, Smaller
    <2>3. s \ {First(s)} \in G
      BY <1>2, <2>2
    <2> QED
      BY <2>1, <2>3
  <1>3. \A n \in Nat : n \in K
    <2> HIDE DEF K
    <2> QED
      BY <1>1, <1>2, Counting
  <1>4. \A s \in SUBSET S : Cardinality(s) \in Nat
    BY FS_Subset, FS_CardinalityType
  <1> QED
    BY <1>3, <1>4

\* There is such a sum: it is made for larger and larger sets.
LEMMA SumExists == ASSUME NEW S, IsFiniteSet(S), NEW f PROVE \E g : SumsUp(g, f, S)
  <1> DEFINE Small(n) == {s \in SUBSET S : Cardinality(s) <= n}
             Value(g, s) == IF s = {} THEN 0 ELSE f[First(s)] + g[s \ {First(s)}]
             Upto(g, n) == g = [s \in Small(n) |-> Value(g, s)]
             K == {n \in Nat : \E g : Upto(g, n)}
  <1>1. 0 \in K
    <2> DEFINE g == [s \in Small(0) |-> 0]
    <2>1. ASSUME NEW s \in Small(0), s # {} PROVE FALSE
      <3>1. s \in SUBSET S /\ Cardinality(s) <= 0
        BY <2>1
      <3>2. Cardinality(s) \in Nat \ {0}
        BY <2>1, <3>1, Smaller
      <3> QED
        BY <3>1, <3>2
    <2>2. Upto(g, 0)
      BY <2>1
    <2> QED
      BY <2>2
  <1>2. ASSUME NEW n \in Nat, n \in K PROVE n + 1 \in K
    <2>1. PICK g : Upto(g, n)
      BY <1>2
    <2> DEFINE h == [s \in Small(n + 1) |-> Value(g, s)]
    <2>2. \A s \in Small(n) : s \in Small(n + 1)
      <3>1. \A s \in SUBSET S : Cardinality(s) \in Nat
        BY FS_Subset, FS_CardinalityType
      <3> QED
        BY <3>1
    <2>3. \A s \in Small(n) : h[s] = g[s]
      <3> HIDE DEF Small, Value
      <3> QED
        BY <2>1, <2>2
    <2>4. \A s \in Small(n + 1) : s # {} => s \ {First(s)} \in Small(n)
      BY Smaller
    <2>5. \A s \in Small(n + 1) : Value(h, s) = Value(g, s)
      <3> HIDE DEF Small, h
      <3> QED
        BY <2>3, <2>4
    <2>6. Upto(h, n + 1)
      <3>1. h = [s \in Small(n + 1) |-> Value(h, s)]
        <4> HIDE DEF Small, Value
        <4> QED
          BY <2>5
      <3> QED
        BY <3>1
    <2> HIDE DEF h, Upto
    <2> QED
      BY <2>6
  <1>3. \A n \in Nat : n \in K
    <2> HIDE DEF K
    <2> QED
      BY <1>1, <1>2, Counting
  <1>4. Cardinality(S) \in Nat
    BY FS_CardinalityType
  <1>5. PICK g : Upto(g, Cardinality(S))
    BY <1>3, <1>4
  <1>6. Small(Cardinality(S)) = SUBSET S
    BY FS_Subset
  <1>7. g = [s \in SUBSET S |-> Value(g, s)]
    <2> HIDE DEF Small, Value
    <2> QED
      BY <1>5, <1>6
  <1> QED
    BY <1>7 DEF SumsUp

\* The sum of f over S.
Total(f, S) == MapThenSumSet(LAMBDA c : f[c], S)

LEMMA FoldSums ==
  ASSUME NEW S, IsFiniteSet(S), NEW f
  PROVE  \E g : SumsUp(g, f, S) /\ Total(f, S) = g[S]
  <1> DEFINE fold == CHOOSE g : SumsUp(g, f, S)
  <1>1. SumsUp(fold, f, S)
    BY SumExists
  <1>2. Total(f, S) = fold[S]
    BY DEF Total, MapThenSumSet, MapThenFoldSet, SumsUp, First
  <1> QED
    BY <1>1, <1>2

LEMMA SumStep ==
  ASSUME NEW S, NEW f, NEW g, SumsUp(g, f, S)
  PROVE  /\ g[{}] = 0
         /\ \A s \in SUBSET S : s # {} => g[s] = f[First(s)] + g[s \ {First(s)}]
  <1> DEFINE Value(s) == IF s = {} THEN 0 ELSE f[First(s)] + g[s \ {First(s)}]
  <1>1. \A s \in SUBSET S : g[s] = Value(s)
    <2>1. g = [s \in SUBSET S |-> Value(s)]
      BY DEF SumsUp
    <2> HIDE DEF Value
    <2> QED
      BY <2>1
  <1> QED
    BY <1>1

\* Nothing sums up to nothing.
LEMMA SumOfNothing ==
  ASSUME NEW S, IsFiniteSet(S), NEW f, \A c \in S : f[c] = 0
  PROVE  Total(f, S) = 0
  <1>1. PICK g : SumsUp(g, f, S) /\ Total(f, S) = g[S]
    BY FoldSums
  <1> DEFINE G == {s \in SUBSET S : g[s] = 0}
  <1>2. {} \in G
    BY <1>1, SumStep
  <1>3. ASSUME NEW s \in SUBSET S, s # {}, s \ {First(s)} \in G PROVE s \in G
    <2>1. g[s] = f[First(s)] + g[s \ {First(s)}]
      BY <1>1, <1>3, SumStep
    <2>2. f[First(s)] = 0 /\ g[s \ {First(s)}] = 0
      BY <1>3, Smaller
    <2> QED
      BY <2>1, <2>2
  <1>4. S \in G
    <2> HIDE DEF G
    <2> QED
      BY <1>2, <1>3, SetsGrow
  <1> QED
    BY <1>1, <1>4

\* h is f with d more at x.
Shifts(f, h, S, x, d) ==
  \A c \in S : f[c] \in Int /\ h[c] = IF c = x THEN f[c] + d ELSE f[c]

\* One summand more changes the sum by what it is more.
LEMMA SumChanges ==
  ASSUME NEW S, IsFiniteSet(S), NEW f, NEW h, NEW x, NEW d \in Int, Shifts(f, h, S, x, d)
  PROVE  /\ Total(f, S) \in Int
         /\ Total(h, S) = IF x \in S THEN Total(f, S) + d ELSE Total(f, S)
  <1>1. PICK g : SumsUp(g, f, S) /\ Total(f, S) = g[S]
    BY FoldSums
  <1>2. PICK k : SumsUp(k, h, S) /\ Total(h, S) = k[S]
    BY FoldSums
  <1> DEFINE G == {s \in SUBSET S :
                     g[s] \in Int /\ k[s] = IF x \in s THEN g[s] + d ELSE g[s]}
  <1>3. {} \in G
    <2>1. g[{}] = 0 /\ k[{}] = 0
      BY <1>1, <1>2, SumStep
    <2> QED
      BY <2>1
  <1>4. ASSUME NEW s \in SUBSET S, s # {}, s \ {First(s)} \in G PROVE s \in G
    <2> DEFINE c == First(s)
               t == s \ {First(s)}
    <2>1. g[s] = f[c] + g[t] /\ k[s] = h[c] + k[t]
      BY <1>1, <1>2, <1>4, SumStep
    <2>2. c \in s /\ c \in S
      BY <1>4, Smaller
    <2>3. /\ f[c] \in Int /\ h[c] = IF c = x THEN f[c] + d ELSE f[c]
          /\ g[t] \in Int /\ k[t] = IF x \in t THEN g[t] + d ELSE g[t]
      BY <1>4, <2>2 DEF Shifts
    <2>4. /\ c = x => x \in s /\ x \notin t
          /\ c # x => (x \in s <=> x \in t)
      BY <2>2
    <2> HIDE DEF c, t
    <2>5. g[s] \in Int
      BY <2>1, <2>3
    <2>6. k[s] = IF x \in s THEN g[s] + d ELSE g[s]
      <3>1. CASE c = x
        BY <2>1, <2>3, <2>4, <3>1
      <3>2. CASE c # x
        BY <2>1, <2>3, <2>4, <3>2
      <3> QED
        BY <3>1, <3>2
    <2> QED
      BY <2>5, <2>6
  <1>5. S \in G
    <2> HIDE DEF G
    <2> QED
      BY <1>3, <1>4, SetsGrow
  <1> QED
    BY <1>1, <1>2, <1>5

-----------------------------------------------------------------------------
\* What is neither lost nor made.

\* A request was sent after those before it had ended.
PriorInv == \A r \in Reqs : step[r] # "idle" => \A q \in Prior[r] : Ended(q)

\* Where the top-ups come one after the other, the copy of one is what is in the rows.
FreshInv ==
  \A r \in Reqs :
    Unhurried(From(r)) /\ Op[r] = "top_up" /\ step[r] \in {"loaded", "locked"} =>
      /\ copy[r].balance = balance[From(r)]
      /\ Loaded(r).available = card[Target[r]].available

Tied(a) == {c \in Cards : Account[c] = a}

ConservedAt(a) ==
  /\ \A c \in Tied(a) : card[c].available = paid[c]
  /\ balance[a] = Opening[a] - Total(paid, Tied(a))

SumsInv == \A a \in Accounts : Unhurried(a) => ConservedAt(a)

KeptInv == IInv /\ PriorInv /\ FreshInv /\ SumsInv

LEMMA TiedFinite == ASSUME NEW a PROVE IsFiniteSet(Tied(a)) /\ Tied(a) \subseteq Cards
  BY AccountAssumption, FS_Subset DEF Tied

LEMMA InitKept == Init => KeptInv
  <1> SUFFICES ASSUME Init PROVE KeptInv
    OBVIOUS
  <1>1. PriorInv /\ FreshInv
    BY DEF Init, PriorInv, FreshInv
  <1>2. SumsInv
    <2> SUFFICES ASSUME NEW a \in Accounts PROVE ConservedAt(a)
      BY DEF SumsInv
    <2>1. \A c \in Cards : paid[c] = 0 /\ card[c].available = 0
      BY DEF Init, Absent
    <2>2. Total(paid, Tied(a)) = 0
      BY <2>1, TiedFinite, SumOfNothing
    <2>3. balance[a] = Opening[a] /\ Opening[a] \in Nat
      BY AccountAssumption DEF Init
    <2> QED
      BY <2>1, <2>2, <2>3, TiedFinite DEF ConservedAt
  <1> QED
    BY <1>1, <1>2, InitInv DEF KeptInv

\* No money moves; a request that ended stays so, one that began waited for those before
\* it, and what one has loaded is kept or is in the rows.
LEMMA StillKept ==
  ASSUME KeptInv, balance' = balance, paid' = paid,
         \A c \in Cards : card'[c].available = card[c].available,
         \A q \in Reqs :
           /\ Ended(q) => Ended(q)'
           /\ step'[q] # "idle" => step[q] # "idle" \/ \A p \in Prior[q] : Ended(p)
           /\ step'[q] \in {"loaded", "locked"} =>
                \/ step[q] \in {"loaded", "locked"} /\ copy'[q] = copy[q]
                \/ /\ copy'[q].balance = balance[From(q)]
                   /\ copy'[q].card = card[Target[q]]
  PROVE  PriorInv' /\ FreshInv' /\ SumsInv'
  <1>1. PriorInv'
    BY RequestAssumption DEF KeptInv, PriorInv
  <1>2. FreshInv'
    <2> SUFFICES ASSUME NEW q \in Reqs, Unhurried(From(q)), Op[q] = "top_up",
                        step'[q] \in {"loaded", "locked"}
                 PROVE  /\ copy'[q].balance = balance'[From(q)]
                        /\ copy'[q].card.available = card'[Target[q]].available
      BY DEF FreshInv, Unhurried, Loaded, From
    <2>1. card'[Target[q]].available = card[Target[q]].available
      BY Targets
    <2>2. CASE step[q] \in {"loaded", "locked"} /\ copy'[q] = copy[q]
      BY <2>1, <2>2 DEF KeptInv, FreshInv, Loaded
    <2>3. CASE copy'[q].balance = balance[From(q)] /\ copy'[q].card = card[Target[q]]
      BY <2>1, <2>3
    <2> QED
      BY <2>2, <2>3
  <1>3. SumsInv'
    BY TiedFinite DEF KeptInv, SumsInv, ConservedAt, Unhurried, From, Tied
  <1> QED
    BY <1>1, <1>2, <1>3

LEMMA LoadKept ==
  ASSUME KeptInv, NEW r \in Reqs, Load(r) PROVE PriorInv' /\ FreshInv' /\ SumsInv'
  <1>1. /\ balance' = balance /\ paid' = paid /\ card' = card
        /\ step[r] = "idle" /\ step'[r] = "loaded" /\ \A q \in Prior[r] : Ended(q)
        /\ copy'[r].balance = balance[From(r)] /\ copy'[r].card = card[Target[r]]
        /\ \A q \in Reqs \ {r} : step'[q] = step[q] /\ copy'[q] = copy[q]
    BY DEF Load, KeptInv, IInv, TypeOK
  <1> QED
    BY <1>1, StillKept DEF Ended

\* Every other step of a request but the top-up itself.
LEMMA OthersKept ==
  ASSUME KeptInv, NEW r \in Reqs,
         Lock(r) \/ Refuse(r) \/ Activate(r) \/ Block(r) \/ Delete(r) \/ Lose(r)
  PROVE  PriorInv' /\ FreshInv' /\ SumsInv'
  <1>1. /\ balance' = balance /\ paid' = paid /\ copy' = copy
        /\ step[r] \in {"loaded", "locked"}
    BY DEF Lock, Refuse, Activate, Block, Delete, Lose
  <1>2. /\ step'[r] = "locked" \/ Ended(r)'
        /\ \A q \in Reqs \ {r} : step'[q] = step[q]
    BY DEF Lock, Refuse, Activate, Block, Delete, Lose, End, Ended, KeptInv, IInv, TypeOK
  <1>3. \A c \in Cards : card'[c].available = card[c].available
    <2>1. Target[r] \in Cards /\ card \in [Cards -> Card]
      BY Targets DEF KeptInv, IInv, TypeOK
    <2>2. CASE Lock(r) \/ Refuse(r) \/ Lose(r)
      BY <2>2 DEF Lock, Refuse, Lose
    <2>3. CASE Activate(r)
      BY <2>1, <2>3 DEF Activate, Card
    <2>4. CASE Block(r)
      BY <2>1, <2>4 DEF Block, Card
    <2>5. CASE Delete(r)
      BY <2>1, <2>5 DEF Delete
    <2> QED
      BY <2>2, <2>3, <2>4, <2>5
  <1>4. \A q \in Reqs :
          /\ Ended(q) => Ended(q)'
          /\ step'[q] # "idle" => step[q] # "idle"
          /\ step'[q] \in {"loaded", "locked"} => step[q] \in {"loaded", "locked"}
    BY <1>1, <1>2 DEF Ended
  <1> QED
    BY <1>1, <1>3, <1>4, StillKept

\* A new card is as empty as the place it takes.
LEMMA CreateKept ==
  ASSUME KeptInv, NEW c \in Cards, Create(c) PROVE PriorInv' /\ FreshInv' /\ SumsInv'
  <1>1. card[c].available = 0 /\ Issued.available = 0
    BY DEF Create, Absent, Issued, KeptInv, IInv, PendingIsEmpty
  <1>2. \A d \in Cards : card'[d].available = card[d].available
    BY <1>1 DEF Create, KeptInv, IInv, TypeOK
  <1>3. UNCHANGED <<balance, paid, step, copy>>
    BY DEF Create
  <1> QED
    BY <1>2, <1>3, StillKept DEF Ended

\* The commit of a top-up takes from the account what it puts on the card.
LEMMA TopUpKept ==
  ASSUME KeptInv, NEW r \in Reqs, TopUp(r) PROVE PriorInv' /\ FreshInv' /\ SumsInv'
  <1> DEFINE c == Target[r]
             a == From(r)
  <1>1. /\ c \in Cards /\ a \in Accounts /\ Account[c] = a /\ Amount[r] \in Int
        /\ copy[r].balance \in Int /\ Loaded(r).available \in Int
        /\ step[r] = "locked" /\ Op[r] = "top_up"
    BY Targets, RequestAssumption DEF TopUp, KeptInv, IInv, TypeOK, CopiesInv, Loaded, Card, From
  <1>2. /\ \A d \in Cards : card'[d].available = IF d = c THEN Loaded(r).available + Amount[r]
                                                ELSE card[d].available
        /\ \A b \in Accounts : balance'[b] = IF b = a THEN copy[r].balance - Amount[r]
                                             ELSE balance[b]
        /\ \A d \in Cards : paid'[d] = IF d = c THEN paid[d] + Amount[r] ELSE paid[d]
        /\ copy' = copy
    <2>1. card \in [Cards -> Card] /\ balance \in [Accounts -> Int] /\ paid \in [Cards -> Int]
      BY DEF KeptInv, IInv, TypeOK
    <2>2. \A d \in Cards : card'[d].available = IF d = c THEN Loaded(r).available + Amount[r]
                                                ELSE card[d].available
      BY <1>1, <2>1 DEF TopUp, Refilled
    <2>3. \A b \in Accounts : balance'[b] = IF b = a THEN copy[r].balance - Amount[r]
                                            ELSE balance[b]
      BY <1>1, <2>1 DEF TopUp
    <2>4. \A d \in Cards : paid'[d] = IF d = c THEN paid[d] + Amount[r] ELSE paid[d]
      BY <1>1, <2>1 DEF TopUp
    <2> QED
      BY <2>2, <2>3, <2>4 DEF TopUp
  <1>3. /\ step'[r] = "done" /\ \A q \in Reqs \ {r} : step'[q] = step[q]
        /\ \A q \in Reqs : Ended(q) => Ended(q)'
    BY <1>1 DEF TopUp, End, Ended, KeptInv, IInv, TypeOK
  <1>4. PriorInv'
    <2>1. \A q \in Reqs : step'[q] # "idle" => step[q] # "idle"
      BY <1>1, <1>3
    <2> QED
      BY <1>3, <2>1, RequestAssumption DEF KeptInv, PriorInv
  <1>5. FreshInv'
    <2> SUFFICES ASSUME NEW q \in Reqs, Unhurried(From(q)), Op[q] = "top_up",
                        step'[q] \in {"loaded", "locked"}
                 PROVE  /\ copy'[q].balance = balance'[From(q)]
                        /\ copy'[q].card.available = card'[Target[q]].available
      BY DEF FreshInv, Unhurried, Loaded, From
    <2>1. q # r /\ step[q] \in {"loaded", "locked"}
      BY <1>3
    <2>2. From(q) # a
      <3> SUFFICES ASSUME From(q) = a PROVE FALSE
        OBVIOUS
      <3>1. q \in Prior[r] \/ r \in Prior[q]
        BY <1>1, <2>1 DEF Unhurried
      <3>2. ~Ended(q) /\ ~Ended(r) /\ step[q] # "idle" /\ step[r] # "idle"
        BY <1>1, <2>1 DEF Ended
      <3> QED
        BY <3>1, <3>2 DEF KeptInv, PriorInv
    <2>3. Target[q] # c /\ Target[q] \in Cards /\ From(q) \in Accounts
      BY <2>2, Targets DEF From
    <2>4. /\ copy[q].balance = balance[From(q)]
          /\ copy[q].card.available = card[Target[q]].available
      BY <2>1 DEF KeptInv, FreshInv, Loaded
    <2> QED
      BY <1>2, <2>2, <2>3, <2>4
  <1>6. SumsInv'
    <2> SUFFICES ASSUME NEW b \in Accounts, Unhurried(b) PROVE ConservedAt(b)'
      BY DEF SumsInv, Unhurried, From
    <2>1. /\ IsFiniteSet(Tied(b)) /\ Amount[r] \in Int
          /\ Shifts(paid, paid', Tied(b), c, Amount[r])
      BY <1>1, <1>2, TiedFinite DEF Shifts, KeptInv, IInv, TypeOK
    <2>2. /\ Total(paid, Tied(b)) \in Int
          /\ Total(paid', Tied(b)) = IF c \in Tied(b) THEN Total(paid, Tied(b)) + Amount[r]
                                     ELSE Total(paid, Tied(b))
      <3> HIDE DEF c
      <3> QED
        BY ONLY <2>1, SumChanges, Zenon
    <2>3. c \in Tied(b) <=> b = a
      BY <1>1 DEF Tied
    <2>4. /\ \A d \in Tied(b) : card[d].available = paid[d]
          /\ balance[b] = Opening[b] - Total(paid, Tied(b))
      BY DEF KeptInv, SumsInv, ConservedAt
    <2>5. Opening[b] \in Int
      BY AccountAssumption
    <2>6. CASE b = a
      <3>1. copy[r].balance = balance[a] /\ Loaded(r).available = card[c].available
        BY <1>1, <2>6 DEF KeptInv, FreshInv
      <3>2. \A d \in Tied(b) : card'[d].available = paid'[d]
        BY <1>2, <2>3, <2>4, <2>6, <3>1, TiedFinite
      <3>3. balance'[b] = balance[b] - Amount[r]
        BY <1>1, <1>2, <2>6, <3>1
      <3>4. balance'[b] = Opening[b] - Total(paid', Tied(b))
        BY <1>1, <2>2, <2>3, <2>4, <2>5, <2>6, <3>3
      <3> QED
        BY <3>2, <3>4 DEF ConservedAt, Tied
    <2>7. CASE b # a
      <3>1. \A d \in Tied(b) : card'[d].available = paid'[d]
        BY <1>2, <2>3, <2>4, <2>7, TiedFinite
      <3>2. balance'[b] = Opening[b] - Total(paid', Tied(b))
        BY <1>2, <2>2, <2>3, <2>4, <2>7
      <3> QED
        BY <3>1, <3>2 DEF ConservedAt, Tied
    <2> QED
      BY <2>6, <2>7
  <1> QED
    BY <1>4, <1>5, <1>6

\* Other operations use other accounts.
LEMMA ElsewhereKept ==
  ASSUME KeptInv, NEW a \in Accounts, Elsewhere(a) PROVE PriorInv' /\ FreshInv' /\ SumsInv'
  <1>1. /\ ~Unhurried(a) /\ UNCHANGED <<card, paid, step, copy>>
        /\ \A b \in Accounts \ {a} : balance'[b] = balance[b]
    BY DEF Elsewhere, Unhurried, KeptInv, IInv, TypeOK
  <1>2. PriorInv'
    BY <1>1 DEF KeptInv, PriorInv, Ended
  <1>3. FreshInv'
    <2> SUFFICES ASSUME NEW q \in Reqs, Unhurried(From(q)), Op[q] = "top_up",
                        step[q] \in {"loaded", "locked"}
                 PROVE  /\ copy[q].balance = balance'[From(q)]
                        /\ Loaded(q).available = card[Target[q]].available
      BY <1>1 DEF FreshInv, Unhurried, Loaded, From
    <2>1. balance'[From(q)] = balance[From(q)]
      BY <1>1, Targets
    <2> QED
      BY <2>1 DEF KeptInv, FreshInv
  <1>4. SumsInv'
    <2> SUFFICES ASSUME NEW b \in Accounts, Unhurried(b) PROVE ConservedAt(b)'
      BY DEF SumsInv, Unhurried, From
    <2>1. ConservedAt(b) /\ balance'[b] = balance[b]
      BY <1>1 DEF KeptInv, SumsInv
    <2> QED
      BY <1>1, <2>1 DEF ConservedAt, Tied
  <1> QED
    BY <1>2, <1>3, <1>4

LEMMA NextKept == KeptInv /\ [Next]_vars => KeptInv'
  <1> SUFFICES ASSUME KeptInv, [Next]_vars PROVE KeptInv'
    OBVIOUS
  <1>1. IInv'
    BY NextInv DEF KeptInv
  <1>2. CASE UNCHANGED vars
    BY <1>1, <1>2, StillKept DEF vars, KeptInv, Ended
  <1>3. CASE \E r \in Reqs : \/ Load(r) \/ Lock(r) \/ Refuse(r) \/ TopUp(r) \/ Activate(r)
                             \/ Block(r) \/ Delete(r) \/ Lose(r)
    BY <1>1, <1>3, LoadKept, OthersKept, TopUpKept DEF KeptInv
  <1>4. CASE (\E c \in Cards : Create(c)) \/ (\E a \in Accounts : Elsewhere(a))
    BY <1>1, <1>4, CreateKept, ElsewhereKept DEF KeptInv
  <1> QED
    BY <1>2, <1>3, <1>4 DEF Next, Terminated

\* Where the top-ups of an account come one after the other, each is debited from it and
\* credited to the card exactly, whatever is done to the card meanwhile and whoever is
\* lost (top_up_virtual_card).
THEOREM TopUpsAreExact == Spec => []Conserved
  <1>1. KeptInv => Conserved
    BY DEF KeptInv, SumsInv, ConservedAt, Conserved, Tied, Total
  <1> QED
    BY <1>1, InitKept, NextKept, PTL DEF Spec
=============================================================================
