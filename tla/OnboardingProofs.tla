-------------------------- MODULE OnboardingProofs --------------------------
(***************************************************************************)
(* What holds of a user's profile, next of kin and accounts for every cap  *)
(* and any number of requests under way.                                   *)
(***************************************************************************)
EXTENDS Onboarding, FiniteSetTheorems, TLAPS

Further == Cardinality(Slots) - 1

Adding == {"kinPrimary", "kinInsert"}

\* Slot s goes to step next; without overlaps it is the only one under way.
Moves(s, next) ==
  /\ step' \in [Slots -> Steps] /\ step'[s] = next
  /\ \A q \in Slots \ {s} : step'[q] = step[q]
  /\ memo' \in [Slots -> Memo]
  /\ \A q \in Slots \ {s} : memo'[q] = memo[q]
  /\ overlapped' \in BOOLEAN /\ raced' \in BOOLEAN
  /\ ~overlapped' => ~overlapped /\ \A q \in Slots \ {s} : step[q] = "idle"

\* A slot exists.
LEMMA FurtherType == Further \in Nat
  BY SlotsAssumption, FS_CardinalityType, FS_EmptySet DEF Further

\* A counter stays within cap and overshoot when neither it nor the set of pending
\* requests grows, when a pending request turns into a record, and when the cap
\* was not reached.
LEMMA Counter ==
  ASSUME NEW A \in SUBSET Slots, NEW B \in SUBSET Slots,
         NEW n \in Nat, NEW m \in Nat, NEW cap \in Nat,
         n + Cardinality(A) <= cap + Further,
         \/ m <= n /\ B \subseteq A
         \/ m <= n + 1 /\ \E s \in A : B \subseteq A \ {s}
         \/ m < cap
  PROVE  m + Cardinality(B) <= cap + Further
  <1>1. /\ IsFiniteSet(A) /\ Cardinality(A) \in Nat
        /\ Cardinality(B) \in Nat /\ Cardinality(B) <= Cardinality(Slots)
        /\ Cardinality(Slots) \in Nat
    BY SlotsAssumption, FS_Subset, FS_CardinalityType
  <1>2. CASE m <= n /\ B \subseteq A
    <2>1. Cardinality(B) <= Cardinality(A)
      BY <1>1, <1>2, FS_Subset
    <2> QED
      BY <1>1, <1>2, <2>1, FurtherType
  <1>3. CASE m <= n + 1 /\ \E s \in A : B \subseteq A \ {s}
    <2>1. PICK s \in A : B \subseteq A \ {s}
      BY <1>3
    <2>2. IsFiniteSet(A \ {s}) /\ Cardinality(A \ {s}) = Cardinality(A) - 1
      BY <1>1, FS_RemoveElement
    <2>3. Cardinality(B) <= Cardinality(A \ {s})
      BY <2>1, <2>2, FS_Subset
    <2> QED
      BY <1>1, <1>3, <2>2, <2>3, FurtherType
  <1>4. CASE m < cap
    BY <1>1, <1>4 DEF Further
  <1> QED
    BY <1>2, <1>3, <1>4

\* A record more, a record less.
LEMMA AddRecord ==
  ASSUME NEW S, NEW x, IsFiniteSet(S)
  PROVE  /\ IsFiniteSet(S \cup {x}) /\ Cardinality(S \cup {x}) \in Nat
         /\ Cardinality(S \cup {x}) <= Cardinality(S) + 1
  <1>1. Cardinality(S) \in Nat
    BY FS_CardinalityType
  <1>2. IsFiniteSet(S \cup {x}) /\ Cardinality(S \cup {x}) \in Nat
    BY FS_AddElement, FS_CardinalityType
  <1>3. \/ Cardinality(S \cup {x}) = Cardinality(S)
        \/ Cardinality(S \cup {x}) = Cardinality(S) + 1
    BY FS_AddElement
  <1> QED
    BY <1>1, <1>2, <1>3

LEMMA RemoveRecord ==
  ASSUME NEW S, NEW x, IsFiniteSet(S)
  PROVE  /\ IsFiniteSet(S \ {x}) /\ Cardinality(S \ {x}) \in Nat
         /\ Cardinality(S \ {x}) <= Cardinality(S)
         /\ Cardinality(S) > 1 => S \ {x} # {}
  <1>1. Cardinality(S) \in Nat
    BY FS_CardinalityType
  <1>2. IsFiniteSet(S \ {x}) /\ Cardinality(S \ {x}) \in Nat
    BY FS_RemoveElement, FS_CardinalityType
  <1>3. Cardinality(S) - 1 <= Cardinality(S \ {x}) /\ Cardinality(S \ {x}) <= Cardinality(S)
    BY <1>1, FS_RemoveElement
  <1>4. S \ {x} = {} => Cardinality(S \ {x}) = 0
    BY FS_EmptySet
  <1> QED
    BY <1>1, <1>2, <1>3, <1>4

\* The sets that CapInv counts are finite.
LEMMA Finite ==
  ASSUME TypeOK, CapInv
  PROVE  /\ IsFiniteSet(kin) /\ Cardinality(kin) \in Nat
         /\ IsFiniteSet(accounts) /\ Cardinality(accounts) \in Nat
         /\ IsFiniteSet(primaryAcct) /\ Cardinality(primaryAcct) \in Nat
  BY FS_CardinalityType, FS_Subset DEF TypeOK, CapInv

\* Each of the four counters takes one of the steps of lemma Counter.
LEMMA CapStep ==
  ASSUME TypeOK, CapInv, NEW s \in Slots, NEW next \in Steps, Moves(s, next), TypeOK',
         IsFiniteSet(kin'), IsFiniteSet(accounts'),
         \/ profiles' = profiles /\ next # "profileInsert"
         \/ profiles' = profiles + 1 /\ step[s] = "profileInsert" /\ next = "idle"
         \/ profiles' = 0,
         \/ Cardinality(kin') <= Cardinality(kin) /\ (next \in Adding => step[s] \in Adding)
         \/ Cardinality(kin') <= Cardinality(kin) + 1 /\ step[s] \in Adding /\ next = "idle"
         \/ Cardinality(kin') < MAX_NEXT_OF_KIN,
         \/ Cardinality(accounts') <= Cardinality(accounts) /\ next # "accountInsert"
         \/ Cardinality(accounts') <= Cardinality(accounts) + 1
              /\ step[s] = "accountInsert" /\ next = "idle"
         \/ Cardinality(accounts') < MAX_BANK_ACCOUNTS,
         \/ Cardinality(primaryAcct') <= Cardinality(primaryAcct)
              /\ ~(next = "accountInsert" /\ memo'[s].primary)
         \/ Cardinality(primaryAcct') <= Cardinality(primaryAcct) + 1
              /\ step[s] = "accountInsert" /\ memo[s].primary /\ next = "idle"
         \/ primaryAcct' = {}
  PROVE  CapInv'
  <1>1. /\ Cardinality(kin) \in Nat /\ Cardinality(accounts) \in Nat
        /\ Cardinality(primaryAcct) \in Nat
    BY Finite
  <1>2. /\ Cardinality(kin') \in Nat /\ Cardinality(accounts') \in Nat
        /\ Cardinality(primaryAcct') \in Nat
    BY FS_CardinalityType, FS_Subset DEF TypeOK
  <1>3. profiles \in Nat /\ profiles' \in Nat
    BY DEF TypeOK
  <1>4. ASSUME NEW X \in SUBSET Steps
        PROVE  /\ At(X) \in SUBSET Slots /\ At(X)' \in SUBSET Slots
               /\ (next \in X => step[s] \in X) => At(X)' \subseteq At(X)
               /\ step[s] \in X /\ next \notin X => s \in At(X) /\ At(X)' \subseteq At(X) \ {s}
    BY DEF At, Moves
  <1>5. {"profileInsert"} \in SUBSET Steps /\ Adding \in SUBSET Steps
        /\ {"accountInsert"} \in SUBSET Steps
    BY DEF Steps, Adding
  <1>6. profiles' + Cardinality(At({"profileInsert"})') <= 1 + Further
    BY <1>3, <1>4, <1>5, Counter DEF CapInv, Further
  <1>7. Cardinality(kin') + Cardinality(At(Adding)') <= MAX_NEXT_OF_KIN + Further
    <2>1. Cardinality(kin) + Cardinality(At(Adding)) <= MAX_NEXT_OF_KIN + Further
      BY DEF CapInv, Further, Adding
    <2>2. "idle" \notin Adding
      BY DEF Adding
    <2> QED
      BY <1>1, <1>2, <1>4, <1>5, <2>1, <2>2, Counter, CapsAssumption
  <1>8. Cardinality(accounts') + Cardinality(At({"accountInsert"})')
          <= MAX_BANK_ACCOUNTS + Further
    BY <1>1, <1>2, <1>4, <1>5, Counter, CapsAssumption DEF CapInv, Further
  <1>9. Cardinality(primaryAcct') + Cardinality(NewPrimaries') <= 1 + Further
    <2>1. NewPrimaries \in SUBSET Slots /\ NewPrimaries' \in SUBSET Slots
      BY DEF NewPrimaries, At
    <2>2. ~(next = "accountInsert" /\ memo'[s].primary) => NewPrimaries' \subseteq NewPrimaries
      BY DEF NewPrimaries, At, Moves
    <2>3. step[s] = "accountInsert" /\ memo[s].primary /\ next = "idle" =>
            s \in NewPrimaries /\ NewPrimaries' \subseteq NewPrimaries \ {s}
      BY DEF NewPrimaries, At, Moves
    <2>4. Cardinality(primaryAcct) + Cardinality(NewPrimaries) <= 1 + Further
      BY DEF CapInv, Further
    <2>5. primaryAcct' = {} => Cardinality(primaryAcct') < 1
      BY FS_EmptySet
    <2> QED
      BY <1>1, <1>2, <2>1, <2>2, <2>3, <2>4, <2>5, Counter
  <1> QED
    BY <1>6, <1>7, <1>8, <1>9 DEF CapInv, Further, Adding

-----------------------------------------------------------------------------
\* How Begin, Continue and Done move a slot.
LEMMA BeginMoves ==
  ASSUME TypeOK, NEW s \in Slots, NEW next \in Steps, NEW r \in Memo, Begin(s, next, r)
  PROVE  Moves(s, next) /\ memo'[s] = r /\ step[s] = "idle"
  BY DEF Begin, Moves, TypeOK

LEMMA ContinueMoves ==
  ASSUME TypeOK, AloneInv, NEW s \in Slots, NEW next \in Steps, Continue(s, next),
         step[s] # "idle", NEW r \in Memo, memo' = [memo EXCEPT ![s] = r]
  PROVE  Moves(s, next) /\ memo'[s] = r
  BY DEF Continue, Moves, TypeOK, AloneInv

LEMMA DoneMoves ==
  ASSUME TypeOK, AloneInv, NEW s \in Slots, Done(s), step[s] # "idle",
         raced' \in BOOLEAN
  PROVE  Moves(s, "idle")
  <1>1. "idle" \in Steps /\ Nothing \in Memo
    BY DEF Steps, Memo, Nothing
  <1> QED
    BY <1>1 DEF Done, Moves, TypeOK, AloneInv

\* A step that leaves the rows alone preserves the invariant if what its slot
\* relies on next is true without overlaps.
LEMMA QueryInv ==
  ASSUME IInv, NEW s \in Slots, NEW next \in Steps, Moves(s, next),
         UNCHANGED <<rowVars, raced>>,
         next = "profileInsert" => profiles = 0,
         next \in Adding => step[s] \in Adding \/ Cardinality(kin) < MAX_NEXT_OF_KIN,
         next = "accountInsert" =>
           /\ Cardinality(accounts) < MAX_BANK_ACCOUNTS
           /\ memo'[s].primary => primaryAcct = {},
         ~overlapped =>
           /\ next = "kinInsert" /\ memo'[s].primary => primaryKin = {}
           /\ next = "countForUnset" => ~memo'[s].primary
           /\ next = "kinSave" /\ memo'[s].primary =>
                primaryKin \subseteq {memo'[s].target, memo'[s].other},
         ~raced =>
           /\ next \in {"kinLoad", "kinDelete"} => Cardinality(kin) > 1
           /\ next \in {"accounts", "accountInsert"} => profiles > 0 /\ kin # {}
  PROVE  IInv'
  <1> USE DEF rowVars
  <1>1. TypeOK'
    BY DEF IInv, TypeOK, Moves
  <1>2. CapInv'
    <2>1. Cardinality(kin) \in Nat /\ Cardinality(accounts) \in Nat
          /\ Cardinality(primaryAcct) \in Nat
      BY Finite DEF IInv
    <2> QED
      BY <1>1, <2>1, CapStep DEF IInv, CapInv
  <1>3. AloneInv'
    <2> SUFFICES ASSUME ~overlapped' PROVE AloneInv'
      BY DEF AloneInv
    <2>1. ~overlapped /\ \A q \in Slots \ {s} : step'[q] = "idle"
      BY DEF Moves
    <2>2. next \in Adding => Cardinality(kin) < MAX_NEXT_OF_KIN
      BY <2>1 DEF IInv, AloneInv, Adding
    <2>3. step'[s] = next
      BY DEF Moves
    <2> QED
      BY <2>1, <2>2, <2>3 DEF AloneInv, Adding
  <1>4. WaitingClient' /\ KycHolds'
    BY DEF IInv, WaitingClient, KycHolds, Moves
  <1>5. KycInv'
    BY DEF IInv, KycInv, Moves
  <1> QED
    BY <1>1, <1>2, <1>3, <1>4, <1>5 DEF IInv

\* A step that writes rows and ends its request preserves the invariant if the
\* rows obey the rules without overlaps, and if, unless deletions raced, it adds
\* records only or is the one deletion under way and leaves a next of kin.
LEMMA WriteInv ==
  ASSUME IInv, NEW s \in Slots, Moves(s, "idle"), TypeOK', CapInv',
         ~overlapped =>
           /\ profiles' <= 1
           /\ Cardinality(kin') <= MAX_NEXT_OF_KIN
           /\ Cardinality(accounts') <= MAX_BANK_ACCOUNTS
           /\ \A k, l \in primaryKin' : k = l
           /\ \A a, b \in primaryAcct' : a = b,
         ~raced' =>
           /\ ~raced
           /\ profiles > 0 => profiles' > 0
           /\ \/ kin \subseteq kin'
              \/ /\ kin' # {}
                 /\ \A q \in Slots \ {s} : step[q] \notin {"kinLoad", "kinDelete"}
           /\ accounts' = accounts \/ (profiles' > 0 /\ kin' # {})
  PROVE  IInv'
  <1>1. ~overlapped' => ~overlapped /\ \A q \in Slots : step'[q] = "idle"
    BY DEF Moves
  <1>2. AloneInv'
    BY <1>1 DEF AloneInv
  <1>3. WaitingClient'
    BY <1>1 DEF WaitingClient
  <1>4. ~raced' /\ kin \subseteq kin' => (Cardinality(kin) > 1 => Cardinality(kin') > 1)
    BY FS_Subset, FS_CardinalityType DEF CapInv, IInv
  <1>5. KycInv'
    <2> SUFFICES ASSUME ~raced', NEW q \in Slots
                 PROVE  /\ step'[q] \in {"kinLoad", "kinDelete"} => Cardinality(kin') > 1
                        /\ step'[q] \in {"accounts", "accountInsert"} =>
                             profiles' > 0 /\ kin' # {}
      BY DEF KycInv
    <2>1. CASE q = s
      BY <2>1 DEF Moves
    <2>2. CASE q # s
      <3>1. step'[q] = step[q] /\ ~raced
        BY <2>2 DEF Moves
      <3>2. /\ step[q] \in {"kinLoad", "kinDelete"} => Cardinality(kin) > 1 /\ kin \subseteq kin'
            /\ step[q] \in {"accounts", "accountInsert"} => profiles > 0 /\ kin # {}
        BY <2>2, <3>1 DEF IInv, KycInv
      <3>3. kin # {} => kin' # {}
        OBVIOUS
      <3> QED
        BY <3>1, <3>2, <3>3, <1>4
    <2> QED
      BY <2>1, <2>2
  <1>6. KycHolds'
    BY DEF IInv, KycHolds
  <1> QED
    BY <1>2, <1>3, <1>5, <1>6 DEF IInv

-----------------------------------------------------------------------------
\* create_user_profile looks for a profile.
LEMMA ProfileQuery == ASSUME IInv, NEW s \in Slots, LookForProfile(s) PROVE IInv'
  <1>1. Nothing \in Memo /\ "profileInsert" \in Steps
    BY DEF Nothing, Memo, Steps
  <1>2. Moves(s, "profileInsert")
    BY <1>1, BeginMoves DEF LookForProfile, IInv
  <1> QED
    BY <1>1, <1>2, QueryInv DEF LookForProfile, Begin, Adding

\* validate_next_of_kin_creation.
LEMMA KinQueries ==
  ASSUME IInv, NEW s \in Slots, CountKin(s) \/ LookForPrimary(s)
  PROVE  IInv'
  <1>1. CASE CountKin(s)
    <2>1. PICK p \in BOOLEAN :
            /\ Cardinality(kin) < MAX_NEXT_OF_KIN
            /\ Begin(s, IF p THEN "kinPrimary" ELSE "kinInsert",
                     [Nothing EXCEPT !.primary = p \/ kin = {}])
      BY <1>1 DEF CountKin
    <2> DEFINE next == IF p THEN "kinPrimary" ELSE "kinInsert"
               r    == [Nothing EXCEPT !.primary = p \/ kin = {}]
    <2>2. next \in Steps /\ r \in Memo /\ r.primary = (p \/ kin = {})
      BY DEF Nothing, Memo, Steps
    <2>3. Moves(s, next) /\ memo'[s] = r
      BY <2>1, <2>2, BeginMoves DEF IInv
    <2>4. next = "kinInsert" /\ r.primary => primaryKin = {}
      BY <2>2 DEF IInv, TypeOK
    <2>5. UNCHANGED <<rowVars, raced>>
      BY <2>1 DEF Begin
    <2> QED
      BY <2>1, <2>2, <2>3, <2>4, <2>5, QueryInv
  <1>2. CASE LookForPrimary(s)
    <2>1. memo[s] \in Memo /\ memo' = [memo EXCEPT ![s] = memo[s]] /\ "kinInsert" \in Steps
      BY <1>2 DEF LookForPrimary, IInv, TypeOK, Steps
    <2>2. Moves(s, "kinInsert")
      BY <1>2, <2>1, ContinueMoves DEF LookForPrimary, IInv
    <2> QED
      BY <1>2, <2>1, <2>2, QueryInv DEF LookForPrimary, Continue, Adding
  <1> QED
    BY <1>1, <1>2

\* update_next_of_kin before its commit.
LEMMA UpdateQueries ==
  ASSUME IInv, NEW s \in Slots, LoadKin(s) \/ FindPrimary(s) \/ CountForUnset(s)
  PROVE  IInv'
  <1>1. CASE LoadKin(s)
    <2>1. PICK k \in kin, p \in BOOLEAN :
            Begin(s, IF p THEN "findPrimary" ELSE "countForUnset",
                  [primary |-> p, target |-> k, was |-> k \in primaryKin, other |-> None])
      BY <1>1 DEF LoadKin
    <2> DEFINE next == IF p THEN "findPrimary" ELSE "countForUnset"
               r == [primary |-> p, target |-> k, was |-> k \in primaryKin, other |-> None]
    <2>2. next \in Steps /\ r \in Memo /\ (next = "countForUnset" => ~r.primary)
      BY DEF Memo, Steps, IInv, TypeOK
    <2>3. Moves(s, next) /\ memo'[s] = r
      BY <2>1, <2>2, BeginMoves DEF IInv
    <2>4. UNCHANGED <<rowVars, raced>>
      BY <2>1 DEF Begin
    <2> QED
      BY <2>2, <2>3, <2>4, QueryInv DEF Adding
  <1>2. CASE FindPrimary(s)
    <2>1. PICK r \in Memo :
            /\ memo' = [memo EXCEPT ![s] = r]
            /\ ~overlapped => primaryKin \subseteq {r.target, r.other}
      <3>1. CASE (primaryKin = {} \/ memo[s].target \in primaryKin) /\ UNCHANGED memo
        <4>1. memo[s] \in Memo /\ memo' = [memo EXCEPT ![s] = memo[s]]
          BY <3>1 DEF IInv, TypeOK
        <4>2. ~overlapped => primaryKin \subseteq {memo[s].target, memo[s].other}
          BY <3>1 DEF IInv, WaitingClient
        <4> QED
          BY <4>1, <4>2
      <3>2. CASE \E k \in primaryKin \ {memo[s].target} : memo' = [memo EXCEPT ![s].other = k]
        <4>1. PICK k \in primaryKin : memo' = [memo EXCEPT ![s].other = k]
          BY <3>2
        <4> DEFINE r == [memo[s] EXCEPT !.other = k]
        <4>2. r \in Memo /\ r.other = k /\ memo' = [memo EXCEPT ![s] = r]
          BY <4>1 DEF IInv, TypeOK, Memo
        <4>3. ~overlapped => primaryKin \subseteq {r.target, r.other}
          BY <4>2 DEF IInv, WaitingClient
        <4> QED
          BY <4>2, <4>3
      <3> QED
        BY <1>2, <3>1, <3>2 DEF FindPrimary
    <2>2. "kinSave" \in Steps
      BY DEF Steps
    <2>3. Moves(s, "kinSave") /\ memo'[s] = r
      BY <1>2, <2>1, <2>2, ContinueMoves DEF FindPrimary, IInv
    <2> QED
      BY <1>2, <2>1, <2>2, <2>3, QueryInv DEF FindPrimary, Continue, Adding
  <1>3. CASE CountForUnset(s)
    <2>1. memo[s] \in Memo /\ memo' = [memo EXCEPT ![s] = memo[s]] /\ "kinSave" \in Steps
      BY <1>3 DEF CountForUnset, IInv, TypeOK, Steps
    <2>2. Moves(s, "kinSave")
      BY <1>3, <2>1, ContinueMoves DEF CountForUnset, IInv
    <2>3. ~overlapped => ~memo'[s].primary
      BY <1>3 DEF CountForUnset, IInv, AloneInv
    <2> QED
      BY <1>3, <2>1, <2>2, <2>3, QueryInv DEF CountForUnset, Continue, Adding
  <1> QED
    BY <1>1, <1>2, <1>3

\* delete_next_of_kin before its commit.
LEMMA DeleteQueries ==
  ASSUME IInv, NEW s \in Slots, CountForDelete(s) \/ LoadForDelete(s)
  PROVE  IInv'
  <1>1. CASE CountForDelete(s)
    <2>1. Nothing \in Memo /\ "kinLoad" \in Steps
      BY DEF Nothing, Memo, Steps
    <2>2. Moves(s, "kinLoad")
      BY <1>1, <2>1, BeginMoves DEF CountForDelete, IInv
    <2> QED
      BY <1>1, <2>1, <2>2, QueryInv DEF CountForDelete, Begin, Adding
  <1>2. CASE LoadForDelete(s)
    <2>1. PICK k \in kin : memo' = [memo EXCEPT ![s].target = k]
      BY <1>2 DEF LoadForDelete
    <2> DEFINE r == [memo[s] EXCEPT !.target = k]
    <2>2. r \in Memo /\ memo' = [memo EXCEPT ![s] = r] /\ "kinDelete" \in Steps
      BY <2>1 DEF IInv, TypeOK, Memo, Steps
    <2>3. Moves(s, "kinDelete")
      BY <1>2, <2>2, ContinueMoves DEF LoadForDelete, IInv
    <2>4. ~raced => Cardinality(kin) > 1
      BY <1>2 DEF LoadForDelete, IInv, KycInv
    <2> QED
      BY <1>2, <2>2, <2>3, <2>4, QueryInv DEF LoadForDelete, Continue, Adding
  <1> QED
    BY <1>1, <1>2

\* create_bank_account before its commit.
LEMMA AccountQueries ==
  ASSUME IInv, NEW s \in Slots, CheckKyc(s) \/ CheckAccounts(s)
  PROVE  IInv'
  <1>1. CASE CheckKyc(s)
    <2>1. PICK p \in BOOLEAN :
            profiles > 0 /\ kin # {} /\ Begin(s, "accounts", [Nothing EXCEPT !.primary = p])
      BY <1>1 DEF CheckKyc
    <2>2. [Nothing EXCEPT !.primary = p] \in Memo /\ "accounts" \in Steps
      BY DEF Nothing, Memo, Steps
    <2>3. Moves(s, "accounts")
      BY <2>1, <2>2, BeginMoves DEF IInv
    <2> QED
      BY <2>1, <2>2, <2>3, QueryInv DEF Begin, Adding
  <1>2. CASE CheckAccounts(s)
    <2> DEFINE r == [memo[s] EXCEPT !.primary = @ \/ accounts = {}]
    <2>1. /\ r \in Memo /\ r.primary = (memo[s].primary \/ accounts = {})
          /\ memo' = [memo EXCEPT ![s] = r] /\ "accountInsert" \in Steps
      <3>1. memo[s] \in Memo /\ memo[s].primary \in BOOLEAN
        BY DEF IInv, TypeOK, Memo
      <3>2. r \in Memo
        BY <3>1 DEF Memo
      <3>3. r.primary = (memo[s].primary \/ accounts = {})
        BY <3>1 DEF Memo
      <3>4. memo' = [memo EXCEPT ![s] = r] /\ "accountInsert" \in Steps
        BY <1>2 DEF CheckAccounts, Steps
      <3> QED
        BY <3>2, <3>3, <3>4
    <2>2. Moves(s, "accountInsert") /\ memo'[s] = r
      BY <1>2, <2>1, ContinueMoves DEF CheckAccounts, IInv
    <2>3. r.primary => primaryAcct = {}
      BY <1>2, <2>1 DEF CheckAccounts, IInv, TypeOK
    <2>4. ~raced => profiles > 0 /\ kin # {}
      BY <1>2 DEF CheckAccounts, IInv, KycInv
    <2>5. Cardinality(accounts) < MAX_BANK_ACCOUNTS /\ UNCHANGED <<rowVars, raced>>
      BY <1>2 DEF CheckAccounts, Continue
    <2> QED
      BY <2>1, <2>2, <2>3, <2>4, <2>5, QueryInv DEF Adding
  <1> QED
    BY <1>1, <1>2

-----------------------------------------------------------------------------
\* The commit of create_user_profile.
LEMMA InsertProfileInv == ASSUME IInv, NEW s \in Slots, InsertProfile(s) PROVE IInv'
  <1> USE DEF InsertProfile
  <1>1. Moves(s, "idle") /\ "idle" \in Steps
    BY DoneMoves DEF IInv, Steps, TypeOK
  <1>2. TypeOK'
    BY <1>1 DEF IInv, TypeOK, Moves
  <1>3. CapInv'
    <2>1. /\ IsFiniteSet(kin) /\ Cardinality(kin) \in Nat
          /\ IsFiniteSet(accounts) /\ Cardinality(accounts) \in Nat
          /\ Cardinality(primaryAcct) \in Nat
      BY Finite DEF IInv
    <2> QED
      BY <1>1, <1>2, <2>1, CapStep DEF IInv, Adding
  <1>4. ~overlapped => profiles = 0
    BY DEF IInv, AloneInv
  <1> QED
    BY <1>1, <1>2, <1>3, <1>4, WriteInv DEF IInv, TypeOK, WaitingClient

\* The commit of create_next_of_kin.
LEMMA InsertKinInv == ASSUME IInv, NEW s \in Slots, InsertKin(s) PROVE IInv'
  <1> USE DEF InsertKin
  <1>1. Moves(s, "idle") /\ "idle" \in Steps
    BY DoneMoves DEF IInv, Steps, TypeOK
  <1>2. PICK k \in Kin :
          /\ kin' = kin \cup {k}
          /\ primaryKin' = IF memo[s].primary THEN primaryKin \cup {k} ELSE primaryKin
    OBVIOUS
  <1>3. TypeOK'
    BY <1>1, <1>2 DEF IInv, TypeOK, Moves
  <1>4. /\ IsFiniteSet(kin') /\ Cardinality(kin) \in Nat
        /\ Cardinality(kin') \in Nat /\ Cardinality(kin') <= Cardinality(kin) + 1
    BY <1>2, Finite, AddRecord DEF IInv
  <1>5. CapInv'
    <2>1. /\ IsFiniteSet(accounts) /\ Cardinality(accounts) \in Nat
          /\ Cardinality(primaryAcct) \in Nat
      BY Finite DEF IInv
    <2> QED
      BY <1>1, <1>3, <1>4, <2>1, CapStep DEF IInv, Adding
  <1>6. ~overlapped => /\ Cardinality(kin) < MAX_NEXT_OF_KIN
                       /\ memo[s].primary => primaryKin = {}
    BY DEF IInv, AloneInv
  <1>7. ~overlapped => Cardinality(kin') <= MAX_NEXT_OF_KIN
    BY <1>4, <1>6, CapsAssumption
  <1>8. ~overlapped => \A j, l \in primaryKin' : j = l
    BY <1>2, <1>6 DEF IInv, WaitingClient
  <1> QED
    BY <1>1, <1>2, <1>3, <1>5, <1>7, <1>8, WriteInv DEF IInv, WaitingClient

\* The commit of update_next_of_kin.
LEMMA SaveKinInv == ASSUME IInv, NEW s \in Slots, SaveKin(s) PROVE IInv'
  <1> USE DEF SaveKin
  <1> DEFINE m == memo[s]
             flagged == IF m.primary = m.was THEN {} ELSE {m.target}
  <1>1. Moves(s, "idle") /\ "idle" \in Steps
    BY DoneMoves DEF IInv, Steps, TypeOK
  <1>2. /\ flagged \subseteq kin
        /\ primaryKin' = IF m.primary THEN (primaryKin \ {m.other}) \cup flagged
                                      ELSE primaryKin \ flagged
    OBVIOUS
  <1>3. TypeOK'
    BY <1>1, <1>2 DEF IInv, TypeOK, Moves
  <1>4. CapInv'
    <2>1. /\ IsFiniteSet(kin) /\ Cardinality(kin) \in Nat
          /\ IsFiniteSet(accounts) /\ Cardinality(accounts) \in Nat
          /\ Cardinality(primaryAcct) \in Nat
      BY Finite DEF IInv
    <2> QED
      BY <1>1, <1>3, <2>1, CapStep DEF IInv, Adding
  <1>5. ~overlapped => \A j, l \in primaryKin' : j = l
    BY <1>2 DEF IInv, AloneInv, WaitingClient
  <1> QED
    BY <1>1, <1>3, <1>4, <1>5, WriteInv DEF IInv, WaitingClient

\* The commit of delete_next_of_kin.
LEMMA DeleteKinInv == ASSUME IInv, NEW s \in Slots, DeleteKin(s) PROVE IInv'
  <1> USE DEF DeleteKin
  <1>1. Moves(s, "idle") /\ "idle" \in Steps
    BY DoneMoves DEF IInv, Steps, TypeOK
  <1>2. TypeOK'
    BY <1>1 DEF IInv, TypeOK, Moves
  <1>3. /\ IsFiniteSet(kin') /\ Cardinality(kin) \in Nat
        /\ Cardinality(kin') \in Nat /\ Cardinality(kin') <= Cardinality(kin)
        /\ Cardinality(kin) > 1 => kin' # {}
    BY Finite, RemoveRecord DEF IInv
  <1>4. CapInv'
    <2>1. /\ IsFiniteSet(accounts) /\ Cardinality(accounts) \in Nat
          /\ Cardinality(primaryAcct) \in Nat
      BY Finite DEF IInv
    <2>2. /\ profiles' = profiles /\ IsFiniteSet(accounts')
          /\ Cardinality(accounts') <= Cardinality(accounts)
          /\ Cardinality(primaryAcct') <= Cardinality(primaryAcct)
      BY <2>1
    <2>3. "idle" \notin Adding
      BY DEF Adding
    <2> QED
      BY <1>1, <1>2, <1>3, <2>2, <2>3, CapStep DEF IInv
  <1>5. ~raced' => /\ ~raced /\ kin' # {}
                   /\ \A q \in Slots \ {s} : step[q] \notin {"kinLoad", "kinDelete"}
    BY <1>3 DEF IInv, KycInv
  <1>6. ~overlapped => Cardinality(kin') <= MAX_NEXT_OF_KIN
    BY <1>3, CapsAssumption DEF IInv, WaitingClient
  <1> QED
    BY <1>1, <1>2, <1>4, <1>5, <1>6, WriteInv DEF IInv, WaitingClient

\* The commit of create_bank_account.
LEMMA InsertAccountInv == ASSUME IInv, NEW s \in Slots, InsertAccount(s) PROVE IInv'
  <1> USE DEF InsertAccount
  <1>1. Moves(s, "idle") /\ "idle" \in Steps
    BY DoneMoves DEF IInv, Steps, TypeOK
  <1>2. PICK a \in Ids \ accounts :
          /\ accounts' = accounts \cup {a}
          /\ primaryAcct' = IF memo[s].primary THEN primaryAcct \cup {a} ELSE primaryAcct
    OBVIOUS
  <1>3. TypeOK'
    BY <1>1, <1>2 DEF IInv, TypeOK, Moves
  <1>4. /\ IsFiniteSet(accounts') /\ Cardinality(accounts) \in Nat
        /\ Cardinality(accounts') \in Nat /\ Cardinality(accounts') <= Cardinality(accounts) + 1
    BY <1>2, Finite, AddRecord DEF IInv
  <1>5. /\ Cardinality(kin) \in Nat /\ Cardinality(primaryAcct) \in Nat
        /\ Cardinality(primaryAcct \cup {a}) <= Cardinality(primaryAcct) + 1
    <2>1. Cardinality(kin) \in Nat /\ Cardinality(primaryAcct) \in Nat
          /\ IsFiniteSet(primaryAcct)
      BY Finite DEF IInv
    <2> QED
      BY <2>1, AddRecord
  <1>6. CapInv'
    <2>1. IsFiniteSet(kin)
      BY Finite DEF IInv
    <2>2. profiles' = profiles /\ IsFiniteSet(kin') /\ Cardinality(kin') <= Cardinality(kin)
      BY <1>5, <2>1
    <2>3. "idle" \notin Adding
      BY DEF Adding
    <2>4. \/ Cardinality(primaryAcct') <= Cardinality(primaryAcct)
          \/ Cardinality(primaryAcct') <= Cardinality(primaryAcct) + 1 /\ memo[s].primary
      <3>1. CASE memo[s].primary
        BY <1>2, <1>5, <3>1
      <3>2. CASE ~memo[s].primary
        <4>1. primaryAcct' = primaryAcct
          BY <1>2, <3>2
        <4> QED
          BY <1>5, <4>1
      <3> QED
        BY <3>1, <3>2
    <2> QED
      BY <1>1, <1>3, <1>4, <2>2, <2>3, <2>4, CapStep DEF IInv
  <1>7. ~overlapped => /\ Cardinality(accounts) < MAX_BANK_ACCOUNTS
                       /\ memo[s].primary => primaryAcct = {}
    BY DEF IInv, AloneInv
  <1>8. ~overlapped => Cardinality(accounts') <= MAX_BANK_ACCOUNTS
    BY <1>4, <1>7, CapsAssumption
  <1>9. ~overlapped => \A b, c \in primaryAcct' : b = c
    BY <1>2, <1>7 DEF IInv, WaitingClient
  <1>10. ~raced => profiles > 0 /\ kin # {}
    BY DEF IInv, KycInv
  <1> QED
    BY <1>1, <1>3, <1>6, <1>7, <1>8, <1>9, <1>10, WriteInv DEF IInv, WaitingClient

\* A request that ends without a commit.
LEMMA AbortInv == ASSUME IInv, NEW s \in Slots, Abort(s) PROVE IInv'
  <1>1. Moves(s, "idle") /\ "idle" \in Steps
    BY DoneMoves DEF Abort, IInv, Steps, TypeOK
  <1> QED
    BY <1>1, QueryInv DEF Abort, Adding

-----------------------------------------------------------------------------
\* The initial state satisfies the invariant.
LEMMA InitInv == Init => IInv
  <1> SUFFICES ASSUME Init PROVE IInv
    OBVIOUS
  <1> USE DEF Init
  <1>1. TypeOK
    BY DEF TypeOK, Steps, Memo, Nothing
  <1>2. CapInv
    <2>1. \A X : "idle" \notin X => At(X) = {}
      BY DEF At
    <2>2. At({"profileInsert"}) = {} /\ At({"kinPrimary", "kinInsert"}) = {}
          /\ At({"accountInsert"}) = {} /\ NewPrimaries = {}
      BY <2>1 DEF NewPrimaries
    <2>3. Cardinality(Slots) - 1 \in Nat
      BY FurtherType DEF Further
    <2>4. /\ IsFiniteSet(kin) /\ IsFiniteSet(accounts)
          /\ profiles = 0 /\ Cardinality(kin) = 0
          /\ Cardinality(accounts) = 0 /\ Cardinality(primaryAcct) = 0
      BY FS_EmptySet
    <2>5. /\ Cardinality(At({"profileInsert"})) = 0
          /\ Cardinality(At({"kinPrimary", "kinInsert"})) = 0
          /\ Cardinality(At({"accountInsert"})) = 0 /\ Cardinality(NewPrimaries) = 0
      BY <2>2, FS_EmptySet
    <2> HIDE DEF Init
    <2> QED
      BY <2>3, <2>4, <2>5, CapsAssumption DEF CapInv
  <1>3. AloneInv
    BY DEF AloneInv
  <1>4. WaitingClient /\ KycInv /\ KycHolds
    BY FS_EmptySet, CapsAssumption DEF WaitingClient, KycInv, KycHolds
  <1> QED
    BY <1>1, <1>2, <1>3, <1>4 DEF IInv

\* Every step preserves the invariant.
LEMMA NextInv == IInv /\ [Next]_vars => IInv'
  <1> SUFFICES ASSUME IInv, [Next]_vars PROVE IInv'
    OBVIOUS
  <1>1. CASE Next
    BY <1>1, ProfileQuery, KinQueries, UpdateQueries, DeleteQueries, AccountQueries,
       InsertProfileInv, InsertKinInv, SaveKinInv, DeleteKinInv, InsertAccountInv, AbortInv
       DEF Next
  <1>2. CASE UNCHANGED vars
    BY <1>2 DEF vars, rowVars, IInv, TypeOK, CapInv, AloneInv, WaitingClient, KycInv,
                KycHolds, At, NewPrimaries
  <1> QED
    BY <1>1, <1>2

-----------------------------------------------------------------------------
\* Types, caps with the requests that are about to use them, and what a request
\* that is alone relies on.
THEOREM Invariance == Spec => []IInv
  BY InitInv, NextInv, PTL DEF Spec

\* However many requests overlap, every further request under way exceeds a cap by
\* one record at most (next_of_kin/service.py:48, bank_account/service.py:66).
THEOREM OvershootBounded == Spec => []Overshoot
  <1>1. IInv => Overshoot
    <2> SUFFICES ASSUME IInv PROVE Overshoot
      OBVIOUS
    <2>1. /\ Cardinality(kin) \in Nat /\ Cardinality(accounts) \in Nat
          /\ Cardinality(primaryAcct) \in Nat
      BY Finite DEF IInv
    <2>2. \A X \in SUBSET Slots : Cardinality(X) \in Nat
      BY SlotsAssumption, FS_Subset, FS_CardinalityType
    <2>3. /\ Cardinality(At({"profileInsert"})) \in Nat
          /\ Cardinality(At({"kinPrimary", "kinInsert"})) \in Nat
          /\ Cardinality(At({"accountInsert"})) \in Nat
          /\ Cardinality(NewPrimaries) \in Nat
      BY <2>2 DEF At, NewPrimaries
    <2> QED
      BY <2>1, <2>3, FurtherType, CapsAssumption
         DEF IInv, TypeOK, CapInv, Overshoot, Further
  <1> QED
    BY <1>1, Invariance, PTL

\* A user whose requests never overlap keeps to every cap and has one primary
\* record of each kind at most (next_of_kin/service.py:1).
THEOREM WaitingClientRules == Spec => []WaitingClient
  <1>1. IInv => WaitingClient
    BY DEF IInv
  <1> QED
    BY <1>1, Invariance, PTL

\* Nothing that overlaps the opening of an account, or happens after it, undoes its KYC
\* precondition, except a race of deletions (bank_account/service.py:32-38,
\* next_of_kin/service.py:142-156).
THEOREM KycKept == Spec => []KycHolds
  <1>1. IInv => KycHolds
    BY DEF IInv
  <1> QED
    BY <1>1, Invariance, PTL
=============================================================================
