----------------------------- MODULE Onboarding -----------------------------
(***************************************************************************)
(* What a user sets up before money can move: a profile, next of kin and   *)
(* bank accounts.  The rules about them (caps, a single primary, a last    *)
(* next of kin, KYC before an account) are checked by queries and enforced *)
(* by a later commit, without locks and without constraints in the         *)
(* database, so requests of one user that overlap decide on the past.      *)
(* Every query names the user, so one user is modelled.                    *)
(***************************************************************************)
EXTENDS Integers, FiniteSets

CONSTANTS
  Slots,             \* the requests of the user that may be under way at once
  Kin,               \* ids of next-of-kin records (bounds the model)
  Ids,               \* ids of bank accounts (bounds the model)
  MAX_NEXT_OF_KIN,
  MAX_BANK_ACCOUNTS,
  None

ASSUME SlotsAssumption == IsFiniteSet(Slots) /\ Slots # {}
ASSUME CapsAssumption  == MAX_NEXT_OF_KIN \in Nat \ {0} /\ MAX_BANK_ACCOUNTS \in Nat \ {0}
ASSUME NoneAssumption  == None \notin Kin

VARIABLES
  profiles,    \* number of the user's profile rows
  kin,         \* the user's next-of-kin records
  primaryKin,  \* ... those with is_primary
  accounts,    \* the user's bank accounts
  primaryAcct, \* ... those with is_primary
  step,        \* where the request in each slot is
  memo,        \* what it has read
  overlapped,  \* history: two requests of the user were once under way together
  raced        \* history: a next of kin was deleted while another deletion was under way

rowVars == <<profiles, kin, primaryKin, accounts, primaryAcct>>
vars    == <<rowVars, step, memo, overlapped, raced>>

Steps == {"idle", "profileInsert", "kinPrimary", "kinInsert", "findPrimary",
          "countForUnset", "kinSave", "kinLoad", "kinDelete", "accounts", "accountInsert"}

\* primary: the flag to be written; target: the record to be changed, was: its
\* flag when loaded; other: the primary record that is to be demoted.
Memo == [primary : BOOLEAN, target : Kin \cup {None}, was : BOOLEAN,
         other : Kin \cup {None}]

Nothing == [primary |-> FALSE, target |-> None, was |-> FALSE, other |-> None]

Init ==
  /\ profiles = 0
  /\ kin = {} /\ primaryKin = {}
  /\ accounts = {} /\ primaryAcct = {}
  /\ step = [s \in Slots |-> "idle"]
  /\ memo = [s \in Slots |-> Nothing]
  /\ overlapped = FALSE /\ raced = FALSE

\* A request arrives, and its first query found what it requires.
Begin(s, next, remembered) ==
  /\ step[s] = "idle"
  /\ step' = [step EXCEPT ![s] = next]
  /\ memo' = [memo EXCEPT ![s] = remembered]
  /\ overlapped' = (overlapped \/ \E q \in Slots \ {s} : step[q] # "idle")
  /\ UNCHANGED <<rowVars, raced>>

\* A later query of the request found what it requires.
Continue(s, next) ==
  /\ step' = [step EXCEPT ![s] = next]
  /\ UNCHANGED <<rowVars, overlapped, raced>>

\* The request ends.
Done(s) ==
  /\ step' = [step EXCEPT ![s] = "idle"]
  /\ memo' = [memo EXCEPT ![s] = Nothing]
  /\ UNCHANGED overlapped

\* A new uuid: no row has it, and no request refers to a deleted row that had it.
Fresh(k) == k \notin kin /\ \A s \in Slots : k \notin {memo[s].target, memo[s].other}

-----------------------------------------------------------------------------
\* create_user_profile
LookForProfile(s) == profiles = 0 /\ Begin(s, "profileInsert", Nothing)

InsertProfile(s) ==
  /\ step[s] = "profileInsert"
  /\ profiles' = profiles + 1
  /\ Done(s)
  /\ UNCHANGED <<kin, primaryKin, accounts, primaryAcct, raced>>

---------------------------------------------------------------------------
\* create_next_of_kin

\* (mutant) The cap is compared with the count before the new record.
CountKinLoosely(s) ==
  \E p \in BOOLEAN :
    /\ Cardinality(kin) <= MAX_NEXT_OF_KIN
    /\ Begin(s, IF p THEN "kinPrimary" ELSE "kinInsert",
             [Nothing EXCEPT !.primary = p \/ kin = {}])

\* The count; the first record becomes primary unasked.
CountKin(s) ==
  \E p \in BOOLEAN :
    /\ Cardinality(kin) < MAX_NEXT_OF_KIN
    /\ Begin(s, IF p THEN "kinPrimary" ELSE "kinInsert",
             [Nothing EXCEPT !.primary = p \/ kin = {}])

\* A primary record was asked for, and there is none.
LookForPrimary(s) ==
  /\ step[s] = "kinPrimary" /\ primaryKin = {}
  /\ Continue(s, "kinInsert") /\ UNCHANGED memo

InsertKin(s) ==
  /\ step[s] = "kinInsert"
  /\ \E k \in Kin :
       /\ Fresh(k)
       /\ kin' = kin \cup {k}
       /\ primaryKin' = IF memo[s].primary THEN primaryKin \cup {k} ELSE primaryKin
  /\ Done(s)
  /\ UNCHANGED <<profiles, accounts, primaryAcct, raced>>

---------------------------------------------------------------------------
\* update_next_of_kin, when it sets is_primary

LoadKin(s) ==
  \E k \in kin, p \in BOOLEAN :
    Begin(s, IF p THEN "findPrimary" ELSE "countForUnset",
          [primary |-> p, target |-> k, was |-> k \in primaryKin, other |-> None])

\* Any primary record; another one than the target is to be demoted.
FindPrimary(s) ==
  /\ step[s] = "findPrimary"
  /\ \/ (primaryKin = {} \/ memo[s].target \in primaryKin) /\ UNCHANGED memo
     \/ \E k \in primaryKin \ {memo[s].target} : memo' = [memo EXCEPT ![s].other = k]
  /\ Continue(s, "kinSave")

CountForUnset(s) ==
  /\ step[s] = "countForUnset" /\ Cardinality(kin) # 1
  /\ Continue(s, "kinSave") /\ UNCHANGED memo

\* The flush writes the demoted record, and the target if its flag changes or
\* another of its columns does (more); it fails if one of the rows is gone.
SaveKin(s) ==
  /\ step[s] = "kinSave"
  /\ LET m == memo[s]
         flagged == IF m.primary = m.was THEN {} ELSE {m.target}
     IN \E more \in BOOLEAN :
          /\ flagged \cup (IF more THEN {m.target} ELSE {}) \cup ({m.other} \ {None})
               \subseteq kin
          /\ primaryKin' = IF m.primary THEN (primaryKin \ {m.other}) \cup flagged
                                        ELSE primaryKin \ flagged
  /\ Done(s)
  /\ UNCHANGED <<profiles, kin, accounts, primaryAcct, raced>>

---------------------------------------------------------------------------
\* delete_next_of_kin

\* (mutant) One record is enough to delete one.
CountSome(s) == Cardinality(kin) > 0 /\ Begin(s, "kinLoad", Nothing)

CountForDelete(s) == Cardinality(kin) > 1 /\ Begin(s, "kinLoad", Nothing)

LoadForDelete(s) ==
  /\ step[s] = "kinLoad"
  /\ \E k \in kin : memo' = [memo EXCEPT ![s].target = k]
  /\ Continue(s, "kinDelete")

\* A DELETE that matches no row is no error.
DeleteKin(s) ==
  /\ step[s] = "kinDelete"
  /\ kin' = kin \ {memo[s].target} /\ primaryKin' = primaryKin \ {memo[s].target}
  /\ raced' = (raced \/ \E q \in Slots \ {s} : step[q] \in {"kinLoad", "kinDelete"})
  /\ Done(s)
  /\ UNCHANGED <<profiles, accounts, primaryAcct>>

---------------------------------------------------------------------------
\* create_bank_account

\* validate_user_kyc, after profile and next of kin were loaded again.
CheckKyc(s) ==
  \E p \in BOOLEAN :
    profiles > 0 /\ kin # {} /\ Begin(s, "accounts", [Nothing EXCEPT !.primary = p])

\* (mutant) The first account does not count as primary, and may be doubled.
CheckCapOnly(s) ==
  /\ step[s] = "accounts"
  /\ Cardinality(accounts) < MAX_BANK_ACCOUNTS
  /\ memo' = [memo EXCEPT ![s].primary = @ \/ accounts = {}]
  /\ Continue(s, "accountInsert")

\* One query for the cap and for the primary account; the first account becomes
\* primary unasked.
CheckAccounts(s) ==
  /\ step[s] = "accounts"
  /\ Cardinality(accounts) < MAX_BANK_ACCOUNTS
  /\ memo[s].primary => primaryAcct = {}
  /\ memo' = [memo EXCEPT ![s].primary = @ \/ accounts = {}]
  /\ Continue(s, "accountInsert")

InsertAccount(s) ==
  /\ step[s] = "accountInsert"
  /\ \E a \in Ids \ accounts :
       /\ accounts' = accounts \cup {a}
       /\ primaryAcct' = IF memo[s].primary THEN primaryAcct \cup {a} ELSE primaryAcct
  /\ Done(s)
  /\ UNCHANGED <<profiles, kin, primaryKin, raced>>

---------------------------------------------------------------------------
\* A check fails, a row is gone when it is written, or the worker is lost.
Abort(s) ==
  /\ step[s] # "idle"
  /\ Done(s)
  /\ UNCHANGED <<rowVars, raced>>

Next ==
  \E s \in Slots :
    \/ LookForProfile(s) \/ InsertProfile(s)
    \/ CountKin(s) \/ LookForPrimary(s) \/ InsertKin(s)
    \/ LoadKin(s) \/ FindPrimary(s) \/ CountForUnset(s) \/ SaveKin(s)
    \/ CountForDelete(s) \/ LoadForDelete(s) \/ DeleteKin(s)
    \/ CheckKyc(s) \/ CheckAccounts(s) \/ InsertAccount(s)
    \/ Abort(s)

Spec == Init /\ [][Next]_vars

-----------------------------------------------------------------------------
\* Properties

\* Every variable has its type.
TypeOK ==
  /\ profiles \in Nat
  /\ kin \subseteq Kin /\ primaryKin \subseteq kin
  /\ accounts \subseteq Ids /\ primaryAcct \subseteq accounts
  /\ step \in [Slots -> Steps]
  /\ memo \in [Slots -> Memo]
  /\ overlapped \in BOOLEAN /\ raced \in BOOLEAN

\* Overlapping requests exceed a cap by at most one record per further request
\* that is under way (next_of_kin/service.py:48, bank_account/service.py:66).
Overshoot ==
  LET Further == Cardinality(Slots) - 1
  IN /\ profiles <= 1 + Further
     /\ Cardinality(kin) <= MAX_NEXT_OF_KIN + Further
     /\ Cardinality(accounts) <= MAX_BANK_ACCOUNTS + Further
     /\ Cardinality(primaryAcct) <= 1 + Further

\* A user who waits for every answer has one profile, at most three next of kin
\* and three accounts, and at most one primary of each, whatever is lost,
\* refused, promoted, demoted and deleted in between ("max 3 per user, one
\* primary", next_of_kin/service.py:1; README.md:16-18).
WaitingClient ==
  ~overlapped =>
    /\ profiles <= 1
    /\ Cardinality(kin) <= MAX_NEXT_OF_KIN
    /\ Cardinality(accounts) <= MAX_BANK_ACCOUNTS
    /\ \A k, l \in primaryKin : k = l
    /\ \A a, b \in primaryAcct : a = b

\* A user with an account still meets what opening it required ("Requires completed
\* profile and at least one next of kin", bank_account/routes/create.py:22-25),
\* however requests overlap, are refused or lost: one thing only takes the last next
\* of kin away, a deletion committed while another is under way, although deleting
\* is meant to guarantee "at least one remains" (next_of_kin/service.py:143).
KycHolds == ~raced /\ accounts # {} => profiles > 0 /\ kin # {}

\* The requests that have passed the check of a cap and not inserted yet.
At(steps) == {s \in Slots : step[s] \in steps}
NewPrimaries == {s \in At({"accountInsert"}) : memo[s].primary}

\* Records and requests about to insert one are together within the overshoot:
\* a request passes a check only while the cap is not reached.
CapInv ==
  LET Further == Cardinality(Slots) - 1
  IN /\ IsFiniteSet(kin) /\ IsFiniteSet(accounts)
     /\ profiles + Cardinality(At({"profileInsert"})) <= 1 + Further
     /\ Cardinality(kin) + Cardinality(At({"kinPrimary", "kinInsert"}))
          <= MAX_NEXT_OF_KIN + Further
     /\ Cardinality(accounts) + Cardinality(At({"accountInsert"}))
          <= MAX_BANK_ACCOUNTS + Further
     /\ Cardinality(primaryAcct) + Cardinality(NewPrimaries) <= 1 + Further

\* Without overlaps one request is under way, and what it has read is still true.
AloneInv ==
  ~overlapped =>
    /\ \A q, s \in Slots : step[q] # "idle" /\ step[s] # "idle" => q = s
    /\ \A s \in Slots :
         /\ step[s] = "profileInsert" => profiles = 0
         /\ step[s] \in {"kinPrimary", "kinInsert"} => Cardinality(kin) < MAX_NEXT_OF_KIN
         /\ step[s] = "kinInsert" /\ memo[s].primary => primaryKin = {}
         /\ step[s] = "countForUnset" => ~memo[s].primary
         /\ step[s] = "kinSave" /\ memo[s].primary =>
              primaryKin \subseteq {memo[s].target, memo[s].other}
         /\ step[s] = "accountInsert" => Cardinality(accounts) < MAX_BANK_ACCOUNTS
         /\ step[s] = "accountInsert" /\ memo[s].primary => primaryAcct = {}

\* What a deletion has counted and what an opening has checked hold until it commits,
\* whatever commits in between, as long as deletions do not race.
KycInv ==
  ~raced => \A s \in Slots :
    /\ step[s] \in {"kinLoad", "kinDelete"} => Cardinality(kin) > 1
    /\ step[s] \in {"accounts", "accountInsert"} => profiles > 0 /\ kin # {}

\* The inductive invariant behind the theorems.
IInv == TypeOK /\ CapInv /\ AloneInv /\ WaitingClient /\ KycInv /\ KycHolds
=============================================================================
