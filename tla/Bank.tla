-------------------------------- MODULE Bank --------------------------------
(***************************************************************************)
(* What the money movement of Bankito promises, without sessions, locks or *)
(* statuses: balances change only when the instruction of a transaction is *)
(* carried out, which debits one account and credits another in one atomic *)
(* step that never overdraws.                                              *)
(***************************************************************************)
EXTENDS Integers

CONSTANTS Accounts, Txns, Opening, None

VARIABLES
  balance,   \* balance of every account
  instr,     \* what each transaction instructs: [from, to, amount, credit]
  moves      \* how many times each was carried out

vars == <<balance, instr, moves>>

Init == balance = Opening /\ moves = [t \in Txns |-> 0]

\* An instruction may be given, or replaced, until it is carried out.
Instruct ==
  /\ \A t \in Txns : moves[t] > 0 => instr'[t] = instr[t]
  /\ UNCHANGED <<balance, moves>>

Debit(t, a)  == IF a = instr[t].from THEN instr[t].amount ELSE 0
Credit(t, a) == IF a = instr[t].to THEN instr[t].credit ELSE 0

Settle(t) ==
  /\ \A a \in Accounts : a = instr[t].from => balance[a] >= instr[t].amount
  /\ balance' = [a \in Accounts |-> balance[a] - Debit(t, a) + Credit(t, a)]
  /\ moves' = [moves EXCEPT ![t] = @ + 1]
  /\ UNCHANGED instr

Next == Instruct \/ \E t \in Txns : Settle(t)

Spec == Init /\ [][Next]_vars
=============================================================================
