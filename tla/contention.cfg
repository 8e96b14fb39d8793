CONSTANTS
  r1 = r1
  r2 = r2
  r3 = r3
  r4 = r4
  x1 = x1
  x2 = x2
  x3 = x3
  u1 = u1
  u2 = u2
  u3 = u3
  None = None
  Accounts <- ThreeAccounts
  Users <- ThreeUsers
  Owner <- ThreeOwner
  Opening <- ThreeOpening
  ActiveAtStart = {1, 2}
  Amounts = {2}
  Converted <- MCConverted
  Reqs = {r1, r2, r3, r4}
  Op <- ContentionWork
  OldTxns = {x1, x2, x3}
  OldTxn <- Ring
  OldOtp <- RingOtp
  Scores = {"clear", "flag", "fallback"}
  Fragile = {r1}
SPECIFICATION Spec
INVARIANTS NoDeadlock NonNegative IInv
PROPERTIES OnlyCompletionsSlip
