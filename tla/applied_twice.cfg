CONSTANTS
  r1 = r1
  r2 = r2
  r3 = r3
  r4 = r4
  x1 = x1
  x2 = x2
  x3 = x3
  u1 = u1
  u2 = u2
  u3 = u3
  None = None
  Accounts <- TwoAccounts
  Users <- TwoUsers
  Owner <- TwoOwner
  Opening <- TwoOpening
  ActiveAtStart = {1, 2}
  Amounts = {1}
  Converted <- MCConverted
  Reqs = {r1, r2}
  Op <- TwiceWork
  OldTxns = {x1}
  OldTxn <- OnePending
  OldOtp <- OneOtp
  Scores = {"clear"}
  Fragile = {}
SPECIFICATION Spec
INVARIANTS MovedOnce
