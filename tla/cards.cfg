CONSTANTS
  a1 = a1
  a2 = a2
  c1 = c1
  c2 = c2
  r1 = r1
  r2 = r2
  r3 = r3
  r4 = r4
  r5 = r5
  r6 = r6
  r7 = r7
  r8 = r8
  None = None
  Accounts = {a1, a2}
  Cards = {c1, c2}
  Reqs = {r1, r2, r3, r4, r5, r6, r7, r8}
  Fragile = {r3}
  Busy = {a1}
  Outside <- InAndOut
  Account <- MCAccount
  Opening <- MCOpening
  Op <- MCOp
  Target <- MCTarget
  Amount <- MCAmount
  Prior <- MCPrior
SPECIFICATION Spec
INVARIANTS NonNegative NeverMoreThanPaid PendingIsEmpty Conserved
