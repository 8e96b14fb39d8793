CONSTANTS
  k1 = k1
  u1 = u1
  u2 = u2
  r1 = r1
  r2 = r2
  r3 = r3
  r4 = r4
  r5 = r5
  r6 = r6
  KeyOf <- OneKey
  UserOf <- MixedUsers
  PathOf <- MixedPaths
  Prior <- MixedPrior
  Reqs = {r1, r2, r3, r4, r5, r6}
  Fragile = {r1}
  Lifetimes = {"short"}
SPECIFICATION Spec
INVARIANTS OneSuccess ReplaysAreGenuine RetriesAreReplayed
