CONSTANTS
  s1 = s1
  s2 = s2
  c1 = c1
  c2 = c2
  Slots = {s1, s2}
  Codes = {c1, c2}
  NoCode = NoCode
  LOGIN_ATTEMPTS = 2
  MaxWrong = 3
SPECIFICATION FairSpec
INVARIANTS NoSessionWithoutPassword NoUnjustLockout CountedWhenAlone BoundedUse
PROPERTIES LockoutEnds
