CONSTANTS
  s1 = s1
  s2 = s2
  k1 = k1
  k2 = k2
  k3 = k3
  k4 = k4
  i1 = i1
  i2 = i2
  i3 = i3
  None = None
  Slots = {s1, s2}
  Kin = {k1, k2, k3, k4}
  Ids = {i1, i2, i3}
  MAX_NEXT_OF_KIN = 2
  MAX_BANK_ACCOUNTS = 2
SYMMETRY Interchangeable
SPECIFICATION Spec
INVARIANTS Overshoot WaitingClient KycHolds
