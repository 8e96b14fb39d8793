CONSTANTS
  r1 = r1
  r2 = r2
  r3 = r3
  Slots = {r1, r2, r3}
  max_requests = 2
  MaxRequests = 14
SYMMETRY Interchangeable
SPECIFICATION Spec
INVARIANTS PastLimit WindowUnlessTorn AdmittedBound
