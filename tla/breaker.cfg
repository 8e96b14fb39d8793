CONSTANTS
  c1 = c1
  c2 = c2
  c3 = c3
  Callers = {c1, c2, c3}
  Cancellable = {c1, c2}
  Threshold = 2
  MaxFailures = 5
SPECIFICATION CBSpec
PROPERTIES FailsFast Recovers
