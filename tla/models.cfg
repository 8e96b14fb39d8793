CONSTANTS
  m1 = m1
  m2 = m2
  m3 = m3
  j1 = j1
  j2 = j2
  t1 = t1
  t2 = t2
  None = None
  Models = {m1, m2, m3}
  Auc <- MCAuc
  Trained = {m1, m2}
  ByHand = {m1}
  Jobs = {j1, j2}
  performance_threshold = 85
  Txns = {t1, t2}
  Amount <- MCAmount
  Hour <- MCHour
  ModelScores = {10, 90}
SYMMETRY Interchangeable
SPECIFICATION Spec
INVARIANTS TypeOK OneUnlessRaced LargeNeedsModel MissesAreAccidents
PROPERTIES ProductionStays Upgrades
