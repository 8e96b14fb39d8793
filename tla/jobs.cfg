CONSTANTS
  p1 = p1
  p2 = p2
  i1 = i1
  s1 = s1
  e1 = e1
  inside = inside
  outside = outside
  None = None
  Given = Given
  Tasks = {p1, p2, i1, s1, e1}
  Kind <- MCKind
  Movements = {inside, outside}
  Period <- MCPeriod
  max_retries = 1
  Together <- MCTogether
  MaxLosses = 1
SPECIFICATION Spec
INVARIANTS TypeOK PhotoWasUploaded EffectsBounded 
PROPERTIES Ends
