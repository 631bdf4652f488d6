SPECIFICATION Spec
CONSTANTS
  d1 = d1  d2 = d2  t1 = t1
  Plane = {d1, d2}
  Tag = {t1}
  None = None
  MaxFaults = 1
  PartOrder <- MCPartOrder
  Backends <- LocalOnly
INVARIANT PresentIsWhole
CHECK_DEADLOCK FALSE
