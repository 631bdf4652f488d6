SPECIFICATION FairSpec
CONSTANTS
  d1 = d1  d2 = d2  t1 = t1
  Plane = {d1, d2}
  Tag = {t1}
  None = None
  MaxFaults = 1
  PartOrder <- MCPartOrder
  Backends <- AllBackends
INVARIANTS TypeOK QueuedHasPackage
PROPERTIES NothingLeaks StoreHeals
CHECK_DEADLOCK FALSE
