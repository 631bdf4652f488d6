SPECIFICATION FairSpec
CONSTANTS
  o1 = o1 x = x left = left
  Own = {o1} Foreign = {x} None = None Upgrader = Upgrader
  NoServer = {x} MaxStarts = 4 Orphan = {left} Setting <- Settings
INVARIANTS TypeOK
PROPERTIES StopFreesPort CutShortOnlyWhenDown WaitEnds HandedOverSettles
CHECK_DEADLOCK FALSE
