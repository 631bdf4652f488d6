SPECIFICATION FairSpec
CONSTANTS
  s1 = s1 s2 = s2 i1 = i1 a = a b = b p1 = p1 p3 = p3
  Service = {s1, s2} Port = {p1, p3} NoPort = NoPort
  Piped = {i1} Posted = {d1} Tag = {g} TagOf <- BuildsOne
  Client = {a, b} Starter = {b} Body <- Bodies Keep = Keep None = None
  Registered = {s1, s2} Befores <- Tables Seed <- Seeds MaxRequests = 3
INVARIANTS TypeOK ContractsConsistent
PROPERTIES OnlyNewWorkIsCaught MoveIsWhole WorkSettles
CHECK_DEADLOCK FALSE
