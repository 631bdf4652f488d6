SPECIFICATION Spec
CONSTANTS
  p1 = p1 p2 = p2 i1 = i1 i2 = i2 d3 = d3 d4 = d4
  Plane = {p1, p2} Deploy = {i1, i2, d3} Pipeline = {i1, i2} Posted = {i1} SelfDeploy = {}
  NoPlane = NoPlane NoDeploy = NoDeploy NoPipeline = NoPipeline Operator = Operator
  MaxCrashes = 1 MaxWait = FALSE
INVARIANTS TypeOK OnePackager WaitsForItsPackage ClosedAfterDeploy
SYMMETRY AnyPlane
PROPERTIES PipelineVerdictIsFinal
CHECK_DEADLOCK FALSE
