SPECIFICATION FairSpec
CONSTANTS
  p1 = p1 p2 = p2 i1 = i1 i2 = i2 d3 = d3 d4 = d4
  Plane = {p1} Deploy = {i1, i2, d3, d4} Pipeline = {i1, i2} Posted = {i1, d3} SelfDeploy = {i1}
  NoPlane = NoPlane NoDeploy = NoDeploy NoPipeline = NoPipeline Operator = Operator
  MaxCrashes = 0 MaxWait = TRUE
INVARIANTS OneSlipsPast
PROPERTIES PipelineSettles DrainBecomesReady
CHECK_DEADLOCK FALSE
