SPECIFICATION FairSpec
CONSTANTS
  d1 = d1  l1 = l1  r = r  box = box  app = app  acp = acp  j1 = j1  j2 = j2
  Plane = {d1, l1}
  Host = {d1, l1, r}
  Name = {box}
  Service = {app, acp}
  Acp = acp
  Local = Local
  Loopback = Loopback
  None = None
  Plain = Plain
  Job = {j1}
  Visible = {app}
  MaxChanges = 2
  Instances <- MCInstances
  Fixed <- MCFixed
  PlatOf <- MCPlatOf
  Channel <- MCChannel
  DefaultMachine <- MCDefault
  AnnouncedHost <- MCAnnounced
  Before <- MCBefore
  ServiceOf <- MCServiceOf
  Layouts <- MCLayouts
INVARIANTS TypeOK LandsWhereTold BoundStaysDeployable
PROPERTIES JobsSettle
CHECK_DEADLOCK FALSE
