SPECIFICATION Spec
CONSTANTS
  p1 = p1 p2 = p2 h1 = h1 d1 = d1 d2 = d2 d3 = d3 s1 = s1 s2 = s2
  x = x y = y z = z linux = linux darwin = darwin v1 = v1 v2 = v2
  Local = Local Unknown = Unknown NoPlane = NoPlane NoDeploy = NoDeploy NoDir = NoDir
  Old = Old Down = Down Torn = Torn Mixed = Mixed
  Plane = {p1} Host = {p1} Deploy = {d1, d2} Service = {s1, s2}
  Dir = {x, z} Platform = {linux} Version = {v1, v2}
  ServiceOf <- TwoServices TargetOf <- AllLocal VersionOf <- OwnVersions
  TagPlat <- NoLabel StampPlat <- NoLabel PkgPlat <- AllLinux
  PlatOf <- LinuxHosts Home <- HomeZ Graceful = {s1} Layouts <- SharedDir
  Visible = {} StopFaults = FALSE
  MaxCrashes = 1 DbFaults = FALSE
INVARIANTS OneWriterPerDirectory
CHECK_DEADLOCK FALSE
