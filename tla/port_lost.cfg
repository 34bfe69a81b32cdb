SPECIFICATION Spec
CONSTANTS
  Clients = {c1, c2}
  Closers = {d1}
  Reclaimers = {r1}
  Ports = {p1}
  ForeignPorts = {}
  Expirable = {c1, c2}
  MaxCalls = 1
  portTaken = portTaken
  None = None
INVARIANT PortsReclaimed
CHECK_DEADLOCK FALSE
