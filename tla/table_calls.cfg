SPECIFICATION FairSpec
CONSTANTS
  Clients = {c1}
  Closers = {}
  Reclaimers = {r1}
  Ports = {p1, p2, p3}
  ForeignPorts = {p3}
  Expirable = {c1}
  MaxCalls = 3
  portTaken = portTaken
  None = None
INVARIANT OneEntryPerClient
PROPERTIES AllocationReturns ClosedFreesPort
CHECK_DEADLOCK FALSE
