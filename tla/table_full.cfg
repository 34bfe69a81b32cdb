SPECIFICATION Spec
CONSTANTS
  Clients = {c1, c2}
  Closers = {d1}
  Reclaimers = {r1}
  Ports = {p1, p2}
  ForeignPorts = {}
  Expirable = {c1, c2}
  MaxCalls = 1
  portTaken = portTaken
  None = None
SYMMETRY Symmetry
INVARIANTS TypeOK TableLive CloseOnce
PROPERTY LeaseSpec
CHECK_DEADLOCK FALSE
