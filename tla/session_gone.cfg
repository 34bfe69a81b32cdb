SPECIFICATION TunnelSpec
CONSTANTS
  Clients = {c1}
  Closers = {}
  Reclaimers = {}
  Ports = {p1}
  ForeignPorts = {}
  Expirable = {}
  MaxCalls = 1
  Players = {e1}
  portTaken = portTaken
  None = None
INVARIANT SessionKnown
CHECK_DEADLOCK FALSE
