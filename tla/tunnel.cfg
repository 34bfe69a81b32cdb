SPECIFICATION TunnelFairSpec
CONSTANTS
  Clients = {c1, c2}
  Closers = {}
  Reclaimers = {}
  Ports = {p1}
  ForeignPorts = {}
  Expirable = {}
  MaxCalls = 1
  Players = {e1, e2}
  portTaken = portTaken
  None = None
INVARIANT RoutedWhileOpen
PROPERTIES DialAnswered GoneClientForgotten
CHECK_DEADLOCK FALSE
