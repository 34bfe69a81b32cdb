SPECIFICATION Spec
CONSTANTS
  Clients = {c1, c2, c3}
  Closers = {}
  Reclaimers = {r1}
  Ports = {p1, p2, p3}
  ForeignPorts = {p3}
  Expirable = {}
  MaxCalls = 1
  portTaken = portTaken
  None = None
SYMMETRY ClientSymmetry
INVARIANTS ReservationHeld HeldPortIsOwn RemovesOwnSession NothingLeaks
CHECK_DEADLOCK FALSE
