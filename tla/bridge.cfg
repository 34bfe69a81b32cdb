SPECIFICATION FairSpec
CONSTANTS
  MaxUp = 2
  MaxDown = 1
  Window = 2
INVARIANT TrafficAgrees
PROPERTIES BytesInOrder UpArrives TornDown FarewellArrives
CHECK_DEADLOCK FALSE
