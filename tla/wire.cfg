SPECIFICATION Spec
CONSTANTS
  Base = 8
  MaxFrame = 80
  Group = 4
  MaxGroups = 3
  MaxPacket = 60
  MaxPeek = 50
  MaxAddr = 5
  MaxName = 2
  UUIDLen = 2
  Tokens <- AnyTokens
  IPs <- AnyIPs
  Messages <- AnyMessages
  Addrs <- AnyAddrs
  Names <- AnyNames
  UUIDs <- AnyUUIDs
  Reasons <- AnyReasons
  Numbers = {0, 42}
  Versions = {3, 5}
  RawBytes = {0, 1, 2, 4}
  MaxFrames = 3
  MaxRaw = 7
  MaxMore = 2
INVARIANTS FramesArrive PayloadsCarried ReadsWhatWasSent HostSeesSame ParsersAgree RefusalReadable
CHECK_DEADLOCK FALSE
