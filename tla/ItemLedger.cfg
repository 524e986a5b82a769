\* The item opcode alone, any ids in any order: at most once.
CONSTANTS
  p1 = p1
  x1 = x1
  x2 = x2
  Player <- MCPlayer
  Payload <- MCPayload
  Malformed <- MCMalformed
  Op <- MCItemOnly
  MaxId = 3
  CacheSize = 2
  Allowed = 2
  MaxPackets = 6
SPECIFICATION SpecLedger
INVARIANTS AtMostOnce CacheSound
PROPERTIES FloorMonotone
CHECK_DEADLOCK FALSE
