\* Two opcodes share the floor: an ActionID used under both is applied twice.
CONSTANTS
  p1 = p1
  x1 = x1
  x2 = x2
  Player <- MCPlayer
  Payload <- MCPayload
  Malformed <- MCMalformed
  Op <- MCItemTrade
  MaxId = 3
  CacheSize = 2
  Allowed = 2
  MaxPackets = 4
SPECIFICATION SpecLedger
INVARIANT AtMostOnce
CHECK_DEADLOCK FALSE
