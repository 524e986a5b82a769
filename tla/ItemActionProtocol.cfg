\* Clients with item and trade actions; a client on its own loads a level as well.
CONSTANTS
  p1 = p1
  p2 = p2
  Player <- MCPlayer
  Payload <- MCPayload
  Malformed <- MCNoneMalformed
  Op <- MCItemTrade
  MaxId = 2
  CacheSize = 2
  Allowed = 1
  MaxPackets = 6
  MaxActions = 2
  MaxResends = 1
  MaxRestarts = 1
SPECIFICATION MCSpec
INVARIANT CommitsSound
PROPERTIES MapActionConfirmed RecordedAnswerIsFinal EveryActionResolves
CHECK_DEADLOCK FALSE
