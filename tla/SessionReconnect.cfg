\* Reconnects from the endpoint the account always uses.
CONSTANTS
  a1 = a1
  a2 = a2
  p1 = p1
  p2 = p2
  p3 = p3
  Addr <- MCAddr
  Account <- MCThreeAccounts
  From <- MCHome
  Actors <- MCNoActors
  MaxPlayers = 1
  MaxSessions = 3
SPECIFICATION Spec
INVARIANTS NoGhost OneBody SleeperInGrid
CHECK_DEADLOCK FALSE
