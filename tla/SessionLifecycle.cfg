\* Every actor and every endpoint: what holds whatever the interleaving.
CONSTANTS
  a1 = a1
  a2 = a2
  p1 = p1
  p2 = p2
  p3 = p3
  Addr <- MCAddr
  Account <- MCTwoAccounts
  From <- MCAnywhere
  Actors <- MCAllActors
  MaxPlayers = 0
  MaxSessions = 2
SPECIFICATION Spec
SYMMETRY MCSymmetry
INVARIANT PlayersPresent
CHECK_DEADLOCK FALSE
