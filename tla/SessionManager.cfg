\* Safety of the session registry and its refinement of SessionTable.
CONSTANTS
  a1 = a1
  a2 = a2
  a3 = a3
  p1 = p1
  p2 = p2
  p3 = p3
  Nil = Nil
  Addr <- MCAddr
  Account <- MCAccount
  Name <- MCName
  Suffixed <- MCSuffixed
  MaxPlayers = 2
  IdSpace = 3
  MaxHandshakes = 4
SPECIFICATION MCSpec
INVARIANTS TypeOK Consistent CapRespected UniqueNames
PROPERTIES RefusalEvictsNobody TableSpec
SYMMETRY MCSymmetry
CHECK_DEADLOCK FALSE
