\* The row of one character, written by four goroutines, and the shutdown.
CONSTANTS
  QueueCap = 1
  MaxSessions = 2
SPECIFICATION Spec
INVARIANT DeathSafe
PROPERTY ShutdownEnds
CHECK_DEADLOCK FALSE
