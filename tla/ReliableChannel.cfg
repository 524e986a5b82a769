\* Two clients, two reliable packets, one retry, a ring of two.
CONSTANTS
  a1 = a1
  a2 = a2
  Addr <- MCAddr
  None = None
  MaxSends = 2
  MaxRetries = 1
  RingSize = 3
  MaxDups = 1
SPECIFICATION FairSpec
INVARIANTS AckedWasReceived GivenUpAfterAllRetries RingSound
PROPERTIES QueueDrains
CHECK_DEADLOCK FALSE
