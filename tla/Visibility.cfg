\* Two players who meet, travel, reload and quit; and the same two with a puppet that both
\* hit and one comes near.
CONSTANTS
  s1 = s1
  s2 = s2
  l1 = l1
  l2 = l2
  Session <- MCSession
  Announcer <- MCAnnouncer
  Roamer <- MCRoamer
  Quitter <- MCQuitter
  Shooter <- MCSession
  Level <- MCLevel
  Spawn = l1
  PuppetLevel = l2
SPECIFICATION MCSpec
INVARIANTS PeersSound ReleasedUnseen
PROPERTIES PuppetSeen TrackingReaped
CHECK_DEADLOCK FALSE
