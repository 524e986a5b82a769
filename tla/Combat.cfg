\* One player moves and travels; another fires, or is before the puppet as well.
CONSTANTS
  p1 = p1
  p2 = p2
  l1 = l1
  l2 = l2
  Player <- MCPlayer
  Mover <- MCMover
  Shooter <- MCShooter
  Level <- MCLevel
  PuppetLevel = l1
  SameFaction <- MCSameFaction
  Hostile <- MCPlayer
  Damages <- MCDamages
  MaxDamagePerHit = 2
  Ceiling = 3
  DamageBudget = 3
  MeleeDamage = 1
  Window = 2
  AttackCooldown = 4
  PatrolResume = 1
  CorpseDelay = 1
  FullHealth = 1
  PuppetHealth = 2
SPECIFICATION MCSpec
INVARIANTS PursuitSound BudgetHolds SwingSpacing
PROPERTIES PuppetStaysDead CorpseGoes AlertEnds FlagSettles
