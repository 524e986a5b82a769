\* Two players move copies of a section between inventories, two levels and stashes.
CONSTANTS
  p1 = p1
  p2 = p2
  l1 = l1
  l2 = l2
  k1 = k1
  sec = sec
  Player <- MCPlayer
  Section <- MCSection
  Level <- MCLevel
  Spawn = l1
  Bucket <- MCBucket
  Key <- MCKey
  Price <- MCPrice
  MaxMoneyDelta = 1
  MaxPerLevel = 1
  MaxEntries = 1
  Kit <- MCKit
  StarterMoney = 1
  Provision = 0
  MaxStack = 2
  MaxRubles = 1
  MaxItems = 1
  MaxBought = 1
  MaxStashes = 1
SPECIFICATION Spec
INVARIANTS ItemsConserved ToldTruth NobodyMissesAnItem StoredIsFound
SYMMETRY MCSymmetry
CHECK_DEADLOCK FALSE
