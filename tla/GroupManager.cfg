\* Parties of two and of three: joined, left, dissolved while sessions depart.
CONSTANTS
  s1 = s1
  s2 = s2
  s3 = s3
  Session <- MCThree
  Limits = {2, 3}
  MaxGroups = 1
  MaxGone = 1
SPECIFICATION Spec
SYMMETRY MCSymmetry
INVARIANTS TypeOK PartiesSound
CHECK_DEADLOCK FALSE
