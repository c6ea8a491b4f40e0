SPECIFICATION OrderSpec
CONSTANTS
  a0 = a0
  b0 = b0
  b1 = b1
  c0 = c0
  NodeIds = {1, 2, 3}
  Locks <- ThreeLocks
  Does <- AllInstalled
  FirstNeeds <- ThreeNeeds
  MayNeed <- OrderNeeds
  Drafts = {b1}
  MaxEdition = 2
  MaxSaves = 1
  MaxSequence = 1
  MayConstrain <- FewConstraints
  MaxRevisions = 2
CHECK_DEADLOCK FALSE
INVARIANT
  InstalledAfterDependencies
