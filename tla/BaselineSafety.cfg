SPECIFICATION ExecutionSpec
CONSTANTS
  n1 = n1
  n2 = n2
  old = old
  new = new
  extra = extra
  v1 = v1
  v2 = v2
  t2 = t2
  Nodes = {n1, n2}
  Order <- NodeOrder
  NoNode = NoNode
  Releases = {old, new, extra}
  Absent = Absent
  Broken = Broken
  Revisions = {v1, v2, t2}
  NoRevision = NoRevision
  Target <- Releasing
  Source <- UpgradeSource
  Released = {v1, v2}
  Intrusive = {t2}
  None = None
  MaxRuns = 3
  MaxPending = 1
  MaxFaults = 1
  a0 = a0
  b0 = b0
  b1 = b1
  c0 = c0
  NodeIds = {1, 2, 3}
  Locks <- ThreeLocks
  Does <- ThreeDo
  FirstNeeds <- ThreeNeeds
  MayNeed <- ChangedNeeds
  Drafts = {b1}
  MaxEdition = 2
  MaxSaves = 1
  MaxSequence = 1
  MayConstrain <- FewConstraints
  MaxRevisions = 2
CHECK_DEADLOCK FALSE
INVARIANTS
  AdvertisedIsReal
  VerifiedRowIsReal
  BaselineHasEvidence
  OrdersAreForced
PROPERTIES
  PartialStaysInChain
  ResetLeavesNothing
