SPECIFICATION StorySpec
CONSTANTS
  n1 = n1
  n2 = n2
  old = old
  new = new
  extra = extra
  v1 = v1
  v2 = v2
  w1 = w1
  Script <- OverOtherNode
  Nodes = {n1, n2}
  Order <- NodeOrder
  NoNode = NoNode
  Releases = {old, new, extra}
  Absent = Absent
  Broken = Broken
  Revisions = {v1, v2, w1}
  NoRevision = NoRevision
  Target <- StoryTarget
  Source <- StorySource
  Released = {v1}
  Intrusive = {}
  None = None
  MaxRuns = 6
  MaxPending = 1
  MaxFaults = 0
CHECK_DEADLOCK FALSE
PROPERTY
  UpgradeStartsFromSource
