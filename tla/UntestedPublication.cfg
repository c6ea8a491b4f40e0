SPECIFICATION StorySpec
CONSTANTS
  a0 = a0
  a1 = a1
  b0 = b0
  b1 = b1
  A = A
  B = B
  plain = plain
  changed = changed
  p1 = p1
  p2 = p2
  k1 = k1
  Stories = {"alone"}
  Releases <- SmallReleases
  Components = {A, B}
  ComponentOf <- SmallComponent
  Contents = {plain, changed}
  Original = plain
  Upstream <- SmallUpstream
  Baseline = {a0, b0}
  Publishers = {p1, p2}
  ComponentTests = {k1}
  NoRelease = NoRelease
  Edited = {a1, b1}
  Tested = {a1, b1}
  Shared = {a1}
  MaxGeneration = 5
CHECK_DEADLOCK FALSE
INVARIANT
  PublishedWasExecuted
