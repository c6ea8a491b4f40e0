SPECIFICATION Spec
CONSTANTS
  base = base
  top = top
  A = A
  B = B
  plain = plain
  changed = changed
  small = small
  large = large
  t1 = t1
  t2 = t2
  p1 = p1
  k1 = k1
  Releases = {base, top}
  Components = {A, B}
  ComponentOf <- TwoComponents
  Contents = {plain, changed}
  Original = plain
  Upstream <- TopNeedsBase
  Baseline = {base}
  Publishers = {p1}
  ComponentTests = {k1}
  NoRelease = NoRelease
  Edited = {top}
  Tested = {top}
  Shared = {top}
  MaxGeneration = 3
  Revisions = {1, 2}
  Definitions = {small, large}
  GraphOf <- Graphs
  FirstDefinition = large
  Tests = {t1, t2}
  ModeOf <- TwoTests
  NoDefinition = NoDefinition
  NoTest = NoTest
  MaxRevisionGeneration = 2
CHECK_DEADLOCK FALSE
INVARIANTS
  PassedHasEvidence
  ReleasedAsTested
  ChangesAreOwned
PROPERTY
  PublishesJointlyAtomically
