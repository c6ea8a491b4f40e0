SPECIFICATION CopiesSpec
CONSTANTS
  NoRelease = NoRelease
  NoRepo = NoRepo
  Releases = {r1, r2, r3}
  Repos = {p1, p2}
  MaxRequests = 1
  MaxPublications = 1
  MaxFaults = 1
  MaxCrashes = 1
  MaxOwnerActs = 2
  Playbooks = {f1, f2}
  MaxGeneration = 3
  MaxRestoreCrashes = 1
  package = package
  tool = tool
  image = image
  station1 = station1
  station2 = station2
  url = url
  hub = hub
  Artifacts = {package}
  Images = {image}
  Stations = {station1, station2}
  Web = {url, hub}
  Registries <- ByDigest
  Place <- PlaceOf
  Home <- HomeOf
  Contents = {x, y}
  Requests = {q1}
  Runs = {run1}
  TestRuns = {run1}
  None = None
  Ids = {i1, i2}
  Calls = {c1}
  Units = {0, 1}
  MaxFile = 2
  MaxTotal = 3
  MaxTransfers = 2
  NoTransfer = NoTransfer
CHECK_DEADLOCK FALSE
INVARIANTS
  PublishedChain
  RecoveryPointsAreWhole
  TransfersAreSafe
PROPERTIES
  RestoreIsWhole
  PublishedIsBackedUp
  ContentIsFixed
