SPECIFICATION MediaSpec
CONSTANTS
  package = package
  tool = tool
  image = image
  station1 = station1
  station2 = station2
  url = url
  hub = hub
  Artifacts = {package, tool}
  Images = {}
  Stations = {station1}
  Web = {url}
  Registries = {}
  Place <- OneStation
  Home <- OneStation
  Contents = {x, y}
  Requests = {q1}
  Runs = {run1}
  TestRuns = {run1}
  None = None
CHECK_DEADLOCK FALSE
PROPERTY
  VerifiedAsLocked
