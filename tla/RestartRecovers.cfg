SPECIFICATION ImportSpec
CONSTANTS
  Slugs = {s1, s2}
  Imports = {i1}
  NoImport = NoImport
  MaxImportCrashes = 1
  MaxImportFaults = 1
  MaxDeletes = 1
CHECK_DEADLOCK FALSE
INVARIANT
  RestartRecovers
