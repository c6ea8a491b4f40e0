SPECIFICATION LinesSpec
CONSTANTS
  NoRelease = NoRelease
  Releases = {r1, r2}
CHECK_DEADLOCK FALSE
INVARIANT
  BackupRestores
