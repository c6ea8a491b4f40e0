SPECIFICATION JournalSpec
CONSTANTS
  Entrypoints = {e1}
  OtherFiles = {f1}
  Contents = {a, b}
  Absent = Absent
  Roots = {d1}
  NoMarker = NoMarker
  NoEdit = NoEdit
  MaxEdits = 2
  MaxCrashesOfEdits = 1
  MaxLostUndos = 0
CHECK_DEADLOCK FALSE
INVARIANT RollbackLeavesNothing
