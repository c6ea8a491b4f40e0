SPECIFICATION RecordsSpec
CONSTANTS
  Entrypoints = {e1}
  OtherFiles = {f1, f2}
  Contents = {a, b}
  Absent = Absent
  Roots = {d1, d2}
  NoMarker = NoMarker
  NoEdit = NoEdit
  MaxEdits = 3
  MaxCrashesOfEdits = 2
  MaxLostUndos = 1
  Slugs = {s1, s2}
  Imports = {i1, i2}
  NoImport = NoImport
  MaxImportCrashes = 1
  MaxImportFaults = 1
  MaxDeletes = 1
  HistoryRuns = {h1, h2}
  NoPack = NoPack
  NoArchive = NoArchive
  NoHistory = NoHistory
  MaxLogs = 1
  MaxNamed = 1
  MaxClaims = 2
  MaxWorkerFaults = 1
  Instances = 2
  MaxAttempts = 3
  MaxKills = 1
  MaxLostWrites = 1
  os = os
  ver = ver
  hg = hg
  linux = linux
  v1 = v1
  NoCategory = NoCategory
  NoOption = NoOption
  Categories = {os, ver, hg}
  Options = {linux, v1}
  HostGroups = hg
  CategoryOf <- SmallCategoryOf
  ParentCategory <- SmallParentCategory
  ParentOption <- SmallParentOption
  Required = {os, ver}
  Installed = {os, hg, linux}
  Envs = {n1}
  Branches = {b1}
  Jobs = {j1}
  Writers = {w1, w2}
  Snapshots <- SmallSnapshots
  Scopes <- SmallScopes
  MaxRevision = 3
  MaxBusy = 4
CONSTRAINT Busy
SYMMETRY RecordSymmetry
CHECK_DEADLOCK FALSE
INVARIANTS
  RecordsTypeOK
  JournaledIsAtomic
  ImportIsWhole
  RunHistoryIsKept
  ReceiptKnowsTarget
  HistoryIsIntact
PROPERTIES
  AttemptsAreSafe
  NothingRetiredIsAdopted
