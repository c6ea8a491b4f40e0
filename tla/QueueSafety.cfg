SPECIFICATION Spec
CONSTANTS
  e1 = e1
  e2 = e2
  w1 = w1
  w2 = w2
  w3 = w3
  Envs = {e1}
  Runs = {1, 2}
  EnvOf <- OneEnv2
  CapturedAt <- Captures2
  Places <- Tenths
  Rollbacks = {}
  Workers = {w1, w2}
  NoWorker = NoWorker
  NoRun = NoRun
  NoEnv = NoEnv
  Cancellable = {1}
  MaxCrashes = 1
  MaxFaults = 1
  MaxTampers = 1
SYMMETRY WorkerSymmetry
CHECK_DEADLOCK FALSE
INVARIANTS
  OneRunningPerEnv
  RunningHasOwner
  RegistryNamesLiveWorker
  ExecutorOwnsRun
PROPERTIES
  TerminalIsFinal
