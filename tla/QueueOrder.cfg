SPECIFICATION Spec
CONSTANTS
  e1 = e1
  e2 = e2
  w1 = w1
  w2 = w2
  w3 = w3
  Envs = {e1}
  Runs = {1, 2}
  EnvOf <- OneEnv2
  CapturedAt <- Captures2
  Places <- Tenths
  Rollbacks = {}
  Workers = {w1, w2}
  NoWorker = NoWorker
  NoRun = NoRun
  NoEnv = NoEnv
  Cancellable = {}
  MaxCrashes = 0
  MaxFaults = 0
  MaxTampers = 0
CHECK_DEADLOCK FALSE
PROPERTY
  StartsInOrder
