SPECIFICATION StorySpec
CONSTANTS
  e1 = e1  e2 = e2  w1 = w1  w2 = w2  w3 = w3
  Envs = {e1}
  Runs = {1, 2, 3}
  EnvOf <- OneEnv3
  CapturedAt <- Captures3
  Places <- Tenths
  Rollbacks = {3}
  Workers = {w1, w2}
  NoWorker = NoWorker
  NoRun = NoRun
  NoEnv = NoEnv
  Cancellable = {}
  MaxCrashes = 1
  MaxFaults = 1
  MaxTampers = 1
CHECK_DEADLOCK FALSE
PROPERTIES
  QueueDrains
  NoLostWakeup
INVARIANT
  RollbackExclusive
