SPECIFICATION Spec
CONSTANTS
  read = read
  write = write
  spawn = spawn
  Calls = {read, write, spawn}
  Rule <- ReadWriteSpawn
  MaxRounds = 2
  MaxSteps = 2
  MaxCalls = 2
  MaxLog = 8
  MaxCrashes = 0
INVARIANT RecoveryFindsLastStep
CHECK_DEADLOCK FALSE
