SPECIFICATION Spec
CONSTANTS
  read = read
  write = write
  spawn = spawn
  Calls = {read, write, spawn}
  Rule <- ReadWriteSpawn
  MaxRounds = 2
  MaxSteps = 2
  MaxCalls = 2
  MaxLog = 8
  MaxCrashes = 1
INVARIANT DoneIsFinal
INVARIANT ReplayInOrder
INVARIANT StateIsRecent
INVARIANT RunsAsGranted
INVARIANT DoneLeavesNoAsk
CHECK_DEADLOCK FALSE
