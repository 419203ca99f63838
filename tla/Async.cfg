SPECIFICATION FairSpec
CONSTANTS
  t1 = t1
  t2 = t2
  c1 = c1
  c2 = c2
  Tasks = {t1, t2}
  Callers = {c1, c2}
  Deps <- Pair
  MaxConcurrent = 1
  Callbacks = {"COMPLETED"}
INVARIANT EndIsReceived
INVARIANT NoMissedWakeup
INVARIANT PermitsBalanced
INVARIANT DepsHonoured
PROPERTY ImplementsExecutor
PROPERTY EveryTaskEnds
