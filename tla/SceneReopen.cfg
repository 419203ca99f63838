SPECIFICATION MCFairSpec
CONSTANTS
  A = A
  Conv = {A, B}
  NoConv = NoConv
  MaxRequests = 2
  MaxIntervals = 2
  MaxInputs = 1
  MaxLost = 0
PROPERTY ReopenedCatchesUp
CHECK_DEADLOCK FALSE
