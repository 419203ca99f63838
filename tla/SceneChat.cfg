SPECIFICATION MCFairSpec
CONSTANTS
  A = A
  Conv = {A, B}
  NoConv = NoConv
  MaxRequests = 2
  MaxIntervals = 2
  MaxInputs = 1
  MaxLost = 1
INVARIANT NoForeignPoll
INVARIANT SpinnerHasStream
INVARIANT EchoReplaces
INVARIANT PollingIsReal
PROPERTY StayedCatchesUp
CHECK_DEADLOCK FALSE
