SPECIFICATION FairSpec
CONSTANTS
  j1 = j1
  j2 = j2
  w1 = w1
  w2 = w2
  None = None
  Jobs = {j1, j2}
  Workers = {w1, w2}
  Prompt = TRUE
  Concurrency = 1
  Lease = 1
  RenewTo = 1
  HistoryCap = 0
  Window = 2
  Together <- Few
  MaxClaims = 5
  Budget <- OneCrash
  Request <- TwoJobs
  Tags <- DefaultTags
  Subscribed <- AllTypes
INVARIANT HandlersExclusive
INVARIANT ExecutorRecorded
INVARIANT AttemptsBounded
PROPERTY ImplementsClaims
PROPERTY Settles
PROPERTY StalledReclaimed
