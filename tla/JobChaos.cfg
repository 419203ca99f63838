SPECIFICATION Spec
CONSTANTS
  j1 = j1
  j2 = j2
  w1 = w1
  w2 = w2
  None = None
  Jobs = {j1}
  Workers = {w1, w2}
  Prompt = FALSE
  Concurrency = 2
  Lease = 1
  RenewTo = 1
  HistoryCap = 0
  Window = 2
  Together <- Few
  MaxClaims = 3
  Budget <- OneEach
  Request <- OneJob
  Tags <- DefaultTags
  Subscribed <- AllTypes
SYMMETRY WorkersAlike
INVARIANT ClaimColumns
INVARIANT AttemptHasOneOwner
INVARIANT ConcurrencyBound
PROPERTY NoClaimStolen
