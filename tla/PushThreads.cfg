SPECIFICATION FairSpec
CONSTANTS
  a = a
  b = b
  Agents = {a, b}
  Uid <- UidTwo
  Main = Main
  Stopper = Stopper
  Kinds = {"text", "report", "whole"}
  Screens = TRUE
  MaxSize = 2
  MaxPush <- TwoAndOne
  MayStop = FALSE
  MayLeave = FALSE
CHECK_DEADLOCK FALSE
INVARIANT ShownOnce
INVARIANT OneMessageAFrame
INVARIANT PendingHasFlush
PROPERTY LeaseReleased
PROPERTY StreamEnds
