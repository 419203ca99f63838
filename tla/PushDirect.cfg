SPECIFICATION FairSpec
CONSTANTS
  a = a
  b = b
  Agents = {a, b}
  Uid <- UidOne
  Main = Main
  Stopper = Stopper
  Kinds = {"text", "whole", "raw"}
  Screens = FALSE
  MaxSize = 8
  MaxPush <- TwoAndOne
  MayStop = TRUE
  MayLeave = TRUE
CHECK_DEADLOCK FALSE
INVARIANT OrderKept
INVARIANT DoneComesLast
INVARIANT NothingLost
PROPERTY StopSettles
