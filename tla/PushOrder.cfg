SPECIFICATION Spec
CONSTANTS
  a = a
  b = b
  Agents = {a}
  Uid <- UidAlone
  Main = Main
  Stopper = Stopper
  Kinds = {"text", "whole"}
  Screens = TRUE
  MaxSize = 4
  MaxPush <- Two
  MayStop = FALSE
  MayLeave = FALSE
CHECK_DEADLOCK FALSE
INVARIANT OrderKept
