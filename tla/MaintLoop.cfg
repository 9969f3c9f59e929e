SPECIFICATION Spec
CONSTANTS
  MaxBoots = 4
  MaxUpdates = 1
  Clock = FALSE
  Bad = {1}
  MaxFaults = 2
CHECK_DEADLOCK FALSE
INVARIANT LoopPrevention
