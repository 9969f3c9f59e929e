SPECIFICATION Spec
CONSTANTS
  MaxBoots = 4
  MaxUpdates = 2
  Clock = FALSE
  Bad = {1, 2}
  MaxFaults = 2
CHECK_DEADLOCK FALSE
INVARIANTS RollbackRebootsOnce UpdateIsGuarded
