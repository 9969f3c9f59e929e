SPECIFICATION FairSpec
CONSTANTS
  MaxBoots = 2
  MaxUpdates = 1
  Clock = TRUE
  Bad = {1}
  MaxFaults = 1
CHECK_DEADLOCK FALSE
INVARIANTS TypeOK DowntimeIsLastOutage
PROPERTIES HeartbeatIsSaved StateIsShared
