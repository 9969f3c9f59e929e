SPECIFICATION FairSpec
CONSTANTS
  MaxStarts = 2
  MaxFaults = 2
  MaxWire = 2
CHECK_DEADLOCK FALSE
INVARIANTS TypeOK OnlineIsDescribed SettledIsShown
PROPERTIES RunningIsShown DownIsShown
