SPECIFICATION FairSpec
CONSTANTS
  MaxDeploys = 3
  MaxFaults = 2
CHECK_DEADLOCK FALSE
INVARIANTS TypeOK OneManager MigrationLasts StartsManaged
PROPERTIES TellsTheTruth ComesBack
