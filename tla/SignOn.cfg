SPECIFICATION FairSpec
CONSTANTS
  None = None
  Tabs = {one, two}
  MaxStates = 4
  States <- MCStates
INVARIANTS TypeOK SignInHolds SignedOutStays
PROPERTIES NavigationEnds
