SPECIFICATION Spec
CONSTANTS
  None = None
  Tabs = {one, two}
  MaxStates = 4
  States <- MCStates
INVARIANTS PollsDoNotDisturb
