SPECIFICATION FairSpec
CONSTANTS
  Requests = {r1, r2}
  Old = Old
  None = None
INVARIANTS TypeOK OkIsApplied Unmixed ManualHasAddress
PROPERTIES Answered
