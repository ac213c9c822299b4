SPECIFICATION FairSpec
CONSTANTS
  Proc = {p1, p2, p3}
  None = None
  MaxAttempts = 3
  MaxCalls <- MCMaxCalls
  CallsWithLinks = 1
  CallsWithoutLinks = 2
  HardLinks = {TRUE, FALSE}
  MayFailOpen = TRUE
  MayCrash = TRUE
INVARIANTS TypeOK MutualExclusion HolderHasZFile
PROPERTY CallsReturn
CHECK_DEADLOCK FALSE
