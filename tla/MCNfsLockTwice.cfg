SPECIFICATION Spec
CONSTANTS
  Proc = {p1, p2}
  None = None
  MaxAttempts = 2
  MaxCalls <- MCMaxCalls
  CallsWithLinks = 2
  CallsWithoutLinks = 0
  HardLinks = {TRUE}
  MayFailOpen = FALSE
  MayCrash = FALSE
INVARIANT MutualExclusion
CHECK_DEADLOCK FALSE
