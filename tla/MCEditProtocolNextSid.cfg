SPECIFICATION Spec
CONSTANTS
  Users = {u1, u2}
  Absent = Absent
  Uses <- OneRelease
  InitialDeltas = 1
  MaxLocks = 2
  MayCrash = FALSE
  MayFail = {}
INVARIANT NextSidIsNew
CHECK_DEADLOCK FALSE
