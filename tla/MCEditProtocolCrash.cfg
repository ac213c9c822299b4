SPECIFICATION Spec
CONSTANTS
  Users = {u1, u2}
  Absent = Absent
  Uses <- TwoReleases
  InitialDeltas = 1
  MaxLocks = 2
  MayCrash = TRUE
  MayFail = {"remove_s", "remove_p", "rename_q"}
INVARIANTS HistorySurvives GottenDeltaExists
PROPERTY CommandsEnd
CHECK_DEADLOCK FALSE
