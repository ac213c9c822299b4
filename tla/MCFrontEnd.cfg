SPECIFICATION Spec
CONSTANTS
  Users = {u1, u2}
  Absent = Absent
  MaxDeltas = 3
  Releases = {2}
  MaxFailures = 1
SYMMETRY Symmetry
INVARIANTS TypeOK EditMatchesLock
PROPERTY WorkIsSafe
CHECK_DEADLOCK FALSE
