SPECIFICATION Spec
CONSTANTS
  Proc = {p1, p2}
  f1 = f1
  f2 = f2
  File = {f1, f2}
  NoProc = NoProc
  Commands <- TwoFiles
  Unreadable = {f1}
  Refused = {}
  Contended = {}
  MayKill = FALSE
INVARIANT LockedWhenUpdating
CHECK_DEADLOCK FALSE
