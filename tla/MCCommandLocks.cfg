SPECIFICATION FairSpec
CONSTANTS
  Proc = {p1, p2}
  f1 = f1
  f2 = f2
  File = {f1, f2}
  NoProc = NoProc
  Commands <- InOrder
  Unreadable = {f2}
  Refused = {f2}
  Contended = {f2}
  MayKill = TRUE
INVARIANTS TypeOK LockedWhenUpdating
PROPERTIES NoLostUpdate CommandsFinish
CHECK_DEADLOCK FALSE
