SPECIFICATION Spec
CONSTANTS
  Users = {u1, u2}
  Absent = Absent
  Uses <- SoloJointOrRestricted
  InitialDeltas = 1
  MaxLocks = 2
  MayCrash = FALSE
  MayFail = {}
SYMMETRY Symmetry
INVARIANTS TypeOK UniqueSids ReservedSidsAreFree OneEditorPerDelta NeverAlreadyEdited
  JointNextSidIsNew
PROPERTY Refinement
CHECK_DEADLOCK FALSE
