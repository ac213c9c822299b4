SPECIFICATION Spec
CONSTANTS
  MaxDeltas = 4
  MaxHunkText = 1
  MaxListed = 1
  Uses <- PlainOrListed
INVARIANTS
  TypeOK
  RetrievedIsCheckedIn
  AnnotationNamesInserter
  CutoffGivesAncestor
  ScanNeverStuck
  CountsAddUp
  RemovableDeltaIsTerminal
CHECK_DEADLOCK FALSE
