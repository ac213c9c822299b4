SPECIFICATION Spec
CONSTANTS
  MaxDeltas = 3
  MaxHunkText = 1
  MaxListed = 1
  Uses <- OnlyRemoved
INVARIANTS
KeywordDeltaExists
CHECK_DEADLOCK FALSE
