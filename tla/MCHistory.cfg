SPECIFICATION Spec
CONSTANTS
  Instants <- MCInstants
  MaxDeltas = 4
  Forms = {"cssc", "four", "colon"}
INVARIANTS TypeOK CutoffSelectsPeriod ReportsSplitHistory PrtEndsAtSid ValIsExact
  ListsDenoteRanges
CHECK_DEADLOCK FALSE
