SPECIFICATION SpansSpec
CONSTANTS
  email = email
  person = person
  Type <- MCType
  Priority <- MCPriority
  Detections <- MCDetections
  Length = 4
INVARIANTS DroppedForBetter SkippedForLonger OneDetectorTouchesAll SubstitutedInPlace
CHECK_DEADLOCK FALSE
