SPECIFICATION Spec
CONSTANTS
  Row <- MCRow
  Data <- MCData
  AudioLength = 9
  MaxChoices = 3
CHECK_DEADLOCK FALSE
INVARIANTS
  TypeOK
  HangsOnAnotherRow
  StaysInTheSegment
  ListIsInOrder
PROPERTIES
  NextSimilarIsPlayed
