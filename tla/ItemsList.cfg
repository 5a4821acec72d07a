SPECIFICATION FairSpec
CONSTANTS
  Values <- MCValues
  MaxNum = 4
  NULL = NULL
INVARIANTS
  TypeOK
  InBounds
  Ascending
PROPERTIES
  ImplementsBoundedSet
  CallsReturn
CHECK_DEADLOCK FALSE
