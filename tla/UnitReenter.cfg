SPECIFICATION FairSpec
CONSTANTS
  Names <- MCNames
  Units <- MCUnits
  StackLimit = 4
INVARIANT NotEnteredTwice
CHECK_DEADLOCK FALSE
