SPECIFICATION FairSpec
CONSTANTS
  Names <- MCNames
  Units <- MCUnits
  StackLimit = 4
INVARIANTS
  TypeOK
  MadeOnce
  NothingLeftOut
  OneMeaning
  RejectsOnlyUnbuildable
PROPERTIES
  InDependencyOrder
  Terminates
CHECK_DEADLOCK FALSE
