SPECIFICATION Spec
CONSTANTS
  Word = 1024
  Usable <- UsableInUnions
  Extents = {5}
  MaxPadding = 128
  MaxElems = 2
  MaxTypes = 2
INVARIANT
  ElementIsReached
CHECK_DEADLOCK FALSE
