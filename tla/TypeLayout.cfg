SPECIFICATION Spec
CONSTANTS
  Word = 1024
  Usable <- UsableInTuples
  Extents = {3, 150}
  MaxPadding = 128
  MaxElems = 3
  MaxTypes = 2
INVARIANTS
  TypeOK
  LayoutIsLLVMs
  StuckOnlyOnUnit
  PaddingCacheIsSound
  VirtualIndexIsDeclared
  FieldNamesElement
  ValuesLandWhereDeclared
  ParamsAreDeclared
  SameDeclarationSameType
CHECK_DEADLOCK FALSE
