SPECIFICATION FairSpec
CONSTANTS
  Texts <- MCTexts
  Literals <- MCLiterals
INVARIANTS
  TypeOK
  GroupsByPrecedence
  
  AttrsHeldOnce
  AttrsReachWhatFollows
PROPERTIES
  BracketsMatch
  Terminates
CHECK_DEADLOCK FALSE
