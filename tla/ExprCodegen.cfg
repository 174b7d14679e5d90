SPECIFICATION Spec
CONSTANTS
  Poison = Poison
  Wide = 6
  Bits <- MCBits
  Vars <- MCVars
  Fns <- MCFns
  Globals <- MCGlobals
  Usings <- MCUsings
  Typedefs <- MCTypedefs
  Uses <- MCUses
  Memories <- MCMemories
  Answers <- MCAnswers
INVARIANTS
  TypeOK
  BlocksVerify
  RunsAsWritten
  FoldAgrees
  TypeAsPromised
  AliasWhereTested
CHECK_DEADLOCK FALSE
