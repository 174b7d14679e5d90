SPECIFICATION AllSpec
CONSTANTS
  Budget = 8
  Cost <- DeferCosts
  InitialCaps = {0, 10}
INVARIANTS
  TypeOK
  ScopesAreOwned
  NextFnFindsNoScopes
  ExecTypeOK
  NewestDeferRunsFirst
  NothingOwedAtEnd
  NoBlockFallsThrough
CHECK_DEADLOCK FALSE
