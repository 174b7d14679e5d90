SPECIFICATION AllSpec
CONSTANTS
  Budget = 4
  Cost <- DeferBlockCosts
  InitialCaps = {0}
INVARIANT DefersReadInPlace
CHECK_DEADLOCK FALSE
