SPECIFICATION AllSpec
CONSTANTS
  Budget = 4
  Cost <- JumpCosts
  InitialCaps = {10}
INVARIANT JumpRunsDefers
CHECK_DEADLOCK FALSE
