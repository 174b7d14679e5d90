SPECIFICATION AllSpec
CONSTANTS
  Budget = 4
  Cost <- JumpCosts
  InitialCaps = {10}
INVARIANT ModuleVerifies
CHECK_DEADLOCK FALSE
