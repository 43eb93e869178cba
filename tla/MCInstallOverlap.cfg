CONSTANTS
  Strategy = {"linux_file"}
  MaxAttempts = 2
  MaxOverlap = 2
  Faults = {}
SPECIFICATION Spec
INVARIANT ExecutableIsWhole
CHECK_DEADLOCK FALSE
