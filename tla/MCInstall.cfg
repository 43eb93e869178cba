CONSTANTS
  Strategy = {"macos", "linux_dir", "linux_file", "windows"}
  MaxAttempts = 3
  MaxOverlap = 1
  Faults = {"copy", "rename", "remove", "crash"}
SPECIFICATION Spec
INVARIANTS
  SuccessInstalls
  FailureKeepsApp
  ACopySurvives
  ExecutableIsWhole
CHECK_DEADLOCK FALSE
