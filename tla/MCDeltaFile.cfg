SPECIFICATION Spec
CONSTANTS
  Body = {"x", "y", "p", "q", "empty"}
  Order <- MCOrder
  Unsafe <- MCUnsafe
  Builds <- MCBuilds
  Foreign <- MCForeign
INVARIANTS
  Rebuilds
  DeltasApply
  TouchesOutputOnly
CHECK_DEADLOCK FALSE
