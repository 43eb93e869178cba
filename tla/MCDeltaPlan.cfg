SPECIFICATION PlanSpec
CONSTANTS
  Newest = 16
  Directs = {1, 3}
  Limits = {5, 16}
  Version <- MCVersion
  Size <- MCSize
  Inputs <- MCInputs
INVARIANTS PlanConnects PlanSavesBytes GapIsShort
CHECK_DEADLOCK FALSE
