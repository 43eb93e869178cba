SPECIFICATION FilesSpec
CONSTANTS
  s1 = s1
  s2 = s2
  p1 = p1
  p2 = p2
  p3 = p3
  None = None
  Kept = Kept
  Version <- Versions
  Slot <- TwoSlots
  Private <- PrivatePaths
  Settings <- KeptMsi
  Running0 = 1
  MaxEntities = 1
INVARIANTS
  InstallsWhatItChecked
