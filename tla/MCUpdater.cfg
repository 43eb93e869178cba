SPECIFICATION FilesFairSpec
CONSTANTS
  s1 = s1
  s2 = s2
  p1 = p1
  p2 = p2
  p3 = p3
  None = None
  Kept = Kept
  Version <- Versions
  Slot <- TwoSlots
  Private <- PrivatePaths
  Settings <- PrivateOrCopied
  Running0 = 1
  MaxEntities = 2
INVARIANTS
  OneOperation
  CancelReachesDownload
  NoDowngrade
  InstallsWhatItChecked
  StagedIsReady
PROPERTIES
  InstallsOnlyVerified
  Implements
