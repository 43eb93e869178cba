CONSTANTS
  Version <- Versions
  Running = 1
  Target = 3
  MaxHops = 2
  Earlier <- Leftovers
  Us = Us
  Them = Them
  Nobody = Nobody
  Site <- Sites
  Configuration <- Configurations
SPECIFICATION InstallSpec
INVARIANTS
  ReturnedIsGenuine
  NoScratchLeft
  OnlyOurAppIsInstalled
  InstallerIsForeseen
  OwnersAreAsked
PROPERTIES
  CancelledDeltasDoNotFallBack
CHECK_DEADLOCK FALSE
