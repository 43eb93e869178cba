CONSTANTS
  Body <- Bodies
  Size <- Sizes
  Tag <- Etags
  None = None
  Published <- SizesPublished
  MaxLen = 4
  MaxRetries = 5
SPECIFICATION FairSpec
INVARIANTS
  PartialIsOnDisk
  WholeFile
PROPERTIES
  CancelEnds
  OfflineEnds
CHECK_DEADLOCK FALSE
