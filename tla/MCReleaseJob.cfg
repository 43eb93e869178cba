SPECIFICATION Spec
CONSTANTS
  Team = team
  Vendor = sparkle_project
  Nobody = nobody
  Key = trusted_key
  NoKey = no_key
  Releases = {2, 3}
  Olds = {1, 2}
  Secrets = {trusted_key, other_key}
  Parts <- MCParts
  MaxJobs = 3
  None = none
INVARIANTS
  SealedInsideOut
  PackedIsPinned
  FeedFitsFiles
  DeltasRebuildRelease
CHECK_DEADLOCK FALSE
