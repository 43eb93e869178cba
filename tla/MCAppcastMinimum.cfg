CONSTANTS
  Version <- Versions
  Installed = 1
  None = None
  Bad = Bad
  MinPage = 2
  MaxPage = 3
  Chains <- AppcastAlone
  Lifetime = 2
  MaxTime = 4
  MaxManifests = 3
  Lists <- Repositories
  GitHubClients <- GitHubSettings
  Appcasts <- Feeds
  Clients <- Systems
  Trees <- ReleaseTrees
  Selectors <- AssetSelectors
SPECIFICATION Spec
PROPERTY MinimumUpdateHolds
CHECK_DEADLOCK FALSE
