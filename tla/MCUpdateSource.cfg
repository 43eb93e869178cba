CONSTANTS
  Version <- Versions
  Installed = 1
  None = None
  Bad = Bad
  MinPage = 2
  MaxPage = 3
  Chains <- ChainsToAsk
  Lifetime = 2
  MaxTime = 4
  MaxManifests = 3
  Lists <- Repositories
  GitHubClients <- GitHubSettings
  Appcasts <- Feeds
  Clients <- Systems
  Trees <- ReleaseTrees
  Selectors <- AssetSelectors
SPECIFICATION Spec
INVARIANTS
  OffersNewest
  AnswerFits
  TargetsAreServed
  PolicyHolds
PROPERTIES
  FreshEnough
CHECK_DEADLOCK FALSE
