SPECIFICATION FairSpec
CONSTANTS
  Version = {1, 2}
  None = None
  Unordered = Unordered
  Policies = {"SparklePrompts", "HostRelaunches"}
  MaxQueue = 4
INVARIANTS OutcomeIsShown OfferIsLastAnswer HostCanRelaunch
PROPERTY BusyEnds
