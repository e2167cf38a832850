SPECIFICATION FairSpec
CONSTANTS
  Local = "EET-2"
  Server = "UTC0"
  Lag = 2
  MaxTime = 3
  MaxBoots = 3
INVARIANTS AcceptedWhole PastCounted
PROPERTY ServerZoneApplies
