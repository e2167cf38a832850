SPECIFICATION StoreSpec
CONSTANTS
  SensorCount = 3
  FanCount = 2
  FanSlots = 3
  KeySlots = 2
  ServerSlots = 2
  AclSlots = 2
  SensorType = "external"
  Communities = {"", "public"}
  Servers = {"s1", "s2"}
  Keys = {"ann", "ben"}
  Filters <- MCFilters
  Maps = {"linear", "steep"}
  Backup = "backup.cfg"
  Elsewhere <- MCElsewhere
  Safemode = FALSE
  MaxChanges = 2
  Numbers <- MCNumbers
  Masks <- MCMasks
  Addresses <- MCAddresses
  AccessLists <- MCAccessLists
  FanSources <- MCFanSources
  TachoSources <- MCTachoSources
  RpmModes <- MCRpmModes
  Coefficients <- MCCoefficients
  Timeouts <- MCTimeouts
  SourceLists <- MCSourceLists
INVARIANTS SaveKeeps LoadStable
PROPERTY SaveSurvives
