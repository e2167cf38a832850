SPECIFICATION FairSpec
CONSTANTS
  SensorCount = 4
  Configs <- MCConfigs
  Devices <- MCDevices
  Chips <- MCChips
  Values <- MCValues
  MaxChanges = 2
  MaxSwitches = 2
INVARIANTS OwnDevice
PROPERTIES StartedFirst AllTried CombinationsSettle
CHECK_DEADLOCK FALSE
