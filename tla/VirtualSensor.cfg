SPECIFICATION SensorFairSpec
CONSTANTS
  Filters = {"none", "lossypeak", "sma"}
  Window = 2
  Decay = 1
  Delay = 2
  Timeouts = {0, 3}
  DefaultTemp = 2
  Temps = {0, 5}
  MaxWrites = 2
INVARIANT StaleIsDefault
PROPERTIES NoRevival SettlesUnfiltered
