SPECIFICATION ReportsSpec
CONSTANTS
  Requests = {r1, r2}
  FieldCount = 3
  Fitting = {2, 3}
  Kinds = {"fan_duty", "mbfan_duty"}
  MaxRounds = 2
  MaxSettings = 1
INVARIANTS WholePage PageMemory StateAnnounced
CHECK_DEADLOCK FALSE
