SPECIFICATION MCFairSpec
CONSTANTS
  Fans = 2
  Limit = 4
  Pass = 1
  Periods = {1, 2}
  Width = 3
  Second = 1
  MaxTicks = 2
  MaxEdges = 4
INVARIANTS Attribution EdgesCounted
PROPERTIES SpinningSeen Detected
