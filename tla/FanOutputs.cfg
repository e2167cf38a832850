SPECIFICATION FairSpec
CONSTANTS
  N = 2
  M = 1
  Inputs = {"mbfan1"}
  Top = 2
  Curves <- MCCurves
  Hysts = {1, 2}
  Filtered = {}
  BootFans <- MCBootFans
  BootMbs <- MCBootMbs
  Freqs = {0, 1, 3}
  Thresholds = {1, 2}
  MaxChanges = 1
INVARIANTS OutputTracks StopReported
PROPERTY ChainSettles
CHECK_DEADLOCK FALSE
