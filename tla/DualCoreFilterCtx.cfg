SPECIFICATION Spec
CONSTANTS
  CfgFields = {filter_ctx, filter}
  FilterCtx = filter_ctx
  StFields = {temp, fan_duty}
  MaxWrites = 1
  MaxRounds = 1
INVARIANT FilterCtxLive
