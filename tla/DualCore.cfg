SPECIFICATION FairSpec
CONSTANTS
  CfgFields = {filter_ctx, filter}
  FilterCtx = filter_ctx
  StFields = {temp, fan_duty}
  MaxWrites = 2
  MaxRounds = 2
INVARIANTS ConfigWhole StateWhole
PROPERTIES ImplementsConfigExchange ImplementsStateExchange
           CommandCompletes ConfigReachesCore1 StateReachesCore0
