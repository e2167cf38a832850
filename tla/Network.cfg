SPECIFICATION FairSpec
CONSTANTS
  MaxFailures = 1
  MaxOnline = 1
  MaxLosses = 1
INVARIANTS OneAttempt SyslogOpens
PROPERTIES Reconnects DiscoveryAnswered UpAgain
CHECK_DEADLOCK FALSE
