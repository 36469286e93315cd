SPECIFICATION FairSpec
CONSTANTS
  MaxCases = 2
  MaxCrashes = 2
  MaxRefused = 1
  Retries = 2
INVARIANTS AtMostOnce CrashNotMissed NoFalseAlarm
PROPERTIES CallEnds
CHECK_DEADLOCK FALSE
