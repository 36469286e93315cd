SPECIFICATION Spec
CONSTANTS
  Cfg <- MCCfg
  OtherLines <- MCOther
  Pow = 3
  MapSize = 8
  MaxReports = 3
INVARIANTS NewIffUnseen AllTraced NeverInvented
PROPERTIES ImplementsNovelty
\* The campaign ends with the last report.
CHECK_DEADLOCK FALSE
