SPECIFICATION FairSpec
CONSTANTS
  MaxSent = 4
  MaxBytes = 3
  Timeout = 4
  Separator = 2
  Length = 2
  MaxOpens = 2
INVARIANTS EveryByteOnce OnePacketEach
PROPERTIES RecvReturns
\* A device that sends no more, a port that is not opened again.
CHECK_DEADLOCK FALSE
