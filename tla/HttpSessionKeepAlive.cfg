SPECIFICATION FairSpec
CONSTANTS
  BufferSize = 3
  HeaderSize = 1
  Sizes = {0, 2, 5, 7}
  WordSize = 100
  TimerIds = {t1, t2, t3}
  NoTimer = NoTimer
  MaxMessages = 1
  MaxOffset = 12
PROPERTIES
  KeepAliveIsHonoured
CHECK_DEADLOCK FALSE
