SPECIFICATION FairSpec
CONSTANTS
  BufferSize = 3
  HeaderSize = 1
  Sizes = {0, 2, 5, 7}
  WordSize = 100
  TimerIds = {t1, t2, t3}
  NoTimer = NoTimer
  MaxMessages = 4
  MaxOffset = 12
INVARIANTS
  TypeOK
  ArmedIsRecorded
  NothingOutlivesSession
  NoTimerDuringTransfer
  FreshFileIsExact
PROPERTIES
  SilentClientIsClosed
\* A connection that is down, or whose client is silent, does nothing more.
CHECK_DEADLOCK FALSE
