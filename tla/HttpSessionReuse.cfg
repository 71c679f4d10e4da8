SPECIFICATION Spec
CONSTANTS
  BufferSize = 3
  HeaderSize = 1
  Sizes = {0, 2, 5, 7}
  WordSize = 100
  TimerIds = {t1, t2, t3}
  NoTimer = NoTimer
  MaxMessages = 2
  MaxOffset = 12
SYMMETRY Symmetry
INVARIANTS
  EveryFileIsExact
CHECK_DEADLOCK FALSE
