SPECIFICATION Spec
CONSTANTS
  Exchanges = 3
  MaxDescriptors = 6
  Capacity = 2
  BufferSize = 2
  MaxLength = 3
  PageLength = 3
INVARIANTS
  TypeOK
  AnswerIsExact
  OnlyItsChildIsAwaited
  DescriptorsAreAccounted
PROPERTIES
  ExchangeEnds
CHECK_DEADLOCK FALSE
