SPECIFICATION FairSpec
CONSTANTS
  Streams <- PlainClients
INVARIANTS
  RequestIsNoError
\* A client stops when it has sent all it has.
CHECK_DEADLOCK FALSE
