SPECIFICATION FairSpec
CONSTANTS
  Streams <- Clients
PROPERTIES
  ParseReturns
\* A client stops when it has sent all it has.
CHECK_DEADLOCK FALSE
