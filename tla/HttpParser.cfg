SPECIFICATION FairSpec
CONSTANTS
  Streams <- Clients
INVARIANTS
  TypeOK
  GoodIsWholeRequest
  WholeRequestIsAccepted
PROPERTIES
  OnlyBodiesBlock
\* A client stops when it has sent all it has.
CHECK_DEADLOCK FALSE
