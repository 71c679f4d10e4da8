SPECIFICATION Spec
CONSTANTS
  Inputs <- AllInputs
  MaxUrl = 4
  MaxPath = 6
  MaxQuery = 4
  MaxVersion = 4
  MaxFields = 3
INVARIANTS
  TypeOK
  RequestLineIsAccepted
  AcceptedIsRequestLine
  HeaderPiecesAgree
  UrlIsNormal
  VersionsAgree
  EscapesAreDecoded
  QueryIsSplit
  ArgsAreSplit
CHECK_DEADLOCK FALSE
