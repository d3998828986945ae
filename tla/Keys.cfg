\* Every command on two keys.
SPECIFICATION Spec
CONSTANTS
  NoName = NoName
  ValueName = "value"
  Name <- MCName
  Tok <- MCTok
  Dash = "-"
  Index <- MCIndex
  SoughtName <- MCSoughtName
  ChildName <- MCChildName
  Fold <- MCFold
  Key = {"k1", "k2"}
  BadJson = BadJson
  NotInt = NotInt
  Huge = 1
  MaxNodes = 2
  MaxLen = 1
  Calls <- KeyCalls
PROPERTIES
  UnsentChangesNothing
  MgetAgreesWithGet
VIEW View
