\* A document too deep for the parser.
SPECIFICATION Spec
CONSTANTS
  NoName = NoName
  ValueName = "value"
  Name <- MCName
  Tok <- MCTok
  Dash = "-"
  Index <- MCIndex
  SoughtName <- MCSoughtName
  ChildName <- MCChildName
  Fold <- MCFold
  Key = {k1}
  BadJson = BadJson
  NotInt = NotInt
  Huge = 1
  MaxNodes = 3
  MaxLen = 1
  NestingLimit = 1
  Digits <- MCDigits
  Calls <- DeepCalls
INVARIANT
  RestartKeepsKeys
