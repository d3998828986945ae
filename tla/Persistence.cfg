\* Rewrites of the append-only file and restarts.
SPECIFICATION Spec
CONSTANTS
  NoName = NoName
  ValueName = "value"
  Name <- MCName
  Tok <- MCTok
  Dash = "-"
  Index <- MCIndex
  SoughtName <- MCSoughtName
  ChildName <- MCChildName
  Fold <- MCFold
  Key = {k1, k2}
  BadJson = BadJson
  NotInt = NotInt
  Huge = 1
  MaxNodes = 3
  MaxLen = 1
  NestingLimit = 2
  Digits <- MCDigits
  Calls <- SavedCalls
INVARIANT
  TypeOK
PROPERTY
  RestartKeepsDocuments
SYMMETRY KeySymmetry
