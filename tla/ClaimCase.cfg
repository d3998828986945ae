\* JSON.DEL where two names differ in case only.
SPECIFICATION Spec
CONSTANTS
  NoName = NoName
  ValueName = "value"
  Name <- MCName
  Tok <- MCTok
  Dash = "-"
  Index <- MCIndex
  SoughtName <- MCSoughtName
  ChildName <- MCChildName
  Fold <- MCFold
  Key = {k1}
  BadJson = BadJson
  NotInt = NotInt
  Huge = 2
  MaxNodes = 4
  MaxLen = 2
  Calls <- CaseCalls
PROPERTY
  DelTakesOneItem
VIEW View
