\* JSON.SET at a path that starts with $.
SPECIFICATION Spec
CONSTANTS
  NoName = NoName
  ValueName = "value"
  Name <- MCName
  Tok <- MCTok
  Dash = "-"
  Index <- MCIndex
  SoughtName <- MCSoughtName
  ChildName <- MCChildName
  Fold <- MCFold
  Key = {k1}
  BadJson = BadJson
  NotInt = NotInt
  Huge = 2
  MaxNodes = 4
  MaxLen = 2
  Calls <- DollarCalls
PROPERTY
  SetReadsBackAtAnyPath
VIEW View
