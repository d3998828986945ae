\* A batch with a malformed argument.
SPECIFICATION Spec
CONSTANTS
  NoName = NoName
  ValueName = "value"
  Name <- MCName
  Tok <- MCTok
  Dash = "-"
  Index <- MCIndex
  SoughtName <- MCSoughtName
  ChildName <- MCChildName
  Fold <- MCFold
  Key = {k1}
  BadJson = BadJson
  NotInt = NotInt
  Huge = 1
  MaxNodes = 3
  MaxLen = 1
  Calls <- BrokenBatchCalls
  Follower = {f1}
  MaxStream = 3
  MaxRestarts = 1
INVARIANT
  CaughtUpIsEqual
