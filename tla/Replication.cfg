\* Followers replay what the master propagated, and catch up.
SPECIFICATION FairSpec
CONSTANTS
  NoName = NoName
  ValueName = "value"
  Name <- MCName
  Tok <- MCTok
  Dash = "-"
  Index <- MCIndex
  SoughtName <- MCSoughtName
  ChildName <- MCChildName
  Fold <- MCFold
  Key = {k1}
  BadJson = BadJson
  NotInt = NotInt
  Huge = 1
  MaxNodes = 3
  MaxLen = 1
  Calls <- StreamCalls
  Follower = {f1}
  MaxStream = 3
  MaxRestarts = 1
INVARIANTS
  TypeOK
  FollowersReplayHistory
  CaughtUpIsEqual
PROPERTIES
  ImplementsLog
  CatchesUp
