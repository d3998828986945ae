\* Every command that changes one document.
SPECIFICATION Spec
CONSTANTS
  NoName = NoName
  ValueName = "value"
  Name <- MCName
  Tok <- MCTok
  Dash = "-"
  Index <- MCIndex
  SoughtName <- MCSoughtName
  ChildName <- MCChildName
  Fold <- MCFold
  Key = {k1}
  BadJson = BadJson
  NotInt = NotInt
  Huge = 1
  MaxNodes = 5
  MaxLen = 2
  Calls <- DocumentCalls
INVARIANTS
  TypeOK
PROPERTIES
  SetReadsBack
  SetKeepsTheRest
  SetIsIdempotent
  DelUndoesAdd
  DelTakesOneItem
  KeyGoesWithItsLastChild
  ArrayCommandsEditSequences
  UnsentChangesNothing
  ReplyIsWhatARereadFinds
VIEW View
