\* The parser on texts and the printer on documents, which are parsed again.
SPECIFICATION Spec
CONSTANTS
  Name <- MCName
  NoName <- MCNoName
  ValueName <- MCValueName
  NestingLimit = 2
  NumberBuffer = 5
  DefaultSize = 4
  MaxInt = 24
  Texts <- MCTexts
  Docs <- MCDocs
INVARIANT
  TypeOK
  ReadsJson
  RoundTrip
  PrintsIfItFits
  BuffersHold
  FailureFreesAll
PROPERTY
  EndsWithAnAnswer
