\* The text of a path, from pathToPointer to the two lookups of a pointer.
SPECIFICATION Spec
CONSTANTS
  Name <- MCName
  NoName <- MCNoName
  ValueName <- MCValueName
  SizeMax = 16
  Calls <- MCCalls
INVARIANT
  TypeOK
  PathFindsWhatItNames
  LookupsAgree
  FollowsLikeJsonPatch
