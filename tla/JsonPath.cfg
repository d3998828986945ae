\* JSON.GET with paths of up to three pieces, every slice of short arrays, and
\* filters of up to four units.
SPECIFICATION Spec
CONSTANTS
  NoName = NoName
  ValueName = "value"
  Name = {"a", "b", "value"}
  Omitted = Omitted
  Calls <- MCCalls
INVARIANTS
  TypeOK
  KeepsOrder
  SelectsWhatIsMeant
  EachItemOnce
