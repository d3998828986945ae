\* One child list, and memory for four items.
SPECIFICATION Spec
CONSTANTS
  Item = {i1, i2, i3, i4}
  NULL = NULL
  MaxIndex = 4
INVARIANTS
  TypeOK
  WellLinked
PROPERTIES
  ImplementsList
SYMMETRY ItemSymmetry
