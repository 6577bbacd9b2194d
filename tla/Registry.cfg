SPECIFICATION Spec
SYMMETRY MC_Symmetry
CONSTANTS
  Null = Null
  Ids = {i1,i2,i3,i4,i5}
  ICRs = {0,1,2,3}
  MaxSize = 4
INVARIANTS TypeOK ListHoldsOpen OwnersIndexed SearchFindsPlace
PROPERTY RefinesSortedList
CHECK_DEADLOCK FALSE
