SPECIFICATION FairCookerSpec
CONSTANTS
  Ingredients = {i1, i2, i3, i4, i5}
  Burners = 2
INVARIANTS
  InUseCountsBurning
PROPERTIES
  ServesInOrder
  EverybodyCooks
