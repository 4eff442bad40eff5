SPECIFICATION Spec
CONSTANTS
  MaxRows = 1
  MaxSlot = 7
  MaxLoads = 1
  Files <- MCFiles
  FilterSets <- MCFilterSets
PROPERTY NothingExpiredIsOffered
CHECK_DEADLOCK FALSE
