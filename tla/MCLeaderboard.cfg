SPECIFICATION Spec
CONSTANTS
  Rows <- MCRows
  MaxRecords = 3
  MaxItems = 2
  Requests <- MCRequests
INVARIANTS
  NobodyIsSkipped
  RepeatsAreInsertions
