CONSTANTS
  Zones <- MCZones
  Ids = {1, 2}
  Rcodes = {0, 1, 2}
  Requests <- MCRequests
  MaxCalls = 3
SPECIFICATION Spec
INVARIANT SetterMakesPredicate
CHECK_DEADLOCK FALSE
