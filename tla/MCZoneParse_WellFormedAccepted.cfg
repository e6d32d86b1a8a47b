CONSTANTS
  TypeNames <- MCTypeNames
  ClassNames <- MCClassNames
  Lines <- MCLines
  MaxLines = 2
  DefaultTtl = 3600
  MaxInclude = 7
  IncludeFiles <- MCIncludeFiles
  MaxIncludes = 1
  Consumer = "range"
SPECIFICATION Spec
INVARIANT WellFormedAccepted
CHECK_DEADLOCK FALSE
