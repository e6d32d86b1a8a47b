CONSTANTS
  TypeNames <- MCTypeNames
  ClassNames <- MCClassNames
  Lines <- MCDepthLines
  MaxLines = 1
  DefaultTtl = 3600
  MaxInclude = 7
  IncludeFiles <- MCIncludeFiles
  MaxIncludes = 8
  Consumer = "range"
SPECIFICATION Spec
INVARIANT IncludeRefusedAtLimit
CHECK_DEADLOCK FALSE
