CONSTANTS
  TypeNames <- MCTypeNames
  ClassNames <- MCClassNames
  Lines <- MCBadRecordLines
  MaxLines = 2
  DefaultTtl = 3600
  MaxInclude = 7
  IncludeFiles <- MCIncludeFiles
  MaxIncludes = 1
  Consumer = "range"
SPECIFICATION Spec
INVARIANT AcceptedFromRecords
CHECK_DEADLOCK FALSE
