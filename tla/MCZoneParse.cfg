CONSTANTS
  TypeNames <- MCTypeNames
  ClassNames <- MCClassNames
  Lines <- MCLines
  MaxLines = 2
  DefaultTtl = 3600
  MaxInclude = 7
  IncludeFiles <- MCIncludeFiles
  MaxIncludes = 1
  Consumer = "range"
SPECIFICATION Spec
INVARIANT TypeOK
INVARIANT AcceptedFromRecords
INVARIANT TtlPerFile
INVARIANT RecordsDelivered
 
CHECK_DEADLOCK FALSE
