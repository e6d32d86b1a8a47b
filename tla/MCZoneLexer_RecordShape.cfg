CONSTANTS
  TypeNames <- MCTypeNames
  ClassNames <- MCClassNames
  Lines <- MCLines
  MaxLines <- MCMaxAtoms
INIT Init
NEXT Next

INVARIANT RecordShape
CHECK_DEADLOCK FALSE
