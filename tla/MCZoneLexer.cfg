CONSTANTS
  TypeNames <- MCTypeNames
  ClassNames <- MCClassNames
  Lines <- MCLines
  MaxLines <- MCMaxAtoms
INIT Init
NEXT Next
INVARIANT TypeOK
INVARIANT NewlinePerRecord
CHECK_DEADLOCK FALSE
