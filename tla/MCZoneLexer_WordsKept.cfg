CONSTANTS
  TypeNames <- MCTypeNames
  ClassNames <- MCClassNames
  Lines <- MCLines
  MaxLines <- MCMaxAtoms
INIT Init
NEXT Next
INVARIANT WordsKept
CHECK_DEADLOCK FALSE
