CONSTANTS
  ArgVectors <- MCArgVectors
  MaxArgs = 2
  StrRR <- MCStrRR
  StrClass <- MCStrClass
  Ids = {1, 2}
  Server = "r"
SPECIFICATION Spec
\* q exits after the reply loop (or panics on an empty argument):
\* QueryTerminates, not deadlock checking, states when it must get there.
CHECK_DEADLOCK FALSE

PROPERTY QueryRefined
