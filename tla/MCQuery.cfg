CONSTANTS
  ArgVectors <- MCArgVectors
  MaxArgs = 3
  StrRR <- MCStrRR
  StrClass <- MCStrClass
  Ids = {1, 2}
  Server = "r"
SPECIFICATION Spec
\* q exits after the reply loop (or panics on an empty argument):
\* QueryTerminates, not deadlock checking, states when it must get there.
CHECK_DEADLOCK FALSE
INVARIANT ExitAfterAllReplies
PROPERTY QueryTerminates
