SPECIFICATION Spec
CONSTANTS
  Top = 3
  Inputs <- Words3
INVARIANTS LoopComputesRank
\* One call is made, and its answer is the end.
CHECK_DEADLOCK FALSE
