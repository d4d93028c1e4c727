CONSTANTS
  N = 5
  Calls <- MCCalls
  Graphs <- MCGraphs
SPECIFICATION Spec
INVARIANTS
  TypeOK
  Stratified
  CrossStreamSeparated
  NoRedundantSync
PROPERTY
  Terminates
CHECK_DEADLOCK FALSE
