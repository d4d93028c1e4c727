CONSTANTS
  N = 4
  Calls <- MCCalls
  Bodies <- MCBodies
SPECIFICATION Spec
INVARIANTS
  TypeOK
  EachCallOnce
  OneManyToMany
  LastIsResult
PROPERTY
  PartitionEnds
CHECK_DEADLOCK FALSE
