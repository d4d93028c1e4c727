CONSTANTS
  N = 3
  Calls <- MCCalls
  Bodies <- MCBodies
SPECIFICATION Spec
INVARIANT
  GroupsConvex
CHECK_DEADLOCK FALSE
