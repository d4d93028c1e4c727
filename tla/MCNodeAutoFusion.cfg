CONSTANTS
  N = 4
  MaxFuse = 3
  Stencils <- MCStencils
  Inputs <- MCInputs
  Size <- MCSize
  Programs <- MCPrograms
SPECIFICATION Spec
INVARIANTS
  TypeOK
  CallsAcyclic
  CallsPartition
  RefsDenote
  IfStencilsAlone
  SearchExhausted
  RecordsFollowFusions
CHECK_DEADLOCK FALSE
