CONSTANTS
  N = 3
  MaxFuse = 2
  Stencils <- MCStencils
  Inputs <- MCInputs
  Size <- MCSize
  Programs <- MCPrograms
SPECIFICATION Spec
PROPERTY
  SearchEnds
CHECK_DEADLOCK FALSE
