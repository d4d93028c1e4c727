CONSTANTS
  N = 4
  RunStep = 2
  Calls <- MCCalls
  Graphs <- MCGraphs
  Kernels <- MCKernels
  Tags <- MCTags
SPECIFICATION ProgramSpec
INVARIANTS
  ProgramTypeOK
  PlanIsWellPlanned
  NoEarlyKernel
  BarrierMeets
  CountersNeverOvershoot
  OutputsComplete
PROPERTIES
  ComputesDataflow
  ResetWhenQuiet
  ProgramEnds
CHECK_DEADLOCK FALSE
