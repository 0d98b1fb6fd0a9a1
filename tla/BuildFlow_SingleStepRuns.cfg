CONSTANTS
  MaxInvocations <- MC_MaxInvocations
  MaxDay <- MC_MaxDay
  None = None
  XbtestApp = TRUE
SPECIFICATION Spec
INVARIANT SingleStepRuns
CHECK_DEADLOCK FALSE
