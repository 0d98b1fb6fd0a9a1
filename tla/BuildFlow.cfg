\* Successive gen_design.py invocations over one output directory.
CONSTANTS
  MaxInvocations <- MC_MaxInvocations
  MaxDay <- MC_MaxDay
  None = None
  XbtestApp = TRUE
SPECIFICATION Spec
INVARIANTS TypeOK CompleteRunHasAllOutputs ToolErrorsFail
\* The user stops invoking the script after MaxInvocations runs.
CHECK_DEADLOCK FALSE
