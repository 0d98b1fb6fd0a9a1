\* Combiner: the PDI suffix check.
CONSTANTS
  FptNames = {".bin", ".json"}
  PdiNames = {".pdi", ".txt"}
  OutNames = {"-", ".PDI", ".txt"}
  FptContents <- MC_FptContents
  PdiContents <- MC_PdiContents
  BootBoundary = 4
  NoArg = NoArg
  NoFile = NoFile
SPECIFICATION Spec
INVARIANT PdiSuffixChecked
\* fpt_pdi_gen.py terminates: every behaviour ends in pc = "done".
CHECK_DEADLOCK FALSE
