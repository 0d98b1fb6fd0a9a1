\* Encoder: exit status 0 against what is on disk.
CONSTANTS
  HeaderSizes = {8}
  EntrySizes = {12}
  Versions <- MC_Versions
  HexStrings <- MC_HexStrings
  Types = {"PDI", "XYZ"}
  MaxEntries = 2
  Malformed = Malformed
  Missing = Missing
  StaleFile = StaleFile
  NoFile = NoFile
  InvalidJson = InvalidJson
SPECIFICATION Spec
INVARIANT ExitZeroMeansWritten
\* gen_fpt.py is a process that terminates: every behaviour ends in pc = "done".
CHECK_DEADLOCK FALSE
