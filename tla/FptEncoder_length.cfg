\* Encoder: the length of fpt.bin against the spec layout invariant.
CONSTANTS
  HeaderSizes = {8}
  EntrySizes = {12}
  Versions <- MC_Versions
  HexStrings <- MC_HexStrings
  Types = {"PDI", "XYZ"}
  MaxEntries = 2
  Malformed = Malformed
  Missing = Missing
  StaleFile = StaleFile
  NoFile = NoFile
  InvalidJson = InvalidJson
SPECIFICATION Spec
INVARIANT OutputLength
\* gen_fpt.py is a process that terminates: every behaviour ends in pc = "done".
CHECK_DEADLOCK FALSE
