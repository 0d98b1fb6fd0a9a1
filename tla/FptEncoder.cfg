\* Encoder: a successful run writes the spec's layout as its prefix.
CONSTANTS
  HeaderSizes = {8, 10}
  EntrySizes = {12, 14}
  Versions <- MC_Versions
  HexStrings <- MC_HexStrings
  Types = {"PDI", "XYZ"}
  MaxEntries = 2
  Malformed = Malformed
  Missing = Missing
  StaleFile = StaleFile
  NoFile = NoFile
  InvalidJson = InvalidJson
SPECIFICATION Spec
INVARIANT WrittenPrefixIsLayout
\* gen_fpt.py is a process that terminates: every behaviour ends in pc = "done".
CHECK_DEADLOCK FALSE
