------------------------------ MODULE FptPdiGen ------------------------------
(***************************************************************************)
(* The FPT setup PDI generator, hw/<board>/fpt/fpt_pdi_gen.py: its        *)
(* __main__ block and do_fpt_pdi_generation().  It reads an FPT binary,   *)
(* pads it with 0xFF up to the 32 KiB boot search boundary, appends the   *)
(* device image and writes the result.                                    *)
(*                                                                         *)
(* A file name is abstracted to its suffix, the only part the script      *)
(* looks at.  File contents are byte sequences; the boundary 0x8000 is    *)
(* the constant BootBoundary, which the MC module scales down: ljust()    *)
(* only depends on whether the FPT is shorter than, as long as, or longer *)
(* than the boundary.                                                     *)
(***************************************************************************)
EXTENDS Integers, Sequences

CONSTANTS
  FptNames,      \* suffixes the --fpt argument may have
  PdiNames,      \* suffixes the --pdi argument may have
  OutNames,      \* suffixes the --output argument may have, "-" included
  FptContents,   \* byte sequences the FPT file may hold
  PdiContents,   \* byte sequences the PDI file may hold
  BootBoundary,  \* 0x8000
  NoArg,         \* an argument left out
  NoFile         \* no file at a path

ASSUME BootBoundary \in Nat \ {0}

VARIABLES
  pc,        \* "main", "read_fpt", "read_pdi", "write", "done"
  args,      \* the parsed command line
  outName,   \* out_file_local
  fptBuf,    \* fpt_bin_data
  pdiBuf,    \* pdi_bin_data
  output,    \* content of the output file, or NoFile
  exitCode   \* the process exit status once it has terminated

vars == <<pc, args, outName, fptBuf, pdiBuf, output, exitCode>>

Running == -1
PadByte == 255      \* b'\xff'
DefaultOut == "fpt_setup.pdi"

Args == [fpt: FptNames \cup {NoArg}, pdi: PdiNames \cup {NoArg},
         out: OutNames \cup {NoArg}, fptData: FptContents, pdiData: PdiContents]

\* str.lower() on a suffix
Lower(s) == IF s = ".PDI" THEN ".pdi" ELSE s

\* Mutant: padded to one byte short of the width.
LJustShort(s, width, fill) ==
  IF Len(s) >= width - 1 THEN s
  ELSE s \o [i \in 1..(width - 1 - Len(s)) |-> fill]

\* bytearray.ljust(width, fill): pad on the right, never truncate.
LJust(s, width, fill) ==
  IF Len(s) >= width THEN s
  ELSE s \o [i \in 1..(width - Len(s)) |-> fill]

\* Mutant: the suffix of --output is not checked.
OutputNameNoCheck(o) == TRUE

\* --output is left at its default or ends in .pdi, in any case.
OutputNameOK(o) == o = "-" \/ Lower(o) = ".pdi"

TypeOK ==
  /\ pc \in {"main", "read_fpt", "read_pdi", "write", "done"}
  /\ args \in Args
  /\ outName \in {o \in OutNames : Lower(o) = ".pdi"} \cup {DefaultOut, NoArg}
  /\ fptBuf \in Seq(0..255)
  /\ pdiBuf \in Seq(0..255)
  /\ output \in Seq(0..255) \cup {NoFile}
  /\ exitCode \in {Running, 0, 1}

Init ==
  /\ pc = "main"
  /\ args \in Args
  /\ outName = NoArg
  /\ fptBuf = <<>>
  /\ pdiBuf = <<>>
  /\ output = NoFile
  /\ exitCode = Running

Doomed ==
  /\ pc' = "done"
  /\ exitCode' = 1

(***************************************************************************)
(* __main__: with no argument at all the usage is printed and             *)
(* parser.exit() ends the process with status 0.  Otherwise both --fpt   *)
(* and --pdi are required; --output defaults to fpt_setup.pdi and         *)
(* otherwise must end in .pdi, case-insensitively.                        *)
(***************************************************************************)
\* len(sys.argv[1:]) == 0: no option at all was given.
NoArguments == args.fpt = NoArg /\ args.pdi = NoArg /\ args.out = NoArg

\* args.outfile: --output, or its default '-'.
OutFile == IF args.out = NoArg THEN "-" ELSE args.out

Main ==
  /\ pc = "main"
  /\ IF NoArguments
       THEN pc' = "done" /\ exitCode' = 0 /\ UNCHANGED outName
     ELSE IF \/ args.fpt = NoArg \/ args.pdi = NoArg
        \/ ~OutputNameOK(OutFile)
       THEN Doomed /\ UNCHANGED outName
       ELSE /\ outName' = IF OutFile = "-" THEN DefaultOut ELSE OutFile
            /\ pc' = "read_fpt"
            /\ UNCHANGED exitCode
  /\ UNCHANGED <<args, fptBuf, pdiBuf, output>>

(***************************************************************************)
(* do_fpt_pdi_generation, first part: only a .bin FPT is accepted; it is  *)
(* read (a read error is doomed) and padded with ljust(0x8000, b'\xff').  *)
(***************************************************************************)
ReadFpt ==
  /\ pc = "read_fpt"
  /\ \/ /\ args.fpt = ".bin"
        /\ fptBuf' = LJust(args.fptData, BootBoundary, PadByte)
        /\ pc' = "read_pdi"
        /\ UNCHANGED exitCode
     \/ Doomed /\ UNCHANGED fptBuf   \* wrong suffix, or open()/read() raised
  /\ UNCHANGED <<args, outName, pdiBuf, output>>

(***************************************************************************)
(* Second part: the PDI is read when fpt_file (sic) ends in .json or .bin,*)
(* otherwise doomed with a message about the PDI suffix.                  *)
(***************************************************************************)
ReadPdi ==
  /\ pc = "read_pdi"
  /\ \/ /\ args.fpt \in {".json", ".bin"}
        /\ pdiBuf' = args.pdiData
        /\ pc' = "write"
        /\ UNCHANGED exitCode
     \/ Doomed /\ UNCHANGED pdiBuf
  /\ UNCHANGED <<args, outName, fptBuf, output>>

(***************************************************************************)
(* dump_data_to_file(output, fpt + pdi, 'wb'): open() truncates the file; *)
(* a failing write leaves a prefix of the data and is doomed.  On success *)
(* the script ends with sys.exit(), status 0.                             *)
(***************************************************************************)
WriteOutput ==
  /\ pc = "write"
  /\ LET data == fptBuf \o pdiBuf IN
       \/ /\ output' = data
          /\ pc' = "done"
          /\ exitCode' = 0
       \/ /\ \E k \in 0..(Len(data) - 1) : output' = SubSeq(data, 1, k)
          /\ Doomed
       \/ /\ UNCHANGED output     \* open() raised
          /\ Doomed
  /\ UNCHANGED <<args, outName, fptBuf, pdiBuf>>

Next == Main \/ ReadFpt \/ ReadPdi \/ WriteOutput

Spec == Init /\ [][Next]_vars

-----------------------------------------------------------------------------
\* The script reached its final print "FPT Setup PDI Generated".
Generated == exitCode = 0 /\ outName # NoArg

(***************************************************************************)
(* Spec section 8, padding and concatenation: when the script exits 0     *)
(* after an FPT of length L <= 0x8000, the output's first 0x8000 bytes    *)
(* are the FPT followed by 0xFF fill, and the device image follows from   *)
(* offset 0x8000 on, byte for byte.                                       *)
(***************************************************************************)
ComposedImage ==
  Generated /\ Len(args.fptData) <= BootBoundary =>
    LET L == Len(args.fptData) IN
    /\ Len(output) = BootBoundary + Len(args.pdiData)
    /\ SubSeq(output, 1, L) = args.fptData
    /\ \A i \in (L + 1)..BootBoundary : output[i] = PadByte
    /\ SubSeq(output, BootBoundary + 1, Len(output)) = args.pdiData

(***************************************************************************)
(* The error message of the PDI check: the PDI file must have a .bin or   *)
(* .pdi suffix, so no image is built from any other file.                 *)
(***************************************************************************)
PdiSuffixChecked ==
  Generated => args.pdi \in {".bin", ".pdi"}

Abstract == INSTANCE FptPdiImage WITH input <- args, out <- output, status <- exitCode

=============================================================================
