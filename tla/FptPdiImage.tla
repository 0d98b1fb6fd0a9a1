----------------------------- MODULE FptPdiImage -----------------------------
(***************************************************************************)
(* What fpt_pdi_gen.py promises, as one step: from its arguments and the  *)
(* two input files, the process either writes the FPT setup PDI (the FPT, *)
(* 0xFF fill up to the boot search boundary, the device image) and exits *)
(* 0, prints the usage and exits 0 when given no argument, or exits 1     *)
(* having written nothing or a leading part of that image.  FptPdiGen     *)
(* implements it; the intermediate reads are stuttering steps here.      *)
(***************************************************************************)
EXTENDS Integers, Sequences

CONSTANTS FptNames, PdiNames, OutNames, FptContents, PdiContents,
          BootBoundary, NoArg, NoFile

VARIABLES
  input,    \* the command line and the contents of the files it names
  out,      \* the output file, or NoFile
  status    \* -1 while running, then the exit status

Inputs == [fpt: FptNames \cup {NoArg}, pdi: PdiNames \cup {NoArg},
           out: OutNames \cup {NoArg}, fptData: FptContents, pdiData: PdiContents]

\* The FPT setup PDI: byte i is the FPT's below its length, 0xFF up to
\* the boundary, then the device image.
Image(in) ==
  LET L == Len(in.fptData)
      padded == IF L > BootBoundary THEN L ELSE BootBoundary
  IN  [i \in 1..padded |-> IF i <= L THEN in.fptData[i] ELSE 255] \o in.pdiData

Init == input \in Inputs /\ out = NoFile /\ status = -1

\* No argument at all: the usage is printed.
Usage(in) == in.fpt = NoArg /\ in.pdi = NoArg /\ in.out = NoArg

Finish ==
  /\ status = -1
  /\ \/ status' = 0 /\ out' = Image(input) /\ input.fpt = ".bin" /\ input.pdi # NoArg
     \/ status' = 0 /\ out' = NoFile /\ Usage(input)
     \/ status' = 1 /\ out' \in {NoFile} \cup {SubSeq(Image(input), 1, k) : k \in 0..(Len(Image(input)) - 1)}
  /\ UNCHANGED input

Spec == Init /\ [][Finish]_<<input, out, status>>
=============================================================================
