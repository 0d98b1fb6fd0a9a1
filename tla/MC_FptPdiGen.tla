---------------------------- MODULE MC_FptPdiGen ----------------------------
(***************************************************************************)
(* Model values for FptPdiGen.  The boundary 0x8000 is scaled to 4 bytes; *)
(* the FPT contents cover L < 4, L = 4 and L > 4, and L = 0.              *)
(***************************************************************************)
EXTENDS FptPdiGen

MC_FptContents == {<<>>, <<1, 1>>, <<1, 1, 1, 1>>, <<1, 1, 1, 1, 1, 1>>}
MC_PdiContents == {<<7>>, <<7, 8>>}
=============================================================================
