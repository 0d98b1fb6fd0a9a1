---------------------------- MODULE MC_FptEncoder ----------------------------
(***************************************************************************)
(* Model values for checking FptEncoder.  Hex strings are the bytes       *)
(* bytearray.fromhex() gives: <<0,0,14,0>> is "0x00000E00", <<16,0>> is   *)
(* "0x1000" (shorter than its 4-byte field).                              *)
(***************************************************************************)
EXTENDS FptEncoder

\* Strings the JSON of the repository uses, plus a short one.
MC_HexStrings == {<<0, 0, 14, 0>>, <<16, 0>>}
\* fpt_version 1, and 256 which bytearray.insert() rejects.
MC_Versions == {1, 256}
=============================================================================
