----------------------------- MODULE FptEncoder -----------------------------
(***************************************************************************)
(* The FPT binary generator, fw/AMC/scripts/gen_fpt.py main().            *)
(*                                                                         *)
(* One invocation of the script: it opens and loads the JSON description, *)
(* reads the header and the num_entries entry records, fills a bytearray  *)
(* and writes it to fpt.bin in the working directory.  Each "Step" of the *)
(* source is one action; the loop over the entry records is one action    *)
(* per iteration.  Byte strings are sequences of integers; a hex string   *)
(* of the JSON is given by the bytes bytearray.fromhex() makes of it (big *)
(* endian, as written), or by Malformed when fromhex() raises.            *)
(***************************************************************************)
EXTENDS Integers, Sequences
LOCAL INSTANCE SequencesExt

CONSTANTS
  HeaderSizes,  \* values of fpt_header_size the JSON may declare
  EntrySizes,   \* values of fpt_entry_size the JSON may declare
  Versions,     \* values of fpt_version the JSON may declare
  HexStrings,   \* fromhex() results of the hex strings the JSON may hold
  Types,        \* values of an entry's "type" field
  MaxEntries,   \* bound on num_entries
  Malformed,    \* a hex string fromhex() rejects
  Missing,      \* a JSON key that is absent
  StaleFile,    \* an fpt.bin left in the working directory by an earlier run
  NoFile,       \* no file at a path
  InvalidJson   \* a file json.load() rejects

ASSUME MaxEntries \in Nat /\ "PDI" \in Types

VARIABLES
  pc,          \* which Step of main() runs next
  fptData,     \* the bytearray fpt_data
  idx,         \* index_tuple of the entry loop
  hdr,         \* the header fields read in Step3
  entryList,   \* fpt_entry_list built in Step4
  fptBin,      \* content of fpt.bin in the working directory, or NoFile
  exitCode,    \* the process exit status once it has terminated
  json         \* the input file: NoFile, InvalidJson, or a document

vars == <<pc, fptData, idx, hdr, entryList, fptBin, exitCode, json>>

Running == -1

\* TYPE_PDI = '0x00000E00' as bytearray.fromhex() gives it.
TYPE_PDI == <<0, 0, 14, 0>>
FIELD_SIZE_U32 == 4
FIELD_SIZE_U8 == 1

Header == [fpt_entry_size: EntrySizes, fpt_header_size: HeaderSizes,
           fpt_version: Versions, magic_word: HexStrings \cup {Malformed},
           num_entries: 0..MaxEntries]
Entry == [type: Types, base_addr: HexStrings \cup {Malformed},
          partition_size: HexStrings \cup {Malformed}]
\* A JSON document: the "fpt_header(0)" object and the objects
\* "fpt_entry(0, x)" for x in 0..MaxEntries-1, each possibly absent.
Document == [header: Header \cup {Missing},
             entries: [0..(MaxEntries - 1) -> Entry \cup {Missing}]]

(***************************************************************************)
(* Python slice assignment fpt_data[pos:0] = b and fpt_data.insert(pos,v) *)
(* with pos >= 0: the empty slice at pos (clamped to the length) is       *)
(* replaced by b, so b is inserted and every later byte moves right.      *)
(***************************************************************************)
PyInsert(s, pos, b) ==
  LET q == IF pos < Len(s) THEN pos ELSE Len(s)
  IN  SubSeq(s, 1, q) \o b \o SubSeq(s, q + 1, Len(s))

\* Mutant: the .reverse() is left out, the field stays big endian.
LittleEndianNoReverse(hex) == hex

\* bytearray.fromhex(x[2:]) followed by .reverse()
LittleEndian(hex) == Reverse(hex)

Zeros(n) == [i \in 1..n |-> 0]

\* bytearray.insert() accepts an integer in range(256) only.
IsByte(v) == v \in 0..255

Byte == 0..255

TypeOK ==
  /\ pc \in {"open", "load", "header", "entries", "populate", "entry",
             "write", "done"}
  /\ fptData \in Seq(Byte)
  /\ idx \in 0..MaxEntries
  /\ hdr \in Header \cup {Missing}
  /\ entryList \in Seq(Entry)
  /\ fptBin \in Seq(Byte) \cup {NoFile, StaleFile}
  /\ exitCode \in {Running, 0, 1}
  /\ json \in {NoFile, InvalidJson} \cup Document

Init ==
  /\ pc = "open"
  /\ fptData = <<>>
  /\ idx = 0
  /\ hdr = Missing
  /\ entryList = <<>>
  /\ fptBin \in {NoFile, StaleFile}
  /\ exitCode = Running
  /\ json \in {NoFile, InvalidJson} \cup Document

\* Every except-branch of main() prints an error and raises SystemExit(1).
Fail ==
  /\ pc' = "done"
  /\ exitCode' = 1

\* Step1: open the JSON file.
OpenJson ==
  /\ pc = "open"
  /\ IF json = NoFile THEN Fail ELSE pc' = "load" /\ UNCHANGED exitCode
  /\ UNCHANGED <<fptData, idx, hdr, entryList, fptBin, json>>

\* Step2: json.load().
LoadJson ==
  /\ pc = "load"
  /\ IF json = InvalidJson THEN Fail ELSE pc' = "header" /\ UNCHANGED exitCode
  /\ UNCHANGED <<fptData, idx, hdr, entryList, fptBin, json>>

\* Step3: read the five fields of "fpt_header(0)".
ParseHeader ==
  /\ pc = "header"
  /\ IF json.header = Missing
       THEN Fail /\ UNCHANGED hdr
       ELSE /\ hdr' = json.header
            /\ pc' = "entries"
            /\ UNCHANGED exitCode
  /\ UNCHANGED <<fptData, idx, entryList, fptBin, json>>

\* Step4: build fpt_entry_list from "fpt_entry(0, x)", x in range(num_entries).
ParseEntries ==
  /\ pc = "entries"
  /\ LET n == hdr.num_entries IN
     IF \E x \in 0..(n - 1) : json.entries[x] = Missing
       THEN Fail /\ UNCHANGED entryList
       ELSE /\ entryList' = [i \in 1..n |-> json.entries[i - 1]]
            /\ pc' = "populate"
            /\ UNCHANGED exitCode
  /\ UNCHANGED <<fptData, idx, hdr, fptBin, json>>

(***************************************************************************)
(* Step5, header part: fpt_data = bytearray(header_size + entry_size * n) *)
(* then the reversed magic word is slice-inserted at 0 and the four byte  *)
(* fields are insert()ed at 4, 5, 6, 7.  fromhex() raises on a malformed  *)
(* magic word and insert() raises on a value that is not a byte.          *)
(***************************************************************************)
PopulateHeader ==
  /\ pc = "populate"
  /\ LET h == hdr
         size == h.fpt_header_size + h.fpt_entry_size * h.num_entries
         m == PyInsert(Zeros(size), 0, LittleEndian(h.magic_word))
         v == PyInsert(m, FIELD_SIZE_U32, <<h.fpt_version>>)
         hs == PyInsert(v, FIELD_SIZE_U32 + FIELD_SIZE_U8, <<h.fpt_header_size>>)
         es == PyInsert(hs, FIELD_SIZE_U32 + 2 * FIELD_SIZE_U8, <<h.fpt_entry_size>>)
         ne == PyInsert(es, FIELD_SIZE_U32 + 3 * FIELD_SIZE_U8, <<h.num_entries>>)
     IN IF \/ h.magic_word = Malformed
           \/ \E b \in {h.fpt_version, h.fpt_header_size, h.fpt_entry_size,
                        h.num_entries} : ~IsByte(b)
          THEN Fail /\ UNCHANGED fptData
          ELSE /\ fptData' = ne
               /\ pc' = "entry"
               /\ UNCHANGED exitCode
  /\ UNCHANGED <<idx, hdr, entryList, fptBin, json>>

\* Mutant: pos of the spec's 8/12 sizes instead of the declared ones.
EntryPosFixed(h, i) == 8 + 12 * i

\* pos = fpt_header_size + (fpt_entry_size * index_tuple)
EntryPos(h, i) == h.fpt_header_size + h.fpt_entry_size * i

(***************************************************************************)
(* Step5, one iteration of the entry loop: pos is recomputed from the     *)
(* declared sizes, the PDI type constant, base_addr and partition_size    *)
(* are slice-inserted at pos, pos + 4 and pos + 8.  A type other than     *)
(* 'PDI' raises, and so does fromhex() on a malformed field.              *)
(***************************************************************************)
PopulateEntry ==
  /\ pc = "entry"
  /\ idx < Len(entryList)
  /\ LET e == entryList[idx + 1]
         pos == EntryPos(hdr, idx)
         t == PyInsert(fptData, pos, LittleEndian(TYPE_PDI))
         b == PyInsert(t, pos + FIELD_SIZE_U32, LittleEndian(e.base_addr))
         p == PyInsert(b, pos + 2 * FIELD_SIZE_U32,
                       LittleEndian(e.partition_size))
     IN IF \/ e.type # "PDI"
           \/ e.base_addr = Malformed
           \/ e.partition_size = Malformed
          THEN Fail /\ UNCHANGED <<fptData, idx>>
          ELSE /\ fptData' = p
               /\ idx' = idx + 1
               /\ UNCHANGED <<pc, exitCode>>
  /\ UNCHANGED <<hdr, entryList, fptBin, json>>

\* The entry loop is exhausted.
EntriesDone ==
  /\ pc = "entry"
  /\ idx = Len(entryList)
  /\ pc' = "write"
  /\ UNCHANGED <<fptData, idx, hdr, entryList, fptBin, exitCode, json>>

(***************************************************************************)
(* Step6: open("fpt.bin", 'wb') and write.  The open may fail (fpt.bin is *)
(* left as it was) or the write may fail part-way (a prefix is on disk).  *)
(* The except branch only prints the exception; main() then returns and  *)
(* the exit status is 0 whatever happened.                                *)
(***************************************************************************)
WriteFptBin ==
  /\ pc = "write"
  /\ \/ fptBin' = fptData
     \/ UNCHANGED fptBin
     \/ \E k \in 0..(Len(fptData) - 1) : fptBin' = SubSeq(fptData, 1, k)
  /\ pc' = "done"
  /\ exitCode' = 0
  /\ UNCHANGED <<fptData, idx, hdr, entryList, json>>

Next ==
  \/ OpenJson
  \/ LoadJson
  \/ ParseHeader
  \/ ParseEntries
  \/ PopulateHeader
  \/ PopulateEntry
  \/ EntriesDone
  \/ WriteFptBin

Spec == Init /\ [][Next]_vars

-----------------------------------------------------------------------------
(***************************************************************************)
(* The layout the spec (section 3) gives an FPT: the 8-byte header, then  *)
(* num_entries 12-byte entries in index order, every multi-byte field     *)
(* little endian and zero-extended to 4 bytes.                             *)
(***************************************************************************)
U32LE(hex) ==
  LET r == Reverse(hex) IN [i \in 1..4 |-> IF i <= Len(r) THEN r[i] ELSE 0]

EntryLayout(e) == U32LE(TYPE_PDI) \o U32LE(e.base_addr) \o U32LE(e.partition_size)

\* The run has ended and wrote the whole buffer to fpt.bin.
Encoded == pc = "done" /\ exitCode = 0 /\ fptBin = fptData

(***************************************************************************)
(* Spec section 3: the header fields come first and entry i starts at     *)
(* fpt_header_size + fpt_entry_size * i, in index order.  When gen_fpt.py *)
(* writes fpt.bin for a description whose declared sizes leave room for   *)
(* the 8 header bytes and the 12 entry bytes, every entry has type PDI    *)
(* and the file holds the header at offset 0 and each entry at its        *)
(* declared offset.  This rests on the chain of slice-inserts of Step5    *)
(* (each shifts the bytes after it, including the bytes of earlier        *)
(* fields when a position is wrong) and on pos being recomputed from the  *)
(* declared sizes in every loop iteration.                                *)
(***************************************************************************)
HeaderLayout(h) ==
  U32LE(h.magic_word)
    \o <<h.fpt_version, h.fpt_header_size, h.fpt_entry_size, h.num_entries>>

\* The bytes of fpt.bin from offset off on are b.
HoldsAt(off, b) ==
  Len(fptBin) >= off + Len(b) /\ SubSeq(fptBin, off + 1, off + Len(b)) = b

WrittenPrefixIsLayout ==
  Encoded /\ hdr.fpt_header_size >= 8 /\ hdr.fpt_entry_size >= 12 =>
    /\ \A i \in 1..Len(entryList) : entryList[i].type = "PDI"
    /\ HoldsAt(0, HeaderLayout(hdr))
    /\ \A i \in 1..Len(entryList) :
         HoldsAt(hdr.fpt_header_size + hdr.fpt_entry_size * (i - 1),
                 EntryLayout(entryList[i]))

(***************************************************************************)
(* Spec section 8, layout invariant: the encoded buffer is exactly        *)
(* fpt_header_size + fpt_entry_size * num_entries bytes long.             *)
(***************************************************************************)
OutputLength ==
  Encoded => Len(fptBin) = hdr.fpt_header_size + hdr.fpt_entry_size * hdr.num_entries

(***************************************************************************)
(* Spec sections 6 and 7: exit status 0 means fpt.bin holds the encoding; *)
(* no error is silently swallowed.                                        *)
(***************************************************************************)
ExitZeroMeansWritten ==
  pc = "done" /\ exitCode = 0 => fptBin = fptData
=============================================================================
