----------------------------- MODULE AnalysisElf -----------------------------
(***************************************************************************)
(* make_reference_analysis_elf of src/executable/analysis_elf.cpp: an      *)
(* image is validated, its three records are given file positions, and the *)
(* ELF file is written front to back into a growing byte vector.           *)
(*                                                                         *)
(* The vector is modelled by its length and by the pieces written into it. *)
(* A piece is [what, at, size]: `what' says whose bytes these are.  Bytes  *)
(* of the vector that no piece covers are the zeroes resize() appends.     *)
(* resize() to a smaller length cuts bytes off in C++, so it does here.    *)
(*                                                                         *)
(* All arithmetic the code does on std::uint32_t goes through U32.         *)
(***************************************************************************)
EXTENDS GuestImage, FiniteSets, Sequences

CONSTANTS
  reference_zero_fill_size,  \* zeroes after data (8 MiB)
  elf_header_size,           \* 52
  program_header_size,       \* 32
  PageAlignment,             \* p_align of the two PT_LOAD segments (0x1000)
  ReginfoAlignment,          \* p_align of PT_MIPS_REGINFO (4)
  Images                     \* the images a caller may hand over

\* Everything the exporter adds to guest addresses and sizes below
\* ee_memory_size stays far below 2^32.
ASSUME ElfAssumption ==
  /\ reference_zero_fill_size \in Nat
  /\ elf_header_size \in Nat /\ program_header_size \in Nat
  /\ PageAlignment \in Nat \ {0} /\ ReginfoAlignment \in Nat \ {0}
  /\ elf_header_size + 3 * program_header_size + ee_memory_size
       + ReginfoSize + 2 * PageAlignment + ReginfoAlignment < WordSize
  /\ ee_memory_size + reference_zero_fill_size < WordSize
  /\ Images \subseteq ExecutableImage

VARIABLES
  image,     \* the argument
  pc,        \* where the function is
  segments,  \* the array of OutputSegment, empty until it is built
  index,     \* the segment the current range-for loop is at
  pieces,    \* what has been written into output.bytes
  length     \* output.bytes.size()

vars == <<image, pc, segments, index, pieces, length>>

-----------------------------------------------------------------------------
(***************************************************************************)
(* Layout.                                                                 *)
(***************************************************************************)

\* Mutant: the remainders swapped.
place_segment_swapped(cursor, address, alignment) ==
  U32(cursor + (((cursor % alignment) + alignment - (address % alignment)) % alignment))

\* The next file position congruent to the guest address modulo alignment.
place_segment(cursor, address, alignment) ==
  LET target_remainder  == address % alignment
      current_remainder == cursor % alignment
      padding == (target_remainder + alignment - current_remainder) % alignment
  IN  U32(cursor + padding)

\* Mutant: the size of data without the zero fill.
data_memory_size_unfilled(im) == U32(im.data.size)

reginfo_address(im) == U32(im.reginfo.address + ReginfoSize)
data_memory_size(im) == U32(im.data.size + reference_zero_fill_size)

\* The checks before anything is written; each failing one is a throw.
PolicyFits(im) ==
  /\ validate_image(im)
  /\ im.data.address + data_memory_size(im) <= ee_memory_size
  /\ reginfo_address(im) >= im.text.address + im.text.size
  /\ reginfo_address(im) + ReginfoSize <= im.data.address

text_offset(im) ==
  place_segment(elf_header_size + 3 * program_header_size,
                im.text.address, PageAlignment)

\* Mutant: the cursor is left at the start of text.
reginfo_offset_early(im) ==
  place_segment(text_offset(im), reginfo_address(im), ReginfoAlignment)

reginfo_offset(im) ==
  place_segment(U32(text_offset(im) + im.text.size),
                reginfo_address(im), ReginfoAlignment)
data_offset(im) ==
  place_segment(U32(reginfo_offset(im) + ReginfoSize),
                im.data.address, PageAlignment)

OutputSegments(im) ==
  << [name |-> "text", loaded |-> TRUE, file_offset |-> text_offset(im),
      guest_address |-> im.text.address, file_size |-> im.text.size,
      memory_size |-> im.text.size, alignment |-> PageAlignment],
     [name |-> "reginfo", loaded |-> FALSE, file_offset |-> reginfo_offset(im),
      guest_address |-> reginfo_address(im), file_size |-> im.reginfo.size,
      memory_size |-> ReginfoSize, alignment |-> ReginfoAlignment],
     [name |-> "data", loaded |-> TRUE, file_offset |-> data_offset(im),
      guest_address |-> im.data.address, file_size |-> im.data.size,
      memory_size |-> data_memory_size(im), alignment |-> PageAlignment] >>

-----------------------------------------------------------------------------
(***************************************************************************)
(* The byte vector.                                                        *)
(***************************************************************************)

Piece(kind, name, at, size) ==
  [kind |-> kind, name |-> name, at |-> at, size |-> size]

\* Pieces that survive output.bytes.resize(size).
KeptBy(size) == {p \in pieces : p.at + p.size <= size}

\* push_back / insert(end): append a piece to the vector.
AppendPiece(kind, name, size) ==
  /\ pieces' = pieces \cup {Piece(kind, name, length, size)}
  /\ length' = length + size

-----------------------------------------------------------------------------
Init ==
  /\ image \in Images
  /\ pc = "place" /\ segments = <<>> /\ index = 0
  /\ pieces = {} /\ length = 0

Refuse ==
  /\ pc = "place" /\ ~PolicyFits(image)
  /\ pc' = "threw"
  /\ UNCHANGED <<image, segments, index, pieces, length>>

PlaceSegments ==
  /\ pc = "place" /\ PolicyFits(image)
  /\ segments' = OutputSegments(image)
  /\ pc' = "header"
  /\ UNCHANGED <<image, index, pieces, length>>

write_header ==
  /\ pc = "header"
  /\ AppendPiece("header", "elf", elf_header_size)
  /\ pc' = "program headers" /\ index' = 1
  /\ UNCHANGED <<image, segments>>

\* Mutant: one iteration too many.
write_program_header_again ==
  /\ pc = "program headers"
  /\ AppendPiece("program header", segments[index].name, program_header_size)
  /\ IF index <= 3
       THEN index' = index + 1 /\ pc' = pc
       ELSE index' = 1 /\ pc' = "payloads"
  /\ UNCHANGED <<image, segments>>

write_program_header ==
  /\ pc = "program headers"
  /\ AppendPiece("program header", segments[index].name, program_header_size)
  /\ IF index < 3
       THEN index' = index + 1 /\ pc' = pc
       ELSE index' = 1 /\ pc' = "payloads"
  /\ UNCHANGED <<image, segments>>

\* Mutant: the payload is inserted without resize().
WritePayloadUnpadded ==
  /\ pc = "payloads"
  /\ AppendPiece("payload", segments[index].name, segments[index].file_size)
  /\ IF index < 3
       THEN index' = index + 1 /\ pc' = pc
       ELSE index' = index /\ pc' = "returned"
  /\ UNCHANGED <<image, segments>>

\* resize() to the segment's offset, then insert its payload.
WritePayload ==
  LET segment == segments[index] IN
  /\ pc = "payloads"
  /\ pieces' = KeptBy(segment.file_offset) \cup
                 {Piece("payload", segment.name, segment.file_offset, segment.file_size)}
  /\ length' = segment.file_offset + segment.file_size
  /\ IF index < 3
       THEN index' = index + 1 /\ pc' = pc
       ELSE index' = index /\ pc' = "returned"
  /\ UNCHANGED <<image, segments>>

\* The function is over; it has no further step.
Finished == pc \in {"threw", "returned"} /\ UNCHANGED vars

Next ==
  \/ Refuse \/ PlaceSegments
  \/ write_header \/ write_program_header \/ WritePayload
  \/ Finished

Spec == Init /\ [][Next]_vars

-----------------------------------------------------------------------------
(***************************************************************************)
(* The finished file as a loader sees it.  The loader finds the program    *)
(* headers right behind the ELF header, and copies p_filesz bytes of each  *)
(* PT_LOAD segment to its address, with zeroes up to p_memsz.  A byte is   *)
(* the set of its origins: two segments that both claim an address, or an  *)
(* address whose byte was overwritten in the file, show up as a set that   *)
(* is no singleton.                                                        *)
(***************************************************************************)
FileByte(offset) ==
  {<<p.name, offset - p.at>> :
     p \in {q \in pieces : /\ q.kind = "payload"
                           /\ offset \in q.at .. q.at + q.size - 1}}

SegmentByte(segment, a) ==
  IF a \notin segment.guest_address .. segment.guest_address + segment.memory_size - 1
    THEN {}
  ELSE IF a - segment.guest_address < segment.file_size
    THEN FileByte(segment.file_offset + (a - segment.guest_address))
  ELSE {<<"zero", 0>>}

LoadedByte(a) ==
  UNION {SegmentByte(segments[i], a) : i \in {j \in 1 .. 3 : segments[j].loaded}}

\* The table the ELF header announces is the one that was written.
TableInPlace ==
  /\ Piece("header", "elf", 0, elf_header_size) \in pieces
  /\ \A i \in 1 .. 3 :
       Piece("program header", segments[i].name,
             elf_header_size + (i - 1) * program_header_size,
             program_header_size) \in pieces

LoadedView ==
  [status  |-> IF TableInPlace THEN "exported" ELSE "unreadable",
   entry   |-> image.entry,
   memory  |-> [a \in 0 .. ee_memory_size - 1 |-> LoadedByte(a)],
   reginfo_address |-> segments[2].guest_address,
   reginfo |-> [i \in 0 .. ReginfoSize - 1 |->
                  FileByte(segments[2].file_offset + i)]]

view ==
  CASE pc = "returned" -> LoadedView
    [] pc = "threw"    -> [status |-> "rejected"]
    [] OTHER           -> [status |-> "pending"]

RV == INSTANCE ReferenceView WITH image <- image, view <- view

-----------------------------------------------------------------------------
(***************************************************************************)
(* Properties.                                                             *)
(***************************************************************************)
Names == {"text", "reginfo", "data"}
Segment ==
  [name : Names, loaded : BOOLEAN, file_offset : Word, guest_address : Word,
   file_size : Nat, memory_size : Word, alignment : Nat \ {0}]
PieceType ==
  [kind : {"header", "program header", "payload"}, name : Names \cup {"elf"},
   at : Nat, size : Nat]

\* Every variable keeps its type; in particular every offset the exporter
\* computes and stores in a program header is a 32-bit value.
TypeOK ==
  /\ image \in Images
  /\ pc \in {"place", "header", "program headers", "payloads", "returned", "threw"}
  /\ segments \in IF pc \in {"place", "threw"} THEN {<<>>} ELSE [1 .. 3 -> Segment]
  /\ index \in IF pc \in {"program headers", "payloads"} THEN 1 .. 3 ELSE 0 .. 3
  /\ pieces \in SUBSET PieceType
  /\ length \in Nat

\* The whole export: what a loader sees in the file of a successful call is
\* the guest memory of the analysis policy, each byte with exactly one origin,
\* and a call fails exactly on the images outside the policy.
ImplementsReferenceView == RV!Spec

\* resize(segment.file_offset, 0) before each payload only ever appends: no
\* byte written earlier is cut off and the file never shrinks.
AppendOnly == [][pieces \subseteq pieces' /\ length <= length']_vars

\* Where the bytes in front of segment i end.
EndBefore(i) ==
  IF i = 1 THEN elf_header_size + 3 * program_header_size
           ELSE segments[i - 1].file_offset + segments[i - 1].file_size

\* offset is the first position from cursor on that is congruent to address.
NextCongruent(offset, cursor, address, alignment) ==
  /\ offset \in Nat
  /\ cursor <= offset
  /\ offset < cursor + alignment
  /\ offset % alignment = address % alignment

\* place_segment's comment: each payload starts at the next file position that
\* is congruent to its guest address modulo p_align, behind the bytes already
\* placed and less than one alignment behind them.
PlacedAtNextCongruentPosition ==
  \A i \in DOMAIN segments :
    NextCongruent(segments[i].file_offset, EndBefore(i),
                  segments[i].guest_address, segments[i].alignment)

\* What has been written when so many program headers and payloads have been.
Written(headers, payloads) ==
  {Piece("header", "elf", 0, elf_header_size)}
  \cup {Piece("program header", segments[i].name,
              elf_header_size + (i - 1) * program_header_size,
              program_header_size) : i \in 1 .. headers}
  \cup {Piece("payload", segments[i].name, segments[i].file_offset,
              segments[i].file_size) : i \in 1 .. payloads}

\* The inductive invariant behind the other properties: at every point of the
\* function the vector holds exactly the pieces written so far, each at its
\* announced position, and ends right behind the last of them.
FileAsAnnounced ==
  /\ pc \notin {"place", "threw"} =>
       PolicyFits(image) /\ segments = OutputSegments(image)
  /\ pc = "threw" => ~PolicyFits(image)
  /\ pc \in {"place", "threw", "header"} => pieces = {} /\ length = 0
  /\ pc = "program headers" =>
       /\ pieces = Written(index - 1, 0)
       /\ length = elf_header_size + (index - 1) * program_header_size
  /\ pc = "payloads" => pieces = Written(3, index - 1) /\ length = EndBefore(index)
  /\ pc = "returned" => pieces = Written(3, 3) /\ length = EndBefore(4)
=============================================================================
