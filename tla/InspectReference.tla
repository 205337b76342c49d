-------------------------- MODULE InspectReference --------------------------
(***************************************************************************)
(* scripts/inspect_reference.py, the second reader of CORE and the only    *)
(* reader of ELF files in the repository, and the checks that              *)
(* scripts/verify_native_image.py adds for one program header.             *)
(*                                                                         *)
(* Both files are read whole before anything is decided, so the script is  *)
(* a pair of predicates.  A byte of a file is the set of its origins, as   *)
(* in AnalysisElf; every error is one outcome, the negation.               *)
(***************************************************************************)
EXTENDS Integers, Sequences

CONSTANTS
  HalfWordBytes,       \* bytes of a u16 field (2)
  WordBytes,           \* bytes of a u32 field (4)
  elf_header_size,     \* 52
  program_header_size  \* 32

-----------------------------------------------------------------------------
(***************************************************************************)
(* CORE: a container as in CoreFormat.  `cursor' is the Python variable,   *)
(* after the authentication values (0) and after each record (1 .. 3); a   *)
(* field behind the end of `inflated' raises struct.error.                 *)
(***************************************************************************)
\* Mutant: the length prefix of a record is skipped without its address.
RecordHeaderShort == WordBytes
RecordHeader == WordBytes + WordBytes

AuthenticationEnd(body) ==
  (HalfWordBytes + body.authentication[1]) + (HalfWordBytes + body.authentication[2])

Cursor(body) ==
  LET cursor[i \in 0 .. 3] ==
        IF i = 0 THEN AuthenticationEnd(body) + 2 * WordBytes
                 ELSE cursor[i - 1] + RecordHeader + body.records[i].size
  IN cursor

AcceptsCore(core) ==
  LET body == core.stream.body
      cursor == Cursor(body) IN
  /\ core.flags = "0x0101" /\ HalfWordBytes + WordBytes <= core.size
  /\ core.stream.ends /\ core.stream.used = core.size - (HalfWordBytes + WordBytes)
  /\ body.length = core.expected
  /\ 2 * HalfWordBytes + body.authentication[1] <= body.length
  /\ cursor[0] <= body.length /\ body.count = 3
  /\ \A i \in 1 .. 3 : cursor[i - 1] + RecordHeader <= body.length /\ cursor[i] <= body.length
  /\ cursor[3] = body.length

-----------------------------------------------------------------------------
(***************************************************************************)
(* ELF: [ident, entry, table, three, size, headers, bytes], where headers  *)
(* are what the file holds at the offset `table'.                          *)
(***************************************************************************)
Names == <<"reginfo", "text", "data">>
Record(image, i) == image[Names[i]]

\* Mutant: headers and records taken in the same order.
reference_header_same == <<1, 2, 3>>

\* CORE's records are reginfo, text, data; the builder writes text first.
reference_header_indices == <<2, 1, 3>>

HeaderOf(elf, i) == elf.headers[reference_header_indices[i]]

\* payload == elf[elf_start:elf_end]; a slice past the end is an error before.
PayloadMatches(image, elf, i) ==
  \A k \in 0 .. Record(image, i).size - 1 :
    elf.bytes[HeaderOf(elf, i).file_offset + k] = {<<Names[i], k>>}

RecordMatches(image, elf, i) ==
  LET header == HeaderOf(elf, i) IN
  /\ header.file_offset + header.file_size <= elf.size
  /\ header.file_size = Record(image, i).size
  /\ PayloadMatches(image, elf, i)
  /\ i = 1 \/ Record(image, i).address = header.virtual_address

MatchesElf(image, elf) ==
  /\ elf.ident /\ elf_header_size <= elf.size
  /\ elf.entry = image.entry
  /\ elf.three /\ elf.table + 3 * program_header_size <= elf.size
  /\ \A i \in 1 .. 3 : RecordMatches(image, elf, i)

\* verify_native_image: the checks of one header of the native ELF.
HeaderValid(header) ==
  /\ \E k \in 0 .. header.alignment : header.alignment = 2^k
  /\ header.file_offset % header.alignment = header.virtual_address % header.alignment
  /\ header.file_size <= header.memory_size
=============================================================================
