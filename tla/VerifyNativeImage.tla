------------------------- MODULE VerifyNativeImage -------------------------
(***************************************************************************)
(* One run of scripts/verify_native_image.py: the reference ELF is hashed, *)
(* then inspect_reference reads CORE and the reference, then CORE and the  *)
(* native ELF, and the two reports are compared.  Every read_bytes opens   *)
(* the path again, so the user may have replaced the file in between.      *)
(*                                                                         *)
(* SHA-256 is taken as injective: a hash is the content.  A CORE is the    *)
(* image in it (what makes the two readers agree is CoreAgreement's        *)
(* subject); an ELF is as in InspectReference.                             *)
(***************************************************************************)
EXTENDS InspectReference

CONSTANTS
  Cores, PinnedCore,      \* what may be at the CORE path; the pinned input
  Elfs, PinnedReference,  \* what may be at the ELF paths; the pinned M3 artifact
  MemorySize,             \* guest memory a loader fills
  MaxEdits                \* bound on the user's steps

\* A header's addresses and sizes are unsigned fields.
LayoutFields == {"virtual_address", "file_size", "memory_size"}

ASSUME VerifyAssumption ==
  /\ PinnedCore \in Cores /\ MaxEdits \in Nat /\ MemorySize \in Nat
  /\ \A i \in 1 .. 3 : PinnedCore[Names[i]].size \in Nat
  /\ \A elf \in Elfs, i \in 1 .. 3, field \in LayoutFields : elf.headers[i][field] \in Nat

VARIABLES
  disk,               \* path -> content
  pc,                 \* the next read, "compare" or the exit status
  reference, native,  \* reports of the two inspections: [core, elf]
  zero_fill_ranges,   \* of the report printed at the end
  edits               \* number of the user's steps

vars == <<disk, pc, reference, native, zero_fill_ranges, edits>>

None == <<>>

Init ==
  /\ disk \in [core : Cores, reference : Elfs, native : Elfs]
  /\ pc = "hash" /\ reference = None /\ native = None
  /\ zero_fill_ranges = {} /\ edits = 0

\* Any error ends the script with status 1; so does a file that cannot be read.
Fail == pc' = "exit_1" /\ UNCHANGED <<reference, native, zero_fill_ranges>>

\* reference_hash, from a read of its own.
HashReference ==
  /\ pc = "hash"
  /\ \/ disk.reference = PinnedReference /\ pc' = "reference_core"
        /\ UNCHANGED <<reference, native, zero_fill_ranges>>
     \/ Fail
  /\ UNCHANGED <<disk, edits>>

\* Mutant: only the size of CORE is looked at, which all Cores share.
CoreIsPinnedBySize(core) == TRUE

\* Size and hash against the baseline.
CoreIsPinned(core) == core = PinnedCore

\* inspect_reference: CORE is read, pinned and parsed, then the ELF is read.
ReadCore(inspection) ==
  LET report == [core |-> disk.core, elf |-> None]
      core_read == [reference |-> "reference_core", native |-> "native_core"]
      elf_read == [reference |-> "reference_elf", native |-> "native_elf"] IN
  /\ pc = core_read[inspection]
  /\ \/ /\ CoreIsPinned(disk.core) /\ pc' = elf_read[inspection]
        /\ IF inspection = "reference"
             THEN reference' = report /\ UNCHANGED native
             ELSE native' = report /\ UNCHANGED reference
        /\ UNCHANGED zero_fill_ranges
     \/ Fail
  /\ UNCHANGED <<disk, edits>>

ReadReference ==
  /\ pc = "reference_elf"
  /\ \/ /\ MatchesElf(reference.core, disk.reference)
        /\ reference' = [reference EXCEPT !.elf = disk.reference]
        /\ pc' = "native_core" /\ UNCHANGED <<native, zero_fill_ranges>>
     \/ Fail
  /\ UNCHANGED <<disk, edits>>

ReadNative ==
  /\ pc = "native_elf"
  /\ \/ /\ MatchesElf(native.core, disk.native)
        /\ native' = [native EXCEPT !.elf = disk.native]
        /\ pc' = "compare" /\ UNCHANGED <<reference, zero_fill_ranges>>
     \/ Fail
  /\ UNCHANGED <<disk, edits>>

\* Mutant: the extent in memory is not compared.
checked_fields_short == {"type", "virtual_address", "physical_address", "file_size", "flags"}
checked_fields ==
  {"type", "virtual_address", "physical_address", "file_size", "memory_size", "flags"}

\* Mutant: every header counts, loaded or not.
ZeroFilledLoose(header) == header.memory_size > header.file_size
ZeroFilled(header) == header.type = "load" /\ header.memory_size > header.file_size

\* The comparison of the records, with the ranges collected on the way.
Compare ==
  LET header(i) == HeaderOf(native.elf, i)
      agree == /\ reference.elf.entry = native.elf.entry
               /\ \A i \in 1 .. 3 :
                    /\ \A field \in checked_fields :
                         HeaderOf(reference.elf, i)[field] = header(i)[field]
                    /\ HeaderValid(header(i)) IN
  /\ pc = "compare"
  /\ IF agree
       THEN /\ pc' = "exit_0"
            /\ zero_fill_ranges' =
                 {[start |-> header(i).virtual_address + header(i).file_size,
                   end_exclusive |-> header(i).virtual_address + header(i).memory_size] :
                    i \in {j \in 1 .. 3 : ZeroFilled(header(j))}}
            /\ UNCHANGED <<reference, native>>
       ELSE Fail
  /\ UNCHANGED <<disk, edits>>

UserReplaces ==
  /\ edits < MaxEdits /\ edits' = edits + 1
  /\ \/ \E core \in Cores : disk' = [disk EXCEPT !.core = core]
     \/ \E elf \in Elfs, path \in {"reference", "native"} : disk' = [disk EXCEPT ![path] = elf]
  /\ UNCHANGED <<pc, reference, native, zero_fill_ranges>>

Finished == pc \in {"exit_0", "exit_1"} /\ UNCHANGED vars

Next ==
  \/ HashReference \/ ReadCore("reference") \/ ReadReference
  \/ ReadCore("native") \/ ReadNative \/ Compare
  \/ UserReplaces \/ Finished

Spec == Init /\ [][Next]_vars

-----------------------------------------------------------------------------
\* What a loader puts at a guest address for one header: bytes of the file,
\* then zeroes; and for all of them.
SegmentByte(elf, i, a) ==
  LET offset == a - elf.headers[i].virtual_address IN
  IF elf.headers[i].type # "load" \/ offset \notin 0 .. elf.headers[i].memory_size - 1 THEN {}
  ELSE IF offset < elf.headers[i].file_size
    THEN elf.bytes[elf.headers[i].file_offset + offset]
  ELSE {<<"zero", 0>>}

LoadedByte(elf, a) == UNION {SegmentByte(elf, i, a) : i \in 1 .. 3}

View(elf) == [entry |-> elf.entry, memory |-> [a \in 0 .. MemorySize - 1 |-> LoadedByte(elf, a)]]

Reports == [core : Cores, elf : Elfs \cup {None}] \cup {None}

\* Every variable keeps its type.
TypeOK ==
  /\ disk \in [core : Cores, reference : Elfs, native : Elfs]
  /\ pc \in {"hash", "reference_core", "reference_elf", "native_core", "native_elf",
             "compare", "exit_0", "exit_1"}
  /\ reference \in Reports /\ native \in Reports
  /\ edits \in 0 .. MaxEdits

\* "loaded_layout_matches_reference_policy": the fields that are compared, and
\* the payloads each inspection compared with CORE, are all a loader looks at -
\* two files that differ in offsets and alignment still load alike.  Where nobody
\* replaced a file the reference is the pinned one; the second read of it, which
\* is not hashed, may find another.
LoadsLikeReference ==
  pc = "exit_0" =>
    View(native.elf) = View(reference.elf) /\ (edits = 0 => reference.elf = PinnedReference)

\* Whatever is replaced while the script runs, a native ELF it accepts holds the
\* records and the entry of the pinned CORE.
HoldsPinnedCore == pc = "exit_0" => MatchesElf(PinnedCore, native.elf)

\* The ranges of the report are the zeroes a loader of the native ELF makes.
ZeroFillReported ==
  pc = "exit_0" =>
    \A a \in 0 .. MemorySize - 1 :
      <<"zero", 0>> \in LoadedByte(native.elf, a) <=>
        \E range \in zero_fill_ranges : a \in range.start .. range.end_exclusive - 1
=============================================================================
