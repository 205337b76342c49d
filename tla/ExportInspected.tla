-------------------------- MODULE ExportInspected --------------------------
(***************************************************************************)
(* The ELF file of make_reference_analysis_elf as the input of the scripts *)
(* inspect_reference.py and verify_native_image.py and, imported into      *)
(* Ghidra (a loader, LoadedByte), of the two import checks.                *)
(***************************************************************************)
EXTENDS AnalysisElf

\* The alignments of analysis_elf.cpp, 0x1000 and 4.
ASSUME AlignmentAssumption ==
  \A alignment \in {PageAlignment, ReginfoAlignment} :
    \E k \in 0 .. alignment : alignment = 2^k

Script == INSTANCE InspectReference WITH HalfWordBytes <- 0, WordBytes <- 0

Header(segment) ==
  [file_offset |-> segment.file_offset, virtual_address |-> segment.guest_address,
   file_size |-> segment.file_size, memory_size |-> segment.memory_size,
   alignment |-> segment.alignment]

\* The byte vector as a file.
ReturnedFile ==
  [ident |-> TRUE, entry |-> image.entry, table |-> elf_header_size, three |-> TableInPlace,
   size |-> length, headers |-> [i \in 1 .. 3 |-> Header(segments[i])],
   bytes |-> [offset \in 0 .. length - 1 |-> FileByte(offset)]]

\* VerifyReferenceImport: two segments are loaded, each with the file's bytes.
ImportMatches ==
  /\ Cardinality({i \in 1 .. 3 : segments[i].loaded}) = 2
  /\ \A i \in 1 .. 3 : segments[i].loaded =>
       \A k \in 0 .. segments[i].file_size - 1 :
         LoadedByte(segments[i].guest_address + k) = FileByte(segments[i].file_offset + k)

\* VerifyAnalysisZeroFill: zeroes from the end of data on.
ZeroFilledTail ==
  \A k \in 0 .. reference_zero_fill_size - 1 :
    LoadedByte(image.data.address + image.data.size + k) = {<<"zero", 0>>}

\* The exporter and the script agree on the order, the offsets and the ends of
\* the records: the script finds every payload byte of every exported image and
\* accepts its headers, also where an alignment gap or an end of the file is;
\* and no segment covers another's bytes once the file is imported.
ExportPassesInspection ==
  pc = "returned" =>
    /\ Script!MatchesElf(image, ReturnedFile)
    /\ \A i \in 1 .. 3 : Script!HeaderValid(ReturnedFile.headers[i])
    /\ ImportMatches /\ ZeroFilledTail
=============================================================================
