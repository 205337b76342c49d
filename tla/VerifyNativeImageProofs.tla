----------------------- MODULE VerifyNativeImageProofs -----------------------
(***************************************************************************)
(* What an accepted native ELF is, for every CORE, every pair of ELF files *)
(* and any number of replacements while the script runs.                   *)
(***************************************************************************)
EXTENDS VerifyNativeImage, TLAPS

\* The report of an inspection that has come as far as CORE, and of a whole one.
CoreRead(report) == report = [core |-> PinnedCore, elf |-> None]
Inspected(report) ==
  \E elf \in Elfs : report = [core |-> PinnedCore, elf |-> elf] /\ MatchesElf(PinnedCore, elf)

\* The comparison, for one header of the two files.
SameHeader(j) ==
  \A field \in checked_fields : reference.elf.headers[j][field] = native.elf.headers[j][field]

Compared ==
  /\ reference.elf.entry = native.elf.entry
  /\ \A j \in 1 .. 3 : SameHeader(j)
  /\ zero_fill_ranges =
       {[start |-> HeaderOf(native.elf, i).virtual_address + HeaderOf(native.elf, i).file_size,
         end_exclusive |->
           HeaderOf(native.elf, i).virtual_address + HeaderOf(native.elf, i).memory_size] :
          i \in {j \in 1 .. 3 : ZeroFilled(HeaderOf(native.elf, j))}}

\* What each inspection has established, and what the comparison has.
ReportInv ==
  /\ pc = "reference_elf" => CoreRead(reference)
  /\ pc \in {"native_core", "native_elf", "compare", "exit_0"} => Inspected(reference)
  /\ pc = "native_elf" => CoreRead(native)
  /\ pc \in {"compare", "exit_0"} => Inspected(native)
  /\ pc = "exit_0" => Compared

\* The file that was hashed is the one that is read, as long as nobody writes.
QuietInv ==
  edits = 0 =>
    /\ pc \notin {"hash", "exit_1"} => disk.reference = PinnedReference
    /\ pc \in {"native_core", "native_elf", "compare", "exit_0"} =>
         reference.elf = PinnedReference

IInv == TypeOK /\ ReportInv /\ QuietInv

-----------------------------------------------------------------------------
\* The script's order of the records reaches every header of the file.
LEMMA HeaderIndices ==
  /\ reference_header_indices[1] = 2 /\ reference_header_indices[2] = 1
  /\ reference_header_indices[3] = 3
BY DEF reference_header_indices

LEMMA InitInv == Init => IInv
<1> SUFFICES ASSUME Init PROVE IInv
  OBVIOUS
<1>1. TypeOK
  BY VerifyAssumption DEF Init, TypeOK, Reports
<1> QED
  BY <1>1 DEF Init, IInv, ReportInv, QuietInv

LEMMA StepInv == IInv /\ [Next]_vars => IInv'
<1> SUFFICES ASSUME IInv, [Next]_vars PROVE IInv'
  OBVIOUS
<1>0. disk.core \in Cores /\ disk.reference \in Elfs /\ disk.native \in Elfs /\ edits \in Nat
  <2>1. disk.core \in Cores /\ disk.reference \in Elfs /\ disk.native \in Elfs
    BY DEF IInv, TypeOK
  <2>2. edits \in Nat
    BY VerifyAssumption DEF IInv, TypeOK
  <2> QED
    BY <2>1, <2>2
<1>1. CASE HashReference
  BY <1>1 DEF HashReference, Fail, IInv, TypeOK, Reports, ReportInv, QuietInv
<1>2. CASE ReadCore("reference")
  BY <1>0, <1>2 DEF ReadCore, CoreIsPinned, Fail, IInv, TypeOK, Reports, ReportInv, QuietInv, CoreRead
<1>3. CASE ReadReference
  <2>1. CASE pc' = "exit_1" /\ UNCHANGED <<reference, native, disk, edits>>
    BY <2>1 DEF IInv, TypeOK, Reports, ReportInv, QuietInv
  <2>2. CASE /\ pc = "reference_elf" /\ pc' = "native_core" /\ UNCHANGED <<disk, native, edits>>
             /\ MatchesElf(reference.core, disk.reference)
             /\ reference' = [reference EXCEPT !.elf = disk.reference]
    <3>1. reference' = [core |-> PinnedCore, elf |-> disk.reference]
      BY <2>2 DEF IInv, ReportInv, CoreRead
    <3>2. Inspected(reference')
      BY <1>0, <2>2, <3>1 DEF IInv, ReportInv, CoreRead, Inspected
    <3>3. reference' \in Reports
      BY <1>0, <3>1, VerifyAssumption DEF Reports
    <3>4. TypeOK'
      BY <2>2, <3>3 DEF IInv, TypeOK
    <3> QED
      BY <2>2, <3>1, <3>2, <3>4 DEF IInv, ReportInv, QuietInv
  <2> QED
    BY <1>3, <2>1, <2>2 DEF ReadReference, Fail
<1>4. CASE ReadCore("native")
  <2>1. CASE pc' = "exit_1" /\ UNCHANGED <<reference, native, disk, edits>>
    BY <2>1 DEF IInv, TypeOK, Reports, ReportInv, QuietInv
  <2>2. CASE /\ pc = "native_core" /\ pc' = "native_elf" /\ UNCHANGED <<disk, reference, edits>>
             /\ disk.core = PinnedCore /\ native' = [core |-> disk.core, elf |-> None]
    BY <1>0, <2>2 DEF IInv, TypeOK, Reports, ReportInv, QuietInv, CoreRead
  <2> QED
    BY <1>4, <2>1, <2>2 DEF ReadCore, CoreIsPinned, Fail
<1>5. CASE ReadNative
  <2>1. CASE pc' = "exit_1" /\ UNCHANGED <<reference, native, disk, edits>>
    BY <2>1 DEF IInv, TypeOK, Reports, ReportInv, QuietInv
  <2>2. CASE /\ pc = "native_elf" /\ pc' = "compare" /\ UNCHANGED <<disk, reference, edits>>
             /\ MatchesElf(native.core, disk.native)
             /\ native' = [native EXCEPT !.elf = disk.native]
    <3>1. native' = [core |-> PinnedCore, elf |-> disk.native]
      BY <2>2 DEF IInv, ReportInv, CoreRead
    <3>2. Inspected(native')
      BY <1>0, <2>2, <3>1 DEF IInv, ReportInv, CoreRead, Inspected
    <3>3. native' \in Reports
      BY <1>0, <3>1, VerifyAssumption DEF Reports
    <3>4. TypeOK'
      BY <2>2, <3>3 DEF IInv, TypeOK
    <3> QED
      BY <2>2, <3>1, <3>2, <3>4 DEF IInv, ReportInv, QuietInv
  <2> QED
    BY <1>5, <2>1, <2>2 DEF ReadNative, Fail
<1>6. CASE Compare
  <2>1. CASE pc' = "exit_1" /\ UNCHANGED <<reference, native, disk, edits>>
    BY <2>1 DEF IInv, TypeOK, Reports, ReportInv, QuietInv
  <2>2. CASE pc' = "exit_0"
    <3>1. /\ pc = "compare" /\ UNCHANGED <<reference, native, disk, edits>>
          /\ reference.elf.entry = native.elf.entry
          /\ \A i \in 1 .. 3 : \A field \in checked_fields :
               HeaderOf(reference.elf, i)[field] = HeaderOf(native.elf, i)[field]
      BY <1>6, <2>2 DEF Compare, Fail
    <3>2. \A j \in 1 .. 3 : SameHeader(j)
      BY <3>1, HeaderIndices DEF HeaderOf, SameHeader
    <3>3. zero_fill_ranges' =
            {[start |-> HeaderOf(native.elf, i).virtual_address + HeaderOf(native.elf, i).file_size,
              end_exclusive |->
                HeaderOf(native.elf, i).virtual_address + HeaderOf(native.elf, i).memory_size] :
               i \in {j \in 1 .. 3 : ZeroFilled(HeaderOf(native.elf, j))}}
      BY <1>6, <2>2 DEF Compare, Fail
    <3>4. ReportInv'
      BY <2>2, <3>1, <3>2, <3>3 DEF IInv, ReportInv, Compared, SameHeader
    <3> QED
      BY <2>2, <3>1, <3>4 DEF IInv, TypeOK, Reports, QuietInv
  <2> QED
    BY <1>6, <2>1, <2>2 DEF Compare, Fail
<1>7. CASE UserReplaces
  <2>1. edits' \in 0 .. MaxEdits /\ edits' # 0
    BY <1>0, <1>7, VerifyAssumption DEF UserReplaces
  <2>2. disk' \in [core : Cores, reference : Elfs, native : Elfs]
    BY <1>7 DEF UserReplaces, IInv, TypeOK, Reports
  <2>3. UNCHANGED <<pc, reference, native, zero_fill_ranges>>
    BY <1>7 DEF UserReplaces
  <2> QED
    BY <2>1, <2>2, <2>3 DEF IInv, TypeOK, Reports, ReportInv, QuietInv, Compared, SameHeader
<1>8. CASE UNCHANGED vars
  BY <1>8 DEF vars, IInv, TypeOK, Reports, ReportInv, QuietInv, Compared, SameHeader
<1> QED
  BY <1>1, <1>2, <1>3, <1>4, <1>5, <1>6, <1>7, <1>8 DEF Next, Finished

LEMMA Inductive == Spec => []IInv
BY InitInv, StepInv, PTL DEF Spec

\* Every variable keeps its type.
THEOREM TypeCorrect == Spec => []TypeOK
<1>1. IInv => TypeOK
  BY DEF IInv
<1> QED
  BY <1>1, Inductive, PTL

\* However CORE and the ELF files are replaced while the script runs, a native
\* ELF it accepts holds the records and the entry of the pinned CORE.
THEOREM PinnedCoreHeld == Spec => []HoldsPinnedCore
<1>1. IInv => HoldsPinnedCore
  BY DEF IInv, ReportInv, Inspected, HoldsPinnedCore
<1> QED
  BY <1>1, Inductive, PTL

-----------------------------------------------------------------------------
\* A file that was inspected holds the pinned payload behind each of its headers.
LEMMA PayloadByte ==
  ASSUME NEW elf \in Elfs, MatchesElf(PinnedCore, elf), NEW j \in 1 .. 3,
         NEW offset \in 0 .. elf.headers[j].file_size - 1
  PROVE elf.bytes[elf.headers[j].file_offset + offset]
          = {<<Names[reference_header_indices[j]], offset>>}
<1> DEFINE i == reference_header_indices[j]
<1>1. i \in 1 .. 3 /\ HeaderOf(elf, i) = elf.headers[j]
  BY HeaderIndices DEF HeaderOf
<1>2. RecordMatches(PinnedCore, elf, i)
  BY <1>1 DEF MatchesElf
<1>3. elf.headers[j].file_size = Record(PinnedCore, i).size
  BY <1>1, <1>2 DEF RecordMatches
<1>4. \A k \in 0 .. Record(PinnedCore, i).size - 1 :
        elf.bytes[elf.headers[j].file_offset + k] = {<<Names[i], k>>}
  BY <1>1, <1>2 DEF RecordMatches, PayloadMatches
<1> QED
  BY <1>3, <1>4

\* Every field of the layout is a number, and the fields compared are equal.
LEMMA LayoutNumbers ==
  ASSUME NEW elf \in Elfs, NEW j \in 1 .. 3
  PROVE /\ elf.headers[j].virtual_address \in Nat /\ elf.headers[j].file_size \in Nat
        /\ elf.headers[j].memory_size \in Nat
BY VerifyAssumption DEF LayoutFields

LEMMA SameSegment ==
  ASSUME NEW r \in Elfs, NEW n \in Elfs, MatchesElf(PinnedCore, r), MatchesElf(PinnedCore, n),
         NEW j \in 1 .. 3,
         \A field \in checked_fields : r.headers[j][field] = n.headers[j][field],
         NEW a \in 0 .. MemorySize - 1
  PROVE SegmentByte(n, j, a) = SegmentByte(r, j, a)
<1> DEFINE offset == a - n.headers[j].virtual_address
<1>1. /\ r.headers[j].type = n.headers[j].type
      /\ r.headers[j].virtual_address = n.headers[j].virtual_address
      /\ r.headers[j].file_size = n.headers[j].file_size
      /\ r.headers[j].memory_size = n.headers[j].memory_size
  BY DEF checked_fields
<1>2. offset \in Int
  BY VerifyAssumption, LayoutNumbers
<1>3. CASE offset \in 0 .. n.headers[j].file_size - 1
  <2>1. /\ n.bytes[n.headers[j].file_offset + offset] = {<<Names[reference_header_indices[j]], offset>>}
        /\ r.bytes[r.headers[j].file_offset + offset] = {<<Names[reference_header_indices[j]], offset>>}
    BY <1>1, <1>3, PayloadByte
  <2> QED
    BY <1>1, <2>1 DEF SegmentByte
<1>4. CASE offset \notin 0 .. n.headers[j].file_size - 1
  <2>1. offset \in 0 .. n.headers[j].memory_size - 1 => ~(offset < n.headers[j].file_size)
    BY <1>2, <1>4, LayoutNumbers
  <2> QED
    BY <1>1, <2>1 DEF SegmentByte
<1> QED
  BY <1>3, <1>4

\* Two files with the records of one CORE and equal compared fields load alike.
LEMMA SameView ==
  ASSUME NEW r \in Elfs, NEW n \in Elfs, MatchesElf(PinnedCore, r), MatchesElf(PinnedCore, n),
         r.entry = n.entry,
         \A j \in 1 .. 3 : \A field \in checked_fields : r.headers[j][field] = n.headers[j][field]
  PROVE View(n) = View(r)
<1>1. \A a \in 0 .. MemorySize - 1 : \A j \in 1 .. 3 : SegmentByte(n, j, a) = SegmentByte(r, j, a)
  BY SameSegment
<1>2. \A a \in 0 .. MemorySize - 1 : LoadedByte(n, a) = LoadedByte(r, a)
  BY <1>1 DEF LoadedByte
<1> QED
  BY <1>2 DEF View

\* Whatever the guest memory, an accepted native ELF fills it as the reference
\* that was read does, which is the pinned one when nobody wrote meanwhile.
THEOREM LoadedAlike == Spec => []LoadsLikeReference
<1>1. ASSUME IInv, pc = "exit_0" PROVE View(native.elf) = View(reference.elf)
  <2>1. Inspected(reference) /\ Inspected(native) /\ Compared
    BY <1>1 DEF IInv, ReportInv
  <2>2. /\ reference.elf \in Elfs /\ MatchesElf(PinnedCore, reference.elf)
        /\ native.elf \in Elfs /\ MatchesElf(PinnedCore, native.elf)
    BY <2>1 DEF Inspected
  <2> QED
    BY <2>1, <2>2, SameView DEF Compared, SameHeader
<1>2. IInv => LoadsLikeReference
  BY <1>1 DEF IInv, QuietInv, LoadsLikeReference
<1> QED
  BY <1>2, Inductive, PTL

\* Where the zeroes of a segment start and end, and whether a is one of them.
ZeroStart(header) == header.virtual_address + header.file_size
ZeroEnd(header) == header.virtual_address + header.memory_size
Covers(header, a) == ZeroFilled(header) /\ a \in ZeroStart(header) .. ZeroEnd(header) - 1

\* The zeroes of a segment are those between its two sizes, if it is loaded.
LEMMA ZeroSegment ==
  ASSUME NEW elf \in Elfs, MatchesElf(PinnedCore, elf), NEW j \in 1 .. 3,
         NEW a \in 0 .. MemorySize - 1
  PROVE <<"zero", 0>> \in SegmentByte(elf, j, a) <=> Covers(elf.headers[j], a)
<1> DEFINE header == elf.headers[j]
<1> DEFINE offset == a - header.virtual_address
<1>1. /\ offset \in Int /\ a \in Int /\ header.virtual_address \in Nat
      /\ header.file_size \in Nat /\ header.memory_size \in Nat
  BY VerifyAssumption, LayoutNumbers
<1>2. CASE offset \in 0 .. header.file_size - 1
  <2>1. elf.bytes[header.file_offset + offset] = {<<Names[reference_header_indices[j]], offset>>}
    BY <1>2, PayloadByte
  <2>2. reference_header_indices[j] \in 1 .. 3
    BY HeaderIndices
  <2>3. Names[reference_header_indices[j]] # "zero"
    BY <2>2 DEF Names
  <2>4. <<"zero", 0>> \notin elf.bytes[header.file_offset + offset]
    BY <2>1, <2>3
  <2>5. <<"zero", 0>> \notin SegmentByte(elf, j, a)
    BY <1>1, <1>2, <2>4 DEF SegmentByte
  <2> QED
    BY <1>1, <1>2, <2>5 DEF Covers, ZeroStart, ZeroEnd
<1>3. CASE offset \notin 0 .. header.file_size - 1
  <2>1. <<"zero", 0>> \in SegmentByte(elf, j, a) <=>
          header.type = "load" /\ offset \in 0 .. header.memory_size - 1
    BY <1>1, <1>3 DEF SegmentByte
  <2> QED
    BY <1>1, <1>3, <2>1 DEF ZeroFilled, Covers, ZeroStart, ZeroEnd
<1> QED
  BY <1>2, <1>3

\* The ranges of the report of an accepted native ELF are the zeroes that a loader
\* of it makes, for every size of guest memory.
THEOREM ZeroFillExact == Spec => []ZeroFillReported
<1> DEFINE header(i) == native.elf.headers[reference_header_indices[i]]
<1>1. ASSUME IInv, pc = "exit_0", NEW a \in 0 .. MemorySize - 1
      PROVE <<"zero", 0>> \in LoadedByte(native.elf, a) <=>
              \E range \in zero_fill_ranges : a \in range.start .. range.end_exclusive - 1
  <2>1. native.elf \in Elfs /\ MatchesElf(PinnedCore, native.elf) /\ Compared
    BY <1>1 DEF IInv, ReportInv, Inspected
  <2>2. <<"zero", 0>> \in LoadedByte(native.elf, a) <=>
          \E j \in 1 .. 3 : <<"zero", 0>> \in SegmentByte(native.elf, j, a)
    BY DEF LoadedByte
  <2>3. \A j \in 1 .. 3 :
          <<"zero", 0>> \in SegmentByte(native.elf, j, a) <=> Covers(native.elf.headers[j], a)
    BY <2>1, ZeroSegment
  <2>4. (\E j \in 1 .. 3 : Covers(native.elf.headers[j], a)) <=>
          \E i \in 1 .. 3 : Covers(header(i), a)
    BY HeaderIndices
  <2>5. zero_fill_ranges =
          {[start |-> ZeroStart(header(i)), end_exclusive |-> ZeroEnd(header(i))] :
             i \in {j \in 1 .. 3 : ZeroFilled(header(j))}}
    BY <2>1 DEF Compared, HeaderOf, ZeroStart, ZeroEnd
  <2>6. ASSUME NEW i \in 1 .. 3, Covers(header(i), a)
        PROVE \E range \in zero_fill_ranges : a \in range.start .. range.end_exclusive - 1
    <3> HIDE DEF header
    <3>1. [start |-> ZeroStart(header(i)), end_exclusive |-> ZeroEnd(header(i))] \in zero_fill_ranges
      BY <2>5, <2>6 DEF Covers
    <3> QED
      BY <2>6, <3>1 DEF Covers
  <2>7. ASSUME NEW range \in zero_fill_ranges, a \in range.start .. range.end_exclusive - 1
        PROVE \E i \in 1 .. 3 : Covers(header(i), a)
    <3> HIDE DEF header
    <3>1. PICK i \in 1 .. 3 : /\ ZeroFilled(header(i))
                              /\ range = [start |-> ZeroStart(header(i)),
                                          end_exclusive |-> ZeroEnd(header(i))]
      BY <2>5
    <3> QED
      BY <2>7, <3>1 DEF Covers
  <2> HIDE DEF header
  <2> QED
    BY <2>2, <2>3, <2>4, <2>6, <2>7
<1>2. IInv => ZeroFillReported
  BY <1>1 DEF ZeroFillReported
<1> QED
  BY <1>2, Inductive, PTL
=============================================================================
