-------------------------- MODULE AnalysisElfProofs --------------------------
(***************************************************************************)
(* Proofs about AnalysisElf for every word size, memory size, alignment    *)
(* and set of images the assumptions allow.                                *)
(***************************************************************************)
EXTENDS ExportInspected, FiniteSetTheorems, TLAPS

-----------------------------------------------------------------------------
(***************************************************************************)
(* Remainders.                                                             *)
(***************************************************************************)

\* The remainder is the only residue that a multiple can be subtracted to.
LEMMA ModUnique ==
  ASSUME NEW a \in Nat \ {0}, NEW q \in Int, NEW r \in 0 .. a - 1,
         NEW n \in Int, n = a * q + r
  PROVE  n % a = r
OBVIOUS

\* A remainder lies below its modulus, and the quotient accounts for the rest.
LEMMA ModBounds ==
  ASSUME NEW n \in Nat, NEW a \in Nat \ {0}
  PROVE  /\ (n % a) \in 0 .. a - 1
         /\ (n \div a) \in Int
         /\ n = a * (n \div a) + (n % a)
OBVIOUS

\* Values below the word size convert to std::uint32_t unchanged.
LEMMA U32Identity ==
  ASSUME NEW n \in Nat, n < WordSize
  PROVE  U32(n) = n
BY GuestAssumption DEF U32

\* The remainder of a sum of less than two moduli.
LEMMA ModOnce ==
  ASSUME NEW a \in Nat \ {0}, NEW n \in 0 .. 2 * a - 1
  PROVE  n % a = IF n < a THEN n ELSE n - a
OBVIOUS

\* The padding place_segment computes from two remainders.
LEMMA Padding ==
  ASSUME NEW a \in Nat \ {0}, NEW t \in 0 .. a - 1, NEW c \in 0 .. a - 1
  PROVE  (t + a - c) % a = IF t >= c THEN t - c ELSE t + a - c
<1> DEFINE sum == t + a - c
<1>1. sum \in 0 .. 2 * a - 1
  OBVIOUS
<1>2. sum % a = IF sum < a THEN sum ELSE sum - a
  BY <1>1, ModOnce
<1>. QED BY <1>2

\* Adding that padding to a number with remainder c gives remainder t.
LEMMA PaddedRemainder ==
  ASSUME NEW a \in Nat \ {0}, NEW t \in 0 .. a - 1, NEW n \in Nat,
         NEW p \in Nat,
         p = IF t >= n % a THEN t - (n % a) ELSE t + a - (n % a)
  PROVE  (n + p) % a = t
<1>1. PICK q \in Int, c \in 0 .. a - 1 : n = a * q + c /\ c = n % a
  BY ModBounds
<1>2. CASE t >= c
  <2>1. n + p = a * q + t /\ n + p \in Int
    BY <1>1, <1>2
  <2>. QED BY ONLY <2>1, ModUnique, a \in Nat \ {0}, t \in 0 .. a - 1, q \in Int
<1>3. CASE t < c
  <2>1. a * (q + 1) = a * q + a
    OBVIOUS
  <2>2. n + p = a * (q + 1) + t /\ n + p \in Int
    BY <1>1, <1>3, <2>1
  <2>3. q + 1 \in Int
    BY <1>1
  <2>. QED BY ONLY <2>2, <2>3, ModUnique, a \in Nat \ {0}, t \in 0 .. a - 1
<1>. QED BY <1>1, <1>2, <1>3

\* place_segment returns the next position congruent to the address: not in
\* front of the cursor, less than one alignment behind it, and without
\* wrapping around 32 bits as long as cursor + alignment does not.
LEMMA PlaceSegmentNext ==
  ASSUME NEW cursor \in Nat, NEW address \in Nat, NEW alignment \in Nat \ {0},
         cursor + alignment < WordSize
  PROVE  NextCongruent(place_segment(cursor, address, alignment),
                       cursor, address, alignment)
<1>1. PICK t \in 0 .. alignment - 1 : t = address % alignment
  BY ModBounds
<1>2. PICK c \in 0 .. alignment - 1 : c = cursor % alignment
  BY ModBounds
<1>3. PICK p \in Nat : p = IF t >= c THEN t - c ELSE t + alignment - c
  <2>1. t >= c => t - c \in Nat
    OBVIOUS
  <2>2. t + alignment - c \in Nat
    OBVIOUS
  <2>. QED BY <2>1, <2>2
<1>4. (t + alignment - c) % alignment = p
  BY <1>3, Padding
<1>5. p < alignment
  BY <1>3
<1>6. place_segment(cursor, address, alignment) = U32(cursor + p)
  BY <1>1, <1>2, <1>4 DEF place_segment
<1>7. U32(cursor + p) = cursor + p
  BY <1>5, U32Identity, GuestAssumption
<1>8. (cursor + p) % alignment = t
  <2>1. p = IF t >= cursor % alignment THEN t - (cursor % alignment)
            ELSE t + alignment - (cursor % alignment)
    BY <1>2, <1>3
  <2>. QED BY ONLY <2>1, PaddedRemainder, cursor \in Nat, p \in Nat,
                   alignment \in Nat \ {0}, t \in 0 .. alignment - 1
<1>. QED BY <1>1, <1>5, <1>6, <1>7, <1>8 DEF NextCongruent

-----------------------------------------------------------------------------
(***************************************************************************)
(* The layout of an image inside the policy.                               *)
(***************************************************************************)
header_end == elf_header_size + 3 * program_header_size

\* What the two policy checks and validate_image leave of an image: sizes and
\* addresses in EE RAM, in the order text, reginfo view, data; none of the
\* 32-bit sums has wrapped.
LEMMA PolicyBounds ==
  ASSUME NEW im \in ExecutableImage, PolicyFits(im)
  PROVE  /\ im.entry \in Nat /\ im.text.address \in Nat /\ im.data.address \in Nat
         /\ im.text.size \in Nat \ {0} /\ im.data.size \in Nat \ {0}
         /\ im.reginfo.address \in Nat
         /\ im.reginfo.size = ReginfoSize
         /\ reginfo_address(im) = im.reginfo.address + ReginfoSize
         /\ data_memory_size(im) = im.data.size + reference_zero_fill_size
         /\ im.text.address + im.text.size <= reginfo_address(im)
         /\ reginfo_address(im) + ReginfoSize <= im.data.address
         /\ im.data.address + data_memory_size(im) <= ee_memory_size
<1>1. /\ im.entry \in Nat /\ im.text.address \in Nat /\ im.data.address \in Nat
      /\ im.text.size \in Nat /\ im.data.size \in Nat
      /\ im.reginfo.address \in Nat /\ im.reginfo.size \in Nat
  BY GuestAssumption DEF ExecutableImage, ImageRecord, Word
<1>2. validate_image(im)
  BY DEF PolicyFits
<1>3. /\ im.text.size # 0 /\ im.data.size # 0
      /\ im.reginfo.size = ReginfoSize
      /\ im.data.address + im.data.size <= ee_memory_size
      /\ im.reginfo.address + ReginfoSize <= ee_memory_size
  BY <1>2 DEF validate_image, validate_record, record_end
<1>4. reginfo_address(im) = im.reginfo.address + ReginfoSize
  <2>1. im.reginfo.address + ReginfoSize < WordSize
    BY <1>1, <1>3, GuestAssumption, ElfAssumption
  <2>. QED BY <2>1, <1>1, U32Identity, GuestAssumption DEF reginfo_address
<1>5. data_memory_size(im) = im.data.size + reference_zero_fill_size
  <2>1. im.data.size + reference_zero_fill_size < WordSize
    BY <1>1, <1>3, GuestAssumption, ElfAssumption
  <2>. QED BY <2>1, <1>1, U32Identity, ElfAssumption DEF data_memory_size
<1>. QED BY <1>1, <1>3, <1>4, <1>5 DEF PolicyFits

\* Header table, text, reginfo and data follow each other in the file without
\* overlap, each at a position congruent to its address, all below 2^32.
LEMMA LayoutOrder ==
  ASSUME NEW im \in ExecutableImage, PolicyFits(im)
  PROVE  /\ text_offset(im) \in Word
         /\ reginfo_offset(im) \in Word
         /\ data_offset(im) \in Word
         /\ NextCongruent(text_offset(im), header_end,
                          im.text.address, PageAlignment)
         /\ NextCongruent(reginfo_offset(im), text_offset(im) + im.text.size,
                          reginfo_address(im), ReginfoAlignment)
         /\ NextCongruent(data_offset(im), reginfo_offset(im) + ReginfoSize,
                          im.data.address, PageAlignment)
<1>1. /\ header_end \in Nat /\ ee_memory_size \in Nat /\ ReginfoSize \in Nat
      /\ PageAlignment \in Nat \ {0} /\ ReginfoAlignment \in Nat \ {0}
      /\ WordSize \in Nat
      /\ header_end + ee_memory_size
           + ReginfoSize + 2 * PageAlignment + ReginfoAlignment < WordSize
  BY GuestAssumption, ElfAssumption DEF header_end
<1>2. /\ im.text.size \in Nat /\ im.text.address \in Nat /\ im.data.address \in Nat
      /\ reginfo_address(im) \in Nat /\ im.text.size <= ee_memory_size
  BY PolicyBounds, <1>1, ElfAssumption
<1>3. NextCongruent(text_offset(im), header_end, im.text.address, PageAlignment)
  <2>1. header_end + PageAlignment < WordSize
    BY <1>1
  <2>2. text_offset(im) = place_segment(header_end, im.text.address, PageAlignment)
    BY DEF text_offset, header_end
  <2>. QED BY ONLY <1>1, <1>2, <2>1, <2>2, PlaceSegmentNext
<1>4. /\ text_offset(im) \in Nat
      /\ text_offset(im) < header_end + PageAlignment
  BY <1>3 DEF NextCongruent
<1>5. NextCongruent(reginfo_offset(im), text_offset(im) + im.text.size,
                    reginfo_address(im), ReginfoAlignment)
  <2>1. /\ text_offset(im) + im.text.size \in Nat
        /\ text_offset(im) + im.text.size + ReginfoAlignment < WordSize
    BY <1>1, <1>2, <1>4
  <2>2. text_offset(im) + im.text.size < WordSize
    BY <1>1, <2>1
  <2>3. U32(text_offset(im) + im.text.size) = text_offset(im) + im.text.size
    BY <2>1, <2>2, U32Identity
  <2>4. reginfo_offset(im) = place_segment(text_offset(im) + im.text.size,
                                           reginfo_address(im), ReginfoAlignment)
    BY <2>3 DEF reginfo_offset
  <2>. QED BY ONLY <1>1, <1>2, <2>1, <2>4, PlaceSegmentNext
<1>6. /\ reginfo_offset(im) \in Nat
      /\ reginfo_offset(im) < text_offset(im) + im.text.size + ReginfoAlignment
  BY <1>5 DEF NextCongruent
<1>7. NextCongruent(data_offset(im), reginfo_offset(im) + ReginfoSize,
                    im.data.address, PageAlignment)
  <2>1. /\ reginfo_offset(im) + ReginfoSize \in Nat
        /\ reginfo_offset(im) + ReginfoSize + PageAlignment < WordSize
    BY <1>1, <1>2, <1>4, <1>6
  <2>2. reginfo_offset(im) + ReginfoSize < WordSize
    BY <1>1, <2>1
  <2>3. U32(reginfo_offset(im) + ReginfoSize) = reginfo_offset(im) + ReginfoSize
    BY <2>1, <2>2, U32Identity
  <2>4. data_offset(im) = place_segment(reginfo_offset(im) + ReginfoSize,
                                        im.data.address, PageAlignment)
    BY <2>3 DEF data_offset
  <2>. QED BY ONLY <1>1, <1>2, <2>1, <2>4, PlaceSegmentNext
<1>8. /\ data_offset(im) \in Nat
      /\ data_offset(im) < reginfo_offset(im) + ReginfoSize + PageAlignment
  BY <1>7 DEF NextCongruent
<1>9. text_offset(im) \in Word /\ reginfo_offset(im) \in Word /\ data_offset(im) \in Word
  BY <1>1, <1>2, <1>4, <1>6, <1>8 DEF Word
<1>. QED BY <1>3, <1>5, <1>7, <1>9

-----------------------------------------------------------------------------
(***************************************************************************)
(* The invariant.                                                          *)
(***************************************************************************)

\* The three segments, field by field.
LEMMA SegmentFields ==
  ASSUME NEW im \in ExecutableImage, PolicyFits(im)
  PROVE  LET s == OutputSegments(im) IN
         /\ s \in [1 .. 3 -> Segment] /\ DOMAIN s = 1 .. 3
         /\ s[1] = [name |-> "text", loaded |-> TRUE, file_offset |-> text_offset(im),
                    guest_address |-> im.text.address, file_size |-> im.text.size,
                    memory_size |-> im.text.size, alignment |-> PageAlignment]
         /\ s[2] = [name |-> "reginfo", loaded |-> FALSE, file_offset |-> reginfo_offset(im),
                    guest_address |-> reginfo_address(im), file_size |-> ReginfoSize,
                    memory_size |-> ReginfoSize, alignment |-> ReginfoAlignment]
         /\ s[3] = [name |-> "data", loaded |-> TRUE, file_offset |-> data_offset(im),
                    guest_address |-> im.data.address, file_size |-> im.data.size,
                    memory_size |-> data_memory_size(im), alignment |-> PageAlignment]
         /\ \A i \in 1 .. 3 : s[i] \in Segment
<1>1. /\ WordSize \in Nat /\ ee_memory_size < WordSize
      /\ ee_memory_size \in Nat /\ ReginfoSize \in Nat
      /\ PageAlignment \in Nat \ {0} /\ ReginfoAlignment \in Nat \ {0}
  BY GuestAssumption, ElfAssumption
<1>2. /\ im.text.address \in Word /\ im.text.size \in Word /\ im.data.address \in Word
      /\ im.data.size \in Nat /\ reginfo_address(im) \in Word
      /\ data_memory_size(im) \in Word /\ ReginfoSize \in Word
      /\ im.reginfo.size = ReginfoSize
  BY <1>1, PolicyBounds, ElfAssumption DEF Word
<1>3. /\ text_offset(im) \in Word /\ reginfo_offset(im) \in Word
      /\ data_offset(im) \in Word
  BY LayoutOrder
<1> DEFINE s1 == [name |-> "text", loaded |-> TRUE, file_offset |-> text_offset(im),
                    guest_address |-> im.text.address, file_size |-> im.text.size,
                    memory_size |-> im.text.size, alignment |-> PageAlignment]
           s2 == [name |-> "reginfo", loaded |-> FALSE, file_offset |-> reginfo_offset(im),
                    guest_address |-> reginfo_address(im), file_size |-> ReginfoSize,
                    memory_size |-> ReginfoSize, alignment |-> ReginfoAlignment]
           s3 == [name |-> "data", loaded |-> TRUE, file_offset |-> data_offset(im),
                    guest_address |-> im.data.address, file_size |-> im.data.size,
                    memory_size |-> data_memory_size(im), alignment |-> PageAlignment]
<1>4. s1 \in Segment /\ s2 \in Segment /\ s3 \in Segment
  <2>1. im.text.size \in Nat
    BY <1>2, <1>1 DEF Word
  <2>. QED BY <1>1, <1>2, <1>3, <2>1 DEF Segment, Names
<1>5. OutputSegments(im) = <<s1, s2, s3>>
  BY <1>2 DEF OutputSegments
<1>. HIDE DEF s1, s2, s3
<1>6. DOMAIN <<s1, s2, s3>> = 1 .. 3
  OBVIOUS
<1>7. \A i \in 1 .. 3 : <<s1, s2, s3>>[i] \in Segment
  BY <1>4
<1>8. <<s1, s2, s3>> \in [1 .. 3 -> Segment]
  BY <1>4
<1>. QED BY <1>5, <1>6, <1>7, <1>8 DEF s1, s2, s3

\* One more program header.
LEMMA WrittenHeader ==
  ASSUME NEW k \in 1 .. 3
  PROVE  Written(k, 0) = Written(k - 1, 0) \cup
           {Piece("program header", segments[k].name,
                  elf_header_size + (k - 1) * program_header_size,
                  program_header_size)}
<1>1. 1 .. k = (1 .. k - 1) \cup {k}
  OBVIOUS
<1>. QED BY <1>1, Zenon DEF Written

\* Where the vector ends after one more program header.
LEMMA NextHeader ==
  ASSUME NEW i \in 1 .. 3
  PROVE  LET before == elf_header_size + (i - 1) * program_header_size IN
         /\ before + program_header_size \in Nat
         /\ before + program_header_size = elf_header_size + i * program_header_size
<1>1. elf_header_size \in Nat /\ program_header_size \in Nat
  BY ElfAssumption
<1>2. \A h, p \in Nat : /\ h + (i - 1) * p + p \in Nat
                       /\ h + (i - 1) * p + p = h + i * p
  OBVIOUS
<1>. QED BY <1>1, <1>2

\* One more payload.
LEMMA WrittenPayload ==
  ASSUME NEW k \in 1 .. 3
  PROVE  Written(3, k) = Written(3, k - 1) \cup
           {Piece("payload", segments[k].name, segments[k].file_offset,
                  segments[k].file_size)}
<1>1. 1 .. k = (1 .. k - 1) \cup {k}
  OBVIOUS
<1>. QED BY <1>1, Zenon DEF Written

\* The segments the function holds while it writes.
Announced ==
  /\ image \in ExecutableImage /\ PolicyFits(image)
  /\ segments = OutputSegments(image)

\* Announced segments follow each other: each starts behind the bytes in front
\* of it, at the next congruent position.
LEMMA SegmentsOrdered ==
  ASSUME Announced
  PROVE  /\ DOMAIN segments = 1 .. 3
         /\ EndBefore(1) \in Nat
         /\ \A i \in 1 .. 3 :
              /\ segments[i].file_offset \in Nat /\ segments[i].file_size \in Nat
              /\ EndBefore(i + 1) = segments[i].file_offset + segments[i].file_size
              /\ NextCongruent(segments[i].file_offset, EndBefore(i),
                               segments[i].guest_address, segments[i].alignment)
<1>1. /\ DOMAIN segments = 1 .. 3
      /\ segments[1].file_offset = text_offset(image)
      /\ segments[1].file_size = image.text.size
      /\ segments[1].guest_address = image.text.address
      /\ segments[1].alignment = PageAlignment
      /\ segments[2].file_offset = reginfo_offset(image)
      /\ segments[2].file_size = ReginfoSize
      /\ segments[2].guest_address = reginfo_address(image)
      /\ segments[2].alignment = ReginfoAlignment
      /\ segments[3].file_offset = data_offset(image)
      /\ segments[3].file_size = image.data.size
      /\ segments[3].guest_address = image.data.address
      /\ segments[3].alignment = PageAlignment
  <2>1. image \in ExecutableImage /\ PolicyFits(image)
        /\ segments = OutputSegments(image)
    BY DEF Announced
  <2>2. image.reginfo.size = ReginfoSize
    BY <2>1, PolicyBounds
  <2>3. DOMAIN segments = 1 .. 3
    BY <2>1, SegmentFields
  <2>. QED BY <2>1, <2>2, <2>3 DEF OutputSegments
<1>2. EndBefore(1) = header_end /\ header_end \in Nat
  BY ElfAssumption DEF EndBefore, header_end
<1>3. \A i \in 1 .. 3 :
        EndBefore(i + 1) = segments[i].file_offset + segments[i].file_size
  BY DEF EndBefore
<1>4. /\ image.text.size \in Nat /\ image.data.size \in Nat /\ ReginfoSize \in Nat
  BY PolicyBounds, GuestAssumption DEF Announced
<1>5. /\ NextCongruent(text_offset(image), header_end,
                       image.text.address, PageAlignment)
      /\ NextCongruent(reginfo_offset(image), text_offset(image) + image.text.size,
                       reginfo_address(image), ReginfoAlignment)
      /\ NextCongruent(data_offset(image), reginfo_offset(image) + ReginfoSize,
                       image.data.address, PageAlignment)
  BY LayoutOrder DEF Announced
<1>6. /\ text_offset(image) \in Nat /\ reginfo_offset(image) \in Nat
      /\ data_offset(image) \in Nat
  BY <1>5 DEF NextCongruent
<1>7. /\ EndBefore(2) = text_offset(image) + image.text.size
      /\ EndBefore(3) = reginfo_offset(image) + ReginfoSize
  BY <1>1 DEF EndBefore
<1>8. ASSUME NEW i \in 1 .. 3
      PROVE  /\ segments[i].file_offset \in Nat /\ segments[i].file_size \in Nat
             /\ NextCongruent(segments[i].file_offset, EndBefore(i),
                              segments[i].guest_address, segments[i].alignment)
  <2>1. CASE i = 1  BY <2>1, <1>1, <1>2, <1>4, <1>5, <1>6
  <2>2. CASE i = 2  BY <2>2, <1>1, <1>4, <1>5, <1>6, <1>7
  <2>3. CASE i = 3  BY <2>3, <1>1, <1>4, <1>5, <1>6, <1>7
  <2>. QED BY <2>1, <2>2, <2>3
<1>. QED BY <1>1, <1>2, <1>3, <1>8

\* Nothing written so far reaches beyond the last payload written.
LEMMA WrittenWithin ==
  ASSUME Announced, NEW k \in 0 .. 3, NEW p \in Written(3, k)
  PROVE  p.at \in Nat /\ p.size \in Nat /\ p.at + p.size <= EndBefore(k + 1)
<1>1. /\ EndBefore(1) \in Nat
      /\ \A i \in 1 .. 3 :
           /\ segments[i].file_offset \in Nat /\ segments[i].file_size \in Nat
           /\ EndBefore(i + 1) = segments[i].file_offset + segments[i].file_size
           /\ EndBefore(i) <= segments[i].file_offset
  BY SegmentsOrdered DEF NextCongruent
<1>2. /\ EndBefore(2) \in Nat /\ EndBefore(3) \in Nat /\ EndBefore(4) \in Nat
      /\ EndBefore(1) <= EndBefore(2) /\ EndBefore(2) <= EndBefore(3)
      /\ EndBefore(3) <= EndBefore(4)
  BY <1>1
<1>3. /\ elf_header_size \in Nat /\ program_header_size \in Nat
      /\ EndBefore(1) = elf_header_size + 3 * program_header_size
  BY ElfAssumption DEF EndBefore
<1>4. \A i, j \in 1 .. 4 : i <= j => EndBefore(i) <= EndBefore(j)
  BY <1>1, <1>2
<1>5. CASE p = Piece("header", "elf", 0, elf_header_size)
  <2>1. p.at = 0 /\ p.size = elf_header_size
    BY <1>5 DEF Piece
  <2>2. elf_header_size <= EndBefore(1)
    BY <1>3
  <2>3. EndBefore(1) <= EndBefore(k + 1) /\ EndBefore(k + 1) \in Nat
    BY <1>1, <1>2, <1>4
  <2>. QED BY <1>1, <1>3, <2>1, <2>2, <2>3
<1>6. ASSUME NEW i \in 1 .. 3,
             p = Piece("program header", segments[i].name,
                       elf_header_size + (i - 1) * program_header_size,
                       program_header_size)
      PROVE  p.at \in Nat /\ p.size \in Nat /\ p.at + p.size <= EndBefore(k + 1)
  <2>1. /\ p.at = elf_header_size + (i - 1) * program_header_size
        /\ p.size = program_header_size
    BY <1>6 DEF Piece
  <2>2. p.at \in Nat /\ p.at + p.size <= EndBefore(1)
    <3>1. CASE i = 1  BY <3>1, <2>1, <1>3
    <3>2. CASE i = 2  BY <3>2, <2>1, <1>3
    <3>3. CASE i = 3  BY <3>3, <2>1, <1>3
    <3>. QED BY <3>1, <3>2, <3>3
  <2>3. EndBefore(1) <= EndBefore(k + 1) /\ EndBefore(k + 1) \in Nat
    BY <1>1, <1>2, <1>4
  <2>. QED BY <1>1, <1>3, <2>1, <2>2, <2>3
<1>7. ASSUME NEW i \in 1 .. k,
             p = Piece("payload", segments[i].name, segments[i].file_offset,
                       segments[i].file_size)
      PROVE  p.at \in Nat /\ p.size \in Nat /\ p.at + p.size <= EndBefore(k + 1)
  <2>1. p.at = segments[i].file_offset /\ p.size = segments[i].file_size
    BY <1>7 DEF Piece
  <2>2. i \in 1 .. 3 /\ i + 1 \in 1 .. 4 /\ k + 1 \in 1 .. 4 /\ i + 1 <= k + 1
    OBVIOUS
  <2>3. EndBefore(i + 1) <= EndBefore(k + 1)
    BY <1>4, <2>2
  <2>. QED BY <1>1, <2>1, <2>2, <2>3
<1>. QED BY <1>5, <1>6, <1>7 DEF Written

-----------------------------------------------------------------------------
IInv == TypeOK /\ FileAsAnnounced

\* A finished or unfinished file in the invariant is an announced one.
LEMMA InvAnnounced ==
  ASSUME TypeOK, FileAsAnnounced, pc \notin {"place", "threw"}
  PROVE  Announced
BY ElfAssumption DEF TypeOK, FileAsAnnounced, Announced

\* resize() to the next segment's offset keeps every byte written so far.
LEMMA PayloadKept ==
  ASSUME TypeOK, FileAsAnnounced, pc = "payloads"
  PROVE  /\ KeptBy(segments[index].file_offset) = pieces
         /\ length <= segments[index].file_offset
<1>1. /\ index \in 1 .. 3 /\ pieces = Written(3, index - 1)
      /\ length = EndBefore(index)
  BY DEF FileAsAnnounced, TypeOK
<1>2. Announced
  BY InvAnnounced
<1>3. /\ segments[index].file_offset \in Nat
      /\ EndBefore(index) <= segments[index].file_offset
      /\ EndBefore(index) \in Nat
  BY <1>1, <1>2, SegmentsOrdered DEF NextCongruent, TypeOK
<1>4. ASSUME NEW p \in Written(3, index - 1)
      PROVE  p.at + p.size <= segments[index].file_offset
  <2>1. index - 1 \in 0 .. 3 /\ (index - 1) + 1 = index
    BY <1>1
  <2>2. p.at \in Nat /\ p.size \in Nat /\ p.at + p.size <= EndBefore(index)
    BY <1>2, <2>1, WrittenWithin
  <2>. QED BY <1>3, <2>2
<1>. QED BY <1>1, <1>3, <1>4 DEF KeptBy

LEMMA InitInv == Init => IInv
<1> SUFFICES ASSUME Init PROVE IInv
  OBVIOUS
<1>1. TypeOK
  BY DEF Init, TypeOK
<1>2. FileAsAnnounced
  BY DEF Init, FileAsAnnounced
<1>. QED BY <1>1, <1>2 DEF IInv

LEMMA StepInv == IInv /\ [Next]_vars => IInv'
<1> SUFFICES ASSUME TypeOK, FileAsAnnounced, [Next]_vars
             PROVE  TypeOK' /\ FileAsAnnounced'
  BY DEF IInv
<1>1. CASE Refuse
  <2>1. TypeOK'
    BY <1>1 DEF Refuse, TypeOK
  <2>2. FileAsAnnounced'
    BY <1>1 DEF Refuse, TypeOK, FileAsAnnounced
  <2>. QED BY <2>1, <2>2
<1>2. CASE PlaceSegments
  <2>1. image \in ExecutableImage /\ PolicyFits(image)
    BY <1>2, ElfAssumption DEF PlaceSegments, TypeOK
  <2>2. /\ segments' = OutputSegments(image)
        /\ segments' \in [1 .. 3 -> Segment]
    BY <1>2, <2>1, SegmentFields DEF PlaceSegments
  <2>4. TypeOK'
    BY <1>2, <2>2 DEF PlaceSegments, TypeOK
  <2>5. FileAsAnnounced'
    BY <1>2, <2>1, <2>2 DEF PlaceSegments, TypeOK, FileAsAnnounced, PolicyFits
  <2>. QED BY <2>4, <2>5
<1>3. CASE write_header
  <2>1. /\ pieces = {} /\ length = 0 /\ pc = "header"
        /\ image \in Images /\ segments \in [1 .. 3 -> Segment]
        /\ PolicyFits(image) /\ segments = OutputSegments(image)
    BY <1>3 DEF write_header, FileAsAnnounced, TypeOK
  <2>2. pieces' = {Piece("header", "elf", 0, elf_header_size)}
        /\ length' = elf_header_size /\ segments' = segments /\ image' = image
        /\ pc' = "program headers" /\ index' = 1
    <3>1. /\ pieces' = pieces \cup {Piece("header", "elf", length, elf_header_size)}
          /\ length' = length + elf_header_size /\ segments' = segments
          /\ image' = image /\ pc' = "program headers" /\ index' = 1
      BY <1>3 DEF write_header, AppendPiece
    <3>2. length + elf_header_size = elf_header_size
      BY <2>1, ElfAssumption
    <3>. QED BY <2>1, <3>1, <3>2
  <2>3. Piece("header", "elf", 0, elf_header_size) \in PieceType
    BY ElfAssumption DEF Piece, PieceType
  <2>4. TypeOK'
    <3>1. pieces' \in SUBSET PieceType /\ length' \in Nat
      BY <2>2, <2>3, ElfAssumption
    <3>2. /\ image' \in Images /\ segments' \in [1 .. 3 -> Segment]
          /\ pc' = "program headers"
      BY <2>1, <2>2
    <3>3. index' \in 1 .. 3
      <4>1. index' = 1
        BY <2>2
      <4>. QED BY ONLY <4>1
    <3>. QED BY ONLY <3>3, <3>1, <3>2 DEF TypeOK
  <2>5. Written(0, 0)' = {Piece("header", "elf", 0, elf_header_size)}
    BY DEF Written
  <2>6. /\ elf_header_size + (1 - 1) * program_header_size = elf_header_size
        /\ 1 - 1 = 0
    BY ElfAssumption
  <2>7. FileAsAnnounced'
    BY <2>1, <2>2, <2>5, <2>6 DEF FileAsAnnounced
  <2>. QED BY <2>4, <2>7
<1>4. CASE write_program_header
  <2>1. /\ pc = "program headers" /\ image' = image /\ segments' = segments
        /\ pieces' = pieces \cup {Piece("program header", segments[index].name,
                                        length, program_header_size)}
        /\ length' = length + program_header_size
    BY <1>4 DEF write_program_header, AppendPiece
  <2>2. /\ index \in 1 .. 3 /\ segments \in [1 .. 3 -> Segment]
        /\ image \in Images /\ pieces \in SUBSET PieceType /\ length \in Nat
        /\ PolicyFits(image) /\ segments = OutputSegments(image)
        /\ pieces = Written(index - 1, 0)
        /\ length = elf_header_size + (index - 1) * program_header_size
    BY <2>1 DEF FileAsAnnounced, TypeOK
  <2>3. /\ length' \in Nat
        /\ length' = elf_header_size + index * program_header_size
    BY <2>1, <2>2, NextHeader
  <2>4. pieces' = Written(index, 0)
    BY <2>1, <2>2, WrittenHeader
  <2>5. pieces' \in SUBSET PieceType
    <3>1. segments[index] \in Segment
      BY <2>2
    <3>2. segments[index].name \in Names
      BY ONLY <3>1 DEF Segment
    <3>3. Piece("program header", segments[index].name, length, program_header_size)
            \in PieceType
      BY <2>2, <3>2, ElfAssumption DEF Piece, PieceType
    <3>. QED BY <2>1, <2>2, <3>3
  <2>6. CASE index < 3
    <3>1. index' = index + 1 /\ pc' = "program headers"
      BY <1>4, <2>1, <2>6 DEF write_program_header
    <3>2. index' \in 1 .. 3 /\ index' - 1 = index
      <4>1. index \in 1 .. 3
        BY <2>2
      <4>2. index' = index + 1
        BY <3>1
      <4>. QED BY ONLY <2>6, <4>1, <4>2
    <3>3. Written(index - 1, 0)' = Written(index, 0)
      BY ONLY <2>1, <3>2 DEF Written
    <3>4. TypeOK'
      BY ONLY <2>1, <2>2, <2>3, <2>5, <3>1, <3>2 DEF TypeOK
    <3>5. FileAsAnnounced'
      BY ONLY <2>1, <2>2, <2>3, <2>4, <3>1, <3>2, <3>3 DEF FileAsAnnounced
    <3>. QED BY <3>4, <3>5
  <2>7. CASE index = 3
    <3>1. index' = 1 /\ pc' = "payloads"
      <4>1. ~(index < 3)
        BY ONLY <2>7
      <4>. QED BY <1>4, <4>1 DEF write_program_header
    <3>2. index' \in 1 .. 3 /\ index' - 1 = 0
      BY <3>1
    <3>3. Written(3, index - 1)' = Written(3, 0)
      BY ONLY <2>1, <3>2 DEF Written
    <3>4. EndBefore(index)' = elf_header_size + 3 * program_header_size
      BY ONLY <3>1 DEF EndBefore
    <3>5. TypeOK'
      BY ONLY <2>1, <2>2, <2>3, <2>5, <3>1, <3>2 DEF TypeOK
    <3>6. FileAsAnnounced'
      BY ONLY <2>1, <2>2, <2>3, <2>4, <2>7, <3>1, <3>3, <3>4 DEF FileAsAnnounced
    <3>. QED BY <3>5, <3>6
  <2>. QED BY <2>2, <2>6, <2>7
<1>5. CASE WritePayload
  <2>1. /\ pc = "payloads" /\ image' = image /\ segments' = segments
        /\ pieces' = KeptBy(segments[index].file_offset)
             \cup {Piece("payload", segments[index].name,
                         segments[index].file_offset, segments[index].file_size)}
        /\ length' = segments[index].file_offset + segments[index].file_size
    BY <1>5 DEF WritePayload
  <2>2. /\ index \in 1 .. 3 /\ segments \in [1 .. 3 -> Segment]
        /\ image \in Images /\ pieces \in SUBSET PieceType
        /\ PolicyFits(image) /\ segments = OutputSegments(image)
        /\ pieces = Written(3, index - 1) /\ length = EndBefore(index)
    BY <2>1 DEF FileAsAnnounced, TypeOK
  <2>3. Announced
    BY <2>1, InvAnnounced
  <2>4. /\ segments[index].file_offset \in Nat /\ segments[index].file_size \in Nat
        /\ EndBefore(index + 1) = segments[index].file_offset + segments[index].file_size
        /\ EndBefore(index) <= segments[index].file_offset
        /\ EndBefore(index) \in Nat
    BY <2>2, <2>3, SegmentsOrdered DEF NextCongruent, TypeOK
  <2>5. KeptBy(segments[index].file_offset) = pieces
    BY <2>1, PayloadKept
  <2>6. pieces' = Written(3, index) /\ length' = EndBefore(index + 1)
    BY <2>1, <2>2, <2>4, <2>5, WrittenPayload
  <2>7. pieces' \in SUBSET PieceType /\ length' \in Nat
    <3>1. segments[index] \in Segment
      BY <2>2
    <3>2. segments[index].name \in Names
      BY ONLY <3>1 DEF Segment
    <3>3. Piece("payload", segments[index].name,
                segments[index].file_offset, segments[index].file_size) \in PieceType
      BY <2>4, <3>2 DEF Piece, PieceType
    <3>. QED BY <2>1, <2>2, <2>4, <2>5, <3>3
  <2>8. CASE index < 3
    <3>1. index' = index + 1 /\ pc' = "payloads"
      BY <1>5, <2>1, <2>8 DEF WritePayload
    <3>2. index' \in 1 .. 3 /\ index' - 1 = index
      BY <2>2, <2>8, <3>1
    <3>3. Written(3, index - 1)' = Written(3, index)
      BY ONLY <2>1, <3>2 DEF Written
    <3>4. EndBefore(index)' = EndBefore(index + 1)
      BY ONLY <2>1, <3>1 DEF EndBefore
    <3>5. TypeOK'
      BY ONLY <2>1, <2>2, <2>7, <3>1, <3>2 DEF TypeOK
    <3>6. FileAsAnnounced'
      BY ONLY <2>1, <2>2, <2>6, <3>1, <3>3, <3>4 DEF FileAsAnnounced
    <3>. QED BY <3>5, <3>6
  <2>9. CASE index = 3
    <3>1. pc' = "returned" /\ index' = 3
      BY <1>5, <2>1, <2>9 DEF WritePayload
    <3>2. Written(3, 3)' = Written(3, 3) /\ EndBefore(4)' = EndBefore(4)
      BY ONLY <2>1 DEF Written, EndBefore
    <3>3. pieces' = Written(3, 3) /\ length' = EndBefore(4)
      BY <2>6, <2>9
    <3>4. TypeOK'
      <4>1. index' \in 0 .. 3
        BY ONLY <3>1
      <4>. QED BY ONLY <2>1, <2>2, <2>7, <3>1, <4>1 DEF TypeOK
    <3>5. FileAsAnnounced'
      BY ONLY <2>1, <2>2, <3>1, <3>2, <3>3 DEF FileAsAnnounced
    <3>. QED BY <3>4, <3>5
  <2>. QED BY <2>2, <2>8, <2>9
<1>6. CASE UNCHANGED vars
  BY <1>6 DEF vars, TypeOK, FileAsAnnounced, Written, EndBefore
<1>7. CASE Finished
  BY <1>6, <1>7 DEF Finished
<1>. QED BY <1>1, <1>2, <1>3, <1>4, <1>5, <1>6, <1>7 DEF Next

\* The vector holds exactly what the headers announce, at every point of the
\* function and for every image, and every offset fits into 32 bits.
THEOREM InvariantHolds == Spec => [](TypeOK /\ FileAsAnnounced)
<1>1. Spec => []IInv
  BY InitInv, StepInv, PTL DEF Spec
<1>. QED BY <1>1, PTL DEF IInv

\* Every variable keeps its type: in particular no offset wraps around 32 bits.
THEOREM TypeCorrect == Spec => []TypeOK
BY InvariantHolds, PTL

-----------------------------------------------------------------------------
(***************************************************************************)
(* What follows from the invariant.                                        *)
(***************************************************************************)

\* place_segment does what its comment says, for every segment of every image.
THEOREM Placement == Spec => []PlacedAtNextCongruentPosition
<1>1. IInv => PlacedAtNextCongruentPosition
  <2> SUFFICES ASSUME TypeOK, FileAsAnnounced
               PROVE  PlacedAtNextCongruentPosition
    BY DEF IInv
  <2>1. CASE pc \in {"place", "threw"}
    <3>1. segments = <<>>
      BY <2>1 DEF TypeOK
    <3>. QED BY <3>1 DEF PlacedAtNextCongruentPosition
  <2>2. CASE pc \notin {"place", "threw"}
    <3>1. Announced
      BY <2>2, InvAnnounced
    <3>. QED BY <3>1, SegmentsOrdered DEF PlacedAtNextCongruentPosition
  <2>. QED BY <2>1, <2>2
<1>. QED BY <1>1, InvariantHolds, PTL DEF IInv

\* No resize() of the payload loop ever cuts off a byte that was written.
THEOREM NothingCutOff == Spec => AppendOnly
<1>1. IInv /\ [Next]_vars => [pieces \subseteq pieces' /\ length <= length']_vars
  <2> SUFFICES ASSUME TypeOK, FileAsAnnounced, Next
               PROVE  pieces \subseteq pieces' /\ length <= length'
    BY DEF IInv
  <2>1. length \in Nat
    BY DEF TypeOK
  <2>2. CASE write_header \/ write_program_header
    <3>1. \E piece : \E n \in {elf_header_size, program_header_size} :
             pieces' = pieces \cup {piece} /\ length' = length + n
      BY <2>2 DEF write_header, write_program_header, AppendPiece
    <3>. QED BY <2>1, <3>1, ElfAssumption
  <2>3. CASE WritePayload
    <3>1. /\ pc = "payloads"
          /\ KeptBy(segments[index].file_offset) \subseteq pieces'
          /\ length' = segments[index].file_offset + segments[index].file_size
      BY <2>3 DEF WritePayload
    <3>2. /\ KeptBy(segments[index].file_offset) = pieces
          /\ length <= segments[index].file_offset
      BY <3>1, PayloadKept
    <3>3. Announced /\ index \in 1 .. 3
      BY <3>1, InvAnnounced DEF TypeOK
    <3>4. segments[index].file_offset \in Nat /\ segments[index].file_size \in Nat
      BY <3>3, SegmentsOrdered
    <3>. QED BY <2>1, <3>1, <3>2, <3>4
  <2>4. CASE Refuse \/ PlaceSegments \/ Finished
    BY <2>1, <2>4 DEF Refuse, PlaceSegments, Finished, vars
  <2>. QED BY <2>2, <2>3, <2>4 DEF Next
<1>. QED BY <1>1, InvariantHolds, PTL DEF Spec, AppendOnly, IInv

\* Two pieces that share no byte.
Apart(p, q) == p.at + p.size <= q.at \/ q.at + q.size <= p.at

\* Where the payloads lie: behind the header table and one after the other.
LEMMA PayloadsInOrder ==
  ASSUME Announced, NEW i \in 1 .. 3
  PROVE  /\ EndBefore(1) \in Nat /\ EndBefore(1) <= segments[i].file_offset
         /\ segments[i].file_offset \in Nat /\ segments[i].file_size \in Nat
         /\ \A j \in 1 .. 3 : i < j =>
              segments[i].file_offset + segments[i].file_size <= segments[j].file_offset
<1>1. /\ EndBefore(1) \in Nat
      /\ \A k \in 1 .. 3 :
           /\ segments[k].file_offset \in Nat /\ segments[k].file_size \in Nat
           /\ EndBefore(k + 1) = segments[k].file_offset + segments[k].file_size
           /\ EndBefore(k) <= segments[k].file_offset
  BY SegmentsOrdered DEF NextCongruent
<1> DEFINE start(k) == segments[k].file_offset
           size(k) == segments[k].file_size
<1>2. /\ start(1) \in Nat /\ start(2) \in Nat /\ start(3) \in Nat
      /\ size(1) \in Nat /\ size(2) \in Nat /\ size(3) \in Nat
      /\ EndBefore(1) <= start(1)
      /\ start(1) + size(1) <= start(2)
      /\ start(2) + size(2) <= start(3)
  <2>1. EndBefore(2) = start(1) + size(1) /\ EndBefore(3) = start(2) + size(2)
    BY <1>1
  <2>. QED BY <1>1, <2>1
<1>3. CASE i = 1  BY <1>1, <1>2, <1>3
<1>4. CASE i = 2  BY <1>1, <1>2, <1>4
<1>5. CASE i = 3  BY <1>1, <1>2, <1>5
<1>. QED BY <1>3, <1>4, <1>5

\* The rows of a table behind a header, each as long as the others.
LEMMA HeaderTable ==
  ASSUME NEW h \in Nat, NEW s \in Nat, NEW i \in 1 .. 3
  PROVE  /\ h + (i - 1) * s \in Nat
         /\ h <= h + (i - 1) * s
         /\ h + (i - 1) * s + s <= h + 3 * s
         /\ \A j \in 1 .. 3 : i < j => h + (i - 1) * s + s <= h + (j - 1) * s
<1>1. CASE i = 1
  <2>1. \A j \in 1 .. 3 : i < j => j = 2 \/ j = 3
    OBVIOUS
  <2>. QED BY <1>1, <2>1
<1>2. CASE i = 2
  <2>1. \A j \in 1 .. 3 : i < j => j = 3
    BY <1>2
  <2>. QED BY <1>2, <2>1
<1>3. CASE i = 3  BY <1>3
<1>. QED BY <1>1, <1>2, <1>3

\* Two different pieces of a finished file are apart.
LEMMA WrittenApart ==
  ASSUME Announced, NEW p \in Written(3, 3), NEW q \in Written(3, 3)
  PROVE  p = q \/ Apart(p, q)
<1> DEFINE ElfHead == Piece("header", "elf", 0, elf_header_size)
           Program(i) == Piece("program header", segments[i].name,
                               elf_header_size + (i - 1) * program_header_size,
                               program_header_size)
           Payload(i) == Piece("payload", segments[i].name,
                               segments[i].file_offset, segments[i].file_size)
<1>1. /\ elf_header_size \in Nat /\ program_header_size \in Nat
      /\ EndBefore(1) = elf_header_size + 3 * program_header_size
  BY ElfAssumption DEF EndBefore
<1>2. ElfHead.at = 0 /\ ElfHead.size = elf_header_size
  BY DEF Piece
<1>3. ASSUME NEW i \in 1 .. 3
      PROVE  /\ Program(i).at = elf_header_size + (i - 1) * program_header_size
             /\ Program(i).size = program_header_size
             /\ Program(i).at \in Nat /\ elf_header_size <= Program(i).at
             /\ Program(i).at + program_header_size <= EndBefore(1)
  <2>1. /\ Program(i).at = elf_header_size + (i - 1) * program_header_size
        /\ Program(i).size = program_header_size
    BY DEF Piece
  <2>2. /\ elf_header_size + (i - 1) * program_header_size \in Nat
        /\ elf_header_size <= elf_header_size + (i - 1) * program_header_size
        /\ elf_header_size + (i - 1) * program_header_size + program_header_size
             <= elf_header_size + 3 * program_header_size
    BY <1>1, HeaderTable
  <2>. QED BY <1>1, <2>1, <2>2
<1>4. ASSUME NEW i \in 1 .. 3
      PROVE  /\ Payload(i).at = segments[i].file_offset
             /\ Payload(i).size = segments[i].file_size
             /\ Payload(i).at \in Nat /\ Payload(i).size \in Nat
             /\ EndBefore(1) <= Payload(i).at
  BY PayloadsInOrder DEF Piece
<1>5. ASSUME NEW i \in 1 .. 3, NEW j \in 1 .. 3, i < j
      PROVE  /\ Program(i).at + Program(i).size <= Program(j).at
             /\ Payload(i).at + Payload(i).size <= Payload(j).at
  <2>1. Program(i).at + Program(i).size <= Program(j).at
    <3>1. /\ Program(i).at = elf_header_size + (i - 1) * program_header_size
          /\ Program(i).size = program_header_size
          /\ Program(j).at = elf_header_size + (j - 1) * program_header_size
      BY DEF Piece
    <3>2. elf_header_size + (i - 1) * program_header_size + program_header_size
            <= elf_header_size + (j - 1) * program_header_size
      BY <1>1, <1>5, HeaderTable
    <3>. QED BY <3>1, <3>2
  <2>2. Payload(i).at + Payload(i).size <= Payload(j).at
    BY <1>4, <1>5, PayloadsInOrder
  <2>. QED BY <2>1, <2>2
<1>6. \/ p = ElfHead
      \/ \E i \in 1 .. 3 : p = Program(i)
      \/ \E i \in 1 .. 3 : p = Payload(i)
  BY DEF Written
<1>7. \/ q = ElfHead
      \/ \E i \in 1 .. 3 : q = Program(i)
      \/ \E i \in 1 .. 3 : q = Payload(i)
  BY DEF Written
<1>. HIDE DEF ElfHead, Program, Payload
<1>8. ASSUME NEW i \in 1 .. 3 PROVE Apart(ElfHead, Program(i)) /\ Apart(Program(i), ElfHead)
  BY <1>1, <1>2, <1>3 DEF Apart
<1>9. ASSUME NEW i \in 1 .. 3 PROVE Apart(ElfHead, Payload(i)) /\ Apart(Payload(i), ElfHead)
  BY <1>1, <1>2, <1>4 DEF Apart
<1>10. ASSUME NEW i \in 1 .. 3, NEW j \in 1 .. 3
       PROVE  Apart(Program(i), Payload(j)) /\ Apart(Payload(j), Program(i))
  <2>1. Program(i).at + Program(i).size <= EndBefore(1) /\ EndBefore(1) <= Payload(j).at
    BY <1>3, <1>4
  <2>. QED BY <1>1, <1>3, <1>4, <2>1 DEF Apart
<1>11. ASSUME NEW i \in 1 .. 3, NEW j \in 1 .. 3
       PROVE  /\ Program(i) = Program(j) \/ Apart(Program(i), Program(j))
              /\ Payload(i) = Payload(j) \/ Apart(Payload(i), Payload(j))
  <2>1. i = j \/ i < j \/ j < i
    OBVIOUS
  <2>. QED BY <1>5, <2>1 DEF Apart
<1>. QED BY <1>6, <1>7, <1>8, <1>9, <1>10, <1>11

-----------------------------------------------------------------------------
(***************************************************************************)
(* The finished file is the reference view.                                *)
(***************************************************************************)

\* The code's checks accept exactly the images the policy accepts.
LEMMA SamePolicy ==
  ASSUME NEW im \in ExecutableImage
  PROVE  PolicyFits(im) <=> RV!Exportable(im)
<1>1. validate_image(im) <=> RV!validate_image(im)
  BY DEF validate_image, validate_record, record_end,
         RV!validate_image, RV!validate_record, RV!record_end
<1>2. SUFFICES ASSUME validate_image(im)
               PROVE  PolicyFits(im) <=> RV!Exportable(im)
  BY <1>1 DEF PolicyFits, RV!Exportable
<1>3. /\ im.text.address \in Nat /\ im.data.address \in Nat
      /\ im.text.size \in Nat /\ im.data.size \in Nat
      /\ im.reginfo.address \in Nat
  BY GuestAssumption DEF ExecutableImage, ImageRecord, Word
<1>4. /\ im.data.address + im.data.size <= ee_memory_size
      /\ im.reginfo.address + ReginfoSize <= ee_memory_size
  BY <1>2 DEF validate_image, validate_record, record_end
<1>5. reginfo_address(im) = im.reginfo.address + ReginfoSize
  <2>1. im.reginfo.address + ReginfoSize < WordSize
    BY <1>3, <1>4, GuestAssumption, ElfAssumption
  <2>. QED BY <2>1, <1>3, U32Identity, GuestAssumption DEF reginfo_address
<1>6. data_memory_size(im) = im.data.size + reference_zero_fill_size
  <2>1. im.data.size + reference_zero_fill_size < WordSize
    BY <1>3, <1>4, GuestAssumption, ElfAssumption
  <2>. QED BY <2>1, <1>3, U32Identity, ElfAssumption DEF data_memory_size
<1>7. im.data.address + (im.data.size + reference_zero_fill_size)
        = im.data.address + im.data.size + reference_zero_fill_size
  BY <1>3, ElfAssumption
<1>. QED BY <1>1, <1>2, <1>3, <1>5, <1>6, <1>7, GuestAssumption, ElfAssumption
        DEF PolicyFits, RV!Exportable, RV!ReginfoAddress, RV!record_end

\* A byte inside a payload of a finished file comes from that payload only.
LEMMA PayloadByte ==
  ASSUME Announced, pieces = Written(3, 3), NEW i \in 1 .. 3,
         NEW d \in 0 .. segments[i].file_size - 1
  PROVE  FileByte(segments[i].file_offset + d) = {<<segments[i].name, d>>}
<1> DEFINE own == Piece("payload", segments[i].name, segments[i].file_offset,
                        segments[i].file_size)
           offset == segments[i].file_offset + d
           covering == {q \in pieces : /\ q.kind = "payload"
                                       /\ offset \in q.at .. q.at + q.size - 1}
<1>1. /\ own.kind = "payload" /\ own.name = segments[i].name
      /\ own.at = segments[i].file_offset /\ own.size = segments[i].file_size
  BY DEF Piece
<1>2. own \in pieces
  BY Zenon DEF Written
<1>3. /\ segments[i].file_offset \in Nat /\ segments[i].file_size \in Nat
      /\ d \in Nat /\ d < segments[i].file_size
  BY PayloadsInOrder
<1>4. offset \in own.at .. own.at + own.size - 1
  BY <1>1, <1>3
<1>5. ASSUME NEW q \in covering PROVE q = own
  <2>1. q \in Written(3, 3) /\ own \in Written(3, 3)
    BY <1>2
  <2>2. q = own \/ Apart(q, own)
    BY ONLY <2>1, Announced, WrittenApart
  <2>3. q.at \in Nat /\ q.size \in Nat
    <3>1. 3 \in 0 .. 3
      OBVIOUS
    <3>. QED BY ONLY <2>1, <3>1, Announced, WrittenWithin
  <2>4. offset \in q.at .. q.at + q.size - 1
    OBVIOUS
  <2>5. ~Apart(q, own)
    <3>. HIDE DEF own, covering
    <3>. QED BY <1>1, <1>3, <2>3, <2>4 DEF Apart
  <2>. QED BY <2>2, <2>5
<1>6. covering = {own}
  BY <1>1, <1>2, <1>4, <1>5
<1>7. FileByte(offset) = {<<p.name, offset - p.at>> : p \in covering}
  BY DEF FileByte
<1>8. offset - own.at = d
  BY <1>1, <1>3
<1>. HIDE DEF own, covering, offset
<1>9. FileByte(offset) = {<<own.name, offset - own.at>>}
  BY <1>6, <1>7
<1>. QED BY <1>1, <1>8, <1>9 DEF offset

\* What a loader finds in one loaded segment of a finished file.
LEMMA LoadedSegment ==
  ASSUME Announced, pieces = Written(3, 3), NEW i \in 1 .. 3, NEW a \in Nat
  PROVE  SegmentByte(segments[i], a) =
           IF a \notin segments[i].guest_address ..
                         segments[i].guest_address + segments[i].memory_size - 1
             THEN {}
           ELSE IF a < segments[i].guest_address + segments[i].file_size
             THEN {<<segments[i].name, a - segments[i].guest_address>>}
           ELSE {<<"zero", 0>>}
<1> DEFINE first == segments[i].guest_address
<1>1. segments[i] \in Segment
  BY SegmentFields DEF Announced
<1>2. first \in Nat /\ segments[i].file_size \in Nat
  BY <1>1, GuestAssumption DEF Segment, Word
<1>3. CASE a \in first .. first + segments[i].memory_size - 1
           /\ a < first + segments[i].file_size
  <2>1. a - first \in 0 .. segments[i].file_size - 1
    BY <1>2, <1>3
  <2>2. FileByte(segments[i].file_offset + (a - first))
          = {<<segments[i].name, a - first>>}
    BY <2>1, PayloadByte
  <2>3. a - first < segments[i].file_size
    BY <2>1, <1>2
  <2>. QED BY <1>3, <2>2, <2>3 DEF SegmentByte
<1>4. CASE a \in first .. first + segments[i].memory_size - 1
           /\ ~(a < first + segments[i].file_size)
  <2>1. ~(a - first < segments[i].file_size)
    BY <1>2, <1>4
  <2>. QED BY <1>4, <2>1 DEF SegmentByte
<1>5. CASE a \notin first .. first + segments[i].memory_size - 1
  BY <1>5 DEF SegmentByte
<1>. QED BY <1>3, <1>4, <1>5

\* Guest memory as loaded is guest memory as the policy describes it.
LEMMA LoadedMemory ==
  ASSUME Announced, pieces = Written(3, 3), NEW a \in 0 .. ee_memory_size - 1
  PROVE  LoadedByte(a) = RV!ViewByte(image, a)
<1>1. /\ segments[1].loaded /\ ~segments[2].loaded /\ segments[3].loaded
      /\ segments[1].name = "text" /\ segments[3].name = "data"
      /\ segments[1].guest_address = image.text.address
      /\ segments[1].file_size = image.text.size
      /\ segments[1].memory_size = image.text.size
      /\ segments[3].guest_address = image.data.address
      /\ segments[3].file_size = image.data.size
      /\ segments[3].memory_size = data_memory_size(image)
  BY DEF Announced, OutputSegments
<1>2. {j \in 1 .. 3 : segments[j].loaded} = {1, 3}
  BY <1>1
<1>3. LoadedByte(a) = SegmentByte(segments[1], a) \cup SegmentByte(segments[3], a)
  BY <1>2 DEF LoadedByte
<1>4. /\ image.text.address \in Nat /\ image.data.address \in Nat
      /\ image.text.size \in Nat /\ image.data.size \in Nat
      /\ data_memory_size(image) = image.data.size + reference_zero_fill_size
      /\ image.text.address + image.text.size <= image.data.address
      /\ reference_zero_fill_size \in Nat /\ a \in Nat
  <2>1. /\ image.text.address \in Nat /\ image.data.address \in Nat
        /\ image.text.size \in Nat /\ image.data.size \in Nat
        /\ reginfo_address(image) \in Nat
        /\ data_memory_size(image) = image.data.size + reference_zero_fill_size
        /\ image.text.address + image.text.size <= reginfo_address(image)
        /\ reginfo_address(image) + ReginfoSize <= image.data.address
    BY PolicyBounds, GuestAssumption DEF Announced
  <2>. QED BY <2>1, GuestAssumption, ElfAssumption
<1> DEFINE ta == image.text.address   ts == image.text.size
           da == image.data.address   ds == image.data.size
           zero == reference_zero_fill_size
<1>5. SegmentByte(segments[1], a) = IF ta <= a /\ a < ta + ts THEN {<<"text", a - ta>>}
                                    ELSE {}
  <2>1. SegmentByte(segments[1], a) =
          IF a \notin ta .. ta + ts - 1 THEN {}
          ELSE IF a < ta + ts THEN {<<"text", a - ta>>} ELSE {<<"zero", 0>>}
    <3>1. 1 \in 1 .. 3 /\ a \in Nat
      BY <1>4
    <3>2. SegmentByte(segments[1], a) =
            IF a \notin segments[1].guest_address ..
                          segments[1].guest_address + segments[1].memory_size - 1
              THEN {}
            ELSE IF a < segments[1].guest_address + segments[1].file_size
              THEN {<<segments[1].name, a - segments[1].guest_address>>}
            ELSE {<<"zero", 0>>}
      BY ONLY <3>1, Announced, pieces = Written(3, 3), LoadedSegment
    <3>. QED BY ONLY <1>1, <3>2
  <2>2. a \in ta .. ta + ts - 1 <=> ta <= a /\ a < ta + ts
    BY ONLY <1>4
  <2>. QED BY <2>1, <2>2
<1>6. SegmentByte(segments[3], a) =
        IF da <= a /\ a < da + ds THEN {<<"data", a - da>>}
        ELSE IF da + ds <= a /\ a < da + ds + zero THEN {<<"zero", 0>>}
        ELSE {}
  <2>1. SegmentByte(segments[3], a) =
          IF a \notin da .. da + data_memory_size(image) - 1 THEN {}
          ELSE IF a < da + ds THEN {<<"data", a - da>>} ELSE {<<"zero", 0>>}
    <3>1. 3 \in 1 .. 3 /\ a \in Nat
      BY <1>4
    <3>2. SegmentByte(segments[3], a) =
            IF a \notin segments[3].guest_address ..
                          segments[3].guest_address + segments[3].memory_size - 1
              THEN {}
            ELSE IF a < segments[3].guest_address + segments[3].file_size
              THEN {<<segments[3].name, a - segments[3].guest_address>>}
            ELSE {<<"zero", 0>>}
      BY ONLY <3>1, Announced, pieces = Written(3, 3), LoadedSegment
    <3>. QED BY ONLY <1>1, <3>2
  <2>2. a \in da .. da + data_memory_size(image) - 1 <=> da <= a /\ a < da + ds + zero
    BY ONLY <1>4
  <2>3. a < da + ds => a < da + ds + zero
    BY ONLY <1>4
  <2>4. ~(a < da + ds) <=> da + ds <= a
    BY ONLY <1>4
  <2>5. da + ds <= a => da <= a
    BY ONLY <1>4
  <2>. HIDE DEF da, ds, zero
  <2>. QED BY ONLY <2>1, <2>2, <2>3, <2>4, <2>5
<1>7. RV!ViewByte(image, a) =
        IF ta <= a /\ a < ta + ts THEN {<<"text", a - ta>>}
        ELSE IF da <= a /\ a < da + ds THEN {<<"data", a - da>>}
        ELSE IF da + ds <= a /\ a < da + ds + zero THEN {<<"zero", 0>>}
        ELSE {}
  <2>1. a \in ta .. (ta + ts) - 1 <=> ta <= a /\ a < ta + ts
    BY ONLY <1>4
  <2>2. a \in da .. (da + ds) - 1 <=> da <= a /\ a < da + ds
    BY ONLY <1>4
  <2>3. a \in (da + ds) .. (da + ds) + zero - 1 <=> da + ds <= a /\ a < da + ds + zero
    BY ONLY <1>4
  <2>. QED BY ONLY <2>1, <2>2, <2>3 DEF RV!ViewByte, RV!record_end
<1>8. ta <= a /\ a < ta + ts => ~(da <= a)
  BY <1>4
<1>9. ta <= a /\ a < ta + ts => ~(da + ds <= a)
  BY <1>4
<1>. HIDE DEF ta, ts, da, ds, zero
<1>. QED BY ONLY <1>3, <1>5, <1>6, <1>7, <1>8, <1>9

\* A finished file shows a loader exactly the view of the policy.
LEMMA FinishedView ==
  ASSUME Announced, pieces = Written(3, 3)
  PROVE  LoadedView = RV!View(image)
<1>1. TableInPlace
  BY Zenon DEF TableInPlace, Written
<1>2. \A a \in 0 .. ee_memory_size - 1 : LoadedByte(a) = RV!ViewByte(image, a)
  BY LoadedMemory
<1>3. segments[2].guest_address = RV!ReginfoAddress(image)
  <2>1. segments[2].guest_address = reginfo_address(image)
    BY DEF Announced, OutputSegments
  <2>2. reginfo_address(image) = image.reginfo.address + ReginfoSize
    BY PolicyBounds DEF Announced
  <2>. QED BY <2>1, <2>2 DEF RV!ReginfoAddress
<1>4. ASSUME NEW i \in 0 .. ReginfoSize - 1
      PROVE  FileByte(segments[2].file_offset + i) = {<<"reginfo", i>>}
  <2>1. image.reginfo.size = ReginfoSize
    BY PolicyBounds DEF Announced
  <2>2. segments[2].name = "reginfo" /\ segments[2].file_size = ReginfoSize
    BY <2>1 DEF Announced, OutputSegments
  <2>. QED BY <2>2, PayloadByte
<1>. QED BY <1>1, <1>2, <1>3, <1>4 DEF LoadedView, RV!View

\* The exporter implements its abstract specification: what a loader sees in
\* the file of a returning call is the guest memory of the analysis policy,
\* each byte with one origin, and a call throws exactly outside the policy.
THEOREM Refinement == Spec => ImplementsReferenceView
<1>1. Init => RV!Init
  BY DEF Init, RV!Init, view, RV!Pending
<1>2. (Announced /\ pieces = Written(3, 3))' => (LoadedView = RV!View(image))'
  BY FinishedView, PTL
<1>3. IInv /\ [Next]_vars => [RV!Export]_<<image, view>>
  <2> SUFFICES ASSUME TypeOK, FileAsAnnounced, [Next]_vars
               PROVE  [RV!Export]_<<image, view>>
    BY DEF IInv
  <2>1. CASE Refuse
    <3>1. /\ pc = "place" /\ pc' = "threw" /\ image' = image /\ ~PolicyFits(image)
      BY <2>1 DEF Refuse
    <3>2. ~RV!Exportable(image)
      BY <3>1, ElfAssumption, SamePolicy DEF TypeOK
    <3>3. view = RV!Pending /\ view' = RV!Rejected
      BY <3>1 DEF view, RV!Pending, RV!Rejected
    <3>. QED BY <3>1, <3>2, <3>3 DEF RV!Export
  <2>2. CASE PlaceSegments \/ write_header \/ write_program_header
    <3>1. /\ pc \notin {"returned", "threw"} /\ pc' \notin {"returned", "threw"}
          /\ image' = image
      BY <2>2 DEF PlaceSegments, write_header, write_program_header
    <3>. QED BY <3>1 DEF view
  <2>3. CASE WritePayload
    <3>1. pc = "payloads" /\ image' = image
      BY <2>3 DEF WritePayload
    <3>2. view = RV!Pending
      BY <3>1 DEF view, RV!Pending
    <3>3. CASE pc' # "returned"
      <4>1. pc' = "payloads"
        BY <2>3, <3>3 DEF WritePayload
      <4>2. view' = view
        BY <3>1, <4>1 DEF view
      <4>. QED BY <3>1, <4>2
    <3>4. CASE pc' = "returned"
      <4>1. TypeOK' /\ FileAsAnnounced'
        BY StepInv DEF IInv
      <4>2. Announced' /\ (pieces = Written(3, 3))'
        BY <3>4, <4>1, ElfAssumption DEF TypeOK, FileAsAnnounced, Announced
      <4>3. view' = LoadedView'
        BY <3>4 DEF view
      <4>4. LoadedView' = RV!View(image)'
        BY <1>2, <4>2
      <4>5. Announced
        BY <3>1, InvAnnounced
      <4>6. RV!Exportable(image)
        BY <4>5, SamePolicy DEF Announced
      <4>7. RV!View(image)' = RV!View(image)
        BY <3>1 DEF RV!View, RV!ViewByte, RV!record_end, RV!ReginfoAddress
      <4>. QED BY <3>1, <3>2, <4>3, <4>4, <4>6, <4>7 DEF RV!Export
    <3>. QED BY <3>3, <3>4
  <2>4. CASE Finished \/ UNCHANGED vars
    <3>1. UNCHANGED vars
      BY <2>4 DEF Finished
    <3>2. UNCHANGED <<image, pc, segments, pieces>>
      BY <3>1 DEF vars
    <3>. QED BY <3>2 DEF view, LoadedView, TableInPlace, LoadedByte, SegmentByte, FileByte
  <2>. QED BY <2>1, <2>2, <2>3, <2>4 DEF Next
<1>. QED BY <1>1, <1>3, InvariantHolds, PTL DEF Spec, RV!Spec, ImplementsReferenceView, IInv

-----------------------------------------------------------------------------
(***************************************************************************)
(* The file in front of the scripts.                                       *)
(***************************************************************************)

\* The three announced segments, what their headers say of the image, and where
\* they end in the file.
LEMMA AnnouncedSegments ==
  ASSUME Announced
  PROVE  /\ segments[1] = [name |-> "text", loaded |-> TRUE,
                file_offset |-> segments[1].file_offset,
                guest_address |-> image.text.address, file_size |-> image.text.size,
                memory_size |-> image.text.size, alignment |-> PageAlignment]
         /\ segments[2] = [name |-> "reginfo", loaded |-> FALSE,
                file_offset |-> segments[2].file_offset,
                guest_address |-> reginfo_address(image), file_size |-> image.reginfo.size,
                memory_size |-> image.reginfo.size, alignment |-> ReginfoAlignment]
         /\ segments[3] = [name |-> "data", loaded |-> TRUE,
                file_offset |-> segments[3].file_offset,
                guest_address |-> image.data.address, file_size |-> image.data.size,
                memory_size |-> data_memory_size(image), alignment |-> PageAlignment]
<1>1. image \in ExecutableImage /\ PolicyFits(image) /\ segments = OutputSegments(image)
  BY DEF Announced
<1>2. image.reginfo.size = ReginfoSize
  BY <1>1, PolicyBounds
<1>3. /\ segments[1] = [name |-> "text", loaded |-> TRUE, file_offset |-> text_offset(image),
               guest_address |-> image.text.address, file_size |-> image.text.size,
               memory_size |-> image.text.size, alignment |-> PageAlignment]
      /\ segments[2] = [name |-> "reginfo", loaded |-> FALSE,
               file_offset |-> reginfo_offset(image),
               guest_address |-> reginfo_address(image), file_size |-> ReginfoSize,
               memory_size |-> ReginfoSize, alignment |-> ReginfoAlignment]
      /\ segments[3] = [name |-> "data", loaded |-> TRUE, file_offset |-> data_offset(image),
               guest_address |-> image.data.address, file_size |-> image.data.size,
               memory_size |-> data_memory_size(image), alignment |-> PageAlignment]
  BY ONLY <1>1, SegmentFields
<1>4. /\ segments[1].file_offset = text_offset(image)
      /\ segments[2].file_offset = reginfo_offset(image)
      /\ segments[3].file_offset = data_offset(image)
  BY ONLY <1>3
<1>. QED BY ONLY <1>2, <1>3, <1>4

\* A finished file holds the headers and every payload.
LEMMA FileEnds ==
  ASSUME Announced, length = EndBefore(4)
  PROVE  /\ length \in Nat
         /\ elf_header_size <= length
         /\ elf_header_size + 3 * program_header_size <= length
         /\ \A i \in 1 .. 3 :
              /\ segments[i].file_offset \in Nat /\ segments[i].file_size \in Nat
              /\ segments[i].file_offset + segments[i].file_size <= length
<1>1. length = segments[3].file_offset + segments[3].file_size
  BY SegmentsOrdered
<1>2. \A i \in 1 .. 3 :
        /\ EndBefore(1) <= segments[i].file_offset
        /\ segments[i].file_offset \in Nat /\ segments[i].file_size \in Nat
        /\ i < 3 => segments[i].file_offset + segments[i].file_size <= segments[3].file_offset
  BY PayloadsInOrder
<1>3. EndBefore(1) = elf_header_size + 3 * program_header_size
  BY DEF EndBefore
<1>4. elf_header_size \in Nat /\ program_header_size \in Nat
  BY ElfAssumption
<1>5. length \in Nat /\ EndBefore(1) <= length
  <2>. DEFINE o == segments[3].file_offset
  <2>. DEFINE s == segments[3].file_size
  <2>1. o \in Nat /\ s \in Nat /\ EndBefore(1) <= o /\ length = o + s
    BY <1>1, <1>2
  <2>2. EndBefore(1) \in Nat
    BY <1>3, <1>4
  <2>. HIDE DEF o, s
  <2>. QED BY <2>1, <2>2
<1>6. ASSUME NEW i \in 1 .. 3
      PROVE  segments[i].file_offset + segments[i].file_size <= length
  <2>1. CASE i = 3
    BY <1>1, <1>2, <2>1
  <2>2. CASE i < 3
    <3>. DEFINE o == segments[i].file_offset
    <3>. DEFINE s == segments[i].file_size
    <3>. DEFINE t == segments[3].file_offset
    <3>1. /\ o \in Nat /\ s \in Nat /\ t \in Nat /\ segments[3].file_size \in Nat
          /\ o + s <= t /\ length = t + segments[3].file_size
      BY <1>1, <1>2, <2>2
    <3>. HIDE DEF o, s, t
    <3>2. o + s <= length
      BY <3>1
    <3>. QED BY <3>2 DEF o, s
  <2>. QED BY <2>1, <2>2
<1>. QED BY <1>2, <1>3, <1>4, <1>5, <1>6

\* What the script finds behind one header: the whole record, byte by byte.
LEMMA PayloadFound ==
  ASSUME Announced, pieces = Written(3, 3), length = EndBefore(4), NEW i \in 1 .. 3,
         NEW k \in 0 .. segments[i].file_size - 1
  PROVE  ReturnedFile.bytes[segments[i].file_offset + k] = {<<segments[i].name, k>>}
<1>1. FileByte(segments[i].file_offset + k) = {<<segments[i].name, k>>}
  BY PayloadByte
<1>2. segments[i].file_offset + k \in 0 .. length - 1
  <2>1. /\ segments[i].file_offset \in Nat /\ segments[i].file_size \in Nat /\ length \in Nat
        /\ segments[i].file_offset + segments[i].file_size <= length
    BY FileEnds
  <2>. QED BY <2>1
<1>3. ReturnedFile.bytes = [offset \in 0 .. length - 1 |-> FileByte(offset)]
  BY DEF ReturnedFile
<1>. QED BY <1>1, <1>2, <1>3

\* The reference inspection accepts a finished file.
LEMMA InspectionMatches ==
  ASSUME Announced, pieces = Written(3, 3), length = EndBefore(4)
  PROVE  Script!MatchesElf(image, ReturnedFile)
<1>. DEFINE F == ReturnedFile
<1>1. /\ F.ident = TRUE /\ F.entry = image.entry /\ F.table = elf_header_size
      /\ F.three = TableInPlace /\ F.size = length
      /\ F.headers = [i \in 1 .. 3 |-> Header(segments[i])]
  BY DEF ReturnedFile
<1>2. TableInPlace
  BY Zenon DEF TableInPlace, Written
<1>3. /\ elf_header_size <= F.size
      /\ F.table + 3 * program_header_size <= F.size
  BY <1>1, FileEnds
<1>4. ASSUME NEW i \in 1 .. 3, NEW j \in 1 .. 3,
             Script!reference_header_indices[i] = j,
             Script!Names[i] = segments[j].name,
             image[Script!Names[i]].size = segments[j].file_size,
             i = 1 \/ image[Script!Names[i]].address = segments[j].guest_address
      PROVE  Script!RecordMatches(image, F, i)
  <2>1. Script!HeaderOf(F, i) = Header(segments[j])
    BY <1>1, <1>4 DEF Script!HeaderOf
  <2>2. /\ Header(segments[j]).file_offset = segments[j].file_offset
        /\ Header(segments[j]).file_size = segments[j].file_size
        /\ Header(segments[j]).virtual_address = segments[j].guest_address
    BY DEF Header
  <2>3. Script!PayloadMatches(image, F, i)
    <3>. HIDE DEF F
    <3>1. \A k \in 0 .. segments[j].file_size - 1 :
            F.bytes[segments[j].file_offset + k] = {<<segments[j].name, k>>}
      BY PayloadFound DEF F
    <3>. QED BY ONLY <1>4, <2>1, <2>2, <3>1 DEF Script!PayloadMatches, Script!Record
  <2>4. segments[j].file_offset + segments[j].file_size <= F.size
    BY <1>1, FileEnds
  <2>. HIDE DEF F
  <2>. QED BY ONLY <1>4, <2>1, <2>2, <2>3, <2>4 DEF Script!RecordMatches, Script!Record
<1>5. /\ Script!reference_header_indices[1] = 2 /\ Script!Names[1] = "reginfo"
      /\ Script!reference_header_indices[2] = 1 /\ Script!Names[2] = "text"
      /\ Script!reference_header_indices[3] = 3 /\ Script!Names[3] = "data"
  BY DEF Script!reference_header_indices, Script!Names
<1>6. /\ segments[1].name = "text" /\ segments[1].file_size = image.text.size
      /\ segments[1].guest_address = image.text.address
      /\ segments[2].name = "reginfo" /\ segments[2].file_size = image.reginfo.size
      /\ segments[3].name = "data" /\ segments[3].file_size = image.data.size
      /\ segments[3].guest_address = image.data.address
  BY AnnouncedSegments
<1>7. /\ Script!RecordMatches(image, F, 1) /\ Script!RecordMatches(image, F, 2)
      /\ Script!RecordMatches(image, F, 3)
  <2>. HIDE DEF F
  <2>1. 1 \in 1 .. 3 /\ 2 \in 1 .. 3 /\ 3 \in 1 .. 3
    OBVIOUS
  <2>2. /\ image["reginfo"].size = image.reginfo.size /\ image["text"].size = image.text.size
        /\ image["data"].size = image.data.size
        /\ image["text"].address = image.text.address
        /\ image["data"].address = image.data.address
    OBVIOUS
  <2>. QED BY ONLY <1>4, <1>5, <1>6, <2>1, <2>2
<1>8. \A i \in 1 .. 3 : Script!RecordMatches(image, F, i)
  <2>1. \A i \in 1 .. 3 : i = 1 \/ i = 2 \/ i = 3
    OBVIOUS
  <2>. QED BY ONLY <1>7, <2>1
<1>. HIDE DEF F
<1>9. Script!MatchesElf(image, F)
  BY ONLY <1>1, <1>2, <1>3, <1>8 DEF Script!MatchesElf
<1>. QED BY <1>9 DEF F

\* The native verification accepts every header of a finished file.
LEMMA HeadersValid ==
  ASSUME Announced, NEW i \in 1 .. 3
  PROVE  Script!HeaderValid(ReturnedFile.headers[i])
<1>1. ReturnedFile.headers[i] = Header(segments[i])
  BY DEF ReturnedFile
<1>2. /\ Header(segments[i]).file_offset = segments[i].file_offset
      /\ Header(segments[i]).virtual_address = segments[i].guest_address
      /\ Header(segments[i]).file_size = segments[i].file_size
      /\ Header(segments[i]).memory_size = segments[i].memory_size
      /\ Header(segments[i]).alignment = segments[i].alignment
  BY DEF Header
<1>3. i = 1 \/ i = 2 \/ i = 3
  OBVIOUS
<1>4. segments[i].alignment \in {PageAlignment, ReginfoAlignment}
  BY <1>3, AnnouncedSegments
<1>5. \E k \in 0 .. segments[i].alignment : segments[i].alignment = 2^k
  BY <1>4, AlignmentAssumption
<1>6. segments[i].file_offset % segments[i].alignment
        = segments[i].guest_address % segments[i].alignment
  BY SegmentsOrdered DEF NextCongruent
<1>7. segments[i].file_size <= segments[i].memory_size
  <2>1. /\ data_memory_size(image) = image.data.size + reference_zero_fill_size
        /\ image.data.size \in Nat /\ image.text.size \in Nat /\ image.reginfo.size \in Nat
        /\ reference_zero_fill_size \in Nat
    BY PolicyBounds, ElfAssumption, GuestAssumption DEF Announced
  <2>2. /\ segments[1].file_size = image.text.size /\ segments[1].memory_size = image.text.size
        /\ segments[2].file_size = image.reginfo.size
        /\ segments[2].memory_size = image.reginfo.size
        /\ segments[3].file_size = image.data.size
        /\ segments[3].memory_size = data_memory_size(image)
    BY AnnouncedSegments
  <2>. QED BY <1>3, <2>1, <2>2
<1>. QED BY <1>1, <1>2, <1>5, <1>6, <1>7 DEF Script!HeaderValid

\* Guest memory by ranges: text, data, the zero fill.
LEMMA LoadedRanges ==
  ASSUME Announced, pieces = Written(3, 3)
  PROVE  /\ \A k \in 0 .. image.text.size - 1 :
              LoadedByte(image.text.address + k) = {<<"text", k>>}
         /\ \A k \in 0 .. image.data.size - 1 :
              LoadedByte(image.data.address + k) = {<<"data", k>>}
         /\ \A k \in 0 .. reference_zero_fill_size - 1 :
              LoadedByte(image.data.address + image.data.size + k) = {<<"zero", 0>>}
<1>. DEFINE ta == image.text.address
<1>. DEFINE ts == image.text.size
<1>. DEFINE da == image.data.address
<1>. DEFINE ds == image.data.size
<1>. DEFINE zero == reference_zero_fill_size
<1>1. /\ ta \in Nat /\ ts \in Nat /\ da \in Nat /\ ds \in Nat /\ zero \in Nat
      /\ ee_memory_size \in Nat
      /\ ta + ts <= da /\ da + ds + zero <= ee_memory_size
  <2>1. /\ ta \in Nat /\ ts \in Nat /\ da \in Nat /\ ds \in Nat
        /\ reginfo_address(image) = image.reginfo.address + ReginfoSize
        /\ image.reginfo.address \in Nat
        /\ data_memory_size(image) = ds + zero
        /\ ta + ts <= reginfo_address(image)
        /\ reginfo_address(image) + ReginfoSize <= da
        /\ da + data_memory_size(image) <= ee_memory_size
    BY PolicyBounds DEF Announced
  <2>2. zero \in Nat /\ ee_memory_size \in Nat /\ ReginfoSize \in Nat
    BY ElfAssumption, GuestAssumption
  <2>. HIDE DEF ta, ts, da, ds, zero
  <2>. QED BY <2>1, <2>2
<1>2. \A a \in 0 .. ee_memory_size - 1 :
        LoadedByte(a) =
          IF a \in ta .. (ta + ts) - 1 THEN {<<"text", a - ta>>}
          ELSE IF a \in da .. (da + ds) - 1 THEN {<<"data", a - da>>}
          ELSE IF a \in (da + ds) .. (da + ds) + zero - 1 THEN {<<"zero", 0>>}
          ELSE {}
  BY LoadedMemory DEF RV!ViewByte, RV!record_end
<1>. HIDE DEF ta, ts, da, ds, zero
<1>3. ASSUME NEW k \in 0 .. ts - 1 PROVE LoadedByte(ta + k) = {<<"text", k>>}
  <2>1. ta + k \in 0 .. ee_memory_size - 1 /\ ta + k \in ta .. (ta + ts) - 1
        /\ (ta + k) - ta = k
    BY <1>1
  <2>. QED BY <1>2, <2>1
<1>4. ASSUME NEW k \in 0 .. ds - 1 PROVE LoadedByte(da + k) = {<<"data", k>>}
  <2>1. /\ da + k \in 0 .. ee_memory_size - 1 /\ da + k \notin ta .. (ta + ts) - 1
        /\ da + k \in da .. (da + ds) - 1 /\ (da + k) - da = k
    BY <1>1
  <2>. QED BY <1>2, <2>1
<1>5. ASSUME NEW k \in 0 .. zero - 1 PROVE LoadedByte(da + ds + k) = {<<"zero", 0>>}
  <2>1. /\ da + ds + k \in 0 .. ee_memory_size - 1 /\ da + ds + k \notin ta .. (ta + ts) - 1
        /\ da + ds + k \notin da .. (da + ds) - 1
        /\ da + ds + k \in (da + ds) .. (da + ds) + zero - 1
    BY <1>1
  <2>. QED BY <1>2, <2>1
<1>. QED BY <1>3, <1>4, <1>5 DEF ta, ts, da, ds, zero

\* The import check finds two loaded segments with the bytes of the file.
LEMMA ImportFound ==
  ASSUME Announced, pieces = Written(3, 3)
  PROVE  ImportMatches /\ ZeroFilledTail
<1>1. /\ segments[1].loaded = TRUE /\ segments[1].name = "text"
      /\ segments[1].guest_address = image.text.address
      /\ segments[1].file_size = image.text.size
      /\ segments[2].loaded = FALSE
      /\ segments[3].loaded = TRUE /\ segments[3].name = "data"
      /\ segments[3].guest_address = image.data.address
      /\ segments[3].file_size = image.data.size
  BY AnnouncedSegments
<1>2. Cardinality({i \in 1 .. 3 : segments[i].loaded}) = 2
  <2>1. {i \in 1 .. 3 : segments[i].loaded} = {1} \cup {3}
    BY <1>1
  <2>2. IsFiniteSet({1}) /\ Cardinality({1}) = 1
    BY FS_Singleton
  <2>3. Cardinality({1} \cup {3}) = Cardinality({1}) + 1
    <3>1. 3 \notin {1}
      OBVIOUS
    <3>. QED BY <2>2, <3>1, FS_AddElement
  <2>. QED BY <2>1, <2>2, <2>3
<1>3. ASSUME NEW i \in 1 .. 3, segments[i].loaded,
             NEW k \in 0 .. segments[i].file_size - 1
      PROVE  LoadedByte(segments[i].guest_address + k)
               = FileByte(segments[i].file_offset + k)
  <2>1. FileByte(segments[i].file_offset + k) = {<<segments[i].name, k>>}
    BY PayloadByte
  <2>2. i = 1 \/ i = 3
    <3>1. i = 1 \/ i = 2 \/ i = 3
      OBVIOUS
    <3>. QED BY <1>1, <1>3, <3>1
  <2>3. CASE i = 1
    <3>1. LoadedByte(image.text.address + k) = {<<"text", k>>}
      BY <1>1, <2>3, LoadedRanges
    <3>. QED BY <1>1, <2>1, <2>3, <3>1
  <2>4. CASE i = 3
    <3>1. LoadedByte(image.data.address + k) = {<<"data", k>>}
      BY <1>1, <2>4, LoadedRanges
    <3>. QED BY <1>1, <2>1, <2>4, <3>1
  <2>. QED BY <2>2, <2>3, <2>4
<1>4. ZeroFilledTail
  BY LoadedRanges DEF ZeroFilledTail
<1>. QED BY <1>2, <1>3, <1>4 DEF ImportMatches

\* Every exported file passes the reference inspection, the native verification
\* of its headers and both import checks.
THEOREM InspectionPasses == Spec => []ExportPassesInspection
<1>1. IInv => ExportPassesInspection
  <2> SUFFICES ASSUME TypeOK, FileAsAnnounced, pc = "returned"
               PROVE  /\ Script!MatchesElf(image, ReturnedFile)
                      /\ \A i \in 1 .. 3 : Script!HeaderValid(ReturnedFile.headers[i])
                      /\ ImportMatches /\ ZeroFilledTail
    BY DEF IInv, ExportPassesInspection
  <2>1. Announced
    BY InvAnnounced
  <2>2. pieces = Written(3, 3) /\ length = EndBefore(4)
    BY DEF FileAsAnnounced
  <2>. QED BY <2>1, <2>2, InspectionMatches, HeadersValid, ImportFound
<1>. QED BY <1>1, InvariantHolds, PTL DEF IInv

-----------------------------------------------------------------------------
(***************************************************************************)
(* From CORE to the script.  CoreReader hands the exporter the image of a  *)
(* well-formed container (CoreFormat, which it implements); the script     *)
(* opens that container and the file exported from its image.              *)
(***************************************************************************)
CONSTANTS HalfWordBytes, WordBytes, maximum_core_size, Containers

CoreFile == INSTANCE CoreFormat WITH container <- <<>>, result <- <<>>
CoreScript == INSTANCE InspectReference

\* The cursor behind each record of a body.
LEMMA CursorValues ==
  ASSUME NEW b
  PROVE  LET c == CoreScript!Cursor(b) IN
         /\ c[0] = CoreScript!AuthenticationEnd(b) + 2 * WordBytes
         /\ c[1] = c[0] + CoreScript!RecordHeader + b.records[1].size
         /\ c[2] = c[1] + CoreScript!RecordHeader + b.records[2].size
         /\ c[3] = c[2] + CoreScript!RecordHeader + b.records[3].size
<1>. DEFINE A == CoreScript!AuthenticationEnd(b) + 2 * WordBytes
            Behind(c, i) == c + CoreScript!RecordHeader + b.records[i].size
            Recurs(f) == f = [i \in 0 .. 3 |-> IF i = 0 THEN A ELSE Behind(f[i - 1], i)]
            c1 == Behind(A, 1)
            c2 == Behind(c1, 2)
            c3 == Behind(c2, 3)
            g == [i \in 0 .. 3 |-> IF i = 0 THEN A ELSE IF i = 1 THEN c1
                                   ELSE IF i = 2 THEN c2 ELSE c3]
<1>1. CoreScript!Cursor(b) = CHOOSE f : Recurs(f)
  BY Zenon DEF CoreScript!Cursor
<1>2. 1 - 1 = 0 /\ 2 - 1 = 1 /\ 3 - 1 = 2
  OBVIOUS
<1>3. Recurs(g)
  <2>. HIDE DEF A, Behind
  <2>1. \A i \in 0 .. 3 : i = 0 \/ i = 1 \/ i = 2 \/ i = 3
    OBVIOUS
  <2>2. g[0] = A /\ g[1] = c1 /\ g[2] = c2 /\ g[3] = c3
    <3>. HIDE DEF c1, c2, c3
    <3>. QED OBVIOUS
  <2>3. \A i \in 0 .. 3 : g[i] = IF i = 0 THEN A ELSE Behind(g[i - 1], i)
    <3>. HIDE DEF g
    <3>. QED BY <1>2, <2>1, <2>2
  <2>. HIDE DEF c1, c2, c3
  <2>. QED BY <2>3
<1>4. Recurs(CoreScript!Cursor(b))
  <2>. HIDE DEF Recurs, g
  <2>. QED BY <1>1, <1>3
<1>5. \A i \in 0 .. 3 : CoreScript!Cursor(b)[i] =
        IF i = 0 THEN A ELSE Behind(CoreScript!Cursor(b)[i - 1], i)
  <2>1. PICK f : f = CoreScript!Cursor(b)
    OBVIOUS
  <2>2. f = [i \in 0 .. 3 |-> IF i = 0 THEN A ELSE Behind(f[i - 1], i)]
    BY ONLY <1>4, <2>1
  <2>. HIDE DEF A, Behind
  <2>3. \A i \in 0 .. 3 : f[i] = IF i = 0 THEN A ELSE Behind(f[i - 1], i)
    BY ONLY <2>2
  <2>. QED BY ONLY <2>1, <2>3
<1>6. LET c == CoreScript!Cursor(b) IN
      c[0] = A /\ c[1] = Behind(c[0], 1) /\ c[2] = Behind(c[1], 2) /\ c[3] = Behind(c[2], 3)
  <2>. HIDE DEF A, Behind
  <2>. QED BY <1>2, <1>5
<1>. QED BY <1>6

\* The fields of a container.
LEMMA CoreFields ==
  ASSUME NEW core \in CoreFile!Container
  PROVE  LET b == core.stream.body IN
         /\ core.size \in Nat /\ core.expected \in Nat /\ b.length \in Nat
         /\ b.authentication[1] \in Nat /\ b.authentication[2] \in Nat
         /\ b.records[1].size \in Nat /\ b.records[2].size \in Nat /\ b.records[3].size \in Nat
<1>1. core.size \in Nat /\ core.expected \in CoreFile!Word /\ core.stream \in CoreFile!Stream
  BY DEF CoreFile!Container
<1>2. core.stream.body \in CoreFile!Body
  BY <1>1 DEF CoreFile!Stream
<1>3. CoreFile!Word \subseteq Nat
  BY GuestAssumption DEF CoreFile!Word
<1>. DEFINE b == core.stream.body
<1>4. /\ b.length \in Nat /\ b.authentication \in [1 .. 2 -> Nat]
      /\ b.records \in [1 .. 3 -> CoreFile!ImageRecord]
  BY <1>2 DEF CoreFile!Body
<1>5. \A r \in CoreFile!ImageRecord : r.size \in Nat
  BY DEF CoreFile!ImageRecord
<1>6. 1 \in 1 .. 3 /\ 2 \in 1 .. 3 /\ 3 \in 1 .. 3 /\ 1 \in 1 .. 2 /\ 2 \in 1 .. 2
  OBVIOUS
<1>7. b.authentication[1] \in Nat /\ b.authentication[2] \in Nat
  BY <1>4, <1>6
<1>8. b.records[1].size \in Nat /\ b.records[2].size \in Nat /\ b.records[3].size \in Nat
  BY <1>4, <1>5, <1>6
<1>. QED BY <1>1, <1>3, <1>4, <1>7, <1>8

\* The script accepts every container the C++ reader does.
LEMMA CoreAccepted ==
  ASSUME HalfWordBytes \in Nat, WordBytes \in Nat,
         NEW core \in CoreFile!Container, CoreFile!WellFormed(core)
  PROVE  CoreScript!AcceptsCore(core)
<1>. DEFINE b == core.stream.body
            c == CoreScript!Cursor(b)
            a1 == b.authentication[1]
            a2 == b.authentication[2]
            s1 == b.records[1].size
            s2 == b.records[2].size
            s3 == b.records[3].size
<1>1. /\ core.flags = "0x0101" /\ HalfWordBytes + WordBytes <= core.size /\ core.stream.ends
      /\ core.stream.used = core.size - (HalfWordBytes + WordBytes)
      /\ b.length = core.expected /\ b.count = 3
  BY Zenon DEF CoreFile!WellFormed, CoreFile!HeaderBytes
<1>2. CoreFile!Tiles(b)
  BY Zenon DEF CoreFile!WellFormed
<1>3. b.length = (HalfWordBytes + a1) + (HalfWordBytes + a2) + WordBytes + WordBytes
                   + (2 * WordBytes + s1) + (2 * WordBytes + s2) + (2 * WordBytes + s3)
  BY <1>2 DEF CoreFile!Tiles
<1>4. /\ c[0] = (HalfWordBytes + a1) + (HalfWordBytes + a2) + 2 * WordBytes
      /\ c[1] = c[0] + (WordBytes + WordBytes) + s1 /\ c[2] = c[1] + (WordBytes + WordBytes) + s2
      /\ c[3] = c[2] + (WordBytes + WordBytes) + s3
  BY CursorValues DEF CoreScript!AuthenticationEnd, CoreScript!RecordHeader
<1>5. a1 \in Nat /\ a2 \in Nat /\ s1 \in Nat /\ s2 \in Nat /\ s3 \in Nat
  BY CoreFields
<1>. DEFINE n == b.length
<1>. HIDE DEF b, c, a1, a2, s1, s2, s3, n
<1>6. /\ 2 * HalfWordBytes + a1 <= n /\ c[0] <= n /\ c[3] = n
      /\ c[0] + (WordBytes + WordBytes) <= n /\ c[1] <= n
      /\ c[1] + (WordBytes + WordBytes) <= n /\ c[2] <= n
      /\ c[2] + (WordBytes + WordBytes) <= n /\ c[3] <= n
  BY <1>3, <1>4, <1>5 DEF n
<1>7. \A i \in 1 .. 3 : c[i - 1] + (WordBytes + WordBytes) <= n /\ c[i] <= n
  <2>1. \A i \in 1 .. 3 : (i = 1 /\ i - 1 = 0) \/ (i = 2 /\ i - 1 = 1) \/ (i = 3 /\ i - 1 = 2)
    OBVIOUS
  <2>. QED BY <1>6, <2>1
<1>. QED BY <1>1, <1>6, <1>7, Zenon
     DEF CoreScript!AcceptsCore, CoreScript!RecordHeader, b, c, a1, n

\* What gt4core makes of a CORE file passes inspect_reference.py together with
\* that file: the script reads the container of every exported image and finds
\* in the ELF file the records it has just read.
THEOREM CoreToInspection ==
  ASSUME HalfWordBytes \in Nat, WordBytes \in Nat
  PROVE  Spec =>
           [](pc = "returned" =>
                \A core \in CoreFile!Container :
                  CoreFile!WellFormed(core) /\ CoreFile!ImageOf(core.stream.body) = image =>
                    /\ CoreScript!AcceptsCore(core)
                    /\ CoreScript!MatchesElf(CoreFile!ImageOf(core.stream.body), ReturnedFile))
<1>1. \A im, elf : CoreScript!MatchesElf(im, elf) <=> Script!MatchesElf(im, elf)
  BY Zenon DEF CoreScript!MatchesElf, Script!MatchesElf, CoreScript!RecordMatches,
    Script!RecordMatches, CoreScript!PayloadMatches, Script!PayloadMatches, CoreScript!HeaderOf,
    Script!HeaderOf, CoreScript!Record, Script!Record, CoreScript!Names, Script!Names,
    CoreScript!reference_header_indices, Script!reference_header_indices
<1>. DEFINE P == pc = "returned" =>
                   \A core \in CoreFile!Container :
                     CoreFile!WellFormed(core) /\ CoreFile!ImageOf(core.stream.body) = image =>
                       /\ CoreScript!AcceptsCore(core)
                       /\ CoreScript!MatchesElf(CoreFile!ImageOf(core.stream.body), ReturnedFile)
<1>2. ExportPassesInspection => P
  BY <1>1, CoreAccepted DEF ExportPassesInspection
<1>. QED BY <1>2, InspectionPasses, PTL
=============================================================================
