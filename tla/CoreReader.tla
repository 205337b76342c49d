----------------------------- MODULE CoreReader -----------------------------
(***************************************************************************)
(* reconstruct_core and inflate_body of src/executable/core_image.cpp: one *)
(* pass of ByteReader over the container's header, zlib over the rest, one *)
(* pass of ByteReader over the inflated body, then validate_image.         *)
(*                                                                         *)
(* Every read that does not fit and every failed check throws; the         *)
(* function then ends, having returned nothing.                            *)
(***************************************************************************)
EXTENDS GuestImage

CONSTANTS
  HalfWordBytes,      \* bytes of a u16 field (2)
  WordBytes,          \* bytes of a u32 field (4)
  maximum_core_size,  \* 32 MiB
  Containers          \* the containers a caller may hand over

VARIABLES
  container,  \* the argument
  pc,         \* what is done next
  position,   \* ByteReader::position_ of the reader in use
  capacity,   \* bytes allocated for inflate's output
  image,      \* the image under construction
  result

vars == <<container, pc, position, capacity, image, result>>

CF == INSTANCE CoreFormat WITH container <- container, result <- result

ASSUME CoreAssumption ==
  /\ HalfWordBytes \in Nat \ {0} /\ WordBytes \in Nat \ {0}
  /\ maximum_core_size \in Nat /\ maximum_core_size + 1 < WordSize
  /\ Containers \subseteq CF!Container

body == container.stream.body

\* Mutant: the end of the field is computed in 32 bits.
FitsWrapping(count, at, size) == ~(U32(at + count) > size)

\* The comparison of take(): it subtracts, so it cannot overflow as long as
\* the reader is inside its bytes.
Fits(count, at, size) == ~(count > size - at)

-----------------------------------------------------------------------------
\* A default-constructed ExecutableImage.
EmptyRecord == [address |-> 0, size |-> 0]
EmptyImage ==
  [entry |-> 0, reginfo |-> EmptyRecord, text |-> EmptyRecord, data |-> EmptyRecord]

Init ==
  /\ container \in Containers
  /\ pc = "core size" /\ position = 0 /\ capacity = 0
  /\ image = EmptyImage /\ result = CF!Pending

Throw ==
  /\ result' = CF!Threw /\ pc' = "done"
  /\ UNCHANGED <<container, position, capacity, image>>

CheckCoreSize ==
  /\ pc = "core size"
  /\ IF container.size > maximum_core_size
       THEN Throw
       ELSE /\ pc' = "flags"
            /\ UNCHANGED <<container, position, capacity, image, result>>

\* header.read_u16() and its check.
ReadFlags ==
  /\ pc = "flags"
  /\ IF Fits(HalfWordBytes, position, container.size) /\ container.flags = "0x0101"
       THEN /\ position' = position + HalfWordBytes /\ pc' = "expected size"
            /\ UNCHANGED <<container, capacity, image, result>>
       ELSE Throw

\* Mutant: the declared size is not limited.
AcceptsAnySize(expected_size) == expected_size # 0
AcceptsSize(expected_size) == ~(expected_size = 0 \/ expected_size > maximum_core_size)

\* Mutant: no limit on the declared size, and the sum is not reduced to 32 bits.
ReadExpectedSizeWide ==
  /\ pc = "expected size"
  /\ IF Fits(WordBytes, position, container.size) /\ container.expected # 0
       THEN /\ position' = position + WordBytes /\ pc' = "inflate"
            /\ capacity' = container.expected + 1
            /\ UNCHANGED <<container, image, result>>
       ELSE Throw

\* header.read_u32(), its check, and the output buffer with one byte more.
ReadExpectedSize ==
  /\ pc = "expected size"
  /\ IF Fits(WordBytes, position, container.size) /\ AcceptsSize(container.expected)
       THEN /\ position' = position + WordBytes /\ pc' = "inflate"
            /\ capacity' = U32(container.expected + 1)
            /\ UNCHANGED <<container, image, result>>
       ELSE Throw

\* inflate(Z_FINISH) reaches Z_STREAM_END only if the whole output fits; the
\* body is then read from its start by a reader of its own.
Inflate ==
  /\ pc = "inflate"
  /\ IF /\ container.stream.ends /\ body.length <= capacity
        /\ container.stream.used = container.size - position
        /\ body.length = container.expected
       THEN /\ position' = 0 /\ pc' = "authentication 1"
            /\ UNCHANGED <<container, capacity, image, result>>
       ELSE Throw

\* One of the two authentication values: its length, then so many bytes.
ReadAuthentication(i, here, next) ==
  LET size == body.authentication[i] IN
  /\ pc = here
  /\ IF /\ Fits(HalfWordBytes, position, body.length)
        /\ Fits(size, position + HalfWordBytes, body.length)
       THEN /\ position' = position + HalfWordBytes + size /\ pc' = next
            /\ UNCHANGED <<container, capacity, image, result>>
       ELSE Throw

AcceptsCount(record_count) == record_count = 3

ReadRecordCount ==
  /\ pc = "record count"
  /\ IF Fits(WordBytes, position, body.length) /\ AcceptsCount(body.count)
       THEN /\ position' = position + WordBytes /\ pc' = "entry"
            /\ UNCHANGED <<container, capacity, image, result>>
       ELSE Throw

ReadEntry ==
  /\ pc = "entry"
  /\ IF Fits(WordBytes, position, body.length)
       THEN /\ position' = position + WordBytes /\ pc' = "reginfo"
            /\ image' = [image EXCEPT !.entry = body.entry]
            /\ UNCHANGED <<container, capacity, result>>
       ELSE Throw

\* read_record: address, size and payload of the i-th record, each one a
\* take() of the reader.
read_record(i, name, next) ==
  LET record == body.records[i] IN
  /\ pc = name
  /\ IF /\ Fits(WordBytes, position, body.length)
        /\ Fits(WordBytes, position + WordBytes, body.length)
        /\ Fits(record.size, position + 2 * WordBytes, body.length)
       THEN /\ position' = position + 2 * WordBytes + record.size /\ pc' = next
            /\ image' = [image EXCEPT ![name] = record]
            /\ UNCHANGED <<container, capacity, result>>
       ELSE Throw

\* Mutant: bytes behind the last record are ignored.
at_end_ignored == TRUE
at_end == position = body.length

\* reader.at_end(), validate_image, return.
Return ==
  /\ pc = "end"
  /\ IF at_end /\ validate_image(image)
       THEN /\ result' = [status |-> "image", image |-> image]
            /\ pc' = "done"
            /\ UNCHANGED <<container, position, capacity, image>>
       ELSE Throw

\* The function is over; it has no further step.
Finished == pc = "done" /\ UNCHANGED vars

Next ==
  \/ CheckCoreSize \/ ReadFlags \/ ReadExpectedSize \/ Inflate
  \/ ReadAuthentication(1, "authentication 1", "authentication 2")
  \/ ReadAuthentication(2, "authentication 2", "record count")
  \/ ReadRecordCount \/ ReadEntry
  \/ read_record(1, "reginfo", "text")
  \/ read_record(2, "text", "data")
  \/ read_record(3, "data", "end")
  \/ Return \/ Finished

Spec == Init /\ [][Next]_vars

-----------------------------------------------------------------------------
InHeader == {"core size", "flags", "expected size", "inflate"}
InBody ==
  {"authentication 1", "authentication 2", "record count", "entry",
   "reginfo", "text", "data", "end"}

\* Every variable keeps its type.
TypeOK ==
  /\ container \in CF!Container
  /\ pc \in InHeader \cup InBody \cup {"done"}
  /\ position \in Nat
  /\ capacity \in Word
  /\ image \in ExecutableImage
  /\ result \in {CF!Pending, CF!Threw}
              \cup [status : {"image"}, image : ExecutableImage]

\* take() never moves a reader past its bytes, whatever lengths the container
\* declares: first the container's bytes, then the inflated ones.
ReaderInBounds ==
  /\ pc \in InHeader => position <= container.size
  /\ pc \in InBody => position <= body.length

\* inflate_body never allocates more than the supported maximum and the one
\* extra byte, and the extra byte never wraps the buffer's size around.
AllocationBounded ==
  /\ capacity <= maximum_core_size + 1
  /\ pc = "inflate" \/ pc \in InBody => capacity = container.expected + 1

\* Where the body's reader stands when it comes to each field.
AfterAuthentication ==
  (HalfWordBytes + body.authentication[1]) + (HalfWordBytes + body.authentication[2])
AfterRecord(i) ==
  AfterAuthentication + 2 * WordBytes
    + (2 * WordBytes + body.records[1].size)
    + (IF i > 1 THEN 2 * WordBytes + body.records[2].size ELSE 0)
    + (IF i > 2 THEN 2 * WordBytes + body.records[3].size ELSE 0)

\* The inductive invariant: what has been checked, where the reader stands and
\* what the image holds when each field is read, and the outcome at the end.
ReadSoFar ==
  /\ capacity <= maximum_core_size + 1
  /\ pc \notin {"core size", "done"} => container.size <= maximum_core_size
  /\ pc \in {"expected size", "inflate"} \cup InBody =>
       container.flags = "0x0101" /\ HalfWordBytes <= container.size
  /\ pc \in {"inflate"} \cup InBody =>
       /\ 0 < container.expected /\ container.expected <= maximum_core_size
       /\ CF!HeaderBytes <= container.size /\ capacity = container.expected + 1
  /\ pc \in InBody =>
       /\ container.stream.ends
       /\ container.stream.used = container.size - CF!HeaderBytes
       /\ body.length = container.expected /\ position <= body.length
  /\ pc \in {"entry", "reginfo", "text", "data", "end"} => body.count = 3
  /\ pc \in {"core size", "flags", "authentication 1"} => position = 0
  /\ pc = "expected size" => position = HalfWordBytes
  /\ pc = "inflate" => position = CF!HeaderBytes
  /\ pc = "authentication 2" => position = HalfWordBytes + body.authentication[1]
  /\ pc = "record count" => position = AfterAuthentication
  /\ pc = "entry" => position = AfterAuthentication + WordBytes
  /\ pc = "reginfo" => position = AfterAuthentication + 2 * WordBytes
  /\ pc = "text" => position = AfterRecord(1)
  /\ pc = "data" => position = AfterRecord(2)
  /\ pc = "end" => position = AfterRecord(3)
  /\ pc \in {"reginfo", "text", "data", "end"} => image.entry = body.entry
  /\ pc \in {"text", "data", "end"} => image.reginfo = body.records[1]
  /\ pc \in {"data", "end"} => image.text = body.records[2]
  /\ pc = "end" => image.data = body.records[3]
  /\ pc # "done" => result = CF!Pending
  /\ pc = "done" => result = IF CF!WellFormed(container)
                               THEN [status |-> "image", image |-> CF!ImageOf(body)]
                               ELSE CF!Threw

\* The guest addresses of a record's bytes.
BytesOf(record) == record.address .. record.address + record.size - 1

\* A returned image can be put into guest memory as it is: text and data lie in
\* RAM and share no byte, and a whole aligned instruction of the text is at the
\* entry.  (The reginfo record may overlap text; it is not loaded.)
ReturnedImageFits ==
  result.status = "image" =>
    LET text == BytesOf(result.image.text)
        data == BytesOf(result.image.data)
        entry == result.image.entry IN
    /\ text \cup data \subseteq 0 .. ee_memory_size - 1
    /\ text \cap data = {} /\ data # {}
    /\ entry .. entry + InstructionSize - 1 \subseteq text
    /\ entry % InstructionSize = 0

\* Whole function: it returns the image of the container when the container is
\* well formed - its fields tile the inflated body exactly, three records, the
\* declared sizes right - and throws on every other container.
ImplementsCoreFormat == CF!Spec
=============================================================================
