-------------------------- MODULE CoreReaderProofs --------------------------
(***************************************************************************)
(* Proofs about CoreReader for every size of RAM, fields and CORE, and for *)
(* every set of containers.                                                *)
(***************************************************************************)
EXTENDS CoreAgreement, TLAPS

\* The parts of a container have their types.
LEMMA ContainerFields ==
  ASSUME container \in CF!Container
  PROVE  /\ container.size \in Nat /\ container.expected \in Word
         /\ container.expected \in Nat
         /\ container.stream.ends \in BOOLEAN /\ container.stream.used \in Nat
         /\ body.length \in Nat /\ body.count \in Word /\ body.entry \in Word
         /\ body.authentication[1] \in Nat /\ body.authentication[2] \in Nat
         /\ \A i \in 1 .. 3 : body.records[i] \in ImageRecord
         /\ \A i \in 1 .. 3 : body.records[i].size \in Nat
<1>1. /\ container.size \in Nat /\ container.expected \in Word
      /\ container.stream \in CF!Stream
  BY DEF CF!Container, CF!Word, Word
<1>2. container.expected \in Nat
  BY <1>1, GuestAssumption DEF Word
<1>3. /\ container.stream.ends \in BOOLEAN /\ container.stream.used \in Nat
      /\ body \in CF!Body
  BY <1>1 DEF CF!Stream, body
<1>4. /\ body.length \in Nat /\ body.count \in Word /\ body.entry \in Word
      /\ body.authentication \in [1 .. 2 -> Nat]
      /\ body.records \in [1 .. 3 -> ImageRecord]
  BY <1>3 DEF CF!Body, CF!Word, Word, CF!ImageRecord, ImageRecord
<1>5. body.authentication[1] \in Nat /\ body.authentication[2] \in Nat
  BY <1>4
<1>6. \A i \in 1 .. 3 : body.records[i] \in ImageRecord
  BY <1>4
<1>7. \A i \in 1 .. 3 : body.records[i].size \in Nat
  BY <1>6 DEF ImageRecord
<1>. QED BY <1>1, <1>2, <1>3, <1>4, <1>5, <1>6, <1>7

\* Where the reader stands after each field, as numbers.
LEMMA Positions ==
  ASSUME container \in CF!Container
  PROVE  /\ HalfWordBytes \in Nat /\ WordBytes \in Nat
         /\ CF!HeaderBytes \in Nat /\ CF!HeaderBytes = HalfWordBytes + WordBytes
         /\ AfterAuthentication \in Nat
         /\ AfterAuthentication = (HalfWordBytes + body.authentication[1])
                                   + (HalfWordBytes + body.authentication[2])
         /\ AfterRecord(1) \in Nat /\ AfterRecord(2) \in Nat /\ AfterRecord(3) \in Nat
         /\ AfterRecord(1) = (AfterAuthentication + 2 * WordBytes)
                               + (2 * WordBytes + body.records[1].size)
         /\ AfterRecord(2) = AfterRecord(1) + (2 * WordBytes + body.records[2].size)
         /\ AfterRecord(3) = AfterRecord(2) + (2 * WordBytes + body.records[3].size)
         /\ CF!Tiles(body) <=> body.length = AfterRecord(3)
<1>1. /\ HalfWordBytes \in Nat /\ WordBytes \in Nat
      /\ CF!HeaderBytes = HalfWordBytes + WordBytes
  BY CoreAssumption DEF CF!HeaderBytes
<1>2. /\ body.authentication[1] \in Nat /\ body.authentication[2] \in Nat
      /\ body.records[1].size \in Nat /\ body.records[2].size \in Nat
      /\ body.records[3].size \in Nat
  BY ContainerFields
<1>3. AfterAuthentication \in Nat
  BY <1>1, <1>2 DEF AfterAuthentication
<1>4. /\ AfterRecord(1) = (AfterAuthentication + 2 * WordBytes)
                            + (2 * WordBytes + body.records[1].size)
      /\ AfterRecord(2) = AfterRecord(1) + (2 * WordBytes + body.records[2].size)
      /\ AfterRecord(3) = AfterRecord(2) + (2 * WordBytes + body.records[3].size)
      /\ AfterRecord(1) \in Nat /\ AfterRecord(2) \in Nat /\ AfterRecord(3) \in Nat
  BY <1>1, <1>2, <1>3 DEF AfterRecord
<1>5. CF!Tiles(body) <=> body.length = AfterRecord(3)
  BY <1>1, <1>2 DEF CF!Tiles, AfterRecord, AfterAuthentication
<1>. QED BY <1>1, <1>3, <1>4, <1>5 DEF AfterAuthentication

\* The image the reader builds is validated like the specification's.
LEMMA SameValidation ==
  ASSUME NEW im
  PROVE  validate_image(im) <=> CF!validate_image(im)
BY DEF validate_image, validate_record, record_end,
       CF!validate_image, CF!validate_record, CF!record_end

-----------------------------------------------------------------------------
IInv == TypeOK /\ ReadSoFar

LEMMA InitInv == Init => IInv
<1> SUFFICES ASSUME Init PROVE TypeOK /\ ReadSoFar
  BY DEF IInv
<1>1. TypeOK
  <2>1. EmptyImage \in ExecutableImage
    BY GuestAssumption, CoreAssumption
       DEF EmptyImage, EmptyRecord, ExecutableImage, ImageRecord, Word
  <2>2. 0 \in Word
    BY CoreAssumption, GuestAssumption DEF Word
  <2>. QED BY <2>1, <2>2, CoreAssumption DEF Init, TypeOK, InHeader
<1>2. ReadSoFar
  <2>1. 0 <= maximum_core_size + 1
    BY CoreAssumption
  <2>. QED BY <2>1 DEF Init, ReadSoFar, InBody
<1>. QED BY <1>1, <1>2

\* Throwing is right when the container is not well formed.
LEMMA ThrowInv ==
  ASSUME TypeOK, ReadSoFar, Throw, ~CF!WellFormed(container)
  PROVE  TypeOK' /\ ReadSoFar'
<1>1. /\ result' = CF!Threw /\ pc' = "done" /\ container' = container
      /\ position' = position /\ capacity' = capacity /\ image' = image
  BY DEF Throw
<1>2. TypeOK'
  BY <1>1 DEF TypeOK
<1>3. ReadSoFar'
  <2>1. ~CF!WellFormed(container)'
    BY <1>1 DEF CF!WellFormed
  <2>2. capacity' <= maximum_core_size + 1
    BY <1>1 DEF ReadSoFar
  <2>. QED BY <1>1, <2>1, <2>2 DEF ReadSoFar, InBody
<1>. QED BY <1>2, <1>3

\* The subtraction of take() asks whether the field ends inside the bytes.
LEMMA FitsIff ==
  ASSUME NEW count \in Nat, NEW at \in Nat, NEW size \in Nat
  PROVE  Fits(count, at, size) <=> at + count <= size
BY DEF Fits

\* A record of the body has been read or does not fit.
LEMMA RecordStep ==
  ASSUME TypeOK, ReadSoFar, NEW i \in 1 .. 3,
         NEW name \in {"reginfo", "text", "data"},
         NEW next \in {"text", "data", "end"}, read_record(i, name, next)
  PROVE  \/ /\ position + (2 * WordBytes + body.records[i].size) <= body.length
            /\ position' = position + (2 * WordBytes + body.records[i].size)
            /\ position' \in Nat /\ pc' = next
            /\ image' = [image EXCEPT ![name] = body.records[i]]
            /\ image' \in ExecutableImage
            /\ UNCHANGED <<container, capacity, result>>
         \/ /\ body.length < position + (2 * WordBytes + body.records[i].size)
            /\ Throw
<1>1. /\ body.length \in Nat /\ body.records[i] \in ImageRecord
      /\ body.records[i].size \in Nat /\ position \in Nat /\ image \in ExecutableImage
  BY ContainerFields DEF TypeOK
<1>2. WordBytes \in Nat
  BY CoreAssumption
<1>3. CASE position + (2 * WordBytes + body.records[i].size) <= body.length
  <2>1. /\ Fits(WordBytes, position, body.length)
        /\ Fits(WordBytes, position + WordBytes, body.length)
        /\ Fits(body.records[i].size, position + 2 * WordBytes, body.length)
    BY <1>1, <1>2, <1>3 DEF Fits
  <2>2. /\ position' = position + 2 * WordBytes + body.records[i].size /\ pc' = next
        /\ image' = [image EXCEPT ![name] = body.records[i]]
        /\ UNCHANGED <<container, capacity, result>>
    BY <2>1 DEF read_record
  <2>3. [image EXCEPT ![name] = body.records[i]] \in ExecutableImage
    <3>. HIDE DEF body
    <3>. QED BY <1>1 DEF ExecutableImage
  <2>4. position' = position + (2 * WordBytes + body.records[i].size) /\ position' \in Nat
    BY <1>1, <1>2, <2>2
  <2>. QED BY <1>3, <2>2, <2>3, <2>4
<1>4. CASE body.length < position + (2 * WordBytes + body.records[i].size)
  <2>1. ~(/\ Fits(WordBytes, position, body.length)
          /\ Fits(WordBytes, position + WordBytes, body.length)
          /\ Fits(body.records[i].size, position + 2 * WordBytes, body.length))
    BY <1>1, <1>2, <1>4 DEF Fits
  <2>2. Throw
    BY <2>1 DEF read_record
  <2>. QED BY <1>4, <2>2
<1>. QED BY <1>1, <1>2, <1>3, <1>4

\* Nothing about the container changes while it is read.
LEMMA SameContainer ==
  ASSUME container' = container
  PROVE  /\ body' = body
         /\ AfterAuthentication' = AfterAuthentication
         /\ AfterRecord(1)' = AfterRecord(1)
         /\ AfterRecord(2)' = AfterRecord(2)
         /\ AfterRecord(3)' = AfterRecord(3)
BY DEF body, AfterAuthentication, AfterRecord

\* What holds whenever the body is read.
BodyKnown ==
  /\ container.size <= maximum_core_size
  /\ container.flags = "0x0101" /\ HalfWordBytes <= container.size
  /\ 0 < container.expected /\ container.expected <= maximum_core_size
  /\ CF!HeaderBytes <= container.size /\ capacity = container.expected + 1
  /\ container.stream.ends
  /\ container.stream.used = container.size - CF!HeaderBytes
  /\ body.length = container.expected
  /\ capacity <= maximum_core_size + 1
  /\ result = CF!Pending

LEMMA InvBodyKnown ==
  ASSUME ReadSoFar, pc \in InBody
  PROVE  BodyKnown
BY DEF ReadSoFar, BodyKnown, InBody

\* A body that does not end where its last record does, or ends before that,
\* is not tiled by its fields.
LEMMA TooShort ==
  ASSUME container \in CF!Container, NEW needed \in Nat,
         body.length < needed, needed <= AfterRecord(3)
  PROVE  ~CF!WellFormed(container)
<1>1. ~CF!Tiles(body)
  BY Positions, ContainerFields
<1>. QED BY <1>1 DEF CF!WellFormed, body

\* One step through the body that reads up to `after' and goes on.
LEMMA BodyStep ==
  ASSUME TypeOK, ReadSoFar, pc \in InBody,
         NEW next \in InBody,
         position' \in Nat, position' <= body.length, pc' = next,
         image' \in ExecutableImage, UNCHANGED <<container, capacity, result>>,
         next \in {"entry", "reginfo", "text", "data", "end"} => body.count = 3,
         next = "authentication 1" => position' = 0,
         next = "authentication 2" => position' = HalfWordBytes + body.authentication[1],
         next = "record count" => position' = AfterAuthentication,
         next = "entry" => position' = AfterAuthentication + WordBytes,
         next = "reginfo" => position' = AfterAuthentication + 2 * WordBytes,
         next = "text" => position' = AfterRecord(1),
         next = "data" => position' = AfterRecord(2),
         next = "end" => position' = AfterRecord(3),
         next \in {"reginfo", "text", "data", "end"} => image'.entry = body.entry,
         next \in {"text", "data", "end"} => image'.reginfo = body.records[1],
         next \in {"data", "end"} => image'.text = body.records[2],
         next = "end" => image'.data = body.records[3]
  PROVE  TypeOK' /\ ReadSoFar'
<1>1. BodyKnown
  BY InvBodyKnown
<1>2. /\ body' = body /\ AfterAuthentication' = AfterAuthentication
      /\ AfterRecord(1)' = AfterRecord(1) /\ AfterRecord(2)' = AfterRecord(2)
      /\ AfterRecord(3)' = AfterRecord(3)
  BY SameContainer
<1>3. TypeOK'
  BY DEF TypeOK
<1>4. BodyKnown'
  BY <1>1, <1>2 DEF BodyKnown
<1>5. pc' \notin {"core size", "done", "flags", "expected size", "inflate"}
  BY DEF InBody
<1>. HIDE DEF body
<1>6. ReadSoFar'
  BY <1>2, <1>4, <1>5 DEF ReadSoFar, BodyKnown
<1>. QED BY <1>3, <1>6

LEMMA StepInv == IInv /\ [Next]_vars => IInv'
<1> SUFFICES ASSUME TypeOK, ReadSoFar, [Next]_vars
             PROVE  TypeOK' /\ ReadSoFar'
  BY DEF IInv
<1>c. container \in CF!Container /\ image \in ExecutableImage
  BY DEF TypeOK
<1>t. /\ container.size \in Nat /\ position \in Nat
      /\ container.expected \in Nat /\ body.length \in Nat
      /\ body.authentication[1] \in Nat /\ body.authentication[2] \in Nat
      /\ body.records[1].size \in Nat /\ body.records[2].size \in Nat
      /\ body.records[3].size \in Nat
  BY <1>c, ContainerFields DEF TypeOK
<1>n. /\ HalfWordBytes \in Nat /\ WordBytes \in Nat /\ maximum_core_size \in Nat
      /\ WordSize \in Nat /\ maximum_core_size + 1 < WordSize
      /\ CF!HeaderBytes = HalfWordBytes + WordBytes
  BY CoreAssumption, GuestAssumption DEF CF!HeaderBytes
<1>1. CASE CheckCoreSize
  <2>1. CASE container.size > maximum_core_size
    <3>1. Throw
      BY <1>1, <2>1 DEF CheckCoreSize
    <3>2. ~CF!WellFormed(container)
      BY <1>t, <1>n, <2>1 DEF CF!WellFormed
    <3>. QED BY <3>1, <3>2, ThrowInv
  <2>2. CASE ~(container.size > maximum_core_size)
    <3>1. /\ pc = "core size" /\ pc' = "flags"
          /\ UNCHANGED <<container, position, capacity, image, result>>
      BY <1>1, <2>2 DEF CheckCoreSize
    <3>2. /\ position = 0 /\ result = CF!Pending /\ capacity <= maximum_core_size + 1
      BY <3>1 DEF ReadSoFar
    <3>3. container.size <= maximum_core_size
      BY <1>t, <1>n, <2>2
    <3>4. TypeOK'
      BY <3>1 DEF TypeOK, InHeader
    <3>5. ReadSoFar'
      BY ONLY <3>1, <3>2, <3>3 DEF ReadSoFar, InBody
    <3>. QED BY <3>4, <3>5
  <2>. QED BY <2>1, <2>2
<1>2. CASE ReadFlags
  <2>1. /\ pc = "flags" /\ position = 0 /\ result = CF!Pending
        /\ container.size <= maximum_core_size /\ capacity <= maximum_core_size + 1
    BY <1>2 DEF ReadFlags, ReadSoFar
  <2>2. Fits(HalfWordBytes, position, container.size) <=> HalfWordBytes <= container.size
    <3>1. position = 0
      BY <2>1
    <3>. QED BY ONLY <1>t, <1>n, <3>1, FitsIff
  <2>3. CASE HalfWordBytes <= container.size /\ container.flags = "0x0101"
    <3>1. /\ position' = position + HalfWordBytes /\ pc' = "expected size"
          /\ UNCHANGED <<container, capacity, image, result>>
      BY <1>2, <2>2, <2>3 DEF ReadFlags
    <3>2. position' = HalfWordBytes /\ position' \in Nat
      <4>1. position = 0 /\ position' = position + HalfWordBytes
        BY <2>1, <3>1
      <4>. QED BY ONLY <1>n, <4>1
    <3>3. TypeOK'
      BY <3>1, <3>2 DEF TypeOK, InHeader
    <3>4. ReadSoFar'
      BY ONLY <2>1, <2>3, <3>1, <3>2 DEF ReadSoFar, InBody
    <3>. QED BY <3>3, <3>4
  <2>4. CASE ~(HalfWordBytes <= container.size /\ container.flags = "0x0101")
    <3>1. Throw
      BY <1>2, <2>2, <2>4 DEF ReadFlags
    <3>2. CF!HeaderBytes <= container.size => HalfWordBytes <= container.size
      BY <1>t, <1>n
    <3>3. ~CF!WellFormed(container)
      BY <2>4, <3>2 DEF CF!WellFormed
    <3>. QED BY <3>1, <3>3, ThrowInv
  <2>. QED BY <2>3, <2>4
<1>3. CASE ReadExpectedSize
  <2>1. /\ pc = "expected size" /\ position = HalfWordBytes /\ result = CF!Pending
        /\ container.size <= maximum_core_size /\ capacity <= maximum_core_size + 1
        /\ container.flags = "0x0101" /\ HalfWordBytes <= container.size
    BY <1>3 DEF ReadExpectedSize, AcceptsSize, ReadSoFar
  <2>2. Fits(WordBytes, position, container.size) <=> CF!HeaderBytes <= container.size
    <3>1. position = HalfWordBytes
      BY <2>1
    <3>. QED BY ONLY <1>t, <1>n, <3>1, FitsIff
  <2>3. ~(container.expected = 0 \/ container.expected > maximum_core_size)
          <=> 0 < container.expected /\ container.expected <= maximum_core_size
    BY <1>t, <1>n
  <2>4. CASE /\ CF!HeaderBytes <= container.size
             /\ 0 < container.expected /\ container.expected <= maximum_core_size
    <3>1. /\ position' = position + WordBytes /\ pc' = "inflate"
          /\ capacity' = U32(container.expected + 1)
          /\ UNCHANGED <<container, image, result>>
      BY <1>3, <2>2, <2>3, <2>4 DEF ReadExpectedSize, AcceptsSize
    <3>2. position' = CF!HeaderBytes /\ position' \in Nat
      <4>1. position = HalfWordBytes /\ position' = position + WordBytes
        BY <2>1, <3>1
      <4>. QED BY ONLY <1>n, <4>1
    <3>3. /\ container.expected + 1 \in Nat /\ container.expected + 1 < WordSize
          /\ container.expected + 1 <= maximum_core_size + 1
      BY <1>t, <1>n, <2>4
    <3>4. capacity' = container.expected + 1
      BY <3>1, <3>3, GuestAssumption DEF U32
    <3>5. capacity' \in Word
      BY <1>n, <3>3, <3>4 DEF Word
    <3>6. TypeOK'
      BY <3>1, <3>2, <3>5 DEF TypeOK, InHeader
    <3>7. ReadSoFar'
      BY ONLY <2>1, <2>4, <3>1, <3>2, <3>3, <3>4 DEF ReadSoFar, InBody, CF!HeaderBytes
    <3>. QED BY <3>6, <3>7
  <2>5. CASE ~(/\ CF!HeaderBytes <= container.size
               /\ 0 < container.expected /\ container.expected <= maximum_core_size)
    <3>1. Throw
      BY <1>3, <2>2, <2>3, <2>5 DEF ReadExpectedSize, AcceptsSize
    <3>2. ~CF!WellFormed(container)
      BY <2>5 DEF CF!WellFormed
    <3>. QED BY <3>1, <3>2, ThrowInv
  <2>. QED BY <2>4, <2>5
<1>4. CASE Inflate
  <2>1. /\ pc = "inflate" /\ position = CF!HeaderBytes /\ result = CF!Pending
        /\ container.size <= maximum_core_size /\ capacity <= maximum_core_size + 1
        /\ container.flags = "0x0101" /\ HalfWordBytes <= container.size
        /\ CF!HeaderBytes <= container.size /\ capacity = container.expected + 1
        /\ 0 < container.expected /\ container.expected <= maximum_core_size
    BY <1>4 DEF Inflate, ReadSoFar
  <2>2. CASE /\ container.stream.ends /\ body.length <= capacity
             /\ container.stream.used = container.size - position
             /\ body.length = container.expected
    <3>1. /\ position' = 0 /\ pc' = "authentication 1"
          /\ UNCHANGED <<container, capacity, image, result>>
      BY <1>4, <2>2 DEF Inflate
    <3>2. TypeOK'
      BY <3>1 DEF TypeOK, InBody
    <3>3. body' = body /\ 0 <= body.length
      <4>1. body' = body
        BY <3>1, SameContainer
      <4>2. 0 <= body.length
        BY ONLY <1>t
      <4>. QED BY <4>1, <4>2
    <3>4. position' <= body'.length
      BY <3>1, <3>3
    <3>5. ReadSoFar'
      BY ONLY <2>1, <2>2, <3>1, <3>3, <3>4 DEF ReadSoFar, InBody, CF!HeaderBytes
    <3>. QED BY <3>2, <3>5
  <2>3. CASE ~(/\ container.stream.ends /\ body.length <= capacity
               /\ container.stream.used = container.size - position
               /\ body.length = container.expected)
    <3>1. Throw
      BY <1>4, <2>3 DEF Inflate
    <3>2. body.length = container.expected => body.length <= capacity
      BY <1>t, <2>1
    <3>3. ~CF!WellFormed(container)
      BY <2>1, <2>3, <3>2 DEF CF!WellFormed, body
    <3>. QED BY <3>1, <3>3, ThrowInv
  <2>. QED BY <2>2, <2>3
<1>5. ASSUME NEW i \in 1 .. 2, NEW before \in Nat, NEW next \in InBody,
             pc \in InBody, position = before,
             ReadAuthentication(i, pc, next),
             before + (HalfWordBytes + body.authentication[i]) <= AfterAuthentication,
             \/ /\ next = "authentication 2" /\ before + (HalfWordBytes + body.authentication[i])
                     = HalfWordBytes + body.authentication[1]
             \/ /\ next = "record count" /\ before + (HalfWordBytes + body.authentication[i])
                     = AfterAuthentication
      PROVE  TypeOK' /\ ReadSoFar'
  <2> DEFINE size == body.authentication[i]
  <2>1. size \in Nat
    BY <1>t
  <2>2. AfterAuthentication \in Nat /\ AfterAuthentication <= AfterRecord(3)
        /\ AfterRecord(3) \in Nat
    BY <1>c, <1>t, <1>n, Positions
  <2>. HIDE DEF size
  <2>p. position = before /\ before \in Nat
    BY <1>5
  <2>f. /\ Fits(HalfWordBytes, position, body.length)
             <=> before + HalfWordBytes <= body.length
        /\ Fits(size, position + HalfWordBytes, body.length)
             <=> before + (HalfWordBytes + size) <= body.length
    <3>1. before + HalfWordBytes \in Nat
          /\ before + HalfWordBytes + size = before + (HalfWordBytes + size)
      BY ONLY <1>n, <2>p, <2>1
    <3>. QED BY ONLY <1>t, <1>n, <2>p, <2>1, <3>1, FitsIff
  <2>g. /\ before + (HalfWordBytes + size) \in Nat
        /\ before + HalfWordBytes <= before + (HalfWordBytes + size)
        /\ before + HalfWordBytes \in Nat
    BY ONLY <1>n, <2>p, <2>1
  <2>3. CASE before + (HalfWordBytes + size) <= body.length
    <3>0. before + HalfWordBytes <= body.length
      BY ONLY <1>t, <2>g, <2>3
    <3>1. /\ Fits(HalfWordBytes, position, body.length)
          /\ Fits(size, position + HalfWordBytes, body.length)
      BY <2>f, <2>3, <3>0
    <3>2. /\ position' = position + HalfWordBytes + size /\ pc' = next
          /\ UNCHANGED <<container, capacity, image, result>>
      BY <1>5, <3>1 DEF ReadAuthentication, size
    <3>3. /\ position' = before + (HalfWordBytes + size)
          /\ position' \in Nat /\ position' <= body.length
      <4>1. position' = position + HalfWordBytes + size
        BY <3>2
      <4>. QED BY ONLY <1>n, <2>p, <2>1, <2>3, <4>1
    <3>4. /\ next = "authentication 2" => position' = HalfWordBytes + body.authentication[1]
          /\ next = "record count" => position' = AfterAuthentication
          /\ next \in {"authentication 2", "record count"} /\ next \in InBody
          /\ pc \in InBody
      BY <1>5, <3>3 DEF size
    <3>. QED BY ONLY TypeOK, ReadSoFar, <1>c, <3>2, <3>3, <3>4, BodyStep
  <2>4. CASE body.length < before + (HalfWordBytes + size)
    <3>0. ~(before + (HalfWordBytes + size) <= body.length)
      BY ONLY <1>t, <2>g, <2>4
    <3>1. ~Fits(size, position + HalfWordBytes, body.length)
      BY <2>f, <3>0
    <3>2. Throw
      BY <1>5, <3>1 DEF ReadAuthentication, size
    <3>3. before + (HalfWordBytes + size) <= AfterAuthentication
      BY <1>5 DEF size
    <3>4. before + (HalfWordBytes + size) <= AfterRecord(3)
      BY ONLY <2>g, <2>2, <3>3
    <3>5. ~CF!WellFormed(container)
      BY ONLY <1>c, <2>g, <2>4, <3>4, TooShort
    <3>. QED BY <3>2, <3>5, ThrowInv
  <2>. QED BY <1>t, <2>3, <2>4, <2>g
<1>6. CASE ReadAuthentication(1, "authentication 1", "authentication 2")
  <2>1. pc = "authentication 1" /\ position = 0
    BY <1>6 DEF ReadAuthentication, ReadSoFar
  <2>2. 0 + (HalfWordBytes + body.authentication[1]) <= AfterAuthentication
        /\ 0 + (HalfWordBytes + body.authentication[1])
             = HalfWordBytes + body.authentication[1]
    BY <1>c, <1>t, <1>n, Positions
  <2>3. /\ 1 \in 1 .. 2 /\ 0 \in Nat /\ "authentication 2" \in InBody
        /\ "authentication 1" \in InBody
    BY DEF InBody
  <2>. QED BY ONLY <1>5, <1>6, <2>1, <2>2, <2>3
<1>7. CASE ReadAuthentication(2, "authentication 2", "record count")
  <2>1. pc = "authentication 2" /\ position = HalfWordBytes + body.authentication[1]
    BY <1>7 DEF ReadAuthentication, ReadSoFar
  <2>2. /\ (HalfWordBytes + body.authentication[1])
             + (HalfWordBytes + body.authentication[2]) <= AfterAuthentication
        /\ (HalfWordBytes + body.authentication[1])
             + (HalfWordBytes + body.authentication[2]) = AfterAuthentication
        /\ HalfWordBytes + body.authentication[1] \in Nat
    BY <1>c, <1>t, <1>n, Positions
  <2>3. /\ 2 \in 1 .. 2 /\ "authentication 2" \in InBody
        /\ "record count" \in InBody
    BY DEF InBody
  <2>. QED BY ONLY <1>5, <1>7, <2>1, <2>2, <2>3
<1>8. CASE ReadRecordCount
  <2>1. pc = "record count" /\ position = AfterAuthentication
    BY <1>8 DEF ReadRecordCount, AcceptsCount, ReadSoFar
  <2>2. AfterAuthentication \in Nat /\ AfterRecord(3) \in Nat
        /\ AfterAuthentication + WordBytes <= AfterRecord(3)
    BY <1>c, <1>t, <1>n, Positions
  <2>p. position = AfterAuthentication
    BY <2>1
  <2>f. Fits(WordBytes, position, body.length)
          <=> AfterAuthentication + WordBytes <= body.length
    BY ONLY <1>t, <1>n, <2>p, <2>2, FitsIff
  <2>3. CASE AfterAuthentication + WordBytes <= body.length /\ body.count = 3
    <3>1. Fits(WordBytes, position, body.length)
      BY <2>f, <2>3
    <3>2. /\ position' = position + WordBytes /\ pc' = "entry"
          /\ UNCHANGED <<container, capacity, image, result>>
      BY <1>8, <2>3, <3>1 DEF ReadRecordCount, AcceptsCount
    <3>3. position' \in Nat /\ position' = AfterAuthentication + WordBytes
          /\ position' <= body.length
      <4>1. position' = position + WordBytes
            /\ AfterAuthentication + WordBytes <= body.length
        BY <2>3, <3>2
      <4>. QED BY ONLY <1>n, <2>p, <2>2, <4>1
    <3>4. pc \in InBody /\ "entry" \in InBody
      BY <2>1 DEF InBody
    <3>5. image' \in ExecutableImage
      BY <1>c, <3>2
    <3>. QED BY ONLY TypeOK, ReadSoFar, <2>3, <3>2, <3>3, <3>4, <3>5, BodyStep
  <2>4. CASE body.length < AfterAuthentication + WordBytes
    <3>0. ~(AfterAuthentication + WordBytes <= body.length)
      BY ONLY <1>t, <1>n, <2>2, <2>4
    <3>1. ~Fits(WordBytes, position, body.length)
      BY <2>f, <3>0
    <3>2. Throw
      BY <1>8, <3>1 DEF ReadRecordCount, AcceptsCount
    <3>3. ~CF!WellFormed(container)
      BY <1>c, <1>t, <1>n, <2>2, <2>4, TooShort
    <3>. QED BY <3>2, <3>3, ThrowInv
  <2>5. CASE body.count # 3
    <3>1. Throw
      BY <1>8, <2>5 DEF ReadRecordCount, AcceptsCount
    <3>2. ~CF!WellFormed(container)
      BY <2>5 DEF CF!WellFormed, body
    <3>. QED BY <3>1, <3>2, ThrowInv
  <2>. QED BY <1>t, <1>n, <2>2, <2>3, <2>4, <2>5
<1>9. CASE ReadEntry
  <2>1. pc = "entry" /\ position = AfterAuthentication + WordBytes /\ body.count = 3
    BY <1>9 DEF ReadEntry, ReadSoFar
  <2>2. AfterAuthentication \in Nat /\ AfterRecord(3) \in Nat
        /\ AfterAuthentication + 2 * WordBytes <= AfterRecord(3)
    BY <1>c, <1>t, <1>n, Positions
  <2>p. position = AfterAuthentication + WordBytes
    BY <2>1
  <2>f. Fits(WordBytes, position, body.length)
          <=> AfterAuthentication + 2 * WordBytes <= body.length
    <3>1. AfterAuthentication + WordBytes \in Nat
          /\ AfterAuthentication + WordBytes + WordBytes
               = AfterAuthentication + 2 * WordBytes
      BY ONLY <1>n, <2>2
    <3>. QED BY ONLY <1>t, <1>n, <2>p, <3>1, FitsIff
  <2>3. CASE AfterAuthentication + 2 * WordBytes <= body.length
    <3>1. Fits(WordBytes, position, body.length)
      BY <2>f, <2>3
    <3>2. /\ position' = position + WordBytes /\ pc' = "reginfo"
          /\ image' = [image EXCEPT !.entry = body.entry]
          /\ UNCHANGED <<container, capacity, result>>
      BY <1>9, <3>1 DEF ReadEntry
    <3>3. position' \in Nat /\ position' = AfterAuthentication + 2 * WordBytes
          /\ position' <= body.length
      <4>1. position' = position + WordBytes
        BY <3>2
      <4>. QED BY ONLY <1>n, <2>p, <2>2, <2>3, <4>1
    <3>4. image' \in ExecutableImage /\ image'.entry = body.entry
      <4>1. body.entry \in Word
        BY <1>c, ContainerFields
      <4>. HIDE DEF body
      <4>. QED BY <1>c, <3>2, <4>1 DEF ExecutableImage
    <3>5. pc \in InBody /\ "reginfo" \in InBody
      BY <2>1 DEF InBody
    <3>. QED BY ONLY TypeOK, ReadSoFar, <2>1, <3>2, <3>3, <3>4, <3>5, BodyStep
  <2>4. CASE body.length < AfterAuthentication + 2 * WordBytes
    <3>0. ~(AfterAuthentication + 2 * WordBytes <= body.length)
      BY ONLY <1>t, <1>n, <2>2, <2>4
    <3>1. ~Fits(WordBytes, position, body.length)
      BY <2>f, <3>0
    <3>2. Throw
      BY <1>9, <3>1 DEF ReadEntry
    <3>3. ~CF!WellFormed(container)
      BY <1>c, <1>t, <1>n, <2>2, <2>4, TooShort
    <3>. QED BY <3>2, <3>3, ThrowInv
  <2>. QED BY <1>t, <1>n, <2>2, <2>3, <2>4
<1>10. CASE read_record(1, "reginfo", "text")
  <2>1. /\ pc = "reginfo" /\ position = AfterAuthentication + 2 * WordBytes /\ body.count = 3
        /\ image.entry = body.entry
    BY <1>10 DEF read_record, ReadSoFar
  <2>2. /\ position + (2 * WordBytes + body.records[1].size) = AfterRecord(1)
        /\ AfterRecord(1) <= AfterRecord(3) /\ AfterRecord(1) \in Nat
    <3>1. position = AfterAuthentication + 2 * WordBytes
      BY <2>1
    <3>. QED BY <1>c, <1>t, <1>n, <3>1, Positions
  <2>3. CASE /\ position + (2 * WordBytes + body.records[1].size) <= body.length
             /\ position' = position + (2 * WordBytes + body.records[1].size)
             /\ position' \in Nat /\ pc' = "text"
             /\ image' = [image EXCEPT !["reginfo"] = body.records[1]]
             /\ image' \in ExecutableImage
             /\ UNCHANGED <<container, capacity, result>>
    <3>1. position' = AfterRecord(1) /\ position' <= body.length
      BY <2>2, <2>3
    <3>2. /\ image'.reginfo = body.records[1]
          /\ image'.entry = body.entry
      <4>. HIDE DEF body
      <4>. QED BY <1>c, <2>1, <2>3 DEF ExecutableImage
    <3>3. pc \in InBody /\ "text" \in InBody
      BY <2>1 DEF InBody
    <3>. QED BY ONLY TypeOK, ReadSoFar, <2>1, <2>3, <3>1, <3>2, <3>3, BodyStep
  <2>4. CASE /\ body.length < position + (2 * WordBytes + body.records[1].size)
             /\ Throw
    <3>1. body.length < AfterRecord(1)
      BY <2>2, <2>4
    <3>2. ~CF!WellFormed(container)
      BY ONLY <1>c, <2>2, <3>1, TooShort
    <3>. QED BY <2>4, <3>2, ThrowInv
  <2>5. 1 \in 1 .. 3
    OBVIOUS
  <2>. QED BY ONLY TypeOK, ReadSoFar, <1>10, <2>3, <2>4, <2>5, RecordStep
<1>11. CASE read_record(2, "text", "data")
  <2>1. /\ pc = "text" /\ position = AfterRecord(1) /\ body.count = 3
        /\ image.entry = body.entry
        /\ image.reginfo = body.records[1]
    BY <1>11 DEF read_record, ReadSoFar
  <2>2. /\ position + (2 * WordBytes + body.records[2].size) = AfterRecord(2)
        /\ AfterRecord(2) <= AfterRecord(3) /\ AfterRecord(2) \in Nat
    <3>1. position = AfterRecord(1)
      BY <2>1
    <3>. QED BY <1>c, <1>t, <1>n, <3>1, Positions
  <2>3. CASE /\ position + (2 * WordBytes + body.records[2].size) <= body.length
             /\ position' = position + (2 * WordBytes + body.records[2].size)
             /\ position' \in Nat /\ pc' = "data"
             /\ image' = [image EXCEPT !["text"] = body.records[2]]
             /\ image' \in ExecutableImage
             /\ UNCHANGED <<container, capacity, result>>
    <3>1. position' = AfterRecord(2) /\ position' <= body.length
      BY <2>2, <2>3
    <3>2. /\ image'.text = body.records[2]
          /\ image'.entry = body.entry
          /\ image'.reginfo = body.records[1]
      <4>. HIDE DEF body
      <4>. QED BY <1>c, <2>1, <2>3 DEF ExecutableImage
    <3>3. pc \in InBody /\ "data" \in InBody
      BY <2>1 DEF InBody
    <3>. QED BY ONLY TypeOK, ReadSoFar, <2>1, <2>3, <3>1, <3>2, <3>3, BodyStep
  <2>4. CASE /\ body.length < position + (2 * WordBytes + body.records[2].size)
             /\ Throw
    <3>1. body.length < AfterRecord(2)
      BY <2>2, <2>4
    <3>2. ~CF!WellFormed(container)
      BY ONLY <1>c, <2>2, <3>1, TooShort
    <3>. QED BY <2>4, <3>2, ThrowInv
  <2>5. 2 \in 1 .. 3
    OBVIOUS
  <2>. QED BY ONLY TypeOK, ReadSoFar, <1>11, <2>3, <2>4, <2>5, RecordStep
<1>12. CASE read_record(3, "data", "end")
  <2>1. /\ pc = "data" /\ position = AfterRecord(2) /\ body.count = 3
        /\ image.entry = body.entry
        /\ image.reginfo = body.records[1]
        /\ image.text = body.records[2]
    BY <1>12 DEF read_record, ReadSoFar
  <2>2. /\ position + (2 * WordBytes + body.records[3].size) = AfterRecord(3)
        /\ AfterRecord(3) <= AfterRecord(3) /\ AfterRecord(3) \in Nat
    <3>1. position = AfterRecord(2)
      BY <2>1
    <3>. QED BY <1>c, <1>t, <1>n, <3>1, Positions
  <2>3. CASE /\ position + (2 * WordBytes + body.records[3].size) <= body.length
             /\ position' = position + (2 * WordBytes + body.records[3].size)
             /\ position' \in Nat /\ pc' = "end"
             /\ image' = [image EXCEPT !["data"] = body.records[3]]
             /\ image' \in ExecutableImage
             /\ UNCHANGED <<container, capacity, result>>
    <3>1. position' = AfterRecord(3) /\ position' <= body.length
      BY <2>2, <2>3
    <3>2. /\ image'.data = body.records[3]
          /\ image'.entry = body.entry
          /\ image'.reginfo = body.records[1]
          /\ image'.text = body.records[2]
      <4>. HIDE DEF body
      <4>. QED BY <1>c, <2>1, <2>3 DEF ExecutableImage
    <3>3. pc \in InBody /\ "end" \in InBody
      BY <2>1 DEF InBody
    <3>. QED BY ONLY TypeOK, ReadSoFar, <2>1, <2>3, <3>1, <3>2, <3>3, BodyStep
  <2>4. CASE /\ body.length < position + (2 * WordBytes + body.records[3].size)
             /\ Throw
    <3>1. body.length < AfterRecord(3)
      BY <2>2, <2>4
    <3>2. ~CF!WellFormed(container)
      BY ONLY <1>c, <2>2, <3>1, TooShort
    <3>. QED BY <2>4, <3>2, ThrowInv
  <2>5. 3 \in 1 .. 3
    OBVIOUS
  <2>. QED BY ONLY TypeOK, ReadSoFar, <1>12, <2>3, <2>4, <2>5, RecordStep
<1>13. CASE Return
  <2>1. /\ pc = "end" /\ position = AfterRecord(3) /\ body.count = 3
        /\ image.entry = body.entry /\ image.reginfo = body.records[1]
        /\ image.text = body.records[2] /\ image.data = body.records[3]
        /\ BodyKnown
    BY <1>13, InvBodyKnown DEF Return, at_end, ReadSoFar, InBody
  <2>2. image = CF!ImageOf(body)
    <3>. HIDE DEF body
    <3>. QED BY <1>c, <2>1 DEF ExecutableImage, CF!ImageOf
  <2>3. position = body.length <=> CF!Tiles(body)
    <3>1. position = AfterRecord(3)
      BY <2>1
    <3>. QED BY <1>c, <3>1, Positions
  <2>4. validate_image(image) <=> CF!validate_image(CF!ImageOf(body))
    BY <2>2, SameValidation
  <2>5. CASE position = body.length /\ validate_image(image)
    <3>1. /\ result' = [status |-> "image", image |-> image] /\ pc' = "done"
          /\ UNCHANGED <<container, position, capacity, image>>
      BY <1>13, <2>5 DEF Return, at_end
    <3>2. CF!WellFormed(container)
      BY <2>1, <2>3, <2>4, <2>5 DEF CF!WellFormed, BodyKnown, body
    <3>3. CF!WellFormed(container)' <=> CF!WellFormed(container)
      BY <3>1 DEF CF!WellFormed
    <3>4. CF!ImageOf(body)' = CF!ImageOf(body)
      BY <3>1, SameContainer DEF CF!ImageOf
    <3>5. TypeOK'
      BY <1>c, <3>1 DEF TypeOK
    <3>6. capacity' <= maximum_core_size + 1
      BY <2>1, <3>1 DEF BodyKnown
    <3>7. result' = [status |-> "image", image |-> CF!ImageOf(body)]
      BY <2>2, <3>1
    <3>8. ReadSoFar'
      BY ONLY <3>1, <3>2, <3>3, <3>4, <3>6, <3>7 DEF ReadSoFar, InBody
    <3>. QED BY <3>5, <3>8
  <2>6. CASE ~(position = body.length /\ validate_image(image))
    <3>1. Throw
      BY <1>13, <2>6 DEF Return, at_end
    <3>2. ~CF!WellFormed(container)
      BY <2>3, <2>4, <2>6 DEF CF!WellFormed, body
    <3>. QED BY <3>1, <3>2, ThrowInv
  <2>. QED BY <2>5, <2>6
<1>14. CASE UNCHANGED vars
  <2>1. /\ UNCHANGED <<container, pc, position, capacity, image, result>>
    BY <1>14 DEF vars
  <2>2. TypeOK'
    BY <2>1 DEF TypeOK
  <2>3. ReadSoFar'
    <3>1. /\ body' = body /\ AfterAuthentication' = AfterAuthentication
          /\ AfterRecord(1)' = AfterRecord(1) /\ AfterRecord(2)' = AfterRecord(2)
          /\ AfterRecord(3)' = AfterRecord(3)
      BY <2>1, SameContainer
    <3>2. /\ CF!WellFormed(container)' <=> CF!WellFormed(container)
          /\ CF!ImageOf(body)' = CF!ImageOf(body)
      BY <2>1, <3>1 DEF CF!WellFormed, CF!ImageOf
    <3>. HIDE DEF body
    <3>3. CASE pc \in InBody
      <4>1. BodyKnown /\ position <= body.length
        BY <3>3, InvBodyKnown DEF ReadSoFar
      <4>2. BodyKnown'
        BY ONLY <2>1, <3>1, <4>1 DEF BodyKnown
      <4>3. pc' \notin {"core size", "done", "flags", "expected size", "inflate"}
        BY ONLY <2>1, <3>3 DEF InBody
      <4>4. position' <= body'.length
        BY <2>1, <3>1, <4>1
      <4>. QED BY ONLY ReadSoFar, <2>1, <3>1, <4>2, <4>3, <4>4 DEF ReadSoFar, BodyKnown
    <3>4. CASE pc \in InHeader
      BY ONLY ReadSoFar, <2>1, <3>4 DEF ReadSoFar, InHeader, InBody
    <3>5. CASE pc = "done"
      BY ONLY ReadSoFar, <2>1, <3>2, <3>5 DEF ReadSoFar, InBody
    <3>. QED BY <3>3, <3>4, <3>5 DEF TypeOK
  <2>. QED BY <2>2, <2>3
<1>15. CASE Finished
  BY <1>14, <1>15 DEF Finished
<1>. QED BY <1>1, <1>2, <1>3, <1>4, <1>6, <1>7, <1>8, <1>9, <1>10, <1>11, <1>12,
            <1>13, <1>14, <1>15 DEF Next

\* Everything the reader knows at each field, and its result at the end.
THEOREM InvariantHolds == Spec => [](TypeOK /\ ReadSoFar)
<1>1. Spec => []IInv
  BY InitInv, StepInv, PTL DEF Spec
<1>. QED BY <1>1, PTL DEF IInv

\* Every variable keeps its type.
THEOREM TypeCorrect == Spec => []TypeOK
BY InvariantHolds, PTL

\* No length a container declares moves a reader past its bytes.
THEOREM InBounds == Spec => []ReaderInBounds
<1>1. TypeOK /\ ReadSoFar => ReaderInBounds
  <2> SUFFICES ASSUME TypeOK, ReadSoFar PROVE ReaderInBounds
    OBVIOUS
  <2>1. 0 <= container.size
    BY ContainerFields DEF TypeOK
  <2>2. pc \in InHeader => position <= container.size
    BY <2>1 DEF ReadSoFar, InHeader
  <2>3. pc \in InBody => position <= body.length
    BY DEF ReadSoFar
  <2>. QED BY <2>2, <2>3 DEF ReaderInBounds
<1>. QED BY <1>1, InvariantHolds, PTL

\* No declared size makes inflate_body allocate more than its limit, nor makes
\* the size of its buffer wrap around.
THEOREM Bounded == Spec => []AllocationBounded
<1>1. TypeOK /\ ReadSoFar => AllocationBounded
  BY DEF ReadSoFar, AllocationBounded
<1>. QED BY <1>1, InvariantHolds, PTL

\* A returned image lies in guest memory, its text and data apart, its entry in
\* its text.
THEOREM ImageFits == Spec => []ReturnedImageFits
<1>1. TypeOK /\ ReadSoFar => ReturnedImageFits
  <2> SUFFICES ASSUME TypeOK, ReadSoFar, result.status = "image"
               PROVE  ReturnedImageFits
    BY DEF ReturnedImageFits
  <2>. DEFINE im == CF!ImageOf(body)
  <2>1. result = [status |-> "image", image |-> im] /\ CF!WellFormed(container)
    <3>1. pc = "done"
      <4>1. pc # "done" => result = CF!Pending
        BY DEF ReadSoFar
      <4>2. CF!Pending.status # "image"
        BY DEF CF!Pending
      <4>. QED BY <4>1, <4>2
    <3>2. result = IF CF!WellFormed(container)
                     THEN [status |-> "image", image |-> CF!ImageOf(body)] ELSE CF!Threw
      BY <3>1 DEF ReadSoFar
    <3>3. CF!Threw.status # "image"
      BY DEF CF!Threw
    <3>. QED BY <3>2, <3>3
  <2>2. validate_image(im)
    BY <2>1, SameValidation DEF CF!WellFormed, body
  <2>3. /\ im.entry \in Nat /\ im.text.address \in Nat /\ im.text.size \in Nat
        /\ im.data.address \in Nat /\ im.data.size \in Nat
    <3>1. container \in CF!Container
      BY DEF TypeOK
    <3>2. /\ body.entry \in Nat
          /\ \A i \in 1 .. 3 : body.records[i].address \in Nat /\ body.records[i].size \in Nat
      <4>1. Word \subseteq Nat
        BY GuestAssumption DEF Word
      <4>2. body.entry \in Word /\ \A i \in 1 .. 3 : body.records[i] \in ImageRecord
        BY <3>1, ContainerFields
      <4>3. \A i \in 1 .. 3 : body.records[i].address \in Word /\ body.records[i].size \in Nat
        BY <4>2 DEF ImageRecord
      <4>. QED BY <4>1, <4>2, <4>3
    <3>3. /\ im.entry = body.entry /\ im.text = body.records[2] /\ im.data = body.records[3]
      BY DEF CF!ImageOf
    <3>. QED BY <3>2, <3>3
  <2>4. /\ im.text.address + im.text.size <= ee_memory_size
        /\ im.data.address + im.data.size <= ee_memory_size
        /\ im.data.size # 0 /\ im.entry % InstructionSize = 0
        /\ im.entry >= im.text.address
        /\ im.entry + InstructionSize <= im.text.address + im.text.size
        /\ im.text.address + im.text.size <= im.data.address
    BY <2>2 DEF validate_image, validate_record, record_end
  <2>5. result.image = im
    BY <2>1
  <2>. HIDE DEF im
  <2>6. ee_memory_size \in Nat /\ InstructionSize \in Nat \ {0}
    BY GuestAssumption
  <2>7. /\ BytesOf(im.text) \cup BytesOf(im.data) \subseteq 0 .. ee_memory_size - 1
        /\ BytesOf(im.text) \cap BytesOf(im.data) = {} /\ BytesOf(im.data) # {}
        /\ im.entry .. im.entry + InstructionSize - 1 \subseteq BytesOf(im.text)
    <3>. DEFINE ta == im.text.address
    <3>. DEFINE ts == im.text.size
    <3>. DEFINE da == im.data.address
    <3>. DEFINE ds == im.data.size
    <3>. DEFINE e == im.entry
    <3>1. /\ ta \in Nat /\ ts \in Nat /\ da \in Nat /\ ds \in Nat /\ e \in Nat
          /\ ta + ts <= ee_memory_size /\ da + ds <= ee_memory_size /\ ds # 0
          /\ e >= ta /\ e + InstructionSize <= ta + ts /\ ta + ts <= da
      BY <2>3, <2>4
    <3>2. BytesOf(im.text) = ta .. ta + ts - 1 /\ BytesOf(im.data) = da .. da + ds - 1
      BY DEF BytesOf
    <3>. HIDE DEF ta, ts, da, ds, e
    <3>3. /\ (ta .. ta + ts - 1) \cup (da .. da + ds - 1) \subseteq 0 .. ee_memory_size - 1
          /\ (ta .. ta + ts - 1) \cap (da .. da + ds - 1) = {}
          /\ e .. e + InstructionSize - 1 \subseteq ta .. ta + ts - 1
      BY <3>1, <2>6
    <3>4. da \in da .. da + ds - 1
      BY <3>1
    <3>. QED BY <3>2, <3>3, <3>4 DEF e
  <2>. QED BY <2>4, <2>5, <2>7 DEF ReturnedImageFits
<1>. QED BY <1>1, InvariantHolds, PTL

\* reconstruct_core implements its specification: it returns the image of a
\* well-formed container and throws on every other one.
THEOREM Refinement == Spec => ImplementsCoreFormat
<1>1. Init => CF!Init
  BY DEF Init, CF!Init
<1>2. TypeOK /\ ReadSoFar /\ (TypeOK /\ ReadSoFar)' /\ [Next]_vars
        => [CF!Reconstruct]_<<container, result>>
  <2> SUFFICES ASSUME TypeOK, ReadSoFar, ReadSoFar', [Next]_vars,
                      ~(UNCHANGED <<container, result>>)
               PROVE  CF!Reconstruct
    OBVIOUS
  <2>1. container' = container
    BY DEF Next, vars, CheckCoreSize, ReadFlags, ReadExpectedSize, Inflate,
           ReadAuthentication, ReadRecordCount, ReadEntry, read_record, Return,
           Finished, Throw
  <2>2. pc # "done"
    BY DEF Next, vars, CheckCoreSize, ReadFlags, ReadExpectedSize, Inflate,
           ReadAuthentication, ReadRecordCount, ReadEntry, read_record, Return,
           Finished, Throw
  <2>3. result = CF!Pending
    BY <2>2 DEF ReadSoFar
  <2>4. pc' = "done"
    <3>1. pc' # "done" => result' = CF!Pending
      BY DEF ReadSoFar
    <3>. QED BY <2>1, <2>3, <3>1
  <2>5. result' = IF CF!WellFormed(container)'
                    THEN [status |-> "image", image |-> CF!ImageOf(body)']
                    ELSE CF!Threw
    BY <2>4 DEF ReadSoFar
  <2>6. /\ CF!WellFormed(container)' <=> CF!WellFormed(container)
        /\ CF!ImageOf(body)' = CF!ImageOf(container.stream.body)
    BY <2>1 DEF CF!WellFormed, CF!ImageOf, body
  <2>. QED BY <2>1, <2>3, <2>5, <2>6 DEF CF!Reconstruct
<1>. QED BY <1>1, <1>2, InvariantHolds, PTL DEF Spec, CF!Spec, ImplementsCoreFormat

-----------------------------------------------------------------------------
(***************************************************************************)
(* The script's reader.                                                    *)
(***************************************************************************)

\* The Python variable `cursor' after each field: a definition by recursion on
\* the number of the record, so it has the values it recurs to.
LEMMA CursorSteps ==
  ASSUME NEW b
  PROVE  /\ Script!Cursor(b)[0] = Script!AuthenticationEnd(b) + 2 * WordBytes
         /\ Script!Cursor(b)[1] = Script!Cursor(b)[0] + Script!RecordHeader + b.records[1].size
         /\ Script!Cursor(b)[2] = Script!Cursor(b)[1] + Script!RecordHeader + b.records[2].size
         /\ Script!Cursor(b)[3] = Script!Cursor(b)[2] + Script!RecordHeader + b.records[3].size
<1>. DEFINE A == Script!AuthenticationEnd(b) + 2 * WordBytes
<1>. DEFINE Next1(c, i) == c + Script!RecordHeader + b.records[i].size
<1>. DEFINE Recurs(f) == f = [i \in 0 .. 3 |-> IF i = 0 THEN A ELSE Next1(f[i - 1], i)]
<1>. DEFINE c1 == Next1(A, 1)
<1>. DEFINE c2 == Next1(c1, 2)
<1>. DEFINE c3 == Next1(c2, 3)
<1>. DEFINE g == [i \in 0 .. 3 |-> IF i = 0 THEN A ELSE IF i = 1 THEN c1
                                   ELSE IF i = 2 THEN c2 ELSE c3]
<1>1. Script!Cursor(b) = CHOOSE f : Recurs(f)
  BY Zenon DEF Script!Cursor
<1>2. Recurs(g)
  <2>. HIDE DEF A, Next1
  <2>1. \A i \in 0 .. 3 : i = 0 \/ i = 1 \/ i = 2 \/ i = 3
    OBVIOUS
  <2>2. g[0] = A /\ g[1] = c1 /\ g[2] = c2 /\ g[3] = c3
    <3>. HIDE DEF c1, c2, c3
    <3>. QED OBVIOUS
  <2>3. \A i \in 0 .. 3 : g[i] = IF i = 0 THEN A ELSE Next1(g[i - 1], i)
    <3>. HIDE DEF g
    <3>1. 1 - 1 = 0 /\ 2 - 1 = 1 /\ 3 - 1 = 2
      OBVIOUS
    <3>. QED BY <2>1, <2>2, <3>1
  <2>. HIDE DEF c1, c2, c3
  <2>. QED BY <2>3
<1>3. Recurs(Script!Cursor(b))
  <2>. HIDE DEF Recurs, g
  <2>. QED BY <1>1, <1>2
<1>4. \A i \in 0 .. 3 : Script!Cursor(b)[i] =
        IF i = 0 THEN A ELSE Next1(Script!Cursor(b)[i - 1], i)
  <2>1. PICK f : f = Script!Cursor(b)
    OBVIOUS
  <2>2. f = [i \in 0 .. 3 |-> IF i = 0 THEN A ELSE Next1(f[i - 1], i)]
    BY ONLY <1>3, <2>1
  <2>. HIDE DEF A, Next1
  <2>3. \A i \in 0 .. 3 : f[i] = IF i = 0 THEN A ELSE Next1(f[i - 1], i)
    BY ONLY <2>2
  <2>. QED BY ONLY <2>1, <2>3
<1>5. /\ Script!Cursor(b)[0] = A
      /\ Script!Cursor(b)[1] = Next1(Script!Cursor(b)[0], 1)
      /\ Script!Cursor(b)[2] = Next1(Script!Cursor(b)[1], 2)
      /\ Script!Cursor(b)[3] = Next1(Script!Cursor(b)[2], 3)
  <2>. HIDE DEF A, Next1
  <2>1. 1 - 1 = 0 /\ 2 - 1 = 1 /\ 3 - 1 = 2
    OBVIOUS
  <2>. QED BY <1>4, <2>1
<1>. QED BY <1>5

\* The script's cursor stands where the C++ reader stands.
LEMMA CursorIsPosition ==
  ASSUME container \in CF!Container
  PROVE  /\ Script!Cursor(body)[0] = AfterAuthentication + 2 * WordBytes
         /\ \A i \in 1 .. 3 : Script!Cursor(body)[i] = AfterRecord(i)
<1>. DEFINE c == Script!Cursor(body)
<1>1. /\ Script!AuthenticationEnd(body) = AfterAuthentication
      /\ Script!RecordHeader = WordBytes + WordBytes
  BY DEF Script!AuthenticationEnd, AfterAuthentication, Script!RecordHeader
<1>2. /\ c[0] = AfterAuthentication + 2 * WordBytes
      /\ c[1] = c[0] + (WordBytes + WordBytes) + body.records[1].size
      /\ c[2] = c[1] + (WordBytes + WordBytes) + body.records[2].size
      /\ c[3] = c[2] + (WordBytes + WordBytes) + body.records[3].size
  BY <1>1, CursorSteps, Zenon
<1>. HIDE DEF c, body
<1>3. /\ WordBytes \in Nat /\ AfterAuthentication \in Nat
      /\ body.records[1].size \in Nat /\ body.records[2].size \in Nat
      /\ body.records[3].size \in Nat
  BY Positions, ContainerFields
<1>4. c[1] = AfterRecord(1) /\ c[2] = AfterRecord(2) /\ c[3] = AfterRecord(3)
  BY <1>2, <1>3, Positions
<1>5. \A i \in 1 .. 3 : i = 1 \/ i = 2 \/ i = 3
  OBVIOUS
<1>. QED BY <1>2, <1>4, <1>5 DEF c

\* The C++ reader's well-formed containers are those the script accepts, within
\* the reader's limit and with a valid image.
LEMMA SameContainers ==
  ASSUME container \in CF!Container
  PROVE  CF!WellFormed(container) <=>
           /\ Script!AcceptsCore(container)
           /\ container.size <= maximum_core_size /\ container.expected <= maximum_core_size
           /\ validate_image(CF!ImageOf(body))
<1>. DEFINE c == Script!Cursor(body)
<1>. DEFINE a1 == HalfWordBytes + body.authentication[1]
<1>1. /\ c[0] = AfterAuthentication + 2 * WordBytes
      /\ c[1] = AfterRecord(1) /\ c[2] = AfterRecord(2) /\ c[3] = AfterRecord(3)
  BY CursorIsPosition
<1>2. /\ HalfWordBytes \in Nat \ {0} /\ WordBytes \in Nat \ {0}
      /\ body.length \in Nat /\ container.expected \in Nat /\ container.size \in Nat
      /\ body.authentication[1] \in Nat /\ body.authentication[2] \in Nat
      /\ body.records[1].size \in Nat /\ body.records[2].size \in Nat
      /\ body.records[3].size \in Nat
  BY ContainerFields, CoreAssumption
<1>3. Script!AcceptsCore(container) <=>
        /\ container.flags = "0x0101" /\ HalfWordBytes + WordBytes <= container.size
        /\ container.stream.ends
        /\ container.stream.used = container.size - (HalfWordBytes + WordBytes)
        /\ body.length = container.expected
        /\ 2 * HalfWordBytes + body.authentication[1] <= body.length
        /\ c[0] <= body.length /\ body.count = 3
        /\ \A i \in 1 .. 3 :
             c[i - 1] + Script!RecordHeader <= body.length /\ c[i] <= body.length
        /\ c[3] = body.length
  BY Zenon DEF Script!AcceptsCore, body
<1>4. CF!WellFormed(container) <=>
        /\ CF!HeaderBytes <= container.size /\ container.size <= maximum_core_size
        /\ container.flags = "0x0101"
        /\ 0 < container.expected /\ container.expected <= maximum_core_size
        /\ container.stream.ends
        /\ container.stream.used = container.size - CF!HeaderBytes
        /\ body.length = container.expected
        /\ CF!Tiles(body) /\ body.count = 3
        /\ validate_image(CF!ImageOf(body))
  BY SameValidation, Zenon DEF CF!WellFormed, body
<1>. HIDE DEF c, body
<1>5. ASSUME c[3] = body.length
      PROVE  /\ 2 * HalfWordBytes + body.authentication[1] <= body.length
             /\ c[0] <= body.length /\ 0 < body.length
             /\ c[0] + Script!RecordHeader <= body.length /\ c[1] <= body.length
             /\ c[1] + Script!RecordHeader <= body.length /\ c[2] <= body.length
             /\ c[2] + Script!RecordHeader <= body.length
  <2>1. Script!RecordHeader = WordBytes + WordBytes
    BY DEF Script!RecordHeader
  <2>2. /\ AfterAuthentication = (HalfWordBytes + body.authentication[1])
                                   + (HalfWordBytes + body.authentication[2])
        /\ c[1] = c[0] + (2 * WordBytes + body.records[1].size)
        /\ c[2] = c[1] + (2 * WordBytes + body.records[2].size)
        /\ c[3] = c[2] + (2 * WordBytes + body.records[3].size)
        /\ c[0] \in Nat /\ AfterAuthentication \in Nat
    <3>1. AfterAuthentication \in Nat
      BY Positions
    <3>. QED BY <1>1, <1>2, <3>1, Positions
  <2>. QED BY <1>1, <1>2, <1>5, <2>1, <2>2
<1>6. (\A i \in 1 .. 3 :
         c[i - 1] + Script!RecordHeader <= body.length /\ c[i] <= body.length)
      <=> /\ c[0] + Script!RecordHeader <= body.length /\ c[1] <= body.length
          /\ c[1] + Script!RecordHeader <= body.length /\ c[2] <= body.length
          /\ c[2] + Script!RecordHeader <= body.length /\ c[3] <= body.length
  <2>1. \A i \in 1 .. 3 : i = 1 \/ i = 2 \/ i = 3
    OBVIOUS
  <2>2. 1 - 1 = 0 /\ 2 - 1 = 1 /\ 3 - 1 = 2 /\ 1 \in 1 .. 3 /\ 2 \in 1 .. 3 /\ 3 \in 1 .. 3
    OBVIOUS
  <2>. QED BY <2>1, <2>2
<1>7. CF!Tiles(body) <=> c[3] = body.length
  BY <1>1, Positions
<1>8. c[3] = body.length => c[3] <= body.length
  BY <1>2
<1>9. CF!HeaderBytes = HalfWordBytes + WordBytes
  BY Positions
<1>. QED BY <1>3, <1>4, <1>5, <1>6, <1>7, <1>8, <1>9

\* The two readers of CORE agree on every container.
THEOREM Agreement == Spec => []ReadersAgree
<1>1. TypeOK /\ ReadSoFar => ReadersAgree
  <2> SUFFICES ASSUME TypeOK, ReadSoFar, pc = "done"
               PROVE  result.status = "image" <=> CF!WellFormed(container)
    BY SameContainers DEF TypeOK, ReadersAgree
  <2>1. result = IF CF!WellFormed(container)
                   THEN [status |-> "image", image |-> CF!ImageOf(body)] ELSE CF!Threw
    BY DEF ReadSoFar
  <2>2. CF!Threw.status # "image"
    BY DEF CF!Threw
  <2>. QED BY <2>1, <2>2
<1>. QED BY <1>1, InvariantHolds, PTL
=============================================================================
