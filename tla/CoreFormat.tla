----------------------------- MODULE CoreFormat -----------------------------
(***************************************************************************)
(* What reconstruct_core promises: which CORE containers it accepts, and   *)
(* the image it returns for them, without saying how it reads.             *)
(*                                                                         *)
(* A container is described by what its fields hold when they are read one *)
(* after the other; the payload bytes themselves decide nothing.           *)
(***************************************************************************)
EXTENDS GuestImage

CONSTANTS
  HalfWordBytes,      \* bytes of a u16 field (2)
  WordBytes,          \* bytes of a u32 field (4)
  maximum_core_size,  \* 32 MiB
  Containers          \* the containers a caller may hand over

\* The inflated body: its length and the fields found in it.
Body ==
  [length : Nat, authentication : [1 .. 2 -> Nat], count : Word, entry : Word,
   records : [1 .. 3 -> ImageRecord]]

\* The raw DEFLATE stream behind the six header bytes: whether zlib finds the
\* end of a valid stream, how much input that takes, and the body it encodes.
Stream == [ends : BOOLEAN, used : Nat, body : Body]

Container == [size : Nat, flags : {"0x0101", "other"}, expected : Word, stream : Stream]

VARIABLES container, result

Pending == [status |-> "pending"]
Threw == [status |-> "threw"]

HeaderBytes == HalfWordBytes + WordBytes

ImageOf(body) ==
  [entry |-> body.entry, reginfo |-> body.records[1], text |-> body.records[2],
   data |-> body.records[3]]

\* The fields and payloads, laid end to end, are the body: nothing is missing
\* and nothing is left over.
Tiles(body) ==
  body.length =
      (HalfWordBytes + body.authentication[1]) + (HalfWordBytes + body.authentication[2])
    + WordBytes + WordBytes
    + (2 * WordBytes + body.records[1].size)
    + (2 * WordBytes + body.records[2].size)
    + (2 * WordBytes + body.records[3].size)

WellFormed(c) ==
  /\ HeaderBytes <= c.size /\ c.size <= maximum_core_size
  /\ c.flags = "0x0101"
  /\ 0 < c.expected /\ c.expected <= maximum_core_size
  /\ c.stream.ends
  /\ c.stream.used = c.size - HeaderBytes
  /\ c.stream.body.length = c.expected
  /\ Tiles(c.stream.body)
  /\ c.stream.body.count = 3
  /\ validate_image(ImageOf(c.stream.body))

Init == container \in Containers /\ result = Pending

Reconstruct ==
  /\ result = Pending
  /\ result' = IF WellFormed(container)
                 THEN [status |-> "image", image |-> ImageOf(container.stream.body)]
                 ELSE Threw
  /\ UNCHANGED container

Spec == Init /\ [][Reconstruct]_<<container, result>>
=============================================================================
