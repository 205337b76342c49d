----------------------------- MODULE GuestImage -----------------------------
(***************************************************************************)
(* The executable image of include/gt4recomp/executable_image.hpp and the  *)
(* validation that src/executable/core_image.cpp shares between the CORE   *)
(* parser and the ELF exporter.                                            *)
(*                                                                         *)
(* A record is described by where it goes in guest memory and by how many  *)
(* bytes it carries; what the bytes are never decides anything here.       *)
(***************************************************************************)
EXTENDS Integers

CONSTANTS
  WordSize,          \* number of values of std::uint32_t (2^32 in the build)
  ee_memory_size,    \* bytes of EE RAM (2^25)
  InstructionSize,   \* bytes of one R5900 instruction (4)
  ReginfoSize        \* bytes of the reginfo record (24)

ASSUME GuestAssumption ==
  /\ WordSize \in Nat /\ ee_memory_size \in Nat
  /\ InstructionSize \in Nat \ {0} /\ ReginfoSize \in Nat \ {0}

Word == 0 .. WordSize - 1

\* Conversion of an exact value to std::uint32_t.
U32(n) == n % WordSize

ImageRecord == [address : Word, size : Nat]
ExecutableImage ==
  [entry : Word, reginfo : ImageRecord, text : ImageRecord, data : ImageRecord]

\* Mutant: the end of a record in 32 bits.
record_end_wrapping(record) == U32(record.address + record.size)

\* Computed in 64 bits in the code, so never reduced modulo WordSize.
record_end(record) == record.address + record.size

validate_record(record) ==
  /\ record.size # 0
  /\ record_end(record) <= ee_memory_size

validate_image(image) ==
  /\ validate_record(image.reginfo)
  /\ validate_record(image.text)
  /\ validate_record(image.data)
  /\ image.reginfo.size = ReginfoSize
  /\ image.text.address % InstructionSize = 0
  /\ image.entry % InstructionSize = 0
  /\ image.entry >= image.text.address
  /\ image.entry + InstructionSize <= record_end(image.text)
  /\ record_end(image.text) <= image.data.address
=============================================================================
