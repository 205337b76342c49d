------------------------------- MODULE EeLine -------------------------------
(***************************************************************************)
(* One line of the listing, as disassemble_region makes it: four bytes are *)
(* read, decoded and formatted.  The properties compare it with the        *)
(* architecture: a table of encodings and an assembler, written from the   *)
(* instruction formats and not from the decoder.                           *)
(***************************************************************************)
EXTENDS EeDecode

CONSTANTS
  Texts,     \* the four-byte texts to disassemble
  Addresses  \* their guest addresses

\* disassemble_region has checked that addresses are multiples of four.
ASSUME LineAssumption ==
  /\ Texts \subseteq [1 .. 4 -> Byte]
  /\ Addresses \subseteq {pc \in Word32 : pc[2] % 4 = 0}

VARIABLES
  bytes, address,  \* a word of the text and where it is in guest memory
  output           \* the line

lineVars == <<bytes, address, output>>

NoOutput == <<>>

LineInit == bytes \in Texts /\ address \in Addresses /\ output = NoOutput

Disassemble ==
  /\ output = NoOutput
  /\ output' = format_instruction(read_instruction_word(bytes), address)
  /\ UNCHANGED <<bytes, address>>

LineWritten == output # NoOutput /\ UNCHANGED lineVars

LineNext == Disassemble \/ LineWritten

LineSpec == LineInit /\ [][LineNext]_lineVars

-----------------------------------------------------------------------------
(***************************************************************************)
(* The architecture's side: which fields are fixed in each encoding.       *)
(***************************************************************************)
Encoding ==
  [j |-> [primary_opcode |-> 2], jal |-> [primary_opcode |-> 3],
   beq |-> [primary_opcode |-> 4], bne |-> [primary_opcode |-> 5],
   addiu |-> [primary_opcode |-> 9], andi |-> [primary_opcode |-> 12],
   ori |-> [primary_opcode |-> 13], lui |-> [primary_opcode |-> 15, rs |-> 0],
   lw |-> [primary_opcode |-> 35], sw |-> [primary_opcode |-> 43],
   sll |-> [primary_opcode |-> 0, function |-> 0, rs |-> 0],
   srl |-> [primary_opcode |-> 0, function |-> 2, rs |-> 0],
   jr |-> [primary_opcode |-> 0, function |-> 8, rt |-> 0, rd |-> 0, shift_amount |-> 0],
   addu |-> [primary_opcode |-> 0, function |-> 33, shift_amount |-> 0],
   subu |-> [primary_opcode |-> 0, function |-> 35, shift_amount |-> 0],
   and |-> [primary_opcode |-> 0, function |-> 36, shift_amount |-> 0],
   or |-> [primary_opcode |-> 0, function |-> 37, shift_amount |-> 0],
   xor |-> [primary_opcode |-> 0, function |-> 38, shift_amount |-> 0]]

Word == <<bytes[4] * 256 + bytes[3], bytes[2] * 256 + bytes[1]>>

Encodes(op) ==
  \A field \in DOMAIN Encoding[op] : Encoding[op][field] = Fields(Word)[field]

\* An assembler for the lines: from the operands back to the word.
RType(function, rs, rt, rd, shift) == <<rs * 32 + rt, rd * 2048 + shift * 64 + function>>
IType(op, rs, rt, immediate) ==
  <<Encoding[op].primary_opcode * 1024 + rs * 32 + rt, immediate>>
TwosComplement(hex) ==
  (IF hex.sign = "minus" THEN 65536 - hex.magnitude ELSE hex.magnitude) % 65536

\* (target - (at + 4)) / 4 in 16 bits.
Displacement(target) ==
  LET words == (target[1] - address[1]) * 16384 + (target[2] - address[2]) \div 4 - 1 IN
  words % 65536

JumpIndex(target) == <<(target[1] \div 4) % 1024, (target[1] % 4) * 16384 + target[2] \div 4>>

Assembled ==
  LET op == output[1] IN
  CASE op \in {"addu", "subu", "and", "or", "xor"} ->
         RType(Encoding[op].function, output[3], output[4], output[2], 0)
    [] op \in {"sll", "srl"} -> RType(Encoding[op].function, 0, output[3], output[2], output[4])
    [] op = "jr" -> RType(8, output[2], 0, 0, 0)
    [] op = "addiu" -> IType(op, output[3], output[2], TwosComplement(output[4]))
    [] op \in {"andi", "ori"} -> IType(op, output[3], output[2], output[4])
    [] op = "lui" -> IType(op, 0, output[2], output[3])
    [] op \in {"lw", "sw"} -> IType(op, output[4], output[2], TwosComplement(output[3]))
    [] op \in {"beq", "bne"} -> IType(op, output[2], output[3], Displacement(output[4]))
    [] op \in {"j", "jal"} ->
         <<Encoding[op].primary_opcode * 1024 + JumpIndex(output[2])[1], JumpIndex(output[2])[2]>>
    [] op = "unsupported" -> output[2]

\* A line names an instruction exactly when the word is one of its encodings,
\* and says unsupported exactly when the word encodes none of the subset; every
\* field it is decoded into keeps the width it has in the header.
NamesTheInstruction ==
  output # NoOutput =>
    /\ decode(Word) \in DecodedInstruction
    /\ {op \in DOMAIN Encoding : Encodes(op)} =
         (IF output[1] = "unsupported" THEN {} ELSE {output[1]})

\* A line loses nothing: assembled again at the same address it gives the four
\* bytes back, so no two words share a line.
LineDeterminesWord == output # NoOutput => Assembled = Word

\* A 16-bit field as a two's complement number.
Signed(half) == IF half < 32768 THEN half ELSE half - 65536

\* Instruction words from one address to another.
WordsBetween(from, to) == (to[1] - from[1]) * 16384 + (to[2] - from[2]) \div 4

AddressableWords == 1073741824  \* 2^30 words of four bytes

\* The targets a listing shows are where the processor would go, to the word: a
\* branch by the signed displacement in its word, counted from the delay slot in
\* addresses that wrap at 2^32, a jump to the index in its word within the
\* 256 MiB region of the delay slot.
TargetsAreExact ==
  LET slot == <<(address[1] + (address[2] + 4) \div 65536) % 65536, (address[2] + 4) % 65536>> IN
  /\ output # NoOutput /\ output[1] \in {"j", "jal"} =>
       /\ output[2] \in Word32 /\ output[2][2] % 4 = 0
       /\ output[2][1] \div 4096 = slot[1] \div 4096
       /\ JumpIndex(output[2]) = <<Word[1] % 1024, Word[2]>>
  /\ output # NoOutput /\ output[1] \in {"beq", "bne"} =>
       /\ output[4] \in Word32 /\ output[4][2] % 4 = 0
       /\ (WordsBetween(slot, output[4]) - Signed(Word[2])) % AddressableWords = 0
=============================================================================
