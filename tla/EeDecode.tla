------------------------------ MODULE EeDecode ------------------------------
(***************************************************************************)
(* src/ee/decode.cpp and format_instruction of src/ee/disassemble.cpp: the *)
(* decoder of the supported R5900 subset and the text of one instruction.  *)
(*                                                                         *)
(* A 32-bit word is a pair <<hi, lo>> of 16-bit halves.  A line of text is *)
(* a mnemonic with its operands: a register is its number, a hexadecimal   *)
(* constant its sign and magnitude.                                        *)
(***************************************************************************)
EXTENDS Integers, Sequences

HalfMax == 65535
Half == 0 .. HalfMax
Word32 == Half \X Half
Byte == 0 .. 255

\* The guest is little-endian.
read_instruction_word(bytes) ==
  <<bytes[4] * 256 + bytes[3], bytes[2] * 256 + bytes[1]>>

-----------------------------------------------------------------------------
\* An operation goes by its mnemonic.
Operation ==
  {"unsupported", "addiu", "addu", "subu", "and", "or", "xor", "lui", "lw", "sw",
   "beq", "bne", "j", "jal", "jr", "sll", "srl", "andi", "ori"}

\* Overlapping views of the encoded bits, not a list of operands.
DecodedInstruction ==
  [operation : Operation, word : Word32, primary_opcode : 0 .. 63, rs : 0 .. 31, rt : 0 .. 31,
   rd : 0 .. 31, shift_amount : 0 .. 31, function : 0 .. 63, immediate : Half,
   jump_index : (0 .. 1023) \X Half]

\* The overlapping views of a word's bits.
Fields(word) ==
  LET hi == word[1]
      lo == word[2] IN
  [primary_opcode |-> hi \div 1024, rs |-> (hi \div 32) % 32, rt |-> hi % 32,
   rd |-> lo \div 2048, shift_amount |-> (lo \div 64) % 32, function |-> lo % 64,
   immediate |-> lo, jump_index |-> <<hi % 1024, lo>>]

\* The register instructions that need a zero shift field.
RegisterOperation ==
  [function \in {33, 35, 36, 37, 38} |->
     CASE function = 33 -> "addu" [] function = 35 -> "subu" [] function = 36 -> "and"
       [] function = 37 -> "or" [] function = 38 -> "xor"]

\* Mutant: a shift amount is let through where it must be zero.
NoShiftAny(f) == TRUE
NoShift(f) == f.shift_amount = 0

decode_special(f) ==
  CASE f.function = 0 /\ f.rs = 0 -> "sll"
    [] f.function = 2 /\ f.rs = 0 -> "srl"
    [] f.function = 8 /\ f.rt = 0 /\ f.rd = 0 /\ NoShift(f) -> "jr"
    [] f.function \in DOMAIN RegisterOperation /\ NoShift(f) -> RegisterOperation[f.function]
    [] OTHER -> "unsupported"

ImmediateOperation ==
  [opcode \in {2, 3, 4, 5, 9, 12, 13, 35, 43} |->
     CASE opcode = 2 -> "j" [] opcode = 3 -> "jal" [] opcode = 4 -> "beq" [] opcode = 5 -> "bne"
       [] opcode = 9 -> "addiu" [] opcode = 12 -> "andi" [] opcode = 13 -> "ori"
       [] opcode = 35 -> "lw" [] opcode = 43 -> "sw"]

OperationOf(f) ==
  CASE f.primary_opcode = 0 -> decode_special(f)
    [] f.primary_opcode = 15 /\ f.rs = 0 -> "lui"
    [] f.primary_opcode \in DOMAIN ImmediateOperation ->
         ImmediateOperation[f.primary_opcode]
    [] OTHER -> "unsupported"

decode(word) ==
  LET f == Fields(word) IN
  [word |-> word, operation |-> OperationOf(f), primary_opcode |-> f.primary_opcode,
   rs |-> f.rs, rt |-> f.rt, rd |-> f.rd, shift_amount |-> f.shift_amount,
   function |-> f.function, immediate |-> f.immediate, jump_index |-> f.jump_index]

signed_immediate(f) == IF f.immediate >= 32768 THEN f.immediate - 65536 ELSE f.immediate

signed_hex(value) ==
  IF value < 0 THEN [sign |-> "minus", magnitude |-> -value]
               ELSE [sign |-> "none", magnitude |-> value]

\* Mutant: a target counts from the instruction itself.
next_pc_here(at) == at

\* pc + 4: the delay slot, from which targets count.
next_pc(at) == <<(at[1] + (at[2] + 4) \div 65536) % 65536, (at[2] + 4) % 65536>>

\* Mutant: the displacement is not sign-extended.
BranchTargetUnsigned(at, f) ==
  LET low == next_pc(at)[2] + f.immediate * 4 IN
  <<(next_pc(at)[1] + (low \div 65536)) % 65536, low % 65536>>

\* (pc + 4 + signed_immediate * 4) in 64 bits, cut to 32.
BranchTarget(at, f) ==
  LET low == next_pc(at)[2] + signed_immediate(f) * 4 IN
  <<(next_pc(at)[1] + (low \div 65536)) % 65536, low % 65536>>

\* (next_pc & 0xf0000000) | (jump_index << 2).
JumpTarget(at, f) ==
  <<(next_pc(at)[1] \div 4096) * 4096 + f.jump_index[1] * 4 + f.jump_index[2] \div 16384,
    (f.jump_index[2] * 4) % 65536>>

\* The part of an unsupported word the report counts it under.
unsupported_family(f) ==
  CASE f.primary_opcode \in {0, 28} -> <<f.primary_opcode, "function", f.function>>
    [] f.primary_opcode = 1 -> <<f.primary_opcode, "rt", f.rt>>
    [] f.primary_opcode \in 16 .. 18 -> <<f.primary_opcode, "rs", f.rs>>
    [] OTHER -> <<f.primary_opcode>>

format_instruction(word, at) ==
  LET f == decode(word)
      op == f.operation IN
  CASE op \in {"addu", "subu", "and", "or", "xor"} -> <<op, f.rd, f.rs, f.rt>>
    [] op = "addiu" -> <<op, f.rt, f.rs, signed_hex(signed_immediate(f))>>
    [] op = "lui" -> <<op, f.rt, f.immediate>>
    [] op \in {"andi", "ori"} -> <<op, f.rt, f.rs, f.immediate>>
    [] op \in {"lw", "sw"} -> <<op, f.rt, signed_hex(signed_immediate(f)), f.rs>>
    [] op \in {"beq", "bne"} -> <<op, f.rs, f.rt, BranchTarget(at, f)>>
    [] op \in {"j", "jal"} -> <<op, JumpTarget(at, f)>>
    [] op = "jr" -> <<op, f.rs>>
    [] op \in {"sll", "srl"} -> <<op, f.rd, f.rt, f.shift_amount>>
    [] op = "unsupported" -> <<op, word, unsupported_family(f)>>
=============================================================================
