------------------------------ MODULE MCEeLine ------------------------------
(***************************************************************************)
(* Every primary opcode with register fields at their limits and every     *)
(* function code with the other fields at theirs, at addresses next to the *)
(* ends of memory and of a 256 MiB region.                                 *)
(***************************************************************************)
EXTENDS EeLine

Bytes(word) == <<word[2] % 256, word[2] \div 256, word[1] % 256, word[1] \div 256>>

\* rs and rt of 0, 1 and 31; jump indices 0, 1 .. 1023 in the upper half.
Registers == {0, 1, 31, 32, 63, 992, 1023}

Opcodes ==
  {<<opcode * 1024 + registers, immediate>> :
     opcode \in 0 .. 63, registers \in Registers,
     immediate \in {0, 1, 4, 32767, 32768, 65532, 65535}}

Specials ==
  {<<registers, rd * 2048 + shift * 64 + function>> :
     registers \in Registers, rd \in {0, 31}, shift \in {0, 1, 31}, function \in 0 .. 63}

MCTexts == {Bytes(word) : word \in Opcodes \cup Specials}

MCAddresses ==
  {<<0, 0>>, <<16, 284>>, <<0, 65532>>, <<4095, 65532>>, <<32768, 0>>, <<65535, 65532>>}
=============================================================================
