--------------------------- MODULE NumberArgument ---------------------------
(***************************************************************************)
(* parse_number of tools/gt4disasm/main.cpp: a decimal or 0x-prefixed      *)
(* hexadecimal argument, digit by digit, into a 32-bit number.             *)
(*                                                                         *)
(* A character is its value as a hexadecimal digit, or NotADigit; a text   *)
(* is its prefix (base) and the characters behind it (argument).           *)
(***************************************************************************)
EXTENDS Integers, Sequences

CONSTANTS
  MaxNumber,  \* numeric_limits<uint32_t>::max()
  MaxDigits,  \* bound on the length of a text
  NotADigit   \* any other character

ASSUME NumberAssumption ==
  /\ MaxNumber \in Nat /\ MaxNumber >= 16 /\ MaxDigits \in Nat
  /\ NotADigit \notin 0 .. 15

Character == 0 .. 15 \cup {NotADigit}

VARIABLES
  base, argument,  \* the prefix, and the characters behind it
  read,        \* number of characters consumed
  result,      \* uint32_t result
  outcome      \* "running", "returned" or "threw"

parseVars == <<base, argument, read, result, outcome>>

ParseInit ==
  /\ base \in {10, 16}
  /\ \E n \in 0 .. MaxDigits : argument \in [1 .. n -> Character]
  /\ read = 0 /\ result = 0 /\ outcome = "running"

\* Arithmetic of uint32_t.
U(n) == n % (MaxNumber + 1)

\* Mutant: the sum is compared after it has wrapped.
ExceedsWrapping(digit) == U(result * base + digit) < result

\* Mutant: the digit is left out of the check.
ExceedsAlmost(digit) == result > MaxNumber \div base

\* result > (max - digit) / base.
Exceeds(digit) == result > (MaxNumber - digit) \div base

Throw == outcome' = "threw" /\ UNCHANGED <<base, argument, read, result>>

RefuseEmpty ==
  /\ outcome = "running" /\ argument = <<>>
  /\ Throw

ReadDigit ==
  /\ outcome = "running" /\ read < Len(argument)
  /\ LET digit == argument[read + 1] IN
       IF digit = NotADigit \/ digit >= base \/ Exceeds(digit)
         THEN Throw
         ELSE /\ result' = U(result * base + digit) /\ read' = read + 1
              /\ UNCHANGED <<base, argument, outcome>>

Return ==
  /\ outcome = "running" /\ argument # <<>> /\ read = Len(argument)
  /\ outcome' = "returned"
  /\ UNCHANGED <<base, argument, read, result>>

Parsed == outcome # "running" /\ UNCHANGED parseVars

ParseNext == RefuseEmpty \/ ReadDigit \/ Return \/ Parsed

ParseSpec == ParseInit /\ [][ParseNext]_parseVars

-----------------------------------------------------------------------------
\* Every variable keeps its type.
NumberTypeOK ==
  /\ base \in {10, 16}
  /\ argument \in Seq(Character)
  /\ read \in 0 .. Len(argument)
  /\ result \in 0 .. MaxNumber
  /\ outcome \in {"running", "returned", "threw"}

\* The multiplication and the addition never wrap: every accepted digit grows
\* the number by exactly what it stands for.
NeverWraps ==
  [][read' # read =>
       result' = result * base + argument[read + 1] /\ result' <= MaxNumber]_parseVars

\* The number a text stands for, without any limit.
Value[n \in 0 .. MaxDigits] ==
  IF n = 0 THEN 0 ELSE Value[n - 1] * base + argument[n]

Meaningful == argument # <<>> /\ \A i \in DOMAIN argument : argument[i] \in 0 .. base - 1

\* A text is refused exactly when it is empty, has a character that is no digit
\* of its base, or stands for a number beyond the maximum; otherwise the number
\* returned is the one it stands for.  Leading zeroes never count.
ExactOrRefused ==
  /\ outcome = "returned" => Meaningful /\ Value[Len(argument)] = result
  /\ outcome = "threw" => ~Meaningful \/ Value[Len(argument)] > MaxNumber
=============================================================================
