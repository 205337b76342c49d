---------------------------- MODULE MCGt4Disasm ----------------------------
(***************************************************************************)
(* 32-bit values scaled to 0 .. 63 (16 words of memory), texts of up to    *)
(* five words at the start, in the middle and at the very end of memory,   *)
(* aligned and not, whole and with a torn last word; a buffer of two       *)
(* lines, so that up to two flushes come before the last one.              *)
(***************************************************************************)
EXTENDS Gt4Disasm

Text(a, n, w) == [address |-> a, size |-> n, words |-> [i \in 0 .. 4 |-> w[i + 1]]]

MCTexts ==
  {Text(a, n, w) :
     a \in {0, 2, 24, 44}, n \in {0, 7, 19, 20, 21},
     w \in {<<"a", "supported", "a", "b", "supported">>,
            <<"supported", "b", "supported", "supported", "a">>}}

MCStarts == {0, 4, 20, 24, 26, 28, 40, 44, 48, 56, 60}
MCCounts == {0, 1, 2, 4, 5, 6, 63}
=============================================================================
