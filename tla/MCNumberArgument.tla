-------------------------- MODULE MCNumberArgument --------------------------
(***************************************************************************)
(* Texts of up to three characters, of every digit, against a maximum of   *)
(* 299 (no multiple of either base, like 2^32 - 1): it is reached, met and *)
(* exceeded by one in both bases, and by a first and by a last digit.      *)
(***************************************************************************)
EXTENDS NumberArgument
=============================================================================
