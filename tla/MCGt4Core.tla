----------------------------- MODULE MCGt4Core -----------------------------
(***************************************************************************)
(* Two runs, two paths (either may be input and output of either run),     *)
(* files of two blocks: every torn read of a CORE and every partial ELF    *)
(* there can be with two blocks.  Files the user has at the start or puts  *)
(* somewhere: the pinned CORE and one of the same size.                    *)
(***************************************************************************)
EXTENDS Gt4Core, TLC

CONSTANTS r1, r2

MCPinned == <<"c1", "c2">>
MCElf == <<"e1", "e2">>
MCForeign == <<"e1", "x">>
MCBlock == {"c1", "c2", "e1", "e2", "x"}
MCUserFiles == {MCPinned, <<"x", "c2">>}
MCRuns == {r1, r2}

RunSymmetry == Permutations(Runs)
=============================================================================
