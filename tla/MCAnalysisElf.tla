---------------------------- MODULE MCAnalysisElf ----------------------------
(***************************************************************************)
(* A scaled-down EE: 24 bytes of RAM, 2-byte instructions, a 3-byte        *)
(* reginfo record, 4-byte pages.  The images include every way of missing  *)
(* the policy: empty and misaligned records, an entry outside text,        *)
(* overlapping records, no gap for reginfo, no room for the zero fill, and *)
(* records whose end does not fit into 32 bits.                            *)
(***************************************************************************)
EXTENDS ExportInspected

Records(addresses, sizes) == [address : addresses, size : sizes]

MCImages ==
  [entry   : {0, 2, 3, 4, 6, 62},
   reginfo : Records({0, 3, 5, 6, 7, 62}, {2, 3}),
   text    : Records({0, 2, 3, 4, 60}, {0, 2, 4, 5}),
   data    : Records({8, 10, 12, 13, 15, 20, 63}, {0, 1, 3})]
=============================================================================
