--------------------------- MODULE CoreAgreement ---------------------------
(***************************************************************************)
(* The two readers of CORE, src/executable/core_image.cpp and              *)
(* scripts/inspect_reference.py, on the same container.                    *)
(***************************************************************************)
EXTENDS CoreReader

Script == INSTANCE InspectReference
  WITH elf_header_size <- 0, program_header_size <- 0

\* The evidence of the milestones rests on two readers written apart: a
\* container passes the C++ reader exactly when it passes the script's checks,
\* the limit of the C++ reader, and validate_image.
ReadersAgree ==
  pc = "done" =>
    (result.status = "image" <=>
       /\ Script!AcceptsCore(container)
       /\ container.size <= maximum_core_size /\ container.expected <= maximum_core_size
       /\ validate_image(CF!ImageOf(body)))
=============================================================================
