-------------------------- MODULE MCSampleCapture --------------------------
(***************************************************************************)
(* Two regions, three runs, two builds.                                    *)
(***************************************************************************)
EXTENDS SampleCapture

MCCounts == <<2, 1>>
=============================================================================
