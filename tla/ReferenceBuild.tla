--------------------------- MODULE ReferenceBuild ---------------------------
(***************************************************************************)
(* scripts/build_reference.ps1, run again and again in one PowerShell      *)
(* session: the pinned CORE and the recorded builder are checked, then an  *)
(* external program reads CORE from its path and writes the output, then   *)
(* inspect_reference compares the output with CORE (InspectReference).     *)
(* Others may replace every file between two steps, and the builder may    *)
(* fail, stop half way, or return zero without any output.                 *)
(*                                                                         *)
(* $Output is a relative path, and two steps take it for different files:  *)
(* Test-Path resolves it against the location of the session, GetFullPath  *)
(* against the directory of the process, which a change of the location    *)
(* does not move.  Every step behind GetFullPath uses its result, `output' *)
(* here; what a Test-Path elsewhere finds is left open.                    *)
(*                                                                         *)
(* Hashes are injective.  An ELF is the CORE it was made from, whether it  *)
(* is whole, the builder that made it and the run it was made in.          *)
(***************************************************************************)
EXTENDS Integers

CONSTANTS
  Cores, PinnedCore,          \* what may be at the CORE path; the pinned input
  Builders, RecordedBuilder,  \* programs; the one whose hash is recorded
  Settings,                   \* values of DOTNET_ROLL_FORWARD, "Major" among them
  MaxRuns, MaxEdits           \* bounds on the runs and on the others' steps

VARIABLES
  core, builder, output,  \* what is at the three paths
  apart,                  \* the location is not the directory of the process
  setting,                \* DOTNET_ROLL_FORWARD of the session
  previous,               \* $previousRollForward
  run, pc,                \* number of the run; its next step, "accepted" or "thrown"
  printed,                \* the ELF whose hash was printed
  edits,                  \* number of the others' steps
  touched,                \* they wrote the output during this run (history)
  caller, found           \* the setting and the output when it began (history)

files == <<core, builder, output>>
session == <<setting, previous, apart>>
history == <<touched, caller, found>>
vars == <<files, session, run, pc, printed, edits, history>>

Absent == [core |-> "none", whole |-> FALSE, builder |-> "none", run |-> 0]
Elfs(runs) == [core : Cores, whole : BOOLEAN, builder : Builders, run : runs]

Ended == pc \in {"accepted", "thrown"}

Init ==
  /\ core \in Cores /\ builder \in Builders /\ output = Absent
  /\ setting \in Settings /\ previous = setting /\ apart \in BOOLEAN /\ run = 0 /\ pc = "thrown" /\ printed = Absent
  /\ edits = 0 /\ touched = FALSE /\ caller = setting /\ found = output

\* The location may have been changed since the last run.
Start ==
  /\ Ended /\ run < MaxRuns /\ run' = run + 1 /\ pc' = "core" /\ apart' \in BOOLEAN
  /\ touched' = FALSE /\ caller' = setting /\ found' = output /\ printed' = Absent
  /\ UNCHANGED <<files, setting, previous, edits>>

\* A step that goes on if `ok', and else throws.
Check(at, ok, next) ==
  /\ pc = at /\ pc' = IF ok THEN next ELSE "thrown"
  /\ UNCHANGED <<files, session, run, printed, edits, history>>

CheckCore == Check("core", core = PinnedCore, "output")

CheckOutput ==
  \E free \in BOOLEAN :
    /\ apart \/ free = (output = Absent)
    /\ Check("output", free, "builder")

\* The hash of the builder, then its directory.
CheckBuilder == Check("builder", builder = RecordedBuilder, "set")

SetRollForward ==
  /\ pc = "set" /\ pc' = "build"
  /\ previous' = setting /\ setting' = "Major"
  /\ UNCHANGED <<files, apart, run, printed, edits, history>>

\* The program that is at the path by now, on the CORE that is there by now: it
\* may write nothing, a part, or all, whatever status it returns.  A builder
\* that is not the recorded one may make its ELF from anything.
Build ==
  /\ pc = "build"
  /\ \E status \in {0, 1} : pc' = IF status = 0 THEN "restore" ELSE "restore, throw"
  /\ \/ UNCHANGED output
     \/ \E elf \in Elfs({run}) :
          /\ elf.builder = builder /\ (builder = RecordedBuilder => elf.core = core)
          /\ output' = elf
  /\ UNCHANGED <<core, builder, session, run, printed, edits, history>>

\* finally, also when the builder failed or could not be started.
Restore ==
  /\ pc \in {"restore", "restore, throw"}
  /\ pc' = IF pc = "restore" THEN "produced" ELSE "thrown"
  /\ setting' = previous
  /\ UNCHANGED <<files, previous, apart, run, printed, edits, history>>

CheckProduced == Check("produced", output # Absent, "inspect core")

\* inspect_reference: CORE once more, against its pinned hash, then the ELF.
InspectCore == Check("inspect core", core = PinnedCore, "inspect elf")

InspectElf == Check("inspect elf", output.core = PinnedCore /\ output.whole, "print")

PrintHash ==
  /\ pc = "print" /\ pc' = IF output # Absent THEN "accepted" ELSE "thrown"
  /\ printed' = output
  /\ UNCHANGED <<files, session, run, edits, history>>

\* The files cannot be read, or the session is stopped with Ctrl+C: finally runs.
Interrupted ==
  /\ ~ Ended /\ pc # "restore, throw"
  /\ pc' = IF pc \in {"build", "restore"} THEN "restore, throw" ELSE "thrown"
  /\ UNCHANGED <<files, session, run, printed, edits, history>>

Others ==
  /\ edits < MaxEdits /\ edits' = edits + 1
  /\ \/ core' \in Cores \ {core} /\ UNCHANGED <<builder, output, touched>>
     \/ builder' \in Builders \ {builder} /\ UNCHANGED <<core, output, touched>>
     \/ /\ output' \in (Elfs({0}) \cup {Absent}) \ {output}
        /\ touched' = TRUE /\ UNCHANGED <<core, builder>>
  /\ UNCHANGED <<session, run, pc, printed, caller, found>>

Finished == Ended /\ run = MaxRuns /\ UNCHANGED vars

Next ==
  \/ Start \/ CheckCore \/ CheckOutput \/ CheckBuilder \/ SetRollForward \/ Build \/ Restore
  \/ CheckProduced \/ InspectCore \/ InspectElf \/ PrintHash
  \/ Interrupted \/ Others \/ Finished

Spec == Init /\ [][Next]_vars

-----------------------------------------------------------------------------
\* Every variable keeps its type.
TypeOK ==
  /\ core \in Cores /\ builder \in Builders
  /\ {output, found, printed} \subseteq Elfs(0 .. run) \cup {Absent}
  /\ {setting, previous, caller} \subseteq Settings
  /\ run \in 0 .. MaxRuns /\ edits \in 0 .. MaxEdits /\ {touched, apart} \subseteq BOOLEAN
  /\ pc \in {"core", "output", "builder", "set", "build", "restore", "restore, throw",
             "produced", "inspect core", "inspect elf", "print", "accepted", "thrown"}

\* CORE and the builder are replaced after their hashes were taken, the builder
\* stops half way or writes nothing, an earlier run left its half: unless others
\* write the output itself, what is accepted is whole and was made from the pinned
\* CORE, and it is of this run, or - only where the location is not the directory
\* of the process - the output that was there already.  (That the recorded builder
\* made it is not shown.)
AcceptedMatchesPinned ==
  pc = "accepted" /\ ~ touched =>
    /\ printed.core = PinnedCore /\ printed.whole
    /\ printed.run = run \/ (apart /\ printed = found)

\* "Preserve the caller's setting": however a run ends, the session is left with
\* the roll-forward setting it had.
CallerSettingKept == Ended => setting = caller
=============================================================================
