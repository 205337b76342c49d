------------------------------ MODULE Gt4Core ------------------------------
(***************************************************************************)
(* Several runs of tools/gt4core (main.cpp) on a shared directory, each    *)
(* with read_verified_core (tools/common/verified_core.cpp), the pure part *)
(* (CoreReader, AnalysisElf) and write_new_file, while the user changes    *)
(* files and may kill any run at any point.                                *)
(*                                                                         *)
(* A file is a sequence of blocks, read and written one block at a time.   *)
(* Sharing follows Windows: a file open for reading may be written by      *)
(* others but not removed, a file opened with share mode 0 may not be      *)
(* opened again at all.                                                    *)
(***************************************************************************)
EXTENDS Naturals, FiniteSets, Sequences, SequencesExt

CONSTANTS
  Runs,       \* processes running gt4core
  Paths,      \* paths they are given
  Block,      \* what a part of a file may hold
  Pinned,     \* the CORE with the pinned size and hash
  Elf,        \* the analysis ELF of the pinned CORE
  Foreign,    \* the ELF of any other CORE that parses
  Absent,     \* no file at the path
  Nowhere,    \* the path of a run without arguments
  UserFiles,  \* what the user may find or put at a path
  UserBlocks, \* what the user may write into a file
  MaxEdits    \* bound on the user's steps

ASSUME Gt4CoreAssumption ==
  /\ IsFiniteSet(Runs) /\ Nowhere \notin Paths
  /\ Pinned \in Seq(Block) /\ Elf \in Seq(Block) /\ Foreign \in Seq(Block)
  /\ UserBlocks \subseteq Block /\ UserFiles \subseteq Seq(Block) /\ Absent \notin Seq(Block)
  /\ MaxEdits \in Nat

VARIABLES
  disk,     \* path -> blocks, or Absent
  pc,       \* what each run does next
  input,    \* argv[2]
  output,   \* argv[3]
  core,     \* `bytes` of read_verified_core: what the run has in memory
  edits,    \* number of steps the user has taken
  removed   \* how often the user has removed or replaced the file of a path

vars == <<disk, pc, input, output, core, edits, removed>>

Ended == {"exit 0", "exit 1", "exit 2", "killed", "killed reporting"}

\* input is an ifstream (shared for reading and writing); the handle of
\* write_new_file shares nothing.
HeldForReading(p) == \E r \in Runs : pc[r] \in {"size", "read", "verify"} /\ input[r] = p
HeldForWriting(p) == \E r \in Runs : pc[r] \in {"write", "close"} /\ output[r] = p

Openable(p) == disk[p] # Absent /\ ~HeldForWriting(p)

\* make_reference_analysis_elf(reconstruct_core(bytes)).
Exported(bytes) == IF bytes = Pinned THEN Elf ELSE Foreign

Init ==
  /\ disk \in [Paths -> UserFiles \cup {Absent}]
  /\ pc = [r \in Runs |-> "start"]
  /\ input = [r \in Runs |-> Nowhere] /\ output = [r \in Runs |-> Nowhere]
  /\ core = [r \in Runs |-> <<>>]
  /\ edits = 0 /\ removed = [p \in Paths |-> 0]

GoTo(r, label) == pc' = [pc EXCEPT ![r] = label]

-----------------------------------------------------------------------------
\* wmain: the arguments.
ParseArguments(r) ==
  /\ pc[r] = "start"
  /\ \/ /\ \E i, o \in Paths :
             input' = [input EXCEPT ![r] = i] /\ output' = [output EXCEPT ![r] = o]
        /\ GoTo(r, "open")
     \/ GoTo(r, "exit 2") /\ UNCHANGED <<input, output>>
  /\ UNCHANGED <<disk, core, edits, removed>>

\* read_verified_core: std::ifstream, then tellg at the end.
OpenCore(r) ==
  /\ pc[r] = "open"
  /\ GoTo(r, IF Openable(input[r]) THEN "size" ELSE "exit 1")
  /\ UNCHANGED <<disk, input, output, core, edits, removed>>

CheckSize(r) ==
  /\ pc[r] = "size"
  /\ GoTo(r, IF Len(disk[input[r]]) = Len(Pinned) THEN "read" ELSE "exit 1")
  /\ UNCHANGED <<disk, input, output, core, edits, removed>>

\* Mutant: the whole file is read, however long it has become.
WantsToEnd(r) == Len(core[r]) < Len(disk[input[r]])
Wants(r) == Len(core[r]) < Len(Pinned)

\* input.read: exactly the pinned size; the file may have changed since.
ReadBlock(r) ==
  LET file == disk[input[r]]
      next == Len(core[r]) + 1 IN
  /\ pc[r] = "read"
  /\ \/ /\ Wants(r) /\ next <= Len(file)
        /\ core' = [core EXCEPT ![r] = Append(@, file[next])]
        /\ UNCHANGED pc
     \/ ~Wants(r) /\ GoTo(r, "verify") /\ UNCHANGED core
     \/ Wants(r) /\ next > Len(file) /\ GoTo(r, "exit 1") /\ UNCHANGED core
  /\ UNCHANGED <<disk, input, output, edits, removed>>

\* Mutant: the file is hashed instead of the bytes read from it.
HashedFile(r) == disk[input[r]]
Hashed(r) == core[r]

\* BCryptHash over the bytes in memory; it may itself fail.
Verify(r) ==
  /\ pc[r] = "verify"
  /\ \/ Hashed(r) = Pinned /\ GoTo(r, "parse")
     \/ GoTo(r, "exit 1")
  /\ UNCHANGED <<disk, input, output, core, edits, removed>>

\* reconstruct_core and make_reference_analysis_elf: the pinned CORE has an
\* ELF, other bytes may throw.
Parse(r) ==
  /\ pc[r] = "parse"
  /\ \/ GoTo(r, "create")
     \/ core[r] # Pinned /\ GoTo(r, "exit 1")
  /\ UNCHANGED <<disk, input, output, core, edits, removed>>

\* Mutant: CREATE_ALWAYS.
FreeAlways(r) == disk[output[r]] = Absent \/ Openable(output[r])
Free(r) == disk[output[r]] = Absent

\* Mutant: a sharing loop that waits for the path to become free.
CreateWhenFree(r) ==
  /\ pc[r] = "create" /\ Free(r)
  /\ disk' = [disk EXCEPT ![output[r]] = <<>>] /\ GoTo(r, "write")
  /\ UNCHANGED <<input, output, core, edits, removed>>

\* write_new_file: CreateFileW with CREATE_NEW and share mode 0; it may fail
\* for other reasons than a file at the path.
CreateOutput(r) ==
  /\ pc[r] = "create"
  /\ \/ /\ Free(r)
        /\ disk' = [disk EXCEPT ![output[r]] = <<>>] /\ GoTo(r, "write")
     \/ GoTo(r, "exit 1") /\ UNCHANGED disk
  /\ UNCHANGED <<input, output, core, edits, removed>>

Written(r) == disk[output[r]]

\* WriteFile, block by block; it may stop anywhere, or report failure after
\* the last block.
WriteBlock(r) ==
  /\ pc[r] = "write" /\ Len(Written(r)) < Len(Exported(core[r]))
  /\ disk' = [disk EXCEPT ![output[r]] =
                Append(@, Exported(core[r])[Len(Written(r)) + 1])]
  /\ UNCHANGED <<pc, input, output, core, edits, removed>>

\* WriteFile returns, succeeded or not.
WriteReturns(r) ==
  /\ pc[r] = "write"
  /\ GoTo(r, "close")
  /\ UNCHANGED <<disk, input, output, core, edits, removed>>

\* Mutant: `written` is not looked at.
CompleteUnchecked(r) == TRUE
Complete(r) == Len(Written(r)) = Len(Exported(core[r]))

\* CloseHandle and the check of succeeded, closed and written: the handle is
\* gone whatever it returns.
Close(r) ==
  /\ pc[r] = "close"
  /\ \/ Complete(r) /\ GoTo(r, "report")
     \/ GoTo(r, "exit 1")
  /\ UNCHANGED <<disk, input, output, core, edits, removed>>

\* The summary on cout, which nobody checks, and return 0.
Report(r) ==
  /\ pc[r] = "report"
  /\ GoTo(r, "exit 0")
  /\ UNCHANGED <<disk, input, output, core, edits, removed>>

\* The process dies; the system closes its handles.
Kill(r) ==
  /\ pc[r] \notin Ended
  /\ GoTo(r, IF pc[r] = "report" THEN "killed reporting" ELSE "killed")
  /\ UNCHANGED <<disk, input, output, core, edits, removed>>

-----------------------------------------------------------------------------
\* The user writes one block of a file, cuts it or lengthens it.
UserEdits(p) ==
  /\ edits < MaxEdits /\ Openable(p)
  /\ \/ \E i \in DOMAIN disk[p], b \in UserBlocks : disk' = [disk EXCEPT ![p][i] = b]
     \/ disk[p] # <<>> /\ disk' = [disk EXCEPT ![p] = Front(@)]
     \/ \E b \in UserBlocks : disk' = [disk EXCEPT ![p] = Append(@, b)]
  /\ edits' = edits + 1
  /\ UNCHANGED <<pc, input, output, core, removed>>

\* The user removes a file or puts one where none is.
UserRemoves(p) ==
  /\ edits < MaxEdits /\ Openable(p) /\ ~HeldForReading(p)
  /\ disk' = [disk EXCEPT ![p] = Absent]
  /\ edits' = edits + 1 /\ removed' = [removed EXCEPT ![p] = @ + 1]
  /\ UNCHANGED <<pc, input, output, core>>

UserPuts(p) ==
  /\ edits < MaxEdits /\ disk[p] = Absent
  /\ \E file \in UserFiles : disk' = [disk EXCEPT ![p] = file]
  /\ edits' = edits + 1
  /\ UNCHANGED <<pc, input, output, core, removed>>

Step(r) ==
  \/ ParseArguments(r) \/ OpenCore(r) \/ CheckSize(r) \/ ReadBlock(r)
  \/ Verify(r) \/ Parse(r) \/ CreateOutput(r) \/ WriteBlock(r)
  \/ WriteReturns(r) \/ Close(r) \/ Report(r)

\* Every run has ended.
Finished == (\A r \in Runs : pc[r] \in Ended) /\ UNCHANGED vars

Next ==
  \/ \E r \in Runs : Step(r) \/ Kill(r)
  \/ \E p \in Paths : UserEdits(p) \/ UserRemoves(p) \/ UserPuts(p)
  \/ Finished

\* The system gives every process its turn; nobody has to kill one, and the
\* user need not do anything.
Fairness == \A r \in Runs : WF_vars(Step(r))

Spec == Init /\ [][Next]_vars /\ Fairness

-----------------------------------------------------------------------------
Labels ==
  Ended \cup {"start", "open", "size", "read", "verify", "parse", "create",
              "write", "close", "report"}

\* Every variable keeps its type.
TypeOK ==
  /\ disk \in [Paths -> {Absent} \cup Seq(Block)]
  /\ pc \in [Runs -> Labels]
  /\ input \in [Runs -> Paths \cup {Nowhere}]
  /\ output \in [Runs -> Paths \cup {Nowhere}]
  /\ core \in [Runs -> Seq(Block)] /\ \A r \in Runs : Len(core[r]) <= Len(Pinned)
  /\ edits \in 0 .. MaxEdits
  /\ removed \in [Paths -> Nat]

Succeeded(r) == pc[r] \in {"report", "exit 0", "killed reporting"}

\* Only the pinned CORE is ever parsed and exported, however the input file is
\* rewritten between the size check, the reads and the verification: what was
\* verified is the memory that is parsed, not the file.
OnlyPinnedIsExported ==
  \A r \in Runs :
    pc[r] \in {"parse", "create", "write", "close"} \/ Succeeded(r) =>
      core[r] = Pinned

\* The comment at CREATE_NEW: of all the runs that ever succeed on one path, no
\* two did so without the user removing the file in between - not by racing,
\* not by retrying, not over a partial output, not over the input itself.
OneSuccessPerFreePath ==
  \A p \in Paths :
    Cardinality({r \in Runs : Succeeded(r) /\ output[r] = p}) <= removed[p] + 1

\* No step of a run changes a byte of a file that was there before the run
\* created one: files only grow, under the handle of the run that made them.
ExistingFilesKept ==
  [][edits' = edits =>
       \A p \in Paths :
         disk'[p] # disk[p] =>
           \/ disk[p] = Absent /\ disk'[p] = <<>>
           \/ /\ disk[p] # Absent /\ IsPrefix(disk[p], disk'[p])
              /\ \E r \in Runs :
                   /\ output[r] = p /\ pc[r] = "write"
                   /\ \A s \in Runs \ {r} : output[s] = p => pc[s] # "write"]_vars

\* Every run comes to an end: no state of the files makes it wait.
RunsEnd == \A r \in Runs : (pc[r] # "start") ~> (pc[r] \in Ended)

\* Seen from outside - nobody can open a file while its writer holds it - a run
\* puts the complete ELF at a free path in one step and then reports success,
\* or it fails, with a broken file left at a path that was free, or nothing.
visible == [p \in Paths |-> IF HeldForWriting(p) THEN Absent ELSE disk[p]]
outcome ==
  [r \in Runs |-> IF Succeeded(r) THEN "published"
                  ELSE IF pc[r] \in Ended THEN "failed" ELSE "running"]

OO == INSTANCE OutputOnce WITH visible <- visible, outcome <- outcome, edits <- edits

ImplementsOutputOnce == OO!Spec
=============================================================================
