# Verification of gt4-staticrecomp

TLA+ models of the native tools of this repository (the CORE reader, the
analysis-ELF exporter, the EE decoder and disassembler, and the two command-line
tools around them) and of the scripts that check their inputs and outputs, the
TLC runs that check the models on small instances, and theorems that TLAPS
proves for every value of the constants.

`PROJECT.json` lists the components, the runs, the hazards, the theorems, and for
every definition the source lines it translates.

To check: `tlc -config X.cfg M` for every run below, `tlapm M.tla` for every
`*Proofs` module (about two minutes for the largest).

## 1. The system

Everything starts from one pinned file: the `CORE` executable container of one disc.

```
 disc image --gt4disc.py--> checked manifest
                     CORE file
                        | read_verified_core: exact size, SHA-256
                        v
                 bytes in memory
                        | reconstruct_core: header, DEFLATE, five fields
                        v
                 ExecutableImage (entry, reginfo, text, data)
              /                            \
 make_reference_analysis_elf         disassemble_region
              |                             |
 gt4core: write_new_file            gt4disasm: cout (listing), cerr (report)
              |                             |
   analysis ELF --verify_native_image.py    sample_disassembly.py,
                  inspect_reference.py      CompareDisassembly.java
```

| component | state | operations | what makes it correct |
|---|---|---|---|
| CORE reader (`src/executable/core_image.cpp`) | a position in the header and one in the inflated body, the image under construction | `ByteReader::take`, `inflate_body`, `read_record`, `reconstruct_core`, `validate_image` | no declared length moves a reader out of its bytes or an allocation over its limit; an image is returned exactly for well-formed containers |
| analysis ELF exporter (`analysis_elf.cpp`) | the cursor of the layout, the growing byte vector | `place_segment`, `write_header`, `write_program_header`, the payload loop | a loader of the file sees exactly the guest memory of the analysis policy |
| instruction decoder and formatter (`src/ee/`) | none (pure) | `decode`, `format_instruction` | a supported line names the instruction and can be assembled back; every other word is listed as data |
| region disassembler (`disassemble.cpp`) | loop index, counters, two streams | `disassemble_region` | no read outside text; the listing is complete and in order; the report adds up |
| verified CORE input (`tools/common`) | the bytes in memory | `read_verified_core` | only pinned bytes leave it, however the file changes meanwhile |
| gt4core (`tools/gt4core/main.cpp`) | one output file | `wmain`, `write_new_file` | success means one complete ELF at a path that was free |
| gt4disasm (`tools/gt4disasm/main.cpp`) | arguments, streams | `wmain`, `parse_number` | numbers are exact or refused; the exit status tells the truth |
| disc check (`scripts/gt4disc.py`) | manifest, hash so far, open directory | fingerprint, inspect, compare | the verdict is right on a quiet image; one write cannot make a wrong one pass |
| reference inspection (`inspect_reference.py`, `verify_native_image.py`) | two reports | an independent reader of CORE and ELF, and a comparison | the two readers agree; an accepted ELF loads like the reference |
| sample capture (`sample_disassembly.py`) | output directory, lists of listings and reports | run the tool, check, write the files | a finished run leaves one consistent capture |
| reference build (`build_reference.ps1`) | input, builder, output file, an environment variable | pin checks around an external program | what is accepted was made from the pinned CORE in this run; the session is left as found |
| Ghidra comparison (`CompareDisassembly.java`) | counters, addresses seen, report, markers | row comparison | VERIFIED means that every compared row agrees |
| Ghidra import checks | Ghidra's program | comparisons | an exported ELF passes them |

How they interact: by calls and return values inside one process (an exception
ends the process with status 1), and through files between processes. No tool
takes a lock; the only mutual exclusion is what Windows gives a file opened with
share mode 0 or created with `CREATE_NEW`. Nothing is concurrent inside a process.

The hard behaviours, each listed under `hazards` at its line:
32-bit arithmetic on untrusted lengths and addresses; a compressed stream that
ends early or late; padding computed from remainders; files that change between
a check and a use; two runs that create one path; runs killed in the middle of a
write; output that is buffered and whose last flush comes after its check; files
that a script hashes in one read and uses from another; directories whose files
are replaced one at a time; one format read and written by programs that were
written apart.

## 2. Modules

Constants stand for the sizes of the real machine. What is assumed about them has a
name: `GuestAssumption`, `CoreAssumption`, `ElfAssumption` and so on after the module,
`AlignmentAssumption` in `ExportInspected` (alignments are powers of two, which makes the
scripts' bit mask the exporter's remainder), `BootAssumption` in `DiscCheck` (no accepted
boot name and no serial is empty). Nothing else is assumed; TLC evaluates each on a run.

**Image formats (sequential, one thread of control)**

- `GuestImage` - `ExecutableImage`, `record_end`, `validate_record`, `validate_image`.
  Shared by the reader and the exporter.
- `CoreFormat` - the abstract specification of `reconstruct_core`: which containers
  are well formed (`WellFormed`) and what image they hold, in one step.
- `CoreReader` - the code: one action per field (`CheckCoreSize`, `ReadFlags`,
  `ReadExpectedSize`, `Inflate`, `ReadAuthentication`, `ReadRecordCount`,
  `ReadEntry`, `read_record`, `Return`), each with the throw of the
  code in the same place. A container is not a byte string but what its fields
  say and where its stream ends; the position arithmetic is the code's. zlib is
  external: for a container it has a fixed answer (where the stream ends, what it
  consumes, what it yields), and the code's tests on it are in `Inflate`.
  Refines `CoreFormat` (`CF == INSTANCE CoreFormat WITH ...`, property `ImplementsCoreFormat`).
- `ReferenceView` - the abstract specification of the exporter: the guest memory a
  loader must see, byte by byte with its origin, or a refusal.
- `AnalysisElf` - the code: `PlaceSegments` computes the layout with `uint32_t`
  arithmetic (`U32`), then the byte vector grows by one action per append,
  `resize` included (it may cut off bytes, as in C++). `view` reads the finished
  file as a loader does; refines `ReferenceView` (`RV`, property `ImplementsReferenceView`).
- `InspectReference` - the second reader of CORE and the reader of ELF files, both
  written in Python: `AcceptsCore`, `MatchesElf` and the header checks of
  `verify_native_image.py` (`HeaderValid`), as predicates, for each file is read whole.
- `CoreAgreement` - composes `CoreReader` with `InspectReference`: the two readers
  accept the same containers, up to the limits only the C++ reader has.
- `ExportInspected` - composes `AnalysisElf` with `InspectReference` and the Ghidra
  import checks: an ELF the exporter returns passes all of them.

**Instructions**

- `EeDecode` - `decode`, `decode_special`, `signed_immediate`, `format_instruction` as
  operators. TLC's integers end below 2^31, so a word is a pair of halves.
- `EeLine` - the step from four bytes and an address to a line, and the references it
  is compared with: `Encoding`, a table of the encodings of the architecture
  with the fields that must be zero, and `Assembled`, an assembler for the lines.
  Both are written apart from the decoder. TLC compares them on chosen words; the
  theorems of `ListingProofs` do for every word at every address.

**Tools (processes)**

- `NumberArgument` - `parse_number`, one action per digit.
- `OutputOnce` - the abstract specification of gt4core's effect: publish one complete
  file in one step at a free path, or fail, with at most a broken file left at a
  free path. `Gt4Core` refines it (`OO`, property `ImplementsOutputOnce`).
- `Gt4Core` - any number of gt4core runs on shared paths: `read_verified_core` block by
  block, verification, export, `write_new_file` with its partial writes and
  failures, `Kill` at every step, and the user, who edits, removes and puts files
  where Windows lets them. The pure middle part (`CoreReader`, `AnalysisElf`) is
  one step: it is deterministic and touches no file. SHA-256 is taken as injective.
- `Gt4Disasm` - one run: arguments, core, range check, one action per word,
  the report, the check of the streams, and the C runtime's flush at exit. The
  buffer of `cout` and its failing flushes are external, modelled from how the
  code uses them. A word is abstracted to the family it is counted under; what its
  line says is `EeLine`'s subject.

**Scripts (processes and the files they check)**

- `VerifyNativeImage` - one run of `verify_native_image.py`: five reads of three files, the
  reports of the two inspections (`InspectReference`), the comparison. The user may
  replace a file before any of the reads.
- `DiscCheck` - one run of `gt4disc.py`, both commands: the image is hashed chunk by
  chunk, then opened again as a file system, file by file. Others write to the image
  and reads fail. pycdlib is external: a directory and the content of each file. A
  fingerprint is a record of size and hash, and a manifest any record of the shapes that
  `validate_manifest` and `validate_identity` tell apart; one they refuse ends with status 2.
- `SampleCapture` - repeated runs of `sample_disassembly.py` into one directory. What
  one gt4disasm run may print is the beginning of its listing (`OnlyAPrefix` in `Gt4Disasm`,
  which counts lines); here its last line may also be torn, with status 0 too. `write_text` is
  an action that truncates (`Open`) and one that fills (`Fill`): a write that fails or is killed
  leaves the first rows of its text, the last of them torn or not (`Part`). The process may die
  between any two steps; gt4disasm may be built anew.
- `CompareDisassembly` - the row loop of `CompareDisassembly.java` on the texts of
  `EeDecode`. Ghidra is external: it shows an instruction, one of its aliases, or nothing.
- `ReferenceBuild` - repeated runs of `build_reference.ps1` in one session. The builder is
  external: it may write nothing, half or all, whatever status it returns. `output` is the file
  that `GetFullPath` (line 27) names; what `Test-Path` (line 17) finds says something about it
  only where the location of the session is the directory of the process (`apart`, section 6).

`MC*` modules give the constants their values; `*Proofs` modules hold the theorems, those
of two modules where they are about neighbouring parts. Therefore the smaller module of
such a pair names its specification after itself: `ParseInit`, `ParseSpec` in `NumberArgument`,
`LineInit`, `LineSpec` in `EeLine`.
Definitions marked "Mutant" are plausible mistakes in the code: substituted for
the definition they resemble, they make the property they are paired with fail.
The specifications never use them.

## 3. Runs

| run | states | question |
|---|---|---|
| `analysis_elf` | 62 650 | Is the finished file exactly the policy's view (`ImplementsReferenceView`), is every segment at the next congruent position, does `resize` never cut anything off, do the scripts and the Ghidra import checks accept it (`ExportPassesInspection`)? |
| `core_reader` | 84 897 | Is an image returned exactly for well-formed containers (`ImplementsCoreFormat`), are the reader and the allocation inside their limits, does a returned image lie in guest memory (`ReturnedImageFits`), does the Python reader accept the same containers (`ReadersAgree`)? |
| `gt4core` | 818 602 | With two runs, kills and a user who changes files: is only the pinned CORE exported, does success mean one complete ELF at a free path (`ImplementsOutputOnce`, `OneSuccessPerFreePath`), is every other file left alone (`ExistingFilesKept`)? About two minutes. |
| `gt4core_ends` | 230 000 | Does every started run end (`RunsEnd`)? |
| `ee_line` | 69 468 | Do lines name the right instruction, determine the word they came from, and show exactly the target that the signed displacement in the word gives (`TargetsAreExact`)? |
| `number_argument` | 35 870 | Is every text parsed exactly or refused? |
| `gt4disasm` | 32 210 | Are all reads inside text, is the output always a beginning of the listing, does the report add up, how much can status 0 lose? |
| `gt4disasm_exit_zero` | - | Expected violation, see section 6. |
| `verify_native_image` | 14 369 | While the three files are replaced: does an accepted native ELF load like the reference that was read (`LoadsLikeReference`), does it hold the pinned CORE (`HoldsPinnedCore`), are the zero-fill ranges right? |
| `disc_check` | 397 983 | On a quiet image, is the verdict right (`UndisturbedVerdict`), is what `inspect` prints the inspection of that image? When `verify` passes after one write, did the path hold the pinned image at some time (`OneWritePassSawPinned`)? |
| `sample_capture` | 160 810 | What does "captured" guarantee about the files (`CapturedWhole`), and what do the files hold after runs that failed or died (`ListingInOrder`, `ListingFollowsRegions`)? |
| `compare_disassembly` | 428 167 | Does VERIFIED mean that every compared row agrees, does a mismatch mean a difference, do the printed counts add up? |

### Bounds, and why they are enough

TLC's integers are below 2^31, so 32-bit values are scaled: `WordSize` is 64 and
every sum still wraps at it. What matters is the order of the quantities (record
sizes < RAM < 2^32, a page larger than an instruction, the sum of two fields
larger than a word), and the scaled constants keep it.

- `analysis_elf`: 24 bytes of RAM, 4-byte pages, 3-byte reginfo: aligned and
  misaligned addresses of text and data, gaps of zero, one and several bytes, and every way of
  missing the policy, including records whose end wraps.
- `core_reader`: 8 bytes of RAM, maximum CORE size 32. Headers vary around one good
  body, bodies behind one good header: a first failing field hides what is behind
  it, so the product of the two families adds nothing. Lengths are right, one
  off, and near the top of the type.
- `gt4core`: two runs, two paths, files of two blocks, two steps of the user (one for
  the liveness run). Two runs are enough for a race, two blocks for a partial
  write and for a file that is rewritten between two reads, two paths for input
  and output in every assignment (both runs may also use one path for both).
  `SYMMETRY` permutes the two runs in the safety run only; no property and no
  `CHOOSE` tells them apart. `MaxEdits` is the only counter bound.
- `ee_line`: every opcode and function code with fields at 0, at their ends and one off, at
  addresses at both ends of memory and of a 256 MiB jump region.
- `number_argument`: up to three digits and a largest number of 299, so that texts
  below, at and above the limit exist in both bases.
- `gt4disasm`: 16 words of memory, texts of up to five words at the start, middle and
  end of it, torn and misaligned ones too, counts up to the one whose end wraps, a buffer of two lines: up to
  two flushes come before the last one.

- `verify_native_image`: 16 bytes of memory, three CORE contents, eleven ELF files that
  differ in layout, in the type of text, in the extents of reginfo and data and in
  alignment; two replacements, so that both the reference and CORE can change and change back.
- `disc_check`: images that differ from a good one in one region, the lines of SYSTEM.CNF
  in every way `read_config` distinguishes; manifests of other images, mixed ones, and
  for every check of `validate_manifest` and `validate_identity` one that fails it; sizes are
  counted in regions; two disturbances. Two are where the guarantee of the second property ends
  (section 6), one would hide that.
- `sample_capture`: two regions of two and one instructions, three runs, two builds: a
  third run can fail over what a finished and a dead one left. Every region has a last
  line, and one has a line that is not its last, so a torn line can be either.
- `compare_disassembly`: three rows over seven words that meet every alias; a threshold
  of two non-NOP matches instead of 100, which rows can reach and miss.

### Fairness

Only `Gt4Core` states any: `WF_vars(Step(r))` for each run. The operating system
gives every process its turn and no call the tool makes waits for another
process (a file that is in use is an error, not a wait). Nobody has to kill a
run and the user has to do nothing. The other modules are sequential programs, alone or beside others who write
to their files, and their properties are safety; they end in an explicit `Finished`
stutter, so that TLC's deadlock check stays on everywhere and finds a step that is stuck.

## 4. Theorems

All are proved for every value of the constants that satisfies the named
assumptions. Each proof has the same shape: `Init => IInv`, `IInv /\ [Next]_vars =>
IInv'` with one step per action, and `IInv => P`.

| module | theorem | says | assumptions |
|---|---|---|---|
| `AnalysisElfProofs` | `TypeCorrect`, `InvariantHolds` | offsets are 32-bit values; the vector holds exactly the announced pieces | `GuestAssumption`, `ElfAssumption` |
| | `Placement` | `place_segment` finds the next congruent position | |
| | `NothingCutOff` | `resize` only appends | |
| | `Refinement` | the exporter implements `ReferenceView` | |
| | `InspectionPasses` | every returned file passes both scripts and the Ghidra import checks | and `AlignmentAssumption` |
| | `CoreToInspection` | for every container that is well formed, `inspect_reference.py` accepts the container together with the file exported from its image | and `HalfWordBytes`, `WordBytes` in `Nat` |
| `CoreReaderProofs` | `TypeCorrect`, `InvariantHolds` | what the reader knows at each field (`ReadSoFar`) | `GuestAssumption`, `CoreAssumption` |
| | `InBounds`, `Bounded` | no read out of bounds, no allocation over the limit | |
| | `ImageFits` | a returned image lies in guest memory, text and data apart | |
| | `Refinement` | `reconstruct_core` implements `CoreFormat` | |
| | `Agreement` | the C++ reader accepts exactly what the Python reader accepts within its limits | |
| `Gt4CoreProofs` | `TypeCorrect`, `PinnedOnly`, `FilesKept` | for any number of runs, paths, blocks and user steps: only the pinned CORE is exported; no run changes a byte it did not write | `Gt4CoreAssumption` |
| | `OneSuccess` | a path gives one success for each time it is freed | |
| | `Refinement` | any number of runs implement `OutputOnce` | |
| `VerifyNativeImageProofs` | `TypeCorrect`, `PinnedCoreHeld` | however files are replaced, an accepted ELF holds the pinned CORE | `VerifyAssumption` |
| | `LoadedAlike` | for any guest memory, it loads like the reference that was read | |
| | `ZeroFillExact` | the reported ranges are the zeroes a loader makes | |
| `Gt4DisasmProofs` | `ReadsInside` | the unchecked four-byte span of the loop stays in text, for every word size | `DisasmAssumption` |
| | `TypeCorrect`, `InvariantHolds` | what is listed, counted and flushed at each row | |
| | `OnlyAPrefix`, `ExitZeroAlmostListed` | whatever flush fails, the output is a beginning of the listing; status 0 loses at most the last flush | |
| | `ReportIsSum` | the report's counts add up to the rows, for any families | |
| | `NumberTypeCorrect`, `NoStepWraps` | `parse_number`'s guard leaves exactly the digits that fit | `NumberAssumption` |
| | `ArgumentIsExact` | a text of any length is parsed to its value or refused, and refused only if malformed or too large | |
| `DiscCheckProofs` | `InvariantHolds` | what is hashed, read and compared, and how far the image can have changed | `DiscAssumption`, `BootAssumption` |
| | `Verdict`, `Printed` | on a quiet image both commands answer right; a manifest that breaks one of the reader's rules gives status 2, never a comparison | |
| | `OneWrite` | one write cannot make an image pass that never was at the path | |
| `ListingProofs` | `LineInvariantHolds`, `EveryWordNamed` | for all 2^32 words, the line names the one encoding the word has, or says unsupported | `LineAssumption` |
| | `EveryWordRecovered` | at every aligned address the line assembles back to the word | |
| | `EveryTargetIsExact` | a branch target is the delay slot plus four times the signed displacement, modulo 2^32; a jump target is the word's index in the 256 MiB region of the delay slot | |
| | `CompareInvariantHolds`, `CountsAreTrue` | the first marker counts each row of the listing once, under the result the report gives it | `CompareAssumption` |
| | `NoFalseAlarm` | a row gt4disasm wrote is a mismatch only where Ghidra shows nothing | |
| | `OwnListing` | of a listing gt4disasm wrote, the mismatches are exactly the rows Ghidra does not decode | |
| | `VerifiedIsAgreed` | behind the second marker every row is unsupported or the instruction at its address | |
| `ScriptProofs` | `InvariantHolds`, `InManifestOrder` | however many runs of the capture fail or die, and wherever a write stops, listing.txt holds the manifest's words from the first on, torn only at its end or where a region ends | `CaptureAssumption` |
| | `OldAndNew` | a region's file is never older than the listing; one of the same run repeats its rows, but for a last row that its own write tore | |
| | `CapturedIsWhole` | "captured" means all files are of this run and the listing is the region files joined | |
| | `BuildTypeCorrect`, `AcceptedIsPinned` | `ReferenceBuild`: unless others write the output, an accepted one is whole and of the pinned CORE, and it is of this run or - only where location and process directory differ - the one that was there | hypotheses of the theorems |
| | `SettingKept` | the session's setting survives every ending | |

Why the invariants are what they are:

- `AnalysisElf`: `AppendOnly` and the loader's view depend on where *earlier* pieces
  are, so `FileAsAnnounced` fixes the whole content of the vector at each point.
  That the pieces do not overlap follows from `Placement`; that offsets do
  not wrap needs `ElfAssumption`: headers, RAM and two pages fit into 32 bits.
- `CoreReader`: the reader's position after a field is a sum of declared lengths.
  `ReadSoFar` says it equals the position the format gives the field, and that
  this position is inside the body; the comparison of `take()` is safe only
  because of the latter.
- `Gt4Core`: `core[r] = Pinned` is established at `verify` and has to be carried through
  every later label. `FilesKept` needs that a path being written has one writer,
  which needs that a path held for writing exists.
  `OneSuccess` needs an account: `OwnersPaid` charges each holder of a path and each success
  to a removal or to the file that is there. The refinement needs `OutputsPartial`: a file being
  written is never yet whole, so no partial write looks like the publication of `OutputOnce`.
- `Gt4Disasm`: the range check has to be remembered through the loop; the read then
  follows from `index < count` and arithmetic in which nothing wraps. `OutputIsPrefix` needs
  where the buffer stands in the listing (`Listed`), `ReportAddsUp` the count of each
  family so far (`Tallied`) and a sum over families, which a least-counterexample
  argument on the recursive function gives.
- `NumberArgument`: the value of the digits read so far is the prefix's value, so `ArgumentIsExact`
  needs that an accepted prefix determines the rest. The value is a recursive function, not
  a library induction, and its equation is proved by least counterexample too.
- `CoreAgreement`: the Python script walks with a cursor, the C++ reader with a span. `CursorIsPosition`
  says that both stand at the sum of the declared lengths before every record; the rest is
  that the two sets of checks cut off the same containers.
- `ExportInspected`: `FileAsAnnounced` gives every byte of a finished file its origin; the lemmas
  find the payload behind each program header, the entry and the import's sections in it.
- `CoreToInspection` joins two modules: `CoreReader` implements `CoreFormat`, so what it hands on is
  the image of a well-formed container; the script's cursor over that container and its search
  in the exported file then meet in one statement.
- `DiscCheck`: the image is written in the background. A region is hashed once and read once, so with at most
  one write each read saw the first or the last image; `Hashed` says of which regions which
  one. That a region is listed once in the image order (`DiscAssumption`) is needed here.

- `VerifyNativeImage`: the comparison alone does not give equal memory, for it does not
  look at file offsets. `ReportInv` carries what each inspection found, that the bytes
  behind every header are the pinned payload, to the end, where it meets the comparison.
- `ReferenceBuild`: that an accepted output is the one of this run needs that
  nothing was there when the run began to build. That is carried as history (`found`,
  `touched`), and only for sessions whose location is the directory of the process; in the
  others the output is the found one until the run's own builder writes it.
- `SampleCapture`: the files are written one after the other, so the invariant says for each
  label which files are of this run, what each holds, and that those still to be written are
  no younger than `listing.txt` was; the file in work is a `Part` of its text. Which row of which region a row of the joined listing is
  follows from the sum of the lengths before it, by a least counterexample over the regions.
- `CompareDisassembly`: each counter is the cardinality of the rows the report gives that
  result, so `MarkerAddsUp` is a fact about a partition. `NoFalseAlarm` rests on one lemma
  over all words: expanding an alias gives the line of the word it stands for.
- `EeLine`: the invariant only ties the line to the bytes; the work is in the operators. Each
  half is the sum of its fields (`HighFields`, `LowFields`, from two facts about quotients and
  remainders), the encodings and the decoder ask the same of the fields (`EncodingTable`,
  `OperationTable`), and the carry between the halves of a target is followed through
  (`Branches`, `Jumps`). `TargetsAreExact` compares in word addresses, whose
  distance modulo 2^30 is the displacement in two's complement (`Signed`).

`ReadSoFar` and `NumberTypeOK` are proved and not run. `ReferenceBuild` has
no TLC run: its properties (type, accepted output, caller's setting) are invariants of a short
loop, covered by the theorems, which hold for any number of runs and replacements.

Only model-checked: `RunsEnd`, for liveness under fairness is outside TLAPS. Every other
property of a passing run is the statement of a theorem, the two refinements
`ImplementsCoreFormat` and `ImplementsReferenceView` and that of gt4core included. The
violation of `gt4disasm_exit_zero` is TLC's alone.

## 5. Not modelled

- Payload bytes: the exporter copies records, so a byte is known by its origin.
- Error texts, the wording of summaries, register names and hexadecimal layout.
- SHA-256 and zlib themselves, pycdlib, Ghidra and the external builder: modelled from
  how the code uses them.
- `VerifyDecoderSamples.java`: a fixed table of sixteen words, compared once; it has no
  state and its input is its own source.
- What `CompareDisassembly.java` checks before its loop (the program's name, the import
  manager), and the spelling that `normalize` undoes.
- Hashes and offsets that `inspect_reference.py` only prints.
- The project-name library and the build: they have no state. The tests are read as
  evidence of what the code is expected to do.

## 6. Findings

`docs/reverse-engineering/m6-disassembly.md:25` says "Exit 0 means the listing completed".
`disassemble_region` throws if `!listing || !report`, but nothing flushes `cout` before that
check or before `wmain` returns. What is still in the buffer is written
by the C runtime afterwards, and a failure then (a full disk, a closed pipe)
no longer changes the status. The run `gt4disasm_exit_zero` shows it: all flushes succeed, the status is
0, and the last one writes a part. `ExitZeroLosesAtMostTheLastFlush`, checked by `gt4disasm`, is what status 0
does say. The line count of `sample_disassembly.py` narrows the gap to a last line that came out
only in part, which counts as a line; `Gt4Disasm` counts whole lines and claims nothing about it.

What the models of the scripts show without contradicting a claim of the repository
that a run could refute:

- `verify_native_image.py` hashes the reference in one read (line 19) and inspects another
  (line 24). If it is replaced in between, the native ELF is compared with a file that is not
  "the pinned M3 artifact" of the docstring (line 1); it still holds the pinned CORE
  (`PinnedCoreHeld`), and `LoadsLikeReference` claims the pinned reference only for a quiet disk.
- `gt4disc.py verify` reads the image twice. One write in between cannot make an image pass
  that never was at the path; two can (one before the hash ends, one before the files are read).
- `gt4disc.py inspect` prints a manifest with an empty VER or VMODE as it finds it, and
  `verify` refuses that manifest: `InspectionIsManifest` is about the others.
- The line count in `sample_disassembly.py` (line 27) cannot see a torn last line,
  which status 0 of gt4disasm allows: `CapturedWhole` excepts the last line of a region.
  In `listing.txt` such a line has no end, so the first row of the next region continues it.
- `CompareDisassembly.java` compares the rows that are in the listing. It does not ask
  whether the listing is complete, and it does not compare rows marked unsupported;
  `VerifiedMeansAgreed` says so.
  Where Ghidra shows nothing it compares with `<undecodable>`, and would take a row of that
  text for a match; gt4disasm writes none, and `CompareAssumption` excludes them.
- `build_reference.ps1` accepts what a whole ELF of the pinned CORE is. That the recorded builder
  made it is not shown: the program is started from its path after it was hashed.
- Its test for an output that is already there (lines 17-19) does not protect that output. For a
  relative `$Output`, `Test-Path` looks below PowerShell's location and `GetFullPath` (line 27) below
  the directory of the process, which `cd` does not change; the builder's write is also a later
  step than the test. In a session that changed its location to the repository root, an old output in
  the other directory can be built over or, if the builder writes nothing, be accepted as this run's:
  `AcceptedMatchesPinned` shows that it is then at least whole and of the pinned CORE.

## 7. Plan

Every component with state is modelled, and every safety property of a run is proved; two
theorems (`CoreToInspection`, `OwnListing`) state what neighbouring parts give each other.
What a last round can add:

1. `ReferenceBuild` under TLC, in place of a run that asks less, so that mutants of the script are
   tried against its properties as well.
2. The same step once more between scripts: that what `VerifyNativeImage` accepts is what
   `ExportInspected` says of an exported file.
