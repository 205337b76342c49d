--------------------------- MODULE SampleCapture ---------------------------
(***************************************************************************)
(* scripts/sample_disassembly.py, run again and again into one directory:  *)
(* gt4disasm lists one region after the other, each listing goes to a file *)
(* of its own, and the joined listing and the joined reports are written   *)
(* last.  Nothing is written beside the old file and renamed: write_text   *)
(* truncates and fills, and a run may die anywhere.                        *)
(*                                                                         *)
(* The output files are numbered in the order they are written: region i   *)
(* is file i, listing.txt and unsupported.txt come last.  A row is the     *)
(* word it lists, the build of the tool that listed it, and whether the    *)
(* line is whole; in listing.txt the row behind a torn one begins on its   *)
(* line.  A line is torn by the tool, or by a write that stops inside it.  *)
(***************************************************************************)
EXTENDS Integers, Sequences, SequencesExt

CONSTANTS
  Counts,     \* regions of the manifest: number of instructions of each
  Builds,     \* builds of gt4disasm
  MaxRuns,    \* bound on the runs
  MaxBuilds   \* bound on the times gt4disasm is built anew

ASSUME CaptureAssumption == Counts \in Seq(Nat) /\ Counts # <<>>

VARIABLES
  files,      \* file -> [run, text]: who wrote it last, and what is in it
  tool,       \* the build at the path of gt4disasm
  rebuilt,    \* times it was built anew
  run,        \* number of the current run
  pc,         \* its next step, "captured" or "failed"
  file,       \* the output file it works on
  listings, reports  \* Python lists: stdout and stderr of every region

vars == <<files, tool, rebuilt, run, pc, file, listings, reports>>

Regions == DOMAIN Counts
listing_txt == Len(Counts) + 1
unsupported_txt == Len(Counts) + 2
Files == 1 .. unsupported_txt

Init ==
  /\ files = [f \in Files |-> [run |-> 0, text |-> <<>>]]
  /\ tool \in Builds /\ rebuilt = 0
  /\ run = 0 /\ pc = "failed" /\ file = 1 /\ listings = <<>> /\ reports = <<>>

Idle == pc \in {"captured", "failed"}

Start ==
  /\ Idle /\ run < MaxRuns /\ run' = run + 1
  /\ pc' = "tool" /\ file' = 1 /\ listings' = <<>> /\ reports' = <<>>
  /\ UNCHANGED <<files, tool, rebuilt>>

-----------------------------------------------------------------------------
Row(region, i, whole) == [region |-> region, index |-> i, build |-> tool, whole |-> whole]

\* What gt4disasm may leave on stdout: lines from the first on, all whole or the
\* last one torn (Gt4Disasm, OutputIsPrefix), whatever its exit status.
Output(region) ==
  {[i \in 1 .. n |-> Row(region, i, i < n \/ whole)] :
     n \in 0 .. Counts[region], whole \in BOOLEAN}

\* Mutant: the number of lines is not looked at.
AcceptAny(status, stdout) == status = 0

\* check=True, then the number of lines; splitlines counts a torn line too.
Accept(status, stdout) == status = 0 /\ Len(stdout) = Counts[file]

RunTool ==
  /\ pc = "tool"
  /\ \E status \in {0, 1}, stdout \in Output(file) :
       IF Accept(status, stdout)
         THEN /\ listings' = Append(listings, stdout)
              /\ reports' = Append(reports, <<[region |-> file, build |-> tool, whole |-> TRUE]>>)
              /\ pc' = "open"
         ELSE pc' = "failed" /\ UNCHANGED <<listings, reports>>
  /\ UNCHANGED <<files, tool, rebuilt, run, file>>

Text(f) ==
  IF f \in Regions THEN listings[f]
  ELSE FlattenSeq(IF f = listing_txt THEN listings ELSE reports)

\* open() of write_text: the old content is gone.
Open ==
  /\ pc = "open" /\ pc' = "fill"
  /\ files' = [files EXCEPT ![file] = [run |-> run, text |-> <<>>]]
  /\ UNCHANGED <<tool, rebuilt, run, file, listings, reports>>

\* After a region the next region, after the last one the joined files.
NextFile ==
  IF file < Len(Counts) THEN "tool" ELSE IF file < unsupported_txt THEN "open" ELSE "captured"

Torn(row) == [row EXCEPT !.whole = FALSE]

\* The first n rows of a text, the last of them whole or not.
Part(text, n, torn) ==
  [k \in 1 .. n |-> IF torn /\ k = n THEN Torn(text[k]) ELSE text[k]]

\* Mutant: a short write is not an error.
FillQuietly ==
  /\ pc = "fill"
  /\ \E n \in 0 .. Len(Text(file)), torn \in BOOLEAN :
       files' = [files EXCEPT ![file].text = Part(Text(file), n, torn)]
  /\ pc' = NextFile /\ file' = IF NextFile = "captured" THEN file ELSE file + 1
  /\ UNCHANGED <<tool, rebuilt, run, listings, reports>>

\* write() and close() of write_text; one that fails, or is killed, stops at any
\* byte.
Fill ==
  /\ pc = "fill"
  /\ \/ /\ files' = [files EXCEPT ![file].text = Text(file)]
        /\ pc' = NextFile /\ file' = IF NextFile = "captured" THEN file ELSE file + 1
     \/ /\ \E n \in 0 .. Len(Text(file)), torn \in BOOLEAN :
             files' = [files EXCEPT ![file].text = Part(Text(file), n, torn)]
        /\ pc' = "failed" /\ UNCHANGED file
  /\ UNCHANGED <<tool, rebuilt, run, listings, reports>>

\* The run is killed; before its first region this is also the check of CORE.
Die ==
  /\ ~ Idle /\ pc' = "failed"
  /\ UNCHANGED <<files, tool, rebuilt, run, file, listings, reports>>

Rebuild ==
  /\ rebuilt < MaxBuilds /\ rebuilt' = rebuilt + 1
  /\ tool' \in Builds \ {tool}
  /\ UNCHANGED <<files, run, pc, file, listings, reports>>

Finished == Idle /\ run = MaxRuns /\ UNCHANGED vars

Next == Start \/ RunTool \/ Open \/ Fill \/ Die \/ Rebuild \/ Finished

Spec == Init /\ [][Next]_vars

-----------------------------------------------------------------------------
\* The words of the manifest, region by region.
Wanted == FlattenSeq([r \in Regions |-> [i \in 1 .. Counts[r] |-> <<r, i>>]])

WholeOrLast(row) == row.whole \/ row.index = Counts[row.region]

\* Only the last line of a region, or of the text, can be torn.
InOrder(text) ==
  \A k \in DOMAIN text :
    /\ k <= Len(Wanted) /\ <<text[k].region, text[k].index>> = Wanted[k]
    /\ WholeOrLast(text[k]) \/ k = Len(text)

\* "captures all ten windows from the region manifest": when a run says so, the
\* files on disk are all its own, every word of the manifest is listed, by the
\* build that wrote the report of its region - only the last line of a region
\* can be torn, which the number of lines does not show.
CapturedWhole ==
  pc = "captured" =>
    LET listing == files[listing_txt].text
        unsupported == files[unsupported_txt].text IN
    /\ \A f \in Files : files[f].run = run
    /\ InOrder(listing) /\ Len(listing) = Len(Wanted)
    /\ \A k \in DOMAIN listing : WholeOrLast(listing[k])
    /\ [r \in Regions |-> unsupported[r].region] = [r \in Regions |-> r]
    /\ \A k \in DOMAIN listing : listing[k].build = unsupported[listing[k].region].build
    /\ listing = FlattenSeq([r \in Regions |-> files[r].text])

\* listing.txt is what others read: also when runs fail or are killed, it holds
\* the words of the manifest from the first on, none twice and none left out;
\* a line is torn only at its end, or where a region ends.
ListingInOrder == InOrder(files[listing_txt].text)

\* After runs that failed, old and new files lie side by side: a region's file
\* is never older than listing.txt, nor that older than unsupported.txt, and
\* where listing.txt is of the same run it repeats the rows of the region's file,
\* but for a last row that its own write tore.
ListingFollowsRegions ==
  /\ \A f, g \in Files : f < g => files[f].run >= files[g].run
  /\ \A r \in Regions :
       files[r].run = files[listing_txt].run =>
         LET listing == files[listing_txt].text
             region == files[r].text IN
         \A k \in DOMAIN listing :
           listing[k].region = r =>
             /\ listing[k].index \in DOMAIN region
             /\ \/ listing[k] = region[listing[k].index]
                \/ k = Len(listing) /\ listing[k] = Torn(region[listing[k].index])
=============================================================================
