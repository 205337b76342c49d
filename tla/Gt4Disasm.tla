----------------------------- MODULE Gt4Disasm -----------------------------
(***************************************************************************)
(* One run of tools/gt4disasm: wmain, disassemble_region of                *)
(* src/ee/disassemble.cpp, and the two standard streams it writes to.      *)
(* cout is buffered by the C runtime and flushed when the buffer is full   *)
(* and when the process exits; cerr is not buffered.  A flush may fail.    *)
(*                                                                         *)
(* The text of a line is EeLine's subject; here a word of the text segment *)
(* is "supported" or the family it is counted under.                       *)
(***************************************************************************)
EXTENDS Integers, Sequences, FiniteSets, FiniteSetsExt

CONSTANTS
  WordSize,     \* 2^32
  Families,     \* families of unsupported words
  Texts,        \* text records of the image: address, size, words
  Starts,       \* start-address argument
  Counts,       \* instruction-count argument
  BufferLines   \* lines the buffer of cout holds

Kinds == Families \cup {"supported"}
Word == 0 .. WordSize - 1
U32(n) == n % WordSize

ASSUME DisasmAssumption ==
  /\ WordSize \in Nat \ {0} /\ BufferLines \in Nat \ {0} /\ IsFiniteSet(Families)
  /\ "supported" \notin Families
  /\ \A t \in Texts : t.address \in Word /\ t.size \in Nat
  /\ \A t \in Texts : \A i \in 0 .. (t.size \div 4) - 1 : t.words[i] \in Kinds
  /\ Starts \subseteq Word /\ Counts \subseteq Word

VARIABLES
  text, start, count,  \* arguments of disassemble_region
  pc,                  \* what is done next
  index,               \* loop variable
  unsupported_counts,  \* family -> uint32_t
  unsupported_total,
  listing,             \* cout: [good, buffer, out]
  report,              \* cerr: [good, summary, families]
  code                 \* exit status, once decided

vars == <<text, start, count, pc, index, unsupported_counts, unsupported_total,
          listing, report, code>>

arguments == <<text, start, count>>
tallies == <<unsupported_counts, unsupported_total>>

Nothing == [words |-> 0, supported |-> 0, unsupported |-> 0]

Init ==
  /\ text \in Texts /\ start \in Starts /\ count \in Counts
  /\ pc = "arguments" /\ index = 0
  /\ unsupported_counts = [f \in Families |-> 0] /\ unsupported_total = 0
  /\ listing = [good |-> TRUE, buffer |-> <<>>, out |-> <<>>]
  /\ report = [good |-> TRUE, summary |-> Nothing, families |-> {}]
  /\ code = "none"

Exit(status) == pc' = "exit" /\ code' = status

-----------------------------------------------------------------------------
\* wmain: the number of arguments, then parse_number (NumberArgument).
ParseArguments ==
  /\ pc = "arguments"
  /\ \/ pc' = "core" /\ UNCHANGED code
     \/ Exit("2")
     \/ Exit("1")
  /\ UNCHANGED <<arguments, index, tallies, listing, report>>

\* read_verified_core (Gt4Core) and reconstruct_core (CoreReader).
ReadCore ==
  /\ pc = "core"
  /\ \/ pc' = "range" /\ UNCHANGED code
     \/ Exit("1")
  /\ UNCHANGED <<arguments, index, tallies, listing, report>>

text_end == text.address + text.size

\* Mutant: the end of the range in 32 bits.
InRange32 ==
  /\ count # 0 /\ start % 4 = 0 /\ text.address % 4 = 0
  /\ text.address <= start /\ U32(start + count * 4) <= text_end /\ text_end <= WordSize

\* The check of disassemble_region; the sums are of 64 bits.
InRange ==
  /\ count # 0 /\ start % 4 = 0 /\ text.address % 4 = 0
  /\ text.address <= start /\ start + count * 4 <= text_end /\ text_end <= WordSize

CheckRange ==
  /\ pc = "range"
  /\ IF InRange THEN pc' = "line" /\ UNCHANGED code ELSE Exit("1")
  /\ UNCHANGED <<arguments, index, tallies, listing, report>>

address == U32(start + index * 4)
offset == address - text.address
KindAt(at) == text.words[at \div 4]
Line(a) == [pc |-> a, kind |-> KindAt(a - text.address)]

\* Mutant: a failed flush is forgotten.
GoodForgotten == TRUE
GoodAfterFailure == FALSE

\* A stream that went bad swallows everything; a full buffer is flushed, and a
\* flush that fails may still have written a part.
WriteLine(line) ==
  LET buffer == Append(listing.buffer, line) IN
  IF ~listing.good THEN UNCHANGED listing
  ELSE IF Len(buffer) < BufferLines
    THEN listing' = [listing EXCEPT !.buffer = buffer]
    ELSE \/ listing' = [listing EXCEPT !.buffer = <<>>, !.out = @ \o buffer]
         \/ \E n \in 0 .. Len(buffer) - 1 :
              listing' = [good |-> GoodAfterFailure, buffer |-> <<>>,
                          out |-> listing.out \o SubSeq(buffer, 1, n)]

\* Mutant: one turn too many.
InLoopTooFar == index <= count
InLoop == index < count

\* Mutant: a family met again is not counted again.
CountOnce(n) == 1
CountUp(n) == U32(n + 1)

\* One turn of the loop: read, decode, list, count.
ListWord ==
  LET kind == KindAt(offset) IN
  /\ pc = "line" /\ InLoop
  /\ WriteLine(Line(address))
  /\ IF kind = "supported" THEN UNCHANGED tallies
     ELSE /\ unsupported_total' = U32(unsupported_total + 1)
          /\ unsupported_counts' = [unsupported_counts EXCEPT ![kind] = CountUp(@)]
  /\ index' = index + 1
  /\ UNCHANGED <<arguments, pc, report, code>>

\* The region line of the report.
WriteSummary ==
  /\ pc = "line" /\ index = count /\ pc' = "families"
  /\ \/ report' = [report EXCEPT !.summary =
                     [words |-> count, supported |-> U32(count - unsupported_total),
                      unsupported |-> unsupported_total]]
     \/ report' = [report EXCEPT !.good = GoodAfterFailure]
  /\ UNCHANGED <<arguments, index, tallies, listing, code>>

\* One line for every family that was counted.
FamilyLines == {<<f, unsupported_counts[f]>> : f \in {g \in Families : unsupported_counts[g] > 0}}

WriteFamilies ==
  /\ pc = "families" /\ pc' = "check"
  /\ \/ report.good /\ report' = [report EXCEPT !.families = FamilyLines]
     \/ report.good /\ \E part \in SUBSET FamilyLines : part # FamilyLines /\
          report' = [report EXCEPT !.good = GoodAfterFailure, !.families = part]
     \/ ~report.good /\ UNCHANGED report
  /\ UNCHANGED <<arguments, index, tallies, listing, code>>

\* Mutant: the report is not looked at.
StreamsGoodListing == listing.good
StreamsGood == listing.good /\ report.good

\* if (!listing || !report) throw; otherwise wmain returns 0.
CheckStreams ==
  /\ pc = "check"
  /\ Exit(IF StreamsGood THEN "0" ELSE "1")
  /\ UNCHANGED <<arguments, index, tallies, listing, report>>

\* After wmain has returned, the C runtime flushes what is left of cout and
\* ignores a failure.
FlushAtExit ==
  /\ pc = "exit" /\ pc' = "ended"
  /\ \E n \in 0 .. Len(listing.buffer) :
       listing' = [listing EXCEPT !.buffer = <<>>,
                                  !.out = @ \o SubSeq(listing.buffer, 1, n)]
  /\ UNCHANGED <<arguments, index, tallies, report, code>>

\* The process dies: what is in the buffer is lost.
Kill ==
  /\ pc # "ended" /\ pc' = "ended" /\ code' = "killed"
  /\ listing' = [listing EXCEPT !.buffer = <<>>]
  /\ UNCHANGED <<arguments, index, tallies, report>>

Finished == pc = "ended" /\ UNCHANGED vars

Next ==
  \/ ParseArguments \/ ReadCore \/ CheckRange \/ ListWord \/ WriteSummary
  \/ WriteFamilies \/ CheckStreams \/ FlushAtExit \/ Kill \/ Finished

Spec == Init /\ [][Next]_vars

-----------------------------------------------------------------------------
\* Every variable keeps its type; the counters never run ahead of the loop.
TypeOK ==
  /\ text \in Texts /\ start \in Starts /\ count \in Counts
  /\ pc \in {"arguments", "core", "range", "line", "families", "check", "exit", "ended"}
  /\ index \in 0 .. count
  /\ unsupported_counts \in [Families -> 0 .. index] /\ unsupported_total \in 0 .. index
  /\ listing.good \in BOOLEAN /\ report.good \in BOOLEAN
  /\ Len(listing.buffer) < BufferLines
  /\ code \in {"none", "0", "1", "2", "killed"}

\* The span over four bytes of text is never checked: that every turn of the
\* loop to come reads inside the segment rests on CheckRange alone.
ReadsInsideText ==
  pc = "line" =>
    \A i \in index .. count - 1 :
      LET at == U32(start + i * 4) - text.address IN
      at >= 0 /\ at + 4 <= text.size

\* The listing the arguments ask for.
Listing == [i \in 1 .. count |-> Line(start + (i - 1) * 4)]

\* Whatever fails and whenever the process dies, what has come out is the
\* beginning of the listing: no line is missing, doubled or out of order, and
\* nothing at all comes out for a range outside the text.
OutputIsPrefix ==
  IF InRange
    THEN /\ Len(listing.out) <= count /\ listing.out = SubSeq(Listing, 1, Len(listing.out))
         /\ listing.good =>
              listing.out \o listing.buffer = SubSeq(Listing, 1, Len(listing.out \o listing.buffer))
    ELSE listing.out = <<>> /\ listing.buffer = <<>>

\* A report that is complete counts every word once, in its family.
ReportAddsUp ==
  report.good /\ pc \in {"check", "exit"} /\ index > 0 =>
    /\ report.summary.words = count
    /\ report.summary.supported
         = Cardinality({i \in 1 .. count : Listing[i].kind = "supported"})
    /\ report.summary.supported + report.summary.unsupported = count
    /\ report.summary.unsupported = MapThenSumSet(LAMBDA line : line[2], report.families)

\* Status 0 says that the report is complete and that every flush but the last
\* one succeeded: at most the lines still in cout's buffer can be missing.
ExitZeroLosesAtMostTheLastFlush ==
  code = "0" =>
    /\ report.good /\ report.summary.words = count
    /\ pc = "exit" => listing.out \o listing.buffer = Listing
    /\ Len(listing.out) > count - BufferLines

\* docs/reverse-engineering/m6-disassembly.md: "Exit 0 means the listing
\* completed".
ExitZeroMeansListed == pc = "ended" /\ code = "0" => listing.out = Listing
=============================================================================
