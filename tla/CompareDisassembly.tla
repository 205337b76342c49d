------------------------- MODULE CompareDisassembly -------------------------
(***************************************************************************)
(* One run of scripts/ghidra/CompareDisassembly.java over a listing of     *)
(* gt4disasm: row by row, the word against the imported ELF and the text   *)
(* against what Ghidra shows for it, then the report file, then the        *)
(* markers.  Texts are those of EeDecode, to which the row that gt4disasm  *)
(* means and the aliases that Ghidra shows belong; normalize() only undoes *)
(* spelling, which these texts do not have.                                *)
(***************************************************************************)
EXTENDS EeDecode, FiniteSets

CONSTANTS
  Memory,     \* words of the imported program: address -> word
  Listings,   \* what may be in listing.txt
  Threshold   \* 100 non-NOP matches

\* A row: the columns that are there, the address, the word, the text.
Columns == {"pc", "word", "text"}

\* Words have 32 bits; a listing does not hold what stands for no instruction.
ASSUME CompareAssumption ==
  /\ \A at \in DOMAIN Memory : Memory[at] \in Word32
  /\ \A lines \in Listings :
       /\ DOMAIN lines = 1 .. Len(lines) /\ Len(lines) \in Nat
       /\ \A i \in DOMAIN lines : lines[i].text # <<"undecodable">>

VARIABLES
  listing,
  pc,            \* "rows", "counts", "verdict", "verified" or "exception"
  row,           \* rows done
  addresses,     \* addresses seen
  matched, nonNopMatched, unsupported, mismatched,
  report,        \* List of result lines, the header line apart
  comparison,    \* comparison.tsv: "old", or what was written to it
  markers        \* what was printed

counters == <<matched, nonNopMatched, unsupported, mismatched>>
vars == <<listing, pc, row, addresses, counters, report, comparison, markers>>

Init ==
  /\ listing \in Listings
  /\ pc = "rows" /\ row = 0 /\ addresses = {}
  /\ matched = 0 /\ nonNopMatched = 0 /\ unsupported = 0 /\ mismatched = 0
  /\ report = <<>> /\ comparison = "old" /\ markers = <<>>

-----------------------------------------------------------------------------
\* Ghidra's text of the word at an address: the instruction, or an alias of it,
\* or nothing for a word of another subset.
Aliases(text, word) ==
  CASE word = <<0, 0>> -> {<<"nop">>}
    [] text[1] \in {"addiu", "ori"} /\ text[3] = 0 -> {<<"li", text[2], text[4]>>}
    [] text[1] = "beq" /\ text[2] = 0 /\ text[3] = 0 -> {<<"b", text[4]>>}
    [] text[1] = "beq" /\ text[2] # 0 /\ text[3] = 0 -> {<<"beqz", text[2], text[4]>>}
    [] text[1] = "bne" /\ text[3] = 0 -> {<<"bnez", text[2], text[4]>>}
    [] OTHER -> {}
Shown(word, at) ==
  LET text == format_instruction(word, at) IN
  {text} \cup Aliases(text, word) \cup {<<"undecodable">>}

\* Mutant: LI is always taken for ADDIU.
expandAlias_addiu(shown, word) ==
  IF shown = <<"nop">> /\ word = <<0, 0>> THEN <<"sll", 0, 0, 0>>
  ELSE IF shown[1] = "li" THEN <<"addiu", shown[2], 0, shown[3]>>
  ELSE IF shown[1] = "beqz" THEN <<"beq", shown[2], 0, shown[3]>>
  ELSE IF shown[1] = "bnez" THEN <<"bne", shown[2], 0, shown[3]>>
  ELSE IF shown[1] = "b" THEN <<"beq", 0, 0, shown[2]>>
  ELSE shown

\* The primary opcode tells the two meanings of LI apart.
expandAlias(shown, word) ==
  LET opcode == word[1] \div 1024 IN
  IF shown = <<"nop">> /\ word = <<0, 0>> THEN <<"sll", 0, 0, 0>>
  ELSE IF shown[1] = "li" /\ opcode = 9 THEN <<"addiu", shown[2], 0, shown[3]>>
  ELSE IF shown[1] = "li" /\ opcode = 13 THEN <<"ori", shown[2], 0, shown[3]>>
  ELSE IF shown[1] = "beqz" THEN <<"beq", shown[2], 0, shown[3]>>
  ELSE IF shown[1] = "bnez" THEN <<"bne", shown[2], 0, shown[3]>>
  ELSE IF shown[1] = "b" /\ opcode = 4 THEN <<"beq", 0, 0, shown[2]>>
  ELSE shown

\* Mutant: a repeated address is not noticed.
RefusesNoRepetition(line) ==
  Columns # line.columns \/ line.at \notin DOMAIN Memory \/ Memory[line.at] # line.word

\* What ends in an exception: a column that is missing or no number, an address
\* seen before, one outside the program, a word that is not the one there.
Refuses(line) ==
  \/ Columns # line.columns \/ line.at \in addresses
  \/ line.at \notin DOMAIN Memory \/ Memory[line.at] # line.word

\* A row goes into one counter and into the report.
Count(result, nonNop) ==
  /\ matched' = matched + (IF result = "match" THEN 1 ELSE 0)
  /\ nonNopMatched' = nonNopMatched + (IF result = "match" /\ nonNop THEN 1 ELSE 0)
  /\ unsupported' = unsupported + (IF result = "unsupported" THEN 1 ELSE 0)
  /\ mismatched' = mismatched + (IF result = "MISMATCH" THEN 1 ELSE 0)

CompareRow ==
  LET line == listing[row + 1] IN
  /\ pc = "rows" /\ row < Len(listing) /\ row' = row + 1
  /\ IF Refuses(line)
       THEN pc' = "exception" /\ UNCHANGED <<addresses, counters, report>>
       ELSE \E shown \in Shown(line.word, line.at) :
              LET result == IF line.text[1] = "unsupported" THEN "unsupported"
                            ELSE IF line.text = expandAlias(shown, line.word) THEN "match"
                            ELSE "MISMATCH" IN
              /\ addresses' = addresses \cup {line.at}
              /\ Count(result, line.word # <<0, 0>>)
              /\ report' = Append(report, [at |-> line.at, shown |-> shown, result |-> result])
              /\ UNCHANGED pc
  /\ UNCHANGED <<listing, comparison, markers>>

\* Files.write of the report, before anything is decided.
WriteReport ==
  /\ pc = "rows" /\ row = Len(listing)
  /\ \/ pc' = "counts" /\ comparison' = report
     \/ pc' = "exception" /\ \E n \in 0 .. Len(report) : comparison' = SubSeq(report, 1, n)
     \/ pc' = "exception" /\ UNCHANGED comparison
  /\ UNCHANGED <<listing, row, addresses, counters, report, markers>>

PrintCounts ==
  /\ pc = "counts" /\ pc' = "verdict"
  /\ markers' = <<[matched |-> matched, non_nop |-> nonNopMatched,
                   unsupported |-> unsupported, mismatched |-> mismatched]>>
  /\ UNCHANGED <<listing, row, addresses, counters, report, comparison>>

Accepted == mismatched = 0 /\ nonNopMatched >= Threshold

Decide ==
  /\ pc = "verdict"
  /\ IF Accepted
       THEN pc' = "verified" /\ markers' = Append(markers, "M6_DISASSEMBLY_VERIFIED")
       ELSE pc' = "exception" /\ UNCHANGED markers
  /\ UNCHANGED <<listing, row, addresses, counters, report, comparison>>

Finished == pc \in {"verified", "exception"} /\ UNCHANGED vars

Next == CompareRow \/ WriteReport \/ PrintCounts \/ Decide \/ Finished

Spec == Init /\ [][Next]_vars

-----------------------------------------------------------------------------
Honest(line) == line.text = format_instruction(Memory[line.at], line.at)

\* "Duplicate addresses, byte mismatches, fewer than 100 non-NOP matches or any
\* assembly mismatch fail verification": behind the second marker, every row is
\* marked unsupported or is the instruction at its address, whatever alias
\* Ghidra showed for it, and enough of them, at different addresses, are no NOP.
VerifiedMeansAgreed ==
  pc = "verified" =>
    /\ \A i \in DOMAIN listing : listing[i].text[1] = "unsupported" \/ Honest(listing[i])
    /\ Cardinality({listing[i].at : i \in {j \in DOMAIN listing :
         listing[j].word # <<0, 0>> /\ listing[j].text[1] # "unsupported"}}) >= Threshold

\* The first marker speaks of the whole listing and of the report on disk: one
\* line for each row, of an address no other row has and of the word that is
\* there, counted once, under the result the report gives it.
MarkerAddsUp ==
  markers # <<>> =>
    LET rows(result) == {i \in DOMAIN comparison : comparison[i].result = result}
        count == markers[1] IN
    /\ DOMAIN comparison = DOMAIN listing
    /\ \A i \in DOMAIN listing :
         comparison[i].at = listing[i].at /\ Memory[listing[i].at] = listing[i].word
    /\ Cardinality({listing[i].at : i \in DOMAIN listing}) = Len(listing)
    /\ count.matched = Cardinality(rows("match"))
    /\ count.mismatched = Cardinality(rows("MISMATCH"))
    /\ count.unsupported = Cardinality(rows("unsupported"))
    /\ count.matched + count.mismatched + count.unsupported = Len(listing)

\* No false alarm: a row that gt4disasm wrote for the word at its address is a
\* mismatch only where Ghidra decodes nothing; each of its aliases is expanded
\* to the canonical text.
MismatchMeansDifferent ==
  \A i \in DOMAIN report :
    report[i].result = "MISMATCH" => report[i].shown = <<"undecodable">> \/ ~ Honest(listing[i])
=============================================================================
