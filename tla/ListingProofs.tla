---------------------------- MODULE ListingProofs ----------------------------
(***************************************************************************)
(* The lines of a listing.  What disassemble_region writes names the       *)
(* instruction and determines the word, for all 2^32 words at every        *)
(* address; what CompareDisassembly.java says of a listing is true, for    *)
(* any memory and any listing.                                             *)
(***************************************************************************)
EXTENDS EeLine, CompareDisassembly, FiniteSetTheorems, TLAPS

-----------------------------------------------------------------------------
(* CompareDisassembly.java.                                                *)

\* Which fields an immediate instruction's line was decoded from.
LEMMA ImmediateText ==
  ASSUME NEW word \in Word32, NEW at
  PROVE  LET text == format_instruction(word, at) IN
         /\ text[1] \in Operation
         /\ text[1] = "addiu" => word[1] \div 1024 = 9 /\ text = <<"addiu", text[2], text[3], text[4]>>
         /\ text[1] = "ori" => word[1] \div 1024 = 13 /\ text = <<"ori", text[2], text[3], text[4]>>
         /\ text[1] = "beq" => word[1] \div 1024 = 4 /\ text = <<"beq", text[2], text[3], text[4]>>
         /\ text[1] = "bne" => text = <<"bne", text[2], text[3], text[4]>>
         /\ word = <<0, 0>> => text = <<"sll", 0, 0, 0>>
<1>. DEFINE f == Fields(word)
            op == OperationOf(f)
            d == decode(word)
            text == format_instruction(word, at)
<1>1. /\ op \in Operation
      /\ op = "addiu" => f.primary_opcode = 9
      /\ op = "ori" => f.primary_opcode = 13
      /\ op = "beq" => f.primary_opcode = 4
  <2>. HIDE DEF f
  <2>1. CASE f.primary_opcode = 0
    <3>1. op = decode_special(f)
      <4>1. f.primary_opcode \notin DOMAIN ImmediateOperation
        BY <2>1 DEF ImmediateOperation
      <4>. QED BY <2>1, <4>1 DEF OperationOf
    <3>2. decode_special(f) \in {"sll", "srl", "jr", "addu", "subu", "and", "or", "xor", "unsupported"}
      BY DEF decode_special, RegisterOperation
    <3>. QED BY <3>1, <3>2 DEF Operation
  <2>2. CASE f.primary_opcode = 15 /\ f.rs = 0
    <3>1. f.primary_opcode \notin DOMAIN ImmediateOperation
      BY <2>2 DEF ImmediateOperation
    <3>2. op = "lui"
      BY <2>2, <3>1 DEF OperationOf
    <3>. QED BY <3>2 DEF Operation
  <2>3. CASE f.primary_opcode \in DOMAIN ImmediateOperation
    <3>1. op = ImmediateOperation[f.primary_opcode]
      BY <2>3 DEF OperationOf, ImmediateOperation
    <3>. QED BY <2>3, <3>1 DEF ImmediateOperation, Operation
  <2>4. CASE f.primary_opcode # 0 /\ ~(f.primary_opcode = 15 /\ f.rs = 0)
             /\ f.primary_opcode \notin DOMAIN ImmediateOperation
    BY <2>4 DEF OperationOf, Operation
  <2>. QED BY <2>1, <2>2, <2>3, <2>4
<1>2. f.primary_opcode = word[1] \div 1024
  BY DEF Fields
<1>3. d.operation = op
  BY DEF decode
<1>5. ASSUME word = <<0, 0>> PROVE text = <<"sll", 0, 0, 0>>
  <2>1. f.primary_opcode = 0 /\ f.rs = 0 /\ f.rt = 0 /\ f.rd = 0 /\ f.shift_amount = 0 /\ f.function = 0
    BY <1>5 DEF Fields
  <2>2. op = "sll"
    <3>. HIDE DEF f
    <3>1. f.primary_opcode \notin DOMAIN ImmediateOperation /\ f.function \notin DOMAIN RegisterOperation
      BY <2>1 DEF ImmediateOperation, RegisterOperation
    <3>2. decode_special(f) = "sll"
      BY <2>1, <3>1 DEF decode_special
    <3>. QED BY <2>1, <3>1, <3>2 DEF OperationOf
  <2>3. d.rd = 0 /\ d.rt = 0 /\ d.shift_amount = 0
    BY <2>1 DEF decode
  <2>4. text = <<"sll", 0, 0, 0>>
    <3>. HIDE DEF d, op
    <3>. QED BY <1>3, <2>2, <2>3 DEF format_instruction, d
  <2>. QED BY <2>4
<1>6. ASSUME NEW name, op = name, name \in {"addiu", "ori", "beq", "bne"}
      PROVE  text = <<name, text[2], text[3], text[4]>>
  <2>. HIDE DEF op, d
  <2>1. CASE name = "addiu"
    <3>1. text = <<op, d.rt, d.rs, signed_hex(signed_immediate(d))>>
      BY <1>3, <1>6, <2>1 DEF format_instruction, d
    <3>. HIDE DEF text
    <3>. QED BY <1>6, <3>1
  <2>2. CASE name = "ori"
    <3>1. text = <<op, d.rt, d.rs, d.immediate>>
      BY <1>3, <1>6, <2>2 DEF format_instruction, d
    <3>. HIDE DEF text
    <3>. QED BY <1>6, <3>1
  <2>3. CASE name \in {"beq", "bne"}
    <3>1. text = <<op, d.rs, d.rt, BranchTarget(at, d)>>
      BY <1>3, <1>6, <2>3 DEF format_instruction, d
    <3>. HIDE DEF text
    <3>. QED BY <1>6, <3>1
  <2>. QED BY <1>6, <2>1, <2>2, <2>3
<1>7. text[1] = op
  <2>. HIDE DEF op, d
  <2>. QED BY <1>1, <1>3 DEF format_instruction, d, Operation
<1>. HIDE DEF text, op, f
<1>. QED BY <1>1, <1>2, <1>5, <1>6, <1>7 DEF text

\* Every alias of an instruction is expanded to the canonical text.
LEMMA AliasExpanded ==
  ASSUME NEW word \in Word32, NEW at, NEW shown \in Shown(word, at), shown # <<"undecodable">>
  PROVE  expandAlias(shown, word) = format_instruction(word, at)
<1>. DEFINE text == format_instruction(word, at)
<1>1. /\ text[1] \in Operation
      /\ text[1] = "addiu" => word[1] \div 1024 = 9 /\ text = <<"addiu", text[2], text[3], text[4]>>
      /\ text[1] = "ori" => word[1] \div 1024 = 13 /\ text = <<"ori", text[2], text[3], text[4]>>
      /\ text[1] = "beq" => word[1] \div 1024 = 4 /\ text = <<"beq", text[2], text[3], text[4]>>
      /\ text[1] = "bne" => text = <<"bne", text[2], text[3], text[4]>>
      /\ word = <<0, 0>> => text = <<"sll", 0, 0, 0>>
  BY ImmediateText
<1>2. shown = text \/ shown \in Aliases(text, word)
  BY DEF Shown
<1>. HIDE DEF text
<1>. SUFFICES expandAlias(shown, word) = text
  BY DEF text
<1>3. CASE shown = text
  <2>1. shown[1] \notin {"nop", "li", "beqz", "bnez", "b"}
    BY <1>1, <1>3 DEF Operation
  <2>2. shown # <<"nop">>
    BY <2>1
  <2>. QED BY <1>3, <2>1, <2>2 DEF expandAlias
<1>4. CASE word = <<0, 0>> /\ shown \in Aliases(text, word)
  <2>1. text[1] = "sll"
    BY <1>1, <1>4
  <2>2. Aliases(text, word) = {<<"nop">>}
    BY <1>4, <2>1 DEF Aliases
  <2>. QED BY <1>1, <1>4, <2>2 DEF expandAlias
<1>5. CASE word # <<0, 0>> /\ shown \in Aliases(text, word)
  <2>1. CASE text[1] = "addiu" /\ text[3] = 0
    <3>1. shown = <<"li", text[2], text[4]>>
      BY <1>5, <2>1 DEF Aliases
    <3>2. expandAlias(shown, word) = <<"addiu", text[2], 0, text[4]>>
      BY <1>1, <1>5, <2>1, <3>1 DEF expandAlias
    <3>. QED BY <1>1, <2>1, <3>2
  <2>2. CASE text[1] = "ori" /\ text[3] = 0
    <3>1. shown = <<"li", text[2], text[4]>>
      BY <1>5, <2>2 DEF Aliases
    <3>2. expandAlias(shown, word) = <<"ori", text[2], 0, text[4]>>
      BY <1>1, <1>5, <2>2, <3>1 DEF expandAlias
    <3>. QED BY <1>1, <2>2, <3>2
  <2>3. CASE text[1] = "beq" /\ text[2] = 0 /\ text[3] = 0
    <3>1. shown = <<"b", text[4]>>
      BY <1>5, <2>3 DEF Aliases
    <3>2. expandAlias(shown, word) = <<"beq", 0, 0, text[4]>>
      BY <1>1, <1>5, <2>3, <3>1 DEF expandAlias
    <3>. QED BY <1>1, <2>3, <3>2
  <2>4. CASE text[1] = "beq" /\ text[2] # 0 /\ text[3] = 0
    <3>1. shown = <<"beqz", text[2], text[4]>>
      BY <1>5, <2>4 DEF Aliases
    <3>2. expandAlias(shown, word) = <<"beq", text[2], 0, text[4]>>
      BY <1>1, <1>5, <2>4, <3>1 DEF expandAlias
    <3>. QED BY <1>1, <2>4, <3>2
  <2>5. CASE text[1] = "bne" /\ text[3] = 0
    <3>1. shown = <<"bnez", text[2], text[4]>>
      BY <1>5, <2>5 DEF Aliases
    <3>2. expandAlias(shown, word) = <<"bne", text[2], 0, text[4]>>
      BY <1>1, <1>5, <2>5, <3>1 DEF expandAlias
    <3>. QED BY <1>1, <2>5, <3>2
  <2>6. CASE ~(text[1] \in {"addiu", "ori", "bne", "beq"} /\ text[3] = 0)
    <3>1. Aliases(text, word) = {}
      BY <1>5, <2>6 DEF Aliases
    <3>. QED BY <1>5, <3>1
  <2>. QED BY <2>1, <2>2, <2>3, <2>4, <2>5, <2>6
<1>. QED BY <1>2, <1>3, <1>4, <1>5

LEMMA PlaceholderKept ==
  ASSUME NEW word PROVE expandAlias(<<"undecodable">>, word) = <<"undecodable">>
BY DEF expandAlias

-----------------------------------------------------------------------------
Results == {"match", "unsupported", "MISMATCH"}
ReportLine ==
  [at : DOMAIN Memory, shown : UNION {Shown(Memory[at], at) : at \in DOMAIN Memory}, result : Results]

ResultOf(line, shown) ==
  IF line.text[1] = "unsupported" THEN "unsupported"
  ELSE IF line.text = expandAlias(shown, line.word) THEN "match" ELSE "MISMATCH"

\* What the report says of a row.
RowReported(i) ==
  /\ report[i].at = listing[i].at
  /\ listing[i].at \in DOMAIN Memory /\ Memory[listing[i].at] = listing[i].word
  /\ report[i].shown \in Shown(listing[i].word, listing[i].at)
  /\ report[i].result = ResultOf(listing[i], report[i].shown)

Of(result) == {i \in DOMAIN report : report[i].result = result}
NonNop == {listing[i].at : i \in {j \in Of("match") : listing[j].word # <<0, 0>>}}

\* The counters are what they count.
Counted ==
  /\ matched = Cardinality(Of("match")) /\ mismatched = Cardinality(Of("MISMATCH"))
  /\ unsupported = Cardinality(Of("unsupported"))
  /\ matched + mismatched + unsupported = Len(report)
  /\ IsFiniteSet(NonNop) /\ nonNopMatched = Cardinality(NonNop)

Compared ==
  /\ listing \in Listings /\ report \in Seq(ReportLine) /\ Len(report) <= Len(listing)
  /\ \A i \in DOMAIN report : RowReported(i)
  /\ addresses = {listing[i].at : i \in DOMAIN report}
  /\ IsFiniteSet(addresses) /\ Cardinality(addresses) = Len(report)
  /\ pc = "rows" => row = Len(report)
  /\ Counted

Totals == [matched |-> matched, non_nop |-> nonNopMatched,
           unsupported |-> unsupported, mismatched |-> mismatched]

Printed ==
  /\ pc \in {"rows", "counts", "verdict", "verified", "exception"}
  /\ pc \in {"rows", "counts"} => markers = <<>>
  /\ pc = "verdict" => markers = <<Totals>>
  /\ pc = "verified" => Accepted
  /\ pc \in {"counts", "verdict", "verified"} => comparison = report /\ Len(report) = Len(listing)
  /\ markers # <<>> =>
       comparison = report /\ Len(report) = Len(listing) /\ markers[1] = Totals

CompareInv == Compared /\ Printed

LEMMA ReportFacts ==
  ASSUME Compared
  PROVE  /\ Len(report) \in Nat /\ DOMAIN report = 1 .. Len(report)
         /\ Len(listing) \in Nat /\ DOMAIN listing = 1 .. Len(listing)
         /\ \A result \in Results :
              Of(result) \subseteq Nat /\ IsFiniteSet(Of(result)) /\ Cardinality(Of(result)) \in Nat
<1>1. Len(report) \in Nat /\ DOMAIN report = 1 .. Len(report)
  BY DEF Compared
<1>2. Len(listing) \in Nat /\ DOMAIN listing = 1 .. Len(listing)
  BY CompareAssumption DEF Compared
<1>3. ASSUME NEW result \in Results
      PROVE  Of(result) \subseteq Nat /\ IsFiniteSet(Of(result)) /\ Cardinality(Of(result)) \in Nat
  <2>1. Of(result) \in SUBSET (1 .. Len(report))
    BY <1>1 DEF Of
  <2>2. IsFiniteSet(1 .. Len(report))
    BY <1>1, FS_Interval
  <2>3. IsFiniteSet(Of(result))
    BY <2>1, <2>2, FS_Subset
  <2>. QED BY <2>1, <2>3, FS_CardinalityType
<1>. QED BY <1>1, <1>2, <1>3

LEMMA CompareInitInv == Init => CompareInv
<1> SUFFICES ASSUME Init PROVE CompareInv
  OBVIOUS
<1>0. /\ listing \in Listings /\ pc = "rows" /\ row = 0 /\ addresses = {}
      /\ matched = 0 /\ nonNopMatched = 0 /\ unsupported = 0 /\ mismatched = 0
      /\ report = <<>> /\ markers = <<>>
  BY DEF Init
<1>1. Len(report) = 0 /\ DOMAIN report = {} /\ report \in Seq(ReportLine)
  BY <1>0
<1>2. Len(listing) \in Nat
  BY <1>0, CompareAssumption
<1>3. \A result : Of(result) = {}
  BY <1>1 DEF Of
<1>4. NonNop = {}
  BY <1>3 DEF NonNop
<1>5. addresses = {listing[i].at : i \in DOMAIN report}
  BY <1>0, <1>1
<1>6. Counted
  <2>1. Of("match") = {} /\ Of("MISMATCH") = {} /\ Of("unsupported") = {}
    BY <1>3
  <2>2. IsFiniteSet({}) /\ Cardinality({}) = 0
    BY FS_EmptySet
  <2>3. /\ matched = Cardinality(Of("match")) /\ mismatched = Cardinality(Of("MISMATCH"))
        /\ unsupported = Cardinality(Of("unsupported"))
    BY <1>0, <2>1, <2>2
  <2>4. matched + mismatched + unsupported = Len(report)
    BY <1>0, <1>1
  <2>5. IsFiniteSet(NonNop) /\ nonNopMatched = Cardinality(NonNop)
    BY <1>0, <1>4, <2>2
  <2>. QED BY <2>3, <2>4, <2>5 DEF Counted
<1>7. Compared
  BY <1>0, <1>1, <1>2, <1>5, <1>6, FS_EmptySet DEF Compared
<1>. QED BY <1>0, <1>7 DEF CompareInv, Printed

\* A row is compared: the report grows by its line.
LEMMA RowCompared ==
  ASSUME Compared, CompareRow, ~ Refuses(listing[row + 1])
  PROVE  Compared'
<1>. DEFINE line == listing[row + 1]
            n == Len(report)
<1>1. /\ row = n /\ row < Len(listing) /\ row' = row + 1 /\ UNCHANGED <<listing, pc>> /\ pc = "rows"
      /\ n \in Nat /\ DOMAIN report = 1 .. n /\ Len(listing) \in Nat
  BY ReportFacts DEF CompareRow, Compared
<1>2. /\ line.at \notin addresses /\ line.at \in DOMAIN Memory /\ Memory[line.at] = line.word
  BY DEF Refuses
<1>3. PICK shown \in Shown(line.word, line.at) :
        /\ addresses' = addresses \cup {line.at}
        /\ Count(ResultOf(line, shown), line.word # <<0, 0>>)
        /\ report' = Append(report, [at |-> line.at, shown |-> shown, result |-> ResultOf(line, shown)])
  BY DEF CompareRow, ResultOf
<1>. DEFINE result == ResultOf(line, shown)
            new == [at |-> line.at, shown |-> shown, result |-> result]
<1>4. result \in Results
  BY DEF ResultOf, Results
<1>5. new \in ReportLine
  BY <1>2, <1>3, <1>4 DEF ReportLine
<1>6. new.at = line.at /\ new.shown = shown /\ new.result = result
  OBVIOUS
<1>. HIDE DEF new
<1>7. /\ report' \in Seq(ReportLine) /\ Len(report') = n + 1 /\ DOMAIN report' = 1 .. n + 1
      /\ \A i \in 1 .. n : report'[i] = report[i]
      /\ report'[n + 1] = new
  BY <1>1, <1>3, <1>5 DEF Compared, new
<1>8. ASSUME NEW i \in DOMAIN report' PROVE RowReported(i)'
  <2>1. CASE i = n + 1
    BY <1>1, <1>2, <1>3, <1>6, <1>7, <2>1 DEF RowReported, result
  <2>2. CASE i # n + 1
    <3>1. i \in 1 .. n
      BY <1>1, <1>7, <2>2
    <3>2. RowReported(i) /\ report'[i] = report[i]
      BY <1>1, <1>7, <3>1 DEF Compared
    <3>. QED BY <1>1, <3>2 DEF RowReported
  <2>. QED BY <2>1, <2>2
<1>. HIDE DEF result
<1>9. addresses' = {listing'[i].at : i \in DOMAIN report'}
  <2>1. addresses = {listing[i].at : i \in 1 .. n}
    BY <1>1 DEF Compared
  <2>2. 1 .. n + 1 = (1 .. n) \cup {n + 1}
    BY <1>1
  <2>. QED BY <1>1, <1>3, <1>7, <2>1, <2>2
<1>10. IsFiniteSet(addresses') /\ Cardinality(addresses') = n + 1
  BY <1>2, <1>3, FS_AddElement DEF Compared
<1>11. ASSUME NEW kind \in Results
       PROVE  Cardinality(Of(kind)') = Cardinality(Of(kind)) + (IF result = kind THEN 1 ELSE 0)
  <2>1. n + 1 \notin Of(kind)
    BY <1>1 DEF Of
  <2>2. Of(kind)' = IF result = kind THEN Of(kind) \cup {n + 1} ELSE Of(kind)
    <3>1. 1 .. n + 1 = (1 .. n) \cup {n + 1}
      BY <1>1
    <3>. QED BY <1>1, <1>6, <1>7, <3>1 DEF Of
  <2>3. IsFiniteSet(Of(kind)) /\ Cardinality(Of(kind)) \in Nat
    BY ReportFacts
  <2>4. Cardinality(Of(kind) \cup {n + 1}) = Cardinality(Of(kind)) + 1
    BY <2>1, <2>3, FS_AddElement
  <2>5. CASE result = kind
    BY <2>2, <2>4, <2>5
  <2>6. CASE result # kind
    BY <2>2, <2>3, <2>6
  <2>. QED BY <2>5, <2>6
<1>12. Counted'
  <2>1. /\ matched' = Cardinality(Of("match")') /\ mismatched' = Cardinality(Of("MISMATCH")')
        /\ unsupported' = Cardinality(Of("unsupported")')
    BY <1>3, <1>11 DEF Counted, Compared, Count, Results, result
  <2>2. matched' + mismatched' + unsupported' = n + 1
    <3>1. matched \in Nat /\ mismatched \in Nat /\ unsupported \in Nat
      BY ReportFacts DEF Compared, Counted, Results
    <3>2. /\ matched' = matched + (IF result = "match" THEN 1 ELSE 0)
          /\ unsupported' = unsupported + (IF result = "unsupported" THEN 1 ELSE 0)
          /\ mismatched' = mismatched + (IF result = "MISMATCH" THEN 1 ELSE 0)
      BY <1>3 DEF Count, result
    <3>3. matched + mismatched + unsupported = n
      BY DEF Compared, Counted
    <3>. QED BY <1>1, <1>4, <3>1, <3>2, <3>3 DEF Results
  <2>3. IsFiniteSet(NonNop') /\ nonNopMatched' = Cardinality(NonNop')
    <3>0. IsFiniteSet(NonNop) /\ nonNopMatched = Cardinality(NonNop) /\ nonNopMatched \in Nat
      BY FS_CardinalityType DEF Compared, Counted
    <3>1. NonNop' = IF result = "match" /\ line.word # <<0, 0>> THEN NonNop \cup {line.at} ELSE NonNop
      <4>1. Of("match")' = IF result = "match" THEN Of("match") \cup {n + 1} ELSE Of("match")
        <5>1. 1 .. n + 1 = (1 .. n) \cup {n + 1}
          BY <1>1
        <5>. QED BY <1>1, <1>6, <1>7, <5>1 DEF Of
      <4>2. line = listing[n + 1]
        BY <1>1
      <4>. HIDE DEF line
      <4>. QED BY <1>1, <4>1, <4>2 DEF NonNop
    <3>2. NonNop \subseteq addresses
      BY DEF NonNop, Compared, Of
    <3>3. line.at \notin NonNop
      BY <1>2, <3>2
    <3>4. nonNopMatched' = nonNopMatched + (IF result = "match" /\ line.word # <<0, 0>> THEN 1 ELSE 0)
      BY <1>3 DEF Count, result
    <3>5. IsFiniteSet(NonNop \cup {line.at}) /\ Cardinality(NonNop \cup {line.at}) = Cardinality(NonNop) + 1
      BY <3>0, <3>3, FS_AddElement
    <3>6. CASE result = "match" /\ line.word # <<0, 0>>
      BY <3>0, <3>1, <3>4, <3>5, <3>6
    <3>7. CASE ~(result = "match" /\ line.word # <<0, 0>>)
      BY <3>0, <3>1, <3>4, <3>7
    <3>. QED BY <3>6, <3>7
  <2>. QED BY <1>7, <2>1, <2>2, <2>3 DEF Counted
<1>. QED BY <1>1, <1>7, <1>8, <1>9, <1>10, <1>12 DEF Compared

\* A step that leaves the counters and the report alone.
LEMMA ComparedKept ==
  ASSUME Compared, UNCHANGED <<listing, addresses, counters, report>>, pc' = "rows" => row' = Len(report)
  PROVE  Compared'
<1>1. UNCHANGED <<listing, addresses, matched, nonNopMatched, unsupported, mismatched, report>>
  BY DEF counters
<1>2. \A i : RowReported(i)' = RowReported(i)
  BY <1>1 DEF RowReported
<1>3. NonNop' = NonNop /\ \A result : Of(result)' = Of(result)
  BY <1>1 DEF NonNop, Of
<1>4. Counted'
  BY <1>1, <1>3 DEF Compared, Counted
<1>. QED BY <1>1, <1>2, <1>4 DEF Compared

LEMMA CompareStepInv == CompareInv /\ [Next]_vars => CompareInv'
<1> SUFFICES ASSUME Compared, Printed, [Next]_vars PROVE Compared' /\ Printed'
  BY DEF CompareInv
<1>0. /\ Len(report) \in Nat /\ Len(listing) \in Nat
      /\ Len(report) <= Len(listing) /\ (pc = "rows" => row = Len(report))
  BY ReportFacts DEF Compared
<1>1. CASE CompareRow /\ Refuses(listing[row + 1])
  <2>1. pc = "rows" /\ pc' = "exception" /\ UNCHANGED <<listing, comparison, markers, addresses, counters, report>>
    BY <1>1 DEF CompareRow
  <2>2. Compared'
    BY <2>1, ComparedKept
  <2>. QED BY <2>1, <2>2 DEF Printed
<1>2. CASE CompareRow /\ ~ Refuses(listing[row + 1])
  <2>1. Compared'
    BY <1>2, RowCompared
  <2>2. pc = "rows" /\ pc' = pc /\ UNCHANGED <<comparison, markers>>
    BY <1>2 DEF CompareRow
  <2>. QED BY <2>1, <2>2 DEF Printed
<1>3. CASE WriteReport
  <2>1. /\ pc = "rows" /\ row = Len(listing) /\ UNCHANGED <<listing, row, addresses, counters, report, markers>>
        /\ \/ pc' = "counts" /\ comparison' = report
           \/ pc' = "exception"
    BY <1>3 DEF WriteReport
  <2>2. Compared'
    BY <2>1, ComparedKept
  <2>. QED BY <1>0, <2>1, <2>2 DEF Printed
<1>4. CASE PrintCounts
  <2>1. /\ pc = "counts" /\ pc' = "verdict" /\ markers' = <<Totals>>
        /\ UNCHANGED <<listing, row, addresses, counters, report, comparison>>
    BY <1>4 DEF PrintCounts, Totals
  <2>2. Compared'
    BY <2>1, ComparedKept
  <2>3. Totals' = Totals
    BY <2>1 DEF Totals, counters
  <2>4. markers'[1] = Totals
    BY <2>1
  <2>. QED BY <2>1, <2>2, <2>3, <2>4 DEF Printed
<1>5. CASE Decide
  <2>1. /\ pc = "verdict" /\ UNCHANGED <<listing, row, addresses, counters, report, comparison>>
        /\ \/ Accepted /\ pc' = "verified" /\ markers' = Append(markers, "M6_DISASSEMBLY_VERIFIED")
           \/ pc' = "exception" /\ UNCHANGED markers
    BY <1>5 DEF Decide
  <2>2. Compared'
    BY <2>1, ComparedKept
  <2>3. Totals' = Totals /\ Accepted' = Accepted
    BY <2>1 DEF Totals, Accepted, counters
  <2>4. markers = <<Totals>>
    BY <2>1 DEF Printed
  <2>5. markers' # <<>> /\ markers'[1] = Totals
    BY <2>1, <2>4
  <2>. QED BY <2>1, <2>2, <2>3, <2>5 DEF Printed
<1>6. CASE UNCHANGED vars
  <2>1. UNCHANGED <<listing, pc, row, addresses, counters, report, comparison, markers>>
    BY <1>6 DEF vars
  <2>2. Compared'
    BY <1>0, <2>1, ComparedKept
  <2>3. Totals' = Totals /\ Accepted' = Accepted
    BY <2>1 DEF Totals, Accepted, counters
  <2>. QED BY <2>1, <2>2, <2>3 DEF Printed
<1>. QED BY <1>1, <1>2, <1>3, <1>4, <1>5, <1>6 DEF Next, Finished

\* What the report and the counters hold at each row, and what was printed.
THEOREM CompareInvariantHolds == Spec => []CompareInv
BY CompareInitInv, CompareStepInv, PTL DEF Spec

\* A row whose shown text is an instruction's is a match exactly if it is honest.
LEMMA ResultMeans ==
  ASSUME Compared, NEW i \in DOMAIN report, report[i].result # "unsupported"
  PROVE  /\ report[i].result = "match" => Honest(listing[i])
         /\ report[i].result = "MISMATCH" => report[i].shown = <<"undecodable">> \/ ~ Honest(listing[i])
<1>. DEFINE line == listing[i]
            shown == report[i].shown
<1>1. /\ line.at \in DOMAIN Memory /\ Memory[line.at] = line.word
      /\ shown \in Shown(line.word, line.at) /\ report[i].result = ResultOf(line, shown)
  BY DEF Compared, RowReported
<1>2. line.word \in Word32 /\ line.text # <<"undecodable">>
  <2>1. i \in DOMAIN listing /\ listing \in Listings
    BY ReportFacts DEF Compared
  <2>. QED BY <1>1, <2>1, CompareAssumption
<1>. HIDE DEF line, shown
<1>3. shown # <<"undecodable">> => expandAlias(shown, line.word) = format_instruction(line.word, line.at)
  BY <1>1, <1>2, AliasExpanded
<1>4. shown = <<"undecodable">> => expandAlias(shown, line.word) # line.text
  BY <1>2, PlaceholderKept
<1>5. report[i].result = "match" <=> line.text = expandAlias(shown, line.word)
  BY <1>1 DEF ResultOf
<1>6. Honest(line) <=> line.text = format_instruction(line.word, line.at)
  BY <1>1 DEF Honest
<1>7. report[i].result = "match" => Honest(line)
  BY <1>3, <1>4, <1>5, <1>6
<1>8. report[i].result = "MISMATCH" => shown = <<"undecodable">> \/ ~ Honest(line)
  BY <1>3, <1>5, <1>6
<1>. QED BY <1>7, <1>8 DEF line, shown

\* A row that gt4disasm wrote for the word at its address is a mismatch only
\* where Ghidra shows nothing, for every word there is.
THEOREM NoFalseAlarm == Spec => []MismatchMeansDifferent
<1>1. CompareInv => MismatchMeansDifferent
  BY ResultMeans DEF CompareInv, MismatchMeansDifferent
<1>. QED BY <1>1, CompareInvariantHolds, PTL

\* The first marker counts the rows of the whole listing, each once and each
\* under the result the report on disk gives it, for listings of any length.
THEOREM CountsAreTrue == Spec => []MarkerAddsUp
<1>1. CompareInv => MarkerAddsUp
  <2>. SUFFICES ASSUME Compared, Printed, markers # <<>> PROVE MarkerAddsUp
    BY DEF CompareInv, MarkerAddsUp
  <2>1. comparison = report /\ Len(report) = Len(listing) /\ markers[1] = Totals
    BY DEF Printed
  <2>2. DOMAIN report = DOMAIN listing /\ DOMAIN listing = 1 .. Len(listing)
    BY <2>1, ReportFacts
  <2>3. \A i \in DOMAIN listing : report[i].at = listing[i].at /\ Memory[listing[i].at] = listing[i].word
    BY <2>2 DEF Compared, RowReported
  <2>4. Cardinality({listing[i].at : i \in DOMAIN listing}) = Len(listing)
    BY <2>1, <2>2 DEF Compared
  <2>5. /\ markers[1].matched = matched /\ markers[1].mismatched = mismatched
        /\ markers[1].unsupported = unsupported
    BY <2>1 DEF Totals
  <2>6. /\ matched = Cardinality(Of("match")) /\ mismatched = Cardinality(Of("MISMATCH"))
        /\ unsupported = Cardinality(Of("unsupported"))
        /\ matched + mismatched + unsupported = Len(listing)
    BY <2>1 DEF Compared, Counted
  <2>. QED
    BY <2>1, <2>2, <2>3, <2>4, <2>5, <2>6 DEF MarkerAddsUp, Of
<1>. QED BY <1>1, CompareInvariantHolds, PTL

\* Behind the second marker every row is marked unsupported or the instruction
\* at its address, and enough of them are no NOP.
THEOREM VerifiedIsAgreed == Spec => []VerifiedMeansAgreed
<1>1. CompareInv => VerifiedMeansAgreed
  <2>. SUFFICES ASSUME Compared, Printed, pc = "verified" PROVE VerifiedMeansAgreed
    BY DEF CompareInv, VerifiedMeansAgreed
  <2>1. Len(report) = Len(listing) /\ mismatched = 0 /\ nonNopMatched >= Threshold
    BY DEF Printed, Accepted
  <2>2. DOMAIN report = DOMAIN listing
    BY <2>1, ReportFacts
  <2>3. Of("MISMATCH") = {}
    <3>1. IsFiniteSet(Of("MISMATCH")) /\ Cardinality(Of("MISMATCH")) = 0
      BY <2>1, ReportFacts DEF Compared, Counted, Results
    <3>. QED BY <3>1, FS_EmptySet
  <2>4. \A i \in DOMAIN listing : report[i].result \in Results /\ report[i].result # "MISMATCH"
    BY <2>2, <2>3 DEF Of, Compared, RowReported, ResultOf, Results
  <2>5. \A i \in DOMAIN listing : report[i].result = "unsupported" <=> listing[i].text[1] = "unsupported"
    BY <2>2 DEF Compared, RowReported, ResultOf
  <2>6. \A i \in DOMAIN listing : listing[i].text[1] = "unsupported" \/ Honest(listing[i])
    BY <2>2, <2>4, <2>5, ResultMeans DEF Results
  <2>7. NonNop = {listing[i].at : i \in {j \in DOMAIN listing :
                    listing[j].word # <<0, 0>> /\ listing[j].text[1] # "unsupported"}}
    <3>1. Of("match") = {j \in DOMAIN listing : listing[j].text[1] # "unsupported"}
      BY <2>2, <2>4, <2>5 DEF Of, Results
    <3>. QED BY <3>1 DEF NonNop
  <2>8. Cardinality(NonNop) >= Threshold
    BY <2>1 DEF Compared, Counted
  <2>. QED BY <2>6, <2>7, <2>8 DEF VerifiedMeansAgreed
<1>. QED BY <1>1, CompareInvariantHolds, PTL

\* Rows as disassemble_region writes them, each with its own word and address.
WrittenByTool ==
  \A i \in DOMAIN listing : listing[i].text = format_instruction(listing[i].word, listing[i].at)

\* Where Ghidra shows no instruction for a row that is compared.
NotDecoded ==
  {i \in DOMAIN report : report[i].result # "unsupported" /\ report[i].shown = <<"undecodable">>}

\* The two halves of the milestone together: whatever program and whatever
\* words, of a listing gt4disasm wrote the comparison counts as mismatches the
\* rows Ghidra does not decode, and no others.
THEOREM OwnListing == Spec => [](WrittenByTool => mismatched = Cardinality(NotDecoded))
<1>1. CompareInv => (WrittenByTool => mismatched = Cardinality(NotDecoded))
  <2>. SUFFICES ASSUME Compared, WrittenByTool PROVE Of("MISMATCH") = NotDecoded
    BY DEF CompareInv, Compared, Counted
  <2>1. ASSUME NEW i \in DOMAIN report
        PROVE  report[i].result = "MISMATCH" <=>
                 report[i].result # "unsupported" /\ report[i].shown = <<"undecodable">>
    <3>1. /\ listing[i].at \in DOMAIN Memory /\ Memory[listing[i].at] = listing[i].word
          /\ report[i].result = ResultOf(listing[i], report[i].shown)
      BY DEF Compared, RowReported
    <3>2. i \in DOMAIN listing /\ listing \in Listings
      BY ReportFacts DEF Compared
    <3>3. Honest(listing[i])
      BY <3>1, <3>2 DEF WrittenByTool, Honest
    <3>4. report[i].result = "MISMATCH" => report[i].shown = <<"undecodable">>
      BY <3>3, ResultMeans
    <3>5. report[i].shown = <<"undecodable">> => report[i].result # "match"
      BY <3>1, <3>2, PlaceholderKept, CompareAssumption DEF ResultOf
    <3>6. report[i].result \in Results
      BY <3>1 DEF ResultOf, Results
    <3>. QED BY <3>4, <3>5, <3>6 DEF Results
  <2>. QED BY <2>1 DEF Of, NotDecoded
<1>. QED BY <1>1, CompareInvariantHolds, PTL

-----------------------------------------------------------------------------
(***************************************************************************)
(* Quotients and remainders by the powers of two that separate the fields. *)
(***************************************************************************)
\* A number in n values.
Below(x, n) == x \in Int /\ 0 <= x /\ x < n

\* n divided by a is q and leaves r.
Splits(n, a, q, r) ==
  q \in Int /\ r \in Int /\ 0 <= r /\ r < a /\ n = a * q + r

Quotient(n, a) == n \div a
Remainder(n, a) == n % a

Sizes == {4, 32, 64, 1024, 2048, 4096, 16384, 65536, AddressableWords}

\* What \div and % by these sizes are.
LEMMA Division ==
  ASSUME NEW n \in Int, NEW a \in Sizes
  PROVE  Splits(n, a, Quotient(n, a), Remainder(n, a))
<1>1. CASE a = 4
  BY <1>1, SMT DEF Splits, Quotient, Remainder
<1>2. CASE a = 32
  BY <1>2, SMT DEF Splits, Quotient, Remainder
<1>3. CASE a = 64
  BY <1>3, SMT DEF Splits, Quotient, Remainder
<1>4. CASE a = 1024
  BY <1>4, SMT DEF Splits, Quotient, Remainder
<1>5. CASE a = 2048
  BY <1>5, SMT DEF Splits, Quotient, Remainder
<1>6. CASE a = 4096
  BY <1>6, SMT DEF Splits, Quotient, Remainder
<1>7. CASE a = 16384
  BY <1>7, SMT DEF Splits, Quotient, Remainder
<1>8. CASE a = 65536
  BY <1>8, SMT DEF Splits, Quotient, Remainder
<1>9. CASE a = AddressableWords
  BY <1>9, SMT DEF AddressableWords, Splits, Quotient, Remainder
<1>. QED BY <1>1, <1>2, <1>3, <1>4, <1>5, <1>6, <1>7, <1>8, <1>9, SMT DEF Sizes

\* Only one quotient and one remainder do.
LEMMA OneDivision ==
  ASSUME NEW n \in Int, NEW a \in Sizes, NEW q, NEW r, Splits(n, a, q, r)
  PROVE  Quotient(n, a) = q /\ Remainder(n, a) = r
<1>1. CASE a = 4
  BY <1>1, SMT DEF Splits, Quotient, Remainder
<1>2. CASE a = 32
  BY <1>2, SMT DEF Splits, Quotient, Remainder
<1>3. CASE a = 64
  BY <1>3, SMT DEF Splits, Quotient, Remainder
<1>4. CASE a = 1024
  BY <1>4, SMT DEF Splits, Quotient, Remainder
<1>5. CASE a = 2048
  BY <1>5, SMT DEF Splits, Quotient, Remainder
<1>6. CASE a = 4096
  BY <1>6, SMT DEF Splits, Quotient, Remainder
<1>7. CASE a = 16384
  BY <1>7, SMT DEF Splits, Quotient, Remainder
<1>8. CASE a = 65536
  BY <1>8, SMT DEF Splits, Quotient, Remainder
<1>9. CASE a = AddressableWords
  BY <1>9, SMT DEF AddressableWords, Splits, Quotient, Remainder
<1>. QED BY <1>1, <1>2, <1>3, <1>4, <1>5, <1>6, <1>7, <1>8, <1>9, SMT DEF Sizes

\* The fields of the two halves, and the halves again.
LEMMA HighFields ==
  ASSUME NEW h \in Int, 0 <= h, h <= 65535
  PROVE  /\ Below(Quotient(h, 1024), 64) /\ Below(Remainder(h, 1024), 1024)
         /\ Below(Remainder(h, 32), 32) /\ Below(Remainder(Quotient(h, 32), 32), 32)
         /\ h = Quotient(h, 1024) * 1024 + Remainder(Quotient(h, 32), 32) * 32 + Remainder(h, 32)
         /\ h = Quotient(h, 1024) * 1024 + Remainder(h, 1024)
<1>. DEFINE q == Quotient(h, 1024)
            r == Remainder(h, 1024)
            p == Quotient(h, 32)
            s == Remainder(h, 32)
            t == Quotient(p, 32)
            u == Remainder(p, 32)
<1>1. h \in Int /\ 0 <= h /\ h <= 65535
  BY SMT
<1>2. Splits(h, 1024, q, r)
  BY <1>1, Division, SMT DEF Sizes
<1>3. Splits(h, 32, p, s)
  BY <1>1, Division, SMT DEF Sizes
<1>4. p \in Int
  BY <1>3, SMT DEF Splits
<1>5. Splits(p, 32, t, u)
  BY <1>4, Division, SMT DEF Sizes
<1>. HIDE DEF q, r, p, s, t, u
<1>6. q \in Int /\ r \in Int /\ 0 <= r /\ r < 1024 /\ h = 1024 * q + r
  BY <1>2, SMT DEF Splits
<1>7. s \in Int /\ 0 <= s /\ s < 32 /\ h = 32 * p + s
  BY <1>3, SMT DEF Splits
<1>8. t \in Int /\ u \in Int /\ 0 <= u /\ u < 32 /\ p = 32 * t + u
  BY <1>5, SMT DEF Splits
<1>9. q = t
  BY <1>1, <1>4, <1>6, <1>7, <1>8, SMT
<1>10. r = u * 32 + s
  BY <1>1, <1>4, <1>6, <1>7, <1>8, <1>9, SMT
<1>11. 0 <= q /\ q <= 63
  BY <1>1, <1>6, SMT
<1>12. Below(q, 64) /\ Below(r, 1024) /\ Below(s, 32) /\ Below(u, 32)
  BY <1>6, <1>7, <1>8, <1>11, SMT DEF Below
<1>13. h = q * 1024 + r
  BY <1>1, <1>6, SMT
<1>14. h = q * 1024 + u * 32 + s
  BY <1>1, <1>6, <1>7, <1>8, <1>10, <1>13, SMT
<1>. QED BY <1>12, <1>13, <1>14 DEF q, r, p, s, u

\* The same for the lower half: rd, the shift amount, the function.
LEMMA LowFields ==
  ASSUME NEW l \in Int, 0 <= l, l <= 65535
  PROVE  /\ Below(Quotient(l, 2048), 32) /\ Below(Remainder(l, 2048), 2048)
         /\ Below(Remainder(l, 64), 64) /\ Below(Remainder(Quotient(l, 64), 32), 32)
         /\ l = Quotient(l, 2048) * 2048 + Remainder(Quotient(l, 64), 32) * 64 + Remainder(l, 64)
         /\ l = Quotient(l, 2048) * 2048 + Remainder(l, 2048)
<1>. DEFINE q == Quotient(l, 2048)
            r == Remainder(l, 2048)
            p == Quotient(l, 64)
            s == Remainder(l, 64)
            t == Quotient(p, 32)
            u == Remainder(p, 32)
<1>1. l \in Int /\ 0 <= l /\ l <= 65535
  BY SMT
<1>2. Splits(l, 2048, q, r)
  BY <1>1, Division, SMT DEF Sizes
<1>3. Splits(l, 64, p, s)
  BY <1>1, Division, SMT DEF Sizes
<1>4. p \in Int
  BY <1>3, SMT DEF Splits
<1>5. Splits(p, 32, t, u)
  BY <1>4, Division, SMT DEF Sizes
<1>. HIDE DEF q, r, p, s, t, u
<1>6. q \in Int /\ r \in Int /\ 0 <= r /\ r < 2048 /\ l = 2048 * q + r
  BY <1>2, SMT DEF Splits
<1>7. s \in Int /\ 0 <= s /\ s < 64 /\ l = 64 * p + s
  BY <1>3, SMT DEF Splits
<1>8. t \in Int /\ u \in Int /\ 0 <= u /\ u < 32 /\ p = 32 * t + u
  BY <1>5, SMT DEF Splits
<1>9. q = t
  BY <1>1, <1>4, <1>6, <1>7, <1>8, SMT
<1>10. r = u * 64 + s
  BY <1>1, <1>4, <1>6, <1>7, <1>8, <1>9, SMT
<1>11. 0 <= q /\ q <= 31
  BY <1>1, <1>6, SMT
<1>12. Below(q, 32) /\ Below(r, 2048) /\ Below(s, 64) /\ Below(u, 32)
  BY <1>6, <1>7, <1>8, <1>11, SMT DEF Below
<1>13. l = q * 2048 + r
  BY <1>1, <1>6, SMT
<1>14. l = q * 2048 + u * 64 + s
  BY <1>1, <1>6, <1>7, <1>8, <1>10, <1>13, SMT
<1>. QED BY <1>12, <1>13, <1>14 DEF q, r, p, s, u


-----------------------------------------------------------------------------
(***************************************************************************)
(* The decoder.                                                            *)
(***************************************************************************)
F == Fields(Word)

\* A half is a number in 65536 values.
LEMMA HalfIs ==
  \A x : x \in Half <=> x \in Int /\ 0 <= x /\ x < 65536
<1>1. HalfMax = 65535
  BY DEF HalfMax
<1>2. HalfMax \in Int
  BY <1>1
<1>3. \A x : x \in 0 .. HalfMax <=> x \in Int /\ 0 <= x /\ x <= HalfMax
  BY <1>2, SMT
<1>4. \A x \in Int : x <= HalfMax <=> x < 65536
  BY <1>1, SMT
<1>5. \A x : x \in Half <=> x \in Int /\ 0 <= x /\ x <= HalfMax
  BY <1>3 DEF Half
<1>. QED BY <1>4, <1>5

\* The word is the two halves of its four bytes, least significant first.
LEMMA WordFacts ==
  ASSUME bytes \in [1 .. 4 -> Byte]
  PROVE  /\ Below(Word[1], 65536) /\ Below(Word[2], 65536) /\ Word = <<Word[1], Word[2]>>
         /\ Word \in Word32 /\ read_instruction_word(bytes) = Word
<1>1. Below(bytes[1], 256) /\ Below(bytes[2], 256) /\ Below(bytes[3], 256) /\ Below(bytes[4], 256)
  BY DEF Byte, Below
<1>. DEFINE b1 == bytes[1]
            b2 == bytes[2]
            b3 == bytes[3]
            b4 == bytes[4]
<1>2. Word = <<b4 * 256 + b3, b2 * 256 + b1>> /\ read_instruction_word(bytes) = Word
  BY DEF Word, read_instruction_word
<1>. HIDE DEF b1, b2, b3, b4
<1>3. Below(b1, 256) /\ Below(b2, 256) /\ Below(b3, 256) /\ Below(b4, 256)
  BY <1>1 DEF b1, b2, b3, b4
<1>4. Below(b4 * 256 + b3, 65536)
  BY <1>3, SMT DEF Below
<1>5. Below(b2 * 256 + b1, 65536)
  BY <1>3, SMT DEF Below
<1>6. Below(Word[1], 65536) /\ Below(Word[2], 65536) /\ Word = <<Word[1], Word[2]>>
  BY <1>2, <1>4, <1>5
<1>7. Word[1] \in Half /\ Word[2] \in Half
  BY <1>6, HalfIs DEF Below
<1>. QED BY <1>2, <1>6, <1>7 DEF Word32

\* Every field is within its width, and the fields give the halves back.
LEMMA FieldFacts ==
  ASSUME bytes \in [1 .. 4 -> Byte]
  PROVE  /\ Below(F.primary_opcode, 64) /\ Below(F.rs, 32) /\ Below(F.rt, 32)
         /\ Below(F.rd, 32) /\ Below(F.shift_amount, 32) /\ Below(F.function, 64)
         /\ F.immediate = Word[2] /\ Below(F.immediate, 65536)
         /\ F.jump_index = <<F.jump_index[1], Word[2]>> /\ Below(F.jump_index[1], 1024)
         /\ Word[1] = F.primary_opcode * 1024 + F.rs * 32 + F.rt
         /\ Word[1] = F.primary_opcode * 1024 + F.jump_index[1]
         /\ Word[2] = F.rd * 2048 + F.shift_amount * 64 + F.function
<1>. DEFINE h == Word[1]
            l == Word[2]
<1>1. /\ F.primary_opcode = Quotient(h, 1024) /\ F.rs = Remainder(Quotient(h, 32), 32)
      /\ F.rt = Remainder(h, 32) /\ F.rd = Quotient(l, 2048)
      /\ F.shift_amount = Remainder(Quotient(l, 64), 32) /\ F.function = Remainder(l, 64)
      /\ F.immediate = l /\ F.jump_index = <<Remainder(h, 1024), l>>
  BY DEF F, Fields, Quotient, Remainder
<1>2. Below(h, 65536) /\ Below(l, 65536)
  BY WordFacts
<1>. HIDE DEF h, l
<1>3. h \in Int /\ 0 <= h /\ h <= 65535
  BY <1>2, SMT DEF Below
<1>4. l \in Int /\ 0 <= l /\ l <= 65535
  BY <1>2, SMT DEF Below
<1>5. F.jump_index[1] = Remainder(h, 1024) /\ F.jump_index = <<F.jump_index[1], l>>
  BY <1>1
<1>6. /\ Below(F.primary_opcode, 64) /\ Below(F.jump_index[1], 1024)
      /\ Below(F.rt, 32) /\ Below(F.rs, 32)
      /\ h = F.primary_opcode * 1024 + F.rs * 32 + F.rt
      /\ h = F.primary_opcode * 1024 + F.jump_index[1]
  BY <1>1, <1>3, <1>5, HighFields
<1>7. /\ Below(F.rd, 32) /\ Below(F.function, 64) /\ Below(F.shift_amount, 32)
      /\ l = F.rd * 2048 + F.shift_amount * 64 + F.function
  BY <1>1, <1>4, LowFields
<1>. QED BY <1>1, <1>2, <1>5, <1>6, <1>7 DEF h, l

\* The fixed fields of an encoding are those of a word.
Matches(f, op) == \A field \in DOMAIN Encoding[op] : Encoding[op][field] = f[field]

\* The encodings, one by one.
Table(f, Is(_)) ==
  /\ Is("j") <=> f.primary_opcode = 2
  /\ Is("jal") <=> f.primary_opcode = 3
  /\ Is("beq") <=> f.primary_opcode = 4
  /\ Is("bne") <=> f.primary_opcode = 5
  /\ Is("addiu") <=> f.primary_opcode = 9
  /\ Is("andi") <=> f.primary_opcode = 12
  /\ Is("ori") <=> f.primary_opcode = 13
  /\ Is("lui") <=> f.primary_opcode = 15 /\ f.rs = 0
  /\ Is("lw") <=> f.primary_opcode = 35
  /\ Is("sw") <=> f.primary_opcode = 43
  /\ Is("sll") <=> f.primary_opcode = 0 /\ f.function = 0 /\ f.rs = 0
  /\ Is("srl") <=> f.primary_opcode = 0 /\ f.function = 2 /\ f.rs = 0
  /\ Is("jr") <=> f.primary_opcode = 0 /\ f.function = 8 /\ f.rt = 0 /\ f.rd = 0 /\ f.shift_amount = 0
  /\ Is("addu") <=> f.primary_opcode = 0 /\ f.function = 33 /\ f.shift_amount = 0
  /\ Is("subu") <=> f.primary_opcode = 0 /\ f.function = 35 /\ f.shift_amount = 0
  /\ Is("and") <=> f.primary_opcode = 0 /\ f.function = 36 /\ f.shift_amount = 0
  /\ Is("or") <=> f.primary_opcode = 0 /\ f.function = 37 /\ f.shift_amount = 0
  /\ Is("xor") <=> f.primary_opcode = 0 /\ f.function = 38 /\ f.shift_amount = 0

\* What the fixed fields of each encoding ask of a word.
LEMMA EncodingTable ==
  ASSUME NEW f
  PROVE  Table(f, LAMBDA op : Matches(f, op))
<1>1. /\ Encoding["j"] = [primary_opcode |-> 2] /\ Encoding["jal"] = [primary_opcode |-> 3]
      /\ Encoding["beq"] = [primary_opcode |-> 4] /\ Encoding["bne"] = [primary_opcode |-> 5]
      /\ Encoding["addiu"] = [primary_opcode |-> 9] /\ Encoding["andi"] = [primary_opcode |-> 12]
      /\ Encoding["ori"] = [primary_opcode |-> 13] /\ Encoding["lui"] = [primary_opcode |-> 15, rs |-> 0]
      /\ Encoding["lw"] = [primary_opcode |-> 35] /\ Encoding["sw"] = [primary_opcode |-> 43]
  BY DEF Encoding
<1>2. /\ Encoding["sll"] = [primary_opcode |-> 0, function |-> 0, rs |-> 0]
      /\ Encoding["srl"] = [primary_opcode |-> 0, function |-> 2, rs |-> 0]
      /\ Encoding["jr"] = [primary_opcode |-> 0, function |-> 8, rt |-> 0, rd |-> 0, shift_amount |-> 0]
      /\ Encoding["addu"] = [primary_opcode |-> 0, function |-> 33, shift_amount |-> 0]
      /\ Encoding["subu"] = [primary_opcode |-> 0, function |-> 35, shift_amount |-> 0]
      /\ Encoding["and"] = [primary_opcode |-> 0, function |-> 36, shift_amount |-> 0]
      /\ Encoding["or"] = [primary_opcode |-> 0, function |-> 37, shift_amount |-> 0]
      /\ Encoding["xor"] = [primary_opcode |-> 0, function |-> 38, shift_amount |-> 0]
  BY DEF Encoding
<1>3. /\ Matches(f, "j") <=> f.primary_opcode = 2
      /\ Matches(f, "jal") <=> f.primary_opcode = 3
      /\ Matches(f, "beq") <=> f.primary_opcode = 4
      /\ Matches(f, "bne") <=> f.primary_opcode = 5
      /\ Matches(f, "addiu") <=> f.primary_opcode = 9
      /\ Matches(f, "andi") <=> f.primary_opcode = 12
      /\ Matches(f, "ori") <=> f.primary_opcode = 13
      /\ Matches(f, "lw") <=> f.primary_opcode = 35
      /\ Matches(f, "sw") <=> f.primary_opcode = 43
  BY <1>1 DEF Matches
<1>4. Matches(f, "lui") <=> f.primary_opcode = 15 /\ f.rs = 0
  BY <1>1 DEF Matches
<1>5. Matches(f, "sll") <=> f.primary_opcode = 0 /\ f.function = 0 /\ f.rs = 0
  BY <1>2 DEF Matches
<1>6. Matches(f, "srl") <=> f.primary_opcode = 0 /\ f.function = 2 /\ f.rs = 0
  BY <1>2 DEF Matches
<1>7. Matches(f, "jr") <=> f.primary_opcode = 0 /\ f.function = 8 /\ f.rt = 0 /\ f.rd = 0 /\ f.shift_amount = 0
  BY <1>2 DEF Matches
<1>8. Matches(f, "addu") <=> f.primary_opcode = 0 /\ f.function = 33 /\ f.shift_amount = 0
  BY <1>2 DEF Matches
<1>9. Matches(f, "subu") <=> f.primary_opcode = 0 /\ f.function = 35 /\ f.shift_amount = 0
  BY <1>2 DEF Matches
<1>10. Matches(f, "and") <=> f.primary_opcode = 0 /\ f.function = 36 /\ f.shift_amount = 0
  BY <1>2 DEF Matches
<1>11. Matches(f, "or") <=> f.primary_opcode = 0 /\ f.function = 37 /\ f.shift_amount = 0
  BY <1>2 DEF Matches
<1>12. Matches(f, "xor") <=> f.primary_opcode = 0 /\ f.function = 38 /\ f.shift_amount = 0
  BY <1>2 DEF Matches
<1>. QED BY <1>3, <1>4, <1>5, <1>6, <1>7, <1>8, <1>9, <1>10, <1>11, <1>12, Zenon DEF Table

\* decode asks the same: each operation is named on those fields alone.
LEMMA OperationTable ==
  ASSUME NEW f
  PROVE  /\ Table(f, LAMBDA op : OperationOf(f) = op)
         /\ OperationOf(f) \in Operation
<1>. DEFINE p == f.primary_opcode
            op == OperationOf(f)
<1>1. /\ DOMAIN ImmediateOperation = {2, 3, 4, 5, 9, 12, 13, 35, 43}
      /\ ImmediateOperation[2] = "j" /\ ImmediateOperation[3] = "jal" /\ ImmediateOperation[4] = "beq"
      /\ ImmediateOperation[5] = "bne" /\ ImmediateOperation[9] = "addiu" /\ ImmediateOperation[12] = "andi"
      /\ ImmediateOperation[13] = "ori" /\ ImmediateOperation[35] = "lw" /\ ImmediateOperation[43] = "sw"
  BY DEF ImmediateOperation
<1>2. /\ DOMAIN RegisterOperation = {33, 35, 36, 37, 38}
      /\ RegisterOperation[33] = "addu" /\ RegisterOperation[35] = "subu" /\ RegisterOperation[36] = "and"
      /\ RegisterOperation[37] = "or" /\ RegisterOperation[38] = "xor"
  BY DEF RegisterOperation
<1>3. CASE p = 0
  <2>1. op = decode_special(f)
    BY <1>1, <1>3 DEF OperationOf
  <2>. DEFINE n == f.function
              special == decode_special(f)
  <2>2. n = 0 /\ f.rs = 0 => special = "sll"
    BY <1>2 DEF decode_special
  <2>3. n = 2 /\ f.rs = 0 => special = "srl"
    BY <1>2 DEF decode_special
  <2>4. n = 8 /\ f.rt = 0 /\ f.rd = 0 /\ f.shift_amount = 0 => special = "jr"
    BY <1>2 DEF decode_special, NoShift
  <2>5. n \in {33, 35, 36, 37, 38} /\ f.shift_amount = 0 => special = RegisterOperation[n]
    BY <1>2 DEF decode_special, NoShift
  <2>6. /\ ~(n = 0 /\ f.rs = 0) /\ ~(n = 2 /\ f.rs = 0)
        /\ ~(n = 8 /\ f.rt = 0 /\ f.rd = 0 /\ f.shift_amount = 0)
        /\ ~(n \in {33, 35, 36, 37, 38} /\ f.shift_amount = 0)
        => special = "unsupported"
    BY <1>2 DEF decode_special, NoShift
  <2>. HIDE DEF n, special, op, p
  <2>7. CASE n = 0 /\ f.rs = 0
    <3>1. op = "sll"
      BY <2>1, <2>2, <2>7 DEF special
    <3>. QED BY <1>3, <2>7, <3>1 DEF Table, Operation, n, p, op
  <2>10. CASE n = 2 /\ f.rs = 0
    <3>1. op = "srl"
      BY <2>1, <2>3, <2>10 DEF special
    <3>. QED BY <1>3, <2>10, <3>1 DEF Table, Operation, n, p, op
  <2>11. CASE n = 8 /\ f.rt = 0 /\ f.rd = 0 /\ f.shift_amount = 0
    <3>1. op = "jr"
      BY <2>1, <2>4, <2>11 DEF special
    <3>. QED BY <1>3, <2>11, <3>1 DEF Table, Operation, n, p, op
  <2>8. CASE n \in {33, 35, 36, 37, 38} /\ f.shift_amount = 0
    <3>1. op = RegisterOperation[n]
      BY <2>1, <2>5, <2>8 DEF special
    <3>2. /\ op = "addu" <=> n = 33
          /\ op = "subu" <=> n = 35
          /\ op = "and" <=> n = 36
          /\ op = "or" <=> n = 37
          /\ op = "xor" <=> n = 38
          /\ op \in {"addu", "subu", "and", "or", "xor"}
      BY <1>2, <2>8, <3>1
    <3>. QED BY <1>3, <2>8, <3>2 DEF Table, Operation, n, p, op
  <2>9. CASE ~(n = 0 /\ f.rs = 0) /\ ~(n = 2 /\ f.rs = 0)
             /\ ~(n = 8 /\ f.rt = 0 /\ f.rd = 0 /\ f.shift_amount = 0)
             /\ ~(n \in {33, 35, 36, 37, 38} /\ f.shift_amount = 0)
    <3>1. op = "unsupported"
      BY <2>1, <2>6, <2>9 DEF special
    <3>. QED BY <1>3, <2>9, <3>1 DEF Table, Operation, n, p, op
  <2>. QED BY <2>7, <2>10, <2>11, <2>8, <2>9
<1>4. CASE p = 15 /\ f.rs = 0
  <2>1. op = "lui"
    BY <1>1, <1>4 DEF OperationOf
  <2>. QED BY <1>4, <2>1 DEF Table, Operation
<1>5. CASE p \in {2, 3, 4, 5, 9, 12, 13, 35, 43}
  <2>1. op = ImmediateOperation[p]
    BY <1>1, <1>5 DEF OperationOf
  <2>. HIDE DEF op, p
  <2>2. /\ op = "j" <=> p = 2
        /\ op = "jal" <=> p = 3
        /\ op = "beq" <=> p = 4
        /\ op = "bne" <=> p = 5
        /\ op = "addiu" <=> p = 9
        /\ op = "andi" <=> p = 12
        /\ op = "ori" <=> p = 13
        /\ op = "lw" <=> p = 35
        /\ op = "sw" <=> p = 43
        /\ op \in {"j", "jal", "beq", "bne", "addiu", "andi", "ori", "lw", "sw"}
    BY <1>1, <1>5, <2>1
  <2>3. p # 0 /\ p # 15
    BY <1>5
  <2>4. op \in Operation
    BY <2>2 DEF Operation
  <2>. QED BY <2>2, <2>3, <2>4 DEF Table, p, op
<1>6. CASE p # 0 /\ ~(p = 15 /\ f.rs = 0) /\ p \notin {2, 3, 4, 5, 9, 12, 13, 35, 43}
  <2>1. op = "unsupported"
    BY <1>1, <1>6 DEF OperationOf
  <2>. QED BY <1>6, <2>1 DEF Table, Operation
<1>. QED BY <1>3, <1>4, <1>5, <1>6

\* The record decode returns.
LEMMA Decoded ==
  /\ decode(Word).operation = OperationOf(F) /\ decode(Word).primary_opcode = F.primary_opcode
  /\ decode(Word).rs = F.rs /\ decode(Word).rt = F.rt /\ decode(Word).rd = F.rd
  /\ decode(Word).shift_amount = F.shift_amount /\ decode(Word).function = F.function
  /\ decode(Word).immediate = F.immediate /\ decode(Word).jump_index = F.jump_index
BY DEF decode, F

\* From bounds to the ranges of DecodedInstruction.
LEMMA BelowIsIn ==
  ASSUME NEW x
  PROVE  /\ Below(x, 32) => x \in 0 .. 31
         /\ Below(x, 64) => x \in 0 .. 63
         /\ Below(x, 1024) => x \in 0 .. 1023
         /\ Below(x, 65536) => x \in Half
<1>1. Below(x, 32) => x \in 0 .. 31
  BY SMT DEF Below
<1>2. Below(x, 64) => x \in 0 .. 63
  BY SMT DEF Below
<1>3. Below(x, 1024) => x \in 0 .. 1023
  BY SMT DEF Below
<1>4. Below(x, 65536) => x \in Half
  BY HalfIs, SMT DEF Below
<1>. QED BY <1>1, <1>2, <1>3, <1>4

\* Every field decode returns has the width of the header.
LEMMA DecodedType ==
  ASSUME bytes \in [1 .. 4 -> Byte]
  PROVE  decode(Word) \in DecodedInstruction
<1>. DEFINE J == 0 .. 1023
<1>1. OperationOf(F) \in Operation
  BY OperationTable, Zenon
<1>2. Word \in Word32
  BY WordFacts, SMT
<1>3. /\ Below(F.primary_opcode, 64) /\ Below(F.function, 64)
      /\ Below(F.rs, 32) /\ Below(F.rt, 32) /\ Below(F.rd, 32) /\ Below(F.shift_amount, 32)
      /\ Below(F.immediate, 65536) /\ Below(F.jump_index[1], 1024)
      /\ F.jump_index = <<F.jump_index[1], F.immediate>>
  BY FieldFacts, SMT
<1>4. F.primary_opcode \in 0 .. 63 /\ F.function \in 0 .. 63
  BY <1>3, BelowIsIn, SMT
<1>5. F.rs \in 0 .. 31 /\ F.rt \in 0 .. 31 /\ F.rd \in 0 .. 31 /\ F.shift_amount \in 0 .. 31
  BY <1>3, BelowIsIn, SMT
<1>6. F.immediate \in Half
  BY <1>3, BelowIsIn, SMT
<1>7. F.jump_index[1] \in J
  BY <1>3, BelowIsIn, SMT
<1>. HIDE DEF J
<1>8. F.jump_index \in J \X Half
  BY <1>3, <1>6, <1>7, SMT
<1>9. decode(Word) =
        [word |-> Word, operation |-> OperationOf(F), primary_opcode |-> F.primary_opcode,
         rs |-> F.rs, rt |-> F.rt, rd |-> F.rd, shift_amount |-> F.shift_amount,
         function |-> F.function, immediate |-> F.immediate, jump_index |-> F.jump_index]
  BY SMT DEF decode, F
<1>10. DecodedInstruction =
         [operation : Operation, word : Word32, primary_opcode : 0 .. 63, rs : 0 .. 31, rt : 0 .. 31,
          rd : 0 .. 31, shift_amount : 0 .. 31, function : 0 .. 63, immediate : Half,
          jump_index : J \X Half]
  BY SMT DEF DecodedInstruction, J
<1>. QED BY <1>1, <1>2, <1>4, <1>5, <1>6, <1>8, <1>9, <1>10, SMT

\* The line, operation by operation.
LEMMA Formatted ==
  ASSUME NEW at, NEW op, op = OperationOf(F), NEW line, line = format_instruction(Word, at)
  PROVE  /\ op \in {"addu", "subu", "and", "or", "xor"} => line = <<op, F.rd, F.rs, F.rt>>
         /\ op = "addiu" => line = <<op, F.rt, F.rs, signed_hex(signed_immediate(F))>>
         /\ op = "lui" => line = <<op, F.rt, F.immediate>>
         /\ op \in {"andi", "ori"} => line = <<op, F.rt, F.rs, F.immediate>>
         /\ op \in {"lw", "sw"} => line = <<op, F.rt, signed_hex(signed_immediate(F)), F.rs>>
         /\ op \in {"beq", "bne"} => line = <<op, F.rs, F.rt, BranchTarget(at, F)>>
         /\ op \in {"j", "jal"} => line = <<op, JumpTarget(at, F)>>
         /\ op = "jr" => line = <<op, F.rs>>
         /\ op \in {"sll", "srl"} => line = <<op, F.rd, F.rt, F.shift_amount>>
         /\ op = "unsupported" => line = <<op, Word, unsupported_family(decode(Word))>>
         /\ line[1] = op
<1>. DEFINE d == decode(Word)
<1>1. /\ d.operation = op /\ d.rs = F.rs /\ d.rt = F.rt /\ d.rd = F.rd
      /\ d.shift_amount = F.shift_amount /\ d.immediate = F.immediate
  BY Decoded
<1>2. signed_immediate(d) = signed_immediate(F)
  BY <1>1 DEF signed_immediate
<1>3. BranchTarget(at, d) = BranchTarget(at, F)
  BY <1>2 DEF BranchTarget
<1>4. JumpTarget(at, d) = JumpTarget(at, F)
  BY Decoded DEF JumpTarget
<1>. HIDE DEF d
<1>5. CASE op \in {"addu", "subu", "and", "or", "xor"}
  BY <1>1, <1>5 DEF format_instruction, d
<1>6. CASE op = "addiu"
  BY <1>1, <1>2, <1>6 DEF format_instruction, d
<1>7. CASE op = "lui"
  BY <1>1, <1>7 DEF format_instruction, d
<1>8. CASE op \in {"andi", "ori"}
  BY <1>1, <1>8 DEF format_instruction, d
<1>9. CASE op \in {"lw", "sw"}
  BY <1>1, <1>2, <1>9 DEF format_instruction, d
<1>10. CASE op \in {"beq", "bne"}
  BY <1>1, <1>3, <1>10 DEF format_instruction, d
<1>11. CASE op \in {"j", "jal"}
  BY <1>1, <1>4, <1>11 DEF format_instruction, d
<1>12. CASE op = "jr"
  BY <1>1, <1>12 DEF format_instruction, d
<1>13. CASE op \in {"sll", "srl"}
  BY <1>1, <1>13 DEF format_instruction, d
<1>14. CASE op = "unsupported"
  BY <1>1, <1>14 DEF format_instruction, d
<1>15. op \in Operation
  BY OperationTable
<1>. QED BY <1>5, <1>6, <1>7, <1>8, <1>9, <1>10, <1>11, <1>12, <1>13, <1>14, <1>15 DEF Operation

-----------------------------------------------------------------------------
(***************************************************************************)
(* Immediates and targets.                                                 *)
(***************************************************************************)

\* A signed immediate is the 16 bits again, modulo 2^16.
LEMMA Immediates ==
  ASSUME Below(F.immediate, 65536)
  PROVE  /\ signed_immediate(F) \in Int
         /\ -32768 <= signed_immediate(F) /\ signed_immediate(F) < 32768
         /\ signed_immediate(F) = F.immediate \/ signed_immediate(F) = F.immediate - 65536
         /\ TwosComplement(signed_hex(signed_immediate(F))) = F.immediate
<1>. DEFINE i == F.immediate
            v == signed_immediate(F)
            hex == signed_hex(v)
<1>1. i \in Int /\ 0 <= i /\ i < 65536
  BY SMT DEF Below
<1>2. v = IF i >= 32768 THEN i - 65536 ELSE i
  BY DEF signed_immediate
<1>. HIDE DEF i, v
<1>3. v \in Int /\ -32768 <= v /\ v < 32768 /\ (v = i \/ v = i - 65536)
  BY <1>1, <1>2, SMT
<1>4. /\ v < 0 => hex.sign = "minus" /\ hex.magnitude = -v
      /\ ~(v < 0) => hex.sign # "minus" /\ hex.magnitude = v
  BY <1>3, SMT DEF signed_hex
<1>. DEFINE n == IF hex.sign = "minus" THEN 65536 - hex.magnitude ELSE hex.magnitude
<1>5. n = i
  <2>1. CASE v < 0
    <3>1. v = i - 65536
      BY <1>1, <1>3, <2>1, SMT
    <3>2. hex.sign = "minus" /\ hex.magnitude = -v
      BY <1>4, <2>1
    <3>. QED BY <1>1, <3>1, <3>2, SMT
  <2>2. CASE ~(v < 0)
    <3>1. v = i
      BY <1>1, <1>3, <2>2, SMT
    <3>2. hex.sign # "minus" /\ hex.magnitude = v
      BY <1>4, <2>2
    <3>. QED BY <3>1, <3>2
  <2>. QED BY <2>1, <2>2
<1>6. TwosComplement(hex) = Remainder(n, 65536)
  BY DEF TwosComplement, Remainder
<1>7. Splits(i, 65536, 0, i)
  BY <1>1, SMT DEF Splits
<1>8. Remainder(i, 65536) = i
  BY <1>1, <1>7, OneDivision, SMT DEF Sizes
<1>. QED BY <1>3, <1>5, <1>6, <1>8 DEF i, v

\* A branch target is in the program, reachable, and gives its displacement back.
LEMMA Branches ==
  ASSUME address \in Word32, address[2] % 4 = 0, Below(F.immediate, 65536),
         NEW target, target = BranchTarget(address, F)
  PROVE  /\ Displacement(target) = F.immediate
         /\ target \in Word32 /\ target[2] % 4 = 0
         /\ (WordsBetween(next_pc(address), target) - Signed(F.immediate)) % AddressableWords = 0
<1>. DEFINE a == address[1]
            b == address[2]
            i == F.immediate
            v == signed_immediate(F)
            x == Quotient(b, 4)
            k == Quotient(b + 4, 65536)
            n2 == Remainder(b + 4, 65536)
            m == Quotient(a + k, 65536)
            n1 == Remainder(a + k, 65536)
            c == Quotient(n2 + v * 4, 65536)
            t2 == Remainder(n2 + v * 4, 65536)
            w == Quotient(n1 + c, 65536)
            t1 == Remainder(n1 + c, 65536)
<1>1. next_pc(address) = <<n1, n2>> /\ target = <<t1, t2>>
  BY SMT DEF next_pc, BranchTarget, Quotient, Remainder
<1>2. a \in Int /\ b \in Int /\ 0 <= b /\ b < 65536
  BY HalfIs, SMT DEF Word32
<1>3. Remainder(b, 4) = 0
  BY DEF Remainder
<1>4. i \in Int /\ 0 <= i /\ i < 65536
  BY SMT DEF Below
<1>5. v \in Int /\ -32768 <= v /\ v < 32768 /\ (v = i \/ v = i - 65536)
  BY Immediates, SMT
<1>. HIDE DEF a, b, i, v
<1>6. Splits(b, 4, x, 0)
  BY <1>2, <1>3, Division, SMT DEF Sizes
<1>7. x \in Int /\ b = 4 * x
  BY <1>2, <1>6, SMT DEF Splits
<1>8. b + 4 \in Int
  BY <1>2, SMT
<1>9. Splits(b + 4, 65536, k, n2)
  BY <1>8, Division, SMT DEF Sizes
<1>. HIDE DEF x, k, n2
<1>10. k \in Int /\ n2 \in Int
  BY <1>9, SMT DEF Splits
<1>11. a + k \in Int /\ n2 + v * 4 \in Int
  BY <1>2, <1>5, <1>10, SMT
<1>12. Splits(a + k, 65536, m, n1)
  BY <1>11, Division, SMT DEF Sizes
<1>13. Splits(n2 + v * 4, 65536, c, t2)
  BY <1>11, Division, SMT DEF Sizes
<1>. HIDE DEF m, n1, c, t2
<1>14. n1 \in Int /\ c \in Int
  BY <1>12, <1>13, SMT DEF Splits
<1>15. n1 + c \in Int
  BY <1>14, SMT
<1>16. Splits(n1 + c, 65536, w, t1)
  BY <1>15, Division, SMT DEF Sizes
<1>. HIDE DEF w, t1
<1>. DEFINE y == 1 + v - 16384 * k - 16384 * c
<1>17. /\ Splits(t2, 4, x + 1 - 16384 * k + v - 16384 * c, 0)
       /\ Splits(t2 - n2, 4, v - 16384 * c, 0)
       /\ Splits((t1 - n1) * 16384 + (v - 16384 * c) - v, AddressableWords, -w, 0)
       /\ Splits(t2 - b, 4, y, 0)
       /\ \E q \in Int : Splits((t1 - a) * 16384 + y - 1, 65536, q, i)
  <2>1. k \in Int /\ n2 \in Int /\ 0 <= n2 /\ n2 < 65536 /\ b + 4 = 65536 * k + n2
    BY <1>9, SMT DEF Splits
  <2>2. m \in Int /\ n1 \in Int /\ 0 <= n1 /\ n1 < 65536 /\ a + k = 65536 * m + n1
    BY <1>12, SMT DEF Splits
  <2>3. c \in Int /\ t2 \in Int /\ 0 <= t2 /\ t2 < 65536 /\ n2 + v * 4 = 65536 * c + t2
    BY <1>13, SMT DEF Splits
  <2>4. w \in Int /\ t1 \in Int /\ 0 <= t1 /\ t1 < 65536 /\ n1 + c = 65536 * w + t1
    BY <1>16, SMT DEF Splits
  <2>5. t2 = 4 * (x + 1 - 16384 * k + v - 16384 * c)
    BY <1>2, <1>5, <1>7, <2>1, <2>3, SMT
  <2>6. t2 - n2 = 4 * (v - 16384 * c)
    BY <1>5, <2>1, <2>3, SMT
  <2>7. (t1 - n1) * 16384 + (v - 16384 * c) - v = AddressableWords * (-w)
    BY <1>5, <2>2, <2>3, <2>4, SMT DEF AddressableWords
  <2>8. t2 - b = 4 * (1 + v - 16384 * k - 16384 * c)
    BY <1>2, <1>5, <1>7, <2>1, <2>3, SMT
  <2>. DEFINE words == (t1 - a) * 16384 + (1 + v - 16384 * k - 16384 * c) - 1
  <2>9. words = v - 65536 * (16384 * (m + w))
    <3>1. t1 - a = k - 65536 * m + c - 65536 * w
      BY <1>2, <2>1, <2>2, <2>3, <2>4, SMT
    <3>. QED BY <1>2, <1>5, <2>1, <2>2, <2>3, <2>4, <3>1, SMT
  <2>10. words \in Int
    BY <1>2, <1>5, <2>1, <2>3, <2>4, SMT
  <2>. HIDE DEF words
  <2>11. \E q \in Int : Splits(words, 65536, q, i)
    <3>1. CASE v = i
      <4>1. words = 65536 * (-16384 * (m + w)) + i
        BY <2>2, <2>4, <2>9, <1>4, <1>5, <3>1, SMT
      <4>2. -16384 * (m + w) \in Int
        BY <2>2, <2>4, SMT
      <4>3. Splits(words, 65536, -16384 * (m + w), i)
        BY <1>4, <4>1, <4>2, SMT DEF Splits
      <4>. QED BY <4>2, <4>3
    <3>2. CASE v = i - 65536
      <4>1. words = 65536 * (-16384 * (m + w) - 1) + i
        BY <2>2, <2>4, <2>9, <1>4, <1>5, <3>2, SMT
      <4>2. -16384 * (m + w) - 1 \in Int
        BY <2>2, <2>4, SMT
      <4>3. Splits(words, 65536, -16384 * (m + w) - 1, i)
        BY <1>4, <4>1, <4>2, SMT DEF Splits
      <4>. QED BY <4>2, <4>3
    <3>. QED BY <1>5, <3>1, <3>2
  <2>12. Splits(t2, 4, x + 1 - 16384 * k + v - 16384 * c, 0)
    BY <1>5, <1>7, <2>1, <2>3, <2>5, SMT DEF Splits
  <2>13. /\ Splits(t2 - n2, 4, v - 16384 * c, 0)
         /\ Splits((t1 - n1) * 16384 + (v - 16384 * c) - v, AddressableWords, -w, 0)
    <3>1. v - 16384 * c \in Int /\ -w \in Int /\ 0 < AddressableWords
      BY <1>5, <2>3, <2>4, SMT DEF AddressableWords
    <3>2. Splits(t2 - n2, 4, v - 16384 * c, 0)
      BY <2>6, <3>1, SMT DEF Splits
    <3>3. Splits((t1 - n1) * 16384 + (v - 16384 * c) - v, AddressableWords, -w, 0)
      BY <2>7, <3>1, SMT DEF Splits, AddressableWords
    <3>. QED BY <3>2, <3>3
  <2>14. Splits(t2 - b, 4, 1 + v - 16384 * k - 16384 * c, 0)
    BY <1>2, <1>5, <2>1, <2>3, <2>8, SMT DEF Splits
  <2>. QED BY <2>11, <2>12, <2>13, <2>14 DEF words
<1>. DEFINE d == t2 - b
            g == t2 - n2
            s == v - 16384 * c
            e == (t1 - n1) * 16384 + s - v
            z == -w
            u == x + 1 - 16384 * k + v - 16384 * c
            words == (t1 - a) * 16384 + y - 1
<1>18. PICK q \in Int : Splits(words, 65536, q, i)
  BY <1>17
<1>19. Splits(t2, 4, u, 0) /\ Splits(g, 4, s, 0) /\ Splits(e, AddressableWords, z, 0)
      /\ Splits(d, 4, y, 0)
  BY <1>17
<1>20. /\ d \in Int /\ e \in Int /\ g \in Int /\ words \in Int /\ y \in Int /\ u \in Int /\ z \in Int /\ s \in Int
       /\ t2 \in Int /\ t1 \in Int /\ 0 <= t1 /\ t1 < 65536 /\ 0 <= t2 /\ t2 < 65536
  <2>1. t2 \in Int /\ t1 \in Int /\ w \in Int /\ k \in Int /\ 0 <= t1 /\ t1 < 65536 /\ 0 <= t2 /\ t2 < 65536
    BY <1>9, <1>13, <1>16, SMT DEF Splits
  <2>. QED BY <1>2, <1>5, <1>7, <1>10, <1>14, <2>1, SMT
<1>21. words = (t1 - a) * 16384 + y - 1
  OBVIOUS
<1>22. e = (t1 - n1) * 16384 + s - v
  OBVIOUS
<1>. HIDE DEF d, e, g, z, s, u, y, words
<1>23. Quotient(d, 4) = y
  BY <1>19, <1>20, OneDivision, SMT DEF Sizes
<1>24. Remainder(words, 65536) = i
  BY <1>18, <1>20, OneDivision, SMT DEF Sizes
<1>25. Remainder(t2, 4) = 0
  BY <1>19, <1>20, OneDivision, SMT DEF Sizes
<1>26. Quotient(g, 4) = s
  BY <1>19, <1>20, OneDivision, SMT DEF Sizes
<1>27. Remainder(e, AddressableWords) = 0
  <2>1. AddressableWords \in Sizes
    BY SMT DEF Sizes
  <2>2. e \in Int /\ Splits(e, AddressableWords, z, 0)
    BY <1>19, <1>20
  <2>. QED BY <2>1, <2>2, OneDivision, SMT
<1>28. Displacement(target) = Remainder((t1 - a) * 16384 + Quotient(d, 4) - 1, 65536)
  BY <1>1 DEF Displacement, a, b, d, Quotient, Remainder
<1>29. Displacement(target) = i
  BY <1>21, <1>23, <1>24, <1>28
<1>30. target \in Word32
  BY <1>1, <1>20, HalfIs, SMT DEF Word32
<1>31. target[2] % 4 = 0
  BY <1>1, <1>25 DEF Remainder
<1>32. Signed(F.immediate) = v
  <2>1. v = IF i >= 32768 THEN i - 65536 ELSE i
    BY DEF signed_immediate, v, i
  <2>2. Signed(F.immediate) = IF i < 32768 THEN i ELSE i - 65536
    BY DEF Signed, i
  <2>. QED BY <1>4, <2>1, <2>2, SMT
<1>33. WordsBetween(next_pc(address), target) = (t1 - n1) * 16384 + Quotient(g, 4)
  BY <1>1 DEF WordsBetween, g, Quotient
<1>34. (WordsBetween(next_pc(address), target) - Signed(F.immediate)) % AddressableWords = 0
  <2>1. WordsBetween(next_pc(address), target) - Signed(F.immediate) = e
    BY <1>5, <1>14, <1>20, <1>22, <1>26, <1>32, <1>33, SMT
  <2>. QED BY <1>27, <2>1 DEF Remainder
<1>. QED BY <1>29, <1>30, <1>31, <1>34 DEF i

\* A jump target keeps the region of the delay slot and gives its index back.
LEMMA Jumps ==
  ASSUME address \in Word32, F.jump_index = <<F.jump_index[1], Word[2]>>,
         Below(F.jump_index[1], 1024), Below(Word[2], 65536),
         NEW target, target = JumpTarget(address, F)
  PROVE  /\ JumpIndex(target) = F.jump_index
         /\ target \in Word32 /\ target[2] % 4 = 0
         /\ target[1] \div 4096 = next_pc(address)[1] \div 4096
<1>. DEFINE a == address[1]
            b == address[2]
            k == Quotient(b + 4, 65536)
            n1 == Remainder(a + k, 65536)
            p == Quotient(n1, 4096)
            j == F.jump_index[1]
            l == Word[2]
            u == Quotient(l, 16384)
            v == Remainder(l, 16384)
            t1 == p * 4096 + j * 4 + u
            t2 == Remainder(l * 4, 65536)
<1>1. target = <<t1, t2>> /\ next_pc(address)[1] = n1
  BY SMT DEF next_pc, JumpTarget, Quotient, Remainder
<1>2. a \in Int /\ b \in Int
  BY HalfIs, SMT DEF Word32
<1>3. j \in Int /\ 0 <= j /\ j < 1024 /\ l \in Int /\ 0 <= l /\ l < 65536
  BY SMT DEF Below
<1>4. F.jump_index = <<j, l>>
  OBVIOUS
<1>. HIDE DEF a, b, j, l
<1>5. b + 4 \in Int
  BY <1>2, SMT
<1>6. Splits(b + 4, 65536, k, Remainder(b + 4, 65536))
  BY <1>5, Division, SMT DEF Sizes
<1>. HIDE DEF k
<1>7. a + k \in Int
  BY <1>2, <1>6, SMT DEF Splits
<1>8. Splits(a + k, 65536, Quotient(a + k, 65536), n1)
  BY <1>7, Division, SMT DEF Sizes
<1>. HIDE DEF n1
<1>9. n1 \in Int /\ 0 <= n1 /\ n1 < 65536
  BY <1>8, SMT DEF Splits
<1>10. Splits(n1, 4096, p, Remainder(n1, 4096))
  BY <1>9, Division, SMT DEF Sizes
<1>11. Splits(l, 16384, u, v)
  BY <1>3, Division, SMT DEF Sizes
<1>. HIDE DEF p, u, v
<1>12. p \in Int /\ 0 <= p /\ p <= 15
  <2>. DEFINE r == Remainder(n1, 4096)
  <2>1. Splits(n1, 4096, p, r)
    BY <1>10
  <2>. HIDE DEF r
  <2>2. p \in Int /\ r \in Int /\ 0 <= r /\ r < 4096 /\ n1 = 4096 * p + r
    BY <2>1, SMT DEF Splits
  <2>. QED BY <1>9, <2>2, SMT
<1>13. u \in Int /\ v \in Int /\ 0 <= v /\ v < 16384 /\ l = 16384 * u + v
  BY <1>11, SMT DEF Splits
<1>14. 0 <= u /\ u < 4
  BY <1>3, <1>13, SMT
<1>. DEFINE l4 == l * 4
            v4 == 4 * v
            h == p * 1024 + j
            low == 4 * j + u
<1>15. l4 \in Int /\ v4 \in Int /\ h \in Int /\ low \in Int /\ t1 \in Int
  BY <1>3, <1>12, <1>13, SMT
<1>16. Splits(l4, 65536, u, v4)
  BY <1>3, <1>13, SMT DEF Splits
<1>17. Splits(v4, 4, v, 0)
  BY <1>13, SMT DEF Splits
<1>18. Splits(t1, 4, h, u)
  BY <1>3, <1>12, <1>13, <1>14, SMT DEF Splits
<1>19. Splits(h, 1024, p, j)
  BY <1>3, <1>12, SMT DEF Splits
<1>20. Splits(t1, 4096, p, low)
  BY <1>3, <1>12, <1>13, <1>14, SMT DEF Splits
<1>21. 0 <= t1 /\ t1 < 65536 /\ 0 <= v4 /\ v4 < 65536
  BY <1>3, <1>12, <1>13, <1>14, SMT
<1>22. l = u * 16384 + v
  BY <1>3, <1>13, SMT
<1>. HIDE DEF l4, v4, h, low, t1
<1>23. Remainder(l4, 65536) = v4
  BY <1>15, <1>16, OneDivision, SMT DEF Sizes
<1>24. t2 = v4
  BY <1>23 DEF l4
<1>25. Quotient(v4, 4) = v /\ Remainder(v4, 4) = 0
  BY <1>13, <1>15, <1>17, OneDivision, SMT DEF Sizes
<1>26. Quotient(t1, 4) = h /\ Remainder(t1, 4) = u
  BY <1>13, <1>15, <1>18, OneDivision, SMT DEF Sizes
<1>27. Remainder(h, 1024) = j
  BY <1>3, <1>12, <1>15, <1>19, OneDivision, SMT DEF Sizes
<1>28. Quotient(t1, 4096) = p
  BY <1>12, <1>15, <1>20, OneDivision, SMT DEF Sizes
<1>. HIDE DEF t2
<1>29. JumpIndex(target) =
         <<Remainder(Quotient(t1, 4), 1024), Remainder(t1, 4) * 16384 + Quotient(t2, 4)>>
  BY <1>1 DEF JumpIndex, Quotient, Remainder
<1>30. JumpIndex(target) = F.jump_index
  BY <1>4, <1>22, <1>24, <1>25, <1>26, <1>27, <1>29
<1>31. target \in Word32
  BY <1>1, <1>15, <1>21, <1>24, HalfIs, SMT DEF Word32
<1>32. target[2] % 4 = 0
  BY <1>1, <1>24, <1>25 DEF Remainder
<1>33. target[1] \div 4096 = next_pc(address)[1] \div 4096
  <2>1. target[1] = t1
    BY <1>1
  <2>2. Quotient(target[1], 4096) = Quotient(next_pc(address)[1], 4096)
    BY <1>1, <1>28, <2>1 DEF p
  <2>. QED BY <2>2 DEF Quotient
<1>. QED BY <1>30, <1>31, <1>32, <1>33

-----------------------------------------------------------------------------
(***************************************************************************)
(* The theorems.                                                           *)
(***************************************************************************)
LineInv ==
  /\ bytes \in Texts /\ address \in Addresses
  /\ output = NoOutput \/ output = format_instruction(Word, address)

\* What LineAssumption gives of the inputs.
LEMMA Inputs ==
  ASSUME LineInv
  PROVE  bytes \in [1 .. 4 -> Byte] /\ address \in Word32 /\ address[2] % 4 = 0
BY LineAssumption DEF LineInv

\* The line is the one of the bytes that were read, at their address.
THEOREM LineInvariantHolds == LineSpec => []LineInv
<1>1. LineInit => LineInv
  BY DEF LineInit, LineInv
<1>2. LineInv /\ [LineNext]_lineVars => LineInv'
  <2>. SUFFICES ASSUME LineInv, [LineNext]_lineVars PROVE LineInv'
    OBVIOUS
  <2>1. CASE Disassemble
    <3>1. /\ bytes' = bytes /\ address' = address
          /\ output' = format_instruction(read_instruction_word(bytes), address)
      BY <2>1 DEF Disassemble
    <3>2. read_instruction_word(bytes) = Word /\ Word' = Word
      BY <3>1 DEF read_instruction_word, Word
    <3>3. output' = format_instruction(Word', address')
      BY <3>1, <3>2
    <3>. QED BY <3>1, <3>3 DEF LineInv
  <2>2. CASE UNCHANGED lineVars
    BY <2>2 DEF lineVars, LineInv, Word
  <2>. QED BY <2>1, <2>2 DEF LineNext, LineWritten
<1>. QED BY <1>1, <1>2, PTL DEF LineSpec

\* A word is named by its encoding: for all 2^32 words.
THEOREM EveryWordNamed == LineSpec => []NamesTheInstruction
<1>1. LineInv => NamesTheInstruction
  <2>. SUFFICES ASSUME LineInv, output # NoOutput
                PROVE  /\ decode(Word) \in DecodedInstruction
                       /\ {op \in DOMAIN Encoding : Encodes(op)} =
                            (IF output[1] = "unsupported" THEN {} ELSE {output[1]})
    BY DEF NamesTheInstruction
  <2>. DEFINE named == OperationOf(F)
  <2>1. decode(Word) \in DecodedInstruction
    BY Inputs, DecodedType
  <2>2. output[1] = named
    BY Formatted DEF LineInv
  <2>3. named \in Operation
    BY OperationTable, Zenon
  <2>4. DOMAIN Encoding = Operation \ {"unsupported"}
    BY DEF Encoding, Operation
  <2>5. \A op : Encodes(op) <=> Matches(F, op)
    BY DEF Encodes, Matches, F
  <2>6. \A op \in Operation \ {"unsupported"} : Matches(F, op) <=> named = op
    BY EncodingTable, OperationTable DEF Table, Operation
  <2>. HIDE DEF named
  <2>7. {op \in DOMAIN Encoding : Encodes(op)} = {op \in Operation \ {"unsupported"} : named = op}
    BY <2>4, <2>5, <2>6
  <2>8. {op \in Operation \ {"unsupported"} : named = op}
          = IF named = "unsupported" THEN {} ELSE {named}
    BY <2>3
  <2>. QED BY <2>1, <2>2, <2>7, <2>8
<1>. QED BY <1>1, LineInvariantHolds, PTL

\* The targets of the listing are the processor's, from every address.
THEOREM EveryTargetIsExact == LineSpec => []TargetsAreExact
<1>1. LineInv => TargetsAreExact
  <2>. SUFFICES ASSUME LineInv, output # NoOutput PROVE TargetsAreExact
    BY DEF TargetsAreExact
  <2>. DEFINE op == OperationOf(F)
              slot == next_pc(address)
  <2>1. output = format_instruction(Word, address) /\ output[1] = op
    BY Formatted DEF LineInv
  <2>2. op \in {"beq", "bne"} => output = <<op, F.rs, F.rt, BranchTarget(address, F)>>
    BY <2>1, Formatted
  <2>3. op \in {"j", "jal"} => output = <<op, JumpTarget(address, F)>>
    BY <2>1, Formatted
  <2>4. slot = <<(address[1] + (address[2] + 4) \div 65536) % 65536, (address[2] + 4) % 65536>>
    BY DEF next_pc
  <2>5. /\ address \in Word32 /\ address[2] % 4 = 0 /\ Below(F.immediate, 65536)
        /\ F.jump_index = <<F.jump_index[1], Word[2]>> /\ Below(F.jump_index[1], 1024)
        /\ Below(Word[2], 65536)
    BY Inputs, FieldFacts, WordFacts
  <2>. HIDE DEF op, slot
  <2>6. ASSUME op \in {"beq", "bne"}
        PROVE  /\ output[4] \in Word32 /\ output[4][2] % 4 = 0
               /\ (WordsBetween(slot, output[4]) - Signed(Word[2])) % AddressableWords = 0
    <3>1. output[4] = BranchTarget(address, F)
      BY <2>2, <2>6
    <3>2. F.immediate = Word[2]
      BY Inputs, FieldFacts
    <3>. QED BY <2>5, <3>1, <3>2, Branches DEF slot
  <2>7. ASSUME op \in {"j", "jal"}
        PROVE  /\ output[2] \in Word32 /\ output[2][2] % 4 = 0
               /\ output[2][1] \div 4096 = slot[1] \div 4096
               /\ JumpIndex(output[2]) = <<Word[1] % 1024, Word[2]>>
    <3>1. output[2] = JumpTarget(address, F)
      BY <2>3, <2>7
    <3>2. JumpIndex(output[2]) = F.jump_index
      BY <2>5, <3>1, Jumps
    <3>3. F.jump_index[1] = Word[1] % 1024
      BY DEF F, Fields
    <3>. QED BY <2>5, <3>1, <3>2, <3>3, Jumps DEF slot
  <2>. QED BY <2>1, <2>4, <2>6, <2>7 DEF TargetsAreExact
<1>. QED BY <1>1, LineInvariantHolds, PTL

\* What the assembler makes of a line, operation by operation.
LEMMA Reassembled ==
  ASSUME NEW op, op = output[1]
  PROVE  /\ op \in {"addu", "subu", "and", "or", "xor"} =>
              Assembled = RType(Encoding[op].function, output[3], output[4], output[2], 0)
         /\ op \in {"sll", "srl"} =>
              Assembled = RType(Encoding[op].function, 0, output[3], output[2], output[4])
         /\ op = "jr" => Assembled = RType(8, output[2], 0, 0, 0)
         /\ op = "addiu" => Assembled = IType(op, output[3], output[2], TwosComplement(output[4]))
         /\ op \in {"andi", "ori"} => Assembled = IType(op, output[3], output[2], output[4])
         /\ op = "lui" => Assembled = IType(op, 0, output[2], output[3])
         /\ op \in {"lw", "sw"} => Assembled = IType(op, output[4], output[2], TwosComplement(output[3]))
         /\ op \in {"beq", "bne"} => Assembled = IType(op, output[2], output[3], Displacement(output[4]))
         /\ op \in {"j", "jal"} =>
              Assembled = <<Encoding[op].primary_opcode * 1024 + JumpIndex(output[2])[1],
                            JumpIndex(output[2])[2]>>
         /\ op = "unsupported" => Assembled = output[2]
<1>1. op \in {"addu", "subu", "and", "or", "xor"} =>
        Assembled = RType(Encoding[op].function, output[3], output[4], output[2], 0)
  BY DEF Assembled
<1>2. op \in {"sll", "srl"} =>
        Assembled = RType(Encoding[op].function, 0, output[3], output[2], output[4])
  BY DEF Assembled
<1>3. op = "jr" => Assembled = RType(8, output[2], 0, 0, 0)
  BY DEF Assembled
<1>4. op = "addiu" => Assembled = IType(op, output[3], output[2], TwosComplement(output[4]))
  BY DEF Assembled
<1>5. op \in {"andi", "ori"} => Assembled = IType(op, output[3], output[2], output[4])
  BY DEF Assembled
<1>6. op = "lui" => Assembled = IType(op, 0, output[2], output[3])
  BY DEF Assembled
<1>7. op \in {"lw", "sw"} => Assembled = IType(op, output[4], output[2], TwosComplement(output[3]))
  BY DEF Assembled
<1>8. op \in {"beq", "bne"} => Assembled = IType(op, output[2], output[3], Displacement(output[4]))
  BY DEF Assembled
<1>9. op \in {"j", "jal"} =>
        Assembled = <<Encoding[op].primary_opcode * 1024 + JumpIndex(output[2])[1],
                      JumpIndex(output[2])[2]>>
  BY DEF Assembled
<1>10. op = "unsupported" => Assembled = output[2]
  BY DEF Assembled
<1>. QED BY <1>1, <1>2, <1>3, <1>4, <1>5, <1>6, <1>7, <1>8, <1>9, <1>10

\* A line determines its word.
THEOREM EveryWordRecovered == LineSpec => []LineDeterminesWord
<1>1. LineInv => LineDeterminesWord
  <2>. SUFFICES ASSUME LineInv, output # NoOutput PROVE Assembled = Word
    BY DEF LineDeterminesWord
  <2>. DEFINE op == OperationOf(F)
              po == F.primary_opcode
              rs == F.rs
              rt == F.rt
              rd == F.rd
              sh == F.shift_amount
              fn == F.function
              im == F.immediate
              ji == F.jump_index[1]
              h == Word[1]
              l == Word[2]
  <2>1. output = format_instruction(Word, address) /\ output[1] = op /\ op \in Operation
    BY Formatted, OperationTable DEF LineInv
  <2>2. Table(F, LAMBDA o : OperationOf(F) = o)
    BY OperationTable DEF Table
  <2>3. bytes \in [1 .. 4 -> Byte]
    BY Inputs
  <2>4. Word = <<h, l>> /\ h \in Int /\ l \in Int
    BY <2>3, WordFacts DEF Below
  <2>5. /\ h = po * 1024 + rs * 32 + rt /\ h = po * 1024 + ji
        /\ l = rd * 2048 + sh * 64 + fn /\ im = l
    BY <2>3, FieldFacts
  <2>6. /\ po \in Int /\ rs \in Int /\ rt \in Int /\ rd \in Int /\ sh \in Int /\ fn \in Int /\ ji \in Int
    BY <2>3, FieldFacts DEF Below
  <2>7. TwosComplement(signed_hex(signed_immediate(F))) = im
    BY <2>3, FieldFacts, Immediates
  <2>. HIDE DEF op, po, rs, rt, rd, sh, fn, im, ji, h, l
  <2>8. CASE op \in {"addu", "subu", "and", "or", "xor"}
    <3>1. output = <<op, rd, rs, rt>>
      BY <2>1, <2>8, Formatted DEF op, rd, rs, rt
    <3>2. Assembled = <<rs * 32 + rt, rd * 2048 + 0 * 64 + Encoding[op].function>>
      BY <2>1, <2>8, <3>1, Reassembled DEF RType
    <3>3. po = 0 /\ sh = 0 /\ fn = Encoding[op].function
      BY <2>2, <2>8 DEF Table, op, Encoding, po, sh, fn
    <3>4. h = rs * 32 + rt /\ l = rd * 2048 + 0 * 64 + fn
      BY <2>5, <2>6, <3>3, SMT
    <3>. QED BY <2>4, <3>2, <3>3, <3>4
  <2>9. CASE op \in {"sll", "srl"}
    <3>1. output = <<op, rd, rt, sh>>
      BY <2>1, <2>9, Formatted DEF op, rd, rt, sh
    <3>2. Assembled = <<0 * 32 + rt, rd * 2048 + sh * 64 + Encoding[op].function>>
      BY <2>1, <2>9, <3>1, Reassembled DEF RType
    <3>3. po = 0 /\ rs = 0 /\ fn = Encoding[op].function
      BY <2>2, <2>9 DEF Table, op, Encoding, po, rs, fn
    <3>4. h = 0 * 32 + rt
      BY <2>5, <2>6, <3>3, SMT
    <3>. QED BY <2>4, <2>5, <3>2, <3>3, <3>4
  <2>10. CASE op = "jr"
    <3>1. output = <<op, rs>>
      BY <2>1, <2>10, Formatted DEF op, rs
    <3>2. Assembled = <<rs * 32 + 0, 0 * 2048 + 0 * 64 + 8>>
      BY <2>1, <2>10, <3>1, Reassembled DEF RType
    <3>3. po = 0 /\ rt = 0 /\ rd = 0 /\ sh = 0 /\ fn = 8
      BY <2>2, <2>10 DEF Table, op, po, rt, rd, sh, fn
    <3>4. h = rs * 32 + 0 /\ l = 0 * 2048 + 0 * 64 + 8
      BY <2>5, <2>6, <3>3, SMT
    <3>. QED BY <2>4, <3>2, <3>4
  <2>11. CASE op = "addiu"
    <3>1. output = <<op, rt, rs, signed_hex(signed_immediate(F))>>
      BY <2>1, <2>11, Formatted DEF op, rt, rs
    <3>2. Assembled = <<Encoding[op].primary_opcode * 1024 + rs * 32 + rt, im>>
      BY <2>1, <2>7, <2>11, <3>1, Reassembled DEF IType
    <3>3. po = Encoding[op].primary_opcode
      BY <2>2, <2>11 DEF Table, op, Encoding, po
    <3>. QED BY <2>4, <2>5, <3>2, <3>3
  <2>12. CASE op \in {"andi", "ori"}
    <3>1. output = <<op, rt, rs, im>>
      BY <2>1, <2>12, Formatted DEF op, rt, rs, im
    <3>2. Assembled = <<Encoding[op].primary_opcode * 1024 + rs * 32 + rt, im>>
      BY <2>1, <2>12, <3>1, Reassembled DEF IType
    <3>3. po = Encoding[op].primary_opcode
      BY <2>2, <2>12 DEF Table, op, Encoding, po
    <3>. QED BY <2>4, <2>5, <3>2, <3>3
  <2>13. CASE op = "lui"
    <3>1. output = <<op, rt, im>>
      BY <2>1, <2>13, Formatted DEF op, rt, im
    <3>2. Assembled = <<Encoding[op].primary_opcode * 1024 + 0 * 32 + rt, im>>
      BY <2>1, <2>13, <3>1, Reassembled DEF IType
    <3>3. po = Encoding[op].primary_opcode /\ rs = 0
      BY <2>2, <2>13 DEF Table, op, Encoding, po, rs
    <3>. QED BY <2>4, <2>5, <3>2, <3>3
  <2>14. CASE op \in {"lw", "sw"}
    <3>1. output = <<op, rt, signed_hex(signed_immediate(F)), rs>>
      BY <2>1, <2>14, Formatted DEF op, rt, rs
    <3>2. Assembled = <<Encoding[op].primary_opcode * 1024 + rs * 32 + rt, im>>
      BY <2>1, <2>7, <2>14, <3>1, Reassembled DEF IType
    <3>3. po = Encoding[op].primary_opcode
      BY <2>2, <2>14 DEF Table, op, Encoding, po
    <3>. QED BY <2>4, <2>5, <3>2, <3>3
  <2>15. CASE op \in {"beq", "bne"}
    <3>1. output = <<op, rs, rt, BranchTarget(address, F)>>
      BY <2>1, <2>15, Formatted DEF op, rt, rs
    <3>2. Displacement(BranchTarget(address, F)) = im
      BY <2>3, Inputs, FieldFacts, Branches DEF im
    <3>3. Assembled = <<Encoding[op].primary_opcode * 1024 + rs * 32 + rt, im>>
      BY <2>1, <2>15, <3>1, <3>2, Reassembled DEF IType
    <3>4. po = Encoding[op].primary_opcode
      BY <2>2, <2>15 DEF Table, op, Encoding, po
    <3>. QED BY <2>4, <2>5, <3>3, <3>4
  <2>16. CASE op \in {"j", "jal"}
    <3>1. output = <<op, JumpTarget(address, F)>>
      BY <2>1, <2>16, Formatted DEF op
    <3>2. JumpIndex(JumpTarget(address, F)) = <<ji, l>>
      BY <2>3, Inputs, FieldFacts, WordFacts, Jumps DEF ji, l
    <3>3. Assembled = <<Encoding[op].primary_opcode * 1024 + ji, l>>
      BY <2>1, <2>16, <3>1, <3>2, Reassembled
    <3>4. po = Encoding[op].primary_opcode
      BY <2>2, <2>16 DEF Table, op, Encoding, po
    <3>. QED BY <2>4, <2>5, <3>3, <3>4
  <2>17. CASE op = "unsupported"
    <3>1. output = <<op, Word, unsupported_family(decode(Word))>>
      BY <2>1, <2>17, Formatted DEF op
    <3>. QED BY <2>1, <2>17, <3>1, Reassembled
  <2>. QED BY <2>1, <2>8, <2>9, <2>10, <2>11, <2>12, <2>13, <2>14, <2>15, <2>16, <2>17 DEF Operation
<1>. QED BY <1>1, LineInvariantHolds, PTL
=============================================================================
