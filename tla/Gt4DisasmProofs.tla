-------------------------- MODULE Gt4DisasmProofs --------------------------
(***************************************************************************)
(* The four-byte reads of the loop stay inside the text segment; what has  *)
(* come out is a beginning of the listing, however flushes fail and        *)
(* whenever the process dies; status 0 loses at most the last buffer; a    *)
(* complete report adds up: for every text, start and count, set of        *)
(* families, size of the buffer and width of the addresses.                *)
(***************************************************************************)
EXTENDS Gt4Disasm, NumberArgument, SequenceTheorems, FiniteSetTheorems, WellFoundedInduction, TLAPS

\* What the loop rests on: the range was checked, and the arguments are those
\* it was checked for.
Checked ==
  /\ text \in Texts /\ start \in Starts /\ count \in Counts
  /\ pc = "line" => InRange

\* The numbers behind the arguments.
LEMMA ArgumentNumbers ==
  ASSUME text \in Texts, start \in Starts, count \in Counts
  PROVE  /\ text.address \in Nat /\ text.address < WordSize /\ text.size \in Nat
         /\ start \in Nat /\ start < WordSize /\ count \in Nat
         /\ WordSize \in Nat \ {0}
<1>1. WordSize \in Nat \ {0}
  BY DisasmAssumption
<1>2. text.address \in Word /\ text.size \in Nat /\ start \in Word /\ count \in Word
  BY DisasmAssumption
<1>. QED BY <1>1, <1>2 DEF Word

\* An address of the range does not wrap and its word lies inside the text.
LEMMA WordInText ==
  ASSUME text \in Texts, start \in Starts, count \in Counts, InRange,
         NEW i \in Nat, i < count
  PROVE  /\ U32(start + i * 4) = start + i * 4
         /\ (start + i * 4) - text.address >= 0
         /\ (start + i * 4) - text.address + 4 <= text.size
<1>1. /\ text.address \in Nat /\ text.size \in Nat /\ start \in Nat /\ count \in Nat
      /\ WordSize \in Nat \ {0}
  BY ArgumentNumbers
<1>2. /\ text.address <= start /\ start + count * 4 <= text.address + text.size
      /\ text.address + text.size <= WordSize
  BY DEF InRange, text_end
<1>3. start + i * 4 \in 0 .. WordSize - 1
  BY <1>1, <1>2
<1>4. \A n \in 0 .. WordSize - 1 : n % WordSize = n
  BY <1>1
<1>5. U32(start + i * 4) = start + i * 4
  BY <1>3, <1>4 DEF U32
<1>. QED BY <1>1, <1>2, <1>5

LEMMA InitChecked == Init => Checked
BY DEF Init, Checked

LEMMA StepChecked == Checked /\ [Next]_vars => Checked'
<1> SUFFICES ASSUME Checked, [Next]_vars PROVE Checked'
  OBVIOUS
<1>1. UNCHANGED <<text, start, count>>
  BY DEF Next, vars, arguments, ParseArguments, ReadCore, CheckRange, ListWord,
         WriteSummary, WriteFamilies, CheckStreams, FlushAtExit, Kill, Finished
<1>2. InRange' <=> InRange
  BY <1>1 DEF InRange, text_end
<1>3. pc' = "line" => InRange
  <2>1. CASE CheckRange
    BY <2>1 DEF CheckRange, Exit
  <2>2. CASE ~CheckRange
    <3>1. pc' = "line" => pc = "line"
      BY <2>2 DEF Next, vars, ParseArguments, ReadCore, ListWord, WriteSummary,
             WriteFamilies, CheckStreams, FlushAtExit, Kill, Finished, Exit
    <3>. QED BY <3>1 DEF Checked
  <2>. QED BY <2>1, <2>2
<1>. QED BY <1>1, <1>2, <1>3 DEF Checked

LEMMA AlwaysChecked == Spec => []Checked
BY InitChecked, StepChecked, PTL DEF Spec

-----------------------------------------------------------------------------
\* The loop variable stays inside the loop.
IndexInLoop == index \in Nat

LEMMA AlwaysIndex == Spec => []IndexInLoop
<1>1. Init => IndexInLoop
  BY DEF Init, IndexInLoop
<1>2. IndexInLoop /\ [Next]_vars => IndexInLoop'
  <2> SUFFICES ASSUME index \in Nat, [Next]_vars PROVE index' \in Nat
    BY DEF IndexInLoop
  <2>1. index' = index \/ index' = index + 1
    BY DEF Next, vars, ParseArguments, ReadCore, CheckRange, ListWord,
             WriteSummary, WriteFamilies, CheckStreams, FlushAtExit, Kill, Finished
  <2>. QED BY <2>1
<1>. QED BY <1>1, <1>2, PTL DEF Spec

\* The unchecked span over four bytes never leaves the text segment.
THEOREM ReadsInside == Spec => []ReadsInsideText
<1>1. Checked /\ IndexInLoop => ReadsInsideText
  <2> SUFFICES ASSUME Checked, IndexInLoop, pc = "line", NEW i \in index .. count - 1
               PROVE  /\ U32(start + i * 4) - text.address >= 0
                      /\ U32(start + i * 4) - text.address + 4 <= text.size
    BY DEF ReadsInsideText
  <2>1. /\ text \in Texts /\ start \in Starts /\ count \in Counts /\ InRange
        /\ index \in Nat
    BY DEF Checked, IndexInLoop
  <2>2. count \in Nat
    BY <2>1, ArgumentNumbers
  <2>3. i \in Nat /\ i < count
    BY <2>1, <2>2
  <2>4. /\ U32(start + i * 4) = start + i * 4
        /\ (start + i * 4) - text.address >= 0
        /\ (start + i * 4) - text.address + 4 <= text.size
    BY <2>1, <2>3, WordInText
  <2>. QED BY <2>4
<1>. QED BY <1>1, AlwaysChecked, AlwaysIndex, PTL
-----------------------------------------------------------------------------
(***************************************************************************)
(* The invariant behind the other properties.                              *)
(***************************************************************************)

\* The i-th row of the listing, the family it is counted under, and the rows
\* done that are counted under one.
Row(i) == Line(start + (i - 1) * 4)
Kind(i) == KindAt((start + (i - 1) * 4) - text.address)
Done(kinds) == {i \in 1 .. index : Kind(i) \in kinds}

Lines == [pc : Int, kind : Kinds]
Summaries == [words : Nat, supported : Nat, unsupported : Nat]

Streams ==
  /\ listing \in [good : BOOLEAN, buffer : Seq(Lines), out : Seq(Lines)]
  /\ report \in [good : BOOLEAN, summary : Summaries, families : SUBSET (Families \X Nat)]

\* Consecutive rows, the first of them behind k others.
Piece(s, k) == s \in Seq(Lines) /\ \A i \in 1 .. Len(s) : s[i] = Row(k + i)

\* Where the run is, and what that says of the loop.
Phase ==
  /\ index > 0 \/ pc \in {"line", "families", "check"} \/ code = "0" => InRange
  /\ pc \in {"arguments", "core", "range"} => index = 0
  /\ pc \in {"families", "check"} => index = count
  /\ pc \notin {"exit", "ended"} => code = "none"
  /\ code = "0" => index = count

\* What came out is a beginning; with what is in the buffer it is every row
\* done, while cout is good and the process lives.
Listed ==
  /\ Piece(listing.out, 0) /\ Len(listing.out) <= index
  /\ listing.good => Piece(listing.buffer, Len(listing.out))
  /\ listing.good /\ pc # "ended" => Len(listing.out) + Len(listing.buffer) = index
  /\ ~listing.good \/ pc = "ended" => listing.buffer = <<>>
  /\ code = "0" /\ pc = "exit" => listing.good
  /\ code = "0" => Len(listing.out) > count - BufferLines

\* Every row done is counted, under its family and in the total.
Tallied ==
  /\ \A f \in Families : unsupported_counts[f] = Cardinality(Done({f}))
  /\ unsupported_total = Cardinality(Done(Families))

Summary == [words |-> count, supported |-> U32(count - unsupported_total),
            unsupported |-> unsupported_total]

\* A report that is good is complete as far as the run has come.
Reported ==
  /\ report.good /\ pc = "families" => report.summary = Summary
  /\ report.good /\ pc \in {"check", "exit"} /\ index > 0 =>
       index = count /\ report.summary = Summary /\ report.families = FamilyLines
  /\ code = "0" => report.good /\ report.summary = Summary

Inv == TypeOK /\ Streams /\ Phase /\ Listed /\ Tallied /\ Reported

-----------------------------------------------------------------------------
\* An index of the loop is a number of 32 bits.
LEMMA CountIsNumber ==
  ASSUME text \in Texts, start \in Starts, count \in Counts
  PROVE  count \in Nat /\ count < WordSize
<1>1. count \in Word /\ WordSize \in Nat
  BY DisasmAssumption
<1>. QED BY <1>1 DEF Word

LEMMA NumberFits ==
  ASSUME NEW n \in Nat, n < WordSize
  PROVE  U32(n) = n
<1>1. WordSize \in Nat \ {0}
  BY DisasmAssumption
<1>2. \A k \in 0 .. WordSize - 1 : k % WordSize = k
  BY <1>1
<1>. QED BY <1>1, <1>2 DEF U32

\* The word behind a row is one of the text's, and decoded.
LEMMA RowType ==
  ASSUME text \in Texts, start \in Starts, count \in Counts, InRange,
         NEW i \in 1 .. count
  PROVE  Kind(i) \in Kinds /\ Row(i) \in Lines
<1>1. /\ text.address \in Nat /\ text.size \in Nat /\ start \in Nat /\ count \in Nat
  BY ArgumentNumbers
<1>2. i - 1 \in Nat /\ i - 1 < count
  BY <1>1
<1>. DEFINE at == (start + (i - 1) * 4) - text.address
<1>3. at >= 0 /\ at + 4 <= text.size
  BY <1>2, WordInText
<1>4. at \in Nat
  BY <1>1, <1>2, <1>3
<1>. HIDE DEF at
<1>5. at \div 4 \in 0 .. (text.size \div 4) - 1
  BY <1>1, <1>3, <1>4
<1>6. text.words[at \div 4] \in Kinds
  BY <1>5, DisasmAssumption
<1>7. Kind(i) \in Kinds
  BY <1>6 DEF Kind, KindAt, at
<1>8. start + (i - 1) * 4 \in Int
  BY <1>1, <1>2
<1>9. Row(i) = [pc |-> start + (i - 1) * 4, kind |-> Kind(i)]
  BY DEF Row, Line, Kind
<1>. QED BY <1>7, <1>8, <1>9 DEF Lines

LEMMA EmptyPiece == \A k : Piece(<<>>, k)
BY EmptySeq DEF Piece

\* One more row.
LEMMA PieceAppend ==
  ASSUME NEW s, NEW k \in Nat, Piece(s, k), Row(k + Len(s) + 1) \in Lines
  PROVE  /\ Piece(Append(s, Row(k + Len(s) + 1)), k)
         /\ Len(Append(s, Row(k + Len(s) + 1))) = Len(s) + 1
<1>. DEFINE row == Row(k + Len(s) + 1)
<1>. HIDE DEF row
<1>1. s \in Seq(Lines) /\ row \in Lines /\ Len(s) \in Nat
  BY LenProperties DEF Piece, row
<1>2. /\ Append(s, row) \in Seq(Lines)
      /\ Len(Append(s, row)) = Len(s) + 1
      /\ \A i \in 1 .. Len(s) : Append(s, row)[i] = s[i]
      /\ Append(s, row)[Len(s) + 1] = row
  BY <1>1, AppendProperties
<1>3. ASSUME NEW i \in 1 .. Len(s) + 1
      PROVE  Append(s, row)[i] = Row(k + i)
  <2>1. CASE i = Len(s) + 1
    <3>1. k + i = k + Len(s) + 1
      BY <1>1, <2>1
    <3>. QED BY <1>2, <2>1, <3>1 DEF row
  <2>2. CASE i # Len(s) + 1
    BY <1>1, <1>2, <2>2 DEF Piece
  <2>. QED BY <2>1, <2>2
<1>. QED BY <1>2, <1>3 DEF Piece, row

\* A flush moves rows from the buffer to what came out.
LEMMA PieceConcat ==
  ASSUME NEW s, NEW t, Piece(s, 0), Piece(t, Len(s))
  PROVE  Piece(s \o t, 0) /\ Len(s \o t) = Len(s) + Len(t)
<1>1. s \in Seq(Lines) /\ t \in Seq(Lines) /\ Len(s) \in Nat /\ Len(t) \in Nat
  BY LenProperties DEF Piece
<1>2. /\ s \o t \in Seq(Lines) /\ Len(s \o t) = Len(s) + Len(t)
      /\ \A i \in 1 .. Len(s) + Len(t) :
           (s \o t)[i] = IF i <= Len(s) THEN s[i] ELSE t[i - Len(s)]
  BY <1>1, ConcatProperties
<1>3. ASSUME NEW i \in 1 .. Len(s) + Len(t)
      PROVE  (s \o t)[i] = Row(0 + i)
  <2>1. CASE i <= Len(s)
    BY <1>1, <1>2, <2>1 DEF Piece
  <2>2. CASE ~(i <= Len(s))
    <3>1. i - Len(s) \in 1 .. Len(t) /\ Len(s) + (i - Len(s)) = 0 + i
      BY <1>1, <2>2
    <3>2. t[i - Len(s)] = Row(Len(s) + (i - Len(s)))
      BY <3>1 DEF Piece
    <3>. QED BY <1>2, <2>2, <3>1, <3>2
  <2>. QED BY <2>1, <2>2
<1>. QED BY <1>2, <1>3 DEF Piece

\* A flush that fails has written the first rows.
LEMMA PieceSub ==
  ASSUME NEW s, NEW k \in Nat, Piece(s, k), NEW n \in 0 .. Len(s)
  PROVE  Piece(SubSeq(s, 1, n), k) /\ Len(SubSeq(s, 1, n)) = n
<1>1. s \in Seq(Lines) /\ Len(s) \in Nat
  BY LenProperties DEF Piece
<1>2. /\ SubSeq(s, 1, n) \in Seq(Lines)
      /\ Len(SubSeq(s, 1, n)) = n
      /\ \A i \in 1 .. n : SubSeq(s, 1, n)[i] = s[i]
  <2>1. \A i \in 1 .. n : i \in 1 .. Len(s) /\ s[i] \in Lines
    BY <1>1, ElementOfSeq
  <2>2. /\ SubSeq(s, 1, n) \in Seq(Lines)
        /\ Len(SubSeq(s, 1, n)) = (IF 1 <= n THEN n - 1 + 1 ELSE 0)
        /\ \A i \in 1 .. n - 1 + 1 : SubSeq(s, 1, n)[i] = s[1 + i - 1]
    BY <1>1, <2>1, SubSeqProperties
  <2>. QED BY <1>1, <2>2
<1>. QED BY <1>1, <1>2 DEF Piece

-----------------------------------------------------------------------------
LEMMA DoneFinite ==
  ASSUME index \in Nat, NEW kinds
  PROVE  IsFiniteSet(Done(kinds)) /\ Cardinality(Done(kinds)) \in Nat
<1>1. IsFiniteSet(1 .. index)
  BY FS_Interval
<1>2. Done(kinds) \subseteq 1 .. index
  BY DEF Done
<1>. QED BY <1>1, <1>2, FS_Subset, FS_CardinalityType

\* A turn of the loop adds its row to the rows done of its kind.
LEMMA DoneGrows ==
  ASSUME index \in Nat, index' = index + 1, UNCHANGED arguments, NEW kinds
  PROVE  Cardinality(Done(kinds)')
           = Cardinality(Done(kinds)) + IF Kind(index + 1) \in kinds THEN 1 ELSE 0
<1>1. IsFiniteSet(Done(kinds)) /\ Cardinality(Done(kinds)) \in Nat
  BY DoneFinite
<1>a. index + 1 \notin Done(kinds)
  BY DEF Done
<1>2. \A i : Kind(i)' = Kind(i)
  BY DEF Kind, KindAt, arguments
<1>3. CASE Kind(index + 1) \in kinds
  <2>1. Done(kinds)' = Done(kinds) \cup {index + 1}
    BY <1>2, <1>3 DEF Done
  <2>. QED BY <1>1, <1>a, <1>3, <2>1, FS_AddElement
<1>4. CASE Kind(index + 1) \notin kinds
  <2>1. Done(kinds)' = Done(kinds)
    BY <1>2, <1>4 DEF Done
  <2>. QED BY <1>1, <1>4, <2>1
<1>. QED BY <1>3, <1>4

\* What no step changes about the rows.
LEMMA SameRows ==
  ASSUME UNCHANGED arguments
  PROVE  /\ \A i : Row(i)' = Row(i) /\ Kind(i)' = Kind(i)
         /\ InRange' <=> InRange
BY DEF arguments, Row, Line, Kind, KindAt, InRange, text_end

LEMMA SameDone ==
  ASSUME UNCHANGED arguments, index' = index, NEW kinds
  PROVE  Done(kinds)' = Done(kinds)
BY SameRows DEF Done

\* A step that leaves the loop and its streams alone.
LEMMA KeepsListed ==
  ASSUME Listed, UNCHANGED <<arguments, index, listing>>,
         pc = "ended" => pc' = "ended", code' = "0" => code = "0",
         pc' = "ended" => listing.buffer = <<>>,
         pc' = "exit" => pc = "exit"
  PROVE  Listed'
<1>1. Piece(listing.out, 0)' /\ (listing.good => Piece(listing.buffer, Len(listing.out)))'
  BY SameRows DEF Listed, Piece
<1>2. count' = count
  BY DEF arguments
<1>. QED BY <1>1, <1>2 DEF Listed

LEMMA KeepsTallied ==
  ASSUME Tallied, UNCHANGED <<arguments, index, tallies>>
  PROVE  Tallied'
<1>1. \A kinds : Done(kinds)' = Done(kinds)
  BY SameDone
<1>. QED BY <1>1 DEF Tallied, tallies

-----------------------------------------------------------------------------
LEMMA InitInv == Init => Inv
<1> SUFFICES ASSUME Init PROVE Inv
  OBVIOUS
<1>1. count \in Nat /\ WordSize \in Nat \ {0} /\ BufferLines \in Nat \ {0}
  BY CountIsNumber, DisasmAssumption DEF Init
<1>2. TypeOK
  BY <1>1, EmptySeq DEF Init, TypeOK
<1>3. Streams
  BY EmptySeq DEF Init, Streams, Summaries, Nothing
<1>4. Phase
  BY DEF Init, Phase
<1>5. Listed
  BY EmptyPiece, EmptySeq DEF Init, Listed
<1>6. Tallied
  <2>1. \A kinds : Done(kinds) = {}
    BY DEF Init, Done
  <2>. QED BY <2>1, FS_EmptySet DEF Init, Tallied
<1>7. Reported
  BY DEF Init, Reported
<1>. QED BY <1>2, <1>3, <1>4, <1>5, <1>6, <1>7 DEF Inv

\* The steps before the loop, and stuttering.
LEMMA EarlyKeeps ==
  ASSUME Inv, ParseArguments \/ ReadCore \/ CheckRange \/ UNCHANGED vars
  PROVE  Inv'
<1>0. UNCHANGED <<arguments, index, tallies, listing, report>>
  BY DEF ParseArguments, ReadCore, CheckRange, vars, arguments, tallies
<1>1. TypeOK'
  BY <1>0 DEF Inv, TypeOK, ParseArguments, ReadCore, CheckRange, Exit, vars, arguments, tallies
<1>2. Streams'
  BY <1>0 DEF Inv, Streams
<1>3. Phase'
  BY <1>0, SameRows DEF Inv, TypeOK, Phase, ParseArguments, ReadCore, CheckRange, Exit, vars
<1>4. Listed'
  <2>1. CASE UNCHANGED vars
    BY <2>1, <1>0, KeepsListed DEF Inv, Listed, vars
  <2>2. CASE ParseArguments \/ ReadCore \/ CheckRange
    BY <2>2, <1>0, SameRows DEF Inv, Listed, Piece, Phase, ParseArguments, ReadCore, CheckRange, Exit
  <2>. QED BY <2>1, <2>2
<1>5. Tallied'
  BY <1>0, KeepsTallied DEF Inv
<1>6. Reported'
  BY <1>0, SameRows DEF Inv, Reported, Summary, FamilyLines, Phase, arguments, tallies,
     ParseArguments, ReadCore, CheckRange, Exit, vars
<1>. QED BY <1>1, <1>2, <1>3, <1>4, <1>5, <1>6 DEF Inv

\* The row of a turn is the next one of the listing.
LEMMA TurnsRow ==
  ASSUME TypeOK, InRange, index < count
  PROVE  /\ Line(address) = Row(index + 1)
         /\ KindAt(offset) = Kind(index + 1)
         /\ Kind(index + 1) \in Kinds /\ Row(index + 1) \in Lines
         /\ index + 1 \in 1 .. count /\ index \in Nat /\ count \in Nat /\ count < WordSize
<1>1. /\ text \in Texts /\ start \in Starts /\ count \in Counts
      /\ index \in 0 .. count
  BY DEF TypeOK
<1>2. count \in Nat /\ count < WordSize
  BY <1>1, CountIsNumber
<1>3. index \in Nat /\ index + 1 \in 1 .. count
  BY <1>1, <1>2
<1>4. U32(start + index * 4) = start + index * 4
  BY <1>1, <1>3, WordInText
<1>5. (index + 1) - 1 = index
  BY <1>3
<1>6. Line(address) = Row(index + 1) /\ KindAt(offset) = Kind(index + 1)
  BY <1>4, <1>5 DEF Row, Kind, address, offset
<1>7. Kind(index + 1) \in Kinds /\ Row(index + 1) \in Lines
  BY <1>1, <1>3, RowType
<1>. QED BY <1>2, <1>3, <1>6, <1>7

LEMMA ListWordLists ==
  ASSUME Inv, ListWord
  PROVE  /\ listing' \in [good : BOOLEAN, buffer : Seq(Lines), out : Seq(Lines)]
         /\ Len(listing'.buffer) < BufferLines
         /\ Listed'
<1>1. /\ InRange /\ index < count /\ TypeOK /\ code = "none" /\ pc = "line" /\ pc' = "line"
      /\ code' = code /\ index' = index + 1 /\ UNCHANGED arguments
      /\ WriteLine(Line(address))
  BY DEF Inv, Phase, ListWord, InLoop
<1>2. /\ Line(address) = Row(index + 1) /\ Row(index + 1) \in Lines
      /\ index \in Nat /\ BufferLines \in Nat \ {0}
  BY <1>1, TurnsRow, DisasmAssumption
<1>3. /\ listing \in [good : BOOLEAN, buffer : Seq(Lines), out : Seq(Lines)]
      /\ Len(listing.buffer) < BufferLines
      /\ Piece(listing.out, 0) /\ Len(listing.out) <= index
      /\ listing.good => Piece(listing.buffer, Len(listing.out))
      /\ listing.good => Len(listing.out) + Len(listing.buffer) = index
      /\ ~listing.good => listing.buffer = <<>>
  BY <1>1 DEF Inv, Streams, Listed, TypeOK
<1>4. Len(listing.out) \in Nat /\ Len(listing.buffer) \in Nat
  BY <1>3, LenProperties
<1>. DEFINE buffer == Append(listing.buffer, Row(index + 1))
<1>5. ASSUME listing.good
      PROVE  Piece(buffer, Len(listing.out)) /\ Len(buffer) = Len(listing.buffer) + 1
  <2>1. Len(listing.out) + Len(listing.buffer) + 1 = index + 1
    BY <1>3, <1>4, <1>5
  <2>2. Row(Len(listing.out) + Len(listing.buffer) + 1) \in Lines
    BY <1>2, <2>1
  <2>. QED BY <1>3, <1>4, <1>5, <2>1, <2>2, PieceAppend
<1>. HIDE DEF buffer
<1>6. \/ ~listing.good /\ UNCHANGED listing
      \/ /\ listing.good /\ Len(buffer) < BufferLines
         /\ listing' = [listing EXCEPT !.buffer = buffer]
      \/ /\ listing.good
         /\ listing' = [listing EXCEPT !.buffer = <<>>, !.out = @ \o buffer]
      \/ /\ listing.good
         /\ \E n \in 0 .. Len(buffer) - 1 :
              listing' = [good |-> FALSE, buffer |-> <<>>,
                          out |-> listing.out \o SubSeq(buffer, 1, n)]
  BY <1>1, <1>2 DEF WriteLine, GoodAfterFailure, buffer
\* What Listed comes to inside the loop.
<1>7. ASSUME /\ listing' \in [good : BOOLEAN, buffer : Seq(Lines), out : Seq(Lines)]
             /\ Piece(listing'.out, 0) /\ Len(listing'.out) <= index + 1
             /\ listing'.good => Piece(listing'.buffer, Len(listing'.out))
             /\ listing'.good => Len(listing'.out) + Len(listing'.buffer) = index + 1
             /\ ~listing'.good => listing'.buffer = <<>>
      PROVE  Listed'
  <2>1. \A s, k : Piece(s, k) =>
          s \in Seq(Lines) /\ \A i \in 1 .. Len(s) : s[i] = Row(k + i)'
    BY <1>1, SameRows DEF Piece
  <2>2. Piece(listing.out, 0)' /\ (listing.good => Piece(listing.buffer, Len(listing.out)))'
    BY <1>7, <2>1 DEF Piece
  <2>. QED BY <1>1, <1>7, <2>2 DEF Listed
<1>8. CASE ~listing.good /\ UNCHANGED listing
  BY <1>2, <1>3, <1>4, <1>7, <1>8
<1>9. CASE /\ listing.good /\ Len(buffer) < BufferLines
           /\ listing' = [listing EXCEPT !.buffer = buffer]
  <2>1. buffer \in Seq(Lines)
    BY <1>5, <1>9 DEF Piece
  <2>. QED BY <1>2, <1>3, <1>4, <1>5, <1>7, <1>9, <2>1
<1>10. CASE /\ listing.good
            /\ listing' = [listing EXCEPT !.buffer = <<>>, !.out = @ \o buffer]
  <2>1. /\ Piece(listing.out \o buffer, 0)
        /\ Len(listing.out \o buffer) = Len(listing.out) + Len(buffer)
    BY <1>3, <1>5, <1>10, PieceConcat
  <2>2. listing.out \o buffer \in Seq(Lines)
    BY <2>1 DEF Piece
  <2>3. /\ listing'.good /\ listing'.buffer = <<>> /\ listing'.out = listing.out \o buffer
        /\ listing' \in [good : BOOLEAN, buffer : Seq(Lines), out : Seq(Lines)]
    BY <1>3, <1>10, <2>2, EmptySeq
  <2>4. Len(listing'.out) = index + 1
    BY <1>3, <1>4, <1>5, <1>10, <2>1, <2>3
  <2>. QED BY <1>2, <1>7, <2>1, <2>3, <2>4, EmptyPiece, EmptySeq
<1>11. CASE /\ listing.good
            /\ \E n \in 0 .. Len(buffer) - 1 :
                 listing' = [good |-> FALSE, buffer |-> <<>>,
                             out |-> listing.out \o SubSeq(buffer, 1, n)]
  <2>1. PICK n \in 0 .. Len(buffer) - 1 :
          listing' = [good |-> FALSE, buffer |-> <<>>,
                      out |-> listing.out \o SubSeq(buffer, 1, n)]
    BY <1>11
  <2>2. Len(buffer) \in Nat /\ n \in 0 .. Len(buffer) /\ Len(listing.out) + Len(buffer) = index + 1
    BY <1>3, <1>4, <1>5, <1>11, <2>1
  <2>. DEFINE part == SubSeq(buffer, 1, n)
  <2>3. Piece(part, Len(listing.out)) /\ Len(part) = n
    BY <1>4, <1>5, <1>11, <2>2, PieceSub
  <2>. HIDE DEF part
  <2>4. Piece(listing.out \o part, 0) /\ Len(listing.out \o part) = Len(listing.out) + n
    BY <1>3, <2>3, PieceConcat
  <2>5. listing' = [good |-> FALSE, buffer |-> <<>>, out |-> listing.out \o part]
    BY <2>1 DEF part
  <2>6. listing.out \o part \in Seq(Lines)
    BY <2>4 DEF Piece
  <2>7. Len(listing.out) + n <= index + 1
    BY <1>2, <1>4, <2>2
  <2>. QED BY <1>2, <1>7, <2>4, <2>5, <2>6, <2>7, EmptySeq
<1>. QED BY <1>6, <1>8, <1>9, <1>10, <1>11

LEMMA ListWordKeeps ==
  ASSUME Inv, ListWord
  PROVE  Inv'
<1>. DEFINE kind == Kind(index + 1)
<1>1. /\ InRange /\ index < count /\ TypeOK /\ code = "none" /\ pc = "line" /\ pc' = "line"
      /\ code' = code /\ index' = index + 1 /\ UNCHANGED arguments /\ report' = report
  BY DEF Inv, Phase, ListWord, InLoop
<1>2. /\ kind = KindAt(offset) /\ kind \in Kinds
      /\ index \in Nat /\ index + 1 \in 1 .. count /\ count \in Nat /\ count < WordSize
  BY <1>1, TurnsRow
<1>. HIDE DEF kind
<1>3. IF kind = "supported" THEN UNCHANGED tallies
      ELSE /\ unsupported_total' = U32(unsupported_total + 1)
           /\ unsupported_counts' = [unsupported_counts EXCEPT ![kind] = U32(@ + 1)]
  BY <1>2 DEF ListWord, CountUp
<1>4. /\ unsupported_counts \in [Families -> 0 .. index] /\ unsupported_total \in 0 .. index
      /\ text \in Texts /\ start \in Starts /\ count \in Counts
  BY <1>1 DEF TypeOK
<1>5. \A n \in 0 .. index : n + 1 \in 0 .. index + 1 /\ U32(n + 1) = n + 1
  <2>1. \A n \in 0 .. index : n + 1 \in Nat /\ n + 1 < WordSize
    BY <1>2, DisasmAssumption
  <2>. QED BY <1>2, <2>1, NumberFits
<1>6. ASSUME kind = "supported"
      PROVE  /\ unsupported_counts' \in [Families -> 0 .. index + 1]
             /\ unsupported_total' \in 0 .. index + 1 /\ Tallied'
  <2>1. /\ unsupported_counts' = unsupported_counts /\ unsupported_total' = unsupported_total
    BY <1>3, <1>6 DEF tallies
  <2>2. unsupported_counts' \in [Families -> 0 .. index + 1] /\ unsupported_total' \in 0 .. index + 1
    BY <1>2, <1>4, <2>1
  <2>3. "supported" \notin Families
    BY DisasmAssumption
  <2>4. \A f \in Families : Cardinality(Done({f}))' = Cardinality(Done({f}))
    <3>1. \A f \in Families : kind \notin {f}
      BY <1>6, <2>3
    <3>. QED BY <1>1, <1>2, <3>1, DoneGrows, DoneFinite DEF kind
  <2>5. Cardinality(Done(Families))' = Cardinality(Done(Families))
    BY <1>1, <1>2, <1>6, <2>3, DoneGrows, DoneFinite DEF kind
  <2>6. Tallied'
    BY <2>1, <2>4, <2>5 DEF Inv, Tallied
  <2>. QED BY <2>2, <2>6
<1>7. ASSUME kind # "supported"
      PROVE  /\ unsupported_counts' \in [Families -> 0 .. index + 1]
             /\ unsupported_total' \in 0 .. index + 1 /\ Tallied'
  <2>1. kind \in Families
    BY <1>2, <1>7 DEF Kinds
  <2>2. /\ unsupported_total' = unsupported_total + 1
        /\ unsupported_counts' = [unsupported_counts EXCEPT ![kind] = @ + 1]
    BY <1>3, <1>4, <1>5, <1>7, <2>1
  <2>3. unsupported_counts' \in [Families -> 0 .. index + 1] /\ unsupported_total' \in 0 .. index + 1
    BY <1>2, <1>4, <1>5, <2>1, <2>2
  <2>4. \A f \in Families :
          Cardinality(Done({f}))' = Cardinality(Done({f})) + IF f = kind THEN 1 ELSE 0
    BY <1>1, <1>2, DoneGrows DEF kind
  <2>5. Cardinality(Done(Families))' = Cardinality(Done(Families)) + 1
    BY <1>1, <1>2, <2>1, DoneGrows DEF kind
  <2>6. \A f \in Families : unsupported_counts'[f] = Cardinality(Done({f}))'
    <3>1. \A f \in Families : unsupported_counts[f] = Cardinality(Done({f})) /\ unsupported_counts[f] \in Nat
      BY <1>4 DEF Inv, Tallied
    <3>2. DOMAIN unsupported_counts = Families
      BY <1>4
    <3>. SUFFICES ASSUME NEW f \in Families
                  PROVE  unsupported_counts'[f] = Cardinality(Done({f}))'
      OBVIOUS
    <3>3. CASE f = kind
      BY <2>1, <2>2, <2>4, <3>1, <3>2, <3>3
    <3>4. CASE f # kind
      BY <2>2, <2>4, <3>1, <3>2, <3>4
    <3>. QED BY <3>3, <3>4
  <2>7. Tallied'
    BY <2>2, <2>5, <2>6 DEF Inv, Tallied
  <2>. QED BY <2>3, <2>7
<1>8. /\ unsupported_counts' \in [Families -> 0 .. index'] /\ unsupported_total' \in 0 .. index'
      /\ Tallied'
  BY <1>1, <1>6, <1>7
<1>9. /\ listing' \in [good : BOOLEAN, buffer : Seq(Lines), out : Seq(Lines)]
      /\ Len(listing'.buffer) < BufferLines /\ Listed'
  BY ListWordLists
<1>10. TypeOK'
  BY <1>1, <1>2, <1>8, <1>9 DEF TypeOK, arguments
<1>11. Streams'
  BY <1>1, <1>9 DEF Inv, Streams
<1>12. Phase'
  BY <1>1, <1>2, SameRows DEF Phase
<1>13. Reported'
  BY <1>1 DEF Reported
<1>. QED BY <1>8, <1>9, <1>10, <1>11, <1>12, <1>13 DEF Inv

LEMMA WriteSummaryKeeps ==
  ASSUME Inv, WriteSummary
  PROVE  Inv'
<1>0. /\ pc = "line" /\ index = count /\ pc' = "families" /\ code' = code /\ code = "none"
      /\ UNCHANGED <<arguments, index, tallies, listing>>
      /\ \/ report' = [report EXCEPT !.summary = Summary]
         \/ report' = [report EXCEPT !.good = FALSE]
  BY DEF WriteSummary, Summary, GoodAfterFailure, Inv, Phase
<1>1. Streams'
  <2>1. Summary \in Summaries
    <3>1. count \in Nat /\ unsupported_total \in 0 .. count
      BY <1>0, CountIsNumber DEF Inv, TypeOK
    <3>2. WordSize \in Nat \ {0}
      BY DisasmAssumption
    <3>3. U32(count - unsupported_total) \in Nat
      BY <3>1, <3>2 DEF U32
    <3>. QED BY <3>1, <3>3 DEF Summary, Summaries
  <2>. QED BY <1>0, <2>1 DEF Inv, Streams
<1>2. TypeOK'
  <2>1. report'.good \in BOOLEAN
    BY <1>1 DEF Streams
  <2>. QED BY <1>0, <2>1 DEF Inv, TypeOK, arguments, tallies
<1>3. Phase'
  BY <1>0, SameRows DEF Inv, Phase, arguments
<1>4. Listed'
  BY <1>0, KeepsListed DEF Inv
<1>5. Tallied'
  BY <1>0, KeepsTallied DEF Inv
<1>6. Reported'
  BY <1>0 DEF Inv, Streams, Reported, Summary, arguments, tallies
<1>. QED BY <1>1, <1>2, <1>3, <1>4, <1>5, <1>6 DEF Inv

LEMMA WriteFamiliesKeeps ==
  ASSUME Inv, WriteFamilies
  PROVE  Inv'
<1>0. /\ pc = "families" /\ index = count /\ pc' = "check" /\ code' = code /\ code = "none"
      /\ UNCHANGED <<arguments, index, tallies, listing>>
      /\ \/ report.good /\ report' = [report EXCEPT !.families = FamilyLines]
         \/ \E part \in SUBSET FamilyLines :
              report' = [report EXCEPT !.good = FALSE, !.families = part]
         \/ ~report.good /\ UNCHANGED report
  BY DEF WriteFamilies, GoodAfterFailure, Inv, Phase
<1>1. Streams'
  <2>1. FamilyLines \subseteq Families \X Nat
    <3>1. \A f \in Families : unsupported_counts[f] \in Nat
      <4>1. count \in Nat /\ unsupported_counts \in [Families -> 0 .. count]
        BY <1>0, CountIsNumber DEF Inv, TypeOK
      <4>. QED BY <4>1
    <3>. QED BY <3>1 DEF FamilyLines
  <2>. QED BY <1>0, <2>1 DEF Inv, Streams
<1>2. TypeOK'
  <2>1. report'.good \in BOOLEAN
    BY <1>1 DEF Streams
  <2>. QED BY <1>0, <2>1 DEF Inv, TypeOK, arguments, tallies
<1>3. Phase'
  BY <1>0, SameRows DEF Inv, Phase, arguments
<1>4. Listed'
  BY <1>0, KeepsListed DEF Inv
<1>5. Tallied'
  BY <1>0, KeepsTallied DEF Inv
<1>6. Reported'
  <2>1. Summary' = Summary /\ FamilyLines' = FamilyLines
    BY <1>0 DEF Summary, FamilyLines, arguments, tallies
  <2>2. report.good => report.summary = Summary
    BY <1>0 DEF Inv, Reported
  <2>3. report'.good => report.good /\ report'.summary = report.summary /\ report'.families = FamilyLines
    BY <1>0 DEF Inv, Streams
  <2>. QED BY <1>0, <2>1, <2>2, <2>3 DEF Reported, arguments
<1>. QED BY <1>1, <1>2, <1>3, <1>4, <1>5, <1>6 DEF Inv

LEMMA CheckStreamsKeeps ==
  ASSUME Inv, CheckStreams
  PROVE  Inv'
<1>0. /\ pc = "check" /\ index = count /\ InRange /\ code = "none" /\ pc' = "exit"
      /\ code' = (IF listing.good /\ report.good THEN "0" ELSE "1")
      /\ UNCHANGED <<arguments, index, tallies, listing, report>>
  BY DEF CheckStreams, StreamsGood, Exit, Inv, Phase
<1>1. count \in Nat /\ BufferLines \in Nat
  BY CountIsNumber, DisasmAssumption DEF Inv, TypeOK
<1>2. index > 0
  BY <1>0, <1>1 DEF InRange
<1>3. TypeOK'
  BY <1>0 DEF Inv, TypeOK, arguments, tallies
<1>4. Streams'
  BY <1>0 DEF Inv, Streams
<1>5. Phase'
  BY <1>0, SameRows DEF Inv, Phase, arguments
<1>6. Listed'
  <2>1. /\ Len(listing.out) \in Nat /\ Len(listing.buffer) \in Nat
        /\ Len(listing.buffer) < BufferLines
        /\ listing.good => Len(listing.out) + Len(listing.buffer) = count
    BY <1>0, LenProperties DEF Inv, Streams, TypeOK, Listed
  <2>2. ASSUME listing.good PROVE Len(listing.out) > count - BufferLines
    <3>1. Len(listing.out) + Len(listing.buffer) = count
      BY <2>1, <2>2
    <3>. DEFINE o == Len(listing.out)
                b == Len(listing.buffer)
    <3>2. o \in Nat /\ b \in Nat /\ b < BufferLines /\ o + b = count
      BY <2>1, <3>1
    <3>. HIDE DEF o, b
    <3>3. o > count - BufferLines
      BY <1>1, <3>2
    <3>. QED BY <3>3 DEF o
  <2>3. Piece(listing.out, 0)' /\ (listing.good => Piece(listing.buffer, Len(listing.out)))'
    BY <1>0, SameRows DEF Inv, Listed, Piece
  <2>. QED BY <1>0, <2>2, <2>3 DEF Inv, Listed, arguments
<1>7. Tallied'
  BY <1>0, KeepsTallied DEF Inv
<1>8. Reported'
  <2>1. Summary' = Summary /\ FamilyLines' = FamilyLines
    BY <1>0 DEF Summary, FamilyLines, arguments, tallies
  <2>. QED BY <1>0, <1>2, <2>1 DEF Inv, Reported, arguments
<1>. QED BY <1>3, <1>4, <1>5, <1>6, <1>7, <1>8 DEF Inv

\* The two ways to the end: the last flush, and the loss of the buffer.
LEMMA FlushAtExitKeeps ==
  ASSUME Inv, FlushAtExit
  PROVE  Inv'
<1>0. /\ pc = "exit" /\ pc' = "ended"
      /\ UNCHANGED <<arguments, index, tallies, report, code>>
  BY DEF FlushAtExit
<1>1. PICK n \in 0 .. Len(listing.buffer) :
        listing' = [listing EXCEPT !.buffer = <<>>, !.out = @ \o SubSeq(listing.buffer, 1, n)]
  BY DEF FlushAtExit
<1>. DEFINE part == SubSeq(listing.buffer, 1, n)
<1>2. /\ index \in Nat /\ count \in Nat /\ BufferLines \in Nat \ {0}
      /\ listing \in [good : BOOLEAN, buffer : Seq(Lines), out : Seq(Lines)]
  <2>1. count \in Nat /\ index \in 0 .. count
    BY CountIsNumber DEF Inv, TypeOK
  <2>. QED BY <2>1, DisasmAssumption DEF Inv, Streams
<1>3. Len(listing.out) \in Nat /\ Len(listing.buffer) \in Nat /\ n \in Nat
  BY <1>2, LenProperties
<1>4. /\ Piece(listing.out, 0)
      /\ Piece(listing.buffer, Len(listing.out))
      /\ Len(listing.out) + Len(listing.buffer) <= index
  <2>1. CASE listing.good
    BY <1>0, <1>2, <1>3, <2>1 DEF Inv, Listed
  <2>2. CASE ~listing.good
    <3>1. listing.buffer = <<>> /\ Len(listing.out) <= index /\ Piece(listing.out, 0)
      BY <2>2 DEF Inv, Listed
    <3>. QED BY <1>2, <1>3, <3>1, EmptyPiece, EmptySeq
  <2>. QED BY <2>1, <2>2
<1>5. Piece(part, Len(listing.out)) /\ Len(part) = n
  BY <1>3, <1>4, PieceSub
<1>6. listing' = [listing EXCEPT !.buffer = <<>>, !.out = @ \o part]
  BY <1>1
<1>. HIDE DEF part
<1>7. Piece(listing.out \o part, 0) /\ Len(listing.out \o part) = Len(listing.out) + n
  BY <1>4, <1>5, PieceConcat
<1>8. /\ listing'.good = listing.good /\ listing'.buffer = <<>>
      /\ listing'.out = listing.out \o part
      /\ listing' \in [good : BOOLEAN, buffer : Seq(Lines), out : Seq(Lines)]
  <2>1. listing.out \o part \in Seq(Lines)
    BY <1>7 DEF Piece
  <2>. QED BY <1>2, <1>6, <2>1, EmptySeq
<1>9. TypeOK'
  <2>1. Len(<<>>) < BufferLines
    BY <1>2, EmptySeq
  <2>. QED BY <1>0, <1>2, <1>8, <2>1 DEF Inv, TypeOK, arguments, tallies
<1>10. Streams'
  BY <1>0, <1>8 DEF Inv, Streams
<1>11. Phase'
  BY <1>0, SameRows DEF Inv, Phase, arguments
<1>12. Listed'
  <2>1. Piece(listing.out, 0)'
    BY <1>0, <1>7, <1>8, SameRows DEF Piece
  <2>2. Piece(listing.buffer, Len(listing.out))'
    BY <1>8, EmptySeq DEF Piece
  <2>3. /\ Len(listing'.out) <= index
        /\ Len(listing'.out) >= Len(listing.out) /\ Len(listing'.out) \in Nat
    BY <1>2, <1>3, <1>4, <1>7, <1>8
  <2>4. code = "0" => Len(listing'.out) > count - BufferLines
    <3>1. code = "0" => Len(listing.out) > count - BufferLines
      BY DEF Inv, Listed
    <3>. QED BY <1>2, <1>3, <2>3, <3>1
  <2>. QED BY <1>0, <1>8, <2>1, <2>2, <2>3, <2>4 DEF Listed, arguments
<1>13. Tallied'
  BY <1>0, KeepsTallied DEF Inv
<1>14. Reported'
  BY <1>0 DEF Inv, Reported, Summary, arguments, tallies
<1>. QED BY <1>9, <1>10, <1>11, <1>12, <1>13, <1>14 DEF Inv

LEMMA KillKeeps ==
  ASSUME Inv, Kill
  PROVE  Inv'
<1>0. /\ pc' = "ended" /\ code' = "killed" /\ listing' = [listing EXCEPT !.buffer = <<>>]
      /\ UNCHANGED <<arguments, index, tallies, report>>
  BY DEF Kill
<1>1. /\ listing'.good = listing.good /\ listing'.buffer = <<>> /\ listing'.out = listing.out
      /\ listing' \in [good : BOOLEAN, buffer : Seq(Lines), out : Seq(Lines)]
  BY <1>0, EmptySeq DEF Inv, Streams
<1>2. TypeOK'
  <2>1. Len(<<>>) < BufferLines
    BY EmptySeq, DisasmAssumption
  <2>2. listing'.good \in BOOLEAN
    BY <1>1
  <2>. QED BY <1>0, <1>1, <2>1, <2>2 DEF Inv, TypeOK, arguments, tallies
<1>3. Streams'
  BY <1>0, <1>1 DEF Inv, Streams
<1>4. Phase'
  BY <1>0, SameRows DEF Inv, Phase, arguments
<1>5. Listed'
  <2>1. Piece(listing.out, 0)'
    BY <1>0, <1>1, SameRows DEF Inv, Listed, Piece
  <2>2. Piece(listing.buffer, Len(listing.out))'
    BY <1>1, EmptySeq DEF Piece
  <2>. QED BY <1>0, <1>1, <2>1, <2>2 DEF Inv, Listed, arguments
<1>6. Tallied'
  BY <1>0, KeepsTallied DEF Inv
<1>7. Reported'
  BY <1>0 DEF Inv, Reported
<1>. QED BY <1>2, <1>3, <1>4, <1>5, <1>6, <1>7 DEF Inv

LEMMA StepInv == Inv /\ [Next]_vars => Inv'
BY EarlyKeeps, ListWordKeeps, WriteSummaryKeeps, WriteFamiliesKeeps, CheckStreamsKeeps,
   FlushAtExitKeeps, KillKeeps DEF Next, Finished

\* The invariant holds in every behaviour, whichever flush fails and whenever
\* the process dies.
THEOREM InvariantHolds == Spec => []Inv
BY InitInv, StepInv, PTL DEF Spec

\* Every variable keeps its type and the counters do not run ahead of the loop.
THEOREM TypeCorrect == Spec => []TypeOK
<1>1. Inv => TypeOK
  BY DEF Inv
<1>. QED BY <1>1, InvariantHolds, PTL

-----------------------------------------------------------------------------
(***************************************************************************)
(* What the invariant says of the listing.                                 *)
(***************************************************************************)
LEMMA ListingRows ==
  ASSUME text \in Texts, start \in Starts, count \in Counts, InRange
  PROVE  /\ Listing \in Seq(Lines) /\ Len(Listing) = count
         /\ \A i \in 1 .. count : Listing[i] = Row(i)
<1>1. count \in Nat
  BY CountIsNumber
<1>2. \A i \in 1 .. count : Row(i) \in Lines
  BY RowType
<1>3. Listing = [i \in 1 .. count |-> Row(i)]
  BY DEF Listing, Row
<1>4. Listing \in [1 .. count -> Lines]
  BY <1>2, <1>3
<1>5. Listing \in Seq(Lines)
  BY <1>1, <1>4, SeqDef
<1>6. Len(Listing) = count
  BY <1>1, <1>4, <1>5, LenProperties
<1>. QED BY <1>3, <1>5, <1>6

\* Rows from the first on are a beginning of the listing.
LEMMA PieceIsPrefix ==
  ASSUME text \in Texts, start \in Starts, count \in Counts, InRange,
         NEW s, Piece(s, 0), Len(s) <= count
  PROVE  /\ s = SubSeq(Listing, 1, Len(s))
         /\ Len(s) = count => s = Listing
<1>1. s \in Seq(Lines) /\ Len(s) \in Nat /\ count \in Nat
      /\ \A i \in 1 .. Len(s) : s[i] = Row(0 + i)
  BY LenProperties, CountIsNumber DEF Piece
<1>2. /\ Listing \in Seq(Lines) /\ Len(Listing) = count
      /\ \A i \in 1 .. count : Listing[i] = Row(i)
  BY ListingRows
<1>3. \A i \in 1 .. Len(s) : i \in 1 .. count /\ 0 + i = i /\ s[i] = Listing[i]
  BY <1>1, <1>2
<1>4. /\ SubSeq(Listing, 1, Len(s)) \in Seq(Lines)
      /\ Len(SubSeq(Listing, 1, Len(s))) = Len(s)
      /\ \A i \in 1 .. Len(s) : SubSeq(Listing, 1, Len(s))[i] = Listing[i]
  <2>1. \A i \in 1 .. Len(s) : Listing[i] \in Lines
    BY <1>2, <1>3, ElementOfSeq
  <2>2. /\ SubSeq(Listing, 1, Len(s)) \in Seq(Lines)
        /\ Len(SubSeq(Listing, 1, Len(s))) = (IF 1 <= Len(s) THEN Len(s) - 1 + 1 ELSE 0)
        /\ \A i \in 1 .. Len(s) - 1 + 1 : SubSeq(Listing, 1, Len(s))[i] = Listing[1 + i - 1]
    BY <1>1, <2>1, SubSeqProperties
  <2>. QED BY <1>1, <2>2
<1>5. s = SubSeq(Listing, 1, Len(s))
  BY <1>1, <1>3, <1>4, SeqEqual
<1>6. ASSUME Len(s) = count PROVE s = Listing
  BY <1>1, <1>2, <1>3, <1>6, SeqEqual
<1>. QED BY <1>5, <1>6

\* Out and buffer together.
LEMMA OutAndBuffer ==
  ASSUME Inv, listing.good
  PROVE  /\ Piece(listing.out \o listing.buffer, 0)
         /\ Len(listing.out \o listing.buffer) = Len(listing.out) + Len(listing.buffer)
         /\ Len(listing.out \o listing.buffer) <= index
<1>1. Piece(listing.out, 0) /\ Piece(listing.buffer, Len(listing.out))
      /\ Len(listing.out) <= index
  BY DEF Inv, Listed
<1>2. /\ Piece(listing.out \o listing.buffer, 0)
      /\ Len(listing.out \o listing.buffer) = Len(listing.out) + Len(listing.buffer)
  BY <1>1, PieceConcat
<1>3. index \in Nat /\ Len(listing.out) \in Nat
  BY CountIsNumber, LenProperties DEF Inv, Streams, TypeOK
<1>4. CASE pc = "ended"
  <2>1. Len(listing.buffer) = 0
    BY <1>4, EmptySeq DEF Inv, Listed
  <2>. QED BY <1>1, <1>2, <1>3, <2>1
<1>5. CASE pc # "ended"
  <2>. DEFINE all == Len(listing.out \o listing.buffer)
  <2>1. all = index
    BY <1>2, <1>5 DEF Inv, Listed
  <2>. HIDE DEF all
  <2>2. all <= index
    BY <1>3, <2>1
  <2>. QED BY <1>2, <2>2 DEF all
<1>. QED BY <1>4, <1>5

\* Whatever fails and whenever the process dies, what has come out is the
\* beginning of the listing; for a range outside the text nothing comes out.
THEOREM OnlyAPrefix == Spec => []OutputIsPrefix
<1>1. Inv => OutputIsPrefix
  <2>. SUFFICES ASSUME Inv PROVE OutputIsPrefix
    OBVIOUS
  <2>0. /\ text \in Texts /\ start \in Starts /\ count \in Counts
        /\ index \in 0 .. count /\ count \in Nat
        /\ Len(listing.out) \in Nat /\ Len(listing.buffer) \in Nat
        /\ listing.out \in Seq(Lines) /\ listing.buffer \in Seq(Lines)
    BY CountIsNumber, LenProperties DEF Inv, TypeOK, Streams
  <2>1. Piece(listing.out, 0) /\ Len(listing.out) <= index
    BY DEF Inv, Listed
  <2>2. CASE InRange
    <3>1. Len(listing.out) <= count
      BY <2>0, <2>1
    <3>2. listing.out = SubSeq(Listing, 1, Len(listing.out))
      BY <2>0, <2>1, <2>2, <3>1, PieceIsPrefix
    <3>3. ASSUME listing.good
          PROVE  listing.out \o listing.buffer
                   = SubSeq(Listing, 1, Len(listing.out \o listing.buffer))
      <4>. DEFINE all == listing.out \o listing.buffer
      <4>1. Piece(all, 0) /\ Len(all) <= index
        BY <3>3, OutAndBuffer
      <4>. HIDE DEF all
      <4>2. Len(all) \in Nat
        BY <4>1, LenProperties DEF Piece
      <4>3. Len(all) <= count
        BY <2>0, <4>1, <4>2
      <4>4. all = SubSeq(Listing, 1, Len(all))
        BY <2>0, <2>2, <4>1, <4>3, PieceIsPrefix
      <4>. QED BY <4>4 DEF all
    <3>. QED BY <2>2, <3>1, <3>2, <3>3 DEF OutputIsPrefix
  <2>3. CASE ~InRange
    <3>1. index = 0
      BY <2>0, <2>3 DEF Inv, Phase
    <3>2. Len(listing.out) = 0
      BY <2>0, <2>1, <3>1
    <3>3. Len(listing.buffer) = 0
      <4>1. CASE ~listing.good \/ pc = "ended"
        BY <4>1, EmptySeq DEF Inv, Listed
      <4>2. CASE listing.good /\ pc # "ended"
        BY <2>0, <3>1, <3>2, <4>2 DEF Inv, Listed
      <4>. QED BY <4>1, <4>2
    <3>. QED BY <2>0, <2>3, <3>2, <3>3, EmptySeq DEF OutputIsPrefix
  <2>. QED BY <2>2, <2>3
<1>. QED BY <1>1, InvariantHolds, PTL

\* Status 0 loses at most the lines of the last flush, for a buffer of any size.
THEOREM ExitZeroAlmostListed == Spec => []ExitZeroLosesAtMostTheLastFlush
<1>1. Inv => ExitZeroLosesAtMostTheLastFlush
  <2>. SUFFICES ASSUME Inv, code = "0" PROVE ExitZeroLosesAtMostTheLastFlush
    BY DEF ExitZeroLosesAtMostTheLastFlush
  <2>1. report.good /\ report.summary.words = count
    BY DEF Inv, Reported, Summary
  <2>2. Len(listing.out) > count - BufferLines
    BY DEF Inv, Listed
  <2>3. ASSUME pc = "exit" PROVE listing.out \o listing.buffer = Listing
    <3>1. /\ InRange /\ index = count /\ listing.good
          /\ Len(listing.out) + Len(listing.buffer) = index
      BY <2>3 DEF Inv, Phase, Listed
    <3>. DEFINE all == listing.out \o listing.buffer
    <3>2. Piece(all, 0) /\ Len(all) = count
      BY <3>1, OutAndBuffer
    <3>. HIDE DEF all
    <3>3. text \in Texts /\ start \in Starts /\ count \in Counts /\ Len(all) <= count
      BY <3>2, CountIsNumber DEF Inv, TypeOK
    <3>. QED BY <3>1, <3>2, <3>3, PieceIsPrefix DEF all
  <2>. QED BY <2>1, <2>2, <2>3 DEF ExitZeroLosesAtMostTheLastFlush
<1>. QED BY <1>1, InvariantHolds, PTL

-----------------------------------------------------------------------------
(***************************************************************************)
(* The families of a complete report add up: a sum over a set of families  *)
(* is the number of rows counted under one of them.  MapThenSumSet is      *)
(* recursive over subsets; the induction is the search for a least         *)
(* counterexample.                                                         *)
(***************************************************************************)
Less == {ss \in Nat \X Nat : ss[1] < ss[2]}

LEMMA LeastNat ==
  ASSUME NEW T \in SUBSET Nat, T # {}
  PROVE  \E x \in T : \A y \in T : x <= y
<1>1. IsWellFoundedOn(Less, Nat)
  BY NatLessThanWellFounded DEF OpToRel, Less
<1>2. PICK x \in T : \A y \in T : ~(<<y, x>> \in Less)
  BY <1>1, WFMin
<1>3. \A y \in T : ~(y < x)
  BY <1>2 DEF Less
<1>. QED BY <1>3

Pick(s) == CHOOSE x \in s : TRUE

\* The recursion of the library's sum over the second components of pairs.
IsSum(g, S) ==
  g = [s \in SUBSET S |-> IF s = {} THEN 0 ELSE (Pick(s))[2] + g[s \ {Pick(s)}]]

LEMMA SumRecursion ==
  ASSUME NEW S, \E g : IsSum(g, S)
  PROVE  \E g : IsSum(g, S) /\ MapThenSumSet(LAMBDA line : line[2], S) = g[S]
BY DEF MapThenSumSet, MapThenFoldSet, IsSum, Pick

\* The rows counted under the family of a line, and under a family of T.
Own(rows, kind, line) == {i \in rows : kind[i] = line[1]}
Under(rows, kind, T) == {i \in rows : \E line \in T : kind[i] = line[1]}

\* One family more: its rows are none of the others'.
LEMMA UnderOneMore ==
  ASSUME NEW rows, IsFiniteSet(rows), NEW kind, NEW T, NEW x \in T,
         x[2] = Cardinality(Own(rows, kind, x)),
         \A line \in T : line[1] = x[1] => line = x
  PROVE  Cardinality(Under(rows, kind, T)) = x[2] + Cardinality(Under(rows, kind, T \ {x}))
<1>. DEFINE own == Own(rows, kind, x)
            others == Under(rows, kind, T \ {x})
<1>1. Under(rows, kind, T) = own \cup others /\ own \cap others = {}
  BY DEF Under, Own
<1>2. own \subseteq rows /\ others \subseteq rows
  BY DEF Under, Own
<1>. HIDE DEF own, others
<1>3. /\ IsFiniteSet(own) /\ IsFiniteSet(others)
      /\ Cardinality(own) \in Nat /\ Cardinality(others) \in Nat
  BY <1>2, FS_Subset, FS_CardinalityType
<1>4. Cardinality(own \cup others)
        = Cardinality(own) + Cardinality(others) - Cardinality(own \cap others)
  BY <1>3, FS_Union
<1>5. Cardinality(own \cap others) = 0
  BY <1>1, FS_EmptySet
<1>6. Cardinality(own \cup others) = Cardinality(own) + Cardinality(others)
  BY <1>3, <1>4, <1>5
<1>. QED BY <1>1, <1>6 DEF own, others

LEMMA SumIsCount ==
  ASSUME NEW S, IsFiniteSet(S), NEW rows, IsFiniteSet(rows), NEW kind,
         \A line \in S : line[2] = Cardinality(Own(rows, kind, line)),
         \A line, other \in S : line[1] = other[1] => line = other
  PROVE  MapThenSumSet(LAMBDA line : line[2], S) = Cardinality(Under(rows, kind, S))
<1>. DEFINE count_of(T) == Cardinality(Under(rows, kind, T))
<1>1. \A T \in SUBSET S :
        count_of(T) = IF T = {} THEN 0 ELSE (Pick(T))[2] + count_of(T \ {Pick(T)})
  <2>. SUFFICES ASSUME NEW T \in SUBSET S
                PROVE  count_of(T)
                         = IF T = {} THEN 0 ELSE (Pick(T))[2] + count_of(T \ {Pick(T)})
    OBVIOUS
  <2>1. CASE T = {}
    <3>1. Under(rows, kind, T) = {}
      BY <2>1 DEF Under
    <3>. QED BY <2>1, <3>1, FS_EmptySet
  <2>2. CASE T # {}
    <3>1. Pick(T) \in T
      BY <2>2 DEF Pick
    <3>a. PICK x \in T : x = Pick(T)
      BY <3>1
    <3>2. /\ x \in T /\ x[2] = Cardinality(Own(rows, kind, x))
          /\ \A line \in T : line[1] = x[1] => line = x
      OBVIOUS
    <3>3. Cardinality(Under(rows, kind, T)) = x[2] + Cardinality(Under(rows, kind, T \ {x}))
      BY <3>2, UnderOneMore
    <3>. QED BY <2>2, <3>a, <3>3
  <2>. QED BY <2>1, <2>2
<1>2. \A T : Under(rows, kind, T) \subseteq rows
  BY DEF Under
<1>. HIDE DEF count_of
<1>. DEFINE counts == [T \in SUBSET S |-> count_of(T)]
<1>3. IsSum(counts, S)
  BY <1>1 DEF IsSum
<1>. HIDE DEF counts
<1>4. PICK g : IsSum(g, S) /\ MapThenSumSet(LAMBDA line : line[2], S) = g[S]
  BY <1>3, SumRecursion
<1>5. \A T \in SUBSET S : g[T] = IF T = {} THEN 0 ELSE (Pick(T))[2] + g[T \ {Pick(T)}]
  BY <1>4 DEF IsSum
<1>6. \A T \in SUBSET S : g[T] = count_of(T)
  <2>. DEFINE Bad == {T \in SUBSET S : g[T] # count_of(T)}
              Sizes == {Cardinality(T) : T \in Bad}
  <2>. SUFFICES ASSUME Bad # {} PROVE FALSE
    OBVIOUS
  <2>1. \A T \in Bad : T \in SUBSET S /\ g[T] # count_of(T)
    OBVIOUS
  <2>2. \A T \in SUBSET S : T \notin Bad => g[T] = count_of(T)
    OBVIOUS
  <2>. HIDE DEF Bad
  <2>3. \A T \in Bad : IsFiniteSet(T) /\ Cardinality(T) \in Nat
    BY <2>1, FS_Subset, FS_CardinalityType
  <2>4. Sizes \in SUBSET Nat /\ Sizes # {}
    BY <2>3
  <2>5. PICK n \in Sizes : \A m \in Sizes : n <= m
    <3>. HIDE DEF Sizes
    <3>. QED BY <2>4, LeastNat
  <2>6. PICK T \in Bad : n = Cardinality(T)
    BY <2>5
  <2>7. T # {}
    BY <1>1, <1>5, <2>1, <2>6
  <2>8. Pick(T) \in T
    BY <2>7 DEF Pick
  <2>9. /\ T \ {Pick(T)} \in SUBSET S
        /\ IsFiniteSet(T) /\ Cardinality(T \ {Pick(T)}) = Cardinality(T) - 1
    BY <2>1, <2>3, <2>6, <2>8, FS_RemoveElement
  <2>10. T \ {Pick(T)} \notin Bad
    <3>1. ASSUME T \ {Pick(T)} \in Bad PROVE FALSE
      <4>1. Cardinality(T \ {Pick(T)}) \in Sizes
        BY <3>1
      <4>2. Cardinality(T) <= Cardinality(T) - 1
        BY <2>5, <2>6, <2>9, <4>1
      <4>. QED BY <2>3, <2>6, <4>2
    <3>. QED BY <3>1
  <2>11. g[T \ {Pick(T)}] = count_of(T \ {Pick(T)})
    BY <2>2, <2>9, <2>10
  <2>12. g[T] = count_of(T)
    BY <1>1, <1>5, <2>1, <2>6, <2>7, <2>11
  <2>. QED BY <2>1, <2>6, <2>12
<1>. QED BY <1>4, <1>6 DEF count_of

\* The families of the report sum to the rows done that are unsupported.
LEMMA FamiliesAddUp ==
  ASSUME Inv
  PROVE  MapThenSumSet(LAMBDA line : line[2], FamilyLines) = Cardinality(Done(Families))
<1>. DEFINE rows == 1 .. index
            kind == [i \in rows |-> Kind(i)]
<1>1. index \in Nat
  BY CountIsNumber DEF Inv, TypeOK
<1>2. IsFiniteSet(rows)
  BY <1>1, FS_Interval
<1>3. IsFiniteSet(FamilyLines)
  <2>. DEFINE counted == {f \in Families : unsupported_counts[f] > 0}
  <2>1. IsFiniteSet(counted)
    BY DisasmAssumption, FS_Subset
  <2>2. FamilyLines = {<<f, unsupported_counts[f]>> : f \in counted}
    BY DEF FamilyLines
  <2>. HIDE DEF counted
  <2>. DEFINE pair == [f \in counted |-> <<f, unsupported_counts[f]>>]
  <2>3. pair \in Surjection(counted, FamilyLines)
    BY <2>2 DEF Surjection
  <2>. HIDE DEF pair
  <2>. QED BY <2>1, <2>3, FS_Surjection
<1>4. \A line \in FamilyLines :
        line[1] \in Families /\ line[2] = unsupported_counts[line[1]]
        /\ line = <<line[1], line[2]>>
  BY DEF FamilyLines
<1>5. \A f \in Families : Own(rows, kind, <<f, unsupported_counts[f]>>) = Done({f})
  BY DEF Own, Done
<1>6. \A line \in FamilyLines : line[2] = Cardinality(Own(rows, kind, line))
  <2>. SUFFICES ASSUME NEW line \in FamilyLines
                PROVE  line[2] = Cardinality(Own(rows, kind, line))
    OBVIOUS
  <2>1. Own(rows, kind, line) = Done({line[1]})
    BY <1>4 DEF Own, Done
  <2>. QED BY <1>4, <2>1 DEF Inv, Tallied
<1>7. \A line, other \in FamilyLines : line[1] = other[1] => line = other
  BY <1>4
<1>8. Under(rows, kind, FamilyLines) = Done(Families)
  <2>1. ASSUME NEW i \in rows, Kind(i) \in Families
        PROVE  \E line \in FamilyLines : kind[i] = line[1]
    <3>. DEFINE f == Kind(i)
    <3>1. i \in Done({f})
      BY <2>1 DEF Done
    <3>2. Cardinality(Done({f})) # 0 /\ Cardinality(Done({f})) \in Nat
      BY <1>1, <3>1, DoneFinite, FS_EmptySet
    <3>3. f \in Families /\ unsupported_counts[f] = Cardinality(Done({f}))
      BY <2>1 DEF Inv, Tallied
    <3>4. unsupported_counts[f] > 0
      BY <3>2, <3>3
    <3>5. <<f, unsupported_counts[f]>> \in FamilyLines
      BY <3>3, <3>4 DEF FamilyLines
    <3>6. kind[i] = f
      BY <2>1
    <3>. HIDE DEF kind, f
    <3>. QED BY <3>5, <3>6
  <2>2. \A i \in rows : (\E line \in FamilyLines : kind[i] = line[1]) => Kind(i) \in Families
    BY <1>4
  <2>. QED BY <2>1, <2>2 DEF Under, Done
<1>. HIDE DEF rows, kind
<1>9. MapThenSumSet(LAMBDA line : line[2], FamilyLines)
        = Cardinality(Under(rows, kind, FamilyLines))
  BY <1>2, <1>3, <1>6, <1>7, SumIsCount
<1>. QED BY <1>8, <1>9

\* Supported or counted under a family: every row is one of the two.
LEMMA SupportedAndNot ==
  ASSUME Inv, InRange, index = count
  PROVE  /\ Cardinality({i \in 1 .. count : Listing[i].kind = "supported"})
              = count - unsupported_total
         /\ unsupported_total \in 0 .. count /\ count \in Nat
         /\ U32(count - unsupported_total) = count - unsupported_total
<1>1. /\ text \in Texts /\ start \in Starts /\ count \in Counts
      /\ count \in Nat /\ count < WordSize /\ unsupported_total \in 0 .. count
  BY CountIsNumber DEF Inv, TypeOK
<1>. DEFINE supported == {i \in 1 .. count : Listing[i].kind = "supported"}
<1>2. \A i \in 1 .. count : Kind(i) \in Kinds /\ Listing[i].kind = Kind(i)
  <2>1. \A i : Row(i).kind = Kind(i)
    BY DEF Row, Line, Kind
  <2>. QED BY <1>1, <2>1, RowType, ListingRows
<1>3. /\ supported \cup Done(Families) = 1 .. count
      /\ supported \cap Done(Families) = {}
  BY <1>2, DisasmAssumption DEF Done, Kinds
<1>4. supported \subseteq 1 .. count /\ Done(Families) \subseteq 1 .. count
  BY DEF Done
<1>. HIDE DEF supported
<1>5. /\ IsFiniteSet(1 .. count) /\ Cardinality(1 .. count) = count
  BY <1>1, FS_Interval
<1>6. /\ IsFiniteSet(supported) /\ IsFiniteSet(Done(Families))
      /\ Cardinality(supported) \in Nat /\ Cardinality(Done(Families)) \in Nat
  BY <1>4, <1>5, FS_Subset, FS_CardinalityType
<1>7. Cardinality(supported \cap Done(Families)) = 0
  BY <1>3, FS_EmptySet
<1>8. Cardinality(supported \cup Done(Families))
        = Cardinality(supported) + Cardinality(Done(Families))
            - Cardinality(supported \cap Done(Families))
  BY <1>6, FS_Union
<1>9. Cardinality(supported) = count - unsupported_total
  <2>. DEFINE c == Cardinality(supported)
  <2>1. unsupported_total = Cardinality(Done(Families))
    BY DEF Inv, Tallied
  <2>2. count = c + unsupported_total - 0
    BY <1>3, <1>5, <1>7, <1>8, <2>1
  <2>3. c \in Nat /\ unsupported_total \in Nat
    BY <1>6, <2>1
  <2>. HIDE DEF c
  <2>4. c = count - unsupported_total
    BY <2>2, <2>3
  <2>. QED BY <2>4 DEF c
<1>10. count - unsupported_total \in Nat /\ count - unsupported_total < WordSize
  BY <1>1, DisasmAssumption
<1>11. U32(count - unsupported_total) = count - unsupported_total
  BY <1>10, NumberFits
<1>. QED BY <1>1, <1>9, <1>11 DEF supported

\* A complete report counts every word once, and its families add up, for any
\* set of families.
THEOREM ReportIsSum == Spec => []ReportAddsUp
<1>1. Inv => ReportAddsUp
  <2>. SUFFICES ASSUME Inv, report.good, pc \in {"check", "exit"}, index > 0
                PROVE  /\ report.summary.words = count
                       /\ report.summary.supported
                            = Cardinality({i \in 1 .. count : Listing[i].kind = "supported"})
                       /\ report.summary.supported + report.summary.unsupported = count
                       /\ report.summary.unsupported
                            = MapThenSumSet(LAMBDA line : line[2], report.families)
    BY DEF ReportAddsUp
  <2>1. /\ index = count /\ InRange
        /\ report.summary = Summary /\ report.families = FamilyLines
    BY DEF Inv, Reported, Phase
  <2>2. /\ report.summary.words = count
        /\ report.summary.supported = U32(count - unsupported_total)
        /\ report.summary.unsupported = unsupported_total
    BY <2>1 DEF Summary
  <2>3. /\ Cardinality({i \in 1 .. count : Listing[i].kind = "supported"})
             = count - unsupported_total
        /\ U32(count - unsupported_total) = count - unsupported_total
        /\ unsupported_total \in Nat /\ count \in Nat
    BY <2>1, SupportedAndNot
  <2>4. (count - unsupported_total) + unsupported_total = count
    BY <2>3
  <2>5. MapThenSumSet(LAMBDA line : line[2], FamilyLines) = unsupported_total
    BY FamiliesAddUp DEF Inv, Tallied
  <2>. QED BY <2>1, <2>2, <2>3, <2>4, <2>5
<1>. QED BY <1>1, InvariantHolds, PTL
-----------------------------------------------------------------------------
(***************************************************************************)
(* The arguments: parse_number never wraps, and it is exact, for every     *)
(* maximum of at least 16, every text and both bases.                      *)
(*                                                                         *)
(* What a text stands for (Value) is a recursive function.  That it exists *)
(* and grows with every digit goes by induction on the digits read, as a   *)
(* search for a least counterexample too.                                  *)
(***************************************************************************)

\* What is left after the overflow guard fits: (max - digit) / base, rounded
\* down, leaves room for one more digit.
LEMMA RoomForDigit ==
  ASSUME base \in {10, 16}, NEW digit \in 0 .. base - 1, result \in Nat,
         ~Exceeds(digit)
  PROVE  result * base + digit <= MaxNumber
<1>1. MaxNumber \in Nat /\ MaxNumber >= 16
  BY NumberAssumption
<1>2. CASE base = 10
  BY <1>1, <1>2 DEF Exceeds
<1>3. CASE base = 16
  BY <1>1, <1>3 DEF Exceeds
<1>. QED BY <1>2, <1>3

\* So the 32-bit arithmetic of the step is exact.
LEMMA ExactStep ==
  ASSUME base \in {10, 16}, NEW digit \in 0 .. base - 1, result \in Nat,
         ~Exceeds(digit)
  PROVE  /\ U(result * base + digit) = result * base + digit
         /\ U(result * base + digit) \in 0 .. MaxNumber
<1>1. MaxNumber \in Nat
  BY NumberAssumption
<1>2. result * base + digit <= MaxNumber
  BY RoomForDigit
<1>3. result * base + digit \in Nat
  <2>1. CASE base = 10
    BY <2>1
  <2>2. CASE base = 16
    BY <2>2
  <2>. QED BY <2>1, <2>2
<1>. DEFINE sum == result * base + digit
<1>4. sum \in 0 .. MaxNumber
  BY <1>1, <1>2, <1>3
<1>. HIDE DEF sum
<1>5. sum % (MaxNumber + 1) = sum
  BY <1>1, <1>4
<1>. QED BY <1>4, <1>5 DEF U, sum

\* The digit ReadDigit takes.
LEMMA DigitRead ==
  ASSUME NumberTypeOK, ReadDigit, read' # read
  PROVE  /\ argument[read + 1] \in 0 .. base - 1
         /\ ~Exceeds(argument[read + 1])
         /\ result' = U(result * base + argument[read + 1])
         /\ read' = read + 1 /\ read < Len(argument) /\ UNCHANGED <<base, argument, outcome>>
<1>1. Len(argument) \in Nat /\ argument \in [1 .. Len(argument) -> Character]
  BY LenProperties DEF NumberTypeOK
<1>2. /\ read < Len(argument)
      /\ ~(argument[read + 1] = NotADigit \/ argument[read + 1] >= base \/ Exceeds(argument[read + 1]))
      /\ result' = U(result * base + argument[read + 1])
      /\ read' = read + 1 /\ UNCHANGED <<base, argument, outcome>>
  BY DEF ReadDigit, Throw
<1>3. read + 1 \in 1 .. Len(argument)
  BY <1>1, <1>2 DEF NumberTypeOK
<1>4. argument[read + 1] \in Character
  BY <1>1, <1>3
<1>5. argument[read + 1] \in 0 .. 15
  BY <1>2, <1>4 DEF Character
<1>6. base \in {10, 16}
  BY DEF NumberTypeOK
<1>7. argument[read + 1] \in 0 .. base - 1
  BY ONLY <1>2, <1>5, <1>6
<1>. QED BY <1>2, <1>7

-----------------------------------------------------------------------------
LEMMA InitType == ParseInit => NumberTypeOK
<1> SUFFICES ASSUME ParseInit PROVE NumberTypeOK
  OBVIOUS
<1>1. PICK n \in 0 .. MaxDigits : argument \in [1 .. n -> Character]
  BY DEF ParseInit
<1>2. n \in Nat
  BY NumberAssumption
<1>3. argument \in Seq(Character)
  BY <1>1, <1>2, SeqDef
<1>4. Len(argument) \in Nat
  BY <1>3, LenProperties
<1>. QED BY <1>3, <1>4, NumberAssumption DEF ParseInit, NumberTypeOK

LEMMA StepType == NumberTypeOK /\ [ParseNext]_parseVars => NumberTypeOK'
<1> SUFFICES ASSUME NumberTypeOK, [ParseNext]_parseVars PROVE NumberTypeOK'
  OBVIOUS
<1>1. CASE RefuseEmpty
  BY <1>1 DEF RefuseEmpty, Throw, NumberTypeOK
<1>2. CASE ReadDigit
  <2>1. CASE read' = read
    <3>1. UNCHANGED <<base, argument, read, result>> /\ outcome' = "threw"
      BY <1>2, <2>1 DEF ReadDigit, Throw, NumberTypeOK
    <3>. QED BY <3>1 DEF NumberTypeOK
  <2>2. CASE read' # read
    <3>1. /\ base \in {10, 16} /\ result \in Nat
          /\ argument[read + 1] \in 0 .. base - 1 /\ ~Exceeds(argument[read + 1])
      BY <1>2, <2>2, DigitRead DEF NumberTypeOK
    <3>2. result' \in 0 .. MaxNumber
      BY <1>2, <2>2, <3>1, DigitRead, ExactStep
    <3>3. read' \in 0 .. Len(argument)
      <4>1. Len(argument) \in Nat
        BY LenProperties DEF NumberTypeOK
      <4>2. read \in Nat /\ read' = read + 1 /\ read < Len(argument)
        BY <1>2, <2>2, DigitRead DEF NumberTypeOK
      <4>. QED BY <4>1, <4>2
    <3>4. UNCHANGED <<base, argument, outcome>>
      BY <1>2, <2>2, DigitRead
    <3>. QED BY <3>2, <3>3, <3>4 DEF NumberTypeOK
  <2>. QED BY <2>1, <2>2
<1>3. CASE Return
  BY <1>3 DEF Return, NumberTypeOK
<1>4. CASE UNCHANGED parseVars
  BY <1>4 DEF parseVars, NumberTypeOK
<1>. QED BY <1>1, <1>2, <1>3, <1>4 DEF ParseNext, Parsed

\* Every variable keeps its type; the result is a 32-bit number.
THEOREM NumberTypeCorrect == ParseSpec => []NumberTypeOK
BY InitType, StepType, PTL DEF ParseSpec

\* No step of the loop ever wraps around 32 bits.
THEOREM NoStepWraps == ParseSpec => NeverWraps
<1>1. NumberTypeOK /\ [ParseNext]_parseVars =>
        [read' # read =>
           result' = result * base + argument[read + 1] /\ result' <= MaxNumber]_parseVars
  <2> SUFFICES ASSUME NumberTypeOK, ParseNext, read' # read
               PROVE  result' = result * base + argument[read + 1] /\ result' <= MaxNumber
    BY DEF parseVars
  <2>1. ReadDigit
    BY DEF ParseNext, RefuseEmpty, Return, Parsed, Throw, parseVars
  <2>2. /\ base \in {10, 16} /\ result \in Nat
        /\ argument[read + 1] \in 0 .. base - 1 /\ ~Exceeds(argument[read + 1])
        /\ result' = U(result * base + argument[read + 1])
    BY <2>1, DigitRead DEF NumberTypeOK
  <2>3. U(result * base + argument[read + 1]) = result * base + argument[read + 1]
    BY <2>2, ExactStep
  <2>4. result' \in 0 .. MaxNumber
    BY <2>2, ExactStep
  <2>. QED BY <2>2, <2>3, <2>4, NumberAssumption
<1>. QED BY <1>1, NumberTypeCorrect, PTL DEF ParseSpec, NeverWraps
-----------------------------------------------------------------------------
\* The values of the first n digits.
PartialValue(g, n) ==
  g = [k \in 0 .. n |-> IF k = 0 THEN 0 ELSE g[k - 1] * base + argument[k]]

LEMMA PartialValues ==
  \A n \in 0 .. MaxDigits : \E g : PartialValue(g, n)
<1>. DEFINE Bad == {n \in 0 .. MaxDigits : ~ \E g : PartialValue(g, n)}
<1>. SUFFICES ASSUME Bad # {} PROVE FALSE
  OBVIOUS
<1>1. Bad \in SUBSET Nat /\ MaxDigits \in Nat
  BY NumberAssumption
<1>2. PICK m \in Bad : \A y \in Bad : m <= y
  <2>. HIDE DEF Bad
  <2>. QED BY <1>1, LeastNat
<1>3. m \in 0 .. MaxDigits /\ ~ \E g : PartialValue(g, m)
  BY <1>2
<1>4. CASE m = 0
  <2>1. PartialValue([k \in 0 .. 0 |-> 0], 0)
    BY DEF PartialValue
  <2>. QED BY <1>3, <1>4, <2>1
<1>5. CASE m # 0
  <2>1. m - 1 \in 0 .. MaxDigits /\ m - 1 \notin Bad
    BY <1>1, <1>2, <1>3, <1>5
  <2>2. PICK g : PartialValue(g, m - 1)
    BY <2>1
  <2>. DEFINE h == [k \in 0 .. m |-> IF k = m THEN g[m - 1] * base + argument[m] ELSE g[k]]
  <2>3. \A k \in 0 .. m :
          h[k] = IF k = 0 THEN 0 ELSE h[k - 1] * base + argument[k]
    <3>1. \A k \in 0 .. m - 1 :
            g[k] = IF k = 0 THEN 0 ELSE g[k - 1] * base + argument[k]
      BY <2>2 DEF PartialValue
    <3>. QED BY <1>3, <1>5, <3>1
  <2>4. PartialValue(h, m)
    BY <2>3 DEF PartialValue
  <2>. QED BY <1>3, <2>4
<1>. QED BY <1>4, <1>5

\* The recursion of Value.
LEMMA ValueSteps ==
  \A n \in 0 .. MaxDigits :
    Value[n] = IF n = 0 THEN 0 ELSE Value[n - 1] * base + argument[n]
<1>1. \E g : PartialValue(g, MaxDigits)
  BY PartialValues, NumberAssumption
<1>2. Value = [n \in 0 .. MaxDigits |->
                 IF n = 0 THEN 0 ELSE Value[n - 1] * base + argument[n]]
  BY <1>1 DEF PartialValue, Value
<1>. QED BY <1>2

\* With digits alone, the values are numbers.
LEMMA ValueIsNumber ==
  ASSUME base \in {10, 16}, NEW n \in 0 .. MaxDigits,
         \A i \in 1 .. n : argument[i] \in 0 .. base - 1
  PROVE  \A j \in 0 .. n : Value[j] \in Nat
<1>. DEFINE Bad == {j \in 0 .. n : Value[j] \notin Nat}
<1>. SUFFICES ASSUME Bad # {} PROVE FALSE
  OBVIOUS
<1>1. Bad \in SUBSET Nat /\ MaxDigits \in Nat
  BY NumberAssumption
<1>2. PICK m \in Bad : \A y \in Bad : m <= y
  <2>. HIDE DEF Bad
  <2>. QED BY <1>1, LeastNat
<1>3. m \in 0 .. n /\ Value[m] \notin Nat
  BY <1>2
<1>4. m # 0
  BY <1>1, <1>3, ValueSteps
<1>5. m - 1 \in 0 .. n /\ Value[m - 1] \in Nat
  BY <1>1, <1>2, <1>3, <1>4
<1>6. Value[m] = Value[m - 1] * base + argument[m]
  BY <1>1, <1>3, <1>4, ValueSteps
<1>7. argument[m] \in Nat
  BY <1>1, <1>3, <1>4
<1>8. Value[m - 1] * base + argument[m] \in Nat
  BY <1>5, <1>7
<1>. QED BY <1>3, <1>6, <1>8

\* And no digit makes them smaller.
LEMMA ValueGrows ==
  ASSUME base \in {10, 16}, NEW n \in 0 .. MaxDigits, NEW j \in 0 .. n,
         \A i \in 1 .. n : argument[i] \in 0 .. base - 1
  PROVE  Value[j] <= Value[n]
<1>. DEFINE Bad == {k \in j .. n : ~(Value[j] <= Value[k])}
<1>. SUFFICES ASSUME Bad # {} PROVE FALSE
  BY NumberAssumption
<1>1. Bad \in SUBSET Nat /\ MaxDigits \in Nat /\ j \in Nat /\ n \in Nat
  BY NumberAssumption
<1>2. PICK m \in Bad : \A y \in Bad : m <= y
  <2>. HIDE DEF Bad
  <2>. QED BY <1>1, LeastNat
<1>3. m \in j .. n /\ ~(Value[j] <= Value[m])
  BY <1>2
<1>4. Value[j] \in Nat
  BY <1>1, ValueIsNumber
<1>5. m # j
  BY <1>3, <1>4
<1>6. m - 1 \in j .. n /\ Value[j] <= Value[m - 1]
  BY <1>1, <1>2, <1>3, <1>5
<1>7. Value[m] = Value[m - 1] * base + argument[m]
  BY <1>1, <1>3, <1>5, ValueSteps
<1>8. argument[m] \in Nat /\ Value[m - 1] \in Nat
  BY <1>1, <1>3, <1>5, <1>6, ValueIsNumber
<1>9. Value[m - 1] <= Value[m - 1] * base + argument[m]
  BY <1>8
<1>. QED BY <1>3, <1>4, <1>6, <1>7, <1>8, <1>9
-----------------------------------------------------------------------------
Digits(n) == \A i \in 1 .. n : argument[i] \in 0 .. base - 1

\* The inductive invariant: the characters read are digits, the result is the
\* number they stand for, and a text is refused at a character that is no digit
\* or one that leaves no room.
Exactness ==
  /\ Len(argument) <= MaxDigits
  /\ Digits(read)
  /\ Value[read] = result
  /\ outcome = "returned" => argument # <<>> /\ read = Len(argument)
  /\ outcome = "threw" =>
       \/ argument = <<>>
       \/ /\ read < Len(argument)
          /\ \/ argument[read + 1] \notin 0 .. base - 1
             \/ result * base + argument[read + 1] > MaxNumber

\* A digit the guard refuses does not fit.
LEMMA NoRoomForDigit ==
  ASSUME base \in {10, 16}, NEW digit \in 0 .. base - 1, result \in Nat,
         Exceeds(digit)
  PROVE  result * base + digit > MaxNumber
<1>1. MaxNumber \in Nat /\ MaxNumber >= 16
  BY NumberAssumption
<1>2. CASE base = 10
  BY <1>1, <1>2 DEF Exceeds
<1>3. CASE base = 16
  BY <1>1, <1>3 DEF Exceeds
<1>. QED BY <1>2, <1>3

LEMMA InitExact == ParseInit => Exactness
<1> SUFFICES ASSUME ParseInit PROVE Exactness
  OBVIOUS
<1>1. PICK n \in 0 .. MaxDigits : argument \in [1 .. n -> Character]
  BY DEF ParseInit
<1>2. n \in Nat /\ MaxDigits \in Nat
  BY NumberAssumption
<1>3. argument \in Seq(Character)
  BY <1>1, <1>2, SeqDef
<1>4. Len(argument) = n
  BY <1>1, <1>2, <1>3, LenProperties
<1>5. Value[0] = 0
  BY <1>2, ValueSteps
<1>. QED BY <1>2, <1>4, <1>5 DEF ParseInit, Exactness, Digits

LEMMA StepExact == NumberTypeOK /\ Exactness /\ [ParseNext]_parseVars => Exactness'
<1> SUFFICES ASSUME NumberTypeOK, Exactness, [ParseNext]_parseVars PROVE Exactness'
  OBVIOUS
<1>0. base' = base /\ argument' = argument
  BY DEF ParseNext, RefuseEmpty, ReadDigit, Return, Parsed, Throw, parseVars
<1>a. Value' = Value
  BY <1>0 DEF Value
<1>b. Len(argument) \in Nat /\ MaxDigits \in Nat
  BY LenProperties, NumberAssumption DEF NumberTypeOK
<1>1. CASE RefuseEmpty
  BY <1>0, <1>a, <1>1 DEF RefuseEmpty, Throw, Exactness, Digits
<1>2. CASE ReadDigit /\ read' = read
  <2>1. /\ outcome' = "threw" /\ result' = result /\ read < Len(argument)
        /\ \/ argument[read + 1] = NotADigit \/ argument[read + 1] >= base
           \/ Exceeds(argument[read + 1])
    BY <1>2 DEF ReadDigit, Throw, NumberTypeOK
  <2>2. CASE argument[read + 1] \in 0 .. base - 1
    <3>1. argument[read + 1] # NotADigit /\ ~(argument[read + 1] >= base)
      <4>1. base \in {10, 16}
        BY DEF NumberTypeOK
      <4>2. argument[read + 1] \in 0 .. 15 /\ ~(argument[read + 1] >= base)
        BY ONLY <2>2, <4>1
      <4>. QED BY <4>2, NumberAssumption
    <3>2. result * base + argument[read + 1] > MaxNumber
      BY <2>1, <2>2, <3>1, NoRoomForDigit DEF NumberTypeOK
    <3>. QED BY <1>0, <1>a, <1>2, <2>1, <3>2 DEF Exactness, Digits
  <2>3. CASE argument[read + 1] \notin 0 .. base - 1
    BY <1>0, <1>a, <1>2, <2>1, <2>3 DEF Exactness, Digits
  <2>. QED BY <2>2, <2>3
<1>3. CASE ReadDigit /\ read' # read
  <2>1. /\ argument[read + 1] \in 0 .. base - 1 /\ ~Exceeds(argument[read + 1])
        /\ result' = U(result * base + argument[read + 1])
        /\ read' = read + 1 /\ read < Len(argument) /\ outcome' = outcome
    BY <1>3, DigitRead
  <2>2. result' = result * base + argument[read + 1]
    BY <2>1, ExactStep DEF NumberTypeOK
  <2>3. read + 1 \in 0 .. MaxDigits /\ read + 1 # 0 /\ (read + 1) - 1 = read
    BY <1>b, <2>1 DEF NumberTypeOK, Exactness
  <2>4. Value[read + 1] = Value[read] * base + argument[read + 1]
    BY <2>3, ValueSteps
  <2>5. Value'[read'] = result'
    BY <1>a, <2>1, <2>2, <2>4 DEF Exactness
  <2>6. Digits(read)'
    BY <1>0, <2>1 DEF Exactness, Digits, NumberTypeOK
  <2>7. outcome = "running"
    BY <1>3 DEF ReadDigit
  <2>. QED BY <1>0, <2>1, <2>5, <2>6, <2>7 DEF Exactness
<1>4. CASE Return
  BY <1>0, <1>a, <1>4 DEF Return, Exactness, Digits
<1>5. CASE UNCHANGED parseVars
  BY <1>0, <1>a, <1>5 DEF parseVars, Exactness, Digits
<1>. QED BY <1>1, <1>2, <1>3, <1>4, <1>5 DEF ParseNext, Parsed

LEMMA ExactnessIsEnough == NumberTypeOK /\ Exactness => ExactOrRefused
<1> SUFFICES ASSUME NumberTypeOK, Exactness PROVE ExactOrRefused
  OBVIOUS
<1>a. /\ Len(argument) \in Nat /\ DOMAIN argument = 1 .. Len(argument) /\ MaxDigits \in Nat
      /\ base \in {10, 16} /\ read \in 0 .. Len(argument) /\ Len(argument) <= MaxDigits
  BY LenProperties, NumberAssumption DEF NumberTypeOK, Exactness
<1>1. ASSUME outcome = "returned" PROVE Meaningful /\ Value[Len(argument)] = result
  BY <1>1, <1>a DEF Exactness, Meaningful, Digits
<1>2. ASSUME outcome = "threw", Meaningful PROVE Value[Len(argument)] > MaxNumber
  <2>1. /\ argument # <<>> /\ Digits(Len(argument))
    BY <1>2, <1>a DEF Meaningful, Digits
  <2>2. read + 1 \in 1 .. Len(argument) /\ argument[read + 1] \in 0 .. base - 1
    BY <1>2, <1>a, <2>1 DEF Exactness, Digits
  <2>3. result * base + argument[read + 1] > MaxNumber
    BY <1>2, <2>1, <2>2 DEF Exactness
  <2>4. Value[read + 1] = Value[read] * base + argument[read + 1]
    <3>1. read + 1 \in 0 .. MaxDigits /\ read + 1 # 0 /\ (read + 1) - 1 = read
      BY <1>a, <2>2
    <3>. QED BY <3>1, ValueSteps
  <2>5. Value[read + 1] > MaxNumber
    BY <2>3, <2>4 DEF Exactness
  <2>6. /\ Len(argument) \in 0 .. MaxDigits /\ read + 1 \in 0 .. Len(argument)
        /\ \A i \in 1 .. Len(argument) : argument[i] \in 0 .. base - 1
    BY <1>a, <2>1, <2>2 DEF Digits
  <2>7. Value[read + 1] <= Value[Len(argument)]
    BY <1>a, <2>6, ValueGrows
  <2>8. Value[read + 1] \in Nat /\ Value[Len(argument)] \in Nat
    <3>1. \A j \in 0 .. Len(argument) : Value[j] \in Nat
      BY <1>a, <2>6, ValueIsNumber
    <3>. QED BY <1>a, <2>6, <3>1
  <2>. QED BY <2>5, <2>7, <2>8, NumberAssumption
<1>. QED BY <1>1, <1>2 DEF ExactOrRefused

\* A text is refused exactly when it stands for no number of 32 bits, and the
\* number returned is the one it stands for: for texts of any length.
THEOREM ArgumentIsExact == ParseSpec => []ExactOrRefused
<1>1. ParseInit => NumberTypeOK /\ Exactness
  BY InitType, InitExact
<1>2. NumberTypeOK /\ Exactness /\ [ParseNext]_parseVars => (NumberTypeOK /\ Exactness)'
  BY StepType, StepExact
<1>3. NumberTypeOK /\ Exactness => ExactOrRefused
  BY ExactnessIsEnough
<1>. QED BY <1>1, <1>2, <1>3, PTL DEF ParseSpec
=============================================================================
