--------------------------- MODULE Gt4CoreProofs ---------------------------
(***************************************************************************)
(* Any number of runs, paths, blocks and edits: only the pinned CORE is    *)
(* exported, no run ever changes a file that was there before it, no two   *)
(* runs succeed on one path without a removal in between, and what others  *)
(* see of the output is what OutputOnce says.                              *)
(***************************************************************************)
EXTENDS Gt4Core, SequenceTheorems, FiniteSetTheorems, TLAPS

Reading == {"size", "read", "verify"}
Holding == {"write", "close"}
Exporting == {"parse", "create", "write", "close", "report", "exit 0", "killed reporting"}
Working == {"open", "size", "read", "verify", "parse", "create", "write", "close", "report"}

\* A run that works has its arguments; the files it has open are there; no two
\* runs have the same file open for writing.
PathsGiven == \A r \in Runs : pc[r] \in Working => input[r] \in Paths /\ output[r] \in Paths
InputsThere == \A r \in Runs : pc[r] \in Reading => disk[input[r]] # Absent
OutputsThere == \A r \in Runs : pc[r] \in Holding => disk[output[r]] # Absent
OneWriter ==
  \A r, s \in Runs : r # s /\ pc[r] \in Holding /\ pc[s] \in Holding => output[r] # output[s]
PinnedInMemory == \A r \in Runs : pc[r] \in Exporting => core[r] = Pinned

Safe == PathsGiven /\ InputsThere /\ OutputsThere /\ OneWriter /\ PinnedInMemory
IInv == TypeOK /\ Safe

LEMMA SequencesOfBlocks ==
  /\ Pinned \in Seq(Block) /\ Elf \in Seq(Block) /\ Foreign \in Seq(Block)
  /\ Len(Pinned) \in Nat /\ Len(Elf) \in Nat /\ Len(Foreign) \in Nat
  /\ Absent \notin Seq(Block) /\ Nowhere \notin Paths
  /\ UserFiles \subseteq Seq(Block) /\ UserBlocks \subseteq Block
BY Gt4CoreAssumption, LenProperties

\* Labels of the sets, for steps that only look at pc.
LEMMA LabelSets ==
  /\ Working \subseteq Labels /\ Exporting \subseteq Labels
  /\ Reading \subseteq Working /\ Holding \subseteq Working /\ Holding \subseteq Exporting
BY DEF Working, Exporting, Reading, Holding, Labels, Ended

LEMMA InitInv == Init => IInv
<1> SUFFICES ASSUME Init PROVE IInv
  OBVIOUS
<1>1. \A r \in Runs : pc[r] = "start"
  BY DEF Init
<1>2. Safe
  BY <1>1 DEF Safe, PathsGiven, InputsThere, OutputsThere, OneWriter, PinnedInMemory,
              Working, Reading, Holding, Exporting
<1>3. disk \in [Paths -> {Absent} \cup Seq(Block)]
  BY SequencesOfBlocks DEF Init
<1>4. core \in [Runs -> Seq(Block)] /\ \A r \in Runs : Len(core[r]) <= Len(Pinned)
  <2>1. <<>> \in Seq(Block) /\ Len(<<>>) = 0
    BY EmptySeq
  <2>2. 0 <= Len(Pinned)
    BY SequencesOfBlocks
  <2>. QED BY <2>1, <2>2 DEF Init
<1>5. pc \in [Runs -> Labels] /\ input \in [Runs -> Paths \cup {Nowhere}]
      /\ output \in [Runs -> Paths \cup {Nowhere}]
  BY DEF Init, Labels, Ended
<1>6. edits \in 0 .. MaxEdits /\ removed \in [Paths -> Nat]
  BY Gt4CoreAssumption DEF Init
<1>. QED BY <1>2, <1>3, <1>4, <1>5, <1>6 DEF IInv, TypeOK

-----------------------------------------------------------------------------
\* A step of one run that changes nothing but its place in the program.
LEMMA Advance ==
  ASSUME IInv, NEW r \in Runs, NEW label \in Labels, GoTo(r, label),
         UNCHANGED <<disk, input, output, core, edits, removed>>,
         label \in Working => pc[r] \in Working,
         label \in Reading => disk[input[r]] # Absent,
         label \in Holding => pc[r] \in Holding,
         label \in Exporting => core[r] = Pinned
  PROVE  IInv'
<1>1. pc \in [Runs -> Labels] /\ pc' = [pc EXCEPT ![r] = label]
  BY DEF IInv, TypeOK, GoTo
<1>2. pc'[r] = label /\ \A s \in Runs \ {r} : pc'[s] = pc[s]
  BY <1>1
<1>3. TypeOK'
  BY <1>1 DEF IInv, TypeOK
<1>4. PathsGiven'
  BY <1>2 DEF IInv, Safe, PathsGiven
<1>5. InputsThere'
  BY <1>2 DEF IInv, Safe, InputsThere
<1>6. OutputsThere'
  BY <1>2 DEF IInv, Safe, OutputsThere
<1>7. OneWriter'
  BY <1>2 DEF IInv, Safe, OneWriter
<1>8. PinnedInMemory'
  BY <1>2 DEF IInv, Safe, PinnedInMemory
<1>. QED BY <1>3, <1>4, <1>5, <1>6, <1>7, <1>8 DEF IInv, Safe

\* A step that only changes the disk: the files that are open stay there.
LEMMA DiskStep ==
  ASSUME IInv, UNCHANGED <<pc, input, output, core>>,
         disk' \in [Paths -> {Absent} \cup Seq(Block)],
         edits' \in 0 .. MaxEdits, removed' \in [Paths -> Nat],
         \A p \in Paths : (HeldForReading(p) \/ HeldForWriting(p)) /\ disk[p] # Absent
                             => disk'[p] # Absent
  PROVE  IInv'
<1>1. TypeOK'
  BY DEF IInv, TypeOK
<1>2. PathsGiven' /\ OneWriter' /\ PinnedInMemory'
  BY DEF IInv, Safe, PathsGiven, OneWriter, PinnedInMemory
<1>3. InputsThere'
  <2> SUFFICES ASSUME NEW r \in Runs, pc[r] \in Reading PROVE disk'[input[r]] # Absent
    BY DEF InputsThere
  <2>1. input[r] \in Paths /\ disk[input[r]] # Absent
    BY LabelSets DEF IInv, Safe, PathsGiven, InputsThere
  <2>2. HeldForReading(input[r])
    BY DEF HeldForReading, Reading
  <2>. QED BY <2>1, <2>2
<1>4. OutputsThere'
  <2> SUFFICES ASSUME NEW r \in Runs, pc[r] \in Holding PROVE disk'[output[r]] # Absent
    BY DEF OutputsThere
  <2>1. output[r] \in Paths /\ disk[output[r]] # Absent
    BY LabelSets DEF IInv, Safe, PathsGiven, OutputsThere
  <2>2. HeldForWriting(output[r])
    BY DEF HeldForWriting, Holding
  <2>. QED BY <2>1, <2>2
<1>. QED BY <1>1, <1>2, <1>3, <1>4 DEF IInv, Safe

LEMMA ExportedBlocks ==
  ASSUME NEW bytes
  PROVE  Exported(bytes) \in Seq(Block)
BY SequencesOfBlocks DEF Exported

\* However the user edits a file, it stays a sequence of blocks.
LEMMA EditedFile ==
  ASSUME IInv, NEW p \in Paths, UserEdits(p)
  PROVE  \E file \in Seq(Block) : disk' = [disk EXCEPT ![p] = file]
<1>1. disk[p] # Absent /\ disk[p] \in {Absent} \cup Seq(Block)
  BY DEF UserEdits, Openable, IInv, TypeOK
<1>2. disk[p] \in Seq(Block) /\ Len(disk[p]) \in Nat /\ DOMAIN disk[p] = 1 .. Len(disk[p])
  BY <1>1, LenProperties
<1>3. ASSUME NEW i \in DOMAIN disk[p], NEW b \in UserBlocks,
             disk' = [disk EXCEPT ![p][i] = b]
      PROVE  \E file \in Seq(Block) : disk' = [disk EXCEPT ![p] = file]
  <2>1. [disk[p] EXCEPT ![i] = b] \in Seq(Block)
    BY <1>2, SequencesOfBlocks, ExceptSeq
  <2>. QED BY <1>3, <2>1
<1>4. ASSUME disk[p] # <<>>, disk' = [disk EXCEPT ![p] = Front(disk[p])]
      PROVE  \E file \in Seq(Block) : disk' = [disk EXCEPT ![p] = file]
  <2>1. \A i \in 1 .. Len(disk[p]) - 1 : disk[p][i] \in Block
    BY <1>2, ElementOfSeq
  <2>2. SubSeq(disk[p], 1, Len(disk[p]) - 1) \in Seq(Block)
    BY <1>2, <2>1, SubSeqProperties
  <2>. QED BY <1>4, <2>2 DEF Front
<1>5. ASSUME NEW b \in UserBlocks, disk' = [disk EXCEPT ![p] = Append(disk[p], b)]
      PROVE  \E file \in Seq(Block) : disk' = [disk EXCEPT ![p] = file]
  <2>1. Append(disk[p], b) \in Seq(Block)
    BY <1>2, SequencesOfBlocks, AppendProperties
  <2>. QED BY <1>5, <2>1
<1>. QED BY <1>3, <1>4, <1>5 DEF UserEdits

-----------------------------------------------------------------------------
LEMMA StepInv == IInv /\ [Next]_vars => IInv'
<1> SUFFICES ASSUME IInv, [Next]_vars PROVE IInv'
  OBVIOUS
<1>t. /\ disk \in [Paths -> {Absent} \cup Seq(Block)] /\ pc \in [Runs -> Labels]
      /\ input \in [Runs -> Paths \cup {Nowhere}] /\ output \in [Runs -> Paths \cup {Nowhere}]
      /\ core \in [Runs -> Seq(Block)] /\ \A r \in Runs : Len(core[r]) <= Len(Pinned)
      /\ edits \in 0 .. MaxEdits /\ removed \in [Paths -> Nat]
  BY DEF IInv, TypeOK
<1>s. PathsGiven /\ InputsThere /\ OutputsThere /\ OneWriter /\ PinnedInMemory
  BY DEF IInv, Safe
<1>1. ASSUME NEW r \in Runs, ParseArguments(r) PROVE IInv'
  <2>1. CASE GoTo(r, "exit 2") /\ UNCHANGED <<input, output>>
    <3>1. UNCHANGED <<disk, input, output, core, edits, removed>>
      BY <1>1, <2>1 DEF ParseArguments
    <3>. QED BY <2>1, <3>1, Advance
             DEF Labels, Ended, Working, Reading, Holding, Exporting
  <2>2. CASE ~(GoTo(r, "exit 2") /\ UNCHANGED <<input, output>>)
    <3>1. PICK i \in Paths, o \in Paths :
            /\ pc[r] = "start" /\ pc' = [pc EXCEPT ![r] = "open"]
            /\ input' = [input EXCEPT ![r] = i] /\ output' = [output EXCEPT ![r] = o]
            /\ UNCHANGED <<disk, core, edits, removed>>
      BY <1>1, <2>2 DEF ParseArguments, GoTo
    <3>2. /\ pc'[r] = "open" /\ input'[r] = i /\ output'[r] = o
          /\ \A s \in Runs \ {r} : pc'[s] = pc[s] /\ input'[s] = input[s] /\ output'[s] = output[s]
      BY <3>1, <1>t
    <3>3. TypeOK'
      BY <3>1, <1>t DEF TypeOK, Labels
    <3>4. "open" \notin Reading /\ "open" \notin Holding /\ "open" \notin Exporting
      BY DEF Reading, Holding, Exporting
    <3>5. PathsGiven'
      BY <3>1, <3>2, <1>s DEF PathsGiven
    <3>6. InputsThere' /\ OutputsThere' /\ PinnedInMemory'
      BY <3>1, <3>2, <3>4, <1>s DEF InputsThere, OutputsThere, PinnedInMemory
    <3>7. OneWriter'
      BY <3>1, <3>2, <3>4, <1>s DEF OneWriter
    <3>. QED BY <3>3, <3>5, <3>6, <3>7 DEF IInv, Safe
  <2>. QED BY <2>1, <2>2
<1>2. ASSUME NEW r \in Runs, OpenCore(r) PROVE IInv'
  <2>1. UNCHANGED <<disk, input, output, core, edits, removed>> /\ pc[r] = "open"
    BY <1>2 DEF OpenCore
  <2>2. CASE GoTo(r, "size") /\ Openable(input[r])
    BY <2>1, <2>2, Advance
       DEF Openable, Labels, Ended, Working, Reading, Holding, Exporting
  <2>3. CASE GoTo(r, "exit 1")
    BY <2>1, <2>3, Advance DEF Labels, Ended, Working, Reading, Holding, Exporting
  <2>. QED BY <1>2, <2>2, <2>3 DEF OpenCore
<1>3. ASSUME NEW r \in Runs, CheckSize(r) PROVE IInv'
  <2>1. UNCHANGED <<disk, input, output, core, edits, removed>> /\ pc[r] = "size"
    BY <1>3 DEF CheckSize
  <2>2. disk[input[r]] # Absent
    BY <2>1, <1>s DEF InputsThere, Reading
  <2>3. CASE GoTo(r, "read")
    BY <2>1, <2>2, <2>3, Advance DEF Labels, Ended, Working, Reading, Holding, Exporting
  <2>4. CASE GoTo(r, "exit 1")
    BY <2>1, <2>4, Advance DEF Labels, Ended, Working, Reading, Holding, Exporting
  <2>. QED BY <1>3, <2>3, <2>4 DEF CheckSize
<1>4. ASSUME NEW r \in Runs, ReadBlock(r) PROVE IInv'
  <2>1. UNCHANGED <<disk, input, output, edits, removed>> /\ pc[r] = "read"
    BY <1>4 DEF ReadBlock, Wants
  <2>2. input[r] \in Paths /\ disk[input[r]] # Absent
    BY <2>1, <1>s DEF PathsGiven, InputsThere, Reading, Working
  <2>3. disk[input[r]] \in Seq(Block)
    BY <2>2, <1>t
  <2>4. CASE GoTo(r, "verify") /\ UNCHANGED core
    BY <2>1, <2>2, <2>4, Advance DEF Labels, Ended, Working, Reading, Holding, Exporting
  <2>5. CASE GoTo(r, "exit 1") /\ UNCHANGED core
    BY <2>1, <2>5, Advance DEF Labels, Ended, Working, Reading, Holding, Exporting
  <2>6. CASE /\ Len(core[r]) < Len(Pinned) /\ Len(core[r]) + 1 <= Len(disk[input[r]])
             /\ core' = [core EXCEPT ![r] = Append(core[r], disk[input[r]][Len(core[r]) + 1])]
             /\ UNCHANGED pc
    <3>1. core[r] \in Seq(Block) /\ Len(core[r]) \in Nat
      BY <1>t, LenProperties
    <3>2. Len(disk[input[r]]) \in Nat
      BY <2>3, LenProperties
    <3>3. Len(core[r]) + 1 \in 1 .. Len(disk[input[r]])
      BY <2>6, <3>1, <3>2
    <3>. DEFINE block == disk[input[r]][Len(core[r]) + 1]
    <3>4. block \in Block
      BY <2>3, <3>3, ElementOfSeq
    <3>5. Append(core[r], block) \in Seq(Block) /\ Len(Append(core[r], block)) = Len(core[r]) + 1
      BY <3>1, <3>4, AppendProperties
    <3>. HIDE DEF block
    <3>6. core' = [core EXCEPT ![r] = Append(core[r], block)]
      BY <2>6 DEF block
    <3>7. core' \in [Runs -> Seq(Block)] /\ core'[r] = Append(core[r], block)
          /\ \A s \in Runs \ {r} : core'[s] = core[s]
      BY <3>5, <3>6, <1>t
    <3>8. \A s \in Runs : Len(core'[s]) <= Len(Pinned)
      BY <3>1, <3>5, <3>7, <2>6, <1>t, SequencesOfBlocks
    <3>9. TypeOK'
      BY <3>7, <3>8, <2>1, <2>6, <1>t DEF TypeOK
    <3>10. PathsGiven' /\ InputsThere' /\ OutputsThere' /\ OneWriter'
      BY <2>1, <2>6, <1>s DEF PathsGiven, InputsThere, OutputsThere, OneWriter
    <3>11. PinnedInMemory'
      BY <2>1, <2>6, <3>7, <1>s DEF PinnedInMemory, Exporting
    <3>. QED BY <3>9, <3>10, <3>11 DEF IInv, Safe
  <2>. QED BY <1>4, <2>4, <2>5, <2>6 DEF ReadBlock, Wants
<1>5. ASSUME NEW r \in Runs, Verify(r) PROVE IInv'
  <2>1. UNCHANGED <<disk, input, output, core, edits, removed>> /\ pc[r] = "verify"
    BY <1>5 DEF Verify, Hashed
  <2>2. CASE core[r] = Pinned /\ GoTo(r, "parse")
    BY <2>1, <2>2, Advance DEF Labels, Ended, Working, Reading, Holding, Exporting
  <2>3. CASE GoTo(r, "exit 1")
    BY <2>1, <2>3, Advance DEF Labels, Ended, Working, Reading, Holding, Exporting
  <2>. QED BY <1>5, <2>2, <2>3 DEF Verify, Hashed
<1>6. ASSUME NEW r \in Runs, Parse(r) PROVE IInv'
  <2>1. UNCHANGED <<disk, input, output, core, edits, removed>> /\ pc[r] = "parse"
    BY <1>6 DEF Parse
  <2>2. core[r] = Pinned
    BY <2>1, <1>s DEF PinnedInMemory, Exporting
  <2>3. CASE GoTo(r, "create")
    BY <2>1, <2>2, <2>3, Advance DEF Labels, Ended, Working, Reading, Holding, Exporting
  <2>. QED BY <1>6, <2>2, <2>3 DEF Parse
<1>7. ASSUME NEW r \in Runs, CreateOutput(r) PROVE IInv'
  <2>1. UNCHANGED <<input, output, core, edits, removed>> /\ pc[r] = "create"
    BY <1>7 DEF CreateOutput, Free
  <2>2. CASE GoTo(r, "exit 1") /\ UNCHANGED disk
    BY <2>1, <2>2, Advance DEF Labels, Ended, Working, Reading, Holding, Exporting
  <2>3. CASE /\ disk[output[r]] = Absent
             /\ disk' = [disk EXCEPT ![output[r]] = <<>>] /\ GoTo(r, "write")
    <3>1. output[r] \in Paths /\ core[r] = Pinned /\ input[r] \in Paths
      BY <2>1, <1>s DEF PathsGiven, PinnedInMemory, Working, Exporting
    <3>2. pc' = [pc EXCEPT ![r] = "write"] /\ pc'[r] = "write"
          /\ \A s \in Runs \ {r} : pc'[s] = pc[s]
      BY <2>3, <1>t DEF GoTo
    <3>3. <<>> \in Seq(Block) /\ <<>> # Absent
      BY EmptySeq, SequencesOfBlocks
    <3>4. /\ disk' \in [Paths -> {Absent} \cup Seq(Block)] /\ disk'[output[r]] # Absent
          /\ \A p \in Paths : disk[p] # Absent => disk'[p] # Absent
      BY <2>3, <3>1, <3>3, <1>t
    <3>5. TypeOK'
      BY <2>1, <3>2, <3>4, <1>t DEF TypeOK, Labels
    <3>6. PathsGiven'
      BY <2>1, <3>1, <3>2, <1>s DEF PathsGiven
    <3>7. InputsThere'
      <4> SUFFICES ASSUME NEW s \in Runs, pc'[s] \in Reading PROVE disk'[input'[s]] # Absent
        BY DEF InputsThere
      <4>1. s # r /\ pc[s] \in Reading
        BY <3>2 DEF Reading
      <4>2. input[s] \in Paths /\ disk[input[s]] # Absent
        BY <4>1, <1>s, LabelSets DEF PathsGiven, InputsThere
      <4>. QED BY <4>2, <3>4, <2>1
    <3>8. OutputsThere'
      <4> SUFFICES ASSUME NEW s \in Runs, pc'[s] \in Holding PROVE disk'[output'[s]] # Absent
        BY DEF OutputsThere
      <4>1. CASE s = r
        BY <4>1, <3>4, <2>1
      <4>2. CASE s # r
        <5>1. output[s] \in Paths /\ disk[output[s]] # Absent
          BY <4>2, <3>2, <1>s, LabelSets DEF PathsGiven, OutputsThere
        <5>. QED BY <5>1, <3>4, <2>1
      <4>. QED BY <4>1, <4>2
    <3>9. OneWriter'
      <4>1. \A s \in Runs \ {r} : pc[s] \in Holding => output[s] # output[r]
        BY <2>3, <1>s DEF OutputsThere
      <4>. QED BY <4>1, <3>2, <2>1, <1>s DEF OneWriter
    <3>10. PinnedInMemory'
      BY <2>1, <3>1, <3>2, <1>s DEF PinnedInMemory
    <3>. QED BY <3>5, <3>6, <3>7, <3>8, <3>9, <3>10 DEF IInv, Safe
  <2>. QED BY <1>7, <2>2, <2>3 DEF CreateOutput, Free
<1>8. ASSUME NEW r \in Runs, WriteBlock(r) PROVE IInv'
  <2>1. UNCHANGED <<pc, input, output, core, edits, removed>> /\ pc[r] = "write"
    BY <1>8 DEF WriteBlock
  <2>2. output[r] \in Paths /\ disk[output[r]] \in Seq(Block)
    BY <2>1, <1>s, <1>t DEF PathsGiven, OutputsThere, Working, Holding
  <2>. DEFINE file == disk[output[r]]
  <2>. DEFINE block == Exported(core[r])[Len(file) + 1]
  <2>3. Len(file) \in Nat /\ Exported(core[r]) \in Seq(Block) /\ Len(Exported(core[r])) \in Nat
    BY <2>2, ExportedBlocks, LenProperties
  <2>4. Len(file) + 1 \in 1 .. Len(Exported(core[r]))
    BY <1>8, <2>3 DEF WriteBlock, Written
  <2>5. block \in Block
    BY <2>3, <2>4, ElementOfSeq
  <2>6. Append(file, block) \in Seq(Block)
    BY <2>2, <2>5, AppendProperties
  <2>7. disk' = [disk EXCEPT ![output[r]] = Append(file, block)]
    BY <1>8 DEF WriteBlock, Written
  <2>. HIDE DEF file, block
  <2>8. /\ disk' \in [Paths -> {Absent} \cup Seq(Block)]
        /\ \A p \in Paths : disk[p] # Absent => disk'[p] # Absent
    BY <2>2, <2>6, <2>7, <1>t, SequencesOfBlocks
  <2>. QED BY <2>1, <2>8, <1>t, DiskStep
<1>9. ASSUME NEW r \in Runs, WriteReturns(r) PROVE IInv'
  <2>1. UNCHANGED <<disk, input, output, core, edits, removed>> /\ pc[r] = "write"
        /\ GoTo(r, "close")
    BY <1>9 DEF WriteReturns
  <2>2. core[r] = Pinned
    BY <2>1, <1>s DEF PinnedInMemory, Exporting
  <2>. QED BY <2>1, <2>2, Advance DEF Labels, Ended, Working, Reading, Holding, Exporting
<1>10. ASSUME NEW r \in Runs, Close(r) PROVE IInv'
  <2>1. UNCHANGED <<disk, input, output, core, edits, removed>> /\ pc[r] = "close"
    BY <1>10 DEF Close, Complete
  <2>2. core[r] = Pinned
    BY <2>1, <1>s DEF PinnedInMemory, Exporting
  <2>3. CASE GoTo(r, "report")
    BY <2>1, <2>2, <2>3, Advance DEF Labels, Ended, Working, Reading, Holding, Exporting
  <2>4. CASE GoTo(r, "exit 1")
    BY <2>1, <2>4, Advance DEF Labels, Ended, Working, Reading, Holding, Exporting
  <2>. QED BY <1>10, <2>3, <2>4 DEF Close, Complete
<1>11. ASSUME NEW r \in Runs, Report(r) PROVE IInv'
  <2>1. UNCHANGED <<disk, input, output, core, edits, removed>> /\ pc[r] = "report"
        /\ GoTo(r, "exit 0")
    BY <1>11 DEF Report
  <2>2. core[r] = Pinned
    BY <2>1, <1>s DEF PinnedInMemory, Exporting
  <2>. QED BY <2>1, <2>2, Advance DEF Labels, Ended, Working, Reading, Holding, Exporting
<1>12. ASSUME NEW r \in Runs, Kill(r) PROVE IInv'
  <2>1. UNCHANGED <<disk, input, output, core, edits, removed>>
    BY <1>12 DEF Kill
  <2>2. CASE pc[r] = "report" /\ GoTo(r, "killed reporting")
    <3>1. core[r] = Pinned
      BY <2>2, <1>s DEF PinnedInMemory, Exporting
    <3>. QED BY <2>1, <2>2, <3>1, Advance
             DEF Labels, Ended, Working, Reading, Holding, Exporting
  <2>3. CASE GoTo(r, "killed")
    BY <2>1, <2>3, Advance DEF Labels, Ended, Working, Reading, Holding, Exporting
  <2>. QED BY <1>12, <2>2, <2>3 DEF Kill
<1>13. ASSUME NEW p \in Paths, UserEdits(p) PROVE IInv'
  <2>1. /\ UNCHANGED <<pc, input, output, core, removed>> /\ edits' \in 0 .. MaxEdits
        /\ disk[p] # Absent
    BY <1>13, <1>t, Gt4CoreAssumption DEF UserEdits, Openable
  <2>2. disk[p] \in Seq(Block) /\ Len(disk[p]) \in Nat /\ DOMAIN disk[p] = 1 .. Len(disk[p])
    BY <2>1, <1>t, LenProperties
  <2>3. PICK file \in Seq(Block) : disk' = [disk EXCEPT ![p] = file]
    BY <1>13, EditedFile
  <2>4. /\ disk' \in [Paths -> {Absent} \cup Seq(Block)]
        /\ \A q \in Paths : disk[q] # Absent => disk'[q] # Absent
    BY <2>3, <1>t, SequencesOfBlocks
  <2>. QED BY <2>1, <2>4, <1>t, DiskStep
<1>14. ASSUME NEW p \in Paths, UserRemoves(p) PROVE IInv'
  <2>1. /\ UNCHANGED <<pc, input, output, core>> /\ edits' \in 0 .. MaxEdits
        /\ disk' = [disk EXCEPT ![p] = Absent]
        /\ ~HeldForReading(p) /\ ~HeldForWriting(p)
    BY <1>14, <1>t, Gt4CoreAssumption DEF UserRemoves, Openable
  <2>2. removed' \in [Paths -> Nat]
    BY <1>14, <1>t DEF UserRemoves
  <2>3. /\ disk' \in [Paths -> {Absent} \cup Seq(Block)]
        /\ \A q \in Paths : HeldForReading(q) \/ HeldForWriting(q) => disk'[q] = disk[q]
    BY <2>1, <1>t
  <2>. QED BY <2>1, <2>2, <2>3, DiskStep
<1>15. ASSUME NEW p \in Paths, UserPuts(p) PROVE IInv'
  <2>1. /\ UNCHANGED <<pc, input, output, core, removed>> /\ edits' \in 0 .. MaxEdits
    BY <1>15, <1>t, Gt4CoreAssumption DEF UserPuts
  <2>2. PICK file \in UserFiles : disk' = [disk EXCEPT ![p] = file]
    BY <1>15 DEF UserPuts
  <2>3. file \in Seq(Block) /\ file # Absent
    BY SequencesOfBlocks
  <2>4. /\ disk' \in [Paths -> {Absent} \cup Seq(Block)]
        /\ \A q \in Paths : disk[q] # Absent => disk'[q] # Absent
    BY <2>2, <2>3, <1>t
  <2>. QED BY <2>1, <2>4, <1>t, DiskStep
<1>16. CASE UNCHANGED vars
  BY <1>16 DEF vars, IInv, TypeOK, Safe, PathsGiven, InputsThere, OutputsThere, OneWriter,
               PinnedInMemory
<1>. QED BY <1>1, <1>2, <1>3, <1>4, <1>5, <1>6, <1>7, <1>8, <1>9, <1>10, <1>11, <1>12,
            <1>13, <1>14, <1>15, <1>16 DEF Next, Step, Finished

LEMMA Invariant == Spec => []IInv
BY InitInv, StepInv, PTL DEF Spec

-----------------------------------------------------------------------------
\* Every variable keeps its type.
THEOREM TypeCorrect == Spec => []TypeOK
BY Invariant, PTL DEF IInv

\* Only the pinned CORE is ever parsed and exported.
THEOREM PinnedOnly == Spec => []OnlyPinnedIsExported
<1>1. IInv => OnlyPinnedIsExported
  BY DEF IInv, Safe, PinnedInMemory, OnlyPinnedIsExported, Exporting, Succeeded
<1>. QED BY <1>1, Invariant, PTL

\* No run changes a byte of a file that was there before it made one.
THEOREM FilesKept == Spec => ExistingFilesKept
<1>1. IInv /\ [Next]_vars =>
        [edits' = edits =>
           \A p \in Paths :
             disk'[p] # disk[p] =>
               \/ disk[p] = Absent /\ disk'[p] = <<>>
               \/ /\ disk[p] # Absent /\ IsPrefix(disk[p], disk'[p])
                  /\ \E r \in Runs :
                       /\ output[r] = p /\ pc[r] = "write"
                       /\ \A s \in Runs \ {r} : output[s] = p => pc[s] # "write"]_vars
  <2> SUFFICES ASSUME IInv, Next, edits' = edits, NEW p \in Paths, disk'[p] # disk[p]
               PROVE  \/ disk[p] = Absent /\ disk'[p] = <<>>
                      \/ /\ disk[p] # Absent /\ IsPrefix(disk[p], disk'[p])
                         /\ \E r \in Runs :
                              /\ output[r] = p /\ pc[r] = "write"
                              /\ \A s \in Runs \ {r} : output[s] = p => pc[s] # "write"
    OBVIOUS
  <2>t. disk \in [Paths -> {Absent} \cup Seq(Block)] /\ edits \in Nat
    BY DEF IInv, TypeOK
  <2>1. \E r \in Runs : CreateOutput(r) \/ WriteBlock(r)
    <3>1. \A q \in Paths : ~UserEdits(q) /\ ~UserRemoves(q) /\ ~UserPuts(q)
      BY <2>t DEF UserEdits, UserRemoves, UserPuts
    <3>2. disk' # disk
      OBVIOUS
    <3>. QED BY <3>1, <3>2 DEF Next, Step, Finished, vars, ParseArguments, OpenCore,
                CheckSize, ReadBlock, Verify, Parse, WriteReturns, Close, Report, Kill
  <2>2. ASSUME NEW r \in Runs, CreateOutput(r)
        PROVE  disk[p] = Absent /\ disk'[p] = <<>>
    BY <2>2, <2>t DEF CreateOutput, Free
  <2>3. ASSUME NEW r \in Runs, WriteBlock(r)
        PROVE  /\ disk[p] # Absent /\ IsPrefix(disk[p], disk'[p])
               /\ output[r] = p /\ pc[r] = "write"
               /\ \A s \in Runs \ {r} : output[s] = p => pc[s] # "write"
    <3>. DEFINE block == Exported(core[r])[Len(disk[p]) + 1]
    <3>1. pc[r] = "write" /\ output[r] = p /\ disk'[p] = Append(disk[p], block)
      BY <2>3, <2>t DEF WriteBlock, Written
    <3>2. disk[p] # Absent
      BY <3>1 DEF IInv, Safe, OutputsThere, Holding
    <3>3. disk[p] \in Seq(Block) /\ Len(disk[p]) \in Nat
      BY <3>2, <2>t, LenProperties
    <3>4. block \in Block
      <4>1. Exported(core[r]) \in Seq(Block) /\ Len(Exported(core[r])) \in Nat
        BY ExportedBlocks, LenProperties
      <4>2. Len(disk[p]) + 1 \in 1 .. Len(Exported(core[r]))
        BY <2>3, <3>1, <3>3, <4>1 DEF WriteBlock, Written
      <4>. QED BY <4>1, <4>2, ElementOfSeq
    <3>. HIDE DEF block
    <3>5. /\ Append(disk[p], block) \in Seq(Block)
          /\ Len(Append(disk[p], block)) = Len(disk[p]) + 1
          /\ \A i \in 1 .. Len(disk[p]) : Append(disk[p], block)[i] = disk[p][i]
      BY <3>3, <3>4, AppendProperties
    <3>6. SubSeq(disk[p], 1, Len(disk[p])) = SubSeq(Append(disk[p], block), 1, Len(disk[p]))
      <4>. DEFINE n == Len(disk[p])
      <4>. DEFINE longer == Append(disk[p], block)
      <4>1. \A i \in 1 .. n : disk[p][i] \in Block /\ longer[i] \in Block
        BY <3>3, <3>5, ElementOfSeq
      <4>2. /\ SubSeq(disk[p], 1, n) \in Seq(Block) /\ SubSeq(longer, 1, n) \in Seq(Block)
            /\ Len(SubSeq(disk[p], 1, n)) = n /\ Len(SubSeq(longer, 1, n)) = n
            /\ \A i \in 1 .. n : SubSeq(disk[p], 1, n)[i] = disk[p][i]
            /\ \A i \in 1 .. n : SubSeq(longer, 1, n)[i] = longer[i]
        BY <3>3, <4>1, SubSeqProperties
      <4>. HIDE DEF longer
      <4>3. \A i \in 1 .. n : longer[i] = disk[p][i]
        BY <3>5 DEF longer
      <4>4. SubSeq(disk[p], 1, n) = SubSeq(longer, 1, n)
        BY <3>3, <4>2, <4>3, SeqEqual
      <4>. QED BY <4>4 DEF longer
    <3>7. IsPrefix(disk[p], disk'[p])
      BY <3>1, <3>3, <3>5, <3>6 DEF IsPrefix
    <3>8. \A s \in Runs \ {r} : output[s] = p => pc[s] # "write"
      BY <3>1 DEF IInv, Safe, OneWriter, Holding
    <3>. QED BY <3>1, <3>2, <3>7, <3>8
  <2>. QED BY <2>1, <2>2, <2>3
<1>. QED BY <1>1, Invariant, PTL DEF Spec, ExistingFilesKept

-----------------------------------------------------------------------------
(***************************************************************************)
(* One success per free path: every run that holds a path or has succeeded *)
(* on it is charged to a removal of the path's file, or to the file that   *)
(* is there.                                                               *)
(***************************************************************************)
Owning == {"write", "close", "report", "exit 0", "killed reporting"}
Owners(p) == {r \in Runs : pc[r] \in Owning /\ output[r] = p}
OwnersPaid ==
  \A p \in Paths : Cardinality(Owners(p)) <= removed[p] + IF disk[p] = Absent THEN 0 ELSE 1

(***************************************************************************)
(* What a run has written is a beginning of the ELF.                       *)
(***************************************************************************)
Partial(file) ==
  /\ file \in Seq(Block) /\ Len(file) <= Len(Elf)
  /\ \A i \in 1 .. Len(file) : file[i] = Elf[i]
OutputsPartial == \A r \in Runs : pc[r] \in Holding => Partial(disk[output[r]])

-----------------------------------------------------------------------------
(***************************************************************************)
(* What a step of a run is to the others: it moves on, it creates its      *)
(* output, or it writes a block.                                           *)
(***************************************************************************)
Early == {"start", "open", "size", "read", "verify", "parse", "create"}
Failing == {"exit 1", "exit 2", "killed"}
Reported == {"exit 0", "killed reporting"}

Moves(r, label) ==
  /\ pc' = [pc EXCEPT ![r] = label] /\ UNCHANGED <<disk, edits, removed>>
  /\ \A s \in Runs : pc[s] # "start" => output'[s] = output[s]
  /\ \/ pc[r] \in Early /\ label \in Early
     \/ pc[r] \in Early \cup Holding /\ label \in Failing
     \/ pc[r] = "write" /\ label = "close"
     \/ pc[r] = "close" /\ label = "report" /\ Complete(r)
     \/ pc[r] = "report" /\ label \in Reported

Creates(r) ==
  /\ pc[r] = "create" /\ disk[output[r]] = Absent
  /\ disk' = [disk EXCEPT ![output[r]] = <<>>] /\ pc' = [pc EXCEPT ![r] = "write"]
  /\ UNCHANGED <<output, core, edits, removed>>

LEMMA StepKinds ==
  ASSUME IInv, NEW r \in Runs, Step(r) \/ Kill(r)
  PROVE  (\E label \in Labels : Moves(r, label)) \/ Creates(r) \/ WriteBlock(r)
<1>t. /\ pc \in [Runs -> Labels] /\ output \in [Runs -> Paths \cup {Nowhere}]
  BY DEF IInv, TypeOK
<1>1. CASE ParseArguments(r)
  <2>1. \E label \in {"open", "exit 2"} : Moves(r, label)
    BY <1>1, <1>t DEF ParseArguments, GoTo, Moves, Early, Failing
  <2>. QED BY <2>1 DEF Labels, Ended
<1>2. CASE OpenCore(r)
  <2>1. \E label \in {"size", "exit 1"} : Moves(r, label)
    BY <1>2, <1>t DEF OpenCore, GoTo, Moves, Early, Failing
  <2>. QED BY <2>1 DEF Labels, Ended
<1>3. CASE CheckSize(r)
  <2>1. \E label \in {"read", "exit 1"} : Moves(r, label)
    BY <1>3, <1>t DEF CheckSize, GoTo, Moves, Early, Failing
  <2>. QED BY <2>1 DEF Labels, Ended
<1>4. CASE ReadBlock(r)
  <2>1. pc' = pc => pc' = [pc EXCEPT ![r] = "read"]
    BY <1>4, <1>t DEF ReadBlock
  <2>2. \E label \in {"read", "verify", "exit 1"} : Moves(r, label)
    BY <1>4, <1>t, <2>1 DEF ReadBlock, GoTo, Moves, Early, Failing
  <2>. QED BY <2>2 DEF Labels, Ended
<1>5. CASE Verify(r)
  <2>1. \E label \in {"parse", "exit 1"} : Moves(r, label)
    BY <1>5, <1>t DEF Verify, GoTo, Moves, Early, Failing
  <2>. QED BY <2>1 DEF Labels, Ended
<1>6. CASE Parse(r)
  <2>1. \E label \in {"create", "exit 1"} : Moves(r, label)
    BY <1>6, <1>t DEF Parse, GoTo, Moves, Early, Failing
  <2>. QED BY <2>1 DEF Labels, Ended
<1>7. CASE CreateOutput(r)
  <2>1. Creates(r) \/ Moves(r, "exit 1")
    BY <1>7, <1>t DEF CreateOutput, Free, GoTo, Creates, Moves, Early, Failing
  <2>. QED BY <2>1 DEF Labels, Ended
<1>8. CASE WriteReturns(r)
  <2>1. Moves(r, "close")
    BY <1>8, <1>t DEF WriteReturns, GoTo, Moves
  <2>. QED BY <2>1 DEF Labels
<1>9. CASE Close(r)
  <2>1. \E label \in {"report", "exit 1"} : Moves(r, label)
    BY <1>9, <1>t DEF Close, GoTo, Moves, Holding, Failing
  <2>. QED BY <2>1 DEF Labels, Ended
<1>10. CASE Report(r)
  <2>1. Moves(r, "exit 0")
    BY <1>10, <1>t DEF Report, GoTo, Moves, Reported
  <2>. QED BY <2>1 DEF Labels, Ended
<1>11. CASE Kill(r)
  <2>1. \E label \in {"killed", "killed reporting"} : Moves(r, label)
    <3>1. pc[r] = "report" => Moves(r, "killed reporting")
      BY <1>11 DEF Kill, GoTo, Moves, Reported
    <3>2. pc[r] # "report" => Moves(r, "killed")
      <4>1. pc[r] # "report" => pc[r] \in Early \cup Holding
        BY <1>11, <1>t DEF Kill, Labels, Early, Holding
      <4>. QED BY <1>11, <4>1 DEF Kill, GoTo, Moves, Failing
    <3>. QED BY <3>1, <3>2
  <2>. QED BY <2>1 DEF Labels, Ended
<1>. QED BY <1>1, <1>2, <1>3, <1>4, <1>5, <1>6, <1>7, <1>8, <1>9, <1>10, <1>11 DEF Step

\* A block more of the ELF.
LEMMA WriteBlockWrites ==
  ASSUME IInv, NEW r \in Runs, WriteBlock(r), Partial(disk[output[r]])
  PROVE  /\ pc[r] = "write" /\ output[r] \in Paths
         /\ UNCHANGED <<pc, output, core, edits, removed>>
         /\ \A p \in Paths \ {output[r]} : disk'[p] = disk[p]
         /\ disk[output[r]] # Absent /\ disk'[output[r]] # Absent
         /\ Partial(disk'[output[r]])
<1>. DEFINE file == disk[output[r]]
<1>1. /\ pc[r] = "write" /\ output[r] \in Paths /\ core[r] = Pinned
      /\ UNCHANGED <<pc, output, core, edits, removed>>
  BY DEF WriteBlock, IInv, Safe, PathsGiven, PinnedInMemory, Working, Exporting
<1>2. /\ Len(file) < Len(Elf)
      /\ disk' = [disk EXCEPT ![output[r]] = Append(file, Elf[Len(file) + 1])]
      /\ disk \in [Paths -> {Absent} \cup Seq(Block)]
  BY <1>1 DEF WriteBlock, Written, Exported, IInv, TypeOK
<1>. DEFINE longer == Append(file, Elf[Len(file) + 1])
<1>3. disk'[output[r]] = longer /\ \A p \in Paths \ {output[r]} : disk'[p] = disk[p]
  BY <1>1, <1>2
<1>4. /\ file \in Seq(Block) /\ Len(file) \in Nat /\ Elf \in Seq(Block) /\ Len(Elf) \in Nat
      /\ \A i \in 1 .. Len(file) : file[i] = Elf[i]
  BY SequencesOfBlocks, LenProperties DEF Partial
<1>. HIDE DEF file
<1>5. Elf[Len(file) + 1] \in Block
  BY <1>2, <1>4, ElementOfSeq
<1>6. /\ longer \in Seq(Block) /\ Len(longer) = Len(file) + 1
      /\ \A i \in 1 .. Len(file) : longer[i] = file[i]
      /\ longer[Len(file) + 1] = Elf[Len(file) + 1]
  BY <1>4, <1>5, AppendProperties
<1>. HIDE DEF longer
<1>7. Partial(longer)
  <2>1. Len(longer) <= Len(Elf)
    BY <1>2, <1>4, <1>6
  <2>2. ASSUME NEW i \in 1 .. Len(longer) PROVE longer[i] = Elf[i]
    <3>1. i \in 1 .. Len(file) \/ i = Len(file) + 1
      BY <1>4, <1>6
    <3>. QED BY <1>4, <1>6, <3>1
  <2>. QED BY <1>6, <2>1, <2>2 DEF Partial
<1>. QED BY <1>1, <1>3, <1>4, <1>6, <1>7, SequencesOfBlocks DEF file

\* What the user does to a file: no run holds it for writing, and only
\* UserRemoves takes it away, which is counted.
LEMMA UserSteps ==
  ASSUME IInv, NEW p \in Paths, UserEdits(p) \/ UserRemoves(p) \/ UserPuts(p)
  PROVE  /\ UNCHANGED <<pc, output, core>> /\ edits' = edits + 1
         /\ ~HeldForWriting(p)
         /\ \A q \in Paths \ {p} : disk'[q] = disk[q] /\ removed'[q] = removed[q]
         /\ \/ removed'[p] = removed[p] /\ disk'[p] # Absent
            \/ removed'[p] = removed[p] + 1 /\ disk[p] # Absent /\ disk'[p] = Absent
         /\ disk' \in [Paths -> {Absent} \cup Seq(Block)]
<1>t. disk \in [Paths -> {Absent} \cup Seq(Block)] /\ removed \in [Paths -> Nat]
  BY DEF IInv, TypeOK
<1>1. CASE UserEdits(p)
  <2>1. PICK file \in Seq(Block) : disk' = [disk EXCEPT ![p] = file]
    BY <1>1, EditedFile
  <2>2. file # Absent
    BY SequencesOfBlocks
  <2>. QED BY <1>1, <1>t, <2>1, <2>2 DEF UserEdits, Openable
<1>2. CASE UserRemoves(p)
  BY <1>2, <1>t DEF UserRemoves, Openable
<1>3. CASE UserPuts(p)
  <2>1. PICK file \in Seq(Block) : disk' = [disk EXCEPT ![p] = file]
    BY <1>3, SequencesOfBlocks DEF UserPuts
  <2>2. file # Absent
    BY SequencesOfBlocks
  <2>3. ~HeldForWriting(p)
    BY <1>3 DEF UserPuts, HeldForWriting, IInv, Safe, OutputsThere, Holding
  <2>. QED BY <1>3, <1>t, <2>1, <2>2, <2>3 DEF UserPuts
<1>. QED BY <1>1, <1>2, <1>3

LEMMA InitMore == Init => OwnersPaid /\ OutputsPartial
<1> SUFFICES ASSUME Init PROVE OwnersPaid /\ OutputsPartial
  OBVIOUS
<1>1. \A p \in Paths : Owners(p) = {} /\ removed[p] = 0
  BY DEF Init, Owners, Owning
<1>2. OutputsPartial
  BY DEF Init, OutputsPartial, Holding
<1>. QED BY <1>1, <1>2, FS_EmptySet DEF OwnersPaid

LEMMA StepPartial == IInv /\ OutputsPartial /\ [Next]_vars => OutputsPartial'
<1> SUFFICES ASSUME IInv, OutputsPartial, [Next]_vars PROVE OutputsPartial'
  OBVIOUS
<1>t. /\ disk \in [Paths -> {Absent} \cup Seq(Block)] /\ pc \in [Runs -> Labels]
      /\ PathsGiven /\ OutputsThere /\ OneWriter
  BY DEF IInv, TypeOK, Safe
<1>h. \A s \in Runs : pc[s] \in Holding => output[s] \in Paths
  BY <1>t, LabelSets DEF PathsGiven
<1>1. ASSUME NEW r \in Runs, Step(r) \/ Kill(r) PROVE OutputsPartial'
  <2>1. ASSUME NEW label \in Labels, Moves(r, label) PROVE OutputsPartial'
    <3>1. \A s \in Runs : pc'[s] \in Holding => pc[s] \in Holding
      BY <1>t, <2>1 DEF Moves, Early, Holding, Failing, Reported
    <3>2. \A s \in Runs : pc[s] \in Holding => output'[s] = output[s]
      BY <2>1 DEF Moves, Holding
    <3>. QED BY <2>1, <3>1, <3>2 DEF Moves, OutputsPartial, Partial
  <2>2. ASSUME Creates(r) PROVE OutputsPartial'
    <3> SUFFICES ASSUME NEW s \in Runs, pc'[s] \in Holding PROVE Partial(disk[output[s]])'
      BY DEF OutputsPartial
    <3>1. output[r] \in Paths /\ output' = output
      BY <1>t, <2>2 DEF Creates, PathsGiven, Working
    <3>2. CASE s = r
      <4>1. disk'[output'[s]] = <<>>
        BY <1>t, <2>2, <3>1, <3>2 DEF Creates
      <4>2. /\ <<>> \in Seq(Block) /\ Len(<<>>) = 0 /\ Len(Elf) \in Nat
        BY EmptySeq, SequencesOfBlocks
      <4>. QED BY <4>1, <4>2 DEF Partial
    <3>3. CASE s # r
      <4>1. pc[s] \in Holding /\ output[s] \in Paths /\ disk[output[s]] # Absent
        BY <1>t, <1>h, <2>2, <3>3 DEF Creates, OutputsThere
      <4>2. disk'[output'[s]] = disk[output[s]]
        BY <1>t, <2>2, <3>1, <4>1 DEF Creates
      <4>. QED BY <4>1, <4>2 DEF OutputsPartial, Partial
    <3>. QED BY <3>2, <3>3
  <2>3. ASSUME WriteBlock(r) PROVE OutputsPartial'
    <3>1. pc[r] = "write" /\ Partial(disk[output[r]])
      BY <2>3 DEF WriteBlock, OutputsPartial, Holding
    <3>2. /\ output[r] \in Paths /\ UNCHANGED <<pc, output>>
          /\ \A p \in Paths \ {output[r]} : disk'[p] = disk[p]
          /\ Partial(disk'[output[r]])
      BY <2>3, <3>1, WriteBlockWrites
    <3>3. \A s \in Runs \ {r} : pc[s] \in Holding => output[s] # output[r]
      BY <1>t, <3>1 DEF OneWriter, Holding
    <3>. QED BY <1>h, <3>2, <3>3 DEF OutputsPartial, Partial
  <2>. QED BY <1>1, <2>1, <2>2, <2>3, StepKinds
<1>2. ASSUME NEW p \in Paths, UserEdits(p) \/ UserRemoves(p) \/ UserPuts(p)
      PROVE  OutputsPartial'
  <2>1. /\ UNCHANGED <<pc, output>> /\ ~HeldForWriting(p)
        /\ \A q \in Paths \ {p} : disk'[q] = disk[q]
    BY <1>2, UserSteps
  <2>2. \A s \in Runs : pc[s] \in Holding => output[s] # p
    BY <2>1 DEF HeldForWriting, Holding
  <2>. QED BY <1>h, <2>1, <2>2 DEF OutputsPartial, Partial
<1>3. CASE UNCHANGED vars
  BY <1>3 DEF vars, OutputsPartial, Partial
<1>. QED BY <1>1, <1>2, <1>3 DEF Next, Finished

LEMMA OwnersFinite ==
  \A p : IsFiniteSet(Owners(p)) /\ Cardinality(Owners(p)) \in Nat
<1>1. \A p : Owners(p) \subseteq Runs
  BY DEF Owners
<1>. QED BY <1>1, Gt4CoreAssumption, FS_Subset, FS_CardinalityType

\* Fewer owners, as many removals and no file gone: still paid.
LEMMA StillPaid ==
  ASSUME IInv, OwnersPaid, NEW p \in Paths, Owners(p)' \subseteq Owners(p),
         removed'[p] = removed[p], disk[p] # Absent => disk'[p] # Absent
  PROVE  Cardinality(Owners(p))' <= removed'[p] + IF disk'[p] = Absent THEN 0 ELSE 1
<1>1. /\ Cardinality(Owners(p)') <= Cardinality(Owners(p))
      /\ Cardinality(Owners(p)') \in Nat /\ Cardinality(Owners(p)) \in Nat
  BY OwnersFinite, FS_Subset, FS_CardinalityType
<1>2. removed[p] \in Nat
  BY DEF IInv, TypeOK
<1>3. Cardinality(Owners(p)) <= removed[p] + IF disk[p] = Absent THEN 0 ELSE 1
  BY DEF OwnersPaid
<1>. QED BY <1>1, <1>2, <1>3

LEMMA StepPaid == IInv /\ OutputsPartial /\ OwnersPaid /\ [Next]_vars => OwnersPaid'
<1> SUFFICES ASSUME IInv, OutputsPartial, OwnersPaid, [Next]_vars, NEW p \in Paths
             PROVE  Cardinality(Owners(p))' <= removed'[p] + IF disk'[p] = Absent THEN 0 ELSE 1
  BY DEF OwnersPaid
<1>t. /\ disk \in [Paths -> {Absent} \cup Seq(Block)] /\ pc \in [Runs -> Labels]
      /\ removed \in [Paths -> Nat] /\ PathsGiven
  BY DEF IInv, TypeOK, Safe
<1>. DEFINE Paid == Cardinality(Owners(p))' <= removed'[p] + IF disk'[p] = Absent THEN 0 ELSE 1
<1>1. ASSUME NEW r \in Runs, Step(r) \/ Kill(r) PROVE Paid
  <2>1. ASSUME NEW label \in Labels, Moves(r, label) PROVE Paid
    <3>1. \A s \in Runs : pc'[s] \in Owning => pc[s] \in Owning /\ output'[s] = output[s]
      BY <1>t, <2>1 DEF Moves, Early, Holding, Failing, Reported, Owning
    <3>2. Owners(p)' \subseteq Owners(p)
      BY <3>1 DEF Owners
    <3>. QED BY <2>1, <3>2, StillPaid DEF Moves
  <2>2. ASSUME Creates(r), output[r] = p PROVE Paid
    <3>1. Owners(p)' = Owners(p) \cup {r}
      BY <1>t, <2>2 DEF Creates, Owners, Owning
    <3>2. r \notin Owners(p)
      BY <2>2 DEF Creates, Owners, Owning
    <3>3. Cardinality(Owners(p)') = Cardinality(Owners(p)) + 1 /\ Cardinality(Owners(p)) \in Nat
      BY <3>1, <3>2, OwnersFinite, FS_AddElement
    <3>4. Cardinality(Owners(p)) <= removed[p] + 0
      BY <2>2 DEF OwnersPaid, Creates
    <3>5. removed' = removed /\ disk'[p] # Absent /\ removed[p] \in Nat
      BY <1>t, <2>2, EmptySeq, SequencesOfBlocks DEF Creates
    <3>. QED BY <3>3, <3>4, <3>5
  <2>3. ASSUME Creates(r), output[r] # p PROVE Paid
    <3>1. Owners(p)' \subseteq Owners(p)
      BY <1>t, <2>3 DEF Creates, Owners, Owning
    <3>2. disk'[p] = disk[p] /\ removed'[p] = removed[p]
      BY <1>t, <2>3 DEF Creates
    <3>. QED BY <3>1, <3>2, StillPaid
  <2>4. ASSUME WriteBlock(r) PROVE Paid
    <3>1. Partial(disk[output[r]])
      BY <2>4 DEF WriteBlock, OutputsPartial, Holding
    <3>2. /\ UNCHANGED <<pc, output, removed>>
          /\ \A q \in Paths : disk[q] # Absent => disk'[q] # Absent
      BY <2>4, <3>1, WriteBlockWrites
    <3>3. Owners(p)' = Owners(p)
      BY <3>2 DEF Owners
    <3>. QED BY <3>2, <3>3, StillPaid
  <2>. QED BY <1>1, <2>1, <2>2, <2>3, <2>4, StepKinds
<1>2. ASSUME NEW q \in Paths, UserEdits(q) \/ UserRemoves(q) \/ UserPuts(q)
      PROVE  Paid
  <2>1. /\ UNCHANGED <<pc, output>>
        /\ \A o \in Paths \ {q} : disk'[o] = disk[o] /\ removed'[o] = removed[o]
        /\ \/ removed'[q] = removed[q] /\ disk'[q] # Absent
           \/ removed'[q] = removed[q] + 1 /\ disk[q] # Absent /\ disk'[q] = Absent
    BY <1>2, UserSteps
  <2>2. Owners(p)' = Owners(p)
    BY <2>1 DEF Owners
  <2>3. CASE p = q /\ removed'[q] = removed[q] + 1 /\ disk[q] # Absent /\ disk'[q] = Absent
    <3>1. Cardinality(Owners(p)) <= removed[p] + 1 /\ removed[p] \in Nat
      BY <1>t, <2>3 DEF OwnersPaid
    <3>. QED BY <2>2, <2>3, <3>1
  <2>4. CASE ~(p = q /\ removed'[q] = removed[q] + 1 /\ disk[q] # Absent /\ disk'[q] = Absent)
    BY <2>1, <2>2, <2>4, StillPaid
  <2>. QED BY <2>3, <2>4
<1>3. CASE UNCHANGED vars
  <2>1. Owners(p)' = Owners(p)
    BY <1>3 DEF Owners, vars
  <2>. QED BY <1>3, <2>1, StillPaid DEF vars
<1>. QED BY <1>1, <1>2, <1>3 DEF Next, Finished

LEMMA InvariantMore == Spec => [](IInv /\ OutputsPartial /\ OwnersPaid)
<1>1. Init => IInv /\ OutputsPartial /\ OwnersPaid
  BY InitInv, InitMore
<1>2. IInv /\ OutputsPartial /\ OwnersPaid /\ [Next]_vars
        => (IInv /\ OutputsPartial /\ OwnersPaid)'
  BY StepInv, StepPartial, StepPaid
<1>. QED BY <1>1, <1>2, PTL DEF Spec

\* Of all the runs that succeed on one path, no two do so without a removal in
\* between: CREATE_NEW, for any number of runs, paths and edits.
THEOREM OneSuccess == Spec => []OneSuccessPerFreePath
<1>1. IInv /\ OwnersPaid => OneSuccessPerFreePath
  <2> SUFFICES ASSUME IInv, OwnersPaid, NEW p \in Paths
               PROVE  Cardinality({r \in Runs : Succeeded(r) /\ output[r] = p}) <= removed[p] + 1
    BY DEF OneSuccessPerFreePath
  <2>. DEFINE successes == {r \in Runs : Succeeded(r) /\ output[r] = p}
  <2>1. successes \subseteq Owners(p)
    BY DEF Succeeded, Owners, Owning
  <2>. HIDE DEF successes
  <2>2. /\ Cardinality(successes) <= Cardinality(Owners(p))
        /\ Cardinality(successes) \in Nat /\ Cardinality(Owners(p)) \in Nat
    BY <2>1, OwnersFinite, FS_Subset, FS_CardinalityType
  <2>3. removed[p] \in Nat
    BY DEF IInv, TypeOK
  <2>4. Cardinality(Owners(p)) <= removed[p] + IF disk[p] = Absent THEN 0 ELSE 1
    BY DEF OwnersPaid
  <2>5. Cardinality(successes) <= removed[p] + 1
    BY <2>2, <2>3, <2>4
  <2>. QED BY <2>5 DEF successes
<1>. QED BY <1>1, InvariantMore, PTL

-----------------------------------------------------------------------------
(***************************************************************************)
(* Gt4Core implements OutputOnce: seen from outside, a run that closes its *)
(* output makes it appear in one step.                                     *)
(***************************************************************************)

\* A partial output is one of the prefixes of the ELF, a complete one is it.
LEMMA PartialIsPrefix ==
  ASSUME NEW file, Partial(file)
  PROVE  /\ file \in Prefixes(Elf)
         /\ Len(file) = Len(Elf) => file = Elf
<1>1. /\ file \in Seq(Block) /\ Len(file) \in Nat /\ Elf \in Seq(Block) /\ Len(Elf) \in Nat
      /\ Len(file) <= Len(Elf) /\ \A i \in 1 .. Len(file) : file[i] = Elf[i]
  BY SequencesOfBlocks, LenProperties DEF Partial
<1>2. \A i \in 1 .. Len(file) : Elf[i] \in Block
  BY <1>1, ElementOfSeq
<1>. DEFINE n == Len(file)
<1>3. /\ SubSeq(Elf, 1, n) \in Seq(Block) /\ Len(SubSeq(Elf, 1, n)) = n
      /\ \A i \in 1 .. n : SubSeq(Elf, 1, n)[i] = Elf[i]
  BY <1>1, <1>2, SubSeqProperties
<1>4. file = SubSeq(Elf, 1, n)
  BY <1>1, <1>3, SeqEqual
<1>5. n \in 0 .. Len(Elf)
  BY <1>1
<1>6. file \in Prefixes(Elf)
  BY <1>4, <1>5 DEF Prefixes
<1>7. ASSUME Len(file) = Len(Elf) PROVE file = Elf
  BY <1>1, <1>7, SeqEqual
<1>. QED BY <1>6, <1>7

\* What a label means to others.
Means(label) ==
  IF label \in {"report", "exit 0", "killed reporting"} THEN "published"
  ELSE IF label \in Ended THEN "failed" ELSE "running"

LEMMA OutcomeMeans ==
  ASSUME TypeOK, NEW r \in Runs, NEW label, pc' = [pc EXCEPT ![r] = label]
  PROVE  /\ outcome[r] = Means(pc[r])
         /\ outcome' = [outcome EXCEPT ![r] = Means(label)]
<1>1. outcome = [s \in Runs |-> Means(pc[s])] /\ outcome' = [s \in Runs |-> Means(pc'[s])]
  BY DEF outcome, Succeeded, Means
<1>2. pc'[r] = label /\ \A s \in Runs \ {r} : pc'[s] = pc[s]
  BY DEF TypeOK
<1>. QED BY <1>1, <1>2

\* The others see the same files where the holders are the same and the files
\* nobody holds did not change.
LEMMA SeenAlike ==
  ASSUME NEW p \in Paths, HeldForWriting(p)' <=> HeldForWriting(p),
         HeldForWriting(p) \/ disk'[p] = disk[p]
  PROVE  visible'[p] = visible[p]
BY DEF visible

LEMMA VisibleType ==
  ASSUME TypeOK
  PROVE  visible \in [Paths -> OO!File]
BY DEF TypeOK, visible, OO!File

\* A step that neither begins nor ends a hold changes nothing for the others.
LEMMA MovesUnseen ==
  ASSUME IInv, NEW r \in Runs, NEW label \in Labels, Moves(r, label),
         pc[r] \in Holding <=> label \in Holding
  PROVE  visible' = visible
<1>t. pc \in [Runs -> Labels]
  BY DEF IInv, TypeOK
<1>1. /\ disk' = disk /\ pc'[r] = label /\ \A s \in Runs \ {r} : pc'[s] = pc[s]
  BY <1>t DEF Moves
<1>2. \A s \in Runs : pc[s] \in Holding => output'[s] = output[s]
  BY DEF Moves, Holding
<1>3. \A p \in Paths : HeldForWriting(p)' <=> HeldForWriting(p)
  BY <1>1, <1>2 DEF HeldForWriting, Holding
<1>. QED BY <1>1, <1>3 DEF visible

\* A step that ends a hold shows the file.
LEMMA MovesShow ==
  ASSUME IInv, NEW r \in Runs, NEW label \in Labels, Moves(r, label),
         pc[r] \in Holding, label \notin Holding
  PROVE  /\ output[r] \in Paths /\ visible[output[r]] = Absent
         /\ visible' = [visible EXCEPT ![output[r]] = disk[output[r]]]
<1>t. pc \in [Runs -> Labels] /\ OneWriter
  BY DEF IInv, TypeOK, Safe
<1>1. output[r] \in Paths
  BY LabelSets DEF IInv, Safe, PathsGiven
<1>2. /\ disk' = disk /\ pc'[r] = label /\ \A s \in Runs \ {r} : pc'[s] = pc[s]
  BY <1>t DEF Moves
<1>3. \A s \in Runs : pc[s] \in Holding => output'[s] = output[s]
  BY DEF Moves, Holding
<1>4. HeldForWriting(output[r])
  BY DEF HeldForWriting, Holding
<1>5. ~HeldForWriting(output[r])'
  <2> SUFFICES ASSUME NEW s \in Runs, pc'[s] \in Holding, output'[s] = output[r]'
               PROVE  FALSE
    BY <1>3 DEF HeldForWriting, Holding
  <2>1. s # r /\ pc[s] \in Holding
    BY <1>2
  <2>. QED BY <1>t, <1>3, <2>1 DEF OneWriter
<1>6. \A p \in Paths \ {output[r]} : HeldForWriting(p)' <=> HeldForWriting(p)
  BY <1>2, <1>3 DEF HeldForWriting, Holding
<1>7. visible'[output[r]] = disk[output[r]] /\ visible[output[r]] = Absent
  <2>1. output'[r] = output[r]
    BY <1>3
  <2>. QED BY <1>1, <1>2, <1>4, <1>5, <2>1 DEF visible
<1>8. \A p \in Paths \ {output[r]} : visible'[p] = visible[p]
  BY <1>2, <1>6 DEF visible
<1>9. /\ visible = [p \in Paths |-> visible[p]]
      /\ visible' = [p \in Paths |-> visible'[p]]
  BY DEF visible
<1>. QED BY <1>1, <1>7, <1>8, <1>9

LEMMA CreatesUnseen ==
  ASSUME IInv, NEW r \in Runs, Creates(r)
  PROVE  visible' = visible
<1>t. /\ pc \in [Runs -> Labels] /\ disk \in [Paths -> {Absent} \cup Seq(Block)]
      /\ output[r] \in Paths
  BY DEF IInv, TypeOK, Safe, PathsGiven, Creates, Working
<1>1. /\ pc'[r] = "write" /\ \A s \in Runs \ {r} : pc'[s] = pc[s]
      /\ output' = output /\ disk[output[r]] = Absent
      /\ \A p \in Paths \ {output[r]} : disk'[p] = disk[p]
  BY <1>t DEF Creates
<1>2. visible'[output[r]] = Absent /\ visible[output[r]] = Absent
  <2>1. HeldForWriting(output[r])'
    BY <1>1 DEF HeldForWriting
  <2>. QED BY <1>t, <1>1, <2>1 DEF visible
<1>3. \A p \in Paths \ {output[r]} : HeldForWriting(p)' <=> HeldForWriting(p)
  BY <1>1 DEF HeldForWriting, Creates
<1>4. \A p \in Paths : visible'[p] = visible[p]
  BY <1>1, <1>2, <1>3 DEF visible
<1>. QED BY <1>4 DEF visible

-----------------------------------------------------------------------------
\* A step of a run moves on unseen, fails, leaves a part behind or publishes.
LEMMA RunRefines ==
  ASSUME IInv, OutputsPartial, NEW r \in Runs, Step(r) \/ Kill(r)
  PROVE  \/ UNCHANGED <<visible, outcome, edits>>
         \/ OO!Fail(r)
         \/ \E p \in Paths : OO!Publish(r, p) \/ OO!LeavePartial(r, p)
<1>t. TypeOK /\ outcome = [outcome EXCEPT ![r] = Means(pc[r])]
  BY DEF IInv, outcome, Succeeded, Means
<1>1. ASSUME NEW label \in Labels, Moves(r, label), pc[r] \in Early, label \in Early
      PROVE  UNCHANGED <<visible, outcome, edits>>
  <2>1. visible' = visible
    BY <1>1, MovesUnseen DEF Early, Holding
  <2>2. Means(label) = "running" /\ Means(pc[r]) = "running"
    BY <1>1 DEF Means, Early, Ended
  <2>3. outcome' = outcome
    BY <1>t, <1>1, <2>2, OutcomeMeans DEF Moves
  <2>. QED BY <1>1, <2>1, <2>3 DEF Moves
<1>2. ASSUME NEW label \in Labels, Moves(r, label), pc[r] \in Early, label \in Failing
      PROVE  OO!Fail(r)
  <2>1. visible' = visible
    BY <1>2, MovesUnseen DEF Early, Holding, Failing
  <2>2. Means(label) = "failed" /\ Means(pc[r]) = "running"
    BY <1>2 DEF Means, Early, Failing, Ended
  <2>3. outcome[r] = "running" /\ outcome' = [outcome EXCEPT ![r] = "failed"]
    <3>1. pc' = [pc EXCEPT ![r] = label]
      BY <1>2 DEF Moves
    <3>2. outcome[r] = Means(pc[r]) /\ outcome' = [outcome EXCEPT ![r] = Means(label)]
      BY <1>t, <3>1, OutcomeMeans
    <3>. QED BY <2>2, <3>2
  <2>. QED BY <1>2, <2>1, <2>3 DEF Moves, OO!Fail
<1>3. ASSUME NEW label \in Labels, Moves(r, label), pc[r] \in Holding, label \in Failing
      PROVE  \E p \in Paths : OO!LeavePartial(r, p)
  <2>1. /\ output[r] \in Paths /\ visible[output[r]] = Absent
        /\ visible' = [visible EXCEPT ![output[r]] = disk[output[r]]]
    BY <1>3, MovesShow DEF Holding, Failing
  <2>2. disk[output[r]] \in OO!Prefixes(Elf)
    <3>1. disk[output[r]] \in Prefixes(Elf)
      BY <1>3, PartialIsPrefix DEF OutputsPartial
    <3>. QED BY <3>1 DEF Prefixes, OO!Prefixes
  <2>3. Means(label) = "failed" /\ Means(pc[r]) = "running"
    BY <1>3 DEF Means, Holding, Failing, Ended
  <2>4. outcome[r] = "running" /\ outcome' = [outcome EXCEPT ![r] = "failed"]
    <3>1. pc' = [pc EXCEPT ![r] = label]
      BY <1>3 DEF Moves
    <3>2. outcome[r] = Means(pc[r]) /\ outcome' = [outcome EXCEPT ![r] = Means(label)]
      BY <1>t, <3>1, OutcomeMeans
    <3>. QED BY <2>3, <3>2
  <2>5. edits' = edits
    BY <1>3 DEF Moves
  <2>6. OO!LeavePartial(r, output[r])
    BY <2>1, <2>2, <2>4, <2>5 DEF OO!LeavePartial
  <2>. QED BY <2>1, <2>6
<1>4. ASSUME Moves(r, "close"), pc[r] = "write"
      PROVE  UNCHANGED <<visible, outcome, edits>>
  <2>1. visible' = visible
    BY <1>4, MovesUnseen DEF Holding, Labels
  <2>2. Means("close") = "running" /\ Means(pc[r]) = "running"
    BY <1>4 DEF Means, Ended
  <2>3. outcome' = outcome
    BY <1>t, <1>4, <2>2, OutcomeMeans DEF Moves
  <2>. QED BY <1>4, <2>1, <2>3 DEF Moves
<1>5. ASSUME Moves(r, "report"), pc[r] = "close", Complete(r)
      PROVE  \E p \in Paths : OO!Publish(r, p)
  <2>1. /\ output[r] \in Paths /\ visible[output[r]] = Absent
        /\ visible' = [visible EXCEPT ![output[r]] = disk[output[r]]]
    BY <1>5, MovesShow DEF Holding, Labels
  <2>2. disk[output[r]] = Elf
    <3>1. core[r] = Pinned
      BY <1>5 DEF IInv, Safe, PinnedInMemory, Exporting
    <3>2. Len(disk[output[r]]) = Len(Elf)
      BY <1>5, <3>1 DEF Complete, Written, Exported
    <3>. QED BY <1>5, <3>2, PartialIsPrefix DEF OutputsPartial, Holding
  <2>3. Means("report") = "published" /\ Means(pc[r]) = "running"
    BY <1>5 DEF Means, Ended
  <2>4. outcome[r] = "running" /\ outcome' = [outcome EXCEPT ![r] = "published"]
    <3>1. pc' = [pc EXCEPT ![r] = "report"]
      BY <1>5 DEF Moves
    <3>2. outcome[r] = Means(pc[r]) /\ outcome' = [outcome EXCEPT ![r] = Means("report")]
      BY <1>t, <3>1, OutcomeMeans
    <3>. QED BY <2>3, <3>2
  <2>5. edits' = edits
    BY <1>5 DEF Moves
  <2>. QED BY <2>1, <2>2, <2>4, <2>5 DEF OO!Publish
<1>6. ASSUME NEW label \in Labels, Moves(r, label), pc[r] = "report", label \in Reported
      PROVE  UNCHANGED <<visible, outcome, edits>>
  <2>1. visible' = visible
    BY <1>6, MovesUnseen DEF Holding, Reported
  <2>2. Means(label) = "published" /\ Means(pc[r]) = "published"
    BY <1>6 DEF Means, Reported
  <2>3. outcome' = outcome
    BY <1>t, <1>6, <2>2, OutcomeMeans DEF Moves
  <2>. QED BY <1>6, <2>1, <2>3 DEF Moves
<1>7. ASSUME Creates(r)
      PROVE  UNCHANGED <<visible, outcome, edits>>
  <2>1. visible' = visible
    BY <1>7, CreatesUnseen
  <2>2. Means("write") = "running" /\ Means(pc[r]) = "running"
    BY <1>7 DEF Creates, Means, Ended
  <2>3. outcome' = outcome
    BY <1>t, <1>7, <2>2, OutcomeMeans DEF Creates
  <2>. QED BY <1>7, <2>1, <2>3 DEF Creates
<1>8. ASSUME WriteBlock(r)
      PROVE  UNCHANGED <<visible, outcome, edits>>
  <2>1. /\ pc[r] = "write" /\ UNCHANGED <<pc, output, edits>>
        /\ \A p \in Paths \ {output[r]} : disk'[p] = disk[p]
    <3>1. Partial(disk[output[r]])
      BY <1>8 DEF WriteBlock, OutputsPartial, Holding
    <3>. QED BY <1>8, <3>1, WriteBlockWrites
  <2>2. HeldForWriting(output[r]) /\ \A p : HeldForWriting(p)' <=> HeldForWriting(p)
    BY <2>1 DEF HeldForWriting
  <2>3. visible' = visible
    BY <2>1, <2>2 DEF visible
  <2>4. outcome' = outcome
    BY <2>1 DEF outcome, Succeeded
  <2>. QED BY <2>1, <2>3, <2>4
<1>9. ASSUME NEW label \in Labels, Moves(r, label)
      PROVE  \/ UNCHANGED <<visible, outcome, edits>>
             \/ OO!Fail(r)
             \/ \E p \in Paths : OO!Publish(r, p) \/ OO!LeavePartial(r, p)
  <2>1. \/ pc[r] \in Early /\ label \in Early
        \/ pc[r] \in Early /\ label \in Failing
        \/ pc[r] \in Holding /\ label \in Failing
        \/ pc[r] = "write" /\ label = "close"
        \/ pc[r] = "close" /\ label = "report" /\ Complete(r)
        \/ pc[r] = "report" /\ label \in Reported
    BY <1>9 DEF Moves
  <2>. QED BY <1>1, <1>2, <1>3, <1>4, <1>5, <1>6, <1>9, <2>1
<1>. QED BY <1>7, <1>8, <1>9, StepKinds

LEMMA StepRefines ==
  IInv /\ OutputsPartial /\ [Next]_vars => [OO!Next]_(OO!vars)
<1> SUFFICES ASSUME IInv, OutputsPartial, [Next]_vars
             PROVE  OO!Next \/ UNCHANGED <<visible, outcome, edits>>
  BY DEF OO!vars
<1>1. ASSUME NEW r \in Runs, Step(r) \/ Kill(r)
      PROVE  OO!Next \/ UNCHANGED <<visible, outcome, edits>>
  BY <1>1, RunRefines DEF OO!Next
<1>2. ASSUME NEW p \in Paths, UserEdits(p) \/ UserRemoves(p) \/ UserPuts(p)
      PROVE  OO!Next
  <2>1. /\ UNCHANGED <<pc, output, core>> /\ edits' = edits + 1
        /\ \A q \in Paths \ {p} : disk'[q] = disk[q]
        /\ disk' \in [Paths -> {Absent} \cup Seq(Block)]
    BY <1>2, UserSteps
  <2>2. visible' \in [Paths -> OO!File]
    BY <2>1 DEF visible, OO!File
  <2>3. \A q : HeldForWriting(q)' <=> HeldForWriting(q)
    BY <2>1 DEF HeldForWriting
  <2>4. \A q \in Paths \ {p} : visible'[q] = visible[q]
    BY <2>1, <2>3 DEF visible
  <2>5. outcome' = outcome
    BY <2>1 DEF outcome, Succeeded
  <2>6. OO!UserEdits(p)
    BY <2>1, <2>2, <2>4, <2>5 DEF OO!UserEdits
  <2>. QED BY <2>6 DEF OO!Next
<1>3. CASE UNCHANGED vars
  BY <1>3 DEF vars, visible, outcome, HeldForWriting, Succeeded
<1>. QED BY <1>1, <1>2, <1>3 DEF Next, Finished

\* Every behaviour of any number of runs, killed at any point while the user
\* changes files, is one of OutputOnce.
THEOREM Refinement == Spec => ImplementsOutputOnce
<1>1. Init => OO!Init
  <2> SUFFICES ASSUME Init PROVE OO!Init
    OBVIOUS
  <2>1. \A r \in Runs : pc[r] = "start"
    BY DEF Init
  <2>2. outcome = [r \in Runs |-> "running"]
    BY <2>1 DEF outcome, Succeeded, Ended
  <2>3. visible \in [Paths -> OO!File]
    BY InitInv, VisibleType DEF IInv
  <2>. QED BY <2>2, <2>3 DEF Init, OO!Init
<1>2. IInv /\ OutputsPartial /\ [Next]_vars => [OO!Next]_(OO!vars)
  BY StepRefines
<1>. QED BY <1>1, <1>2, InvariantMore, PTL DEF Spec, OO!Spec, ImplementsOutputOnce
=============================================================================
