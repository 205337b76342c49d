SPECIFICATION LineSpec
CONSTANTS
  Texts <- MCTexts
  Addresses <- MCAddresses
INVARIANTS
  NamesTheInstruction
  LineDeterminesWord
  TargetsAreExact
