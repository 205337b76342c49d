SPECIFICATION Spec
CONSTANTS
  r1 = r1
  r2 = r2
  Runs <- MCRuns
  Paths = {"in", "out"}
  Block <- MCBlock
  Pinned <- MCPinned
  Elf <- MCElf
  Foreign <- MCForeign
  Absent = Absent
  Nowhere = Nowhere
  UserFiles <- MCUserFiles
  UserBlocks = {"c1", "x"}
  MaxEdits = 1
PROPERTIES
  RunsEnd
