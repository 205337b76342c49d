SPECIFICATION Spec
CONSTANTS
  WordSize = 64
  Families = {"a", "b"}
  Texts <- MCTexts
  Starts <- MCStarts
  Counts <- MCCounts
  BufferLines = 2
INVARIANTS
  TypeOK
  ReadsInsideText
  OutputIsPrefix
  ReportAddsUp
  ExitZeroLosesAtMostTheLastFlush
