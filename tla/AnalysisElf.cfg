SPECIFICATION Spec
CONSTANTS
  WordSize = 64
  ee_memory_size = 24
  InstructionSize = 2
  ReginfoSize = 3
  reference_zero_fill_size = 6
  elf_header_size = 5
  program_header_size = 3
  PageAlignment = 4
  ReginfoAlignment = 2
  Images <- MCImages
INVARIANTS
  TypeOK
  FileAsAnnounced
  PlacedAtNextCongruentPosition
  ExportPassesInspection
PROPERTIES
  ImplementsReferenceView
  AppendOnly
