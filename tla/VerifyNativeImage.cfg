SPECIFICATION Spec
CONSTANTS
  HalfWordBytes = 2
  WordBytes = 4
  elf_header_size = 4
  program_header_size = 1
  Cores <- MCCores
  PinnedCore <- MCPinnedCore
  Elfs <- MCElfs
  PinnedReference <- MCPinnedReference
  MemorySize = 16
  MaxEdits = 2
INVARIANTS
  LoadsLikeReference
  HoldsPinnedCore
  ZeroFillReported
