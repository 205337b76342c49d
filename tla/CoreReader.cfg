SPECIFICATION Spec
CONSTANTS
  WordSize = 64
  ee_memory_size = 8
  InstructionSize = 2
  ReginfoSize = 2
  HalfWordBytes = 1
  WordBytes = 2
  maximum_core_size = 32
  Containers <- MCContainers
INVARIANTS
  TypeOK
  ReaderInBounds
  AllocationBounded
  ReturnedImageFits
  ReadersAgree
PROPERTIES
  ImplementsCoreFormat
