SPECIFICATION Spec
CONSTANTS
  BootNames <- MCBootNames
  BootPath <- MCBootPath
  ConfigLimit = 4
  ImageOrder <- MCImageOrder
  Contents <- MCContents
  Discs <- MCDiscs
  Manifests <- MCManifests
  MaxDisturbances = 2
INVARIANTS
  UndisturbedVerdict
  InspectionIsManifest
  OneWritePassSawPinned
