SPECIFICATION Spec
CONSTANTS
  Memory <- MCMemory
  Listings <- MCListings
  Threshold = 2
INVARIANTS
  VerifiedMeansAgreed
  MarkerAddsUp
  MismatchMeansDifferent
