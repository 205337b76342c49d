SPECIFICATION Spec
CONSTANTS
  Counts <- MCCounts
  Builds = {"old", "new"}
  MaxRuns = 3
  MaxBuilds = 1
INVARIANTS
  CapturedWhole
  ListingInOrder
  ListingFollowsRegions
