\* One draw of one series through the Sample Reducer.
CONSTANTS
  MaxSamples <- MCMaxSamples
  MaxLen <- MCMaxLen
  Positions <- MCPositions
  Sizes <- MCSizes
  Windows <- MCWindows
SPECIFICATION Spec
CHECK_DEADLOCK FALSE
INVARIANTS
  TypeOK
  ReductionFollowsSpec
  BandwidthFollowsSpec
