\* CPU forms across the pointer-chase split.
CONSTANTS
  Percentages <- MCPercentages
  DataLimits = {64}
  Sizes <- MCSizes
  AddrTypes <- MCAddrTypes
  Bases <- MCBases
  Incrs = {4}
  StdDevs = {3}
  BoundMethod = BoundMethod
SPECIFICATION Spec
\* generate() returns after emitting its blocks, or raises.
CHECK_DEADLOCK FALSE
INVARIANTS
  TypeOK
  WaitForResolvable
