\* Filled-in GPU and DPU forms, the processor button on either.
CONSTANTS
  Processors = {"GPU", "DPU"}
  GPixels <- MCGPixels
  GFPSs = {1}
  GBytesPP = {2}
  GFrames = {1}
  GSizes <- MCGSizes
  GOTLimits <- MCGOTLimits
  GTotalTxns = {2}
  GBases <- MCGBases
  GIncrs = {4}
  DPixels <- MCDPixels
  DFPSs = {1}
  DBitsPP <- MCDBitsPP
  DLayerCounts <- MCDLayerCounts
  DTimings <- MCDTimings
  DSizes <- MCDSizes
  DTotalTxns = {2}
  DBases = {0}
  DIncrs = {4}
  DBaseAdjusts = {"Yes"}
SPECIFICATION Spec
\* generate_atp returns once the selected builder has emitted or raised.
CHECK_DEADLOCK FALSE
INVARIANTS
  TypeOK
  FullLevelFollowsSpec
PROPERTIES
  SizingTerminates
