\* The frames field left at its IntVar default 0 on some forms.
CONSTANTS
  Pixels <- MCPixels
  FPSs = {1}
  BytesPP = {2}
  Frames = {0, 1}
  Sizes <- MCSizes
  OTLimits <- MCOTLimits
  TotalTxns = {2}
  Bases <- MCBases
  Incrs = {4}
SPECIFICATION Spec
\* generate() returns after emitting its two blocks.
CHECK_DEADLOCK FALSE
PROPERTIES
  SizingTerminates
