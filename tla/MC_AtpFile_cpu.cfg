\* CPU forms a user may save: the round trip of their header.
CONSTANTS
  Processors = {"CPU"}
  Authors <- MCAuthors
  GpuChoices = {}
  DpuChoices = {}
  CpuChoices <- MCCpuFormChoices
  Preset <- MCPreset
SPECIFICATION Spec
INVARIANT
  RoundTripRestoresForm
