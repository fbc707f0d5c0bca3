\* GPU and DPU forms over every addressing type, and CPU forms whose
\* data limit, shares and bandwidth the header prints exactly.
CONSTANTS
  Processors = {"GPU", "DPU", "CPU"}
  Authors <- MCAuthors
  GpuChoices <- MCGpuChoices
  DpuChoices <- MCDpuChoices
  CpuChoices <- MCCpuChoices
  Preset <- MCPreset
SPECIFICATION Spec
INVARIANTS
  TypeOK
  RecordedFieldsReadBack
PROPERTY
  OpenTouchesOnlyRecorded
