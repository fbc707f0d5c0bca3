\* A profiler session: any sequence of opens, clears and control events.
CONSTANTS
  M3iFiles <- MCM3iFiles
  TraceFiles <- MCTraceFiles
  TraceTypes <- MCTraceTypes
  WindowInputs <- MCWindowInputs
SPECIFICATION Spec
INVARIANTS
  TypeOK
  ControlsMatchMode
PROPERTIES
  LoadedKindRefined
