\* parse_m3i over files of up to three lines, with and without burst mode.
CONSTANTS
  BusWidth = 4
  Addrs <- MCAddrs
  Markers = {"AR", "AW", "W"}
  FieldLists <- MCFieldLists
  MaxLines = 3
SPECIFICATION Spec
\* A parse stops at the end of the file.
CHECK_DEADLOCK FALSE
INVARIANTS
  TypeOK
  RecordsFollowSpec
  TotalDataAccounted
  CyclesNonDecreasing
