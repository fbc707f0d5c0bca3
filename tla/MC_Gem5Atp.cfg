\* gem5/atp.py over memory types, address maps, run times, ATP files and
\* --streams arguments.
CONSTANTS
  MemKinds <- MCMemKinds
  MemTypes = {"LPDDR3_1600_1x32", "QoS_MemSink", "SimpleMemory", "DDR9"}
  Channels = {1, 2}
  AddrMaps = {1, 2}
  MaxTick = MaxTick
  Ticks = {10}
  DumpStats = {0, 4}
  ConfigFiles = {"", "a.atp b.atp"}
  ConfigPaths <- MCConfigPaths
  Walk <- MCWalk
  StreamLists <- MCStreamLists
  AddrValue <- MCAddrValue
  MaxAddr = MaxAddr
SPECIFICATION Spec
\* The script ends: it simulates, or stops in fatal() or an exception.
CHECK_DEADLOCK FALSE
INVARIANTS
  TypeOK
  StreamsInitialisedAsDocumented
