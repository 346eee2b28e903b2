SPECIFICATION XSpec
CONSTANTS
  Senders = {car1, car2}
  Names = {"beacon", "video", "other"}
  Rules <- MCRules
  StaticStreams <- MCStaticStreams
  NoHost = nohost
  CycleTime = 2
  Micro = 1
  QueueSize = 2
  UpdateInterval = 3
  PacketTimes = {1}
  Overhead = 1
  InitialDelay = 1
  ArrivalPhases = {1}
  MaxPackets = 2
  MaxStreams = 3
  GetName <- MCGetName
  NodesNamed <- MCNodesNamed
  Path <- MCPath
  GateOrder <- MCGateOrder
  NoFile = nofile
  Garbage = garbage
  None = none
INVARIANT
  SlotsAreAtTheQueueOfTheirPackets
