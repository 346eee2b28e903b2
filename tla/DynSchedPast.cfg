SPECIFICATION Spec
CONSTANTS
  Senders = {car1}
  Names = {"beacon"}
  Rules <- MCOneRule
  StaticStreams <- MCStaticStreams
  NoHost = nohost
  CycleTime = 24
  Micro = 2
  QueueSize = 3
  UpdateInterval = 3
  PacketTimes = {1}
  Overhead = 1
  InitialDelay = 1
  ArrivalPhases = {1, 23}
  MaxPackets = 2
  MaxStreams = 3
INVARIANT
  StartTimeNotInPast
