SPECIFICATION Spec
CONSTANTS
  Senders = {car1}
  Names = {"beacon"}
  Rules <- MCOneRule
  StaticStreams <- MCStaticStreams
  NoHost = nohost
  CycleTime = 6
  Micro = 2
  QueueSize = 2
  UpdateInterval = 3
  PacketTimes = {1, 3}
  Overhead = 1
  InitialDelay = 1
  ArrivalPhases = {0, 1, 5}
  MaxPackets = 5
  MaxStreams = 3
INVARIANTS
  TypeOK
  SlotCoversArrivals
  ScheduledSlotsAreAdapted
PROPERTIES
  SamplesInGateTime
  DepartedSenderChangesNoStream
