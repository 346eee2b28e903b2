SPECIFICATION FairSpec
CONSTANTS
  Parameters <- MCParameters
  PacketLengths = {1, 3}
  MaxPackets = 2
  ImplicitGuardBand = TRUE
INVARIANTS
  TypeOK
  ReplaysDurations
  TransmissionFitsWindow
PROPERTIES
  OnlyRestartMissesPacket
  WaitingPacketIsSent
