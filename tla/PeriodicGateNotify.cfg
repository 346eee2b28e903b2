SPECIFICATION Spec
CONSTANTS
  Parameters <- MCParameters
  PacketLengths = {1, 3}
  MaxPackets = 2
  ImplicitGuardBand = TRUE
INVARIANT
  ServerIsNotified
