SPECIFICATION SSpec
CONSTANTS
  Parameters <- MCIniParameters
  PacketLengths = {1}
  MaxPackets = 1
  ImplicitGuardBand = TRUE
  GateCycleDuration = 4
  Schedules <- MCSchedules
INVARIANTS
  STypeOK
  FollowsSchedule
  OnlyHiddenFaultsPass
PROPERTY
  ImplementsCyclicGate
