SPECIFICATION Spec
CONSTANTS
  m1 = m1
  m2 = m2
  g1 = g1
  AgingTime = 2
  SimTimeMax = 100
  Addresses <- MCAddresses
  Groups <- MCGroups
  Interfaces = {1, 2}
  ForwardingTables <- MCForwardingTables
  AgingTimes <- MCAgingTimes
  PurgeInterval = 1
  MaxNow = 4
INVARIANTS
  TypeOK
  LookupIsCurrent
  PermanentEntriesAreAssigned
PROPERTY
  PurgeIsInvisible
