SPECIFICATION Spec
CONSTANTS
  Cars = {car1, car2, car3}
  NicInterfaces <- MCNicInterfaces
  Ports = {1, 2}
  NicPort = 1
  Memberships = {{}, {2}}
  AgingTime = 3
  SimTimeMax = 100
  MaxNow = 4
SYMMETRY Symmetry
INVARIANT
  CarsReachEachOther
