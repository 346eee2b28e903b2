SPECIFICATION FairSpec
CONSTANTS
  Cars = {car0, car1, car2}
  First = car0
  NoHost = nohost
  MaxFrames = 2
INVARIANTS
  TypeOK
  DeliveredOnce
  LearnsFromOthers
PROPERTY
  ReceivedFrameIsDelivered
