SPECIFICATION ConnSpec
CONSTANT MaxSetups = 2
INVARIANTS
  ConnTypeOK
  PointersAreLive
  NoServiceLost
  ClockOutlivesSessions
  CalleeIsLive
  OrderlyClientIsServed
PROPERTIES
  
  HandlersReturn
