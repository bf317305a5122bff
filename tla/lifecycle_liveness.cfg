SPECIFICATION FairSpec
CONSTANTS
  Ids = {r1, r2}
  Shapes <- BlockingShapes
  MaxGen = 1
  MaxQueue = 2
  MaxUpdates = 0
  ChanCap = 1
  Events = {"ready", "sigterm"}
INVARIANTS
  AnsweredOnce
PROPERTIES
  DeadProcessNoticed
  ShutdownCompletes
  WaitersReleased
