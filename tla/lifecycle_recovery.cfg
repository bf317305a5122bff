SPECIFICATION Spec
CONSTANTS
  Ids = {}
  Shapes <- NoShapes
  MaxGen = 3
  MaxQueue = 2
  MaxUpdates = 2
  ChanCap = 1
  Events = {"ready", "hello", "update", "crash"}
INVARIANTS
  SoftModRecoveryBounded
  CrashLoopEndsAutoStart
