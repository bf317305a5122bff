SPECIFICATION Spec
CONSTANTS
  Ids = {}
  Shapes <- NoShapes
  MaxGen = 2
  MaxQueue = 2
  MaxUpdates = 0
  ChanCap = 1
  Events = {"ready", "closed", "write", "startup-timeout", "autolaunch", "mod"}
INVARIANTS
  ReadyIsOwn
PROPERTIES
  ImplementsServer
