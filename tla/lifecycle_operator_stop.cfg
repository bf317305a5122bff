SPECIFICATION Spec
CONSTANTS
  Ids = {r1, r2}
  Shapes <- StopShapes
  MaxGen = 1
  MaxQueue = 2
  MaxUpdates = 0
  ChanCap = 1
  Events = {"ready"}
PROPERTIES
  OperatorStopDisablesAutostart
