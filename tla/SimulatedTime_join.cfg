\* Does everybody who stops the TimerTrigger get past the join?
SPECIFICATION FairSpec
CONSTANTS
  middleware = middleware
  vehicle = vehicle
  ui = ui
  Participant = {middleware, vehicle}
  Offset <- PairOffset
  Period <- PairPeriod
  KeepsRunning = {vehicle}
  Mortal = {}
  Known = {middleware}
  Stopper = {ui}
  Horizon = 1
  None = None
  Stop = Stop
PROPERTIES
  StopReturns
CHECK_DEADLOCK FALSE
