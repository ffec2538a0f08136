\* Discovery, announcements, the clock and stopping: what can hold it all up?
SPECIFICATION FairSpec
CONSTANTS
  middleware = middleware
  vehicle = vehicle
  ui = ui
  Participant = {middleware, vehicle}
  Offset <- PairOffset
  Period <- PairPeriod
  KeepsRunning = {vehicle}
  Mortal = {vehicle}
  Known = {middleware}
  Stopper = {ui}
  Horizon = 2
  None = None
  Stop = Stop
PROPERTIES
  ProgressUnlessLate
  StopHangsOnlyInSilence
CHECK_DEADLOCK FALSE
