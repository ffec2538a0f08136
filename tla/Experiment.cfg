\* Simulated time, control loops and drawn paths side by side, each on its own.
SPECIFICATION MCSpec
CONSTANTS
  v1 = v1
  v2 = v2
  middleware = middleware
  vehicle = vehicle
  ui = ui
  Participant = {middleware, vehicle}
  Offset <- PairOffset
  Period <- PairPeriod
  KeepsRunning = {vehicle}
  Mortal = {vehicle}
  Known = {middleware}
  Stopper = {ui}
  Horizon = 3
  None = None
  Stop = Stop
  Hlc = {v1, v2}
  Simulated = FALSE
  Cancels = {v1, v2}
  Goal = {}
  Vehicle = {1, 2}
  Nobody = 255
  Moves = {13}
  LastTime = 46
  Clicks = 2
  ClickTimes = {0, 8, 23}
  KillTimes = {2, 24}
  PlanTime = 2
  Lossy = {1}
  Losses = 1
SYMMETRY Symmetry
INVARIANTS
  TypeOK
  StatusAgrees
  PictureExact
  Lockstep
  NoOrphan
  ReadyMeansReady
  PathsSafe
PROPERTIES
  ClockWaits
  ImplementsLogicalTime
CHECK_DEADLOCK FALSE
