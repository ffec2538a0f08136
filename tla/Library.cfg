\* The parts of the library side by side, each on its own.
SPECIFICATION MCSpec
CONSTANTS
  main = main
  gtk = gtk
  vehicle = vehicle
  program = program
  Stopper = {main, gtk}
  Runner = Runner
  Async = TRUE
  Realtime = FALSE
  StopCallback = "none"
  Starts = 2
  Nobody = Nobody
  Word = 64
  Period = 3
  Offset = 2
  SimplePeriod = 6
  Tick = 3
  LastTime = 15
  Vehicle = {vehicle}
  LastStamp = 2
  Depth = 2
  Arrivals = 3
  TypeOrder <- Types
  Program = {program}
  Wanted <- WantedTypes
  Changes = 2
  Id = {program}
  CountMod = 3
  MaxWait = 2
  Rounds = 4
  Restarts = 1
  LevelOf <- Levels
  Matches <- Filters
  MaxStorage = 3
  MaxBuffer = 2
  max_log_amount = 2
  Clicks = 3
INVARIANTS
  TypeOK
  JoinIsExclusive
  QuietAfterStop
  PeriodsKept
  NewestIsFound
  UpToDate
  MeasurementsFresh
  LogsShown
PROPERTIES
  WaitsEnd
  DeadlinesMet
  LogsFinallyShown
CHECK_DEADLOCK FALSE
