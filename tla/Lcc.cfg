\* The parts of the lab control center side by side, each on its own.
SPECIFICATION MCSpec
CONSTANTS
  nuc1 = nuc1
  nuc2 = nuc2
  nuc3 = nuc3
  sleeper = sleeper
  caller1 = caller1
  caller2 = caller2
  pool1 = pool1
  pool2 = pool2
  hlc = hlc
  ips = ips
  Hlc = {nuc1, nuc2, nuc3}
  Sleeper = sleeper
  Operations = 3
  Local = {hlc, ips}
  Remote = {nuc1}
  Deployments = 2
  Failures = 1
  Caller = {caller1, caller2}
  Pool = {pool1, pool2}
  MaxId = 1
  Capacity = 1
  Calls = 3
  Lives = 2
  Scenarios <- Files
  time_step_size = 2
  future_time_steps = 10
  Final = 4
  LastTime = 9
  Clicks = 4
INVARIANTS
  UploadsSafe
  AnswersMatch
  CrashesTrue
  ObstaclesPlayed
PROPERTIES
  UserNotLockedOut
  CommandsEnd
  CrashesShown
CHECK_DEADLOCK FALSE
