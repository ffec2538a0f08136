\* Does the stop signal end any HLC?
SPECIFICATION FairSpec
CONSTANTS
  v1 = v1
  v2 = v2
  g1 = g1
  g2 = g2
  Vehicle = {v1}
  Simulated = FALSE
  Cancels = {v1}
  Goal = {}
PROPERTIES
  StopEndsStart
CHECK_DEADLOCK FALSE
