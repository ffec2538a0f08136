\* Is every list answered in simulated time?
SPECIFICATION FairSpec
CONSTANTS
  v1 = v1
  v2 = v2
  g1 = g1
  g2 = g2
  Vehicle = {v1}
  Simulated = TRUE
  Cancels = {v1}
  Goal = {}
PROPERTIES
  ListIsAnswered
CHECK_DEADLOCK FALSE
