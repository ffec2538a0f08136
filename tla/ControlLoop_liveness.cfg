\* One HLC: goal states that come while it comes online, plannings, and the
\* stop signal.
SPECIFICATION FairSpec
CONSTANTS
  v1 = v1
  v2 = v2
  g1 = g1
  g2 = g2
  Vehicle = {v1}
  Simulated = FALSE
  Cancels = {v1}
  Goal = {g1, g2}
INVARIANTS
  GoalsOnce
PROPERTIES
  PlanningAlone
  LoopEnds
CHECK_DEADLOCK FALSE
