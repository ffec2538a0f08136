\* A new scenario while an obstacle is on.
SPECIFICATION Spec
CONSTANTS
  Scenarios <- Files
  time_step_size = 2
  future_time_steps = 10
  Final = 4
  LastTime = 9
  Clicks = 4
INVARIANTS
  TogglesShowStates
CHECK_DEADLOCK FALSE
